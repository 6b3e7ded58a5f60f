-------------------------------- MODULE MCHeap --------------------------------
(***************************************************************************)
(* A heap small enough to be filled by five blocks of the smallest size or *)
(* two of the largest, so that requests fail, fit exactly, leave a rest    *)
(* too small to split off, and are released in every order.                *)
(***************************************************************************)
EXTENDS Heap

\* Sizes in words of 4 bytes: smalloc rounds to two of them, __task_malloc to one.
MCSizes == [best |-> {2, 4}, first |-> {1, 3, 6}]
=============================================================================
