------------------------------ MODULE MCSpinLock ------------------------------
(***************************************************************************)
(* SpinLock with three tasks, one for the window between the two stores,   *)
(* one that holds the lock and one that comes in, that nest at most twice. *)
(***************************************************************************)
EXTENDS SpinLock
=============================================================================
