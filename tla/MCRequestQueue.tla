---------------------------- MODULE MCRequestQueue ----------------------------
(***************************************************************************)
(* Instances of RequestQueue: a chip of two or three pages of two sectors,  *)
(* and the shapes of a bio that the driver treats differently: a read, a    *)
(* write of one sector that shares its page, one that runs into the next    *)
(* page, and one of a whole page.                                           *)
(***************************************************************************)
EXTENDS RequestQueue, TLC

TaskSymmetry == Permutations(Tasks)

IO(o, s, n) == [op |-> o, start |-> s, len |-> n]
MCShapes == {IO("read", 1, 2), IO("write", 1, 1), IO("write", 1, 2), IO("write", 2, 2)}
MCPartial == {IO("write", 2, 1), IO("write", 3, 1)}
=============================================================================
