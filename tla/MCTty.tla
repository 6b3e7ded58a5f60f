--------------------------------- MODULE MCTty --------------------------------
(***************************************************************************)
(* Tty with a ring of three slots and two readers.                         *)
(***************************************************************************)
EXTENDS Tty

CONSTANTS r1, r2
=============================================================================
