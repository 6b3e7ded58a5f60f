--------------------------------- MODULE MCVfs --------------------------------
(***************************************************************************)
(* Vfs with a device and two more names, paths of one and two components.  *)
(***************************************************************************)
EXTENDS Vfs
=============================================================================
