-------------------------------- MODULE MCPipe --------------------------------
(***************************************************************************)
(* Pipe with a buffer of three slots, one task writing and one reading.    *)
(***************************************************************************)
EXTENDS Pipe

CONSTANTS writer, reader

\* What the heap may have left in the fields: any size, any indices and any lock word.
MCFresh == [size : Index, head : Index, tail : Index, word : Tasks \cup {Free, Taken}]
=============================================================================
