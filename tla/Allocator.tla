------------------------------ MODULE Allocator ------------------------------
(***************************************************************************)
(* What a heap promises its callers: memory it has handed out lies in the  *)
(* arena and belongs to one caller only until it is given back.  A request *)
(* may fail.                                                               *)
(***************************************************************************)
EXTENDS Naturals

CONSTANTS Arena,   \* the addresses run from 0 to Arena - 1
          Sizes,   \* the sizes asked for
          Callers  \* those who ask

VARIABLE held      \* the pieces handed out: first address, size, by whom

Piece == [addr : 0 .. Arena - 1, size : Sizes, by : Callers]

Apart(p, q) == p.addr + p.size <= q.addr \/ q.addr + q.size <= p.addr

Init == held = {}

Take ==
    \E p \in Piece :
        /\ p.addr + p.size <= Arena
        /\ \A q \in held : Apart(p, q)
        /\ held' = held \cup {p}

Give == \E p \in held : held' = held \ {p}

Spec == Init /\ [][Take \/ Give]_held
=============================================================================
