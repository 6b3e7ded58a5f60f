------------------------------- MODULE DropFifo -------------------------------
(***************************************************************************)
(* What a receive buffer promises: a bounded queue of bytes.  A byte       *)
(* accepted is appended, one handed over is the oldest one; a byte that    *)
(* comes when the queue is full takes the place of the oldest one.         *)
(***************************************************************************)
EXTENDS Naturals, Sequences

CONSTANTS
    Byte,      \* the values of a byte
    Capacity,  \* the most bytes the queue holds
    Nothing    \* no byte yet

VARIABLES
    queue,     \* the bytes accepted and not yet handed over, oldest first
    put,       \* the last byte accepted
    got        \* the last byte handed over

fifovars == <<queue, put, got>>

Init == queue = <<>> /\ put = Nothing /\ got = Nothing

Put ==
    /\ Len(queue) < Capacity
    /\ put' \in Byte
    /\ queue' = Append(queue, put')
    /\ UNCHANGED got

Overwrite ==
    /\ Len(queue) = Capacity
    /\ put' \in Byte
    /\ queue' = Append(Tail(queue), put')
    /\ UNCHANGED got

Get ==
    /\ queue # <<>>
    /\ got' = Head(queue)
    /\ queue' = Tail(queue)
    /\ UNCHANGED put

DropSpec == Init /\ [][Put \/ Overwrite \/ Get]_fifovars
=============================================================================
