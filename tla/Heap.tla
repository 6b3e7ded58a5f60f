--------------------------------- MODULE Heap ---------------------------------
(***************************************************************************)
(* One haper2 heap (include/linux/mempool_super_haper.h): a list of blocks *)
(* laid end to end in the arena, each a header followed by its space.      *)
(* best_fit_alloc and first_fit_alloc search the list and split a block,   *)
(* free_haper_block finds the block of an address and merges it with its   *)
(* free neighbours.  Every iteration of a loop and every call that changes *)
(* the list is a step of its caller.                                       *)
(*                                                                         *)
(* The calls are bracketed by the heap's spin lock, which does not keep a  *)
(* second caller out (SpinLock, MutualExclusion): the model has no lock,   *)
(* and Callers says who may be inside the heap at the same time.           *)
(***************************************************************************)
EXTENDS Integers, FiniteSets

CONSTANTS
    Callers,   \* the tasks that may be inside the heap together
    Arena,     \* space_size
    Hdr,       \* sizeof(struct memory_block): 20 bytes
    Min,       \* minimum_size: 8 bytes
    Sizes,     \* for "best" and "first", the sizes asked for after the rounding of
               \* smalloc (8 bytes) and __task_malloc (4 bytes)
    None       \* the NULL block

ASSUME HeapAssumption ==
    /\ Hdr \in Nat \ {0}
    /\ Min \in Nat
    /\ Arena \in Nat
    /\ Arena >= Hdr
    /\ Sizes \in [{"best", "first"} -> SUBSET (Nat \ {0})]
    /\ None \notin Int

VARIABLES
    mem,    \* the headers in memory, by address
    held,   \* memory handed out: the block's address, the size asked for, by whom
    pc,     \* where each caller stands
    fit,    \* "best" or "first"
    req,    \* the size asked for, or the address to free
    curr,   \* curr, the block the search looks at
    found,  \* best_block, or the block being freed
    seen    \* block_size in free_memory

callvars == <<pc, fit, req, curr, found, seen>>
vars == <<mem, held, callvars>>

\* A call returns; its locals are gone.
Return(c) ==
    /\ pc' = [pc EXCEPT ![c] = "idle"]
    /\ fit' = [fit EXCEPT ![c] = "best"]
    /\ req' = [req EXCEPT ![c] = 0]
    /\ curr' = [curr EXCEPT ![c] = None]
    /\ found' = [found EXCEPT ![c] = None]
    /\ seen' = [seen EXCEPT ![c] = 0]

Addr == 0 .. Arena - 1
AddrOrNone == Addr \cup {None}
Header == [size : 0 .. Arena, next : AddrOrNone, priv : AddrOrNone, used : BOOLEAN]

\* clean_block leaves zeroes: no size, no links, not in use.
Cleaned == [size |-> 0, next |-> None, priv |-> None, used |-> FALSE]
Block(a) == IF a \in DOMAIN mem THEN mem[a] ELSE Cleaned

\* haper2_init
Init ==
    /\ mem = [a \in {0} |-> [size |-> Arena - Hdr, next |-> None, priv |-> None, used |-> FALSE]]
    /\ held = {}
    /\ pc = [c \in Callers |-> "idle"]
    /\ fit = [c \in Callers |-> "best"]
    /\ req = [c \in Callers |-> 0]
    /\ curr = [c \in Callers |-> None]
    /\ found = [c \in Callers |-> None]
    /\ seen = [c \in Callers |-> 0]

-----------------------------------------------------------------------------
(* best_fit_alloc and first_fit_alloc.                                     *)

Alloc(c, f, n) ==
    /\ pc[c] = "idle"
    /\ pc' = [pc EXCEPT ![c] = "search"]
    /\ fit' = [fit EXCEPT ![c] = f]
    /\ req' = [req EXCEPT ![c] = n]
    /\ curr' = [curr EXCEPT ![c] = 0]
    /\ found' = [found EXCEPT ![c] = None]
    /\ UNCHANGED <<mem, held, seen>>

\* Slip: the use flag is not looked at.
Better_Used(b, c) ==
    /\ Block(b).size >= req[c]
    /\ found[c] # None => Block(b).size <= Block(found[c]).size

\* Slip: the largest block, by a comparison the wrong way round.
Better_Largest(b, c) ==
    /\ ~Block(b).used
    /\ Block(b).size >= req[c]
    /\ found[c] # None => Block(b).size >= Block(found[c]).size

\* The best fit so far: the smallest block, and the last of several such.
Better(b, c) ==
    /\ ~Block(b).used
    /\ Block(b).size >= req[c]
    /\ found[c] # None => Block(b).size <= Block(found[c]).size

Search(c) ==
    /\ pc[c] = "search"
    /\ curr[c] # None
    /\ LET b == curr[c] IN
        /\ found' = [found EXCEPT ![c] = IF Better(b, c) THEN b ELSE @]
        /\ curr' = [curr EXCEPT ![c] =
                       IF Better(b, c) /\ fit[c] = "first" THEN None ELSE Block(b).next]
    /\ UNCHANGED <<mem, held, pc, fit, req, seen>>

Fail(c) ==
    /\ pc[c] = "search"
    /\ curr[c] = None
    /\ found[c] = None
    /\ Return(c)
    /\ UNCHANGED <<mem, held>>

\* Slip: the rest's successor keeps its priv.
Incise_OneSided(b, n) ==
    LET off == Hdr + n
        new == b + off
        old == Block(b)
        rest == [size |-> old.size - off, next |-> old.next, priv |-> b, used |-> FALSE]
    IN  mem' = [a \in DOMAIN mem \cup {new} |->
                   IF a = b THEN [size |-> n, next |-> new, priv |-> old.priv, used |-> old.used]
                   ELSE IF a = new THEN rest
                   ELSE mem[a]]

\* incise_free_block: b keeps n bytes, a new free block takes the rest.
Incise(b, n) ==
    LET off == Hdr + n
        new == b + off
        old == Block(b)
        rest == [size |-> old.size - off, next |-> old.next, priv |-> b, used |-> FALSE]
    IN  mem' = [a \in DOMAIN mem \cup {new} |->
                   IF a = b THEN [size |-> n, next |-> new, priv |-> old.priv, used |-> old.used]
                   ELSE IF a = new THEN rest
                   ELSE IF a = old.next THEN [mem[a] EXCEPT !.priv = new]
                   ELSE mem[a]]

Margin(c) == IF fit[c] = "best" THEN Min ELSE 0

\* Slip: the header of the rest is forgotten.
Split_NoHeader(c) ==
    /\ pc[c] = "search"
    /\ curr[c] = None
    /\ found[c] # None
    /\ LET b == found[c] IN
        IF Block(b).size >= req[c] + Margin(c) /\ ~Block(b).used
        THEN Incise(b, req[c]) ELSE UNCHANGED mem
    /\ pc' = [pc EXCEPT ![c] = "mark"]
    /\ UNCHANGED <<held, fit, req, curr, found, seen>>

\* The block is split if the rest is worth a block (best fit), or holds one at all
\* (first fit: the rest may have no space left); incise_free_block refuses a block
\* that has become used or too small meanwhile.
Split(c) ==
    /\ pc[c] = "search"
    /\ curr[c] = None
    /\ found[c] # None
    /\ LET b == found[c] IN
        IF Block(b).size >= req[c] + Hdr + Margin(c) /\ ~Block(b).used
        THEN Incise(b, req[c]) ELSE UNCHANGED mem
    /\ pc' = [pc EXCEPT ![c] = "mark"]
    /\ UNCHANGED <<held, fit, req, curr, found, seen>>
Mark(c) ==
    /\ pc[c] = "mark"
    /\ mem' = [a \in DOMAIN mem \cup {found[c]} |->
                  IF a = found[c] THEN [Block(a) EXCEPT !.used = TRUE] ELSE mem[a]]
    /\ held' = held \cup {[addr |-> found[c], size |-> req[c], by |-> c]}
    /\ Return(c)

-----------------------------------------------------------------------------
(* free_haper_block and free_memory.                                       *)

Walk(c, a) ==
    /\ pc[c] = "idle"
    /\ pc' = [pc EXCEPT ![c] = "find"]
    /\ req' = [req EXCEPT ![c] = a]
    /\ curr' = [curr EXCEPT ![c] = 0]
    /\ found' = [found EXCEPT ![c] = None]
    /\ UNCHANGED <<mem, fit, seen>>

\* A caller gives memory back.
Free(c) ==
    \E p \in held :
        /\ Walk(c, p.addr)
        /\ held' = held \ {p}

\* sfree shows every heap every address, those of the other heaps too.
FreeElsewhere(c) ==
    /\ Walk(c, Arena)
    /\ UNCHANGED held

Find(c) ==
    /\ pc[c] = "find"
    /\ curr[c] # None
    /\ IF curr[c] = req[c]
       THEN /\ pc' = [pc EXCEPT ![c] = "merge"]
            /\ found' = [found EXCEPT ![c] = curr[c]]
            /\ UNCHANGED curr
       ELSE /\ curr' = [curr EXCEPT ![c] = Block(curr[c]).next]
            /\ UNCHANGED <<pc, found>>
    /\ UNCHANGED <<mem, held, fit, req, seen>>

NotFound(c) ==
    /\ pc[c] = "find"
    /\ curr[c] = None
    /\ Return(c)
    /\ UNCHANGED <<mem, held>>

IsFree(a) == a # None /\ ~Block(a).used

\* free_block: a takes over its successor n, which clean_block wipes.
Absorb(a, n) ==
    LET old == Block(n)
    IN  mem' = [x \in (DOMAIN mem \ (n .. n + Hdr + old.size - 1)) \cup {a} |->
                   IF x = a
                   THEN [size |-> Block(a).size + Hdr + old.size, next |-> old.next,
                         priv |-> Block(a).priv, used |-> FALSE]
                   ELSE IF x = old.next THEN [mem[x] EXCEPT !.priv = a]
                   ELSE mem[x]]

\* free_block between two blocks in use.
Release(b) ==
    mem' = [a \in DOMAIN mem |-> IF a = b THEN [mem[a] EXCEPT !.used = FALSE] ELSE mem[a]]

\* Slip: the loop of free_memory runs once.
Merge_Once(c) ==
    /\ pc[c] = "merge"
    /\ LET b == found[c]
           prev == Block(b).priv
           nxt == Block(b).next
       IN  \/ IsFree(prev) /\ Absorb(prev, b)
           \/ ~IsFree(prev) /\ IsFree(nxt) /\ Absorb(b, nxt)
           \/ ~IsFree(prev) /\ ~IsFree(nxt) /\ Release(b)
    /\ Return(c)
    /\ UNCHANGED held

\* Slip: block_size is not taken down, so that it never equals the size.
Merge_Unseen(c) ==
    /\ pc[c] = "merge"
    /\ seen[c] # Block(found[c]).size
    /\ LET b == found[c]
           prev == Block(b).priv
           nxt == Block(b).next
       IN  \/ IsFree(prev) /\ Absorb(prev, b) /\ found' = [found EXCEPT ![c] = prev]
           \/ ~IsFree(prev) /\ IsFree(nxt) /\ Absorb(b, nxt) /\ UNCHANGED found
           \/ ~IsFree(prev) /\ ~IsFree(nxt) /\ Release(b) /\ UNCHANGED found
    /\ UNCHANGED <<held, pc, fit, req, curr, seen>>

\* One round of the loop of free_memory: its test, and free_block.
Merge(c) ==
    /\ pc[c] = "merge"
    /\ seen[c] # Block(found[c]).size
    /\ seen' = [seen EXCEPT ![c] = Block(found[c]).size]
    /\ LET b == found[c]
           prev == Block(b).priv
           nxt == Block(b).next
       IN  \/ IsFree(prev) /\ Absorb(prev, b) /\ found' = [found EXCEPT ![c] = prev]
           \/ ~IsFree(prev) /\ IsFree(nxt) /\ Absorb(b, nxt) /\ UNCHANGED found
           \/ ~IsFree(prev) /\ ~IsFree(nxt) /\ Release(b) /\ UNCHANGED found
    /\ UNCHANGED <<held, pc, fit, req, curr>>

Merged(c) ==
    /\ pc[c] = "merge"
    /\ seen[c] = Block(found[c]).size
    /\ Return(c)
    /\ UNCHANGED <<mem, held>>

-----------------------------------------------------------------------------
Work(c) ==
    \/ Search(c) \/ Fail(c) \/ Split(c) \/ Mark(c)
    \/ Find(c) \/ NotFound(c) \/ Merge(c) \/ Merged(c)

Call(c) ==
    \/ \E f \in {"best", "first"} : \E n \in Sizes[f] : Alloc(c, f, n)
    \/ Free(c) \/ FreeElsewhere(c)

Next == \E c \in Callers : Work(c) \/ Call(c)

Spec == Init /\ [][Next]_vars

\* A caller inside the heap keeps going: it neither waits nor sleeps there.
FairSpec == Spec /\ \A c \in Callers : WF_vars(Work(c))

-----------------------------------------------------------------------------
Idle == \A c \in Callers : pc[c] = "idle"

\* The state of the list and of its callers.
TypeOK ==
    /\ DOMAIN mem \subseteq Addr
    /\ \A a \in DOMAIN mem : mem[a] \in Header
    /\ held \subseteq [addr : Addr, size : Sizes["best"] \cup Sizes["first"], by : Callers]
    /\ pc \in [Callers -> {"idle", "search", "mark", "find", "merge"}]
    /\ fit \in [Callers -> {"best", "first"}]
    /\ req \in [Callers -> Nat]
    /\ curr \in [Callers -> AddrOrNone]
    /\ found \in [Callers -> AddrOrNone]
    /\ seen \in [Callers -> 0 .. Arena]

\* The blocks lie end to end from the first address to the last, whatever step an
\* allocation or a release stands at, and next and priv_block say so both ways
\* (incise_free_block, free_block).
EndToEnd(m) ==
    /\ 0 \in DOMAIN m
    /\ \A a \in DOMAIN m :
        LET end == a + Hdr + m[a].size
        IN  /\ IF m[a].next = None THEN end = Arena
               ELSE m[a].next = end /\ end \in DOMAIN m /\ m[end].priv = a
            /\ IF m[a].priv = None THEN a = 0
               ELSE m[a].priv \in DOMAIN m /\ m[m[a].priv].next = a
            /\ \A b \in DOMAIN m : a < b => end <= b
Tiled == EndToEnd(mem)

\* Between calls no two neighbours are both free (the loop of free_memory).
NoFreeNeighbours ==
    Idle => \A a \in DOMAIN mem : mem[a].used \/ ~IsFree(mem[a].next)

\* Between calls the blocks in use are those handed out and not given back, each as
\* large as was asked for: none is lost and none is free in somebody's hands.
UsedIsHeld ==
    Idle => /\ {a \in DOMAIN mem : mem[a].used} = {p.addr : p \in held}
            /\ \A p \in held : mem[p.addr].size >= p.size

\* A request fails only when no free block has the room, and best_fit_alloc takes a
\* smallest block that does.
FitFound ==
    \A c \in Callers : pc[c] = "search" /\ curr[c] = None =>
        LET fits == {a \in DOMAIN mem : ~mem[a].used /\ mem[a].size >= req[c]}
        IN  IF found[c] = None THEN fits = {}
            ELSE /\ found[c] \in fits
                 /\ fit[c] = "best" => \A a \in fits : mem[found[c]].size <= mem[a].size

\* What the callers see is an allocator: memory handed out is in the arena and is
\* nobody else's (best_fit_alloc, first_fit_alloc, free_haper_block).
Abstract == INSTANCE Allocator WITH
    held <- {[addr |-> p.addr + Hdr, size |-> p.size, by |-> p.by] : p \in held},
    Sizes <- Sizes["best"] \cup Sizes["first"]
AllocatorSpec == Abstract!Spec

\* Every call returns: the searches reach the end of the list and the loop of
\* free_memory ends when the block has stopped growing.
CallsReturn == \A c \in Callers : pc[c] # "idle" ~> pc[c] = "idle"
=============================================================================
