--------------------------------- MODULE Pipe ---------------------------------
(***************************************************************************)
(* The ring buffer of a pipefs node (fs/pipefs/pipefs.c) under its spin    *)
(* lock: read and write calls move bytes one at a time, each byte inside   *)
(* spin_lock/spin_unlock, and retry after __delay(1) while the buffer is   *)
(* empty or full.  The loads and stores of a call are separate steps, since *)
(* SpinLock does not keep a second task out.                               *)
(*                                                                         *)
(* pipefs_open allocates the buffer with kmalloc and sets none of its      *)
(* fields: size, head, tail and the lock word start as whatever the memory *)
(* held (Fresh).  Nothing of a call that indexes past the array is         *)
(* followed: the model stops there.                                        *)
(*                                                                         *)
(* The callers are kernel tasks.  A call that comes through sys_read or    *)
(* sys_write runs in the SVC handler, where __delay lets no other task     *)
(* run: its steps are those of this model with no other task's in between, *)
(* and once refused it retries for ever.                                   *)
(***************************************************************************)
EXTENDS Integers

CONSTANTS
    Tasks, Free, Taken, MaxDepth,  \* of the spin lock; no call nests it
    Writers, Readers,  \* the tasks that call write and read
    Byte,              \* the values of a byte
    Nothing,           \* what an untouched slot or register holds
    Cap,               \* PIPE_BUFFER_SIZE: 1024 in the build
    WordMod,           \* number of values of a size_t: 2^32
    Fresh,             \* what kmalloc may leave in size, head, tail and lock
    MaxCall            \* the largest size argument of a call

Index == 0 .. WordMod - 1

ASSUME PipeAssumption ==
    /\ Tasks = Writers \cup Readers
    /\ MaxDepth = 1
    /\ Nothing \notin Byte
    /\ Cap \in Nat \ {0, 1}
    /\ WordMod \in Nat
    /\ WordMod > Cap
    /\ MaxCall \in Nat \ {0}
    /\ Fresh \subseteq [size : Index, head : Index, tail : Index, word : Tasks \cup {Free, Taken}]

VARIABLES
    word, at, depth,   \* of the spin lock
    buffer,            \* buf->buffer
    size, head, tail,  \* buf->size, buf->head, buf->tail
    step,              \* where each task stands in its call
    op,                \* "read" or "write"
    left,              \* bytes of the call still to move
    mine,              \* the index the task has loaded: head or tail
    byte               \* data[i] of the task's call

SL == INSTANCE SpinLock

lockvars == <<word, at, depth>>
ringvars == <<buffer, size, head, tail>>
callvars == <<step, op, left, mine, byte>>
vars == <<lockvars, ringvars, callvars>>

Step == {"idle", "lock", "test", "copy", "advance", "unlock", "refuse", "wait"}

TypeOK ==
    /\ SL!TypeOK
    /\ buffer \in [0 .. Cap - 1 -> Byte \cup {Nothing}]
    /\ size \in Index /\ head \in Index /\ tail \in Index
    /\ step \in [Tasks -> Step]
    /\ op \in [Tasks -> {"read", "write"}]
    /\ left \in [Tasks -> 0 .. MaxCall]
    /\ mine \in [Tasks -> Index]
    /\ byte \in [Tasks -> Byte \cup {Nothing}]

Init ==
    /\ \E f \in Fresh : size = f.size /\ head = f.head /\ tail = f.tail /\ word = f.word
    /\ at = [t \in Tasks |-> "out"]
    /\ depth = [t \in Tasks |-> 0]
    /\ buffer = [i \in 0 .. Cap - 1 |-> Nothing]
    /\ step = [t \in Tasks |-> "idle"]
    /\ op = [t \in Tasks |-> "read"]
    /\ left = [t \in Tasks |-> 0]
    /\ mine = [t \in Tasks |-> 0]
    /\ byte = [t \in Tasks |-> Nothing]

\* (i + 1) % buf->size on size_t; the core's division by 0 yields 0, so that a
\* remainder by 0 is the dividend.
Succ(i) == LET n == (i + 1) % WordMod IN IF size = 0 THEN n ELSE n % size

-----------------------------------------------------------------------------
\* pipefs_read or pipefs_write is called for n bytes.
Begin(t, o, n) ==
    /\ step[t] = "idle"
    /\ step' = [step EXCEPT ![t] = "lock"]
    /\ op' = [op EXCEPT ![t] = o]
    /\ left' = [left EXCEPT ![t] = n]
    /\ IF o = "write" THEN \E b \in Byte : byte' = [byte EXCEPT ![t] = b]
       ELSE UNCHANGED byte
    /\ UNCHANGED <<lockvars, ringvars, mine>>

\* spin_lock(&buf->lock), at the head of pipe_buffer_read and pipe_buffer_write.
Lock(t) ==
    /\ step[t] = "lock"
    /\ SL!Enter(t) \/ SL!Locking(t)
    /\ UNCHANGED <<ringvars, callvars>>

\* The call loads the index it owns: head to write, tail to read.
Load(t) ==
    /\ step[t] = "lock"
    /\ at[t] = "out"
    /\ SL!Holds(t)
    /\ mine' = [mine EXCEPT ![t] = IF op[t] = "write" THEN head ELSE tail]
    /\ step' = [step EXCEPT ![t] = "test"]
    /\ UNCHANGED <<lockvars, ringvars, op, left, byte>>

Refused(t) == IF op[t] = "write" THEN Succ(mine[t]) = tail ELSE mine[t] = head

\* Slip: the writer moves head on before it stores the byte.
Test_HeadFirst(t) ==
    /\ step[t] = "test"
    /\ step' = [step EXCEPT ![t] = IF Refused(t) THEN "refuse" ELSE "copy"]
    /\ head' = IF op[t] = "write" /\ ~Refused(t) THEN Succ(mine[t]) ELSE head
    /\ UNCHANGED <<lockvars, buffer, size, tail, op, left, mine, byte>>

\* Full or empty: the call of pipe_buffer_read/_write fails with -1.
Test(t) ==
    /\ step[t] = "test"
    /\ step' = [step EXCEPT ![t] = IF Refused(t) THEN "refuse" ELSE "copy"]
    /\ UNCHANGED <<lockvars, ringvars, op, left, mine, byte>>

\* buf->buffer[head] = data, or data[0] = buf->buffer[tail].
Copy(t) ==
    /\ step[t] = "copy"
    /\ mine[t] \in DOMAIN buffer
    /\ IF op[t] = "write"
       THEN buffer' = [buffer EXCEPT ![mine[t]] = byte[t]] /\ UNCHANGED byte
       ELSE byte' = [byte EXCEPT ![t] = buffer[mine[t]]] /\ UNCHANGED buffer
    /\ step' = [step EXCEPT ![t] = "advance"]
    /\ UNCHANGED <<lockvars, size, head, tail, op, left, mine>>

\* buf->head = ..., or buf->tail = ...: the slot is the other side's from now on.
Advance(t) ==
    /\ step[t] = "advance"
    /\ IF op[t] = "write"
       THEN head' = Succ(mine[t]) /\ UNCHANGED tail
       ELSE tail' = Succ(mine[t]) /\ UNCHANGED head
    /\ left' = [left EXCEPT ![t] = @ - 1]
    /\ step' = [step EXCEPT ![t] = "unlock"]
    /\ UNCHANGED <<lockvars, buffer, size, op, mine, byte>>

\* The next byte of the caller's data.
NextByte(t) ==
    IF op[t] = "write" THEN \E b \in Byte : byte' = [byte EXCEPT ![t] = b] ELSE UNCHANGED byte

\* spin_unlock after a byte has moved: pipefs_read/_write go on or return.
Unlock(t) ==
    /\ step[t] = "unlock"
    /\ SL!Unlock(t)
    /\ step' = [step EXCEPT ![t] = IF left[t] = 0 THEN "idle" ELSE "lock"]
    /\ NextByte(t)
    /\ UNCHANGED <<ringvars, op, left, mine>>

\* Slip: the byte that could not be moved is counted.
Refuse_Counts(t) ==
    /\ step[t] = "refuse"
    /\ SL!Unlock(t)
    /\ step' = [step EXCEPT ![t] = "wait"]
    /\ left' = [left EXCEPT ![t] = @ - 1]
    /\ UNCHANGED <<ringvars, op, mine, byte>>

\* spin_unlock on the way out with -1; pipefs_read/_write call __delay(1).
Refuse(t) ==
    /\ step[t] = "refuse"
    /\ SL!Unlock(t)
    /\ step' = [step EXCEPT ![t] = "wait"]
    /\ UNCHANGED <<ringvars, op, left, mine, byte>>

\* __delay(1) has returned: the same byte is tried again.
Retry(t) ==
    /\ step[t] = "wait"
    /\ step' = [step EXCEPT ![t] = "lock"]
    /\ UNCHANGED <<lockvars, ringvars, op, left, mine, byte>>

Call(t) ==
    \/ Lock(t) \/ Load(t) \/ Test(t) \/ Copy(t) \/ Advance(t)
    \/ Unlock(t) \/ Refuse(t) \/ Retry(t)

Next ==
    \/ \E n \in 1 .. MaxCall :
          \/ \E t \in Writers : Begin(t, "write", n)
          \/ \E t \in Readers : Begin(t, "read", n)
    \/ \E t \in Tasks : Call(t)

Spec == Init /\ [][Next]_vars

-----------------------------------------------------------------------------
\* A memory image with which the indices stay in the ring: both below size, or the size
\* 0 of a zeroed block, with which they never wrap.
InRing == size = 0 \/ (head < size /\ tail < size)

\* Two calls never touch the same slot at the same time.
NoSlotShared ==
    \A t, u \in Tasks :
        step[t] = "copy" /\ step[u] = "copy" /\ mine[t] = mine[u] => t = u

\* With such a memory image the reader never loads from a slot that the writer is
\* storing into, although the lock lets both of them in: the order of the tests, the
\* store and the move of an index in pipe_buffer_read and pipe_buffer_write does it.
SlotsApart == InRing => []NoSlotShared

\* A call indexes the array buffer[PIPE_BUFFER_SIZE] within its bounds: size is "the
\* total capacity of the buffer" (pipe_fs_i.h:22).
IndexInBuffer == \A t \in Tasks : step[t] = "copy" => mine[t] < Cap
=============================================================================
