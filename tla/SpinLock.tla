------------------------------- MODULE SpinLock -------------------------------
(***************************************************************************)
(* The spin lock of lib/lock/spinlock.c with the try_atomic_set_flag of    *)
(* m33_spinlock.c (atomic on both cores).  spinlock_t is a union: flag and *)
(* owner are the same word.  spin_lock takes the lock when the word is not *)
(* 1, storing 1, and then overwrites that 1 with the caller's task         *)
(* pointer, in a second store; spin_unlock stores 0.                       *)
(*                                                                         *)
(* A task may lock again while it holds the lock, as mount.c does on its   *)
(* error paths: depth counts the calls of spin_lock it has not yet undone. *)
(***************************************************************************)
EXTENDS Integers

CONSTANTS
    Tasks,     \* the callers; a task stands for its task_struct pointer
    Free,      \* the word 0
    Taken,     \* the word 1
    MaxDepth   \* bound on the nesting of spin_lock calls by one task

ASSUME WordAssumption ==
    /\ Free # Taken
    /\ Free \notin Tasks
    /\ Taken \notin Tasks

ASSUME DepthAssumption == MaxDepth \in Nat \ {0}

VARIABLES
    word,    \* lock->flag and lock->owner
    at,      \* where each task stands in _spin_lock; "out": not in it
    depth    \* acquisitions of each task not yet undone by spin_unlock

lockvars == <<word, at, depth>>

TypeOK ==
    /\ word \in Tasks \cup {Free, Taken}
    /\ at \in [Tasks -> {"out", "try", "own", "test", "delay"}]
    /\ depth \in [Tasks -> 0 .. MaxDepth]

\* spin_lock_init
Init ==
    /\ word = Free
    /\ at = [t \in Tasks |-> "out"]
    /\ depth = [t \in Tasks |-> 0]

Holds(t) == depth[t] > 0
Goto(t, step) == at' = [at EXCEPT ![t] = step]

Enter(t) ==
    /\ at[t] = "out"
    /\ depth[t] < MaxDepth
    /\ Goto(t, "try")
    /\ UNCHANGED <<word, depth>>

\* Slip: any word but 0 refuses the lock.
Try_NotFree(t) ==
    /\ at[t] = "try"
    /\ IF word = Free
       THEN word' = Taken /\ Goto(t, "own")
       ELSE UNCHANGED word /\ Goto(t, "test")
    /\ UNCHANGED depth

\* try_atomic_set_flag(&lock->flag, 1)
Try(t) ==
    /\ at[t] = "try"
    /\ IF word # Taken
       THEN word' = Taken /\ Goto(t, "own")
       ELSE UNCHANGED word /\ Goto(t, "test")
    /\ UNCHANGED depth

Acquired(t) ==
    /\ Goto(t, "out")
    /\ depth' = [depth EXCEPT ![t] = @ + 1]

\* lock->owner = get_current_task(): the same word.
Own(t) ==
    /\ at[t] = "own"
    /\ word' = t
    /\ Acquired(t)

\* The try failed: the lock is the caller's own, or it is given time.
Test(t) ==
    /\ at[t] = "test"
    /\ IF word = t THEN Acquired(t) ELSE Goto(t, "delay") /\ UNCHANGED depth
    /\ UNCHANGED word

\* __delay(5) has returned.
Delay(t) ==
    /\ at[t] = "delay"
    /\ Goto(t, "try")
    /\ UNCHANGED <<word, depth>>

Locking(t) == Try(t) \/ Own(t) \/ Test(t) \/ Delay(t)

\* Slip: a second spin_unlock by a task that no longer holds the lock.
Unlock_Twice(t) ==
    /\ at[t] = "out"
    /\ word' = Free
    /\ depth' = [depth EXCEPT ![t] = @ - 1]
    /\ UNCHANGED at

\* Slip: the word is left alone.
Unlock_Keep(t) ==
    /\ at[t] = "out"
    /\ Holds(t)
    /\ depth' = [depth EXCEPT ![t] = @ - 1]
    /\ UNCHANGED <<word, at>>

\* Slip: a word that is not the 1 which the try stored is left alone.
Unlock_Flag(t) ==
    /\ at[t] = "out"
    /\ Holds(t)
    /\ word' = IF word = Taken THEN Free ELSE word
    /\ depth' = [depth EXCEPT ![t] = @ - 1]
    /\ UNCHANGED at

\* _spin_unlock: whoever holds the lock now, the word becomes 0.
Unlock(t) ==
    /\ at[t] = "out"
    /\ Holds(t)
    /\ word' = Free
    /\ depth' = [depth EXCEPT ![t] = @ - 1]
    /\ UNCHANGED at

Next == \E t \in Tasks : Enter(t) \/ Locking(t) \/ Unlock(t)

Spec == Init /\ [][Next]_lockvars

-----------------------------------------------------------------------------
\* A task pointer in the word names a task that holds the lock: no unlock is ever
\* undone by a late owner store (the store after the try in _spin_lock).
WordNamesHolder == \A t \in Tasks : word = t => Holds(t)

\* When every task has unlocked as often as it has locked and none is inside spin_lock,
\* the word is what spin_lock_init left: no order of owner stores and unlocks, nested
\* or of two tasks at once, leaves a lock behind that nobody holds.
LockLeftFree == (\A t \in Tasks : at[t] = "out" /\ ~Holds(t)) => word = Free

\* The test for the caller's own lock never succeeds ("this does not normally
\* happen", spinlock.c:26): a nested spin_lock is granted by the try.
OwnTestFails == \A t \in Tasks : at[t] = "test" => word # t

\* At most one task holds the lock: what "atomic with respect to the spinlock"
\* (lockref.h:8) asks of it.
MutualExclusion == \A t, u \in Tasks : Holds(t) /\ Holds(u) => t = u
=============================================================================
