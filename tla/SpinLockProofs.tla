---------------------------- MODULE SpinLockProofs ----------------------------
(***************************************************************************)
(* What the spin lock does guarantee, for any number of tasks and any      *)
(* nesting.  The invariant says who is behind every value of the word: a   *)
(* pointer is a holder's, and a 1 is that of a task between its two stores.*)
(***************************************************************************)
EXTENDS SpinLock, TLAPS

\* A task inside spin_lock has room for one more nested acquisition.
RoomInv == \A t \in Tasks : at[t] # "out" => depth[t] < MaxDepth

\* Only a task between the two stores of _spin_lock leaves the word at 1.
WindowInv == word = Taken => \E t \in Tasks : at[t] = "own"

Inv == TypeOK /\ RoomInv /\ WordNamesHolder /\ WindowInv /\ OwnTestFails

\* Every step of _spin_lock and _spin_unlock preserves the invariant.
LEMMA LockStep == ASSUME Inv, [Next]_lockvars PROVE Inv'
  <1> USE WordAssumption, DepthAssumption
      DEF Inv, TypeOK, RoomInv, WordNamesHolder, WindowInv, OwnTestFails, Holds, Goto, Acquired
  <1>1. ASSUME NEW t \in Tasks, Enter(t) PROVE Inv'
    BY <1>1 DEF Enter
  <1>2. ASSUME NEW t \in Tasks, Try(t) PROVE Inv'
    BY <1>2 DEF Try
  <1>3. ASSUME NEW t \in Tasks, Own(t) PROVE Inv'
    BY <1>3 DEF Own
  <1>4. ASSUME NEW t \in Tasks, Test(t) PROVE Inv'
    <2>1. word # t
      BY <1>4 DEF Test
    <2>2. QED
      BY <1>4, <2>1 DEF Test
  <1>5. ASSUME NEW t \in Tasks, Delay(t) PROVE Inv'
    BY <1>5 DEF Delay
  <1>6. ASSUME NEW t \in Tasks, Unlock(t) PROVE Inv'
    BY <1>6 DEF Unlock
  <1>7. CASE UNCHANGED lockvars
    BY <1>7 DEF lockvars
  <1>8. QED
    BY <1>1, <1>2, <1>3, <1>4, <1>5, <1>6, <1>7 DEF Next, Locking

\* The invariant holds in every reachable state.
THEOREM Invariance == Spec => []Inv
  <1>1. Init => Inv
    BY WordAssumption, DepthAssumption
    DEF Init, Inv, TypeOK, RoomInv, WordNamesHolder, WindowInv, OwnTestFails, Holds
  <1>2. QED
    BY <1>1, LockStep, PTL DEF Spec

\* The lock's variables keep their types, however deep calls may nest.
THEOREM TypeCorrect == Spec => []TypeOK
  <1>1. Inv => TypeOK
    BY DEF Inv
  <1>2. QED
    BY Invariance, <1>1, PTL

\* A task pointer in the lock word is that of a holder (_spin_lock's owner store).
THEOREM PointerNamesHolder == Spec => []WordNamesHolder
  <1>1. Inv => WordNamesHolder
    BY DEF Inv
  <1>2. QED
    BY Invariance, <1>1, PTL

\* A lock that nobody holds or is taking is free: a word other than 0 has a holder
\* (WordNamesHolder) or a task in the window (WindowInv) behind it.
THEOREM UnheldLockIsFree == Spec => []LockLeftFree
  <1>1. Inv => LockLeftFree
    BY DEF Inv, TypeOK, WordNamesHolder, WindowInv, LockLeftFree
  <1>2. QED
    BY Invariance, <1>1, PTL

\* The else-if of _spin_lock, for a lock that is already the caller's, is dead.
THEOREM OwnLockBranchDead == Spec => []OwnTestFails
  <1>1. Inv => OwnTestFails
    BY DEF Inv
  <1>2. QED
    BY Invariance, <1>1, PTL
=============================================================================
