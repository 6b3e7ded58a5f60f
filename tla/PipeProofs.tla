------------------------------ MODULE PipeProofs ------------------------------
(***************************************************************************)
(* What holds of a pipe although pipefs_open sets none of its fields: the  *)
(* types, whatever the fields held; and, when the indices start inside the *)
(* ring, that one writing and one reading task stay out of each other's    *)
(* slot.  The spin lock is not needed for it: head is stored by the writer *)
(* alone, tail by the reader alone, each after a test against the other.   *)
(***************************************************************************)
EXTENDS Pipe, TLAPS

\* The lock's own steps keep its types; no call of the pipe nests them.
LEMMA LockStep ==
    ASSUME PipeAssumption, SL!TypeOK, \A t \in Tasks : at[t] # "out" => depth[t] = 0,
           NEW t \in Tasks, SL!Enter(t) \/ SL!Locking(t) \/ SL!Unlock(t)
    PROVE  SL!TypeOK' /\ \A u \in Tasks : at'[u] # "out" => depth'[u] = 0
  <1> USE DEF PipeAssumption, SL!TypeOK, SL!Goto, SL!Acquired, SL!Holds
  <1>1. CASE SL!Enter(t)
    BY <1>1 DEF SL!Enter
  <1>2. CASE SL!Try(t)
    BY <1>2 DEF SL!Try
  <1>3. CASE SL!Own(t)
    BY <1>3 DEF SL!Own
  <1>4. CASE SL!Test(t)
    BY <1>4 DEF SL!Test
  <1>5. CASE SL!Delay(t)
    BY <1>5 DEF SL!Delay
  <1>6. CASE SL!Unlock(t)
    BY <1>6 DEF SL!Unlock
  <1>7. QED
    BY <1>1, <1>2, <1>3, <1>4, <1>5, <1>6 DEF SL!Locking

\* The types of the calls need to know that a call under way has a byte left to move
\* and that it nests no lock.
CallTyped ==
    /\ TypeOK
    /\ \A t \in Tasks :
          /\ at[t] # "out" => depth[t] = 0
          /\ step[t] # "idle" => left[t] > 0 \/ step[t] = "unlock"

\* Whatever size holds, the next index is a size_t.
LEMMA SuccTyped == ASSUME PipeAssumption, size \in Index, NEW i \in Index PROVE Succ(i) \in Index
  <1>1. (i + 1) % WordMod \in 0 .. WordMod - 1
    BY DEF PipeAssumption, Index
  <1>2. size # 0 => ((i + 1) % WordMod) % size \in 0 .. size - 1
    BY <1>1 DEF PipeAssumption, Index
  <1>3. QED
    BY <1>1, <1>2 DEF PipeAssumption, Index, Succ

\* Every step keeps the types, whatever pipefs_open left in the fields and however
\* many tasks call.
LEMMA TypeStep ==
    ASSUME PipeAssumption, CallTyped, [Next]_vars
    PROVE  CallTyped'
  <1> DEFINE Busy(u) == /\ at[u] # "out" => depth[u] = 0
                        /\ step[u] # "idle" => left[u] > 0 \/ step[u] = "unlock"
  <1> USE PipeAssumption DEF Step, CallTyped
  <1>1. ASSUME NEW t \in Tasks, NEW o \in {"read", "write"}, NEW n \in 1 .. MaxCall, Begin(t, o, n)
        PROVE  CallTyped'
    <2>1. TypeOK'
      <3>1. byte' \in [Tasks -> Byte \cup {Nothing}]
        BY <1>1 DEF Begin, TypeOK
      <3>2. /\ left' \in [Tasks -> 0 .. MaxCall] /\ step' \in [Tasks -> Step]
            /\ op' \in [Tasks -> {"read", "write"}]
        BY <1>1 DEF Begin, TypeOK, PipeAssumption
      <3>3. QED
        BY <1>1, <3>1, <3>2 DEF Begin, TypeOK, SL!TypeOK, lockvars, ringvars
    <2>2. ASSUME NEW u \in Tasks PROVE Busy(u)'
      BY <1>1 DEF Begin, TypeOK, SL!TypeOK, lockvars, PipeAssumption
    <2>3. QED
      BY <2>1, <2>2
  <1>2. ASSUME NEW t \in Tasks, Lock(t) PROVE CallTyped'
    <2>1. SL!TypeOK' /\ \A u \in Tasks : at'[u] # "out" => depth'[u] = 0
      BY <1>2, LockStep DEF Lock, TypeOK
    <2>2. QED
      BY <1>2, <2>1 DEF Lock, TypeOK, ringvars, callvars
  <1>3. ASSUME NEW t \in Tasks, Load(t) \/ Test(t) \/ Retry(t) PROVE CallTyped'
    <2>1. CASE Load(t)
      BY <2>1 DEF Load, TypeOK, SL!TypeOK, lockvars, ringvars
    <2>2. CASE Test(t)
      BY <2>2 DEF Test, TypeOK, SL!TypeOK, lockvars, ringvars
    <2>3. CASE Retry(t)
      BY <2>3 DEF Retry, TypeOK, SL!TypeOK, lockvars, ringvars
    <2>4. QED
      BY <1>3, <2>1, <2>2, <2>3
  <1>4. ASSUME NEW t \in Tasks, Copy(t) PROVE CallTyped'
    <2>1. buffer[mine[t]] \in Byte \cup {Nothing} /\ byte[t] \in Byte \cup {Nothing}
      BY <1>4 DEF Copy, TypeOK
    <2>2. buffer' \in [0 .. Cap - 1 -> Byte \cup {Nothing}] /\ byte' \in [Tasks -> Byte \cup {Nothing}]
      BY <1>4, <2>1 DEF Copy, TypeOK
    <2>3. step' \in [Tasks -> Step] /\ \A u \in Tasks : step'[u] # "idle" => left'[u] > 0 \/ step'[u] = "unlock"
      BY <1>4 DEF Copy, TypeOK
    <2>4. QED
      BY <1>4, <2>2, <2>3 DEF Copy, TypeOK, SL!TypeOK, lockvars
  <1>5. ASSUME NEW t \in Tasks, Advance(t) PROVE CallTyped'
    <2>1. left[t] - 1 \in 0 .. MaxCall
      BY <1>5 DEF Advance, TypeOK, PipeAssumption
    <2>2. left' \in [Tasks -> 0 .. MaxCall] /\ step' \in [Tasks -> Step]
      BY <1>5, <2>1 DEF Advance, TypeOK
    <2>3. \A u \in Tasks : step'[u] # "idle" => left'[u] > 0 \/ step'[u] = "unlock"
      BY <1>5 DEF Advance, TypeOK
    <2>4. head' \in Index /\ tail' \in Index
      BY <1>5, SuccTyped DEF Advance, TypeOK
    <2>5. QED
      BY <1>5, <2>2, <2>3, <2>4 DEF Advance, TypeOK, SL!TypeOK, lockvars
  <1>6. ASSUME NEW t \in Tasks, Unlock(t) \/ Refuse(t) PROVE CallTyped'
    <2>1. SL!TypeOK' /\ \A u \in Tasks : at'[u] # "out" => depth'[u] = 0
      BY <1>6, LockStep DEF Unlock, Refuse, TypeOK
    <2>2. CASE Unlock(t)
      <3>1. TypeOK'
        BY <2>1, <2>2 DEF Unlock, NextByte, TypeOK, ringvars, PipeAssumption
      <3>2. ASSUME NEW u \in Tasks PROVE Busy(u)'
        BY <2>1, <2>2 DEF Unlock, TypeOK, PipeAssumption
      <3>3. QED
        BY <3>1, <3>2
    <2>3. CASE Refuse(t)
      BY <2>1, <2>3 DEF Refuse, TypeOK, ringvars
    <2>4. QED
      BY <1>6, <2>2, <2>3
  <1>7. CASE UNCHANGED vars
    BY <1>7 DEF vars, TypeOK, SL!TypeOK, lockvars, ringvars, callvars
  <1>8. QED
    BY <1>1, <1>2, <1>3, <1>4, <1>5, <1>6, <1>7 DEF Next, Call, PipeAssumption

\* Types are kept from whatever fields kmalloc left, for any number of readers and
\* writers: an index never leaves size_t and the count of bytes still to move never
\* goes below 0 (pipefs_read, pipefs_write).
THEOREM PipeTypeCorrect == Spec => []TypeOK
  <1>1. Init => CallTyped
    BY PipeAssumption DEF PipeAssumption, Init, CallTyped, TypeOK, SL!TypeOK, Index, Step
  <1>2. CallTyped /\ [Next]_vars => CallTyped'
    BY PipeAssumption, TypeStep
  <1>3. CallTyped => TypeOK
    BY DEF CallTyped
  <1>4. QED
    BY <1>1, <1>2, <1>3, PTL DEF Spec

-----------------------------------------------------------------------------
\* One task on each side of the pipe.
OneEach(w, r) == Writers = {w} /\ Readers = {r}

\* The slot that the call is about to use, or has used, is its own: the task loaded the
\* index that only it moves, and found the other index elsewhere.
CallInv(t) ==
    /\ op[t] = "write" /\ step[t] # "idle" => t \in Writers
    /\ op[t] = "read" /\ step[t] # "idle" => t \in Readers
    /\ step[t] \in {"test", "copy", "advance"} => mine[t] = IF op[t] = "write" THEN head ELSE tail
    /\ step[t] \in {"copy", "advance"} /\ op[t] = "write" => Succ(head) # tail
    /\ step[t] \in {"copy", "advance"} /\ op[t] = "read" => head # tail

RingInv ==
    /\ TypeOK
    /\ InRing
    /\ \A t \in Tasks : CallInv(t)

\* Succ keeps an index in the ring, and no two indices there have the same successor.
LEMMA SuccInRing ==
    ASSUME PipeAssumption, size \in Index, NEW i \in Index, NEW j \in Index,
           size = 0 \/ (i < size /\ j < size)
    PROVE  /\ size = 0 \/ Succ(i) < size
           /\ i # j => Succ(i) # Succ(j)
  <1>1. /\ (i + 1) % WordMod = IF i + 1 = WordMod THEN 0 ELSE i + 1
        /\ (j + 1) % WordMod = IF j + 1 = WordMod THEN 0 ELSE j + 1
    BY DEF PipeAssumption, Index
  <1>2. CASE size = 0
    BY <1>1, <1>2 DEF Succ, Index, PipeAssumption
  <1>3. CASE size # 0
    <2>1. i + 1 < WordMod /\ j + 1 < WordMod
      BY <1>3 DEF Index, PipeAssumption
    <2>2. /\ (i + 1) % size = IF i + 1 = size THEN 0 ELSE i + 1
          /\ (j + 1) % size = IF j + 1 = size THEN 0 ELSE j + 1
      BY <1>3 DEF Index, PipeAssumption
    <2>3. /\ Succ(i) = IF i + 1 = size THEN 0 ELSE i + 1
          /\ Succ(j) = IF j + 1 = size THEN 0 ELSE j + 1
      BY <1>1, <1>3, <2>1, <2>2 DEF Succ
    <2>4. QED
      BY <1>3, <2>3 DEF Index, PipeAssumption
  <1>4. QED
    BY <1>2, <1>3

\* A step that leaves the fields alone keeps the invariant when it keeps the types and
\* what it says of each call.
LEMMA RingKept ==
    ASSUME RingInv, UNCHANGED <<size, head, tail>>, TypeOK', \A u \in Tasks : CallInv(u)'
    PROVE  RingInv'
  BY DEF RingInv, InRing

\* Every step of a call preserves the ring's invariant.
LEMMA RingStep ==
    ASSUME PipeAssumption, NEW w, NEW r, OneEach(w, r), RingInv, TypeOK', [Next]_vars
    PROVE  RingInv'
  <1> USE DEF Step
  <1>0. Tasks = {w, r} /\ w \in Tasks /\ r \in Tasks
    BY DEF PipeAssumption, OneEach
  <1>1. ASSUME NEW t \in Tasks, NEW o \in {"read", "write"}, NEW n \in 1 .. MaxCall, Begin(t, o, n),
               o = "write" => t \in Writers, o = "read" => t \in Readers
        PROVE  RingInv'
    <2>1. ASSUME NEW u \in Tasks PROVE CallInv(u)'
      BY <1>1 DEF Begin, RingInv, TypeOK, CallInv, Succ, ringvars
    <2>2. QED
      BY <1>1, <2>1, RingKept DEF Begin, ringvars
  <1>2. ASSUME NEW t \in Tasks, Lock(t) PROVE RingInv'
    <2>1. ASSUME NEW u \in Tasks PROVE CallInv(u)'
      BY <1>2 DEF Lock, RingInv, CallInv, Succ, ringvars, callvars
    <2>2. QED
      BY <1>2, <2>1, RingKept DEF Lock, ringvars
  <1>3. ASSUME NEW t \in Tasks, Load(t) \/ Retry(t) \/ Refuse(t) \/ Unlock(t) PROVE RingInv'
    <2>1. UNCHANGED ringvars /\ UNCHANGED op
      BY <1>3 DEF Load, Retry, Refuse, Unlock
    <2>2. \A i : Succ(i)' = Succ(i)
      BY <2>1 DEF Succ, ringvars
    <2>3. ASSUME NEW u \in Tasks, u # t PROVE CallInv(u)'
      <3>1. step'[u] = step[u] /\ mine'[u] = mine[u]
        BY <1>3, <2>3 DEF Load, Retry, Refuse, Unlock, RingInv, TypeOK
      <3>2. QED
        BY <2>1, <2>2, <3>1 DEF RingInv, CallInv, ringvars
    <2>4. CallInv(t)'
      <3>1. CASE Load(t)
        BY <2>1, <3>1 DEF Load, RingInv, TypeOK, CallInv, ringvars
      <3>2. CASE ~Load(t)
        <4>1. step[t] # "idle" /\ step'[t] \in {"idle", "lock", "wait"}
          BY <1>3, <3>2 DEF Retry, Refuse, Unlock, RingInv, TypeOK
        <4>2. QED
          BY <2>1, <4>1 DEF RingInv, CallInv
      <3>3. QED
        BY <3>1, <3>2
    <2>5. QED
      BY <2>1, <2>3, <2>4, RingKept DEF ringvars
  <1>4. ASSUME NEW t \in Tasks, Test(t) PROVE RingInv'
    <2>1. ASSUME NEW u \in Tasks PROVE CallInv(u)'
      <3>1. \A i : Succ(i)' = Succ(i)
        BY <1>4 DEF Test, Succ, ringvars
      <3>2. CASE u # t
        BY <1>4, <3>1, <3>2 DEF Test, RingInv, TypeOK, CallInv, ringvars
      <3>3. CASE u = t
        BY <1>4, <3>1, <3>3 DEF Test, Refused, RingInv, TypeOK, CallInv, ringvars
      <3>4. QED
        BY <3>2, <3>3
    <2>2. QED
      BY <1>4, <2>1, RingKept DEF Test, ringvars
  <1>5. ASSUME NEW t \in Tasks, Copy(t) PROVE RingInv'
    <2>1. UNCHANGED <<size, head, tail, op, mine>> /\ step' = [step EXCEPT ![t] = "advance"] /\ step[t] = "copy"
      BY <1>5 DEF Copy
    <2>2. ASSUME NEW u \in Tasks PROVE CallInv(u)'
      BY <2>1 DEF RingInv, TypeOK, CallInv, Succ
    <2>3. QED
      BY <2>1, <2>2, RingKept
  <1>6. ASSUME NEW t \in Tasks, Advance(t) PROVE RingInv'
    <2>1. /\ step[t] = "advance" /\ step' = [step EXCEPT ![t] = "unlock"]
          /\ UNCHANGED <<size, op, mine>>
          /\ op[t] = "write" => head' = Succ(head) /\ tail' = tail
          /\ op[t] = "read" => tail' = Succ(tail) /\ head' = head
      BY <1>6 DEF Advance, RingInv, CallInv
    <2>2. op[t] \in {"read", "write"} /\ size \in Index /\ head \in Index /\ tail \in Index
      BY DEF RingInv, TypeOK
    <2>3. \A i : Succ(i)' = Succ(i)
      BY <2>1 DEF Succ
    <2>4. InRing'
      BY <2>1, <2>2, SuccInRing DEF RingInv, InRing
    <2>5. ASSUME NEW u \in Tasks PROVE CallInv(u)'
      <3>1. CASE u = t
        BY <2>1, <3>1 DEF RingInv, TypeOK, CallInv
      <3>2. CASE u # t
        <4>1. step'[u] = step[u] /\ mine'[u] = mine[u] /\ op'[u] = op[u]
          BY <2>1, <3>2 DEF RingInv, TypeOK
        <4>2. CASE step[u] = "idle"
          BY <4>1, <4>2 DEF CallInv
        <4>3. CASE step[u] # "idle" /\ op[t] = "write"
          <5>1. op[u] = "read" /\ Succ(head) # tail
            BY <1>0, <2>1, <3>2, <4>3 DEF RingInv, TypeOK, CallInv, OneEach
          <5>2. QED
            BY <2>1, <4>1, <4>3, <5>1 DEF RingInv, CallInv
        <4>4. CASE step[u] # "idle" /\ op[t] = "read"
          <5>1. op[u] = "write" /\ head # tail
            BY <1>0, <2>1, <3>2, <4>4 DEF RingInv, TypeOK, CallInv, OneEach
          <5>2. Succ(head) # Succ(tail)
            BY <2>2, <5>1, SuccInRing DEF RingInv, InRing
          <5>3. QED
            BY <2>1, <2>3, <4>1, <4>4, <5>1, <5>2 DEF RingInv, CallInv
        <4>5. QED
          BY <2>2, <4>2, <4>3, <4>4
      <3>3. QED
        BY <3>1, <3>2
    <2>6. QED
      BY <2>4, <2>5 DEF RingInv
  <1>7. CASE UNCHANGED vars
    <2>1. ASSUME NEW u \in Tasks PROVE CallInv(u)'
      BY <1>7 DEF vars, RingInv, CallInv, Succ, ringvars, callvars
    <2>2. QED
      BY <1>7, <2>1, RingKept DEF vars, ringvars
  <1>8. QED
    BY <1>0, <1>1, <1>2, <1>3, <1>4, <1>5, <1>6, <1>7 DEF Next, Call, OneEach

\* The writer never stores into the slot the reader is loading from, although the lock
\* keeps neither of them out, whatever the size of the array and of a word: all that is
\* asked of the memory image is that the indices be inside the ring (pipe_buffer_read,
\* pipe_buffer_write).
THEOREM SlotsAreApart ==
    ASSUME NEW CONSTANT w, NEW CONSTANT r, OneEach(w, r)
    PROVE  Spec => SlotsApart
  <1>1. Init /\ InRing /\ TypeOK => RingInv
    BY DEF Init, RingInv, CallInv
  <1>2. RingInv /\ TypeOK' /\ [Next]_vars => RingInv'
    BY PipeAssumption, RingStep
  <1>3. RingInv => NoSlotShared
    BY DEF RingInv, CallInv, TypeOK, NoSlotShared, OneEach
  <1>4. QED
    BY <1>1, <1>2, <1>3, PipeTypeCorrect, PTL DEF Spec, SlotsApart
=============================================================================
