------------------------------- MODULE TtyProofs ------------------------------
(***************************************************************************)
(* The serial line's ring is a queue that drops its oldest byte when full, *)
(* for every size of it and any number of readers: a reader between the    *)
(* test for an empty ring and the store of rear has interrupts masked, so  *)
(* that neither the handler nor another reader moves an index under it.    *)
(***************************************************************************)
EXTENDS Tty, SequenceTheorems, TLAPS

Slots == Byte \cup {Nothing}

\* What a reader relies on while it has interrupts masked.
ReaderInv(t) ==
    /\ pc[t] \in {"test", "load", "advance", "unmask"} => masked = t
    /\ pc[t] \in {"load", "advance"} => rear # front
    /\ pc[t] = "advance" => byte[t] = buffer[rear]
    /\ pc[t] # "idle" => left[t] > 0

TtyInv ==
    /\ TypeOK
    /\ rxne => dr \in Byte
    /\ isr # "off" => data \in Byte /\ masked = Nothing
    /\ \A t \in Readers : ReaderInv(t)

Succ(i) == IF i + 1 = Size THEN 0 ELSE i + 1

\* The index after i stays in the ring.
LEMMA Wrap == ASSUME TtyAssumption, NEW i \in Index
              PROVE  After(i) = Succ(i) /\ After(i) \in Index /\ After(i) # i
  <1>1. After(i) = Succ(i)
    BY DEF TtyAssumption, After, Succ, Index
  <1>2. QED
    BY <1>1 DEF TtyAssumption, Succ, Index

\* The occupied slots lie in the ring, apart from front, and wrap once.
LEMMA Occupied ==
    ASSUME TtyAssumption, front \in Index, rear \in Index
    PROVE  /\ Count \in 0 .. Size - 1
           /\ Count = 0 <=> front = rear
           /\ \A i \in 0 .. Size - 1 : i < Count => Slot(i) \in Index /\ Slot(i) # front
           /\ Slot(0) = rear
           /\ Slot(Count) = front
           /\ Succ(front) = rear <=> Count = Size - 1
  BY DEF TtyAssumption, Count, Slot, Index, Succ

\* The receiver, the registration and the handler keep the invariant.
LEMMA LineStep ==
    ASSUME TtyAssumption, TtyInv,
           (\E b \in Byte : Arrive(b)) \/ RequestIrq \/ Interrupt \/ ClearSR
    PROVE  TtyInv'
  <1> USE DEF TtyInv, TypeOK, ReaderInv, ring, reader, handler, line
  <1>1. CASE \E b \in Byte : Arrive(b)
    BY <1>1 DEF Arrive
  <1>2. CASE RequestIrq
    BY <1>2 DEF RequestIrq
  <1>3. CASE Interrupt
    BY <1>3 DEF Interrupt
  <1>4. CASE ClearSR
    BY <1>4 DEF ClearSR
  <1>5. QED
    BY <1>1, <1>2, <1>3, <1>4

\* The handler's store: no reader has interrupts masked, so that none is past the test.
LEMMA StoreStep ==
    ASSUME TtyAssumption, TtyInv, Store
    PROVE  TtyInv'
  <1>1. front' \in Index /\ rear' \in Index
    BY Wrap DEF Store, Dropped, TtyInv, TypeOK
  <1>2. buffer' \in [Index -> Slots] /\ put' \in Slots
    BY DEF Store, TtyInv, TypeOK, Slots
  <1>3. TypeOK'
    BY <1>1, <1>2 DEF Store, TtyInv, TypeOK, line, reader, Slots
  <1>4. ASSUME NEW t \in Readers PROVE ReaderInv(t)'
    <2>1. pc[t] \notin {"test", "load", "advance", "unmask"}
      BY DEF Store, TtyInv, ReaderInv, TtyAssumption
    <2>2. QED
      BY <2>1 DEF Store, TtyInv, ReaderInv, reader
  <1>5. QED
    BY <1>3, <1>4 DEF Store, TtyInv, line, reader

\* The reader's steps that leave the ring alone.
LEMMA ReaderStep ==
    ASSUME TtyAssumption, TtyInv, NEW t \in Readers,
           (\E n \in 1 .. MaxRead : Read(t, n)) \/ Mask(t) \/ Test(t) \/ Load(t) \/ Unmask(t)
    PROVE  TtyInv'
  <1> USE DEF TtyInv, TypeOK, ReaderInv, Runs, Goto, ring, handler, line
  <1>1. CASE \E n \in 1 .. MaxRead : Read(t, n)
    <2>1. PICK n \in 1 .. MaxRead : Read(t, n)
      BY <1>1
    <2>2. TypeOK' /\ (rxne => dr \in Byte)' /\ (isr # "off" => data \in Byte /\ masked = Nothing)'
      BY <2>1 DEF Read
    <2>3. ASSUME NEW u \in Readers PROVE ReaderInv(u)'
      BY <2>1 DEF Read
    <2>4. QED
      BY <2>2, <2>3
  <1>2. CASE Mask(t)
    <2>1. TypeOK' /\ (rxne => dr \in Byte)' /\ (isr # "off" => data \in Byte /\ masked = Nothing)'
      BY <1>2 DEF Mask
    <2>2. ASSUME NEW u \in Readers PROVE ReaderInv(u)'
      BY <1>2, TtyAssumption DEF Mask, TtyAssumption
    <2>3. QED
      BY <2>1, <2>2
  <1>3. CASE Test(t)
    <2>1. TypeOK' /\ (rxne => dr \in Byte)' /\ (isr # "off" => data \in Byte /\ masked = Nothing)'
      BY <1>3 DEF Test, TestAt
    <2>2. ASSUME NEW u \in Readers PROVE ReaderInv(u)'
      BY <1>3, TtyAssumption DEF Test, TestAt, TtyAssumption
    <2>3. QED
      BY <2>1, <2>2
  <1>4. CASE Load(t)
    <2>1. TypeOK' /\ (rxne => dr \in Byte)' /\ (isr # "off" => data \in Byte /\ masked = Nothing)'
      BY <1>4 DEF Load
    <2>2. ASSUME NEW u \in Readers PROVE ReaderInv(u)'
      BY <1>4 DEF Load
    <2>3. QED
      BY <2>1, <2>2
  <1>5. CASE Unmask(t)
    <2>1. left[t] - 1 \in 0 .. MaxRead
      BY <1>5 DEF Unmask, TtyAssumption
    <2>2. TypeOK' /\ (rxne => dr \in Byte)' /\ (isr # "off" => data \in Byte /\ masked = Nothing)'
      BY <1>5, <2>1 DEF Unmask
    <2>3. ASSUME NEW u \in Readers PROVE ReaderInv(u)'
      BY <1>5, TtyAssumption DEF Unmask, TtyAssumption
    <2>4. QED
      BY <2>2, <2>3
  <1>6. QED
    BY <1>1, <1>2, <1>3, <1>4, <1>5

\* The reader's store of rear.
LEMMA AdvanceStep ==
    ASSUME TtyAssumption, TtyInv, NEW t \in Readers, Advance(t)
    PROVE  TtyInv'
  <1>1. rear' \in Index
    BY Wrap DEF Advance, AdvanceTo, TtyInv, TypeOK
  <1>2. TypeOK'
    BY <1>1 DEF Advance, AdvanceTo, TtyInv, TypeOK, Goto, line, handler
  <1>3. ASSUME NEW u \in Readers PROVE ReaderInv(u)'
    <2>1. u # t => pc[u] \notin {"test", "load", "advance", "unmask"}
      BY DEF Advance, AdvanceTo, TtyInv, ReaderInv
    <2>2. QED
      BY <2>1 DEF Advance, AdvanceTo, TtyInv, TypeOK, ReaderInv, Goto
  <1>4. QED
    BY <1>2, <1>3 DEF Advance, AdvanceTo, TtyInv, line, handler

\* The invariant holds in every reachable state.
THEOREM TtyInvariant == Spec => []TtyInv
  <1>1. Init => TtyInv
    <2> SUFFICES ASSUME Init PROVE TtyInv
      OBVIOUS
    <2>1. 0 \in Index /\ 0 \in 0 .. MaxRead
      BY TtyAssumption DEF TtyAssumption, Index
    <2>2. ASSUME NEW t \in Readers PROVE ReaderInv(t)
      BY DEF Init, ReaderInv
    <2>3. TypeOK
      BY <2>1 DEF Init, TypeOK
    <2>4. QED
      BY <2>2, <2>3 DEF Init, TtyInv
  <1>2. TtyInv /\ [Next]_vars => TtyInv'
    <2> SUFFICES ASSUME TtyInv, [Next]_vars PROVE TtyInv'
      OBVIOUS
    <2>1. CASE UNCHANGED vars
      BY <2>1 DEF TtyInv, TypeOK, ReaderInv, vars, line, handler, ring, reader
    <2>2. CASE Unhandled
      BY <2>1, <2>2 DEF Unhandled
    <2>3. CASE Next /\ ~Unhandled
      BY <2>3, TtyAssumption, LineStep, StoreStep, ReaderStep, AdvanceStep DEF Next, Handler, Step
    <2>4. QED
      BY <2>1, <2>2, <2>3
  <1>3. QED
    BY <1>1, <1>2, PTL DEF Spec

\* The types hold, for every ring and any number of readers.
THEOREM TtyTypes == Spec => []TypeOK
  <1>1. TtyInv => TypeOK
    BY DEF TtyInv
  <1>2. QED
    BY <1>1, TtyInvariant, PTL

-----------------------------------------------------------------------------
\* The queue as a sequence.
LEMMA HeldSeq ==
    ASSUME TtyAssumption, TypeOK
    PROVE  /\ Count \in Nat
           /\ Held \in [1 .. Count -> Slots]
           /\ Held \in Seq(Slots)
           /\ Len(Held) = Count
  <1>1. Count \in 0 .. Size - 1
    BY Occupied DEF TypeOK
  <1>2. \A i \in 1 .. Count : i - 1 \in 0 .. Size - 1 /\ i - 1 < Count
    BY <1>1 DEF TtyAssumption
  <1>3. \A i \in 1 .. Count : buffer[Slot(i - 1)] \in Slots
    BY <1>2, Occupied DEF TypeOK, Slots
  <1>4. Held \in [1 .. Count -> Slots]
    BY <1>3 DEF Held
  <1>5. Count \in Nat
    BY <1>1 DEF TtyAssumption
  <1>6. QED
    BY <1>4, <1>5

\* A sequence one longer than another that agrees with it is an Append.
LEMMA Extend ==
    ASSUME NEW S, NEW n \in Nat, NEW f \in [1 .. n -> S], NEW g \in [1 .. n + 1 -> S],
           NEW e \in S, \A i \in 1 .. n : g[i] = f[i], g[n + 1] = e
    PROVE  g = Append(f, e)
  <1>1. f \in Seq(S) /\ Len(f) = n
    OBVIOUS
  <1>2. g \in Seq(S) /\ Len(g) = n + 1
    OBVIOUS
  <1>3. \A i \in 1 .. n + 1 : Append(f, e)[i] = g[i]
    BY <1>1, AppendProperties
  <1>4. QED
    BY <1>1, <1>2, <1>3, AppendProperties, SeqEqual

\* The tail of a sequence as a function.
LEMMA TailSeq ==
    ASSUME NEW S, NEW s \in Seq(S), s # <<>>
    PROVE  Tail(s) \in [1 .. Len(s) - 1 -> S] /\ \A i \in 1 .. Len(s) - 1 : Tail(s)[i] = s[i + 1]
  <1>1. Tail(s) \in Seq(S) /\ Len(Tail(s)) = Len(s) - 1
    BY HeadTailProperties
  <1>2. Tail(s) \in [1 .. Len(Tail(s)) -> S]
    BY <1>1, LenProperties
  <1>3. \A i \in 1 .. Len(Tail(s)) : Tail(s)[i] = s[i + 1]
    BY HeadTailProperties
  <1>4. QED
    BY <1>1, <1>2, <1>3

\* With room in the ring the handler's store appends its byte.
LEMMA StorePuts ==
    ASSUME TtyAssumption, TtyInv, TtyInv', Store, After(front) # rear
    PROVE  Queue!Put
  <1>1. front \in Index /\ rear \in Index /\ Size \in Nat /\ Size > 1
    BY DEF TtyInv, TypeOK, TtyAssumption
  <1>2. rear' = rear /\ front' = Succ(front) /\ Succ(front) # rear
    BY <1>1, Wrap DEF Store, Dropped
  <1>3. Count' = Count + 1 /\ \A i \in 0 .. Size - 1 : Slot(i)' = Slot(i)
    BY <1>1, <1>2 DEF Count, Slot, Index, Succ
  <1>4. Count \in 0 .. Size - 2 /\ Slot(Count) = front
    BY <1>1, <1>2, Occupied
  <1>5. ASSUME NEW i \in 1 .. Count PROVE Held'[i] = Held[i]
    <2>1. i - 1 \in 0 .. Size - 1 /\ i - 1 < Count /\ i \in 1 .. Count'
      BY <1>1, <1>3, <1>4
    <2>2. Slot(i - 1)' = Slot(i - 1) /\ Slot(i - 1) # front /\ Slot(i - 1) \in Index
      BY <1>1, <1>3, <2>1, Occupied
    <2>3. buffer'[Slot(i - 1)] = buffer[Slot(i - 1)]
      BY <2>2 DEF Store, TtyInv, TypeOK
    <2>4. QED
      BY <2>1, <2>2, <2>3 DEF Held
  <1>6. ASSUME NEW k \in Nat, k = Count PROVE Held'[k + 1] = data
    <2>1. k + 1 \in 1 .. Count' /\ k + 1 - 1 = k /\ k \in 0 .. Size - 1
      BY <1>1, <1>3, <1>4, <1>6
    <2>2. Slot(k)' = front
      BY <1>3, <1>4, <1>6, <2>1
    <2>3. buffer'[front] = data
      BY <1>1 DEF Store, TtyInv, TypeOK
    <2>4. Held'[k + 1] = buffer'[Slot(k)']
      BY <2>1 DEF Held
    <2>5. QED
      BY <2>2, <2>3, <2>4
  <1>7. data \in Byte /\ data \in Slots
    BY DEF Store, TtyInv, Slots
  <1>8. Held \in [1 .. Count -> Slots] /\ Count \in Nat /\ Len(Held) = Count
    BY HeldSeq DEF TtyInv
  <1>9. Held' = Append(Held, data)
    <2>1. Held'[Count + 1] = data
      BY <1>6, <1>8
    <2>2. Held' = [i \in 1 .. Count + 1 |-> Held'[i]]
      BY <1>3 DEF Held
    <2>3. ASSUME NEW i \in 1 .. Count + 1 PROVE Held'[i] \in Slots
      <3>1. i \in 1 .. Count \/ i = Count + 1
        BY <1>8
      <3>2. QED
        BY <1>5, <1>7, <1>8, <2>1, <3>1
    <2>4. Held' \in [1 .. Count + 1 -> Slots]
      BY <2>2, <2>3
    <2>5. QED
      BY <1>5, <1>7, <1>8, <2>1, <2>4, Extend
  <1>10. Len(Held) < Size - 1
    BY <1>1, <1>4, <1>8
  <1>11. QED
    BY <1>7, <1>9, <1>10 DEF Queue!Put, Store

\* With the ring full it takes the place of the oldest byte.
LEMMA StoreOverwrites ==
    ASSUME TtyAssumption, TtyInv, TtyInv', Store, After(front) = rear
    PROVE  Queue!Overwrite
  <1>1. front \in Index /\ rear \in Index /\ Size \in Nat /\ Size > 1
    BY DEF TtyInv, TypeOK, TtyAssumption
  <1>2. rear' = Succ(rear) /\ front' = Succ(front) /\ Succ(front) = rear
    BY <1>1, Wrap DEF Store, Dropped
  <1>3. Count = Size - 1 /\ Count' = Count
    BY <1>1, <1>2 DEF Count, Index, Succ
  <1>4. \A i \in 0 .. Size - 2 : Slot(i)' = Slot(i + 1)
    BY <1>1, <1>2 DEF Slot, Index, Succ
  <1>5. Held \in [1 .. Count -> Slots] /\ Held \in Seq(Slots) /\ Len(Held) = Count
    BY HeldSeq DEF TtyInv
  <1> DEFINE f == Tail(Held)
  <1>6. f \in [1 .. Count - 1 -> Slots] /\ \A i \in 1 .. Count - 1 : f[i] = Held[i + 1]
    <2>1. Held # <<>>
      BY <1>1, <1>3, <1>5
    <2>2. QED
      BY <1>5, <2>1, TailSeq
  <1>7. ASSUME NEW i \in 1 .. Count - 1 PROVE Held'[i] = f[i]
    <2>1. /\ i - 1 \in 0 .. Size - 2 /\ i - 1 + 1 = i /\ i \in 0 .. Size - 1 /\ i < Count
          /\ i \in 1 .. Count' /\ i + 1 \in 1 .. Count /\ i + 1 - 1 = i
      BY <1>1, <1>3
    <2>2. Slot(i - 1)' = Slot(i) /\ Slot(i) # front /\ Slot(i) \in Index
      BY <1>1, <1>4, <2>1, Occupied
    <2>3. buffer'[Slot(i)] = buffer[Slot(i)]
      BY <2>2 DEF Store, TtyInv, TypeOK
    <2>4. Held'[i] = buffer'[Slot(i)] /\ Held[i + 1] = buffer[Slot(i)]
      BY <2>1, <2>2 DEF Held
    <2>5. QED
      BY <1>6, <2>3, <2>4
  <1>8. ASSUME NEW k \in Nat, k = Count PROVE Held'[k] = data
    <2>1. k \in 1 .. Count' /\ k - 1 \in 0 .. Size - 2 /\ k - 1 + 1 = k
      BY <1>1, <1>3, <1>8
    <2>2. Slot(k - 1)' = front
      BY <1>1, <1>4, <1>8, <2>1, Occupied
    <2>3. buffer'[front] = data
      BY <1>1 DEF Store, TtyInv, TypeOK
    <2>4. Held'[k] = buffer'[Slot(k - 1)']
      BY <2>1 DEF Held
    <2>5. QED
      BY <2>2, <2>3, <2>4
  <1>9. data \in Byte /\ data \in Slots
    BY DEF Store, TtyInv, Slots
  <1>10. Held' = Append(f, data)
    <2>1. Count \in Nat /\ Count - 1 \in Nat /\ Count - 1 + 1 = Count
      BY <1>1, <1>3
    <2>2. Held'[Count] = data
      BY <1>8, <2>1
    <2>3. Held' = [i \in 1 .. Count |-> Held'[i]]
      BY <1>3 DEF Held
    <2> HIDE DEF f
    <2>4. ASSUME NEW i \in 1 .. Count PROVE Held'[i] \in Slots
      <3>1. i \in 1 .. Count - 1 \/ i = Count
        BY <2>1
      <3>2. QED
        BY <1>6, <1>7, <1>9, <2>2, <3>1
    <2>5. Held' \in [1 .. Count - 1 + 1 -> Slots]
      BY <2>1, <2>3, <2>4
    <2>6. QED
      BY <1>6, <1>7, <1>9, <2>1, <2>2, <2>5, Extend
  <1>11. QED
    BY <1>3, <1>5, <1>9, <1>10 DEF Queue!Overwrite, Store

\* The reader's store of rear takes the oldest byte.
LEMMA AdvanceGets ==
    ASSUME TtyAssumption, TtyInv, TtyInv', NEW t \in Readers, Advance(t)
    PROVE  Queue!Get
  <1>1. front \in Index /\ rear \in Index /\ Size \in Nat /\ Size > 1
    BY DEF TtyInv, TypeOK, TtyAssumption
  <1>2. /\ rear' = Succ(rear) /\ front' = front /\ rear # front
        /\ buffer' = buffer /\ put' = put /\ got' = buffer[rear]
    BY <1>1, Wrap DEF Advance, AdvanceTo, TtyInv, ReaderInv
  <1>3. Count' = Count - 1 /\ \A i \in 0 .. Size - 1 : i < Count' => Slot(i)' = Slot(i + 1)
    BY <1>1, <1>2 DEF Count, Slot, Index, Succ
  <1>4. Count \in 1 .. Size - 1 /\ Slot(0) = rear
    BY <1>1, <1>2, Occupied
  <1>5. Held \in [1 .. Count -> Slots] /\ Held \in Seq(Slots) /\ Len(Held) = Count
    BY HeldSeq DEF TtyInv
  <1>6. Held # <<>> /\ Head(Held) = got'
    BY <1>1, <1>2, <1>4, <1>5 DEF Held
  <1>7. Held' = Tail(Held)
    <2>1. Tail(Held) \in [1 .. Count - 1 -> Slots] /\ \A i \in 1 .. Count - 1 : Tail(Held)[i] = Held[i + 1]
      BY <1>5, <1>6, TailSeq
    <2>2. ASSUME NEW i \in 1 .. Count - 1 PROVE Held'[i] = Held[i + 1]
      <3>1. /\ i - 1 \in 0 .. Size - 1 /\ i - 1 < Count' /\ i - 1 + 1 = i
            /\ i \in 1 .. Count' /\ i + 1 \in 1 .. Count /\ i + 1 - 1 = i
        BY <1>1, <1>3, <1>4
      <3>2. Slot(i - 1)' = Slot(i)
        BY <1>3, <3>1
      <3>3. QED
        BY <1>2, <3>1, <3>2 DEF Held
    <2>3. Held' = [i \in 1 .. Count - 1 |-> Held'[i]]
      BY <1>3 DEF Held
    <2>4. Held' = [i \in 1 .. Count - 1 |-> Held[i + 1]]
      <3> DEFINE h == Held'
      <3>1. h = [i \in 1 .. Count - 1 |-> h[i]] /\ \A i \in 1 .. Count - 1 : h[i] = Held[i + 1]
        BY <2>2, <2>3
      <3> HIDE DEF h
      <3>2. h = [i \in 1 .. Count - 1 |-> Held[i + 1]]
        BY <3>1
      <3>3. QED
        BY <3>2 DEF h
    <2>5. Tail(Held) = [i \in 1 .. Count - 1 |-> Held[i + 1]]
      BY <2>1
    <2>6. QED
      BY <2>4, <2>5
  <1>8. QED
    BY <1>2, <1>6, <1>7 DEF Queue!Get

\* The serial line's ring, for every size of it and any number of readers, is a queue of
\* Size - 1 bytes that drops the oldest when full (USART1_IRQHandler, Usart1_read).
THEOREM RingDropsOldest == Spec => ReceiveSpec
  <1>1. Init => Queue!Init
    BY TtyAssumption DEF Init, Queue!Init, Held, Count
  <1>2. TtyInv /\ TtyInv' /\ [Next]_vars => [Queue!Put \/ Queue!Overwrite \/ Queue!Get]_Queue!fifovars
    <2> SUFFICES ASSUME TtyInv, TtyInv', [Next]_vars
                 PROVE  Queue!Put \/ Queue!Overwrite \/ Queue!Get \/ UNCHANGED Queue!fifovars
      OBVIOUS
    <2>1. UNCHANGED <<ring, put, got>> => UNCHANGED Queue!fifovars
      BY DEF Queue!fifovars, Held, Slot, Count, ring
    <2>2. CASE Store
      BY <2>2, TtyAssumption, StorePuts, StoreOverwrites
    <2>3. CASE \E t \in Readers : Advance(t)
      BY <2>3, TtyAssumption, AdvanceGets
    <2>4. CASE UNCHANGED vars \/ Unhandled
      BY <2>1, <2>4 DEF Unhandled, vars
    <2>5. CASE (\E b \in Byte : Arrive(b)) \/ RequestIrq \/ Interrupt \/ ClearSR
      BY <2>1, <2>5 DEF Arrive, RequestIrq, Interrupt, ClearSR
    <2>6. CASE \E t \in Readers : (\E n \in 1 .. MaxRead : Read(t, n)) \/ Mask(t) \/ Test(t) \/ Load(t) \/ Unmask(t)
      BY <2>1, <2>6 DEF Read, Mask, Test, TestAt, Load, Unmask
    <2>7. QED
      BY <2>2, <2>3, <2>4, <2>5, <2>6 DEF Next, Handler, Step
  <1>3. QED
    BY <1>1, <1>2, TtyInvariant, PTL DEF Spec, ReceiveSpec, Queue!DropSpec
=============================================================================
