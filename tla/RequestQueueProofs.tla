------------------------- MODULE RequestQueueProofs -------------------------
(***************************************************************************)
(* For any number of tasks and bios: as long as no two tasks meet inside   *)
(* the sections under queue_lock, a request is in one place at a time, and *)
(* submit_bio_wait never returns with its request left on the queue.  Both *)
(* rest on the links of the list, which are in order except for what the   *)
(* one task inside a section has not stored yet.  For any chip and any     *)
(* shapes of bio, met or not: a write that no other overlapped is on the   *)
(* chip when its request ends, over a page boundary too, and none changes  *)
(* a page it does not address.                                             *)
(***************************************************************************)
EXTENDS RequestQueue, SequenceTheorems, Functions, TLAPS

\* The places at which a task holds a request.
Busy == {"read", "backup", "patch", "erase", "program", "end"}

Link == Node \cup {Poison}

Types ==
    /\ nxt \in [Node -> Link] /\ prv \in [Node -> Link]
    /\ ptr \in [Tasks -> Link]
    /\ met \in BOOLEAN
    /\ shape \in [Bios -> Shapes \cup {None}]
    /\ served \subseteq Bios
    /\ pc \in [Tasks -> Place]
    /\ call \in [Tasks -> Bios \cup {None}]
    /\ rq \in [Tasks -> Bios \cup {None}]

\* If y is a bio it has been submitted.
Known(y) == y \in Bios => shape[y] # None

\* Only bios that have been submitted are anywhere.
Submitted ==
    /\ \A x \in Node : (nxt[x] = x \/ Known(nxt[x])) /\ (prv[x] = x \/ Known(prv[x]))
    /\ \A t \in Tasks : Known(ptr[t])
    /\ \A b \in served : shape[b] # None
    /\ \A t \in Tasks : rq[t] # None => shape[rq[t]] # None
    /\ \A t \in Tasks : pc[t] # "idle" => call[t] \in Bios /\ shape[call[t]] # None

\* A task holds a request exactly inside the driver's request function, is about to hold
\* one inside list_del, and each call has a bio of its own.
Holding ==
    /\ \A t \in Tasks : pc[t] \in Busy => rq[t] # None
    /\ \A t \in Tasks : rq[t] # None => pc[t] \in Busy
    /\ \A t \in Tasks : pc[t] \in {"back", "forth"} => ptr[t] \in Bios
    /\ \A t, u \in Tasks : pc[t] # "idle" /\ pc[u] # "idle" /\ t # u => call[t] # call[u]

Base == Types /\ Submitted /\ Holding

\* A new call has a bio that is nowhere yet.
LEMMA SubmitBase ==
    ASSUME Base, NEW t \in Tasks, NEW s \in Shapes, Submit(t, s)
    PROVE  Base' /\ \A x \in Bios : shape[x] # None => shape'[x] = shape[x]
  <1>0. NewBio \in Bios /\ shape[NewBio] = None /\ s # None
    BY QueueAssumption DEF Submit, Prepare, NewBio
  <1> DEFINE b == NewBio
  <1>1. /\ pc[t] = "idle" /\ b \in Bios /\ shape[b] = None
        /\ shape' = [shape EXCEPT ![b] = s] /\ call' = [call EXCEPT ![t] = b]
        /\ pc' = [pc EXCEPT ![t] = "add"] /\ UNCHANGED <<nxt, prv, ptr, met, served, rq>>
    BY <1>0 DEF Submit, Prepare, Goto, listvars, taskvars
  <1> HIDE DEF b
  <1>2. Types'
    BY <1>1 DEF Base, Types, Place
  <1>3. \A x \in Bios : shape[x] # None => shape'[x] # None /\ shape'[x] = shape[x]
    BY <1>0, <1>1 DEF Base, Types
  <1>4. \A y : Known(y) => Known(y)'
    BY <1>3 DEF Known
  <1>5. Submitted'
    <2>1. \A x \in Node : (nxt'[x] = x \/ Known(nxt[x])') /\ (prv'[x] = x \/ Known(prv[x])')
      BY <1>1, <1>4 DEF Base, Submitted, Known
    <2>2. \A u \in Tasks : Known(ptr[u])'
      BY <1>1, <1>4 DEF Base, Submitted, Known
    <2>3. \A x \in served' : shape'[x] # None
      BY <1>1, <1>3 DEF Base, Types, Submitted
    <2>4. ASSUME NEW u \in Tasks PROVE rq'[u] # None => shape'[rq'[u]] # None
      BY <1>1, <1>3 DEF Base, Types, Submitted
    <2>5. ASSUME NEW u \in Tasks PROVE pc'[u] # "idle" => call'[u] \in Bios /\ shape'[call'[u]] # None
      BY <1>0, <1>1, <1>3 DEF Base, Types, Submitted
    <2>6. QED
      BY <2>1, <2>2, <2>3, <2>4, <2>5 DEF Submitted
  <1>6. Holding'
    <2>1. ASSUME NEW u \in Tasks
          PROVE  /\ (pc'[u] \in Busy => rq'[u] # None) /\ (rq'[u] # None => pc'[u] \in Busy)
                 /\ pc'[u] \in {"back", "forth"} => ptr'[u] \in Bios
      BY <1>1 DEF Base, Types, Holding, Busy
    <2>2. ASSUME NEW u \in Tasks, NEW v \in Tasks, pc'[u] # "idle", pc'[v] # "idle", u # v
          PROVE  call'[u] # call'[v]
      BY <1>1, <2>2 DEF Base, Types, Submitted, Holding
    <2>3. QED
      BY <2>1, <2>2 DEF Holding
  <1>7. QED
    BY <1>2, <1>3, <1>5, <1>6 DEF Base

\* The stores of list_add_tail.
LEMMA AddBase ==
    ASSUME Base, NEW t \in Tasks, Add(t)
    PROVE  Base'
  <1>1. /\ UNCHANGED <<shape, served, call, rq>>
        /\ pc[t] \in {"add", "prev", "own", "next"} /\ met' \in BOOLEAN
        /\ \E l \in {"prev", "own", "next", "fetch"} : pc' = [pc EXCEPT ![t] = l]
    BY DEF Add, AddLoad, AddPrev, AddOwn, AddNext, Enter, Goto, callvars, taskvars, Base, Types
  <1>2. call[t] \in Bios /\ shape[call[t]] # None /\ Known(call[t]) /\ call[t] \in Link /\ call[t] \in Node
    BY <1>1 DEF Base, Submitted, Known, Link, Node
  <1>3. ListHead \in Node /\ ListHead \in Link /\ ListHead \notin Bios /\ Known(ListHead) /\ \A y \in Node : y \in Link
    BY QueueAssumption DEF Node, Link, Known
  <1>4. /\ nxt' \in [Node -> Link] /\ prv' \in [Node -> Link] /\ ptr' \in [Tasks -> Link]
        /\ \A x \in Node : (nxt'[x] = x \/ Known(nxt'[x])) /\ (prv'[x] = x \/ Known(prv'[x]))
        /\ \A u \in Tasks : Known(ptr'[u]) /\ (u # t => ptr'[u] = ptr[u])
    <2>1. CASE AddLoad(t)
      BY <1>3, <2>1 DEF AddLoad, Base, Types, Submitted, Known
    <2>2. CASE AddPrev(t)
      BY <1>2, <1>3, <2>2 DEF AddPrev, Base, Types, Submitted
    <2>3. CASE AddOwn(t)
      BY <1>2, <1>3, <2>3 DEF AddOwn, Base, Types, Submitted
    <2>4. CASE AddNext(t)
      <3>1. nxt' = Write(nxt, ptr[t], call[t]) /\ UNCHANGED <<prv, ptr>>
        BY <2>4 DEF AddNext
      <3>2. ptr[t] \in Link /\ nxt \in [Node -> Link]
        BY DEF Base, Types
      <3>3. nxt' \in [Node -> Link] /\ \A z \in Node : nxt'[z] = IF z = ptr[t] THEN call[t] ELSE nxt[z]
        BY <1>2, <3>1, <3>2, QueueAssumption DEF Write, Link
      <3>4. QED
        BY <1>2, <3>1, <3>3 DEF Base, Types, Submitted
    <2>5. QED
      BY <2>1, <2>2, <2>3, <2>4 DEF Add
  <1>5. Types'
    BY <1>1, <1>4 DEF Base, Types, Place
  <1>7. Submitted'
    BY <1>1, <1>4 DEF Base, Types, Submitted, Known
  <1>8. Holding'
    BY <1>1, <1>4 DEF Base, Types, Holding, Busy
  <1>9. QED
    BY <1>5, <1>7, <1>8 DEF Base

\* blk_fetch_request and the stores of list_del.
LEMMA FetchBase ==
    ASSUME Base, NEW t \in Tasks, Fetch(t) \/ First(t) \/ Back(t) \/ Forth(t)
    PROVE  Base'
  <1>1. /\ UNCHANGED <<shape, served, call>>
        /\ pc[t] \in {"fetch", "first", "back", "forth"} /\ met' \in BOOLEAN
    BY DEF Fetch, First, Back, Forth, Take, Enter, callvars, Base, Types
  <1>2. rq[t] = None
    BY <1>1 DEF Base, Holding, Busy
  <1>3. ListHead \in Node /\ Bios \subseteq Node /\ Node \subseteq Link /\ Poison \in Link /\ Known(Poison)
    BY QueueAssumption DEF Node, Link, Known
  <1>4. CASE Fetch(t) \/ First(t)
    <2>1. /\ UNCHANGED <<nxt, prv, rq>>
          /\ \A u \in Tasks : u # t => ptr'[u] = ptr[u]
          /\ ptr' \in [Tasks -> Link] /\ \A u \in Tasks : Known(ptr'[u])
          /\ (\E l \in {"endio", "first"} : pc' = [pc EXCEPT ![t] = l])
             \/ (pc' = [pc EXCEPT ![t] = "back"] /\ ptr'[t] \in Bios)
      <3>1. CASE Fetch(t)
        BY <3>1 DEF Fetch, Goto, taskvars, Base, Types, Submitted
      <3>2. CASE First(t)
        BY <1>3, <3>2, QueueAssumption DEF First, Goto, taskvars, Base, Types, Submitted, Known
      <3>3. QED
        BY <1>4, <3>1, <3>2
    <2>2. Types'
      BY <1>1, <2>1 DEF Base, Types, Place
    <2>3. Submitted'
      BY <1>1, <2>1 DEF Base, Types, Submitted, Known
    <2>4. Holding'
      BY <1>1, <2>1 DEF Base, Types, Holding, Busy
    <2>5. QED
      BY <2>2, <2>3, <2>4 DEF Base
  <1>5. CASE Back(t)
    <2>1. /\ prv' = Write(prv, nxt[ptr[t]], prv[ptr[t]]) /\ UNCHANGED <<nxt, ptr, rq>>
          /\ pc[t] = "back" /\ pc' = [pc EXCEPT ![t] = "forth"]
      BY <1>5 DEF Back, Goto, taskvars
    <2>2. ptr[t] \in Bios /\ ptr[t] \in Node /\ shape[ptr[t]] # None
      BY <1>3, <2>1 DEF Base, Holding, Submitted, Known
    <2>3. prv[ptr[t]] \in Link /\ Known(prv[ptr[t]])
      BY <2>2 DEF Base, Types, Submitted, Known
    <2>4. prv' \in [Node -> Link] /\ \A z \in Node : prv'[z] = prv[z] \/ prv'[z] = prv[ptr[t]]
      BY <2>1, <2>3 DEF Write, Base, Types
    <2>5. Types'
      BY <1>1, <2>1, <2>4 DEF Base, Types, Place
    <2>6. Submitted'
      BY <1>1, <2>1, <2>3, <2>4 DEF Base, Types, Submitted, Known
    <2>7. Holding'
      BY <1>1, <2>1, <2>2 DEF Base, Types, Holding, Busy
    <2>8. QED
      BY <2>5, <2>6, <2>7 DEF Base
  <1>6. CASE Forth(t)
    <2> DEFINE b == ptr[t]
               w == Write(nxt, prv[b], nxt[b])
    <2>1. /\ nxt' = Poisoned(w, b) /\ prv' = Poisoned(prv, b) /\ UNCHANGED ptr
          /\ pc[t] = "forth" /\ pc' = [pc EXCEPT ![t] = FirstStep(b)] /\ rq' = [rq EXCEPT ![t] = b]
      BY <1>6 DEF Forth, Take, Goto
    <2>2. b \in Bios /\ b \in Node /\ shape[b] # None /\ b # None
      BY <1>3, <2>1, QueueAssumption DEF Base, Holding, Submitted, Known
    <2>3. nxt[b] \in Link /\ Known(nxt[b])
      BY <2>2 DEF Base, Types, Submitted, Known
    <2>4. w \in [Node -> Link] /\ \A z \in Node : w[z] = nxt[z] \/ w[z] = nxt[b]
      BY <2>3 DEF Write, Base, Types
    <2>5. FirstStep(b) \in Busy
      BY DEF FirstStep, Busy
    <2> HIDE DEF b, w
    <2>6. nxt' \in [Node -> Link] /\ \A z \in Node : nxt'[z] = nxt[z] \/ nxt'[z] = nxt[b] \/ nxt'[z] = Poison
      BY <1>3, <2>1, <2>4 DEF Poisoned
    <2>7. prv' \in [Node -> Link] /\ \A z \in Node : prv'[z] = prv[z] \/ prv'[z] = Poison
      BY <1>3, <2>1 DEF Poisoned, Base, Types
    <2>8. Types'
      BY <1>1, <2>1, <2>2, <2>5, <2>6, <2>7 DEF Base, Types, Place, Busy
    <2>9. Submitted'
      <3>1. \A x \in Node : (nxt'[x] = x \/ Known(nxt'[x])) /\ (prv'[x] = x \/ Known(prv'[x]))
        BY <1>3, <2>3, <2>6, <2>7 DEF Base, Submitted
      <3>2. \A u \in Tasks : rq'[u] # None => shape'[rq'[u]] # None
        BY <1>1, <2>1, <2>2 DEF Base, Types, Submitted
      <3>3. \A u \in Tasks : pc'[u] # "idle" => call'[u] \in Bios /\ shape'[call'[u]] # None
        BY <1>1, <2>1 DEF Base, Types, Submitted
      <3>4. QED
        BY <1>1, <2>1, <3>1, <3>2, <3>3 DEF Base, Submitted, Known
    <2>10. Holding'
      BY <1>1, <2>1, <2>2, <2>5 DEF Base, Types, Holding, Busy
    <2>11. QED
      BY <2>8, <2>9, <2>10 DEF Base
  <1>7. QED
    BY <1>4, <1>5, <1>6

\* Where a step in the chip leaves a task.
LEMMA ChipMoves ==
    ASSUME Base, NEW t \in Tasks, Chip(t)
    PROVE  /\ UNCHANGED <<nxt, prv, ptr, met, shape, served, call, rq>>
           /\ pc[t] \in Busy /\ \E l \in Busy : pc' = [pc EXCEPT ![t] = l]
  <1>2. CASE Open(t)
    <2>1. pc' = pc /\ pc[t] \in Busy
      BY <1>2 DEF Open, Busy
    <2>2. pc' = [pc EXCEPT ![t] = pc[t]]
      BY <2>1 DEF Base, Types
    <2>3. QED
      BY <1>2, <2>1, <2>2 DEF Open, listvars, callvars, taskvars
  <1>3. CASE ReadSectors(t)
    BY <1>3 DEF ReadSectors, Goto, Busy, listvars, taskvars
  <1>4. CASE Backup(t)
    BY <1>4 DEF Backup, Goto, Busy, listvars, callvars, taskvars
  <1>5. CASE Patch(t)
    BY <1>5 DEF Patch, Goto, Busy, listvars, callvars, taskvars
  <1>6. CASE Erase(t)
    BY <1>6 DEF Erase, Goto, Busy, listvars, callvars
  <1>7. CASE Program(t)
    BY <1>7 DEF Program, Goto, Busy, listvars, callvars
  <1>8. QED
    BY <1>2, <1>3, <1>4, <1>5, <1>6, <1>7 DEF Chip

\* The calls into the chip leave queue and requests alone.
LEMMA ChipBase ==
    ASSUME Base, NEW t \in Tasks, Chip(t)
    PROVE  Base'
  <1>1. PICK l \in Busy :
            /\ UNCHANGED <<nxt, prv, ptr, met, shape, served, call, rq>>
            /\ pc[t] \in Busy /\ pc' = [pc EXCEPT ![t] = l]
    BY ChipMoves
  <1>2. Types'
    BY <1>1 DEF Base, Types, Place, Busy
  <1>3. Submitted'
    BY <1>1 DEF Base, Types, Submitted, Known, Busy
  <1>4. Holding'
    BY <1>1 DEF Base, Types, Holding, Busy
  <1>5. QED
    BY <1>2, <1>3, <1>4 DEF Base

\* The request a task holds becomes one that has been served.
LEMMA EndRequestBase ==
    ASSUME Base, NEW t \in Tasks, EndRequest(t)
    PROVE  Base'
  <1>1. /\ pc[t] = "end" /\ served' = served \cup {rq[t]} /\ rq' = [rq EXCEPT ![t] = None]
        /\ pc' = [pc EXCEPT ![t] = "fetch"] /\ UNCHANGED <<nxt, prv, ptr, met, shape, call>>
    BY DEF EndRequest, Finish, Goto, listvars
  <1>2. rq[t] \in Bios /\ shape[rq[t]] # None
    BY <1>1 DEF Base, Types, Holding, Submitted, Busy
  <1>3. Types'
    BY <1>1, <1>2 DEF Base, Types, Place
  <1>4. Submitted'
    BY <1>1, <1>2 DEF Base, Types, Submitted, Known
  <1>5. Holding'
    BY <1>1 DEF Base, Types, Holding, Busy
  <1>6. QED
    BY <1>3, <1>4, <1>5 DEF Base

\* The call returns.
LEMMA EndIoBase ==
    ASSUME Base, NEW t \in Tasks, EndIo(t)
    PROVE  Base'
  <1>1. /\ pc[t] = "endio" /\ call' = [call EXCEPT ![t] = None] /\ pc' = [pc EXCEPT ![t] = "idle"]
        /\ UNCHANGED <<nxt, prv, ptr, met, shape, served, rq>>
    BY DEF EndIo, Goto, listvars, taskvars
  <1>2. Types'
    BY <1>1 DEF Base, Types, Place
  <1>3. Submitted'
    BY <1>1 DEF Base, Types, Submitted, Known
  <1>4. Holding'
    BY <1>1 DEF Base, Types, Holding, Busy
  <1>5. QED
    BY <1>2, <1>3, <1>4 DEF Base

\* Every reachable state of the block layer has its requests and calls in order so far as
\* no lock is needed for it.
THEOREM BaseInvariant == Spec => []Base
  <1>1. Init => Base
    <2> SUFFICES ASSUME Init PROVE Base
      OBVIOUS
    <2>1. ListHead \in Node /\ Node \subseteq Link /\ Known(ListHead)
      BY QueueAssumption DEF Node, Link, Known
    <2>2. QED
      BY <2>1 DEF Init, Base, Types, Place, Submitted, Holding, Busy
  <1>2. Base /\ [Next]_vars => Base'
    <2> SUFFICES ASSUME Base, [Next]_vars PROVE Base'
      OBVIOUS
    <2>1. CASE UNCHANGED vars
      BY <2>1 DEF vars, listvars, callvars, taskvars, Base, Types, Submitted, Known, Holding
    <2>2. CASE Ready
      BY <2>2 DEF Ready, listvars, callvars, taskvars, Base, Types, Submitted, Known, Holding
    <2>3. ASSUME NEW t \in Tasks, Step(t) PROVE Base'
      BY <2>3, AddBase, FetchBase, ChipBase, EndRequestBase, EndIoBase DEF Step
    <2>4. ASSUME NEW t \in Tasks, NEW s \in Shapes, Submit(t, s) PROVE Base'
      BY <2>4, SubmitBase
    <2>5. QED
      BY <2>1, <2>2, <2>3, <2>4 DEF Next
  <1>3. QED
    BY <1>1, <1>2, PTL DEF Spec
-----------------------------------------------------------------------------
(* The list, as long as no two tasks meet inside the sections.             *)

\* The i-th request of the queue q; before the first and behind the last one comes the
\* head of the list.
Nth(q, i) == IF i \in 1 .. Len(q) THEN q[i] ELSE ListHead

\* The task t has yet to store the back link of x.
Amiss(t, x) ==
    \/ pc[t] \in {"own", "next"} /\ x = ListHead
    \/ pc[t] = "forth" /\ x = nxt[ptr[t]]

\* What a task inside a section has loaded and stored.
Loaded(t, q) ==
    /\ pc[t] \in {"prev", "own", "next"} => ptr[t] = Nth(q, Len(q))
    /\ pc[t] \in {"own", "next"} => prv[ListHead] = call[t]
    /\ pc[t] = "next" => nxt[call[t]] = ListHead /\ prv[call[t]] = ptr[t]
    /\ pc[t] \in {"first", "back", "forth"} => q # <<>>
    /\ pc[t] \in {"back", "forth"} => ptr[t] = q[1]
    /\ pc[t] = "forth" => prv[nxt[ptr[t]]] = ListHead

\* The list is q: forward always, backward but for what is yet to be stored.
Linked(q) ==
    /\ \A i \in 0 .. Len(q) : nxt[Nth(q, i)] = Nth(q, i + 1)
    /\ \A i \in 1 .. Len(q) + 1 :
          prv[Nth(q, i)] = Nth(q, i - 1) \/ \E t \in Tasks : Amiss(t, Nth(q, i))
    /\ \A t \in Tasks : Loaded(t, q)

Adding == {"add", "prev", "own", "next"}

\* A bio is on the queue q, with a task, or done with, and only one of these; the bio of
\* a call is nowhere before it is added, and from then on somewhere.
Placed(q) ==
    /\ IsInjective(q) /\ Range(q) \cap served = {}
    /\ \A b \in Range(q) : shape[b] # None
    /\ \A t \in Tasks : rq[t] # None => rq[t] \notin Range(q) \cup served
    /\ \A t, u \in Tasks : rq[t] = rq[u] /\ rq[t] # None => t = u
    /\ \A t \in Tasks : pc[t] \in Adding =>
           call[t] \notin Range(q) \cup served /\ \A u \in Tasks : rq[u] # call[t]
    /\ \A t \in Tasks : pc[t] \notin {"idle"} \cup Adding =>
           call[t] \in Range(q) \cup served \/ \E u \in Tasks : rq[u] = call[t]
    /\ \A t \in Tasks : pc[t] = "endio" =>
           call[t] \in served \/ \E u \in Tasks : rq[u] = call[t]

\* One task at most is inside a section.
OneInside == \A t, u \in Tasks : pc[t] \in Section /\ pc[u] \in Section => t = u

Ordered == OneInside /\ \E q \in Seq(Bios) : Linked(q) /\ Placed(q)

QueueInv == ~met => Ordered

\* A task inside a section stays the only one, and one that enters alone is.
LEMMA StaysInside ==
    ASSUME Base, OneInside, NEW t \in Tasks, NEW l,
           pc' = [pc EXCEPT ![t] = l],
           pc[t] \in Section \/ l \notin Section \/ \A u \in Tasks \ {t} : pc[u] \notin Section
    PROVE  OneInside'
  BY DEF OneInside, Base, Types

\* While the links and the sections are left alone the list is what it was.
LEMMA LinksStay ==
    ASSUME Base, NEW q \in Seq(Bios), Linked(q), UNCHANGED <<nxt, prv, ptr>>,
           \A u \in Tasks : \/ pc[u] \notin Section /\ pc'[u] \notin Section
                            \/ pc'[u] = pc[u] /\ call'[u] = call[u]
    PROVE  Linked(q)'
  <1>1. ASSUME NEW u \in Tasks PROVE Loaded(u, q)'
    BY DEF Linked, Loaded, Section, Nth
  <1>2. ASSUME NEW u \in Tasks, NEW x, Amiss(u, x) PROVE Amiss(u, x)'
    BY <1>2 DEF Amiss, Section
  <1>3. \A i \in 0 .. Len(q) : (nxt[Nth(q, i)] = Nth(q, i + 1))'
    BY DEF Linked, Nth
  <1>4. ASSUME NEW i \in 1 .. Len(q) + 1
        PROVE  (prv[Nth(q, i)] = Nth(q, i - 1) \/ \E u \in Tasks : Amiss(u, Nth(q, i)))'
    <2>1. Nth(q, i)' = Nth(q, i) /\ Nth(q, i - 1)' = Nth(q, i - 1)
      BY DEF Nth
    <2>2. CASE prv[Nth(q, i)] = Nth(q, i - 1)
      BY <2>1, <2>2
    <2>3. ASSUME NEW u \in Tasks, Amiss(u, Nth(q, i)) PROVE \E v \in Tasks : Amiss(v, Nth(q, i))'
      <3>1. PICK x : x = Nth(q, i)
        OBVIOUS
      <3>2. Amiss(u, x)'
        BY <1>2, <2>3, <3>1
      <3>3. QED
        BY <2>1, <3>1, <3>2 DEF Amiss
    <2>4. QED
      BY <2>2, <2>3 DEF Linked
  <1>5. QED
    BY <1>1, <1>3, <1>4 DEF Linked

\* While a task moves without changing who has what, everything is where it was.
LEMMA PlacesStay ==
    ASSUME Base, NEW q \in Seq(Bios), Placed(q), NEW t \in Tasks, NEW l,
           UNCHANGED <<shape, served, call, rq>>, pc' = [pc EXCEPT ![t] = l],
           \/ pc[t] \in Adding /\ l \in Adding
           \/ pc[t] \notin {"idle"} \cup Adding /\ l \notin {"idle", "endio"} \cup Adding
    PROVE  Placed(q)'
  <1>1. /\ IsInjective(q) /\ Range(q) \cap served' = {}
        /\ \A b \in Range(q) : shape'[b] # None
        /\ \A u \in Tasks : rq'[u] # None => rq'[u] \notin Range(q) \cup served'
        /\ \A u, v \in Tasks : rq'[u] = rq'[v] /\ rq'[u] # None => u = v
    BY DEF Placed
  <1>2. \A u \in Tasks : pc'[u] \in Adding =>
           call'[u] \notin Range(q) \cup served' /\ \A v \in Tasks : rq'[v] # call'[u]
    BY DEF Placed, Base, Types
  <1>3. \A u \in Tasks : pc'[u] \notin {"idle"} \cup Adding =>
           call'[u] \in Range(q) \cup served' \/ \E v \in Tasks : rq'[v] = call'[u]
    BY DEF Placed, Base, Types
  <1>4. \A u \in Tasks : pc'[u] = "endio" => call'[u] \in served' \/ \E v \in Tasks : rq'[v] = call'[u]
    BY DEF Placed, Base, Types, Adding
  <1>5. QED
    BY <1>1, <1>2, <1>3, <1>4 DEF Placed

\* What appending a new element does to a queue without repetitions.
LEMMA Appended ==
    ASSUME NEW S, NEW q \in Seq(S), NEW e \in S, IsInjective(q), e \notin Range(q)
    PROVE  Append(q, e) \in Seq(S) /\ IsInjective(Append(q, e)) /\ Range(Append(q, e)) = Range(q) \cup {e}
  <1>1. /\ Append(q, e) \in Seq(S) /\ Len(Append(q, e)) = Len(q) + 1 /\ Len(q) \in Nat
        /\ DOMAIN q = 1 .. Len(q) /\ DOMAIN Append(q, e) = 1 .. Len(q) + 1
    BY AppendProperties, LenProperties
  <1>2. \A i \in 1 .. Len(q) : Append(q, e)[i] = q[i]
    BY AppendProperties
  <1>3. Append(q, e)[Len(q) + 1] = e
    BY AppendProperties
  <1>4. IsInjective(Append(q, e))
    BY <1>1, <1>2, <1>3 DEF IsInjective, Range
  <1>5. Range(Append(q, e)) = Range(q) \cup {e}
    BY <1>1, <1>2, <1>3 DEF Range
  <1>6. QED
    BY <1>1, <1>4, <1>5

\* What taking the head off such a queue does.
LEMMA HeadTaken ==
    ASSUME NEW S, NEW q \in Seq(S), q # <<>>, IsInjective(q)
    PROVE  /\ Tail(q) \in Seq(S) /\ IsInjective(Tail(q)) /\ Head(q) \in S
           /\ Head(q) \notin Range(Tail(q)) /\ Range(q) = Range(Tail(q)) \cup {Head(q)}
  <1>1. /\ Tail(q) \in Seq(S) /\ Len(Tail(q)) = Len(q) - 1 /\ Len(q) \in Nat /\ Len(q) > 0
        /\ DOMAIN q = 1 .. Len(q) /\ DOMAIN Tail(q) = 1 .. Len(q) - 1 /\ Head(q) \in S
    BY HeadTailProperties, LenProperties, EmptySeq
  <1>2. \A i \in 1 .. Len(q) - 1 : Tail(q)[i] = q[i + 1]
    BY HeadTailProperties, <1>1
  <1>3. Head(q) = q[1]
    OBVIOUS
  <1>4. \A i \in 1 .. Len(q) - 1 : i + 1 \in DOMAIN q /\ i + 1 # 1
    BY <1>1
  <1>5. IsInjective(Tail(q))
    <2> SUFFICES ASSUME NEW i \in 1 .. Len(q) - 1, NEW j \in 1 .. Len(q) - 1, Tail(q)[i] = Tail(q)[j]
                 PROVE  i = j
      BY <1>1 DEF IsInjective
    <2>1. q[i + 1] = q[j + 1]
      BY <1>2
    <2>2. i + 1 = j + 1
      BY <1>4, <2>1 DEF IsInjective
    <2>3. QED
      BY <1>1, <2>2
  <1>6. Head(q) \notin Range(Tail(q))
    BY <1>1, <1>2, <1>3, <1>4 DEF IsInjective, Range
  <1>7. Range(q) = Range(Tail(q)) \cup {Head(q)}
    <2>1. ASSUME NEW i \in DOMAIN q PROVE q[i] \in Range(Tail(q)) \cup {Head(q)}
      <3>1. i = 1 \/ (i - 1 \in 1 .. Len(q) - 1 /\ i - 1 + 1 = i)
        BY <1>1
      <3>2. QED
        BY <1>1, <1>2, <1>3, <3>1 DEF Range
    <2>2. ASSUME NEW i \in DOMAIN Tail(q) PROVE Tail(q)[i] \in Range(q)
      BY <1>1, <1>2, <1>4 DEF Range
    <2>3. q[1] \in Range(q)
      BY <1>1 DEF Range
    <2>4. QED
      BY <1>3, <2>1, <2>2, <2>3 DEF Range
  <1>8. QED
    BY <1>1, <1>5, <1>6, <1>7

\* The places of a queue without repetitions are different ones.
LEMMA NthApart ==
    ASSUME NEW q \in Seq(Bios), IsInjective(q)
    PROVE  /\ Len(q) \in Nat /\ DOMAIN q = 1 .. Len(q)
           /\ Nth(q, 0) = ListHead /\ Nth(q, Len(q) + 1) = ListHead
           /\ \A i \in 1 .. Len(q) : Nth(q, i) = q[i] /\ q[i] \in Bios /\ q[i] # ListHead /\ q[i] \in Range(q)
           /\ \A i \in 0 .. Len(q) + 1 : Nth(q, i) \in Node
           /\ \A i, j \in 1 .. Len(q) + 1 : Nth(q, i) = Nth(q, j) => i = j
           /\ \A i, j \in 0 .. Len(q) : Nth(q, i) = Nth(q, j) => i = j
           /\ q = <<>> <=> Len(q) = 0
  <1>1. /\ Len(q) \in Nat /\ DOMAIN q = 1 .. Len(q) /\ q = <<>> <=> Len(q) = 0
        /\ \A i \in 1 .. Len(q) : q[i] \in Bios
    BY LenProperties, EmptySeq, ElementOfSeq
  <1>2. Nth(q, 0) = ListHead /\ Nth(q, Len(q) + 1) = ListHead
    BY <1>1 DEF Nth
  <1>3. \A i \in 1 .. Len(q) : Nth(q, i) = q[i] /\ q[i] \in Bios /\ q[i] # ListHead /\ q[i] \in Range(q)
    BY <1>1, QueueAssumption DEF Nth, Range
  <1>4. \A i \in 0 .. Len(q) + 1 : Nth(q, i) \in Node
    BY <1>1 DEF Nth, Node
  <1>5. \A i, j \in 1 .. Len(q) : q[i] = q[j] => i = j
    BY <1>1 DEF IsInjective
  <1>6. \A i, j \in 1 .. Len(q) + 1 : Nth(q, i) = Nth(q, j) => i = j
    BY <1>1, <1>2, <1>3, <1>5
  <1>7. \A i, j \in 0 .. Len(q) : Nth(q, i) = Nth(q, j) => i = j
    BY <1>1, <1>2, <1>3, <1>5
  <1>8. QED
    BY <1>1, <1>2, <1>3, <1>4, <1>6, <1>7

\* Where no back link is amiss the list is in order both ways.
LEMMA BackInOrder ==
    ASSUME NEW q \in Seq(Bios), Linked(q), \A u \in Tasks : pc[u] \notin {"own", "next", "forth"}
    PROVE  \A i \in 1 .. Len(q) + 1 : prv[Nth(q, i)] = Nth(q, i - 1)
  BY DEF Linked, Amiss

\* A task in a section is the only one there.
LEMMA Alone ==
    ASSUME OneInside, NEW t \in Tasks, pc[t] \in Section
    PROVE  \A u \in Tasks \ {t} : pc[u] \notin Section
  BY DEF OneInside

\* Submitting does not touch the list.
LEMMA SubmitList ==
    ASSUME Base, OneInside, NEW q \in Seq(Bios), Linked(q), Placed(q),
           NEW t \in Tasks, NEW s \in Shapes, Submit(t, s)
    PROVE  OneInside' /\ Linked(q)' /\ Placed(q)'
  <1>0. NewBio \in Bios /\ shape[NewBio] = None /\ s # None
    BY QueueAssumption DEF Submit, Prepare, NewBio
  <1> DEFINE b == NewBio
  <1>1. /\ pc[t] = "idle" /\ b \in Bios /\ shape[b] = None
        /\ shape' = [shape EXCEPT ![b] = s] /\ call' = [call EXCEPT ![t] = b]
        /\ pc' = [pc EXCEPT ![t] = "add"] /\ UNCHANGED <<nxt, prv, ptr, met, served, rq>>
    BY <1>0 DEF Submit, Prepare, Goto, listvars, taskvars
  <1> HIDE DEF b
  <1>2. OneInside'
    BY <1>1, StaysInside DEF Section
  <1>3. Linked(q)'
    BY <1>1, LinksStay DEF Base, Types, Section
  <1>4. b \notin Range(q) \cup served /\ \A u \in Tasks : rq[u] # b
    BY <1>1, QueueAssumption DEF Base, Submitted, Placed
  <1>5. Range(q) \subseteq Bios
    BY DEF Range
  <1>6. Placed(q)'
    <2>1. \A x \in Range(q) : shape'[x] # None
      BY <1>0, <1>1, <1>5 DEF Base, Types, Placed
    <2>2. \A u \in Tasks : pc'[u] \in Adding =>
             call'[u] \notin Range(q) \cup served' /\ \A v \in Tasks : rq'[v] # call'[u]
      BY <1>1, <1>4 DEF Base, Types, Placed
    <2>3. \A u \in Tasks : pc'[u] \notin {"idle"} \cup Adding =>
             call'[u] \in Range(q) \cup served' \/ \E v \in Tasks : rq'[v] = call'[u]
      BY <1>1 DEF Base, Types, Placed, Adding
    <2>4. \A u \in Tasks : pc'[u] = "endio" => call'[u] \in served' \/ \E v \in Tasks : rq'[v] = call'[u]
      BY <1>1 DEF Base, Types, Placed
    <2>5. QED
      BY <1>1, <2>1, <2>2, <2>3, <2>4 DEF Placed
  <1>7. QED
    BY <1>2, <1>3, <1>6

\* The steps of list_add_tail before the last leave the list what it is.
LEMMA AddList ==
    ASSUME Base, OneInside, NEW q \in Seq(Bios), Linked(q), Placed(q), ~met',
           NEW t \in Tasks, AddLoad(t) \/ AddPrev(t) \/ AddOwn(t)
    PROVE  OneInside' /\ Linked(q)' /\ Placed(q)'
  <1> DEFINE n == Len(q)
  <1>1. PICK l \in {"prev", "own", "next"} :
           /\ UNCHANGED <<shape, served, call, rq>> /\ pc' = [pc EXCEPT ![t] = l]
           /\ pc[t] \in {"add", "prev", "own"}
           /\ pc'[t] = l /\ \A u \in Tasks \ {t} : pc'[u] = pc[u]
    BY DEF AddLoad, AddPrev, AddOwn, Goto, callvars, taskvars, Base, Types
  <1>2. \A u \in Tasks \ {t} : pc[u] \notin Section
    BY Alone DEF AddLoad, AddPrev, AddOwn, Enter, Section
  <1>3. OneInside'
    BY <1>1, <1>2, StaysInside
  <1>4. Placed(q)'
    BY <1>1, PlacesStay DEF Adding
  <1>5. call[t] \in Bios /\ call[t] # ListHead /\ call[t] \notin Range(q)
    BY <1>1, QueueAssumption DEF Base, Submitted, Placed, Adding
  <1>6. \A u \in Tasks \ {t} : Loaded(u, q)'
    BY <1>1, <1>2 DEF Loaded, Section
  <1>7. \A i \in 0 .. n : nxt[Nth(q, i)] = Nth(q, i + 1)
    BY DEF Linked
  <1>8. CASE AddLoad(t)
    <2>1. \A i \in 1 .. n + 1 : prv[Nth(q, i)] = Nth(q, i - 1)
      BY <1>2, <1>8, BackInOrder DEF AddLoad, Section
    <2>2. pc'[t] = "prev" /\ ptr'[t] = prv[ListHead] /\ UNCHANGED <<nxt, prv>>
      BY <1>8 DEF AddLoad, Goto, Base, Types
    <2>3. ptr'[t] = Nth(q, n)
      <3>1. n + 1 \in 1 .. n + 1 /\ (n + 1) - 1 = n /\ Nth(q, n + 1) = ListHead
        BY NthApart DEF Placed
      <3>2. QED
        BY <2>1, <2>2, <3>1
    <2>4. Loaded(t, q)'
      BY <2>2, <2>3 DEF Loaded, Nth
    <2>5. QED
      BY <1>3, <1>4, <1>6, <1>7, <2>1, <2>2, <2>4 DEF Linked, Nth
  <1>9. CASE AddPrev(t)
    <2>1. \A i \in 1 .. n + 1 : prv[Nth(q, i)] = Nth(q, i - 1)
      BY <1>2, <1>9, BackInOrder DEF AddPrev, Section
    <2>2. /\ pc[t] = "prev" /\ pc'[t] = "own" /\ UNCHANGED <<nxt, ptr>>
          /\ prv' = [prv EXCEPT ![ListHead] = call[t]] /\ prv \in [Node -> Link] /\ ListHead \in Node
      BY <1>9 DEF AddPrev, Goto, Base, Types, Node
    <2>3. Loaded(t, q)'
      BY <1>1, <2>2 DEF Linked, Loaded, Nth
    <2>4. ASSUME NEW i \in 1 .. n + 1
          PROVE  prv'[Nth(q, i)] = Nth(q, i - 1) \/ (\E u \in Tasks : Amiss(u, Nth(q, i))')
      <3>1. CASE Nth(q, i) = ListHead
        BY <2>2, <3>1 DEF Amiss, Nth
      <3>2. CASE Nth(q, i) # ListHead
        BY <2>1, <2>2, <3>2
      <3>3. QED
        BY <3>1, <3>2
    <2>5. QED
      BY <1>3, <1>4, <1>6, <1>7, <2>2, <2>3, <2>4 DEF Linked, Nth
  <1>10. CASE AddOwn(t)
    <2>1. /\ pc[t] = "own" /\ pc'[t] = "next" /\ UNCHANGED ptr
          /\ nxt' = [nxt EXCEPT ![call[t]] = ListHead] /\ prv' = [prv EXCEPT ![call[t]] = ptr[t]]
          /\ nxt \in [Node -> Link] /\ prv \in [Node -> Link] /\ call[t] \in Node
      BY <1>5, <1>10 DEF AddOwn, Goto, Base, Types, Node
    <2>2. \A i \in 0 .. n + 1 : Nth(q, i) # call[t]
      <3>1. \A i \in 1 .. n : Nth(q, i) = q[i] /\ q[i] \in Range(q)
        BY NthApart DEF Placed
      <3>2. QED
        BY <1>5, <3>1 DEF Nth
    <2>3. \A i \in 0 .. n + 1 : nxt'[Nth(q, i)] = nxt[Nth(q, i)] /\ prv'[Nth(q, i)] = prv[Nth(q, i)]
      BY <2>1, <2>2
    <2>4. Loaded(t, q)'
      BY <1>1, <1>5, <2>1 DEF Linked, Loaded, Nth
    <2>5. ASSUME NEW i \in 1 .. n + 1
          PROVE  prv'[Nth(q, i)] = Nth(q, i - 1) \/ (\E u \in Tasks : Amiss(u, Nth(q, i))')
      <3>1. CASE Nth(q, i) = ListHead
        BY <2>1, <3>1 DEF Amiss, Nth
      <3>2. CASE Nth(q, i) # ListHead
        <4>1. \A u \in Tasks : ~Amiss(u, Nth(q, i))
          BY <1>2, <2>1, <3>2 DEF Amiss, Section
        <4>2. prv[Nth(q, i)] = Nth(q, i - 1)
          BY <4>1 DEF Linked
        <4>3. i \in 0 .. n + 1
          OBVIOUS
        <4>4. QED
          BY <2>3, <4>2, <4>3
      <3>3. QED
        BY <3>1, <3>2
    <2>6. \A i \in 0 .. n : nxt'[Nth(q, i)] = Nth(q, i + 1)
      <3>1. \A i \in 0 .. n : i \in 0 .. n + 1
        BY NthApart DEF Placed
      <3>2. QED
        BY <1>7, <2>3, <3>1
    <2>7. QED
      BY <1>3, <1>4, <1>6, <2>4, <2>5, <2>6 DEF Linked, Nth
  <1>11. QED
    BY <1>8, <1>9, <1>10

\* The last store of list_add_tail puts the request at the end of the list.
LEMMA AddNextList ==
    ASSUME Base, OneInside, NEW q \in Seq(Bios), Linked(q), Placed(q), NEW t \in Tasks, AddNext(t)
    PROVE  OneInside' /\ \E r \in Seq(Bios) : Linked(r)' /\ Placed(r)'
  <1> DEFINE n == Len(q)
  <1>1. /\ pc[t] = "next" /\ pc' = [pc EXCEPT ![t] = "fetch"] /\ nxt' = Write(nxt, ptr[t], call[t])
        /\ UNCHANGED <<prv, ptr, met, shape, served, call, rq>>
    BY DEF AddNext, Goto, callvars, taskvars
  <1>2. \A u \in Tasks \ {t} : pc[u] \notin Section
    BY <1>1, Alone DEF Section
  <1>3. /\ call[t] \in Bios /\ call[t] # ListHead /\ shape[call[t]] # None
        /\ call[t] \notin Range(q) \cup served /\ \A u \in Tasks : rq[u] # call[t]
    BY <1>1, QueueAssumption DEF Base, Submitted, Placed, Adding
  <1>4. PICK c : c = call[t]
    OBVIOUS
  <1>5. PICK r : r = Append(q, c)
    OBVIOUS
  <1>6. r \in Seq(Bios) /\ IsInjective(r) /\ Range(r) = Range(q) \cup {c}
    BY <1>3, <1>4, <1>5, Appended DEF Placed
  <1>7. n \in Nat /\ Len(r) = n + 1 /\ r[n + 1] = c /\ \A i \in 1 .. n : r[i] = q[i]
    BY <1>3, <1>4, <1>5, AppendProperties, LenProperties
  <1>8. /\ \A i \in 0 .. n : Nth(r, i) = Nth(q, i)
        /\ Nth(r, n + 1) = c /\ Nth(r, n + 2) = ListHead
    BY <1>7 DEF Nth
  <1>9. /\ ptr[t] = Nth(q, n) /\ prv[ListHead] = c /\ nxt[c] = ListHead /\ prv[c] = Nth(q, n)
    BY <1>1, <1>4 DEF Linked, Loaded
  <1>10. Nth(q, n) \in Node /\ c \in Node /\ Nth(q, n) # c /\ ListHead \in Node
    <2>1. n \in 0 .. n + 1 /\ (n = 0 \/ n \in 1 .. n)
      BY <1>7
    <2>2. QED
      BY <1>3, <1>4, <2>1, NthApart DEF Placed, Node
  <1>11. nxt'[Nth(q, n)] = c /\ \A z \in Node : z # Nth(q, n) => nxt'[z] = nxt[z]
    BY <1>1, <1>4, <1>9, <1>10 DEF Write, Base, Types
  <1>12. \A i \in 0 .. Len(r) : nxt'[Nth(r, i)] = Nth(r, i + 1)
    <2>1. ASSUME NEW i \in 0 .. n - 1 PROVE nxt'[Nth(r, i)] = Nth(r, i + 1)
      <3>1. i \in 0 .. n /\ n \in 0 .. n /\ i # n /\ i \in 0 .. n + 1 /\ i + 1 \in 0 .. n
        BY <1>7
      <3>2. Nth(q, i) # Nth(q, n) /\ Nth(q, i) \in Node
        BY <3>1, NthApart DEF Placed
      <3>3. nxt[Nth(q, i)] = Nth(q, i + 1)
        BY <3>1 DEF Linked
      <3>4. QED
        BY <1>8, <1>11, <3>1, <3>2, <3>3
    <2>2. nxt'[Nth(r, n)] = Nth(r, n + 1)
      <3>1. n \in 0 .. n
        BY <1>7
      <3>2. QED
        BY <1>8, <1>11, <3>1
    <2>3. nxt'[Nth(r, n + 1)] = Nth(r, n + 2)
      BY <1>8, <1>9, <1>10, <1>11
    <2>4. \A i \in 0 .. Len(r) : i \in 0 .. n - 1 \/ i = n \/ i = n + 1
      BY <1>7
    <2>5. (n + 1) + 1 = n + 2
      BY <1>7
    <2>6. QED
      BY <2>1, <2>2, <2>3, <2>4, <2>5
  <1>13. \A i \in 1 .. Len(r) + 1 : prv[Nth(r, i)] = Nth(r, i - 1)
    <2>1. ASSUME NEW i \in 1 .. n PROVE prv[Nth(r, i)] = Nth(r, i - 1)
      <3>1. i \in 0 .. n /\ i - 1 \in 0 .. n /\ i \in 1 .. n + 1
        BY <1>7
      <3>2. Nth(q, i) # ListHead
        BY NthApart DEF Placed
      <3>3. \A u \in Tasks : ~Amiss(u, Nth(q, i))
        BY <1>1, <1>2, <3>2 DEF Amiss, Section
      <3>4. prv[Nth(q, i)] = Nth(q, i - 1)
        BY <3>1, <3>3 DEF Linked
      <3>5. QED
        BY <1>8, <3>1, <3>4
    <2>2. prv[Nth(r, n + 1)] = Nth(r, n)
      <3>1. n \in 0 .. n
        BY <1>7
      <3>2. QED
        BY <1>8, <1>9, <3>1
    <2>3. prv[Nth(r, n + 2)] = Nth(r, n + 1)
      BY <1>8, <1>9
    <2>4. \A i \in 1 .. Len(r) + 1 : i \in 1 .. n \/ i = n + 1 \/ i = n + 2
      BY <1>7
    <2>5. (n + 1) - 1 = n /\ (n + 2) - 1 = n + 1
      BY <1>7
    <2>6. QED
      BY <2>1, <2>2, <2>3, <2>4, <2>5
  <1>14. Linked(r)'
    <2>1. \A u \in Tasks : pc'[u] \notin Section
      BY <1>1, <1>2 DEF Base, Types, Section
    <2>2. \A u \in Tasks : Loaded(u, r)'
      BY <2>1 DEF Loaded, Section
    <2>3. QED
      BY <1>1, <1>12, <1>13, <2>2 DEF Linked, Nth
  <1>15. Placed(r)'
    <2>1. /\ Range(r) \cap served' = {} /\ \A b \in Range(r) : shape'[b] # None
          /\ \A u \in Tasks : rq'[u] # None => rq'[u] \notin Range(r) \cup served'
          /\ \A u, v \in Tasks : rq'[u] = rq'[v] /\ rq'[u] # None => u = v
      BY <1>1, <1>3, <1>4, <1>6 DEF Placed
    <2>2. \A u \in Tasks : pc'[u] \in Adding =>
             call'[u] \notin Range(r) \cup served' /\ \A v \in Tasks : rq'[v] # call'[u]
      BY <1>1, <1>4, <1>6 DEF Base, Types, Holding, Placed, Adding
    <2>3. \A u \in Tasks : pc'[u] \notin {"idle"} \cup Adding =>
             call'[u] \in Range(r) \cup served' \/ \E v \in Tasks : rq'[v] = call'[u]
      BY <1>1, <1>4, <1>6 DEF Base, Types, Placed
    <2>4. \A u \in Tasks : pc'[u] = "endio" => call'[u] \in served' \/ \E v \in Tasks : rq'[v] = call'[u]
      BY <1>1 DEF Base, Types, Placed
    <2>5. QED
      BY <1>6, <2>1, <2>2, <2>3, <2>4 DEF Placed
  <1>16. OneInside'
    BY <1>1, StaysInside DEF Section
  <1>17. QED
    BY <1>6, <1>14, <1>15, <1>16

\* Looking at the queue and unlinking its first entry backwards leaves the list what it is.
LEMMA FetchList ==
    ASSUME Base, OneInside, NEW q \in Seq(Bios), Linked(q), Placed(q), ~met',
           NEW t \in Tasks, Fetch(t) \/ First(t) \/ Back(t)
    PROVE  OneInside' /\ Linked(q)' /\ Placed(q)'
  <1> DEFINE n == Len(q)
  <1>1. PICK l \in {"first", "back", "forth", "endio"} :
           /\ UNCHANGED <<nxt, shape, served, call, rq>> /\ pc' = [pc EXCEPT ![t] = l]
           /\ pc[t] \in {"fetch", "first", "back"}
           /\ pc'[t] = l /\ \A u \in Tasks \ {t} : pc'[u] = pc[u]
    BY DEF Fetch, First, Back, Goto, callvars, taskvars, Base, Types
  <1>2. \A u \in Tasks \ {t} : pc[u] \notin Section
    BY Alone DEF Fetch, First, Back, Enter, Section
  <1>3. OneInside'
    BY <1>1, <1>2, StaysInside
  <1>4. \A i \in 1 .. n + 1 : prv[Nth(q, i)] = Nth(q, i - 1)
    BY <1>1, <1>2, BackInOrder DEF Section
  <1>5. \A i \in 0 .. n : nxt[Nth(q, i)] = Nth(q, i + 1)
    BY DEF Linked
  <1>6. \A u \in Tasks \ {t} : Loaded(u, q)'
    BY <1>1, <1>2 DEF Loaded, Section
  <1>7. n \in Nat /\ nxt[ListHead] = Nth(q, 1) /\ (n # 0 => Nth(q, 1) = q[1] /\ q[1] \in Bios /\ q[1] # ListHead)
        /\ (n = 0 => Nth(q, 1) = ListHead) /\ (n = 0 <=> q = <<>>)
    <2>1. 0 \in 0 .. n /\ 0 + 1 = 1 /\ Nth(q, 0) = ListHead /\ (n # 0 => 1 \in 1 .. n)
      BY NthApart DEF Placed
    <2>2. n = 0 => Nth(q, 1) = ListHead
      BY DEF Nth
    <2>3. QED
      BY <1>5, <2>1, <2>2, NthApart DEF Placed
  <1>8. CASE l # "endio"
    <2>1. Placed(q)'
      BY <1>1, <1>8, PlacesStay DEF Adding
    <2>2. CASE Fetch(t)
      <3>1. pc'[t] = "first" /\ nxt[ListHead] # ListHead /\ UNCHANGED <<prv, ptr>>
        BY <1>1, <1>8, <2>2 DEF Fetch, Goto
      <3>2. q # <<>>
        BY <1>7, <3>1
      <3>3. Loaded(t, q)'
        BY <3>1, <3>2 DEF Loaded
      <3>4. QED
        BY <1>1, <1>3, <1>4, <1>5, <1>6, <2>1, <3>1, <3>3 DEF Linked, Nth
    <2>3. CASE First(t)
      <3>1. /\ pc'[t] = "back" /\ nxt[ListHead] \in Bios /\ ptr'[t] = nxt[ListHead] /\ UNCHANGED prv
            /\ \A u \in Tasks \ {t} : ptr'[u] = ptr[u]
        BY <2>3 DEF First, Goto, Base, Types
      <3>2. q # <<>> /\ ptr'[t] = q[1]
        BY <1>7, <3>1, QueueAssumption
      <3>3. Loaded(t, q)'
        BY <3>1, <3>2 DEF Loaded
      <3>4. QED
        BY <1>1, <1>3, <1>4, <1>5, <1>6, <2>1, <3>1, <3>3 DEF Linked, Nth
    <2>4. CASE Back(t)
      <3>1. /\ pc[t] = "back" /\ pc'[t] = "forth" /\ UNCHANGED ptr
            /\ prv' = Write(prv, nxt[ptr[t]], prv[ptr[t]]) /\ prv \in [Node -> Link]
        BY <2>4 DEF Back, Goto, Base, Types
      <3>2. q # <<>> /\ ptr[t] = q[1]
        BY <3>1 DEF Linked, Loaded
      <3>3. /\ 1 \in 0 .. n /\ 1 \in 1 .. n + 1 /\ 1 + 1 = 2 /\ 1 - 1 = 0 /\ 2 \in 0 .. n + 1
            /\ Nth(q, 1) = q[1] /\ Nth(q, 0) = ListHead /\ Nth(q, 2) \in Node
        BY <1>7, <3>2, NthApart DEF Placed
      <3>4. nxt[ptr[t]] = Nth(q, 2) /\ prv[ptr[t]] = ListHead
        BY <1>4, <1>5, <3>2, <3>3
      <3>5. prv'[Nth(q, 2)] = ListHead /\ \A z \in Node : z # Nth(q, 2) => prv'[z] = prv[z]
        BY <3>1, <3>3, <3>4 DEF Write
      <3>6. Loaded(t, q)'
        BY <1>1, <3>1, <3>2, <3>4, <3>5 DEF Loaded
      <3>7. ASSUME NEW i \in 1 .. n + 1
            PROVE  prv'[Nth(q, i)] = Nth(q, i - 1) \/ (\E u \in Tasks : Amiss(u, Nth(q, i))')
        <4>1. CASE Nth(q, i) = Nth(q, 2)
          BY <1>1, <3>1, <3>4, <4>1 DEF Amiss, Nth
        <4>2. CASE Nth(q, i) # Nth(q, 2)
          <5>1. Nth(q, i) \in Node
            BY <1>7, NthApart DEF Placed
          <5>2. QED
            BY <1>4, <3>5, <4>2, <5>1
        <4>3. QED
          BY <4>1, <4>2
      <3>8. QED
        BY <1>1, <1>3, <1>5, <1>6, <2>1, <3>6, <3>7 DEF Linked, Nth
    <2>5. QED
      BY <2>2, <2>3, <2>4
  <1>9. CASE l = "endio"
    <2>1. Fetch(t) /\ nxt[ListHead] = ListHead /\ UNCHANGED <<prv, ptr>>
      BY <1>1, <1>9 DEF Fetch, First, Back, Goto, Base, Types
    <2>2. q = <<>>
      BY <1>7, <2>1
    <2>3. Range(q) = {}
      BY <2>2 DEF Range
    <2>4. Linked(q)'
      BY <1>1, <1>9, <2>1, LinksStay DEF Fetch, Section
    <2>5. pc[t] = "fetch"
      BY <2>1 DEF Fetch
    <2>6. /\ Range(q) \cap served' = {} /\ \A b \in Range(q) : shape'[b] # None
          /\ \A u \in Tasks : rq'[u] # None => rq'[u] \notin Range(q) \cup served'
          /\ \A u, v \in Tasks : rq'[u] = rq'[v] /\ rq'[u] # None => u = v
      BY <1>1 DEF Placed
    <2>7. \A u \in Tasks : pc'[u] \in Adding =>
             call'[u] \notin Range(q) \cup served' /\ \A v \in Tasks : rq'[v] # call'[u]
      BY <1>1, <1>9 DEF Placed, Adding
    <2>8. \A u \in Tasks : pc'[u] \notin {"idle"} \cup Adding =>
             call'[u] \in served' \/ \E v \in Tasks : rq'[v] = call'[u]
      BY <1>1, <2>3, <2>5 DEF Placed, Adding
    <2>9. Placed(q)'
      BY <2>3, <2>6, <2>7, <2>8 DEF Placed, Adding
    <2>10. QED
      BY <1>3, <2>4, <2>9
  <1>10. QED
    BY <1>8, <1>9

\* The last stores of list_del take the first request off the list and give it to the task.
LEMMA ForthList ==
    ASSUME Base, OneInside, NEW q \in Seq(Bios), Linked(q), Placed(q), NEW t \in Tasks, Forth(t)
    PROVE  OneInside' /\ \E r \in Seq(Bios) : Linked(r)' /\ Placed(r)'
  <1> DEFINE n == Len(q)
  <1>1. /\ pc[t] = "forth" /\ pc' = [pc EXCEPT ![t] = FirstStep(ptr[t])]
        /\ nxt' = Poisoned(Write(nxt, prv[ptr[t]], nxt[ptr[t]]), ptr[t]) /\ prv' = Poisoned(prv, ptr[t])
        /\ rq' = [rq EXCEPT ![t] = ptr[t]] /\ UNCHANGED <<ptr, met, shape, served, call>>
    BY DEF Forth, Take, Goto, callvars
  <1>2. \A u \in Tasks \ {t} : pc[u] \notin Section
    BY <1>1, Alone DEF Section
  <1>3. q # <<>> /\ ptr[t] = q[1] /\ prv[nxt[ptr[t]]] = ListHead
    BY <1>1 DEF Linked, Loaded
  <1>4. PICK b \in Bios : b = q[1] /\ b # ListHead /\ b \in Range(q) /\ b # None
    <2>1. 1 \in 1 .. n
      BY <1>3, NthApart DEF Placed
    <2>2. QED
      BY <2>1, NthApart, QueueAssumption DEF Placed
  <1>5. PICK r : r = Tail(q)
    OBVIOUS
  <1>6. /\ r \in Seq(Bios) /\ IsInjective(r) /\ b \notin Range(r) /\ Range(q) = Range(r) \cup {b}
    BY <1>3, <1>4, <1>5, HeadTaken DEF Placed
  <1>7. /\ n \in Nat \ {0} /\ Len(r) = n - 1 /\ \A i \in 1 .. n - 1 : r[i] = q[i + 1]
    BY <1>3, <1>5, HeadTailProperties, LenProperties, EmptySeq
  <1>8. Nth(r, 0) = ListHead /\ \A i \in 1 .. n : Nth(r, i) = Nth(q, i + 1)
    BY <1>7 DEF Nth
  <1>9. FirstStep(ptr[t]) \in Busy
    BY DEF FirstStep, Busy
  <1>10. /\ 0 \in 0 .. n /\ 1 \in 0 .. n /\ 1 \in 1 .. n + 1 /\ 2 \in 1 .. n + 1 /\ 1 \in 1 .. n
    BY <1>7
  <1>11. /\ Nth(q, 0) = ListHead /\ Nth(q, 1) = b /\ nxt[b] = Nth(q, 2) /\ nxt[ListHead] = b
    <2>1. /\ nxt[Nth(q, 0)] = Nth(q, 0 + 1) /\ nxt[Nth(q, 1)] = Nth(q, 1 + 1)
      BY <1>10 DEF Linked
    <2>2. Nth(q, 0) = ListHead /\ Nth(q, 1) = q[1]
      BY <1>10, NthApart DEF Placed
    <2>3. QED
      BY <1>4, <2>1, <2>2
  <1>12. \A i, j \in 1 .. n + 1 : Nth(q, i) = Nth(q, j) => i = j
    BY NthApart DEF Placed
  <1>13. \A i \in 1 .. n + 1 : i # 2 => prv[Nth(q, i)] = Nth(q, i - 1)
    <2> SUFFICES ASSUME NEW i \in 1 .. n + 1, i # 2 PROVE prv[Nth(q, i)] = Nth(q, i - 1)
      OBVIOUS
    <2>1. Nth(q, i) # Nth(q, 2)
      BY <1>10, <1>12
    <2>2. \A u \in Tasks : ~Amiss(u, Nth(q, i))
      BY <1>1, <1>2, <1>3, <1>4, <1>11, <2>1 DEF Amiss, Section
    <2>3. QED
      BY <2>2 DEF Linked
  <1>14. prv[b] = ListHead
    <2>1. prv[Nth(q, 1)] = Nth(q, 1 - 1)
      BY <1>10, <1>13
    <2>2. QED
      BY <1>11, <2>1
  <1>15. /\ nxt'[ListHead] = Nth(q, 2)
         /\ \A z \in Node : z # ListHead /\ z # b => nxt'[z] = nxt[z]
         /\ \A z \in Node : z # b => prv'[z] = prv[z]
    <2>1. ListHead \in Node /\ b \in Node /\ nxt \in [Node -> Link] /\ prv \in [Node -> Link]
      BY DEF Node, Base, Types
    <2>2. nxt' = [[nxt EXCEPT ![ListHead] = nxt[b]] EXCEPT ![b] = Poison] /\ prv' = [prv EXCEPT ![b] = Poison]
      BY <1>1, <1>3, <1>4, <1>14, <2>1 DEF Poisoned, Write
    <2>3. QED
      BY <1>4, <1>11, <2>1, <2>2
  <1>16. \A i \in 2 .. n + 1 : Nth(q, i) \in Node /\ Nth(q, i) # b
    BY <1>7, <1>10, <1>11, <1>12, NthApart DEF Placed
  <1>17. \A i \in 0 .. Len(r) : nxt'[Nth(r, i)] = Nth(r, i + 1)
    <2>1. nxt'[Nth(r, 0)] = Nth(r, 1)
      BY <1>8, <1>10, <1>15
    <2>2. ASSUME NEW i \in 1 .. n - 1 PROVE nxt'[Nth(r, i)] = Nth(r, i + 1)
      <3>1. i + 1 \in 2 .. n + 1 /\ i + 1 \in 1 .. n /\ i + 1 \in 0 .. n /\ i \in 1 .. n
        BY <1>7
      <3>2. Nth(q, i + 1) # ListHead
        BY <3>1, NthApart DEF Placed
      <3>3. nxt[Nth(q, i + 1)] = Nth(q, (i + 1) + 1)
        BY <3>1 DEF Linked
      <3>4. QED
        BY <1>8, <1>15, <1>16, <3>1, <3>2, <3>3
    <2>3. \A i \in 0 .. Len(r) : i = 0 \/ i \in 1 .. n - 1
      BY <1>7
    <2>4. QED
      BY <2>1, <2>2, <2>3
  <1>18. \A i \in 1 .. Len(r) + 1 : prv'[Nth(r, i)] = Nth(r, i - 1)
    <2>1. prv'[Nth(r, 1)] = Nth(r, 0)
      <3>1. Nth(r, 1) = Nth(q, 2) /\ 2 \in 2 .. n + 1
        BY <1>8, <1>10
      <3>2. prv[Nth(q, 2)] = ListHead
        BY <1>3, <1>4, <1>11
      <3>3. QED
        BY <1>8, <1>15, <1>16, <3>1, <3>2
    <2>2. ASSUME NEW i \in 2 .. n PROVE prv'[Nth(r, i)] = Nth(r, i - 1)
      <3>1. i + 1 \in 2 .. n + 1 /\ i + 1 \in 1 .. n + 1 /\ i + 1 # 2 /\ i \in 1 .. n /\ i - 1 \in 1 .. n
        BY <1>7
      <3>2. prv[Nth(q, i + 1)] = Nth(q, (i + 1) - 1) /\ (i + 1) - 1 = i /\ (i - 1) + 1 = i
        BY <1>13, <3>1
      <3>3. QED
        BY <1>8, <1>15, <1>16, <3>1, <3>2
    <2>3. \A i \in 1 .. Len(r) + 1 : i = 1 \/ i \in 2 .. n
      BY <1>7
    <2>4. QED
      BY <2>1, <2>2, <2>3
  <1>19. Linked(r)'
    <2>1. \A u \in Tasks : pc'[u] \notin Section
      BY <1>1, <1>2, <1>9 DEF Base, Types, Section, Busy
    <2>2. \A u \in Tasks : Loaded(u, r)'
      BY <2>1 DEF Loaded, Section
    <2>3. QED
      BY <1>17, <1>18, <2>2 DEF Linked, Nth
  <1>20. Placed(r)'
    <2>1. rq[t] = None /\ \A u \in Tasks : rq[u] # b
      BY <1>1, <1>4 DEF Base, Holding, Placed, Busy
    <2>2. b \notin served /\ rq'[t] = b /\ \A u \in Tasks : u # t => rq'[u] = rq[u]
      BY <1>1, <1>3, <1>4 DEF Base, Types, Placed
    <2>3. /\ Range(r) \cap served' = {} /\ \A x \in Range(r) : shape'[x] # None
          /\ \A u \in Tasks : rq'[u] # None => rq'[u] \notin Range(r) \cup served'
          /\ \A u, v \in Tasks : rq'[u] = rq'[v] /\ rq'[u] # None => u = v
      BY <1>1, <1>6, <2>1, <2>2 DEF Placed
    <2>4. ASSUME NEW u \in Tasks, pc'[u] \in Adding
          PROVE  call'[u] \notin Range(r) \cup served' /\ \A v \in Tasks : rq'[v] # call'[u]
      <3>1. u # t /\ pc[u] \in Adding
        BY <1>1, <1>9, <2>4 DEF Base, Types, Busy, Adding
      <3>2. QED
        BY <1>1, <1>4, <1>6, <2>2, <3>1 DEF Placed
    <2>5. ASSUME NEW u \in Tasks, pc'[u] \notin {"idle"} \cup Adding
          PROVE  call'[u] \in Range(r) \cup served' \/ \E v \in Tasks : rq'[v] = call'[u]
      <3>1. pc[u] \notin {"idle"} \cup Adding
        BY <1>1, <2>5 DEF Base, Types, Adding
      <3>2. (call[u] \in Range(q) \cup served \/ \E v \in Tasks : rq[v] = call[u]) /\ call[u] \in Bios
        BY <3>1 DEF Base, Submitted, Placed
      <3>3. QED
        BY <1>1, <1>6, <2>1, <2>2, <3>2, QueueAssumption
    <2>6. ASSUME NEW u \in Tasks, pc'[u] = "endio"
          PROVE  call'[u] \in served' \/ \E v \in Tasks : rq'[v] = call'[u]
      <3>1. u # t /\ pc[u] = "endio"
        BY <1>1, <1>9, <2>6 DEF Base, Types, Busy
      <3>2. (call[u] \in served \/ \E v \in Tasks : rq[v] = call[u]) /\ call[u] \in Bios
        BY <3>1 DEF Base, Submitted, Placed
      <3>3. QED
        BY <1>1, <2>1, <2>2, <3>2, QueueAssumption
    <2>7. QED
      BY <1>6, <2>3, <2>4, <2>5, <2>6 DEF Placed
  <1>21. OneInside'
    BY <1>1, <1>9, StaysInside DEF Section, Busy
  <1>22. QED
    BY <1>6, <1>19, <1>20, <1>21

\* The calls into the chip do not touch the list.
LEMMA ChipList ==
    ASSUME Base, OneInside, NEW q \in Seq(Bios), Linked(q), Placed(q), NEW t \in Tasks, Chip(t)
    PROVE  OneInside' /\ Linked(q)' /\ Placed(q)'
  <1>1. PICK l \in Busy :
            /\ UNCHANGED <<nxt, prv, ptr, met, shape, served, call, rq>>
            /\ pc[t] \in Busy /\ pc' = [pc EXCEPT ![t] = l]
    BY ChipMoves
  <1>2. OneInside'
    BY <1>1, StaysInside DEF Section, Busy
  <1>3. Linked(q)'
    BY <1>1, LinksStay DEF Base, Types, Section, Busy
  <1>4. Placed(q)'
    BY <1>1, PlacesStay DEF Busy, Adding
  <1>5. QED
    BY <1>2, <1>3, <1>4

\* The request a task holds becomes one that has been served.
LEMMA EndRequestList ==
    ASSUME Base, OneInside, NEW q \in Seq(Bios), Linked(q), Placed(q), NEW t \in Tasks, EndRequest(t)
    PROVE  OneInside' /\ Linked(q)' /\ Placed(q)'
  <1> DEFINE b == rq[t]
  <1>1. /\ pc[t] = "end" /\ served' = served \cup {b} /\ rq' = [rq EXCEPT ![t] = None]
        /\ pc' = [pc EXCEPT ![t] = "fetch"] /\ UNCHANGED <<nxt, prv, ptr, met, shape, call>>
    BY DEF EndRequest, Finish, Goto, listvars
  <1>2. b # None /\ b \in Bios /\ b \notin Range(q) \cup served
    BY <1>1 DEF Base, Types, Holding, Placed, Busy
  <1>3. /\ \A u \in Tasks : u # t => rq[u] # b
        /\ rq'[t] = None /\ \A u \in Tasks : u # t => rq'[u] = rq[u]
    BY <1>1, <1>2 DEF Base, Types, Placed
  <1>4. ASSUME NEW u \in Tasks, NEW v \in Tasks, rq[v] = call[u]
        PROVE  call[u] \in served' \/ rq'[v] = call[u]
    BY <1>1, <1>3, <1>4
  <1>5. OneInside'
    BY <1>1, StaysInside DEF Section
  <1>6. Linked(q)'
    BY <1>1, LinksStay DEF Base, Types, Section
  <1>7. Placed(q)'
    <2>1. /\ Range(q) \cap served' = {} /\ \A x \in Range(q) : shape'[x] # None
      BY <1>1, <1>2 DEF Placed
    <2>2. \A u \in Tasks : rq'[u] # None => rq'[u] \notin Range(q) \cup served'
      BY <1>1, <1>3 DEF Placed
    <2>3. \A u, v \in Tasks : rq'[u] = rq'[v] /\ rq'[u] # None => u = v
      BY <1>3 DEF Placed
    <2>4. ASSUME NEW u \in Tasks, pc'[u] \in Adding
          PROVE  call'[u] \notin Range(q) \cup served' /\ \A v \in Tasks : rq'[v] # call'[u]
      <3>1. pc[u] \in Adding
        BY <1>1, <2>4 DEF Base, Types, Adding
      <3>2. call[u] \in Bios /\ call[u] \notin Range(q) \cup served /\ \A v \in Tasks : rq[v] # call[u]
        BY <3>1 DEF Base, Submitted, Placed, Adding
      <3>3. QED
        BY <1>1, <1>3, <3>2, QueueAssumption
    <2>5. ASSUME NEW u \in Tasks, pc'[u] \notin {"idle"} \cup Adding
          PROVE  call'[u] \in Range(q) \cup served' \/ \E v \in Tasks : rq'[v] = call'[u]
      <3>1. pc[u] \notin {"idle"} \cup Adding
        BY <1>1, <2>5 DEF Base, Types, Adding
      <3>2. QED
        BY <1>1, <1>4, <3>1 DEF Placed
    <2>6. ASSUME NEW u \in Tasks, pc'[u] = "endio"
          PROVE  call'[u] \in served' \/ \E v \in Tasks : rq'[v] = call'[u]
      <3>1. pc[u] = "endio"
        BY <1>1, <2>6 DEF Base, Types
      <3>2. QED
        BY <1>1, <1>4, <3>1 DEF Placed
    <2>7. QED
      BY <2>1, <2>2, <2>3, <2>4, <2>5, <2>6 DEF Placed
  <1>8. QED
    BY <1>5, <1>6, <1>7

\* The call returns.
LEMMA EndIoList ==
    ASSUME Base, OneInside, NEW q \in Seq(Bios), Linked(q), Placed(q), NEW t \in Tasks, EndIo(t)
    PROVE  OneInside' /\ Linked(q)' /\ Placed(q)'
  <1>1. /\ pc[t] = "endio" /\ call' = [call EXCEPT ![t] = None] /\ pc' = [pc EXCEPT ![t] = "idle"]
        /\ UNCHANGED <<nxt, prv, ptr, met, shape, served, rq>>
    BY DEF EndIo, Goto, listvars, taskvars
  <1>2. pc'[t] = "idle" /\ \A u \in Tasks : u # t => pc'[u] = pc[u] /\ call'[u] = call[u]
    BY <1>1 DEF Base, Types
  <1>3. OneInside'
    BY <1>1, StaysInside DEF Section
  <1>4. Linked(q)'
    BY <1>1, <1>2, LinksStay DEF Section
  <1>5. Placed(q)'
    BY <1>1, <1>2 DEF Placed, Adding
  <1>6. QED
    BY <1>3, <1>4, <1>5

\* As long as no two tasks have met inside the sections, one at most is there, the links
\* are in order but for what it has yet to store, and each bio is in its one place.
THEOREM QueueInvariant == Spec => []QueueInv
  <1>1. Init => QueueInv
    <2> SUFFICES ASSUME Init PROVE Ordered
      BY DEF QueueInv
    <2>1. <<>> \in Seq(Bios) /\ Range(<<>>) = {} /\ IsInjective(<<>>) /\ Len(<<>>) = 0
      BY DEF Range, IsInjective
    <2>2. ListHead \in Node
      BY DEF Node
    <2>3. Linked(<<>>)
      BY <2>1, <2>2 DEF Init, Linked, Loaded, Nth
    <2>4. Placed(<<>>)
      BY <2>1 DEF Init, Placed, Adding
    <2>5. OneInside
      BY DEF Init, OneInside, Section
    <2>6. QED
      BY <2>1, <2>3, <2>4, <2>5 DEF Ordered
  <1>2. Base /\ QueueInv /\ [Next]_vars => QueueInv'
    <2> SUFFICES ASSUME Base, QueueInv, [Next]_vars, ~met' PROVE Ordered'
      BY DEF QueueInv
    <2>1. ~met
      BY ChipMoves DEF Next, Step, Submit, Prepare, Add, AddLoad, AddPrev, AddOwn, AddNext, Fetch, First, Back,
         Forth, Take, Enter, EndRequest, Finish, EndIo, Ready, listvars, vars
    <2>2. OneInside
      BY <2>1 DEF QueueInv, Ordered
    <2>3. PICK q \in Seq(Bios) : Linked(q) /\ Placed(q)
      BY <2>1 DEF QueueInv, Ordered
    <2>4. CASE UNCHANGED <<nxt, prv, ptr, shape, served, pc, call, rq>>
      <3>1. OneInside' /\ Placed(q)'
        BY <2>2, <2>3, <2>4 DEF OneInside, Placed
      <3>2. Linked(q)'
        BY <2>3, <2>4, LinksStay
      <3>3. QED
        BY <3>1, <3>2 DEF Ordered
    <2>5. ASSUME NEW t \in Tasks, Step(t) PROVE Ordered'
      <3>1. CASE AddLoad(t) \/ AddPrev(t) \/ AddOwn(t)
        BY <2>2, <2>3, <3>1, AddList DEF Ordered
      <3>2. CASE AddNext(t)
        BY <2>2, <2>3, <3>2, AddNextList DEF Ordered
      <3>3. CASE Fetch(t) \/ First(t) \/ Back(t)
        BY <2>2, <2>3, <3>3, FetchList DEF Ordered
      <3>4. CASE Forth(t)
        BY <2>2, <2>3, <3>4, ForthList DEF Ordered
      <3>5. CASE Chip(t)
        BY <2>2, <2>3, <3>5, ChipList DEF Ordered
      <3>6. CASE EndRequest(t)
        BY <2>2, <2>3, <3>6, EndRequestList DEF Ordered
      <3>7. CASE EndIo(t)
        BY <2>2, <2>3, <3>7, EndIoList DEF Ordered
      <3>8. QED
        BY <2>5, <3>1, <3>2, <3>3, <3>4, <3>5, <3>6, <3>7 DEF Step, Add
    <2>6. ASSUME NEW t \in Tasks, NEW s \in Shapes, Submit(t, s) PROVE Ordered'
      BY <2>2, <2>3, <2>6, SubmitList DEF Ordered
    <2>7. CASE Ready
      BY <2>4, <2>7 DEF Ready, listvars, callvars, taskvars
    <2>8. CASE UNCHANGED vars
      BY <2>4, <2>8 DEF vars, listvars, callvars, taskvars
    <2>9. QED
      BY <2>5, <2>6, <2>7, <2>8 DEF Next
  <1>3. QED
    BY <1>1, <1>2, BaseInvariant, PTL DEF Spec

\* The loops of any number of tasks on one queue never hand a request out twice, unless
\* two tasks have met inside blk_fetch_request's section or request_queue_add's.
THEOREM RequestTakenOnce == Spec => []TakenOnceApart
  <1>1. QueueInv => TakenOnceApart
    BY DEF QueueInv, Ordered, Placed, TakenOnceApart, TakenOnce
  <1>2. QED
    BY <1>1, QueueInvariant, PTL

\* submit_bio_wait never returns while its request is on the queue, unless they have: its
\* own loop has seen the list empty after the request was put there.
THEOREM CallNotStranded == Spec => []NothingStranded
  <1>1. QueueInv => NothingStranded
    BY DEF QueueInv, Ordered, Placed, NothingStranded
  <1>2. QED
    BY <1>1, QueueInvariant, PTL
-----------------------------------------------------------------------------
(* The arithmetic of sectors and pages.                                    *)

\* A number is its quotient times the divisor and a remainder below it.
LEMMA DivMod ==
    ASSUME NEW a \in Nat, NEW n \in Nat \ {0}
    PROVE  a \div n \in Nat /\ a % n \in 0 .. n - 1 /\ a = n * (a \div n) + (a % n)
  OBVIOUS

\* and there is one way to write it so.
LEMMA DivModUnique ==
    ASSUME NEW n \in Nat \ {0}, NEW p \in Nat, NEW q \in Nat,
           NEW r \in 0 .. n - 1, NEW s \in 0 .. n - 1, n * p + r = n * q + s
    PROVE  p = q /\ r = s
  <1>1. ASSUME NEW x \in Nat, NEW y \in Nat, NEW u \in 0 .. n - 1, NEW v \in 0 .. n - 1,
               n * x + u = n * y + v, x < y
        PROVE  FALSE
    <2>1. PICK k \in Nat : y = x + 1 + k
      <3>1. y - x - 1 \in Nat /\ y = x + 1 + (y - x - 1)
        BY <1>1
      <3>2. QED
        BY <3>1
    <2>2. n * y = n * x + n + n * k
      BY <2>1
    <2>3. n * k \in Nat /\ n * x \in Nat /\ n * y \in Nat
      OBVIOUS
    <2>4. QED
      BY <1>1, <2>2, <2>3
  <1>2. p = q
    BY <1>1
  <1>3. QED
    BY <1>2

\* A number written as n * p + r has quotient p and remainder r.
LEMMA DivModOf ==
    ASSUME NEW n \in Nat \ {0}, NEW p \in Nat, NEW r \in 0 .. n - 1, NEW a, a = n * p + r
    PROVE  a \div n = p /\ a % n = r
  <1>1. a \in Nat
    OBVIOUS
  <1>2. a \div n \in Nat /\ a % n \in 0 .. n - 1 /\ a = n * (a \div n) + (a % n)
    BY <1>1, DivMod
  <1>3. QED
    BY <1>2, DivModUnique

\* The page of a sector of the chip is one of its pages.
LEMMA PageOfSector ==
    ASSUME NEW a \in Sector
    PROVE  a \in Nat /\ a \div SPP \in 0 .. Pages - 1
  <1>1. a \in Nat /\ SPP \in Nat \ {0} /\ Pages \in Nat \ {0} /\ a < SPP * Pages
    BY QueueAssumption DEF Sector
  <1>2. a \div SPP \in Nat /\ a % SPP \in 0 .. SPP - 1 /\ a = SPP * (a \div SPP) + (a % SPP)
    BY <1>1, DivMod
  <1>3. ASSUME NEW q \in Nat, a >= SPP * q, q >= Pages PROVE FALSE
    <2>1. PICK k \in Nat : q = Pages + k
      <3>1. q - Pages \in Nat /\ q = Pages + (q - Pages)
        BY <1>1, <1>3
      <3>2. QED
        BY <3>1
    <2>2. SPP * q = SPP * Pages + SPP * k /\ SPP * k \in Nat
      BY <1>1, <2>1
    <2>3. SPP * q \in Nat /\ SPP * Pages \in Nat
      BY <1>1
    <2>4. QED
      BY <1>1, <1>3, <2>2, <2>3
  <1>4. a >= SPP * (a \div SPP)
    BY <1>1, <1>2
  <1>5. QED
    BY <1>1, <1>2, <1>3, <1>4

\* The sectors of a request of n sectors from a: those that fit into the first page p
\* behind the offset o, and the rest at the start of the next one.
Parts(a, n, o, p, f) ==
    /\ a \in Nat /\ n \in 1 .. SPP
    /\ p \in 0 .. Pages - 1 /\ o \in Slot /\ f \in 1 .. n /\ o + f <= SPP
    /\ o + n - SPP > 0 => f = SPP - o /\ f < n /\ p + 1 \in 0 .. Pages - 1
    /\ ~(o + n - SPP > 0) => f = n
    /\ \A i \in 0 .. n - 1 : a + i \in Sector
    /\ \A i \in 0 .. f - 1 : (a + i) \div SPP = p /\ (a + i) % SPP = o + i
    /\ o + n - SPP > 0 =>
          \A i \in 0 .. n - f - 1 : (a + (f + i)) \div SPP = p + 1 /\ (a + (f + i)) % SPP = i

\* How a run of at most a page's sectors lies on one page or two.
LEMMA PartsOf ==
    ASSUME NEW a \in Sector, NEW n \in 1 .. SPP, a + n - 1 \in Sector,
           NEW o, o = a % SPP, NEW p, p = a \div SPP,
           NEW f, f = IF SPP - o > n THEN n ELSE SPP - o
    PROVE  Parts(a, n, o, p, f)
  <1>1. a \in Nat /\ SPP \in Nat \ {0} /\ Pages \in Nat \ {0} /\ n \in Nat \ {0} /\ n <= SPP
    BY QueueAssumption DEF Sector
  <1>2. p \in Nat /\ o \in 0 .. SPP - 1 /\ a = SPP * p + o
    BY <1>1, DivMod
  <1>3. p \in 0 .. Pages - 1 /\ o \in Slot
    BY <1>2, PageOfSector DEF Slot
  <1>4. f \in 1 .. n /\ o + f <= SPP
    BY <1>1, <1>2
  <1>5. \A i \in 0 .. n - 1 : a + i \in Sector
    BY <1>1, QueueAssumption DEF Sector
  <1>6. \A i \in 0 .. f - 1 : (a + i) \div SPP = p /\ (a + i) % SPP = o + i
    <2> SUFFICES ASSUME NEW i \in 0 .. f - 1
                 PROVE  (a + i) \div SPP = p /\ (a + i) % SPP = o + i
      OBVIOUS
    <2>1. o + i \in 0 .. SPP - 1 /\ a + i = SPP * p + (o + i)
      BY <1>1, <1>2, <1>4
    <2>2. ASSUME NEW q \in Nat, NEW r \in 0 .. SPP - 1, NEW x, x = SPP * q + r
          PROVE  x \div SPP = q /\ x % SPP = r
      BY <1>1, <2>2, DivModOf
    <2>3. QED
      BY <1>2, <2>1, <2>2
  <1>7. ASSUME o + n - SPP > 0
        PROVE  /\ f = SPP - o /\ f < n
               /\ \A i \in 0 .. n - f - 1 :
                     (a + (f + i)) \div SPP = p + 1 /\ (a + (f + i)) % SPP = i
    <2>1. f = SPP - o /\ f < n
      BY <1>1, <1>2, <1>7
    <2> SUFFICES ASSUME NEW i \in 0 .. n - f - 1
                 PROVE  (a + (f + i)) \div SPP = p + 1 /\ (a + (f + i)) % SPP = i
      BY <2>1
    <2>2. i \in 0 .. SPP - 1
      BY <1>1, <1>2, <2>1
    <2>3. a + (f + i) = SPP * (p + 1) + i
      BY <1>1, <1>2, <2>1
    <2>4. ASSUME NEW q \in Nat, NEW x, x = SPP * q + i PROVE x \div SPP = q /\ x % SPP = i
      BY <1>1, <2>2, <2>4, DivModOf
    <2>5. p + 1 \in Nat
      BY <1>2
    <2>6. QED
      BY <2>3, <2>4, <2>5
  <1>8. ASSUME o + n - SPP > 0 PROVE p + 1 \in 0 .. Pages - 1
    <2>1. f \in 0 .. n - 1 /\ 0 \in 0 .. n - f - 1 /\ a + (f + 0) = a + f
      BY <1>1, <1>4, <1>7, <1>8
    <2>2. a + f \in Sector /\ (a + f) \div SPP = p + 1
      BY <1>5, <1>7, <1>8, <2>1
    <2>3. QED
      BY <2>2, PageOfSector
  <1>9. ~(o + n - SPP > 0) => f = n
    BY <1>1, <1>2
  <1>10. QED
    BY <1>1, <1>3, <1>4, <1>5, <1>6, <1>7, <1>8, <1>9 DEF Parts

\* ... and how a submitted bio does.
LEMMA PartsOfBio ==
    ASSUME Types, NEW b \in Bios, shape[b] # None
    PROVE  /\ shape[b] \in Shapes /\ shape[b].op \in {"read", "write"}
           /\ Parts(shape[b].start, shape[b].len, Offset(b), shape[b].start \div SPP, Fit(b))
  <1>1. shape[b] \in Shapes
    BY DEF Types
  <1>2. /\ shape[b].op \in {"read", "write"} /\ shape[b].start \in Sector
        /\ shape[b].len \in 1 .. SPP /\ shape[b].start + shape[b].len - 1 \in Sector
    BY <1>1, QueueAssumption
  <1>3. QED
    BY <1>1, <1>2, PartsOf DEF Offset, Fit

\* Reading a page's number as a sector's still stays on the chip.
LEMMA BackupInChip ==
    ASSUME NEW p \in 0 .. Pages - 1, NEW i \in Slot
    PROVE  p + i \in Sector
  <1>1. Pages \in Nat \ {0} /\ SPP \in Nat \ {0}
    BY QueueAssumption
  <1>2. (Pages - 1) * (SPP - 1) \in Nat
    BY <1>1
  <1>3. Pages + SPP - 1 <= Pages * SPP
    BY <1>1, <1>2
  <1>4. QED
    BY <1>1, <1>3 DEF Slot, Sector

\* The sector at a place of a page.
LEMMA SectorOf ==
    ASSUME NEW p \in 0 .. Pages - 1, NEW d \in Slot
    PROVE  /\ p * SPP + d \in Sector /\ (p * SPP + d) \div SPP = p /\ (p * SPP + d) % SPP = d
           /\ \A x \in Sector : x \div SPP = p /\ x % SPP = d => x = p * SPP + d
  <1>1. /\ Pages \in Nat \ {0} /\ SPP \in Nat \ {0} /\ p \in Nat /\ d \in 0 .. SPP - 1
        /\ p * SPP + d = SPP * p + d
    BY QueueAssumption DEF Slot
  <1>2. (p * SPP + d) \div SPP = p /\ (p * SPP + d) % SPP = d
    <2>1. ASSUME NEW n \in Nat \ {0}, NEW x, NEW e \in 0 .. n - 1, x = n * p + e
          PROVE  x \div n = p /\ x % n = e
      BY <1>1, <2>1, DivModOf
    <2>2. QED
      BY <1>1, <2>1
  <1>3. p * SPP + d \in Sector
    <2>1. PICK k \in Nat : Pages = p + 1 + k
      <3>1. Pages - p - 1 \in Nat /\ Pages = p + 1 + (Pages - p - 1)
        BY <1>1
      <3>2. QED
        BY <3>1
    <2>2. Pages * SPP = p * SPP + SPP + k * SPP /\ k * SPP \in Nat /\ p * SPP \in Nat
      BY <1>1, <2>1
    <2>3. QED
      BY <1>1, <2>2 DEF Sector
  <1>4. ASSUME NEW x \in Sector, x \div SPP = p, x % SPP = d PROVE x = p * SPP + d
    <2>1. x \in Nat
      BY PageOfSector
    <2>2. x = SPP * (x \div SPP) + (x % SPP)
      BY <1>1, <2>1, DivMod
    <2>3. QED
      BY <1>1, <1>4, <2>2
  <1>5. QED
    BY <1>2, <1>3, <1>4

-----------------------------------------------------------------------------
(* The chip: what the tasks' calls into it rely on, and what has landed.   *)

ChipTypes ==
    /\ data \in [Bios -> [Slot -> Content]]
    /\ spill \in [Tasks -> BOOLEAN]
    /\ done \in [Tasks -> Slot]
    /\ clean \in [Tasks -> BOOLEAN]
    /\ open \in [Tasks -> BOOLEAN]
    /\ garbled \in BOOLEAN
    /\ busy \in BOOLEAN
    /\ flash \in [Sector -> Content]
    /\ scratch \in [Slot -> Content]

Writing == {"backup", "patch", "erase", "program"}

\* What a task does at a place of the driver is what its request asks for; a second
\* page is there only if the write runs into it.
Course(t) ==
    /\ pc[t] = "read" => shape[rq[t]].op = "read"
    /\ pc[t] \in Writing => shape[rq[t]].op = "write" /\ (spill[t] => Lost(rq[t]))
    /\ pc[t] \in {"backup", "patch"} => ~Aligned(rq[t])

\* Only a read changes a caller's buffer.
BuffersKept == \A b \in Bios : data[b] = Mine(b) \/ (shape[b] # None /\ shape[b].op = "read")

\* A task whose request no other overlapped is the only one with a request.
CleanHolds == \A t, u \in Tasks : clean[t] /\ u # t => rq[u] = None

\* The first n sectors of b are on the chip.
Landed(b, n) == \A i \in 0 .. n - 1 : flash[shape[b].start + i] = <<b, i>>

\* The page buffer holds the part of b that the task is about to write.
Laid(b, second) ==
    IF second THEN \A i \in 0 .. shape[b].len - Fit(b) - 1 : scratch[i] = <<b, Fit(b) + i>>
    ELSE \A i \in 0 .. Fit(b) - 1 : scratch[Offset(b) + i] = <<b, i>>

\* How far the write of a task that no other overlapped has come.
Progress(t) ==
    LET b == rq[t] IN
    /\ pc[t] \in Writing /\ spill[t] => Landed(b, Fit(b))
    /\ pc[t] \in {"erase", "program"} /\ ~Aligned(b) => Laid(b, spill[t])
    /\ pc[t] = "program" =>
           \A x \in Sector : x \div SPP = Page(t) =>
               flash[x] = IF x % SPP < done[t] THEN Source(t)[x % SPP] ELSE Blank
    /\ pc[t] = "end" /\ shape[b].op = "write" => Landed(b, shape[b].len)

ChipInv ==
    /\ ChipTypes /\ BuffersKept /\ CleanHolds
    /\ \A t \in Tasks : Course(t)
    /\ \A t \in Tasks : clean[t] => Progress(t)

\* What a task relies on stays while its own place and its request do.
LEMMA CourseKept ==
    ASSUME NEW u \in Tasks, Course(u),
           pc'[u] = pc[u], rq'[u] = rq[u], spill'[u] = spill[u], shape'[rq[u]] = shape[rq[u]]
    PROVE  Course(u)'
  BY DEF Course, Lost, Offset, Aligned

\* ... and how far it has come while the chip and the buffers do.
LEMMA ProgressKept ==
    ASSUME NEW u \in Tasks, Progress(u),
           pc'[u] = pc[u], rq'[u] = rq[u], spill'[u] = spill[u], shape'[rq[u]] = shape[rq[u]],
           done'[u] = done[u], flash' = flash, scratch' = scratch, data' = data
    PROVE  Progress(u)'
  <1>1. /\ Fit(rq[u])' = Fit(rq[u]) /\ Offset(rq[u])' = Offset(rq[u])
        /\ (Aligned(rq[u])' <=> Aligned(rq[u])) /\ Page(u)' = Page(u) /\ Source(u)' = Source(u)
    BY DEF Fit, Offset, Aligned, Page, Source
  <1>2. \A n : Landed(rq[u], n)' <=> Landed(rq[u], n)
    BY DEF Landed
  <1>3. Laid(rq[u], spill[u])' <=> Laid(rq[u], spill[u])
    BY <1>1 DEF Laid
  <1>4. QED
    BY <1>1, <1>2, <1>3 DEF Progress

\* A step that leaves tasks, requests, buffers and contents alone.
LEMMA ChipKept ==
    ASSUME ChipInv, ChipTypes', UNCHANGED <<pc, rq, shape, data, spill, done, clean, flash, scratch>>
    PROVE  ChipInv'
  <1>1. BuffersKept' /\ CleanHolds'
    BY DEF ChipInv, BuffersKept, CleanHolds
  <1>2. ASSUME NEW u \in Tasks PROVE Course(u)' /\ (clean'[u] => Progress(u)')
    BY CourseKept, ProgressKept DEF ChipInv
  <1>3. QED
    BY <1>1, <1>2 DEF ChipInv

\* The steps outside of the driver's request function.
LEMMA QuietChip ==
    ASSUME Base, Base', ChipInv, NEW t \in Tasks,
           \/ \E s \in Shapes : Submit(t, s)
           \/ Add(t) \/ Fetch(t) \/ First(t) \/ Back(t) \/ EndRequest(t) \/ EndIo(t)
    PROVE  ChipInv'
  <1>1. UNCHANGED <<data, flash, scratch, spill, done, clean, open, garbled, busy>>
    BY DEF Submit, Prepare, Add, AddLoad, AddPrev, AddOwn, AddNext, Fetch, First, Back,
           EndRequest, Finish, EndIo, callvars, taskvars, chipvars
  <1>2. /\ \A u \in Tasks : u # t => pc'[u] = pc[u] /\ rq'[u] = rq[u]
        /\ pc'[t] \in Place \ Busy /\ (rq'[t] = rq[t] \/ rq'[t] = None)
    <2>1. CASE EndRequest(t)
      BY <2>1 DEF EndRequest, Finish, Goto, Base, Types, Place, Busy
    <2>2. CASE Fetch(t)
      BY <2>2 DEF Fetch, Goto, taskvars, Base, Types, Place, Busy
    <2>3. CASE ~EndRequest(t) /\ ~Fetch(t)
      BY <2>3 DEF Submit, Prepare, Add, AddLoad, AddPrev, AddOwn, AddNext, First, Back,
             EndIo, Goto, taskvars, Base, Types, Place, Busy
    <2>4. QED
      BY <2>1, <2>2, <2>3
  <1>3. \A b \in Bios : shape[b] # None => shape'[b] = shape[b]
    BY SubmitBase DEF Add, AddLoad, AddPrev, AddOwn, AddNext, Fetch, First, Back,
       EndRequest, Finish, EndIo, callvars
  <1>4. ChipTypes'
    BY <1>1 DEF ChipInv, ChipTypes
  <1>5. BuffersKept'
    BY <1>1, <1>3 DEF ChipInv, BuffersKept
  <1>6. CleanHolds'
    BY <1>1, <1>2 DEF ChipInv, CleanHolds
  <1>7. ASSUME NEW u \in Tasks PROVE Course(u)' /\ (clean'[u] => Progress(u)')
    <2>1. CASE pc'[u] \in Place \ Busy
      BY <2>1 DEF Place, Busy, Course, Progress, Writing
    <2>2. CASE pc'[u] \notin Place \ Busy
      <3>1. u # t /\ pc'[u] = pc[u] /\ rq'[u] = rq[u] /\ pc[u] \in Busy
        BY <1>2, <2>2 DEF Base, Types
      <3>2. rq[u] \in Bios /\ shape[rq[u]] # None
        BY <3>1 DEF Base, Types, Holding, Submitted
      <3>3. QED
        BY <1>1, <1>3, <3>1, <3>2, CourseKept, ProgressKept DEF ChipInv
    <2>3. QED
      BY <2>1, <2>2
  <1>8. QED
    BY <1>4, <1>5, <1>6, <1>7 DEF ChipInv

\* A task that takes a request is alone only if no other has one; from then on no other
\* is.
LEMMA TakeChip ==
    ASSUME Base, Base', ChipInv, NEW t \in Tasks, Forth(t)
    PROVE  ChipInv'
  <1> DEFINE b == ptr[t]
  <1>1. /\ pc[t] = "forth" /\ UNCHANGED <<data, flash, scratch, shape, done, open, garbled, busy>>
        /\ rq' = [rq EXCEPT ![t] = b] /\ spill' = [spill EXCEPT ![t] = FALSE]
        /\ clean' = [u \in Tasks |-> u = t /\ \A v \in Tasks : rq[v] = None]
        /\ pc' = [pc EXCEPT ![t] = FirstStep(b)]
    BY DEF Forth, Take, Goto, callvars, chipvars
  <1>2. b \in Bios /\ shape[b] # None /\ b # None
    BY <1>1, QueueAssumption DEF Base, Holding, Submitted, Known
  <1> HIDE DEF b
  <1>3. /\ pc'[t] = FirstStep(b) /\ rq'[t] = b /\ spill'[t] = FALSE
        /\ \A u \in Tasks : u # t => pc'[u] = pc[u] /\ rq'[u] = rq[u] /\ spill'[u] = spill[u]
    BY <1>1 DEF Base, Types, ChipInv, ChipTypes
  <1>4. ChipTypes'
    BY <1>1 DEF ChipInv, ChipTypes
  <1>5. BuffersKept'
    BY <1>1 DEF ChipInv, BuffersKept
  <1>6. CleanHolds'
    BY <1>1, <1>3 DEF CleanHolds
  <1>7. Course(t)'
    <2>1. shape[b].op \in {"read", "write"}
      BY <1>2, PartsOfBio DEF Base
    <2>2. QED
      BY <1>1, <1>3, <2>1 DEF Course, FirstStep, Aligned, Writing
  <1>8. Progress(t)'
    <2>1. pc'[t] # "program" /\ pc'[t] # "end"
      BY <1>3 DEF FirstStep
    <2>2. pc'[t] = "erase" => Aligned(b)
      BY <1>3 DEF FirstStep
    <2>3. Aligned(rq[t])' <=> Aligned(b)
      BY <1>1, <1>3 DEF Aligned
    <2>4. QED
      BY <1>3, <2>1, <2>2, <2>3 DEF Progress
  <1>9. ASSUME NEW u \in Tasks, u # t PROVE Course(u)' /\ ~clean'[u]
    BY <1>1, <1>3, <1>9, CourseKept DEF ChipInv
  <1>10. QED
    BY <1>4, <1>5, <1>6, <1>7, <1>8, <1>9 DEF ChipInv

\* What a step of a task inside the chip leaves to the others: nothing to go wrong, since
\* no other is undisturbed.
LEMMA OthersChip ==
    ASSUME Base, ChipInv, NEW t \in Tasks, pc[t] \in Busy,
           NEW l, pc' = [pc EXCEPT ![t] = l], UNCHANGED <<shape, rq>>,
           \A u \in Tasks : u # t => spill'[u] = spill[u],
           \A u \in Tasks : clean'[u] => clean[u]
    PROVE  /\ CleanHolds'
           /\ \A u \in Tasks : u # t => Course(u)' /\ ~clean'[u]
  <1>1. CleanHolds'
    BY DEF ChipInv, CleanHolds
  <1>2. ASSUME NEW u \in Tasks, u # t PROVE Course(u)' /\ ~clean'[u]
    <2>1. ~clean[u]
      BY <1>2 DEF ChipInv, CleanHolds, Base, Holding
    <2>2. pc'[u] = pc[u]
      BY <1>2 DEF Base, Types
    <2>3. QED
      BY <1>2, <2>1, <2>2, CourseKept DEF ChipInv
  <1>3. QED
    BY <1>1, <1>2

\* The page a task is writing is on the chip.
LEMMA PageInChip ==
    ASSUME Base, ChipInv, NEW t \in Tasks, pc[t] \in Writing
    PROVE  /\ rq[t] \in Bios /\ rq[t] # None /\ shape[rq[t]] # None /\ pc[t] \in Busy
           /\ Page(t) \in 0 .. Pages - 1
  <1>1. pc[t] \in Busy
    BY DEF Busy, Writing
  <1>2. rq[t] \in Bios /\ rq[t] # None /\ shape[rq[t]] # None
    BY <1>1 DEF Base, Types, Holding, Submitted
  <1> DEFINE b == rq[t]
  <1>3. Parts(shape[b].start, shape[b].len, Offset(b), shape[b].start \div SPP, Fit(b))
    BY <1>2, PartsOfBio DEF Base
  <1>4. /\ shape[b].start \div SPP \in 0 .. Pages - 1
        /\ Lost(b) => shape[b].start \div SPP + 1 \in 0 .. Pages - 1
    BY <1>3 DEF Parts, Lost
  <1>5. spill[t] => Lost(b)
    BY DEF ChipInv, Course
  <1>6. QED
    BY <1>1, <1>2, <1>4, <1>5, QueueAssumption DEF Page

\* A read fills the caller's buffer from the chip.
LEMMA ReadChip ==
    ASSUME Base, Base', ChipInv, NEW t \in Tasks, ReadSectors(t)
    PROVE  ChipInv'
  <1> DEFINE b == rq[t]
             s == shape[b]
             got == [i \in Slot |-> IF i < s.len THEN flash[s.start + i] ELSE data[b][i]]
  <1>1. /\ pc[t] = "read" /\ pc' = [pc EXCEPT ![t] = "end"]
        /\ data' = [data EXCEPT ![b] = got] /\ open' = [open EXCEPT ![t] = FALSE]
        /\ UNCHANGED <<shape, rq, spill, done, clean, garbled, busy, flash, scratch>>
    BY DEF ReadSectors, Close, Goto, taskvars
  <1>2. b \in Bios /\ shape[b] # None /\ pc[t] \in Busy
    BY <1>1 DEF Base, Types, Holding, Submitted, Busy
  <1>3. shape[b].op = "read"
    BY <1>1 DEF ChipInv, Course
  <1>4. got \in [Slot -> Content]
    <2>1. /\ \A i \in 0 .. s.len - 1 : s.start + i \in Sector
          /\ s.len \in 1 .. SPP
      BY <1>2, PartsOfBio DEF Base, Parts
    <2>2. \A i \in Slot : i < s.len => s.start + i \in Sector
      BY <2>1, QueueAssumption DEF Slot
    <2>3. flash \in [Sector -> Content] /\ data[b] \in [Slot -> Content]
      BY <1>2 DEF ChipInv, ChipTypes
    <2>4. QED
      BY <2>2, <2>3
  <1> HIDE DEF got
  <1>5. ChipTypes'
    BY <1>1, <1>2, <1>4 DEF ChipInv, ChipTypes
  <1>6. BuffersKept'
    BY <1>1, <1>2, <1>3 DEF ChipInv, ChipTypes, BuffersKept
  <1>7. CleanHolds' /\ \A u \in Tasks : u # t => Course(u)' /\ ~clean'[u]
    BY <1>1, <1>2, OthersChip
  <1>8. pc'[t] = "end"
    BY <1>1 DEF Base, Types
  <1>9. Course(t)' /\ Progress(t)'
    BY <1>1, <1>3, <1>8 DEF Course, Progress, Writing
  <1>10. QED
    BY <1>5, <1>6, <1>7, <1>9 DEF ChipInv

\* The page, or the next one, is read into w25qxx_buffer.
LEMMA BackupChip ==
    ASSUME Base, Base', ChipInv, NEW t \in Tasks, Backup(t)
    PROVE  ChipInv'
  <1> DEFINE b == rq[t]
  <1>1. /\ pc[t] = "backup" /\ pc' = [pc EXCEPT ![t] = "patch"]
        /\ scratch' = BackedUp(t) /\ open' = [open EXCEPT ![t] = FALSE]
        /\ UNCHANGED <<shape, data, rq, spill, done, clean, garbled, busy, flash>>
    BY DEF Backup, Close, Goto, callvars, taskvars
  <1>2. b \in Bios /\ shape[b] # None /\ pc[t] \in Busy /\ Page(t) \in 0 .. Pages - 1
    BY <1>1, PageInChip DEF Writing
  <1>3. scratch' \in [Slot -> Content]
    <2>1. \A i \in Slot : Page(t) + i \in Sector
      BY <1>2, BackupInChip
    <2>2. QED
      BY <1>1, <2>1 DEF BackedUp, ChipInv, ChipTypes
  <1>4. ChipTypes'
    BY <1>1, <1>3 DEF ChipInv, ChipTypes
  <1>5. BuffersKept'
    BY <1>1 DEF ChipInv, BuffersKept
  <1>6. CleanHolds' /\ \A u \in Tasks : u # t => Course(u)' /\ ~clean'[u]
    BY <1>1, <1>2, OthersChip
  <1>7. pc'[t] = "patch"
    BY <1>1 DEF Base, Types
  <1>8. Course(t)'
    BY <1>1, <1>7 DEF ChipInv, Course, Writing, Lost, Offset, Aligned
  <1>9. clean'[t] => Progress(t)'
    <2>1. clean[t] /\ spill[t] => Landed(b, Fit(b))
      BY <1>1 DEF ChipInv, Progress, Writing
    <2>2. Landed(b, Fit(b))' <=> Landed(b, Fit(b))
      BY <1>1 DEF Landed, Fit, Offset
    <2>3. QED
      BY <1>1, <1>7, <2>1, <2>2 DEF Progress
  <1>10. QED
    BY <1>4, <1>5, <1>6, <1>8, <1>9 DEF ChipInv

\* The caller's data is laid over it.
LEMMA PatchChip ==
    ASSUME Base, Base', ChipInv, NEW t \in Tasks, Patch(t)
    PROVE  ChipInv'
  <1> DEFINE b == rq[t]
             o == Offset(b)
             f == Fit(b)
             n == shape[b].len
  <1>1. /\ pc[t] = "patch" /\ pc' = [pc EXCEPT ![t] = "erase"]
        /\ scratch' = Patched(t)
        /\ UNCHANGED <<shape, data, rq, spill, done, clean, open, garbled, busy, flash>>
    BY DEF Patch, Goto, callvars, taskvars
  <1>2. b \in Bios /\ shape[b] # None /\ pc[t] \in Busy
    BY <1>1, PageInChip DEF Writing
  <1>3. shape[b].op = "write" /\ (spill[t] => Lost(b)) /\ ~Aligned(b)
    BY <1>1 DEF ChipInv, Course, Writing
  <1>4. data[b] = Mine(b) /\ data[b] \in [Slot -> Content]
    BY <1>2, <1>3 DEF ChipInv, BuffersKept, ChipTypes
  <1>5. /\ o \in Nat /\ f \in Nat /\ n \in Nat /\ SPP \in Nat /\ 0 < f /\ f <= n /\ n <= SPP /\ o + f <= SPP
        /\ o < SPP
    <2>1. Parts(shape[b].start, n, o, shape[b].start \div SPP, f)
      BY <1>2, PartsOfBio DEF Base
    <2> HIDE DEF o, f, n
    <2>2. QED
      BY <2>1, QueueAssumption DEF Parts, Slot
  <1>6. scratch' = [i \in Slot |->
            IF spill[t] THEN IF i < n - f THEN data[b][f + i] ELSE scratch[i]
            ELSE IF i \in o .. o + f - 1 THEN data[b][i - o] ELSE scratch[i]]
    BY <1>1 DEF Patched
  <1> HIDE DEF o, f, n
  <1>7. \A i \in Slot : (i < n - f => f + i \in Slot) /\ (i \in o .. o + f - 1 => i - o \in Slot)
    BY <1>5 DEF Slot
  <1>8. scratch' \in [Slot -> Content]
    <2>1. scratch \in [Slot -> Content]
      BY DEF ChipInv, ChipTypes
    <2>2. ASSUME NEW i \in Slot
          PROVE  (IF spill[t] THEN IF i < n - f THEN data[b][f + i] ELSE scratch[i]
                  ELSE IF i \in o .. o + f - 1 THEN data[b][i - o] ELSE scratch[i]) \in Content
      BY <1>4, <1>7, <2>1
    <2>3. QED
      BY <1>6, <2>2
  <1>9. ~spill[t] => \A i \in 0 .. f - 1 : scratch'[o + i] = <<b, i>>
    <2> SUFFICES ASSUME ~spill[t], NEW i \in 0 .. f - 1 PROVE scratch'[o + i] = <<b, i>>
      OBVIOUS
    <2>1. o + i \in Slot /\ o + i \in o .. o + f - 1 /\ (o + i) - o = i /\ i \in Slot
      BY <1>5 DEF Slot
    <2>2. scratch'[o + i] = data[b][i]
      BY <1>6, <2>1
    <2>3. QED
      BY <1>4, <2>1, <2>2 DEF Mine
  <1>10. spill[t] => \A i \in 0 .. n - f - 1 : scratch'[i] = <<b, f + i>>
    <2> SUFFICES ASSUME spill[t], NEW i \in 0 .. n - f - 1 PROVE scratch'[i] = <<b, f + i>>
      OBVIOUS
    <2>1. i \in Slot /\ i < n - f /\ f + i \in Slot
      BY <1>5 DEF Slot
    <2>2. scratch'[i] = data[b][f + i]
      BY <1>6, <2>1
    <2>3. QED
      BY <1>4, <2>1, <2>2 DEF Mine
  <1>11. ChipTypes'
    BY <1>1, <1>8 DEF ChipInv, ChipTypes
  <1>12. BuffersKept'
    BY <1>1 DEF ChipInv, BuffersKept
  <1>13. CleanHolds' /\ \A u \in Tasks : u # t => Course(u)' /\ ~clean'[u]
    BY <1>1, <1>2, OthersChip
  <1>14. pc'[t] = "erase"
    BY <1>1 DEF Base, Types
  <1>15. Course(t)'
    BY <1>1, <1>14 DEF ChipInv, Course, Writing, Lost, Offset, Aligned
  <1>16. clean'[t] => Progress(t)'
    <2>1. clean[t] /\ spill[t] => Landed(b, Fit(b))
      BY <1>1 DEF ChipInv, Progress, Writing
    <2>2. Landed(b, Fit(b))' <=> Landed(b, Fit(b))
      BY <1>1 DEF Landed, Fit, Offset
    <2>3. Fit(b)' = f /\ Offset(b)' = o /\ shape'[b].len = n /\ rq'[t] = b
      BY <1>1 DEF Fit, Offset, f, o, n
    <2>4. Laid(b, spill[t])'
      BY <1>1, <1>9, <1>10, <2>3 DEF Laid
    <2>5. QED
      BY <1>1, <1>14, <2>1, <2>2, <2>4 DEF Progress
  <1>17. QED
    BY <1>11, <1>12, <1>13, <1>15, <1>16 DEF ChipInv

\* The sectors of the first page that a write has put there are not on its second page.
LEMMA FirstPart ==
    ASSUME Base, ChipInv, NEW t \in Tasks, pc[t] \in Writing, spill[t]
    PROVE  \A i \in 0 .. Fit(rq[t]) - 1 :
               shape[rq[t]].start + i \in Sector /\ (shape[rq[t]].start + i) \div SPP # Page(t)
  <1> DEFINE b == rq[t]
             a == shape[b].start
             n == shape[b].len
             o == Offset(b)
             f == Fit(b)
             p == shape[b].start \div SPP
  <1>1. Parts(a, n, o, p, f)
    BY PageInChip, PartsOfBio DEF Base
  <1>2. Page(t) = p + 1
    BY DEF Page
  <1> HIDE DEF a, n, o, f, p
  <1>3. p \in Nat /\ n \in Nat /\ f \in Nat /\ f <= n
    BY <1>1, QueueAssumption DEF Parts
  <1>4. ASSUME NEW i \in 0 .. f - 1 PROVE a + i \in Sector /\ (a + i) \div SPP # Page(t)
    <2>1. i \in 0 .. n - 1
      BY <1>3
    <2>2. a + i \in Sector /\ (a + i) \div SPP = p
      BY <1>1, <2>1 DEF Parts
    <2>3. p # p + 1
      BY <1>3
    <2>4. QED
      BY <1>2, <2>2, <2>3
  <1>5. QED
    BY <1>4 DEF a, f

\* The page is erased: what a write had put on its first page before the second stays.
LEMMA EraseChip ==
    ASSUME Base, Base', ChipInv, NEW t \in Tasks, Erase(t)
    PROVE  ChipInv'
  <1> DEFINE b == rq[t]
             blanked == [s \in Sector |-> IF s \div SPP = Page(t) THEN Blank ELSE flash[s]]
  <1>1. /\ pc[t] = "erase" /\ pc' = [pc EXCEPT ![t] = "program"]
        /\ flash' = (IF busy THEN flash ELSE blanked) /\ busy' = TRUE
        /\ clean' = [clean EXCEPT ![t] = clean[t] /\ ~busy]
        /\ done' = [done EXCEPT ![t] = 0] /\ open' = [open EXCEPT ![t] = FALSE]
        /\ UNCHANGED <<shape, data, rq, spill, garbled, scratch>>
    BY DEF Erase, Close, Goto, callvars
  <1>2. b \in Bios /\ shape[b] # None /\ pc[t] \in Busy
    BY <1>1, PageInChip DEF Writing
  <1>3. clean \in [Tasks -> BOOLEAN] /\ done \in [Tasks -> Slot] /\ flash \in [Sector -> Content] /\ busy \in BOOLEAN
    BY DEF ChipInv, ChipTypes
  <1>4. 0 \in Slot
    BY QueueAssumption DEF Slot
  <1>5. flash' \in [Sector -> Content] /\ (~busy => flash' = blanked)
    <2>1. blanked \in [Sector -> Content]
      BY <1>3 DEF Content
    <2> HIDE DEF blanked
    <2>2. QED
      BY <1>1, <1>3, <2>1
  <1>6. /\ clean' \in [Tasks -> BOOLEAN] /\ (clean'[t] => clean[t] /\ ~busy)
        /\ \A u \in Tasks : clean'[u] => clean[u]
    BY <1>1, <1>3
  <1>7. ChipTypes'
    BY <1>1, <1>3, <1>4, <1>5, <1>6 DEF ChipInv, ChipTypes
  <1>8. BuffersKept'
    BY <1>1 DEF ChipInv, BuffersKept
  <1>9. CleanHolds' /\ \A u \in Tasks : u # t => Course(u)' /\ ~clean'[u]
    BY <1>1, <1>2, <1>6, OthersChip
  <1>10. pc'[t] = "program" /\ done'[t] = 0
    BY <1>1, <1>3 DEF Base, Types
  <1>11. Course(t)'
    BY <1>1, <1>10 DEF ChipInv, Course, Writing, Lost, Offset, Aligned
  <1>12. ASSUME clean'[t] PROVE Progress(t)'
    <2>1. clean[t] /\ ~busy /\ flash' = blanked
      BY <1>5, <1>6, <1>12
    <2>2. /\ rq'[t] = b /\ Fit(b)' = Fit(b) /\ Offset(b)' = Offset(b) /\ (Aligned(b)' <=> Aligned(b))
          /\ Page(t)' = Page(t)
      BY <1>1 DEF Fit, Offset, Aligned, Page
    <2>3. spill[t] => Landed(b, Fit(b))'
      <3> SUFFICES ASSUME spill[t], NEW i \in 0 .. Fit(b) - 1
                   PROVE  flash'[shape[b].start + i] = <<b, i>>
        BY <1>1, <2>2 DEF Landed
      <3>1. shape[b].start + i \in Sector /\ (shape[b].start + i) \div SPP # Page(t)
        BY <1>1, FirstPart DEF Writing
      <3>2. flash[shape[b].start + i] = <<b, i>>
        BY <1>1, <2>1 DEF ChipInv, Progress, Landed, Writing
      <3>3. QED
        BY <2>1, <3>1, <3>2
    <2>4. ~Aligned(b) => Laid(b, spill[t])'
      <3>1. ~Aligned(b) => Laid(b, spill[t])
        BY <1>1, <2>1 DEF ChipInv, Progress
      <3>2. Laid(b, spill[t])' <=> Laid(b, spill[t])
        BY <1>1, <2>2 DEF Laid
      <3>3. QED
        BY <3>1, <3>2
    <2>5. \A x \in Sector : x \div SPP = Page(t) => flash'[x] = Blank /\ ~(x % SPP < 0)
      <3>1. \A x \in Sector : x % SPP \in 0 .. SPP - 1
        BY DivMod, PageOfSector, QueueAssumption
      <3>2. QED
        BY <2>1, <3>1, QueueAssumption
    <2>6. QED
      BY <1>1, <1>10, <2>2, <2>3, <2>4, <2>5 DEF Progress
  <1>13. QED
    BY <1>7, <1>8, <1>9, <1>11, <1>12 DEF ChipInv

\* The next sector of the page is programmed: what a write that no other overlapped has
\* put on the page is then on the chip, the first part before the second.
LEMMA ProgramChip ==
    ASSUME Base, Base', ChipInv, NEW t \in Tasks, Program(t)
    PROVE  ChipInv'
  <1> DEFINE b == rq[t]
             a == shape[b].start
             n == shape[b].len
             o == Offset(b)
             f == Fit(b)
             p == shape[b].start \div SPP
             c == Source(t)
             d == done[t]
             at == Page(t) * SPP + done[t]
             last == done[t] = SPP - 1
             l == IF ~last THEN "program" ELSE IF Lost(b) /\ ~spill[t] THEN "backup" ELSE "end"
  <1>1. /\ pc[t] = "program" /\ pc' = [pc EXCEPT ![t] = l]
        /\ flash' = [flash EXCEPT ![at] = Programmed(flash[at], c[d])] /\ busy' = TRUE
        /\ done' = [done EXCEPT ![t] = IF last THEN 0 ELSE d + 1]
        /\ spill' = [spill EXCEPT ![t] = spill[t] \/ (last /\ Lost(b))]
        /\ open' = [open EXCEPT ![t] = FALSE]
        /\ UNCHANGED <<shape, data, rq, clean, garbled, scratch>>
    BY DEF Program, Close, Goto, callvars
  <1>2. b \in Bios /\ shape[b] # None /\ pc[t] \in Busy /\ Page(t) \in 0 .. Pages - 1
    BY <1>1, PageInChip DEF Writing
  <1>3. shape[b].op = "write" /\ (spill[t] => Lost(b))
    BY <1>1 DEF ChipInv, Course, Writing
  <1>4. data[b] = Mine(b) /\ data[b] \in [Slot -> Content] /\ scratch \in [Slot -> Content]
    BY <1>2, <1>3 DEF ChipInv, BuffersKept, ChipTypes
  <1>5. Parts(a, n, o, p, f)
    BY <1>2, PartsOfBio DEF Base
  <1>6. Lost(b) <=> o + n - SPP > 0
    BY DEF Lost
  <1>7. Aligned(b) => o = 0 /\ n = SPP /\ ~Lost(b)
    BY <1>6, QueueAssumption DEF Aligned, Offset
  <1>8. Page(t) = p + IF spill[t] THEN 1 ELSE 0
    BY DEF Page
  <1>9. c \in [Slot -> Content]
    BY <1>4 DEF Source
  <1>10. /\ d \in Slot /\ SPP \in Nat \ {0} /\ d \in 0 .. SPP - 1
         /\ done \in [Tasks -> Slot] /\ spill \in [Tasks -> BOOLEAN] /\ flash \in [Sector -> Content]
    BY QueueAssumption DEF ChipInv, ChipTypes, Slot
  <1>11. /\ pc'[t] = l /\ (spill'[t] <=> spill[t] \/ (last /\ Lost(b))) /\ spill' \in [Tasks -> BOOLEAN]
         /\ done'[t] = (IF last THEN 0 ELSE d + 1) /\ done' \in [Tasks -> Slot]
         /\ \A u \in Tasks : u # t => spill'[u] = spill[u]
    <2>1. pc \in [Tasks -> Place]
      BY DEF Base, Types
    <2>2. (spill[t] \/ (last /\ Lost(b))) \in BOOLEAN
      BY DEF Lost
    <2>3. (IF last THEN 0 ELSE d + 1) \in Slot
      BY <1>10 DEF Slot
    <2> HIDE DEF l, last, b, d
    <2>4. QED
      BY <1>1, <1>10, <2>1, <2>2, <2>3
  <1>12. /\ at \in Sector /\ at \div SPP = Page(t) /\ at % SPP = d
         /\ \A x \in Sector : x \div SPP = Page(t) /\ x % SPP = d => x = at
    BY <1>2, <1>10, SectorOf
  <1>13. flash' \in [Sector -> Content]
    <2>1. flash[at] \in Content /\ c[d] \in Content
      BY <1>9, <1>10, <1>12
    <2>2. Programmed(flash[at], c[d]) \in Content
      BY <2>1 DEF Programmed, Content
    <2> HIDE DEF c, at, d
    <2>3. QED
      BY <1>1, <1>10, <2>2
  <1>14. ChipTypes'
    BY <1>1, <1>11, <1>13 DEF ChipInv, ChipTypes
  <1>15. BuffersKept'
    BY <1>1 DEF ChipInv, BuffersKept
  <1>16. CleanHolds' /\ \A u \in Tasks : u # t => Course(u)' /\ ~clean'[u]
    BY <1>1, <1>2, <1>11, OthersChip
  <1>17. Course(t)'
    <2>1. (Lost(b)' <=> Lost(b)) /\ (Aligned(b)' <=> Aligned(b)) /\ rq'[t] = b /\ shape' = shape
      BY <1>1 DEF Lost, Offset, Aligned
    <2>2. QED
      BY <1>3, <1>7, <1>11, <2>1 DEF Course, Writing
  <1>18. \A x \in Sector : x # at => flash'[x] = flash[x]
    BY <1>1, <1>10
  <1>19. \A x \in Sector : x \div SPP # Page(t) => flash'[x] = flash[x]
    BY <1>12, <1>18
  <1>20. \A x \in Sector : x % SPP \in Slot /\ x % SPP \in 0 .. SPP - 1
    BY DivMod, PageOfSector, QueueAssumption DEF Slot
  <1>21. ASSUME clean[t]
         PROVE  \A x \in Sector : x \div SPP = Page(t) =>
                    flash'[x] = IF x % SPP < d + 1 THEN c[x % SPP] ELSE Blank
    <2> SUFFICES ASSUME NEW x \in Sector, x \div SPP = Page(t)
                 PROVE  flash'[x] = IF x % SPP < d + 1 THEN c[x % SPP] ELSE Blank
      OBVIOUS
    <2>1. flash[x] = IF x % SPP < d THEN c[x % SPP] ELSE Blank
      BY <1>1, <1>21 DEF ChipInv, Progress
    <2>2. CASE x % SPP = d
      <3>1. x = at /\ ~(x % SPP < d) /\ x % SPP < d + 1
        BY <1>10, <1>12, <2>2
      <3>2. flash[at] = Blank
        BY <2>1, <3>1
      <3>3. flash'[at] = c[d]
        BY <1>1, <1>10, <1>12, <3>2 DEF Programmed
      <3>4. QED
        BY <2>2, <3>1, <3>3
    <2>3. CASE x % SPP # d
      <3>1. x # at /\ (x % SPP < d + 1 <=> x % SPP < d)
        BY <1>10, <1>12, <1>20, <2>3
      <3>2. flash'[x] = flash[x]
        BY <1>18, <3>1
      <3>3. QED
        BY <2>1, <3>1, <3>2
    <2>4. QED
      BY <2>2, <2>3
  <1> HIDE DEF a, n, o, f, p
  <1>22. /\ a \in Nat /\ n \in Nat /\ o \in Nat /\ f \in Nat /\ p \in Nat /\ SPP \in Nat
         /\ n <= SPP /\ f <= n /\ 0 < f /\ o + f <= SPP
    BY <1>5, QueueAssumption DEF Parts, Slot
  <1>23. /\ rq'[t] = b /\ Fit(b)' = f /\ shape'[b].len = n /\ shape'[b].start = a /\ Offset(b)' = o
         /\ (Aligned(b)' <=> Aligned(b))
    BY <1>1 DEF Fit, Offset, Aligned, f, n, a, o
  <1>24. ASSUME clean[t], spill[t] PROVE \A i \in 0 .. f - 1 : flash'[a + i] = <<b, i>>
    <2> SUFFICES ASSUME NEW i \in 0 .. f - 1 PROVE flash'[a + i] = <<b, i>>
      OBVIOUS
    <2>1. a + i \in Sector /\ (a + i) \div SPP # Page(t)
      BY <1>1, <1>24, FirstPart DEF Writing, a, f
    <2>2. flash[a + i] = <<b, i>>
      BY <1>1, <1>24 DEF ChipInv, Progress, Landed, Writing, f, a
    <2>3. QED
      BY <1>19, <2>1, <2>2
  <1>25. CASE ~last
    <2>1. pc'[t] = "program" /\ (spill'[t] <=> spill[t]) /\ done'[t] = d + 1
      BY <1>11, <1>25
    <2>2. Page(t)' = Page(t) /\ Source(t)' = c /\ (spill'[t] = spill[t])
      BY <1>1, <1>10, <1>11, <2>1 DEF Page, Source, Aligned
    <2>3. ASSUME clean[t] PROVE Progress(t)'
      <3>1. spill'[t] => Landed(b, Fit(b))'
        BY <1>23, <1>24, <2>1, <2>3 DEF Landed
      <3>2. ~Aligned(b) => Laid(b, spill[t])
        BY <1>1, <2>3 DEF ChipInv, Progress
      <3>3. ~Aligned(b) => Laid(b, spill[t])'
        BY <1>1, <2>2, <3>2 DEF Laid, Fit, Offset
      <3>4. \A x \in Sector : x \div SPP = Page(t)' =>
                flash'[x] = IF x % SPP < done'[t] THEN Source(t)'[x % SPP] ELSE Blank
        BY <1>21, <2>1, <2>2, <2>3
      <3>5. QED
        BY <1>23, <2>1, <3>1, <3>3, <3>4 DEF Progress
    <2>4. QED
      BY <1>1, <1>14, <1>15, <1>16, <1>17, <2>3 DEF ChipInv
  <1>26. CASE last
    <2>1. ASSUME clean[t]
          PROVE  \A x \in Sector : x \div SPP = Page(t) => flash'[x] = c[x % SPP]
      <3>1. \A x \in Sector : x % SPP < d + 1
        BY <1>10, <1>20, <1>26
      <3> HIDE DEF c, d
      <3>2. QED
        BY <1>21, <2>1, <3>1
    <2>2. ASSUME clean[t], ~spill[t] PROVE \A i \in 0 .. f - 1 : flash'[a + i] = <<b, i>>
      <3> SUFFICES ASSUME NEW i \in 0 .. f - 1 PROVE flash'[a + i] = <<b, i>>
        OBVIOUS
      <3>1. Page(t) = p
        BY <1>8, <1>22, <2>2
      <3>2. a + i \in Sector /\ (a + i) \div SPP = p /\ (a + i) % SPP = o + i
        <4>1. i \in 0 .. n - 1
          BY <1>22
        <4>2. QED
          BY <1>5, <4>1 DEF Parts
      <3>3. flash'[a + i] = c[o + i]
        <4> HIDE DEF c
        <4>1. QED
          BY <2>1, <2>2, <3>1, <3>2
      <3>4. c[o + i] = <<b, i>>
        <4>1. CASE Aligned(b)
          <5>1. o + i = i /\ i \in Slot /\ c = data[b]
            BY <1>7, <1>22, <4>1 DEF Slot, Source, o, n
          <5>2. QED
            BY <1>4, <5>1 DEF Mine
        <4>2. CASE ~Aligned(b)
          <5>1. Laid(b, FALSE) /\ c = scratch
            BY <1>1, <1>10, <2>2, <4>2 DEF ChipInv, Progress, Source
          <5>2. QED
            BY <5>1 DEF Laid, f, o
        <4>3. QED
          BY <4>1, <4>2
      <3>5. QED
        BY <3>3, <3>4
    <2>3. ASSUME clean[t], spill[t] PROVE \A i \in 0 .. n - 1 : flash'[a + i] = <<b, i>>
      <3> SUFFICES ASSUME NEW i \in 0 .. n - 1 PROVE flash'[a + i] = <<b, i>>
        OBVIOUS
      <3>0. Lost(b) /\ ~Aligned(b) /\ Page(t) = p + 1
        BY <1>3, <1>7, <1>8, <2>3
      <3>1. a + i \in Sector
        BY <1>5 DEF Parts
      <3>2. CASE i < f
        <4>1. i \in 0 .. f - 1
          BY <1>22, <3>2
        <4>2. QED
          BY <1>24, <2>3, <4>1
      <3>3. CASE i >= f
        <4>1. PICK j \in 0 .. n - f - 1 : i = f + j
          <5>1. i - f \in 0 .. n - f - 1 /\ i = f + (i - f)
            BY <1>22, <3>3
          <5>2. QED
            BY <5>1
        <4>2. (a + i) \div SPP = p + 1 /\ (a + i) % SPP = j
          BY <1>5, <1>6, <3>0, <4>1 DEF Parts, o, n
        <4>3. flash'[a + i] = c[j]
          <5> HIDE DEF c
          <5>1. QED
            BY <2>1, <2>3, <3>0, <3>1, <4>2
        <4>4. c[j] = <<b, f + j>>
          <5>1. Laid(b, TRUE) /\ c = scratch
            BY <1>1, <1>10, <2>3, <3>0 DEF ChipInv, Progress, Source
          <5>2. QED
            BY <5>1 DEF Laid, f, n
        <4>5. QED
          BY <4>1, <4>3, <4>4
      <3>4. QED
        BY <1>22, <3>2, <3>3
    <2>4. ~Lost(b) => f = n
      BY <1>5, <1>6 DEF Parts, o, n
    <2>5. ASSUME clean[t] PROVE Progress(t)'
      <3>1. CASE Lost(b) /\ ~spill[t]
        <4>1. pc'[t] = "backup"
          BY <1>11, <1>26, <3>1
        <4>2. Landed(b, Fit(b))'
          BY <1>23, <2>2, <2>5, <3>1 DEF Landed
        <4>3. QED
          BY <1>23, <4>1, <4>2 DEF Progress
      <3>2. CASE ~(Lost(b) /\ ~spill[t])
        <4>1. pc'[t] = "end"
          BY <1>11, <1>26, <3>2
        <4>2. \A i \in 0 .. n - 1 : flash'[a + i] = <<b, i>>
          BY <1>3, <2>2, <2>3, <2>4, <2>5, <3>2
        <4>3. Landed(b, shape[b].len)'
          BY <1>23, <4>2 DEF Landed
        <4>4. QED
          BY <1>23, <4>1, <4>3 DEF Progress, Writing
      <3>3. QED
        BY <3>1, <3>2
    <2>6. QED
      BY <1>1, <1>14, <1>15, <1>16, <1>17, <2>5 DEF ChipInv
  <1>27. QED
    BY <1>25, <1>26


\* What the tasks rely on inside the driver, and how far a write has come, hold in every
\* reachable state, for every chip, page size and set of requests.
THEOREM ChipInvariant == Spec => []ChipInv
  <1>1. Init => ChipInv
    <2> SUFFICES ASSUME Init PROVE ChipInv
      OBVIOUS
    <2>1. \A x \in Bios : Mine(x) \in [Slot -> Content]
      BY DEF Mine, Content
    <2>2. 0 \in Slot
      BY QueueAssumption DEF Slot
    <2>3. ChipTypes
      BY <2>1, <2>2 DEF Init, ChipTypes, Content
    <2>4. BuffersKept /\ CleanHolds
      BY DEF Init, BuffersKept, CleanHolds
    <2>5. ASSUME NEW t \in Tasks PROVE Course(t) /\ ~clean[t]
      BY DEF Init, Course, Writing
    <2>6. QED
      BY <2>3, <2>4, <2>5 DEF ChipInv
  <1>2. Base /\ Base' /\ ChipInv /\ [Next]_vars => ChipInv'
    <2> SUFFICES ASSUME Base, Base', ChipInv, [Next]_vars PROVE ChipInv'
      OBVIOUS
    <2>1. CASE UNCHANGED vars
      <3>1. UNCHANGED <<pc, rq, shape, data, spill, done, clean, open, garbled, busy, flash, scratch>>
        BY <2>1 DEF vars, callvars, taskvars, chipvars
      <3>2. QED
        BY <3>1, ChipKept DEF ChipInv, ChipTypes
    <2>2. CASE Ready
      <3>1. /\ UNCHANGED <<pc, rq, shape, data, spill, done, clean, open, garbled, flash, scratch>>
            /\ busy' = FALSE
        BY <2>2 DEF Ready, callvars, taskvars
      <3>2. QED
        BY <3>1, ChipKept DEF ChipInv, ChipTypes
    <2>3. ASSUME NEW t \in Tasks, Open(t) PROVE ChipInv'
      <3>1. /\ UNCHANGED <<pc, rq, shape, data, spill, done, clean, busy, flash, scratch>>
            /\ open' = [open EXCEPT ![t] = TRUE]
            /\ garbled' = (garbled \/ \E u \in Tasks : open[u])
        BY <2>3 DEF Open, callvars, taskvars
      <3>2. garbled' \in BOOLEAN
        BY <3>1
      <3>3. open' \in [Tasks -> BOOLEAN]
        BY <3>1 DEF ChipInv, ChipTypes
      <3>4. QED
        BY <3>1, <3>2, <3>3, ChipKept DEF ChipInv, ChipTypes
    <2>4. ASSUME NEW t \in Tasks, Step(t) PROVE ChipInv'
      <3>1. CASE Add(t) \/ Fetch(t) \/ First(t) \/ Back(t) \/ EndRequest(t) \/ EndIo(t)
        BY <3>1, QuietChip
      <3>2. CASE Forth(t)
        BY <3>2, TakeChip
      <3>3. CASE Chip(t)
        BY <3>3, <2>3, ReadChip, BackupChip, PatchChip, EraseChip, ProgramChip DEF Chip
      <3>4. QED
        BY <2>4, <3>1, <3>2, <3>3 DEF Step
    <2>5. ASSUME NEW t \in Tasks, NEW s \in Shapes, Submit(t, s) PROVE ChipInv'
      BY <2>5, QuietChip
    <2>6. QED
      BY <2>1, <2>2, <2>4, <2>5 DEF Next
  <1>3. QED
    BY <1>1, <1>2, BaseInvariant, PTL DEF Spec

\* The queue, the tasks and the chip keep their types: the driver never reads or programs
\* outside of the chip, not even where it takes a page's number for a sector's.
THEOREM BlockTypeCorrect == Spec => []TypeOK
  <1>1. Base /\ ChipInv => TypeOK
    BY DEF Base, Types, Link, ChipInv, ChipTypes, TypeOK
  <1>2. QED
    BY <1>1, BaseInvariant, ChipInvariant, PTL

\* A write that no other request overlapped, and whose erases found the chip ready, has
\* put the caller's data into all the sectors it addresses, also those behind the page
\* boundary (w25qxx_request).
THEOREM WriteHasLanded == Spec => []WritesLand
  <1>1. ChipInv => WritesLand
    BY DEF ChipInv, Progress, Landed, WritesLand, HasLanded
  <1>2. QED
    BY <1>1, ChipInvariant, PTL

\* The page a task is writing is one that its request addresses.
LEMMA PageIsTouched ==
    ASSUME Base, ChipInv, NEW t \in Tasks, pc[t] \in Writing
    PROVE  Page(t) \in Touched(rq[t])
  <1> DEFINE b == rq[t]
  <1>1. b \in Bios /\ shape[b] # None
    BY PageInChip
  <1>2. spill[t] => Lost(b)
    BY DEF ChipInv, Course
  <1>3. Parts(shape[b].start, shape[b].len, Offset(b), shape[b].start \div SPP, Fit(b))
    BY <1>1, PartsOfBio DEF Base
  <1>4. shape[b].start \in Nat /\ shape[b].len \in Nat \ {0} /\ Fit(b) \in 1 .. shape[b].len
    BY <1>3 DEF Parts
  <1>5. CASE ~spill[t]
    <2>1. Page(t) = shape[b].start \div SPP
      <3>1. Page(t) = shape[b].start \div SPP + 0 /\ shape[b].start \div SPP \in Nat
        BY <1>3, <1>5 DEF Page, Parts
      <3>2. QED
        BY <3>1
    <2>2. shape[b].start \in shape[b].start .. shape[b].start + shape[b].len - 1
      BY <1>4
    <2>3. QED
      BY <2>1, <2>2 DEF Touched
  <1>6. CASE spill[t]
    <2>1. Page(t) = shape[b].start \div SPP + 1
      BY <1>6 DEF Page
    <2>2. Fit(b) < shape[b].len /\ (shape[b].start + (Fit(b) + 0)) \div SPP = shape[b].start \div SPP + 1
      <3>1. Offset(b) + shape[b].len - SPP > 0
        BY <1>2, <1>6 DEF Lost
      <3>2. Fit(b) < shape[b].len
        BY <1>3, <3>1 DEF Parts
      <3>3. 0 \in 0 .. shape[b].len - Fit(b) - 1
        BY <1>4, <3>2
      <3>4. QED
        BY <1>3, <3>1, <3>2, <3>3 DEF Parts
    <2>3. shape[b].start + Fit(b) \in shape[b].start .. shape[b].start + shape[b].len - 1
          /\ shape[b].start + (Fit(b) + 0) = shape[b].start + Fit(b)
      BY <1>4, <2>2
    <2>4. QED
      BY <2>1, <2>2, <2>3 DEF Touched
  <1>7. QED
    BY <1>5, <1>6

\* Whatever the tasks inside the driver interleave between the chip's functions, a page
\* changes only while a task serves a request with a sector in it.
THEOREM OnlyTouchedPages == Spec => OnlyTouchedChange
  <1> DEFINE A == \A s \in Sector : flash'[s] # flash[s] =>
                     \E t \in Tasks : rq[t] # None /\ s \div SPP \in Touched(rq[t])
  <1>1. Base /\ ChipInv /\ [Next]_vars => [A]_vars
    <2> SUFFICES ASSUME Base, ChipInv, Next, NEW s \in Sector, flash'[s] # flash[s]
                 PROVE  \E t \in Tasks : rq[t] # None /\ s \div SPP \in Touched(rq[t])
      OBVIOUS
    <2>1. PICK t \in Tasks : Erase(t) \/ Program(t)
      BY DEF Next, Ready, Step, Submit, Prepare, Add, AddLoad, AddPrev, AddOwn, AddNext, Fetch,
             First, Back, Forth, Take, Chip, Open, ReadSectors, Backup, Patch, EndRequest,
             Finish, EndIo, chipvars
    <2>2. pc[t] \in Writing
      BY <2>1 DEF Erase, Program, Writing
    <2>3. rq[t] # None /\ Page(t) \in 0 .. Pages - 1
      BY <2>2, PageInChip
    <2>4. s \div SPP = Page(t)
      <3>1. CASE Erase(t)
        <4>1. flash'[s] = flash[s] \/ flash' = [x \in Sector |-> IF x \div SPP = Page(t) THEN Blank ELSE flash[x]]
          BY <3>1 DEF Erase
        <4>2. QED
          BY <4>1
      <3>2. CASE Program(t)
        <4>1. done[t] \in Slot /\ flash \in [Sector -> Content]
          BY DEF ChipInv, ChipTypes
        <4>2. flash' = [flash EXCEPT ![Page(t) * SPP + done[t]] =
                           Programmed(@, Source(t)[done[t]])]
          BY <3>2 DEF Program
        <4>3. s = Page(t) * SPP + done[t]
          BY <4>1, <4>2
        <4>4. QED
          BY <2>3, <4>1, <4>3, SectorOf
      <3>3. QED
        BY <2>1, <3>1, <3>2
    <2>5. QED
      BY <2>2, <2>3, <2>4, PageIsTouched
  <1>2. QED
    BY <1>1, BaseInvariant, ChipInvariant, PTL DEF Spec, OnlyTouchedChange
=============================================================================
