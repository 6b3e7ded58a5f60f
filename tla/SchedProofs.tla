----------------------------- MODULE SchedProofs -----------------------------
(***************************************************************************)
(* For any number of tasks, any priorities, any timer width and both ways  *)
(* of creating a task: the scheduler's variables keep their types, no NULL *)
(* task pointer is followed, a reaped task is never the core's task again, *)
(* and the PendSV walk ends at a READY task or at system_default_task.     *)
(* The argument never needs the pool to be a well-formed list: it holds    *)
(* even in the interleavings that lose a task.                             *)
(***************************************************************************)
EXTENDS Sched, TLAPS

\* A task whose own links are set, which other links and the head may point to.
Linked(t) == add[t].step \in {"prev", "place", "publish", "unblock", "done"}

\* Boot creates default_task before anything else, at the head of an empty pool.
BootInv ==
    /\ add[Default].step \in {"none", "take", "search", "publish", "done"}
    /\ add[Default].step = "search" => add[Default].place = NULL
    /\ add[Default].way = "task_run"
    /\ add[Default].step \in {"publish", "done"} <=> head # NULL
    /\ \A t \in Tasks \ {Default} : add[t].step # "none" => add[Default].step = "done"
    /\ started => add[Default].step = "done"
    /\ \A t \in Tasks : state[t] = "none" => add[t].step \in {"none", "take"}

\* Links lead to linked tasks, and only default_task's next is NULL.
LinkInv ==
    /\ head # NULL => Linked(head)
    /\ walk # NULL => Linked(walk)
    /\ current # NULL => Linked(current)
    /\ \A t \in Tasks : nxt[t] # NULL => Linked(nxt[t])
    /\ \A t \in Tasks \ {Default} : Linked(t) => nxt[t] # NULL
    /\ nxt[Default] = NULL
    /\ \A t \in Tasks : prv[t] # NULL => prv[t] # Default /\ Linked(prv[t])

\* The place an insertion has found is a linked task.
PlaceInv ==
    \A n \in Tasks \ {Default} :
        add[n].step \in {"search", "link", "prev", "place"} =>
            add[n].place # NULL /\ Linked(add[n].place)

\* default_task neither dies nor breaks; what is on the death list is over.
LifeInv ==
    /\ state[Default] \notin {"DEAD", "BROKEN"}
    /\ \A t \in Tasks : tlist[t] = "death" => state[t] \in {"DEAD", "BROKEN"}
    /\ ReapedNeverRuns

Inv == TypeOK /\ BootInv /\ LinkInv /\ PlaceInv /\ LifeInv

\* The initial state satisfies the inductive invariant.
LEMMA InitInv == Init => Inv
  <1> SUFFICES ASSUME Init PROVE Inv
    OBVIOUS
  <1>1. add \in [Tasks -> [step : AddStep, by : TaskOrNull, way : Way, place : TaskOrNull]]
    BY DEF Init, NoAdd, AddStep, TaskOrNull, Way
  <1>2. TypeOK
    <2>1. timer \in Times
      BY TimerAssumption DEF Init, Times
    <2>2. /\ last \in [Tasks -> Times \cup {Garbage}]
          /\ block \in [Tasks -> Times \cup {Garbage}]
      BY DEF Init
    <2>3. QED
      BY <1>1, <2>1, <2>2 DEF Init, TypeOK, TaskOrNull, TaskState
  <1>3. \A t \in Tasks : add[t].step = "none" /\ add[t].way = "task_run"
    BY DEF Init, NoAdd
  <1>4. BootInv
    BY <1>3, PoolAssumption DEF Init, BootInv
  <1>5. LinkInv /\ PlaceInv /\ LifeInv
    BY <1>3, PoolAssumption DEF Init, LinkInv, PlaceInv, LifeInv, ReapedNeverRuns, Linked
  <1>6. QED
    BY <1>2, <1>4, <1>5 DEF Inv

\* Types are preserved by every step.
LEMMA TypeStep == Inv /\ [Next]_vars => TypeOK'
  <1> SUFFICES ASSUME Inv, [Next]_vars PROVE TypeOK'
    OBVIOUS
  <1> USE PoolAssumption, TimerAssumption
      DEF Inv, TypeOK, Times, TaskOrNull, TaskState, AddStep, Way, taskvars, corevars, Write
  <1>1. ASSUME NEW n \in Tasks, NEW c \in TaskOrNull, NEW w \in Way, BeginTask(n, c, w)
        PROVE TypeOK'
    BY <1>1 DEF BeginTask
  <1>2. ASSUME NEW n \in Tasks, AddTask(n) PROVE TypeOK'
    <2>1. CASE SearchPlace(n)
      <3>1. add' \in [Tasks -> [step : AddStep, by : TaskOrNull, way : Way, place : TaskOrNull]]
        BY <2>1, SMTT(20) DEF SearchPlace
      <3>2. head' \in TaskOrNull
        BY <2>1 DEF SearchPlace
      <3>3. QED
        BY <2>1, <3>1, <3>2 DEF SearchPlace
    <2>2. CASE LinkNew(n)
      BY <2>2, SMTT(20) DEF LinkNew, BootInv, PlaceInv
    <2>3. CASE LinkPrev(n)
      <3>1. nxt' \in [Tasks -> TaskOrNull]
        BY <2>3 DEF LinkPrev, BootInv, PlaceInv
      <3>2. add' \in [Tasks -> [step : AddStep, by : TaskOrNull, way : Way, place : TaskOrNull]]
        BY <2>3 DEF LinkPrev
      <3>3. QED
        BY <2>3, <3>1, <3>2 DEF LinkPrev
    <2>4. CASE LinkPlace(n)
      <3>1. prv' \in [Tasks -> TaskOrNull]
        BY <2>4 DEF LinkPlace
      <3>2. add' \in [Tasks -> [step : AddStep, by : TaskOrNull, way : Way, place : TaskOrNull]]
        BY <2>4 DEF LinkPlace
      <3>3. QED
        BY <2>4, <3>1, <3>2 DEF LinkPlace
    <2>5. CASE Publish(n)
      BY <2>5 DEF Publish, BootInv
    <2>6. CASE Unblock(n)
      BY <2>6 DEF Unblock
    <2>7. CASE CreateTask(n)
      <3> DEFINE r == [add[n] EXCEPT !.step = "search", !.place = head]
      <3>0. r \in [step : AddStep, by : TaskOrNull, way : Way, place : TaskOrNull]
        <4>1. add[n] \in [step : AddStep, by : TaskOrNull, way : Way, place : TaskOrNull]
          OBVIOUS
        <4>2. "search" \in AddStep /\ head \in TaskOrNull
          OBVIOUS
        <4> QED
          BY ONLY <4>1, <4>2
      <3> HIDE DEF r
      <3>1. add' \in [Tasks -> [step : AddStep, by : TaskOrNull, way : Way, place : TaskOrNull]]
        <4>1. add' = [add EXCEPT ![n] = r]
          BY <2>7 DEF CreateTask, r
        <4>2. QED
          BY <3>0, <4>1
      <3>2. QED
        BY <2>7, <3>1 DEF CreateTask
    <2>8. CASE Refused(n)
      BY <2>8 DEF Refused
    <2>9. QED
      BY <1>2, <2>1, <2>2, <2>3, <2>4, <2>5, <2>6, <2>7, <2>8 DEF AddTask
  <1>3. ASSUME NEW t \in Tasks, TaskCode(t) PROVE TypeOK'
    <2>1. CASE DelayTime(t) \/ EnterLock(t) \/ LeaveLock(t) \/ FaultRefused(t)
      BY <2>1 DEF DelayTime, EnterLock, LeaveLock, FaultRefused
    <2>2. CASE DelayState(t) \/ Yield(t) \/ Exit(t) \/ UserFault(t)
      <3>1. CASE DelayState(t)
        BY <3>1 DEF DelayState
      <3>2. CASE Yield(t)
        BY <3>2 DEF Yield
      <3>3. CASE Exit(t)
        BY <3>3 DEF Exit
      <3>4. CASE UserFault(t)
        BY <3>4 DEF UserFault
      <3>5. QED
        BY <2>2, <3>1, <3>2, <3>3, <3>4
    <2>3. CASE KernelFault(t)
      BY <2>3, SMTT(20) DEF KernelFault, Remove, Unlink
    <2>4. QED
      BY <1>3, <2>1, <2>2, <2>3 DEF TaskCode
  <1>4. CASE Start \/ Tick
    BY <1>4 DEF Start, Tick
  <1>5. CASE PendSV
    <2>1. (timer + 1) % TimerMod \in Times
      OBVIOUS
    <2>2. QED
      BY <1>5, <2>1 DEF PendSV
  <1>6. CASE WalkDead
    BY <1>6 DEF WalkDead, Remove, Unlink, Advance, Return
  <1>7. CASE WalkReady \/ WalkWake
    BY <1>7 DEF WalkReady, WalkWake, Return
  <1>8. CASE WalkPast
    BY <1>8 DEF WalkPast, Advance, Return
  <1>9. CASE UNCHANGED vars
    BY <1>9 DEF vars
  <1>10. QED
    BY <1>1, <1>2, <1>3, <1>4, <1>5, <1>6, <1>7, <1>8, <1>9
    DEF Next, Handler, HandlerLoops, BootTask, LocalTask

\* Boot order and creation state are preserved by every step.
LEMMA BootStep == Inv /\ [Next]_vars => BootInv'
  <1> SUFFICES ASSUME Inv, [Next]_vars PROVE BootInv'
    OBVIOUS
  <1> USE PoolAssumption, DefaultAssumption DEF Inv, TypeOK, BootInv, TaskOrNull, taskvars, corevars
  <1>1. ASSUME NEW n \in Tasks, BootTask(n) PROVE BootInv'
    <2>1. PICK w \in Way : /\ BeginTask(n, NULL, w)
                           /\ n = Default => w = "task_run"
                           /\ n # Default => add[Default].step = "done"
      BY <1>1 DEF BootTask, Way
    <2>2. /\ add[n].step = "none" /\ add'[n].step = "take" /\ add'[n].way = w
          /\ \A t \in Tasks \ {n} : add'[t] = add[t]
          /\ UNCHANGED <<state, head, started>>
      BY <2>1 DEF BeginTask
    <2>3. QED
      BY <2>1, <2>2
  <1>2. ASSUME NEW n \in Tasks, NEW c \in Tasks, LocalTask(c, n) PROVE BootInv'
    BY <1>2 DEF LocalTask, BeginTask, Running
  <1>3. ASSUME NEW n \in Tasks, AddTask(n) PROVE BootInv'
    <2>1. CASE SearchPlace(n)
      BY <2>1 DEF SearchPlace
    <2>2. CASE LinkNew(n)
      BY <2>2 DEF LinkNew
    <2>3. CASE LinkPrev(n)
      BY <2>3 DEF LinkPrev
    <2>4. CASE LinkPlace(n)
      BY <2>4 DEF LinkPlace
    <2>5. CASE Publish(n)
      <3>1. head # NULL /\ head' # NULL
        BY <2>5 DEF Publish
      <3>2. /\ add'[n].step \in {"unblock", "done"}
            /\ n = Default => add'[n].step = "done"
            /\ \A t \in Tasks \ {n} : add'[t] = add[t]
        BY <2>5 DEF Publish
      <3>3. QED
        BY <2>5, <3>1, <3>2 DEF Publish
    <2>6. CASE Unblock(n)
      BY <2>6 DEF Unblock
    <2>7. CASE CreateTask(n)
      <3>1. /\ add'[n].step = "search" /\ add'[n].place = head /\ add'[n].way = add[n].way
            /\ state'[n] = "READY"
            /\ \A t \in Tasks \ {n} : add'[t] = add[t] /\ state'[t] = state[t]
            /\ add[n].step = "take" /\ UNCHANGED <<head, started>>
        BY <2>7 DEF CreateTask
      <3>2. QED
        BY <3>1
    <2>8. CASE Refused(n)
      BY <2>8 DEF Refused
    <2>9. QED
      BY <1>3, <2>1, <2>2, <2>3, <2>4, <2>5, <2>6, <2>7, <2>8 DEF AddTask
  <1>4. ASSUME NEW t \in Tasks, TaskCode(t) PROVE BootInv'
    <2>1. CASE DelayTime(t) \/ DelayState(t) \/ Yield(t) \/ Exit(t) \/ UserFault(t)
               \/ EnterLock(t) \/ LeaveLock(t) \/ FaultRefused(t)
      BY <2>1 DEF DelayTime, DelayState, Yield, Exit, UserFault, EnterLock, LeaveLock, FaultRefused
    <2>2. CASE KernelFault(t)
      BY <2>2 DEF KernelFault, Remove, LinkInv, LifeInv
    <2>3. QED
      BY <1>4, <2>1, <2>2 DEF TaskCode
  <1>5. CASE Start \/ Tick \/ PendSV
    BY <1>5 DEF Start, Tick, PendSV
  <1>6. CASE WalkDead
    BY <1>6 DEF WalkDead, Remove, LinkInv, LifeInv
  <1>7. CASE WalkReady \/ WalkWake \/ WalkPast
    BY <1>7 DEF WalkReady, WalkWake, WalkPast
  <1>8. CASE UNCHANGED vars
    BY <1>8 DEF vars
  <1>9. QED
    BY <1>1, <1>2, <1>3, <1>4, <1>5, <1>6, <1>7, <1>8 DEF Next, Handler, HandlerLoops

\* A task once linked stays linked: insertions only move forward.
LEMMA LinkedGrows == Inv /\ [Next]_vars => \A t \in Tasks : Linked(t) => Linked(t)'
  <1> SUFFICES ASSUME Inv, [Next]_vars, NEW t \in Tasks, Linked(t) PROVE Linked(t)'
    OBVIOUS
  <1> USE DEF Inv, TypeOK, Linked, taskvars, corevars
  <1>1. ASSUME NEW n \in Tasks, NEW c \in TaskOrNull, NEW w \in Way, BeginTask(n, c, w)
        PROVE Linked(t)'
    BY <1>1 DEF BeginTask, BootInv
  <1>2. ASSUME NEW n \in Tasks, AddTask(n) PROVE Linked(t)'
    <2>1. CASE CreateTask(n)
      BY <2>1 DEF CreateTask
    <2>2. CASE ~CreateTask(n)
      BY <1>2, <2>2
      DEF AddTask, Refused, SearchPlace, LinkNew, LinkPrev, LinkPlace, Publish, Unblock
    <2>3. QED
      BY <2>1, <2>2
  <1>3. CASE UNCHANGED add
    BY <1>3
  <1>4. QED
    BY <1>1, <1>2, <1>3, PoolAssumption
    DEF Next, Handler, HandlerLoops, TaskCode, BootTask, LocalTask, vars, Start, Tick, PendSV, WalkDead,
        WalkReady, WalkWake, WalkPast, DelayTime, DelayState, Yield, Exit, KernelFault,
        UserFault, EnterLock, LeaveLock, FaultRefused, TaskOrNull, Way

\* Removing a task other than default_task keeps the links sound: its successor
\* is a linked task, and becomes the head or its predecessor's next.
LEMMA RemoveLinks ==
    ASSUME Inv, NEW t \in Tasks \ {Default}, Linked(t), Remove(t)
    PROVE  /\ head' # NULL => Linked(head')
           /\ \A u \in Tasks : nxt'[u] # NULL => Linked(nxt'[u])
           /\ \A u \in Tasks \ {Default} : Linked(u) => nxt'[u] # NULL
           /\ nxt'[Default] = NULL
           /\ \A u \in Tasks : prv'[u] # NULL => prv'[u] # Default /\ Linked(prv'[u])
  <1>1. nxt[t] \in Tasks /\ Linked(nxt[t]) /\ ~OnlyTask(t)
    BY DEF Inv, TypeOK, LinkInv, OnlyTask, TaskOrNull
  <1>2. /\ head' = IF head = t THEN nxt[t] ELSE head
        /\ nxt' = Write(nxt, prv[t], nxt[t])
        /\ prv' = Write(prv, nxt[t], prv[t])
    BY <1>1 DEF Remove, Unlink
  <1>3. prv[t] # NULL => prv[t] # Default /\ Linked(prv[t])
    BY DEF Inv, LinkInv
  <1>4. QED
    BY <1>1, <1>2, <1>3, PoolAssumption DEF Inv, TypeOK, LinkInv, Write, TaskOrNull

\* Sound links are preserved by every step.
LEMMA LinkStep == Inv /\ [Next]_vars => LinkInv'
  <1> SUFFICES ASSUME Inv, [Next]_vars PROVE LinkInv'
    OBVIOUS
  <1>0. \A t \in Tasks : Linked(t) => Linked(t)'
    BY LinkedGrows
  <1> USE <1>0, PoolAssumption, DefaultAssumption
      DEF Inv, TypeOK, LinkInv, TaskOrNull, taskvars, corevars
  <1>1. ASSUME NEW n \in Tasks, NEW c \in TaskOrNull, NEW w \in Way, BeginTask(n, c, w)
        PROVE LinkInv'
    BY <1>1 DEF BeginTask, Linked
  <1>2. ASSUME NEW n \in Tasks, AddTask(n) PROVE LinkInv'
    <2>1. CASE SearchPlace(n)
      <3>1. n # Default => head # NULL
        BY <2>1 DEF SearchPlace, BootInv
      <3>2. head' = head \/ (n = Default /\ head' = n /\ Linked(n)')
        <4>1. CASE head = NULL
          BY <2>1, <3>1, <4>1 DEF SearchPlace, Linked, BootInv
        <4>2. CASE head # NULL
          BY <2>1, <4>2 DEF SearchPlace
        <4>3. QED
          BY <4>1, <4>2
      <3>3. \A t \in Tasks \ {Default} : Linked(t)' => Linked(t)
        <4>1. \A t \in Tasks \ {n} : add'[t] = add[t]
          BY <2>1 DEF SearchPlace
        <4>2. n # Default => add'[n].step \in {"search", "link"}
          BY <2>1, <3>1 DEF SearchPlace
        <4>3. QED
          BY <4>1, <4>2 DEF Linked
      <3>4. UNCHANGED <<walk, current, nxt, prv>>
        BY <2>1 DEF SearchPlace
      <3>5. head' # NULL => Linked(head)'
        BY <3>2, <3>4
      <3>6. QED
        BY <3>3, <3>4, <3>5
    <2>2. CASE LinkNew(n)
      <3>1. n # Default /\ add[n].place \in Tasks /\ Linked(add[n].place)
        BY <2>2 DEF LinkNew, BootInv, PlaceInv
      <3>2. /\ nxt' = [nxt EXCEPT ![n] = add[n].place]
            /\ prv' = [prv EXCEPT ![n] = prv[add[n].place]]
            /\ \A t \in Tasks \ {n} : Linked(t)' <=> Linked(t)
            /\ UNCHANGED <<head, walk, current>>
        BY <2>2 DEF LinkNew, Linked
      <3>3. QED
        BY <3>1, <3>2
    <2>3. CASE LinkPrev(n)
      <3>1. n # Default /\ add[n].place \in Tasks
        BY <2>3 DEF LinkPrev, BootInv, PlaceInv
      <3>2. /\ nxt' = Write(nxt, prv[add[n].place], n)
            /\ \A t \in Tasks : Linked(t)' <=> Linked(t)
            /\ Linked(n)
            /\ UNCHANGED <<head, walk, current, prv>>
        BY <2>3 DEF LinkPrev, Linked
      <3>3. QED
        BY <3>1, <3>2 DEF Write
    <2>4. CASE LinkPlace(n)
      <3>1. n # Default /\ add[n].place \in Tasks
        BY <2>4 DEF LinkPlace, BootInv, PlaceInv
      <3>2. /\ prv' = [prv EXCEPT ![add[n].place] = n]
            /\ \A t \in Tasks : Linked(t)' <=> Linked(t)
            /\ Linked(n)
            /\ UNCHANGED <<head, walk, current, nxt>>
        BY <2>4 DEF LinkPlace, Linked
      <3>3. QED
        BY <3>1, <3>2
    <2>5. CASE Publish(n)
      <3>1. head' # NULL => Linked(head')
        BY <2>5 DEF Publish, BootInv
      <3>2. \A t \in Tasks : Linked(t)' <=> Linked(t)
        BY <2>5 DEF Publish, Linked
      <3>3. head' \in TaskOrNull
        BY TypeStep
      <3>4. QED
        BY <2>5, <3>1, <3>2, <3>3 DEF Publish
    <2>6. CASE Unblock(n)
      BY <2>6 DEF Unblock, Linked
    <2>7. CASE CreateTask(n) \/ Refused(n)
      <3>1. \A t \in Tasks : Linked(t)' <=> Linked(t)
        <4>1. CASE CreateTask(n)
          <5>1. add[n].step = "take" /\ add'[n].step = "search" /\ \A t \in Tasks \ {n} : add'[t] = add[t]
            BY <4>1 DEF CreateTask
          <5>2. QED
            BY <5>1 DEF Linked
        <4>2. CASE Refused(n)
          BY <4>2 DEF Refused, Linked
        <4>3. QED
          BY <2>7, <4>1, <4>2
      <3>2. UNCHANGED <<head, walk, current, nxt, prv>>
        BY <2>7 DEF CreateTask, Refused
      <3>3. QED
        BY <3>1, <3>2
    <2>8. QED
      BY <1>2, <2>1, <2>2, <2>3, <2>4, <2>5, <2>6, <2>7 DEF AddTask
  <1>3. ASSUME NEW t \in Tasks, TaskCode(t) PROVE LinkInv'
    <2>1. CASE KernelFault(t)
      <3>1. t # Default /\ Linked(t) /\ Remove(t) /\ UNCHANGED <<add, walk>> /\ current' = NULL
        BY <2>1 DEF KernelFault, Running
      <3>2. head' \in TaskOrNull /\ nxt' \in [Tasks -> TaskOrNull] /\ prv' \in [Tasks -> TaskOrNull]
        BY TypeStep
      <3>3. QED
        BY <3>1, <3>2, RemoveLinks DEF Linked
    <2>2. CASE DelayTime(t) \/ DelayState(t) \/ Yield(t) \/ Exit(t) \/ UserFault(t)
               \/ EnterLock(t) \/ LeaveLock(t) \/ FaultRefused(t)
      BY <2>2
      DEF DelayTime, DelayState, Yield, Exit, UserFault, EnterLock, LeaveLock, FaultRefused, Linked
    <2>3. QED
      BY <1>3, <2>1, <2>2 DEF TaskCode
  <1>4. CASE Start \/ Tick \/ PendSV
    BY <1>4 DEF Start, Tick, PendSV, Linked
  <1>5. CASE WalkReady \/ WalkWake \/ WalkPast
    BY <1>5 DEF WalkReady, WalkWake, WalkPast, Return, Advance, Linked
  <1>8. CASE WalkDead
    <2>1. walk # Default /\ walk \in Tasks /\ Linked(walk) /\ Remove(walk) /\ UNCHANGED add
      BY <1>8 DEF WalkDead, LifeInv
    <2>2. walk' # NULL => Linked(walk')
      BY <1>8 DEF WalkDead, Advance, Return
    <2>3. current' # NULL => Linked(current')
      BY <1>8 DEF WalkDead, Advance, Return
    <2>4. head' \in TaskOrNull /\ nxt' \in [Tasks -> TaskOrNull] /\ prv' \in [Tasks -> TaskOrNull]
      BY TypeStep
    <2>5. QED
      BY <2>1, <2>2, <2>3, <2>4, RemoveLinks DEF Linked
  <1>6. CASE UNCHANGED vars
    BY <1>6 DEF vars, Linked
  <1>7. QED
    BY <1>1, <1>2, <1>3, <1>4, <1>5, <1>8, <1>6 DEF Next, Handler, HandlerLoops, BootTask, LocalTask, Way

\* The place an insertion works at stays a linked task: the search only moves on
\* past tasks of a higher priority, which default_task is not.
LEMMA PlaceStep == Inv /\ [Next]_vars => PlaceInv'
  <1> SUFFICES ASSUME Inv, [Next]_vars PROVE PlaceInv'
    OBVIOUS
  <1>0. \A t \in Tasks : Linked(t) => Linked(t)'
    BY LinkedGrows
  <1> USE <1>0, PoolAssumption DEF Inv, TypeOK, TaskOrNull, taskvars, corevars, PlaceInv
  <1>1. ASSUME NEW n \in Tasks, NEW c \in TaskOrNull, NEW w \in Way, BeginTask(n, c, w)
        PROVE PlaceInv'
    BY <1>1 DEF BeginTask
  <1>2. ASSUME NEW n \in Tasks, AddTask(n) PROVE PlaceInv'
    <2>1. CASE SearchPlace(n)
      <3> SUFFICES ASSUME NEW m \in Tasks \ {Default},
                          add'[m].step \in {"search", "link", "prev", "place"}
                   PROVE  (add[m].place # NULL /\ Linked(add[m].place))'
        OBVIOUS
      <3>1. CASE m # n
        BY <2>1, <3>1 DEF SearchPlace
      <3>2. CASE m = n
        <4>1. add[n].place \in Tasks /\ Linked(add[n].place) /\ head # NULL
          BY <2>1, <3>2 DEF SearchPlace, BootInv
        <4>2. CASE Prio[add[n].place] <= Prio[n]
          BY <2>1, <3>2, <4>1, <4>2 DEF SearchPlace
        <4>3. CASE Prio[add[n].place] > Prio[n]
          <5>1. add[n].place # Default
            BY <4>1, <4>3
          <5>2. nxt[add[n].place] \in Tasks /\ Linked(nxt[add[n].place])
            BY <4>1, <5>1 DEF LinkInv
          <5>3. add'[n].place = nxt[add[n].place]
            BY <2>1, <4>1, <4>3 DEF SearchPlace
          <5>4. QED
            BY <3>2, <5>2, <5>3
        <4>4. QED
          BY <4>1, <4>2, <4>3
      <3>3. QED
        BY <3>1, <3>2
    <2>2. CASE LinkNew(n)
      BY <2>2 DEF LinkNew
    <2>3. CASE LinkPrev(n)
      BY <2>3 DEF LinkPrev
    <2>4. CASE LinkPlace(n)
      BY <2>4 DEF LinkPlace
    <2>5. CASE Publish(n)
      BY <2>5 DEF Publish
    <2>6. CASE Unblock(n)
      BY <2>6 DEF Unblock
    <2>7. CASE CreateTask(n)
      <3>1. n # Default => head \in Tasks /\ Linked(head)
        BY <2>7 DEF CreateTask, BootInv, LinkInv
      <3>2. add'[n].place = head /\ \A m \in Tasks \ {n} : add'[m] = add[m]
        BY <2>7 DEF CreateTask
      <3>3. QED
        BY <3>1, <3>2
    <2>8. CASE Refused(n)
      BY <2>8 DEF Refused
    <2>9. QED
      BY <1>2, <2>1, <2>2, <2>3, <2>4, <2>5, <2>6, <2>7, <2>8 DEF AddTask
  <1>3. CASE UNCHANGED add
    BY <1>3
  <1>4. ASSUME NEW n \in Tasks, BootTask(n) PROVE PlaceInv'
    BY <1>1, <1>4 DEF BootTask, BootInv, Way
  <1>5. ASSUME NEW n \in Tasks, NEW c \in Tasks, LocalTask(c, n) PROVE PlaceInv'
    BY <1>1, <1>5 DEF LocalTask, Running, BootInv
  <1>6. QED
    BY <1>2, <1>3, <1>4, <1>5
    DEF Next, Handler, HandlerLoops, TaskCode, vars, Start, Tick, PendSV, WalkDead, WalkReady, WalkWake,
        WalkPast, DelayTime, DelayState, Yield, Exit, KernelFault, UserFault,
        EnterLock, LeaveLock, FaultRefused

\* The life cycle is preserved by every step.
LEMMA LifeStep == Inv /\ [Next]_vars => LifeInv'
  <1> SUFFICES ASSUME Inv, [Next]_vars PROVE LifeInv'
    OBVIOUS
  <1> USE PoolAssumption, DefaultAssumption
      DEF Inv, TypeOK, LifeInv, ReapedNeverRuns, TaskOrNull, taskvars, corevars
  <1>1. ASSUME NEW n \in Tasks, NEW c \in TaskOrNull, NEW w \in Way, BeginTask(n, c, w)
        PROVE LifeInv'
    BY <1>1 DEF BeginTask
  <1>2. ASSUME NEW n \in Tasks, AddTask(n) PROVE LifeInv'
    <2>1. CASE CreateTask(n)
      BY <1>2, <2>1 DEF CreateTask
    <2>2. CASE ~CreateTask(n)
      BY <1>2, <2>2
      DEF AddTask, Refused, SearchPlace, LinkNew, LinkPrev, LinkPlace, Publish, Unblock
    <2>3. QED
      BY <2>1, <2>2
  <1>3. ASSUME NEW t \in Tasks, TaskCode(t) PROVE LifeInv'
    <2>1. CASE DelayTime(t) \/ DelayState(t) \/ Yield(t) \/ Exit(t) \/ UserFault(t)
               \/ EnterLock(t) \/ LeaveLock(t) \/ FaultRefused(t)
      BY <2>1
      DEF DelayTime, DelayState, Yield, Exit, UserFault, EnterLock, LeaveLock, FaultRefused, Running
    <2>2. CASE KernelFault(t)
      BY <2>2 DEF KernelFault
    <2>3. QED
      BY <1>3, <2>1, <2>2 DEF TaskCode
  <1>4. CASE Start \/ Tick \/ PendSV
    BY <1>4 DEF Start, Tick, PendSV
  <1>5. CASE WalkReady \/ WalkWake
    BY <1>5 DEF WalkReady, WalkWake, Return
  <1>6. CASE WalkPast
    <2>1. current' = current \/ current' = Default
      BY <1>6 DEF WalkPast, Advance, Return, LinkInv
    <2>2. QED
      BY <1>6, <2>1 DEF WalkPast
  <1>7. CASE WalkDead
    <2>1. walk \in Tasks \ {Default} /\ nxt[walk] # NULL
      BY <1>7 DEF WalkDead, LinkInv
    <2>2. current' = IF current = walk THEN NULL ELSE current
      BY <1>7, <2>1 DEF WalkDead, Advance, OnlyTask
    <2>3. QED
      BY <1>7, <2>1, <2>2 DEF WalkDead
  <1>8. CASE UNCHANGED vars
    BY <1>8 DEF vars
  <1>9. QED
    BY <1>1, <1>2, <1>3, <1>4, <1>5, <1>6, <1>7, <1>8
    DEF Next, Handler, HandlerLoops, BootTask, LocalTask, Way

\* The inductive invariant holds in every reachable state.
THEOREM Invariance == Spec => []Inv
  <1>1. Inv /\ [Next]_vars => Inv'
    BY TypeStep, BootStep, LinkStep, PlaceStep, LifeStep DEF Inv
  <1>2. QED
    BY InitInv, <1>1, PTL DEF Spec

\* The scheduler's variables keep their types, for every number of tasks.
THEOREM TypeCorrect == Spec => []TypeOK
  <1>1. Inv => TypeOK
    BY DEF Inv
  <1>2. QED
    BY Invariance, <1>1, PTL

\* A task on the death list is never the core's current task: neither the walk
\* nor a fault handler can bring a finished task back.
THEOREM ReapedNeverRunsAgain == Spec => []ReapedNeverRuns
  <1>1. Inv => ReapedNeverRuns
    BY DEF Inv, LifeInv
  <1>2. QED
    BY Invariance, <1>1, PTL

\* get_task_by_priority never walks off the pool's end: default_task, whose
\* priority no task is below, stops the search of every insertion.
THEOREM SearchFindsPlace == Spec => []PlaceFound
  <1>1. Inv => PlaceFound
    BY DEF Inv, PlaceInv, PlaceFound, TypeOK, BootInv
  <1>2. QED
    BY Invariance, <1>1, PTL

\* PendSV hands the core to a READY task, or falls back on default_task at the
\* end of the list: never to a dead, broken or delayed task.
THEOREM SwitchesOnlyToReady == Spec => SwitchTarget
  <1> DEFINE Switch == walk # NULL /\ walk' = NULL =>
                         current' = Default \/ state'[current'] = "READY"
  <1>1. Inv /\ [Next]_vars => [Switch]_vars
    <2> SUFFICES ASSUME Inv, Next, walk # NULL, walk' = NULL
                 PROVE  current' = Default \/ state'[current'] = "READY"
      BY DEF vars, corevars
    <2>1. walk \in Tasks /\ Linked(walk)
      BY DEF Inv, LinkInv, TypeOK, TaskOrNull
    <2>2. CASE WalkDead \/ WalkPast
      <3>1. nxt[walk] = NULL /\ current' = walk
        BY <2>2, <2>1, PoolAssumption
        DEF WalkDead, WalkPast, Advance, Return, Inv, LinkInv, TypeOK, TaskOrNull
      <3>2. QED
        BY <2>1, <3>1 DEF Inv, LinkInv
    <2>3. CASE WalkReady \/ WalkWake
      BY <2>1, <2>3 DEF WalkReady, WalkWake, Return, Inv, TypeOK
    <2>4. CASE UNCHANGED walk
      BY <2>4
    <2>5. QED
      BY <2>2, <2>3, <2>4
      DEF Next, Handler, HandlerLoops, TaskCode, AddTask, BootTask, LocalTask, BeginTask, Start, Tick, PendSV,
          CreateTask, Refused, SearchPlace, LinkNew, LinkPrev, LinkPlace, Publish, Unblock,
          DelayTime, DelayState, Yield, Exit, KernelFault, UserFault, EnterLock, LeaveLock,
          FaultRefused, corevars, vars
  <1>2. QED
    BY Invariance, <1>1, PTL DEF Spec, SwitchTarget

\* The task that has the core was stamped when it was switched in, and a task that is
\* about to wait has stored its block_time.
StampInv ==
    /\ current # NULL => last[current] # Garbage
    /\ \A t \in Tasks : pc[t] \in {"delay", "refused"} => block[t] # Garbage
    /\ DelayStamped

\* The end of a walk leaves the stamp of every stamped task, and stamps the task it
\* switches to.
LEMMA ReturnStamps ==
    ASSUME TypeOK, current # NULL => last[current] # Garbage,
           NEW t \in Tasks, NEW c \in {current, NULL}, Return(t, c)
    PROVE  /\ current' = t
           /\ last'[t] # Garbage
           /\ \A u \in Tasks : last[u] # Garbage => last'[u] # Garbage
  <1>1. timer # Garbage
    BY TimerAssumption DEF TypeOK, Times, Garbage
  <1>2. QED
    BY <1>1, PoolAssumption DEF TypeOK, Return, Write, TaskOrNull

\* Stamps and block times are preserved by every step.
LEMMA StampStep == Inv /\ StampInv /\ [Next]_vars => StampInv'
  <1> SUFFICES ASSUME Inv, StampInv, [Next]_vars PROVE StampInv'
    OBVIOUS
  <1> USE PoolAssumption DEF Inv, TypeOK, StampInv, DelayStamped, TaskOrNull, taskvars, corevars
  <1>1. ASSUME NEW n \in Tasks, NEW c \in TaskOrNull, NEW w \in Way, BeginTask(n, c, w)
        PROVE StampInv'
    BY <1>1 DEF BeginTask, Write
  <1>2. ASSUME NEW n \in Tasks, AddTask(n) PROVE StampInv'
    <2>1. CASE CreateTask(n)
      BY <2>1 DEF CreateTask
    <2>2. CASE Refused(n)
      <3>1. PICK d \in Delays : block' = [block EXCEPT ![add[n].by] = d]
        BY <2>2 DEF Refused
      <3>2. d # Garbage
        BY TimerAssumption DEF Times, Garbage
      <3>3. QED
        BY <2>2, <3>1, <3>2 DEF Refused
    <2>3. CASE ~CreateTask(n) /\ ~Refused(n)
      <3>1. \A t \in Tasks : pc'[t] = pc[t] \/ pc'[t] = "run"
        BY <1>2, <2>3 DEF AddTask, SearchPlace, LinkNew, LinkPrev, LinkPlace, Publish, Unblock, Write
      <3>2. UNCHANGED <<state, last, block, current>>
        BY <1>2, <2>3 DEF AddTask, SearchPlace, LinkNew, LinkPrev, LinkPlace, Publish, Unblock
      <3>3. QED
        BY <3>1, <3>2
    <2>4. QED
      BY <2>1, <2>2, <2>3
  <1>3. ASSUME NEW t \in Tasks, TaskCode(t) PROVE StampInv'
    <2>1. CASE DelayTime(t)
      <3>1. PICK d \in Delays : block' = [block EXCEPT ![t] = d]
        BY <2>1 DEF DelayTime
      <3>2. d # Garbage
        BY TimerAssumption DEF Times, Garbage
      <3>3. QED
        BY <2>1, <3>1, <3>2 DEF DelayTime
    <2>2. CASE DelayState(t)
      BY <2>2 DEF DelayState, Running
    <2>3. CASE Yield(t)
      BY <2>3 DEF Yield
    <2>4. CASE Exit(t)
      BY <2>4 DEF Exit
    <2>5. CASE KernelFault(t)
      BY <2>5 DEF KernelFault
    <2>6. CASE UserFault(t)
      BY <2>6 DEF UserFault
    <2>7. CASE EnterLock(t) \/ LeaveLock(t) \/ FaultRefused(t)
      BY <2>7 DEF EnterLock, LeaveLock, FaultRefused
    <2>8. QED
      BY <1>3, <2>1, <2>2, <2>3, <2>4, <2>5, <2>6, <2>7 DEF TaskCode
  <1>4. CASE Start \/ Tick \/ PendSV
    BY <1>4 DEF Start, Tick, PendSV
  <1>5. ASSUME NEW c \in {current, NULL}, walk # NULL, Advance(c) PROVE
              /\ current' # NULL => last'[current'] # Garbage
              /\ \A u \in Tasks : last[u] # Garbage => last'[u] # Garbage
    <2>1. CASE nxt[walk] = NULL
      BY <1>5, <2>1, ReturnStamps DEF Advance
    <2>2. CASE nxt[walk] # NULL
      BY <1>5, <2>2 DEF Advance
    <2>3. QED
      BY <2>1, <2>2
  <1>6. CASE WalkDead
    <2>1. PICK c \in {current, NULL} : Advance(c)
      BY <1>6 DEF WalkDead
    <2>2. QED
      BY <1>5, <1>6, <2>1 DEF WalkDead
  <1>7. CASE WalkPast
    BY <1>5, <1>7 DEF WalkPast
  <1>8. CASE WalkReady
    <2>1. Return(walk, current) /\ walk \in Tasks
      BY <1>8 DEF WalkReady
    <2>2. QED
      BY <1>8, <2>1, ReturnStamps DEF WalkReady
  <1>9. CASE WalkWake
    <2>1. Return(walk, current) /\ walk \in Tasks
      BY <1>9 DEF WalkWake
    <2>2. QED
      BY <1>9, <2>1, ReturnStamps DEF WalkWake
  <1>10. CASE UNCHANGED vars
    BY <1>10 DEF vars
  <1>11. ASSUME NEW n \in Tasks, BootTask(n) PROVE StampInv'
    BY <1>1, <1>11 DEF BootTask, Way
  <1>12. ASSUME NEW c \in Tasks, NEW n \in Tasks, LocalTask(c, n) PROVE StampInv'
    BY <1>1, <1>12 DEF LocalTask
  <1> HIDE DEF StampInv
  <1>13. QED
    BY <1>2, <1>3, <1>4, <1>6, <1>7, <1>8, <1>9, <1>10, <1>11, <1>12 DEF Next, Handler, HandlerLoops

\* The walk computes no expiry from an unset last_scheduler_time or block_time, which
\* kmalloc leaves with whatever the memory held: a task that waits has been switched in
\* and has stored its delay.
THEOREM DelaysAreStamped == Spec => []DelayStamped
  <1>1. Init => StampInv
    BY DEF Init, StampInv, DelayStamped
  <1>2. Inv /\ StampInv /\ [Next]_vars => StampInv'
    BY StampStep
  <1>3. StampInv => DelayStamped
    BY DEF StampInv
  <1>4. QED
    BY Invariance, <1>1, <1>2, <1>3, PTL DEF Spec
=============================================================================
