-------------------------------- MODULE Sched --------------------------------
(***************************************************************************)
(* One core's preemptive scheduler: the task pool of lib/Preemptive.c, the *)
(* PendSV walk over it (kernel/sched/sched.c, Scheduler_Task), the delays  *)
(* of kernel/sched/ctrl.c, the task life cycle of task.c/taskmanager.c and *)
(* the two fault paths.  Every loop iteration of the walk and every store  *)
(* of an insertion is a step, so that PendSV can preempt the running task     *)
(* anywhere inside it.  Tasks of a core are created by boot and by tasks   *)
(* of the same core (every kthread and application runs on core 0).        *)
(*                                                                         *)
(* Messages and the creation of a task take spin locks: printk_spinlock,   *)
(* the heap's and Task_List_lock.  A spin lock refuses a caller while some *)
(* task stands between its two stores, the flag and the owner (SpinLock);  *)
(* one such window stands for those of the three locks here.  A refused    *)
(* caller delays and tries again, which is no help when its scheduler is   *)
(* blocked (kthread_run) or when it is an exception handler.               *)
(*                                                                         *)
(* A store through a NULL pointer lands in the boot ROM at address 0 and   *)
(* changes nothing (Write below): the pool code does it on every insertion *)
(* before the head.                                                        *)
(***************************************************************************)
EXTENDS Integers, FiniteSets

CONSTANTS
    Tasks,      \* the tasks that can ever be registered with this core
    Default,    \* system_default_task, created first, an endless loop
    NULL,       \* the NULL task pointer
    Prio,       \* task -> priority handed to task_run (0 already replaced by 8)
    Delays,     \* the arguments __delay is called with
    TimerMod,   \* number of values of scheduler_timer: 2^32 in the build
    Ways,       \* who creates tasks after boot: see Way
    Mortal,     \* the tasks whose entry function returns
    Faulty      \* the tasks that may take a fault

Way == {"kthread", "task_run"}
Times == 0 .. TimerMod - 1
TaskOrNull == Tasks \cup {NULL}

ASSUME PoolAssumption ==
    /\ Default \in Tasks
    /\ NULL \notin Tasks
    /\ Prio \in [Tasks -> Nat]
    /\ \A t \in Tasks : Prio[Default] <= Prio[t]
    /\ Ways \subseteq Way

ASSUME TimerAssumption ==
    /\ TimerMod \in Nat \ {0}
    /\ Delays \subseteq Times

\* default_task is while(1) around a counter: it neither returns nor faults.
ASSUME DefaultAssumption ==
    /\ Mortal \subseteq Tasks \ {Default}
    /\ Faulty \subseteq Tasks \ {Default}

VARIABLES
    state,    \* task_struct.state; "none": not created yet
    nxt, prv, \* task_struct.next and .priv, the pool's links
    last,     \* task_struct.last_scheduler_time; Garbage: never stamped
    block,    \* task_struct.block_time; Garbage: never set
    tlist,    \* which TaskManager list holds the task: Task_List or Death_task_List
    head,     \* task_pool_Preemptive.task_head
    current,  \* scheduler.current_task
    timer,    \* scheduler.scheduler_timer
    s_flag,   \* scheduler.s_flag
    started,  \* both cores have passed scheduler_start(): i_sched may pend
    pendsv,   \* PendSV is pended on this core
    walk,     \* search_task of the PendSV walk in progress, or NULL
    pc,       \* where each task's own code stands; "window": it is between the
              \* two stores of _spin_lock; "fault": its fault handler is refused
    add       \* the insertion of each task: its step, creator, way and place

taskvars == <<state, nxt, prv, last, block, tlist>>
corevars == <<head, current, timer, s_flag, started, pendsv, walk>>
vars == <<taskvars, corevars, pc, add>>

Garbage == -1
TaskState == {"none", "READY", "WAITING", "DEAD", "BROKEN"}
AddStep == {"none", "take", "search", "link", "prev", "place", "publish", "unblock", "done"}
NoAdd == [step |-> "none", by |-> NULL, way |-> "task_run", place |-> NULL]

TypeOK ==
    /\ state \in [Tasks -> TaskState]
    /\ nxt \in [Tasks -> TaskOrNull]
    /\ prv \in [Tasks -> TaskOrNull]
    /\ last \in [Tasks -> Times \cup {Garbage}]
    /\ block \in [Tasks -> Times \cup {Garbage}]
    /\ tlist \in [Tasks -> {"none", "alive", "death"}]
    /\ head \in TaskOrNull
    /\ current \in TaskOrNull
    /\ timer \in Times
    /\ s_flag \in {"BLOCKED", "RUN"}
    /\ started \in BOOLEAN
    /\ pendsv \in BOOLEAN
    /\ walk \in TaskOrNull
    /\ pc \in [Tasks -> {"run", "window", "create", "refused", "retry", "delay", "yield",
                         "exit", "returned", "fault"}]
    /\ add \in [Tasks -> [step : AddStep, by : TaskOrNull, way : Way, place : TaskOrNull]]

Init ==
    /\ state = [t \in Tasks |-> "none"]
    /\ nxt = [t \in Tasks |-> NULL]
    /\ prv = [t \in Tasks |-> NULL]
    /\ last = [t \in Tasks |-> Garbage]
    /\ block = [t \in Tasks |-> Garbage]
    /\ tlist = [t \in Tasks |-> "none"]
    /\ head = NULL
    /\ current = NULL
    /\ timer = 0
    /\ s_flag = "BLOCKED"
    /\ started = FALSE
    /\ pendsv = FALSE
    /\ walk = NULL
    /\ pc = [t \in Tasks |-> "run"]
    /\ add = [t \in Tasks |-> NoAdd]

-----------------------------------------------------------------------------
\* A store to a field of *p: nothing changes when p is NULL.
Write(field, p, v) == IF p = NULL THEN field ELSE [field EXCEPT ![p] = v]

Creating == {n \in Tasks : add[n].step \notin {"none", "done"}}

\* The core executes t's own code: no PendSV pending or in progress.
Running(t) == started /\ current = t /\ ~pendsv /\ walk = NULL

\* The tasks preempted between the two stores of a _spin_lock: every other caller,
\* the handlers included, is refused until they have run on.
InWindow == {t \in Tasks : pc[t] = "window"}

\* current_task's fault handler is in the loop of _spin_lock.  Handlers rank above
\* PendSV: the core never leaves it.
FaultStuck == current # NULL /\ pc[current] = "fault"

-----------------------------------------------------------------------------
(* Creating a task: kthread_run, task_run, __new_task_create, __save_Task  *)
(* and add_task_to_task_pool, one action per store to shared memory.       *)

\* The creator's code can execute: boot before the start, then the running task.
CanCreate(n) ==
    IF add[n].by = NULL THEN ~started ELSE Running(add[n].by) /\ pc[add[n].by] = "create"

\* kthread_run blocks the calling core's scheduler and calls task_run.
BeginTask(n, c, w) ==
    /\ add[n].step = "none"
    /\ s_flag' = IF w = "kthread" THEN "BLOCKED" ELSE s_flag
    /\ add' = [add EXCEPT ![n] = [step |-> "take", by |-> c, way |-> w, place |-> NULL]]
    /\ pc' = Write(pc, c, "create")
    /\ UNCHANGED <<taskvars, head, current, timer, started, pendsv, walk>>

\* Boot: sched_init creates the default task, the later initcalls kernel threads.
BootTask(n) ==
    /\ ~started
    /\ Creating = {}
    /\ IF n = Default THEN BeginTask(n, NULL, "task_run")
       ELSE add[Default].step = "done" /\ BeginTask(n, NULL, "kthread")

\* The running task c creates n with kthread_run, or with task_run (the loader).
LocalTask(c, n) ==
    /\ Running(c)
    /\ c # Default
    /\ pc[c] = "run"
    /\ \E w \in Ways : BeginTask(n, c, w)

\* __new_task_create, __save_Task and task_reset: n is READY, on Task_List, not
\* in the pool.  kmalloc, __save_Task and __List_All_Tasks have had their locks.
CreateTask(n) ==
    /\ add[n].step = "take"
    /\ CanCreate(n)
    /\ InWindow = {}
    /\ state' = [state EXCEPT ![n] = "READY"]
    /\ tlist' = [tlist EXCEPT ![n] = "alive"]
    /\ add' = [add EXCEPT ![n] = [@ EXCEPT !.step = "search", !.place = head]]
    /\ UNCHANGED <<nxt, prv, last, block, corevars, pc>>

\* One of those locks refuses the creator: __delay, then the next attempt.
Refused(n) ==
    /\ add[n].step = "take"
    /\ add[n].by # NULL
    /\ CanCreate(n)
    /\ InWindow # {}
    /\ \E d \in Delays : block' = [block EXCEPT ![add[n].by] = d]
    /\ pc' = [pc EXCEPT ![add[n].by] = "refused"]
    /\ UNCHANGED <<state, nxt, prv, last, tlist, corevars, add>>

\* Slip: equal priorities are passed over as well (< for <=).
SearchPlace_Strict(n) ==
    /\ add[n].step = "search"
    /\ CanCreate(n)
    /\ LET p == add[n].place IN
        \/ /\ head = NULL
           /\ head' = n
           /\ add' = [add EXCEPT ![n].step = "publish"]
        \/ /\ p # NULL
           /\ Prio[p] < Prio[n]
           /\ add' = [add EXCEPT ![n].step = "link"]
           /\ UNCHANGED head
        \/ /\ p # NULL
           /\ Prio[p] >= Prio[n]
           /\ add' = [add EXCEPT ![n].place = nxt[p]]
           /\ UNCHANGED head
    /\ UNCHANGED <<taskvars, current, timer, s_flag, started, pendsv, walk, pc>>

\* get_task_by_priority: the first task whose priority is not above n's.
SearchPlace(n) ==
    /\ add[n].step = "search"
    /\ CanCreate(n)
    /\ LET p == add[n].place IN
        \/ /\ head = NULL                 \* empty pool: n is the head
           /\ head' = n
           /\ add' = [add EXCEPT ![n].step = "publish"]
        \/ /\ p # NULL
           /\ Prio[p] <= Prio[n]
           /\ add' = [add EXCEPT ![n].step = "link"]
           /\ UNCHANGED head
        \/ /\ p # NULL
           /\ Prio[p] > Prio[n]
           /\ add' = [add EXCEPT ![n].place = nxt[p]]
           /\ UNCHANGED head
    /\ UNCHANGED <<taskvars, current, timer, s_flag, started, pendsv, walk, pc>>

\* add_a_task_node: new->next = task; new->priv = task->priv.
LinkNew(n) ==
    /\ add[n].step = "link"
    /\ CanCreate(n)
    /\ nxt' = [nxt EXCEPT ![n] = add[n].place]
    /\ prv' = [prv EXCEPT ![n] = prv[add[n].place]]
    /\ add' = [add EXCEPT ![n].step = "prev"]
    /\ UNCHANGED <<state, last, block, tlist, corevars, pc>>

\* add_a_task_node: task->priv->next = new, through NULL when task is the head.
LinkPrev(n) ==
    /\ add[n].step = "prev"
    /\ CanCreate(n)
    /\ nxt' = Write(nxt, prv[add[n].place], n)
    /\ add' = [add EXCEPT ![n].step = "place"]
    /\ UNCHANGED <<state, prv, last, block, tlist, corevars, pc>>

\* add_a_task_node: task->priv = new.
LinkPlace(n) ==
    /\ add[n].step = "place"
    /\ CanCreate(n)
    /\ prv' = [prv EXCEPT ![add[n].place] = n]
    /\ add' = [add EXCEPT ![n].step = "publish"]
    /\ UNCHANGED <<state, nxt, last, block, tlist, corevars, pc>>

\* add_task_to_task_pool: if(head->priv != NULL) head = head->priv.
Publish(n) ==
    /\ add[n].step = "publish"
    /\ CanCreate(n)
    /\ head' = IF prv[head] # NULL THEN prv[head] ELSE head
    /\ add' = [add EXCEPT ![n].step = IF add[n].way = "kthread" THEN "unblock" ELSE "done"]
    /\ pc' = IF add[n].way = "kthread" THEN pc ELSE Write(pc, add[n].by, "run")
    /\ UNCHANGED <<taskvars, current, timer, s_flag, started, pendsv, walk>>

\* kthread_run: run_scheduler(NULL) after task_run has returned.
Unblock(n) ==
    /\ add[n].step = "unblock"
    /\ CanCreate(n)
    /\ s_flag' = "RUN"
    /\ add' = [add EXCEPT ![n].step = "done"]
    /\ pc' = Write(pc, add[n].by, "run")
    /\ UNCHANGED <<taskvars, head, current, timer, started, pendsv, walk>>

AddTask(n) ==
    \/ CreateTask(n) \/ Refused(n)
    \/ SearchPlace(n) \/ LinkNew(n) \/ LinkPrev(n)
    \/ LinkPlace(n) \/ Publish(n) \/ Unblock(n)

-----------------------------------------------------------------------------
(* The core: start, tick, and the PendSV handler.                          *)

\* current_sched_start() here, and scheduler_start() done by both cores.
Start ==
    /\ ~started
    /\ Creating = {}
    /\ add[Default].step = "done"
    /\ s_flag' = "RUN"
    /\ started' = TRUE
    /\ UNCHANGED <<taskvars, head, current, timer, pendsv, walk, pc, add>>

\* sys_tick_hander -> call_mulit_core_scheduler -> i_sched: pends PendSV, also
\* while a PendSV is being handled.
Tick ==
    /\ started
    /\ s_flag = "RUN"
    /\ ~pendsv
    /\ pendsv' = TRUE
    /\ UNCHANGED <<taskvars, head, current, timer, s_flag, started, walk, pc, add>>

\* Slips: the timer is not reduced, is not advanced, the walk starts at the
\* current task as in a round robin; a blocked scheduler schedules all the same.
PendSV_With(tick, first) ==
    /\ pendsv
    /\ walk = NULL
    /\ ~FaultStuck
    /\ pendsv' = FALSE
    /\ IF s_flag = "BLOCKED" THEN UNCHANGED <<timer, walk>>
       ELSE timer' = tick /\ walk' = first
    /\ UNCHANGED <<taskvars, head, current, s_flag, started, pc, add>>
PendSV_NoWrap == PendSV_With(timer + 1, head)
PendSV_NoTick == PendSV_With(timer, head)
PendSV_FromCurrent ==
    PendSV_With((timer + 1) % TimerMod, IF current = NULL THEN head ELSE current)

PendSV_NoFlag ==
    /\ pendsv
    /\ walk = NULL
    /\ ~FaultStuck
    /\ pendsv' = FALSE
    /\ timer' = (timer + 1) % TimerMod
    /\ walk' = head
    /\ UNCHANGED <<taskvars, head, current, s_flag, started, pc, add>>

\* Scheduler_Task returns at once when the scheduler is blocked; otherwise
\* Preemptive_scheduling advances the timer and the walk begins at the head.
PendSV ==
    /\ pendsv
    /\ walk = NULL
    /\ ~FaultStuck
    /\ pendsv' = FALSE
    /\ IF s_flag = "BLOCKED" THEN UNCHANGED <<timer, walk>>
       ELSE timer' = (timer + 1) % TimerMod /\ walk' = head
    /\ UNCHANGED <<taskvars, head, current, s_flag, started, pc, add>>

\* Slip: only the task switched out is stamped.
Return_HalfStamp(t, cur) ==
    /\ last' = IF t = cur THEN last ELSE Write(last, cur, timer)
    /\ current' = t
    /\ walk' = NULL

\* The walk returns t: Preemptive_scheduling stamps both sides of a switch.
\* cur is current_task as the walk has left it.
Return(t, cur) ==
    /\ last' = IF t = cur THEN last ELSE Write([last EXCEPT ![t] = timer], cur, timer)
    /\ current' = t
    /\ walk' = NULL

\* The walk goes on to the next task, or returns this one if it is the last.
Advance(cur) ==
    IF nxt[walk] = NULL THEN Return(walk, cur)
    ELSE walk' = nxt[walk] /\ current' = cur /\ UNCHANGED last

\* Slip: the successor keeps its priv.
Unlink_OneSided(t) ==
    /\ nxt' = Write(nxt, prv[t], nxt[t])
    /\ UNCHANGED prv

\* remove_task_from_pool; the last task of the pool is never removed.
Unlink(t) ==
    /\ nxt' = Write(nxt, prv[t], nxt[t])
    /\ prv' = Write(prv, nxt[t], prv[t])
OnlyTask(t) == head = t /\ nxt[t] = NULL
\* Slips: the head is not moved; the node is not taken out at all.
Remove_KeepHead(t) ==
    IF OnlyTask(t) THEN UNCHANGED <<head, nxt, prv>>
    ELSE Unlink(t) /\ UNCHANGED head
Remove_Not(t) == UNCHANGED <<head, nxt, prv>>
Remove(t) ==
    IF OnlyTask(t) THEN UNCHANGED <<head, nxt, prv>>
    ELSE head' = (IF head = t THEN nxt[t] ELSE head) /\ Unlink(t)

\* Slip: current_task is not cleared.
WalkDead_KeepCurrent ==
    /\ walk # NULL
    /\ state[walk] = "DEAD"
    /\ InWindow = {}
    /\ Remove(walk)
    /\ tlist' = [tlist EXCEPT ![walk] = "death"]
    /\ Advance(current)
    /\ UNCHANGED <<state, block, timer, s_flag, started, pendsv, pc, add>>

\* get_useful_task meets a DEAD task: removes it, moves it to the death list.
\* remove_task_from_pool prints first and __Kill_Task takes Task_List_lock.
WalkDead ==
    /\ walk # NULL
    /\ state[walk] = "DEAD"
    /\ InWindow = {}
    /\ Remove(walk)
    /\ tlist' = [tlist EXCEPT ![walk] = "death"]
    /\ Advance(IF current = walk /\ ~OnlyTask(walk) THEN NULL ELSE current)
    /\ UNCHANGED <<state, block, timer, s_flag, started, pendsv, pc, add>>

Expired(t) == (last[t] + block[t]) % TimerMod < timer

WalkReady ==
    /\ walk # NULL
    /\ state[walk] = "READY"
    /\ Return(walk, current)
    /\ UNCHANGED <<state, nxt, prv, block, tlist, head, timer, s_flag, started, pendsv, pc, add>>

\* Slip: the woken task is returned but keeps its state.
WalkWake_StillWaiting ==
    /\ walk # NULL
    /\ state[walk] = "WAITING"
    /\ Expired(walk)
    /\ Return(walk, current)
    /\ UNCHANGED <<state, nxt, prv, block, tlist, head, timer, s_flag, started, pendsv, pc, add>>

WalkWake ==
    /\ walk # NULL
    /\ state[walk] = "WAITING"
    /\ Expired(walk)
    /\ state' = [state EXCEPT ![walk] = "READY"]
    /\ Return(walk, current)
    /\ UNCHANGED <<nxt, prv, block, tlist, head, timer, s_flag, started, pendsv, pc, add>>

\* A task that cannot run: still waiting, or broken.
WalkPast ==
    /\ walk # NULL
    /\ \/ state[walk] = "WAITING" /\ ~Expired(walk)
       \/ state[walk] = "BROKEN"
    /\ Advance(current)
    /\ UNCHANGED <<state, nxt, prv, block, tlist, head, timer, s_flag, started, pendsv, pc, add>>

\* The first printk of the walk, or of a fault handler, is refused: _spin_lock
\* loops in the handler, where its __delay lets no task run, so that nothing
\* releases the lock.  What that __delay stores in current_task no longer matters.
HandlerLoops ==
    /\ \/ walk # NULL /\ state[walk] = "DEAD" /\ InWindow # {}
       \/ FaultStuck
    /\ UNCHANGED vars

-----------------------------------------------------------------------------
(* The running task's own code.                                            *)

\* Two steps of the task's _spin_lock calls, PendSV possible in between: the flag is
\* stored, then the owner.
EnterLock(t) ==
    /\ Running(t)
    /\ pc[t] = "run"
    /\ InWindow = {}
    /\ pc' = [pc EXCEPT ![t] = "window"]
    /\ UNCHANGED <<taskvars, corevars, add>>

LeaveLock(t) ==
    /\ Running(t)
    /\ pc[t] = "window"
    /\ pc' = [pc EXCEPT ![t] = "run"]
    /\ UNCHANGED <<taskvars, corevars, add>>

\* __delay: block_time, then state, then the SVC that pends PendSV.  A refusal by a
\* spin lock ends here too, default_task's printk included.
DelayTime(t) ==
    /\ Running(t)
    /\ pc[t] = "run"
    /\ \E d \in Delays : block' = [block EXCEPT ![t] = d]
    /\ pc' = [pc EXCEPT ![t] = "delay"]
    /\ UNCHANGED <<state, nxt, prv, last, tlist, corevars, add>>

DelayState(t) ==
    /\ Running(t)
    /\ pc[t] \in {"delay", "refused"}
    /\ state' = [state EXCEPT ![t] = "WAITING"]
    /\ pc' = [pc EXCEPT ![t] = IF pc[t] = "delay" THEN "yield" ELSE "retry"]
    /\ UNCHANGED <<nxt, prv, last, block, tlist, corevars, add>>

\* sched(): system call 158 -> i_sched, which pends PendSV whatever s_flag is.  It
\* returns when t has the core after PendSV: at once with the scheduler blocked.
Yield(t) ==
    /\ Running(t)
    /\ pc[t] \in {"yield", "retry", "exit"}
    /\ pendsv' = TRUE
    /\ pc' = [pc EXCEPT ![t] = CASE @ = "yield" -> "run"
                                [] @ = "retry" -> "create"
                                [] @ = "exit" -> "returned"]
    /\ UNCHANGED <<taskvars, head, current, timer, s_flag, started, walk, add>>

\* The entry function returns into __default_Task_return_function, whose loop
\* sets DEAD again should the task ever be switched in once more.
Exit(t) ==
    /\ Running(t)
    /\ t \in Mortal
    /\ pc[t] \in {"run", "returned"}
    /\ state' = [state EXCEPT ![t] = "DEAD"]
    /\ pc' = [pc EXCEPT ![t] = "exit"]
    /\ UNCHANGED <<nxt, prv, last, block, tlist, corevars, add>>

\* HardFault_Handler -> __kernel_error_process: the task leaves the pool.
KernelFault(t) ==
    /\ Running(t)
    /\ t \in Faulty
    /\ pc[t] = "run"
    /\ InWindow = {}
    /\ state' = [state EXCEPT ![t] = "BROKEN"]
    /\ Remove(t)
    /\ current' = NULL
    /\ tlist' = [tlist EXCEPT ![t] = "death"]
    /\ pendsv' = TRUE
    /\ UNCHANGED <<last, block, timer, s_flag, started, walk, pc, add>>

\* UsageFault_Handler -> __user_error_process: the task stays in the pool.
UserFault(t) ==
    /\ Running(t)
    /\ t \in Faulty
    /\ pc[t] = "run"
    /\ InWindow = {}
    /\ state' = [state EXCEPT ![t] = "BROKEN"]
    /\ pendsv' = TRUE
    /\ UNCHANGED <<nxt, prv, last, block, tlist, head, current, timer, s_flag, started, walk, pc, add>>

\* Both handlers print before anything else; here the lock refuses them.
FaultRefused(t) ==
    /\ Running(t)
    /\ t \in Faulty
    /\ pc[t] = "run"
    /\ InWindow # {}
    /\ pc' = [pc EXCEPT ![t] = "fault"]
    /\ UNCHANGED <<taskvars, corevars, add>>

-----------------------------------------------------------------------------
TaskCode(t) ==
    \/ EnterLock(t) \/ LeaveLock(t)
    \/ DelayTime(t) \/ DelayState(t) \/ Yield(t)
    \/ Exit(t) \/ KernelFault(t) \/ UserFault(t) \/ FaultRefused(t)

Handler == PendSV \/ WalkDead \/ WalkReady \/ WalkWake \/ WalkPast

Next ==
    \/ Start \/ Tick \/ Handler \/ HandlerLoops
    \/ \E t \in Tasks : BootTask(t) \/ AddTask(t) \/ TaskCode(t)
    \/ \E c, n \in Tasks : LocalTask(c, n)

Spec == Init /\ [][Next]_vars

\* Ticks keep coming, the handler runs to its end unless a lock refuses it, and a tick
\* period is long enough for the running task to get on with a creation or a delay that
\* it has begun.  Nothing is assumed of a task that does not have the core: in particular
\* a task in its window may never run on.
Fairness ==
    /\ WF_vars(Start)
    /\ WF_vars(Tick)
    /\ WF_vars(Handler)
    /\ \A t \in Tasks : SF_vars(AddTask(t) \/ DelayState(t) \/ Yield(t))

FairSpec == Spec /\ Fairness

-----------------------------------------------------------------------------
(* Properties.                                                             *)

\* The i-th task of the pool, counted from the head; NULL past the end.
PoolNode[i \in 0 .. Cardinality(Tasks)] ==
    IF i = 0 THEN head
    ELSE IF PoolNode[i - 1] = NULL THEN NULL ELSE nxt[PoolNode[i - 1]]

InPool == {PoolNode[i] : i \in 0 .. Cardinality(Tasks)} \ {NULL}

\* Registered and neither reaped nor thrown out by a fault.
Registered == {t \in Tasks : add[t].step \in {"unblock", "done"} /\ tlist[t] = "alive"}

\* No insertion is between its first and its last store.
Quiet == \A n \in Tasks : add[n].step \in {"none", "take", "search", "unblock", "done"}

\* The list PendSV walks holds exactly the registered tasks, none lost and no
\* removed one still linked (Preemptive.c, add_task_to_task_pool and
\* remove_task_from_pool).
PoolComplete == Quiet => InPool = Registered

\* Priorities never increase along the pool and priv inverts next, so that
\* the first task able to run is one of the highest priority
\* (Preemptive.c, get_task_by_priority and add_a_task_node).
PoolOrdered ==
    Quiet => \A t \in InPool :
                /\ nxt[t] # NULL => prv[nxt[t]] = t /\ Prio[t] >= Prio[nxt[t]]
                /\ t = head => prv[t] = NULL

\* get_task_by_priority follows no NULL next: its NULL test comes after the
\* dereference, so the search must meet a task it may stop at.
PlaceFound == \A n \in Tasks : add[n].step = "search" /\ head # NULL => add[n].place # NULL

\* A walk that ends hands the core to a READY task; only when no task is
\* READY does it fall back on default_task, whatever that one's state
\* (Preemptive.c, the break at the end of the list).
SwitchTarget ==
    [][walk # NULL /\ walk' = NULL =>
        current' = Default \/ state'[current'] = "READY"]_vars

\* ... and no task of a higher priority was able to run at that moment.
HighestPriorityRuns ==
    [][walk # NULL /\ walk' = NULL =>
        \A t \in InPool : Prio[t] > Prio[current'] =>
            /\ state[t] # "READY"
            /\ state[t] = "WAITING" => ~Expired(t)]_vars

\* A task moved to the death list is never the core's task again
\* (taskmanager.c, __Kill_Task; sched.c, __kernel_error_process).
ReapedNeverRuns == current # NULL => tlist[current] # "death"

\* The walk meets a dead task once: __Kill_Task's list_del is never repeated on
\* a node that already sits on Death_task_List.
ReapedOnce == walk # NULL /\ state[walk] = "DEAD" => tlist[walk] = "alive"

\* last_scheduler_time and block_time come from kmalloc unset: no expiry is ever
\* computed from them before a switch and a __delay have written them.
DelayStamped ==
    \A t \in Tasks : state[t] = "WAITING" => last[t] # Garbage /\ block[t] # Garbage

\* The core has stopped for good: someone in kthread_run, the walk or a fault handler
\* waits for a lock whose window only a task that cannot have the core would close.
Hung ==
    \/ started /\ s_flag = "BLOCKED" /\ InWindow # {}
    \/ walk # NULL /\ state[walk] = "DEAD" /\ InWindow # {}
    \/ FaultStuck

\* A delayed task that no other can outrank wakes up, unless its wake-up time
\* is the very last value of the timer, which no timer value exceeds, or the core
\* hangs on a spin lock (HangIsForever).
TopDelayEnds ==
    \A t \in Tasks :
        (\A u \in Tasks \ {t} : Prio[u] < Prio[t]) =>
            (state[t] = "WAITING" /\ current # t /\ (last[t] + block[t]) % TimerMod # TimerMod - 1)
                ~> state[t] # "WAITING" \/ Hung

\* A hang does not pass, so that it is no excuse for the delays of TopDelayEnds: a refused
\* creator stays between kthread_run's block_scheduler and run_scheduler, PendSV returns
\* at once, and the tasks in windows never have the core (kthread.h; sched.c, Scheduler_Task).
HangIsForever == [][Hung => Hung']_vars
=============================================================================
