# TLA+ models of McLinOS

McLinOS is a small Linux-flavoured kernel for ARM Cortex-M boards (RP2350,
STM32F4): a preemptive scheduler, a spin lock, kernel heaps, interrupt and
system call dispatch, a VFS with several in-memory file systems, a block layer
and a loader for user programs. This directory holds TLA+ models of its core,
TLC configurations that check them on small instances, and proofs for TLAPS.

Run everything from this directory:

    tlc -workers 2 -config MCSched_pool.cfg MCSched
    tlapm SchedProofs.tla

## 1. Inventory

For each part: its state, its operations, whom it interacts with, what is hard
about it, and what makes it correct.

**Preemptive scheduler and task pool** (`lib/Preemptive.c`, `kernel/sched/*.c`,
`include/linux/kthread.h`, `arch/arm_m/kernel/sched/*`). State: per core a
`scheduler` (timer, current task, a BLOCKED/RUN flag) and a pool, a doubly linked
list of `task_struct` in order of priority; globally the lists `Task_List` and
`Death_task_List`. Operations: `kthread_run`, `task_run`, the tick, PendSV
(`Scheduler_Task`, which walks the pool), `__delay`, return of an entry function,
the two fault handlers. PendSV preempts a task anywhere, also while it inserts
into the pool. Correct when no task is lost from or left over in the list, the
walk ends at the best task able to run, no removed task runs again, delays end,
and blocking the scheduler is temporary.

**Spin lock** (`lib/lock/spinlock.c`, `spinlock_types.h`, `m33_spinlock.c`). State: one
word, a union of a flag and an owner pointer. Every other subsystem brackets its
shared state with it. Taking it is two stores with a window in between. Correct
when it excludes, when a late owner store never resurrects a released lock, and when
nobody waits for ever. The inventory of hazards says where each of the three fails: the
scheduler, the heaps, the queues and the handlers all take it.

**Kernel heaps** (`mempool_super_haper.h`, `kernel/mm/haper.c`). State: blocks laid end
to end, each with a header (`next`, `priv_block`, size, use flag). Operations: best
fit and first fit with splitting; release with merging. Called by every task through
`kmalloc`, `smalloc`, `__task_malloc`; the lock is the spin lock. Correct when the list
describes the arena exactly, memory handed out is nobody else's, and everything given
back is usable again.

**Pipes** (`fs/pipefs/pipefs.c`). State: a ring of 1024 bytes with `head`, `tail`, `size`
and a spin lock. Calls move one byte per lock acquisition and retry after
`__delay(1)`. Correct when no index leaves the array and the two sides never meet in a slot.

**Interrupt table and serial line** (`kernel/irq/irq.c`, `drivers/tty/stm32f4/stm32f4_tty0.c`). State: per
interrupt line a list of handlers; for the serial line a receive ring that the handler fills and
tasks empty, with interrupts masked on their side only. The handler may come between any two
instructions of a task that has not masked it. Correct when bytes come out in order, only the
oldest is lost and only when the ring is full, and no way out of a read leaves interrupts masked.

**System calls and descriptors** (`ipc/systemcall.c`, `lib/sys/sys_fs.c`). State: a global
table of 256 file pointers; a table of system calls. The calls run inside the SVC
handler, hence one at a time on a core. Correct when a descriptor names one open file, and a
full table or a failing driver loses nothing.

**VFS** (`fs/dcache.c`, `fs_inode.c`, `fs_file.c`, `vfs.c`, `mount.c`, with initramfs, devfs and
sysfs on top). State: a cache of dentries, inodes and dentries with reference counts, files, the
entries of the file system below. Half-finished lookups and creations have already changed the
cache. Correct when nothing referenced is freed, counts stay exact, and the cache agrees with
the file system.

**Block layer and flash driver** (`block/*.c`, `drivers/storage/w25qxx/`). State: a queue of requests,
a shared page buffer, the chip. Submitters run the queue's function themselves, so that
several tasks are inside the driver and serve each other's requests; the queue's spin lock does not keep
them apart, and the SPI bus has none. Correct when each
request is served once, no call returns with its request still queued, one task at a time talks to the
chip, a write puts its data where it belongs and changes nothing else.

**Character devices** (`fs/char_device.c`), **lockref and call queue locks**
(`lib/lockref.c`, `ipc/Synch_quest.c`), **loader** (`kernel/loader/`), **boot and second core**
(`init/main.c`, `rp2350_init.c`): see section 7.

The remaining parts (other drivers, console output, string and checksum helpers, libfdt, the
bootloader, user programs, templatefs, the round-robin pool that the configuration does
not build) are listed in `PROJECT.json` with the reason they are left out.

**Interaction.** The tick pends PendSV; PendSV switches tasks; `spin_lock` calls `__delay`,
which sets the caller WAITING and pends PendSV; the heaps, pipes, dentries and request
queues call `spin_lock`; `kthread_run` and the loader call the heap and then the pool.
The order of the modules follows this chain from the bottom.

## 2. Modules

| module | models | uses |
|---|---|---|
| `Sched` | scheduler, task pool, task life cycle of one core | |
| `SpinLock` | the spin lock | |
| `Pipe` | the ring of a pipefs node | composes `SpinLock` |
| `Allocator` | what a heap promises: ranges handed out do not overlap | |
| `Heap` | one haper2 heap | implements `Allocator` |
| `RequestQueue` | submission and service of block requests, store by store of the queue's links; the flash driver's request function, function by function of the chip | |
| `Vfs` | dentry cache, inode and file counts, initramfs entries, descriptors | |
| `DropFifo` | what a receive buffer promises: a queue that drops its oldest byte | |
| `Tty` | the serial line: interrupt table, handler, ring, readers | implements `DropFifo` |
| `MCSched`, `MCSpinLock`, `MCPipe`, `MCHeap`, `MCRequestQueue`, `MCVfs`, `MCTty` | values of constants | |
| `SchedProofs`, `SpinLockProofs`, `PipeProofs`, `HeapProofs`, `RequestQueueProofs`, `VfsProofs`, `TtyProofs` | theorems about the module they are named after | extend it |
| `SchedPoolProofs` | theorems about the task list when every task is created by `kthread_run` | extends `SchedProofs` |

Definitions marked *Slip* are small variants of the action they precede, with one mistake
built in (a dropped reset, a comparison the wrong way round). They are not part of any
specification. Each property is known to fail when its slip takes the action's place;
`PROJECT.json` pairs them under `mutants`.

### Sched

One core. `nxt`, `prv`, `state`, `last`, `block` are the fields of `task_struct`; `tlist` says which
TaskManager list a task is on; `head`, `current`, `timer`, `s_flag` are those of the pool and the
scheduler; `started` stands for both cores having passed `scheduler_start()`; `pendsv` is the
pending bit, `walk` the walk's `search_task`; `pc` and `add` say where a task's own code and an
insertion stand.

- `BootTask`, `LocalTask`: `kthread_run` or `task_run` is entered, the former with the scheduler
  BLOCKED. `CreateTask`: `__new_task_create` and `__save_Task` have had their spin locks. `Refused`: one of the locks has
  refused the creator, which calls `__delay` and tries again.
- `EnterLock`, `LeaveLock`: a task takes a spin lock on its own account and stands between the lock's two stores (`pc` =
  "window"), where it can be preempted. While any task stands there, other callers are refused.
- `SearchPlace`, `LinkNew`, `LinkPrev`, `LinkPlace`, `Publish`, `Unblock`:
  `add_task_to_task_pool` down to `add_a_task_node`, one action per store to shared memory and per
  round of the search.
- `Tick`, `PendSV`, `WalkDead`, `WalkReady`, `WalkWake`, `WalkPast`: the tick and `Scheduler_Task`, one
  action per task the walk looks at. A walk is in an exception handler: the tasks' code does
  not run meanwhile, but a tick may pend the next PendSV.
- `DelayTime`, `DelayState`, `Yield`: `__delay`, between whose two stores the task can be preempted.
- `Exit`, `KernelFault`, `UserFault`: the return trampoline and the two fault paths.
- `HandlerLoops`, `FaultRefused`: PendSV reaping a dead task and the fault handlers print and take spin locks in
  handler mode. Refused there, they go round in `_spin_lock` for good.

One window stands for those of the three locks that creating a task and printing take (`printk_spinlock`, the
heap's, `Task_List_lock`). Distinguishing them would only take refusals away: the creation takes all three. Windows that
open inside the creation itself are not separate steps: with the scheduler BLOCKED nobody else runs until they have
closed, and those of a `task_run` are like any other window of its creator, which `EnterLock` opens before it.

Facts of the target that the model keeps: `u64` is a 32-bit type here, so the timer is counted
modulo 2^32 (`TimerMod`); a wake-up time equal to the largest timer value is never exceeded
(excluded in `TopDelayEnds`, which says so); a store through NULL goes to the boot ROM and changes
nothing; a PendSV that finds the scheduler BLOCKED is consumed without a walk; the fields of
a `task_struct` come unset from the heap (`Garbage`); `default_task` may call `__delay` through the
spin lock of `printk`. The DEAD branch at `Preemptive.c:25` declares a second, uninitialised
`search_task`; in the build it is only compared with NULL and the walk goes on from the outer
variable (`build/Preemptive.lst`), which is what `WalkDead` does. All tasks created after boot are
created on core 0 by tasks of core 0, so that one core's pool is never changed by the other.

### SpinLock

`word` is the union, `at` the place of each caller in `_spin_lock`, `depth` its acquisitions not yet
undone. `Try` is `try_atomic_set_flag`, `Own` the owner store into the same word, `Test` the test for
the caller's own lock, `Delay` the `__delay(5)`, `Unlock` the store of 0. Before the scheduler
starts `get_current_task` is NULL and the owner store writes 0; the model starts after that.

### Pipe

`size`, `head`, `tail`, `buffer` are the ring's; a call goes through lock, load of its index, test, copy,
advance and unlock, each a step, because the lock does not keep the other side out. `pipefs_open` takes the
ring from `kmalloc` and sets none of its fields, so the model starts from any memory image (`Fresh`), the lock
word included. Division by zero yields 0 on this core, hence `Succ` with size 0. The callers of the model are
kernel tasks. A call that comes through `sys_read` runs inside the SVC handler, where `__delay` lets no other
task run: it takes the same steps with none of another task's in between, and nothing is claimed about its
being served.

### Heap

`mem` maps the addresses of headers to headers, `held` is what callers have and have not given
back, the other variables are the locals of a call. Each round of a search or of the merging
loop is a step, and so is each call that changes the list (`incise_free_block`, `set_block_status`,
`free_block`). There is no lock in the model: `SpinLock` shows that it does not exclude, and
`Callers` says who may be inside at once. One unit is a word of 4 bytes in the instances: the
header is 5 units, the minimum 2. A caller releases only what it was given; a second
release of one address is outside the model. `FreeElsewhere` is a release of another heap's
address, which `sfree` shows to every heap.

### RequestQueue

`nxt` and `prv` are the links of `icq_list` and of the requests, a request being named by its bio; `call` is the bio of
a task's own `submit_bio_wait`, `rq` the request its driver loop has taken, which may be another task's. `Submit`
builds the request, `EndRequest` is `blk_mq_end_request`, `EndIo` the bio's own callback.

`queue_lock` is not in the model. `SpinLock` shows that it keeps nobody out but for the two stores of its own
taking, so that the sections under it interleave like any other code: `AddLoad`, `AddPrev`, `AddOwn`, `AddNext` are the
load and the stores of `list_add_tail`, `Fetch`, `First`, `Back`, `Forth` the loads and stores of `blk_fetch_request` and
`list_del`. `met` records that two tasks have ever been inside such sections at once. What holds only while they
have not is stated so (`TakenOnceApart`, `NothingStranded`); the model goes on when they do, and then two tasks read the
same first entry before one of them unlinks it, and both serve it.

Below the request function each function of the chip is two steps: `Open` is its first SPI frame, and `ReadSectors`,
`Backup`, `Erase` or `Program` its last, with what it has done to the chip. Other tasks come between, also into
functions of their own; `garbled` records that frames of two functions have ever interleaved, on a CS pin and an `xfer` that
nobody locks. The chip's contents are not followed after that. `Program` is one sector
(512 bytes, two of the sixteen programs of `W25Qxx_device_write_page`), so that a page is written in `SPP` steps after its erase, and another task may
use the chip between any two of them. `busy` is the chip's status bit and `Ready` the chip clearing it: reads and programs poll it,
an erase does not and is ignored by a busy chip. `BackedUp` keeps the driver's mistake of passing a page number
where a sector number is expected.

Facts the model keeps: the fetch has poisoned a request's links, so that the second
unlink at its end writes to the flash alias at 0x100, which drops the store; every bio
has one segment; the chip's functions return the length they were given, so that the error exits of the
request function are dead. A bio is submitted once. What a task finds in a request that another task has freed is not
followed: the steps of a task whose request is gone are disabled, and `TakenOnceApart` says when that can happen. A bio whose call has returned while
another task was still at it keeps its contents.

### Vfs

`vfs` is a record of the dentry cache (by path), the counts of dentries, the VFS inodes and the list of initramfs
entries; `file` and `fd` are the open files and the descriptor table. `Open`, `Close`, `Mkdir` and
`RemoveDentry` are one step each. The first three are system calls: they run inside the SVC exception, which PendSV does not
preempt, and the second core runs no task that makes one. `remove_dentry` is not a system call (neither `sys_fs.c`
nor `syscall.tbl` has it): only kernel task code calls it, which PendSV does preempt. That it is one step here
means that nothing is said of a system call in the middle of a removal. Within a call the helpers follow the code's
order: `Select` walks the components and caches each, `Find` allocates a dentry, asks the file system and
gives the reference back when there is no entry, `Create` and `MakeEntry` are `create_new_dentry` down to
`initramfs_mkdir`.

Facts the model keeps: `initramfs_mkdir` builds a directory's inode from its parent's, so that every directory
shows the root's entries; `d_delete` gives `inode_put` the address of its pointer, so that the
inode's count stays one too high, and a word past the end of the dentry, in another block of the heap, is counted
down instead (the model, which has no memory layout, drops that store); a failing driver `open` makes `sys_open` return the number of a
descriptor that is still free. Once an entry seen under two paths has been removed under one, the other
path's dentry points at freed memory: `Sound` ends the model's interest there.

### Tty

`dr` and `rxne` are the receiver, `isr` and `data` the handler, `masked` the task that has disabled interrupts,
`pc`, `left` and `byte` the readers. `Arrive` is the hardware; `Interrupt`, `ClearSR` and `Store` are
`USART1_IRQHandler` as called by the dispatcher; `Mask`, `Test`, `Load`, `Advance`, `Unmask` are `Usart1_read` in the
loop of `tty_read`. `Unhandled` is the dispatcher finding no handler: `uart1_device_init` enables the
interrupt before `request_irq`, nothing clears the request, and a byte that comes in between keeps the
boot in the dispatcher. `ClearSR` drops a byte that has come since the data register was read.

## 3. Runs

| run | question | instance |
|---|---|---|
| `sched_time` | who is switched in, on which time stamps; do delays end, or does the core hang on a spin lock and stay so | 3 tasks, 3 priorities, timer mod 4, delay 1, one mortal task |
| `sched_pool` | is the list complete and ordered under inserts, reaps and faults | 4 tasks, two of equal priority, three mortal and faulty, no time |
| `sched_lost` | violation: `task_run` without blocking the scheduler loses a task | 4 tasks |
| `spinlock_word` | what the lock word can be; is a lock that all have left free | 3 tasks, nesting 2 |
| `spinlock_mutex` | violation: two holders | 3 tasks |
| `pipe_ring` | do reader and writer keep out of each other's slot, from any memory image | 1 writer, 1 reader, 3 slots, fields of 6 values, calls of 1 or 2 bytes |
| `pipe_fresh` | violation: index past the array | the same |
| `heap_one` | is the list sound, does it implement `Allocator`, do calls return | 31 words, best fit 2, 4, first fit 1, 3, 6 |
| `block_serve` | is each request served once and by somebody, as long as no two tasks meet in the lock's sections; where does a write go, and what does it leave alone | 2 tasks, 2 bios, 2 pages of 2 sectors, a read and 3 shapes of write |
| `block_backup` | violation: a partial write replaces its page's other sectors | 1 task, 1 bio |
| `vfs_calls` | do counts, descriptors and cache stay exact, failed calls included | 2 names, paths of 1 or 2 components, 1 device, 2 descriptors, 5 inodes |
| `tty_ring` | does the ring implement `DropFifo`; is a waiting byte stored; do reads return and interrupts come back | 2 readers, 3 slots, reads of 1 or 2 bytes |

`sched_time`, `heap_one` and `tty_ring` use the fair specification, whose safety properties are those of `Spec`.

**Why the bounds are enough.** *Sched*: a place in the list has at most two neighbours, so four
tasks give a removal at the head, in the middle and next to the end while a fourth is
inserted; equal priorities occur; the timer wraps several times, so that wake-up
times on both sides of the wrap occur. The pool runs have no time, because links do not
depend on it. *SpinLock*: the word relates one task in the window, one holder and one newcomer:
three tasks. *Pipe*: with three slots the ring is empty, has one byte, is full, and both
indices wrap; two bytes per call make a call block half-way; fields of six values give sizes of zero, below, at and
above the array, and indices on both sides of each. *Heap*: 31 words hold up to five
blocks, so that a release meets free neighbours on no, one and both sides, exact fits,
rests too small to split and rests without space all occur. *RequestQueue*: two tasks are enough
for a loop to serve the other's request, to meet inside a section and for the shared buffer to be overwritten; with two
bios the list has none, one or two members, and an insertion or removal has the list head or another request on its far side,
which longer lists do not add to (and the theorems hold for any number); two pages of two sectors give a write within a page,
over its end and of a whole page, and a page whose number is not that of its first sector. *Vfs*: two
components make a parent that is not the root, two descriptors a full table, five inodes a
re-creation after removal. *Tty*: three slots are empty, full, overrun and wrapped; two readers meet
at the mask.

The violation runs are the same specifications with other constants, not other models.

**Fairness.** *Sched*: the tick is a hardware timer and PendSV runs to its end unless a spin lock refuses it
(weak fairness of `Start`, `Tick` and the handler); a tick period is long enough for the running task to get on with a
creation or a delay it has begun, a few instructions per step (strong fairness of `AddTask`, `DelayState` and `Yield`).
This does not assume a hang away: `Refused` is a step of the creation, so that a creator that is refused for ever is
fair, and nothing is assumed of a task that stands in a lock's window without the core. *Heap*: a task inside a
call is scheduled again and again (weak fairness); the call does not wait for anything
but what the model shows. *Tty*: a pending interrupt is taken when it is
unmasked, although readers mask it again and again, and a reader that is held up by
the other's mask or by the handler gets its turn (strong fairness; readers have equal priority and the handler
is short); the handler runs to its end. *SpinLock*, *Pipe* and *RequestQueue* have no liveness properties: whether a refused task gets on
depends on the scheduler's letting the other one run, and strict priorities, a scheduler that is BLOCKED or a caller in an exception
handler can deny it, as `Hung` of `Sched` shows.

Deadlock is checked in every run but `pipe_ring`, which stops where a call would index past the array, and those of
`RequestQueue`, which stop when every bio has been submitted and served or the chip is garbled.

## 4. What the checks show

- With `kthread_run` (scheduler blocked around the insertion) the pool is complete, ordered by
  priority and linked both ways whenever no insertion is half done, whatever dies or faults
  (`PoolComplete`, `PoolOrdered`); a dead task is reaped once (`ReapedOnce`); the place search never
  runs off the list (`PlaceFound`); the walk ends at the highest priority able to run
  (`HighestPriorityRuns`, `SwitchTarget`), and never reads an unset time stamp (`DelayStamped`).
- The highest-priority task wakes up from every delay, except the one wake-up time no
  timer value exceeds, unless the core hangs on a spin lock (`TopDelayEnds`); and such a hang is one: it never passes
  (`HangIsForever`). It takes a task preempted between the two stores of a lock and a creator, a walk or a fault handler that
  needs that lock. TLC refutes `TopDelayEnds` without its `Hung`: the creator of a task is refused, calls `__delay` with the
  scheduler BLOCKED, and has the core back at once, for ever.
- A pointer in the word of a spin lock is a holder's (`WordNamesHolder`); a lock that all have left is free, whatever
  owner stores and unlocks came late (`LockLeftFree`); the branch for a lock already owned is dead (`OwnTestFails`).
- One writer and one reader of a pipe never meet in a slot, although the lock lets both in, when the memory
  image they start from has its indices in the ring (`SlotsApart`).
- A heap with one caller at a time keeps its list exact, merges everything back, finds the
  best fit, and implements `Allocator`.
- However many tasks are inside the flash driver's loop, as long as no two meet inside a section under
  `queue_lock`, a request is taken once (`TakenOnceApart`) and a call returns only when its request has been taken off the
  queue (`NothingStranded`): the loops are right, it is the lock that fails them. A write that no other request overlapped,
  and whose erases found the chip ready, puts its data where it belongs, over a page boundary too (`WritesLand`), and while
  SPI frames do not interleave no write touches a page it does not address, even when two share the page buffer between
  two functions of the chip (`OnlyTouchedChange`).
- No call on a path, failed or not, loses a file (`FilesHeld`), frees an inode under a file or a
  dentry (`InodesKept`) or miscounts a dentry's children (`RefsExact`); the cache agrees with the file
  system except for entries removed under another path than a dentry's own (`CacheFollowsList`).
- The serial line's ring drops only its oldest byte, and only when full (`ReceiveSpec`); every read
  returns and interrupts never stay masked (`ReadEnds`). The byte that waits in the data register is the byte the
  handler stores (`WaitingByteStored`); the one that clearing the status flag loses is a byte that came while the handler ran.

**Where code and comments disagree** (the violation runs, each a finding in `PROJECT.json`):

1. `PoolComplete` under `task_run`: the loader inserts without blocking the scheduler; a reap next to
   the place found loses the new task.
2. `MutualExclusion`: the owner store replaces the 1 that the try tests for, so that every later
   `spin_lock` of another task succeeds.
3. `IndexInBuffer` on a fresh pipe: `pipefs_open` sets none of the ring's fields.
4. `OthersKept`: the page that a partial write is merged into is read from an eighth of its address.

Other behaviour of the code that the models keep and that a reader of its comments would not expect, without a run of its own:

- The comment on the `__delay` of a refused caller (`spinlock.c:30`) says that it gives up its time slice. Inside
  `kthread_run` the scheduler is BLOCKED, PendSV returns at once, and the caller retries for ever (`Hung`).
- `last_scheduler_time` is commented (`sched.h:47`) as the time of the last change of state, but is stamped at switches only
  (`Return`): a task that ran for longer than the delay it asks for is found expired by the next walk and goes straight on.
- Two tasks inside `blk_fetch_request` take, and free, one request (`met`); two tasks let into a heap by its lock can be given one block.
- The driver's own lock, `w25qxx_lock` (`w25qxx.c:112`), is handed to the queue and never taken (`garbled`).
- An erase does not wait for the chip, and a busy chip ignores it (`Erase`, `busy`): a whole-page write right behind another one
  is programmed over the old contents.
- The comments at `d_delete` (`dcache.c:206-221`) say that it counts the inode down; it passes the address of its pointer, and
  the inode of a removed name stays for ever (`Unlink`).
- A failing driver `open` makes `sys_open` return the number of a free descriptor (`Refused` of `Vfs`); a byte that comes between
  the handler's two accesses to the receiver is lost (`ClearSR`).

## 5. What is proved

All theorems hold for every value of the constants that satisfies the named assumptions.

**SchedProofs** (`PoolAssumption`, `TimerAssumption`, `DefaultAssumption`): `TypeCorrect`,
`ReapedNeverRunsAgain`, `SearchFindsPlace`, `SwitchesOnlyToReady`, `DelaysAreStamped`, for any tasks, priorities, timer width and
both ways of creating a task. None of these is inductive. The invariant `Inv` adds `BootInv`
(the default task is inserted first, alone), `LinkInv` (links lead to tasks whose own
links are set, and only the default task's `next` is NULL), `PlaceInv` (an insertion's place is such
a task) and `LifeInv` (the default task neither dies nor breaks; a task on the death list is
over). `LinkInv` is what makes the search safe: every task but the default one has a successor,
and the default one, having the lowest priority, stops the search. It does not need the
list to be well formed, so the theorems also hold in the interleavings that lose a task.
That the default priority is the lowest is the assumption the code rests on
(`get_task_by_priority` tests for NULL only after the dereference). `DelaysAreStamped` needs an invariant of its
own, `StampInv`: the current task has been switched in, hence stamped, and one about to become WAITING has stored its
delay.

**SchedPoolProofs** (the same assumptions; as hypotheses `KthreadOnly`, that no task is created by `task_run`
after boot, and finitely many tasks): `PoolIsComplete`, `PoolIsOrdered`, `DeadMetOnce` (which does not need
finiteness), `HighestRuns`, `HangLasts`. `KthreadOnly` is what the kernel's own threads do, and a kernel that loads
no application creates no other; the loader's `task_run` is the exception, and `sched_lost` shows `PoolComplete`
fail with it. `Solo` says that a creation has the core to itself: its creator is the current
task, the scheduler is BLOCKED and no walk is under way; while the creator is being refused by a lock a PendSV may be pending, which returns
at once, and nothing of the new task is on any list yet (`CreatorAt`). `PoolInv` says that some ranking of the tasks by natural
numbers makes the registered ones a `Sorted` list: links lead to the task of the next rank, ranks follow
priorities, the head has the least one. Between the stores of an insertion the list is the same up to the one
link already changed (`ListOK`), the walk has passed no task able to run (`WalkOK`), and
the place found is the first of at most the new priority (`AtPlace`). A rank in place of a path makes
the steps local: inserting and removing a node are lemmas on `Sorted` alone. That following `next` from the head
then reaches every registered task is a least-counterexample argument on ranks, and the one place
where tasks must be finite. `HangLasts` needs `HangInv` beside `Solo`: once started, the scheduler is BLOCKED only while somebody is inside
`kthread_run`; no task stands in a lock's window after the creator has had its own locks; and a fault handler that goes round in `_spin_lock`
keeps the core.

**SpinLockProofs** (`WordAssumption`, `DepthAssumption`): `TypeCorrect`, `PointerNamesHolder`, `UnheldLockIsFree`,
`OwnLockBranchDead`. The invariant joins the properties and the types with `RoomInv` (who is inside has room to
nest) and `WindowInv`: the flag value is in the word only while somebody stands between the two stores. The last
is why a free lock cannot be left looking taken.

**PipeProofs** (`PipeAssumption`, the lock's assumptions): `PipeTypeCorrect`, for any number of
tasks on either side and any contents of the fields; `SlotsAreApart`, for one writer and one reader. That property is an
implication whose premise is about the memory image only (`InRing`): nothing that the code does
establishes it, which is what `pipe_fresh` shows; what is proved is that the order of test, copy and move of an index then
suffices without the lock. `RingInv` says, task by task (`CallInv`),
that the index a call loaded stays the ring's own until the call advances it, which is where one task per side is
needed.

**HeapProofs** (`HeapAssumption`, and as hypothesis that at most one caller is inside): `ArenaTiled`,
`TypesKept`, `HeapIsAllocator`. The invariant `HInv` is `TypeOK`, `Tiled`, `HeldOK` (each range handed
out lies in a used block of its own) and `CallOK` (what the locals of a call say of
the list). `CutKeeps` and `JoinKeeps` prove once, for any list that tiles the arena, that cutting a
block in two and joining two neighbours keep it so; every action is one of them, a change
of a flag, or leaves the list alone. `MarkTakes` and `FreeGives` are the two steps
of `Allocator`; everything else stutters.

`UsedBlocksHeld`, `NeighboursMerged` and `SearchFindsFit` speak of the time between calls or of the end of a search, and
rest on what a call still owes (`Due`, inductive together with `HInv`): a block in use is held by
somebody or being given back by the caller inside (`InHand`); two free neighbours are the halves of a
block about to be marked, or the block that is being merged and one beside it (`Excused`); the blocks a search has
passed have no better fit than the one it remembers (`BestSoFar`); when the merging loop sees the size it
saw before, nothing beside its block is free (`Grown`).

**RequestQueueProofs** (`QueueAssumption`), for any tasks, bios and chip. `BaseInvariant` (`Base`) holds whether tasks have met
or not: the types, `Submitted` (only submitted bios are anywhere, in the links too) and `Holding` (a task holds a request
exactly inside the request function, and no two calls have one bio).

`RequestTakenOnce` and `CallNotStranded` hold while no two tasks have met inside a section (`met`), a condition on the
interleaving that the code does nothing to ensure: `spinlock_mutex` shows that the lock does not. `QueueInv` says that
then there is a sequence of bios without repetitions that the list stands for. `Linked` says what each link of the list and of its members is
according to the place of the one task inside a section, for every place of `list_add_tail` and `list_del`, half-stored links
included. `Placed` says where a bio is: a call's bio is nowhere before `AddNext`, and afterwards on the sequence, with
a task, or served. `Placed` is what makes `NothingStranded` inductive: a loop leaves when it has seen the list empty, so that its
bio is one of the other two. `Appended` and `HeadTaken` are the facts about sequences without
repetitions.

`BlockTypeCorrect`, `WriteHasLanded` and `OnlyTouchedPages` do not need that condition; they hold for any number of pages, sectors per page and bios
of at most a page's length, which is what the assumption admits. `ChipInv` says what a task inside the driver relies on: `Course`
(where it stands is what its request asks for, and a second page is there only if the write
runs into it), `BuffersKept`, `CleanHolds`, and `Progress`: how much of a write that no other request has overlapped is in the page
buffer and on the chip after each function, and on the page after each sector. Page arithmetic multiplies and divides by a constant, which
the provers do not do by themselves: a first group of lemmas states once what quotient and remainder are, in which page a
sector lies and that a write covers at most two, and everything else cites those.

**VfsProofs** (`VfsAssumption`): `VfsTypeCorrect`, `FilesAreHeld`, `InodesAreKept`, `RefsAreExact`, `CacheFollows`, for any names, depth of
paths, devices, descriptors and inodes. `VfsInv` has four parts. `VfsOK` holds of every state a call goes
through: the inodes are taken in order, so that the next one is free; a cached file hangs below a cached
directory; no two dentries share an inode; each dentry's count is the number of its cached children, for
uncached ones too, since a path that is cached again starts from the count it was left with. `Bounded` says that the bound on
inodes was kept between calls. `Table` relates open files and descriptors one to one. `OpensCounted` says that
the count of an inode is one plus its open files: one and not "one if it has a dentry", because `d_delete` never
gives the inode back; that mistake of the code is why no inode is freed under anybody. `InodesKept` alone is not inductive:
a close could free an inode whose count does not cover its other files.

A call is a chain of operators on `vfs`, not of steps, and the walk of `select_file` is a recursive function
over the components. `Reached` says what holds after a walk (only additions, `Extends`, and `VfsOK`
unless the inodes have run out, in which case the call's result is no state of the model);
`FindReached` takes it over one component, `SelectReached` over the whole path by the least component at which it
would fail, `CreateReached` over `create_new_dentry`.

**TtyProofs** (`TtyAssumption`): `TtyTypes` and `RingDropsOldest`, for any ring size and readers. `ReaderInv` says
that a reader from its test on has masked interrupts, that the ring is not empty between test and
advance, and that the byte it loaded is still the oldest; the handler runs only when nobody
has. `Store` maps to `Put`, or to `Overwrite` when the ring is full, `Advance` to `Get`,
everything else to a stutter.

**Induction.** The library's induction theorems take an operator as a parameter, which the provers cannot
instantiate. Where an argument goes along a list or a path (`SchedPoolProofs`, `VfsProofs`), it takes the least number at which the claim
fails, which exists because the naturals are well founded (`LeastNat`), and derives a contradiction from
one step.

**Only model-checked**: the liveness properties `TopDelayEnds`, `CallsReturn`,
`WaitingByteStored` and `ReadEnds`, because fairness and ENABLED are beyond the prover. Every other property of a
passing run is stated by a theorem, under the hypotheses given above.

## 6. What is left out of the modelled parts

Register frames and the context switch itself; the task table that `top` prints; the round of `smalloc`
over several heaps (the caller's choice of heap); the heaps' magic words and status printers;
what a pipe index past the array would overwrite; the fault that a stale register could
cause when a walk meets two DEAD tasks in a row; a fault inside a kernel critical section; two
callers inside one heap; what a task finds in a request freed by another; the chip once two tasks' frames have interleaved;
system calls in the middle of a `remove_dentry`; reads and writes through descriptors and the contents of files; memory
running out; mounts, superblocks and partition tables, made once at boot; transmission on the
serial line; what is inside one SPI frame.

## 7. Not modelled, and what could come next

The **character device registry** is Linux's and is called at boot by one task. **lockref** and the
**call queue lock** are counters and lists inside one spin lock: what they promise is what `SpinLock` shows
of it. The **loader** copies an image after checking its header; the one step of it that
interleaves is `sched_lost`. The **boot sequence** runs once; the second core then has a
pool that no other core changes. `remove_irq` and `process_requests_in_queue` have no callers.

Next, in this order:

1. Reads and writes through a descriptor whose file has been removed (`Vfs`), and two cores making
   system calls, should the second one be given tasks.
2. `remove_dentry` as the two steps a system call can come between.
3. The heap with two callers inside, as the block layer's queue is now.
4. The boot gate of the two cores (`Scheduler_Lock1++` on both without a lock).
