----------------------------- MODULE RequestQueue -----------------------------
(***************************************************************************)
(* The block layer: submit_bio_wait (block/bio.c) wraps a bio in a request, *)
(* puts it on the device's queue and runs the queue's function itself, the *)
(* loop of the W25Qxx flash driver (drivers/storage/w25qxx) that takes      *)
(* requests off the queue until it finds it empty.  Several tasks may be    *)
(* inside that loop, each serving whatever request it has taken.            *)
(*                                                                         *)
(* queue_lock is not in the model: what SpinLock shows of it is that it     *)
(* keeps nobody out for longer than two stores take.  The sections under    *)
(* it are the loads and stores of list_add_tail and list_del on the links   *)
(* of the queue, one step each; met records that two tasks have ever been   *)
(* inside such sections at the same time.                                   *)
(*                                                                         *)
(* The chip's functions are SPI frames with the CS pin low, on a pin and an *)
(* xfer that nobody locks; garbled records that two tasks have been between *)
(* the first and the last frame of a function, after which the contents of  *)
(* the chip are not followed.  Contents are followed by sector of 512       *)
(* bytes, which the driver programs in two halves.                          *)
(*                                                                         *)
(* A bio has one segment, as all callers build it; the driver's calls into  *)
(* the chip return the length they were given, so that its error exits are  *)
(* dead.  What a task finds in a request that another has freed is not      *)
(* followed: TakenOnce and TakenOnceApart say when that may happen.  A bio  *)
(* whose call has returned while another task serves it, which              *)
(* NothingStranded admits, keeps its contents here.                         *)
(***************************************************************************)
EXTENDS Integers

CONSTANTS
    Tasks, Bios,
    None,     \* no bio
    ListHead, \* q->icq_list, the list head
    Poison,   \* LIST_POISON1 and 2, addresses in the boot ROM
    Blank,    \* an erased sector; also what a buffer holds at first
    Mixed,    \* a sector programmed without having been erased
    Pages,    \* number of erase pages of the chip
    SPP,      \* sectors per erase page: 4096 / 512
    Shapes    \* what a bio may ask for: read or write, first sector, sectors

Sector == 0 .. Pages * SPP - 1
Slot == 0 .. SPP - 1

\* A request is named by its bio.
Node == Bios \cup {ListHead}

ASSUME QueueAssumption ==
    /\ None \notin Bios \cup Shapes
    /\ ListHead \notin Bios
    /\ Poison \notin Node
    /\ Pages \in Nat \ {0}
    /\ SPP \in Nat \ {0}
    /\ Shapes \subseteq [op : {"read", "write"}, start : Sector, len : 1 .. SPP]
    /\ \A s \in Shapes : s.start + s.len - 1 \in Sector

VARIABLES
    nxt, prv,   \* the links of the queue: icq_list and each request's queuelist
    ptr,        \* the link a task has loaded: prev in list_add_tail, req in the fetch
    met,        \* two tasks have been inside sections under queue_lock at once
    shape,      \* bi_opf, bi_sector and the segment's length, None before submission
    data,       \* the caller's buffer of each bio
    served,     \* the bios the driver is done with
    pc,         \* where each task stands in submit_bio_wait and below
    call,       \* the bio of the task's own call
    rq,         \* the request the task's driver loop has taken
    spill,      \* the task is at the second page of a write
    done,       \* sectors of its page that the task has programmed
    clean,      \* since the task took its request no other has taken one, and none
                \* of its erases was ignored
    open,       \* the task is between the first and last frame of a chip function
    garbled,    \* two tasks have been so at once
    busy,       \* the chip is erasing or programming
    flash,      \* the chip, by sector
    scratch     \* w25qxx_buffer: one page, shared by all tasks

listvars == <<nxt, prv, ptr, met>>
callvars == <<shape, data, served, call>>
taskvars == <<rq, spill, done, clean>>
chipvars == <<open, garbled, busy, flash, scratch>>
vars == <<listvars, callvars, pc, taskvars, chipvars>>

Old(s) == <<Blank, s>>                \* what sector s held to begin with
Mine(b) == [i \in Slot |-> <<b, i>>]  \* what the caller of b wants written
Content == {Old(s) : s \in Sector} \cup (Bios \X Slot) \cup {Blank, Mixed}

Place == {"idle", "add", "prev", "own", "next", "fetch", "first", "back", "forth",
          "read", "backup", "patch", "erase", "program", "end", "endio"}

\* Inside a section under queue_lock, with a link loaded or half of the links stored.
Section == {"prev", "own", "next", "first", "back", "forth"}

TypeOK ==
    /\ nxt \in [Node -> Node \cup {Poison}] /\ prv \in [Node -> Node \cup {Poison}]
    /\ ptr \in [Tasks -> Node \cup {Poison}]
    /\ met \in BOOLEAN
    /\ shape \in [Bios -> Shapes \cup {None}]
    /\ data \in [Bios -> [Slot -> Content]]
    /\ served \subseteq Bios
    /\ pc \in [Tasks -> Place]
    /\ call \in [Tasks -> Bios \cup {None}]
    /\ rq \in [Tasks -> Bios \cup {None}]
    /\ spill \in [Tasks -> BOOLEAN]
    /\ done \in [Tasks -> Slot]
    /\ clean \in [Tasks -> BOOLEAN]
    /\ open \in [Tasks -> BOOLEAN]
    /\ garbled \in BOOLEAN
    /\ busy \in BOOLEAN
    /\ flash \in [Sector -> Content]
    /\ scratch \in [Slot -> Content]

\* INIT_LIST_HEAD has every list point at itself.
Init ==
    /\ nxt = [x \in Node |-> x]
    /\ prv = [x \in Node |-> x]
    /\ ptr = [t \in Tasks |-> ListHead]
    /\ met = FALSE
    /\ shape = [b \in Bios |-> None]
    /\ data = [b \in Bios |-> Mine(b)]
    /\ served = {}
    /\ pc = [t \in Tasks |-> "idle"]
    /\ call = [t \in Tasks |-> None]
    /\ rq = [t \in Tasks |-> None]
    /\ spill = [t \in Tasks |-> FALSE]
    /\ done = [t \in Tasks |-> 0]
    /\ clean = [t \in Tasks |-> FALSE]
    /\ open = [t \in Tasks |-> FALSE]
    /\ garbled = FALSE
    /\ busy = FALSE
    /\ flash = [s \in Sector |-> Old(s)]
    /\ scratch = [i \in Slot |-> Blank]

Goto(t, l) == pc' = [pc EXCEPT ![t] = l]

\* A store to a link of x; through a poisoned link it goes to the ROM, which drops it.
Write(link, x, y) == IF x \in Node THEN [link EXCEPT ![x] = y] ELSE link

-----------------------------------------------------------------------------
(* submit_bio_wait and list_add_tail.                                      *)

\* bio_alloc: which of the unused bios does not matter.
NewBio == CHOOSE b \in Bios : shape[b] = None

Prepare(t, b, s) ==
    /\ pc[t] = "idle"
    /\ \E x \in Bios : shape[x] = None
    /\ shape' = [shape EXCEPT ![NewBio] = s]
    /\ call' = [call EXCEPT ![t] = b]
    /\ Goto(t, "add")
    /\ UNCHANGED <<listvars, data, served, taskvars, chipvars>>

\* Slip: the bio is not attached to the request.
Submit_NoBio(t, s) == Prepare(t, None, s)

\* submit_bio_wait: a request for the bio, not yet on the queue.
Submit(t, s) == Prepare(t, NewBio, s)

\* What entering a section under queue_lock means for met.
Enter(t) == met' = (met \/ \E u \in Tasks \ {t} : pc[u] \in Section)

\* list_add_tail: head->prev is loaded ...
AddLoad(t) ==
    /\ pc[t] = "add"
    /\ Enter(t)
    /\ ptr' = [ptr EXCEPT ![t] = prv[ListHead]]
    /\ Goto(t, "prev")
    /\ UNCHANGED <<nxt, prv, callvars, taskvars, chipvars>>

\* ... next->prev = new ...
AddPrev(t) ==
    /\ pc[t] = "prev"
    /\ prv' = [prv EXCEPT ![ListHead] = call[t]]
    /\ Goto(t, "own")
    /\ UNCHANGED <<nxt, ptr, met, callvars, taskvars, chipvars>>

\* ... new->next = next, new->prev = prev ...
AddOwn(t) ==
    /\ pc[t] = "own"
    /\ nxt' = [nxt EXCEPT ![call[t]] = ListHead]
    /\ prv' = [prv EXCEPT ![call[t]] = ptr[t]]
    /\ Goto(t, "next")
    /\ UNCHANGED <<ptr, met, callvars, taskvars, chipvars>>

\* ... and prev->next = new.
AddNext(t) ==
    /\ pc[t] = "next"
    /\ nxt' = Write(nxt, ptr[t], call[t])
    /\ Goto(t, "fetch")
    /\ UNCHANGED <<prv, ptr, met, callvars, taskvars, chipvars>>

Add(t) == AddLoad(t) \/ AddPrev(t) \/ AddOwn(t) \/ AddNext(t)

-----------------------------------------------------------------------------
(* blk_fetch_request and list_del.                                         *)

\* The driver splits a write that is not one whole page.
Aligned(b) == shape[b].start % SPP = 0 /\ shape[b].len = SPP
FirstStep(b) ==
    IF shape[b].op = "read" THEN "read" ELSE IF Aligned(b) THEN "erase" ELSE "backup"

\* list_empty: the driver's loop ends when there is no request.
Fetch(t) ==
    /\ pc[t] = "fetch"
    /\ Enter(t)
    /\ Goto(t, IF nxt[ListHead] = ListHead THEN "endio" ELSE "first")
    /\ UNCHANGED <<nxt, prv, ptr, callvars, taskvars, chipvars>>

\* list_first_entry loads head->next again.  If another task has emptied the queue since,
\* or freed the request, this yields the head itself or freed memory as a request, which
\* is not followed.
First(t) ==
    /\ pc[t] = "first"
    /\ nxt[ListHead] \in Bios \ served
    /\ ptr' = [ptr EXCEPT ![t] = nxt[ListHead]]
    /\ Goto(t, "back")
    /\ UNCHANGED <<nxt, prv, met, callvars, taskvars, chipvars>>

\* list_del: next->prev = prev ...
Back(t) ==
    /\ pc[t] = "back"
    /\ prv' = Write(prv, nxt[ptr[t]], prv[ptr[t]])
    /\ Goto(t, "forth")
    /\ UNCHANGED <<nxt, ptr, met, callvars, taskvars, chipvars>>

\* The task has the request b and goes to work on it.
Take(t, b) ==
    /\ rq' = [rq EXCEPT ![t] = b]
    /\ spill' = [spill EXCEPT ![t] = FALSE]
    /\ clean' = [u \in Tasks |-> u = t /\ \A v \in Tasks : rq[v] = None]
    /\ Goto(t, FirstStep(b))
    /\ UNCHANGED <<ptr, met, callvars, done, chipvars>>

Poisoned(link, x) == [link EXCEPT ![x] = Poison]

\* Slip: the list's own link to the request stays.
Forth_Keep(t) ==
    /\ pc[t] = "forth"
    /\ nxt' = Poisoned(nxt, ptr[t])
    /\ prv' = Poisoned(prv, ptr[t])
    /\ Take(t, ptr[t])

\* ... prev->next = next, and the request's own links are poisoned.
Forth(t) ==
    /\ pc[t] = "forth"
    /\ nxt' = Poisoned(Write(nxt, prv[ptr[t]], nxt[ptr[t]]), ptr[t])
    /\ prv' = Poisoned(prv, ptr[t])
    /\ Take(t, ptr[t])

-----------------------------------------------------------------------------
(* w25qxx_request, one function of the chip at a time.                     *)

\* The first frame of a chip function.
Open(t) ==
    /\ pc[t] \in {"read", "backup", "erase", "program"}
    /\ ~open[t]
    /\ open' = [open EXCEPT ![t] = TRUE]
    /\ garbled' = (garbled \/ \E u \in Tasks : open[u])
    /\ UNCHANGED <<listvars, callvars, pc, taskvars, busy, flash, scratch>>

\* The last frame.  A read or a program has polled the chip until it was ready.
Close(t) ==
    /\ open[t]
    /\ ~garbled
    /\ open' = [open EXCEPT ![t] = FALSE]
    /\ pc[t] # "erase" => ~busy

\* The chip has finished its erase or program.
Ready ==
    /\ busy
    /\ busy' = FALSE
    /\ UNCHANGED <<listvars, callvars, pc, taskvars, open, garbled, flash, scratch>>

ReadSectors(t) ==
    /\ pc[t] = "read"
    /\ Close(t)
    /\ LET s == shape[rq[t]] IN
       data' = [data EXCEPT ![rq[t]] =
                   [i \in Slot |-> IF i < s.len THEN flash[s.start + i] ELSE @[i]]]
    /\ Goto(t, "end")
    /\ UNCHANGED <<listvars, shape, served, call, taskvars, garbled, busy, flash, scratch>>

\* page_4k, or page_4k + 1 for what did not fit.
Page(t) == shape[rq[t]].start \div SPP + IF spill[t] THEN 1 ELSE 0
Offset(b) == shape[b].start % SPP
Fit(b) == IF SPP - Offset(b) > shape[b].len THEN shape[b].len ELSE SPP - Offset(b)

\* W25Qxx_device_read_page takes the number of a 512-byte sector and is given the
\* number of a 4096-byte page.
BackedUp(t) == [i \in Slot |-> flash[Page(t) + i]]

Backup(t) ==
    /\ pc[t] = "backup"
    /\ Close(t)
    /\ scratch' = BackedUp(t)
    /\ Goto(t, "patch")
    /\ UNCHANGED <<listvars, callvars, taskvars, garbled, busy, flash>>

\* Slip: the rest is taken from the start of the caller's buffer.
Patched_FromStart(t) ==
    LET b == rq[t] IN
    [i \in Slot |->
        IF spill[t] THEN IF i < shape[b].len - Fit(b) THEN data[b][i] ELSE scratch[i]
        ELSE IF i \in Offset(b) .. Offset(b) + Fit(b) - 1 THEN data[b][i - Offset(b)] ELSE scratch[i]]

\* memcpy into w25qxx_buffer: what fits behind the offset, then the rest at 0.
Patched(t) ==
    LET b == rq[t] IN
    [i \in Slot |->
        IF spill[t] THEN IF i < shape[b].len - Fit(b) THEN data[b][Fit(b) + i] ELSE scratch[i]
        ELSE IF i \in Offset(b) .. Offset(b) + Fit(b) - 1 THEN data[b][i - Offset(b)] ELSE scratch[i]]

Patch(t) ==
    /\ pc[t] = "patch"
    /\ scratch' = Patched(t)
    /\ Goto(t, "erase")
    /\ UNCHANGED <<listvars, callvars, taskvars, open, garbled, busy, flash>>

\* W25Qxx_erase_sector does not wait for the chip, and a busy chip ignores it.
Erase(t) ==
    /\ pc[t] = "erase"
    /\ Close(t)
    /\ flash' = IF busy THEN flash
                ELSE [s \in Sector |-> IF s \div SPP = Page(t) THEN Blank ELSE flash[s]]
    /\ clean' = [clean EXCEPT ![t] = @ /\ ~busy]
    /\ busy' = TRUE
    /\ done' = [done EXCEPT ![t] = 0]
    /\ Goto(t, "program")
    /\ UNCHANGED <<listvars, callvars, rq, spill, garbled, scratch>>

\* A program can only clear bits.
Programmed(old, new) ==
    IF old = Blank THEN new ELSE IF new \in {Blank, old} THEN old ELSE Mixed

\* The buffer W25Qxx_device_write_page is given.
Source(t) == IF Aligned(rq[t]) THEN data[rq[t]] ELSE scratch

\* Slip: >= in place of > 0.
Lost_OffByOne(b) == Offset(b) + shape[b].len - SPP >= 0 /\ ~Aligned(b)

\* lost_data > 0: the write runs into the next page.
Lost(b) == Offset(b) + shape[b].len - SPP > 0

\* W25Qxx_device_write_page programs the next sector of the page; after the last one
\* the driver goes on with the rest of the write, if any.
Program(t) ==
    LET s == Page(t) * SPP + done[t]
        last == done[t] = SPP - 1
    IN
    /\ pc[t] = "program"
    /\ Close(t)
    /\ flash' = [flash EXCEPT ![s] = Programmed(@, Source(t)[done[t]])]
    /\ busy' = TRUE
    /\ done' = [done EXCEPT ![t] = IF last THEN 0 ELSE @ + 1]
    /\ spill' = [spill EXCEPT ![t] = @ \/ (last /\ Lost(rq[t]))]
    /\ Goto(t, IF ~last THEN "program" ELSE IF Lost(rq[t]) /\ ~spill[t] THEN "backup" ELSE "end")
    /\ UNCHANGED <<listvars, callvars, rq, clean, garbled, scratch>>

\* The request is finished with and freed.
Finish(t, next) ==
    /\ pc[t] = "end"
    /\ served' = served \cup {rq[t]}
    /\ rq' = [rq EXCEPT ![t] = None]
    /\ Goto(t, next)
    /\ UNCHANGED <<listvars, shape, data, call, spill, done, clean, chipvars>>

\* Slip: the driver serves one request only.
EndRequest_Once(t) == Finish(t, "endio")

\* blk_mq_end_request -> request_queue_remove: the fetch has poisoned the request's own
\* links, so that unlinking it again writes to the ROM, and the request is freed;
\* w25qxx_request_queue then fetches the next one.
EndRequest(t) == Finish(t, "fetch")

\* bi_end_io -> bio_put: the call returns and its bio is freed.
EndIo(t) ==
    /\ pc[t] = "endio"
    /\ call' = [call EXCEPT ![t] = None]
    /\ Goto(t, "idle")
    /\ UNCHANGED <<listvars, shape, data, served, taskvars, chipvars>>

\* The request must not have been freed by a task that has it too.
Chip(t) ==
    /\ rq[t] \notin served
    /\ Open(t) \/ ReadSectors(t) \/ Backup(t) \/ Patch(t) \/ Erase(t) \/ Program(t)

Step(t) ==
    \/ Add(t) \/ Fetch(t) \/ First(t) \/ Back(t) \/ Forth(t)
    \/ Chip(t) \/ EndRequest(t) \/ EndIo(t)

Next == Ready \/ \E t \in Tasks : Step(t) \/ \E s \in Shapes : Submit(t, s)

Spec == Init /\ [][Next]_vars

-----------------------------------------------------------------------------
\* A request is in the hands of one task, and of none once it is finished: no request
\* is served or freed twice.
TakenOnce ==
    /\ \A t \in Tasks : rq[t] # None => rq[t] \notin served
    /\ \A t, u \in Tasks : rq[t] = rq[u] /\ rq[t] # None => t = u

\* So it is as long as no two tasks meet inside a section under queue_lock: the driver's
\* loops themselves, of several tasks on one queue, never hand a request out twice
\* (blk_fetch_request, w25qxx_request_queue).
TakenOnceApart == ~met => TakenOnce

\* As long as no two tasks meet there: when a call of submit_bio_wait is about to return,
\* its request has been served or some other task is serving it; it has not been left on
\* the queue.
NothingStranded ==
    ~met => \A t \in Tasks :
        pc[t] = "endio" => call[t] \in served \/ \E u \in Tasks : rq[u] = call[t]

\* The pages the sectors of b lie in.
Touched(b) == {s \div SPP : s \in shape[b].start .. shape[b].start + shape[b].len - 1}

\* A page changes only while a write to one of its sectors is being served, however tasks
\* overwrite each other's page buffer between two functions of the chip.  Where their
\* frames interleave nothing is claimed (garbled).
OnlyTouchedChange ==
    [][\A s \in Sector : flash'[s] # flash[s] =>
           \E t \in Tasks : rq[t] # None /\ s \div SPP \in Touched(rq[t])]_vars

\* The whole of b's data is in the sectors it addresses.
HasLanded(b) == \A i \in 0 .. shape[b].len - 1 : flash[shape[b].start + i] = <<b, i>>

\* A write that no other request overlapped, and whose erases found the chip ready, has
\* put the caller's data into the sectors it addresses, across the page boundary too.
WritesLand ==
    \A t \in Tasks : pc[t] = "end" /\ clean[t] /\ shape[rq[t]].op = "write" => HasLanded(rq[t])

\* A write keeps the other sectors of its page: w25qxx.c:64 reads the page into
\* w25qxx_buffer before it is erased, to back it up.
OthersKept ==
    (\A t \in Tasks : rq[t] = None) =>
        \A s \in Sector :
            (\A b \in Bios : shape[b] # None =>
                s \notin shape[b].start .. shape[b].start + shape[b].len - 1) => flash[s] = Old(s)
=============================================================================
