---------------------------------- MODULE Tty ---------------------------------
(***************************************************************************)
(* The serial line of the STM32F4 (drivers/tty/stm32f4): the interrupt      *)
(* handler puts received bytes into a ring, tasks take them out with       *)
(* interrupts masked.  There is one core: the handler runs between two     *)
(* steps of a task that has not masked interrupts, and to its end; only    *)
(* the receiver's hardware goes on meanwhile.  kernel/irq dispatches to    *)
(* the handler once request_irq has put it into the table.                 *)
(***************************************************************************)
EXTENDS Integers, Sequences

CONSTANTS
    Readers,  \* the tasks that read the device
    Size,     \* RX_BUFFER_SIZE
    Byte,
    Nothing,  \* no byte, no task
    MaxRead   \* bound on the bytes asked for by one read

Index == 0 .. Size - 1

ASSUME TtyAssumption ==
    /\ Size \in Nat \ {0, 1}
    /\ MaxRead \in Nat \ {0}
    /\ Nothing \notin Readers \cup Byte

VARIABLES
    registered,  \* IRQ_list holds the handler
    dr, rxne,    \* the receiver: its data register, and whether it holds a new byte
    isr, data,   \* where the handler is, and its byte
    buffer, front, rear,
    masked,      \* the task that has masked interrupts
    pc, left,    \* where each reader is, and how many bytes it still wants
    byte,        \* what it has loaded
    put, got     \* the last byte stored by the handler, handed to a reader

line == <<registered, dr, rxne>>
handler == <<isr, data>>
ring == <<buffer, front, rear>>
reader == <<masked, pc, left, byte>>
vars == <<line, handler, ring, reader, put, got>>

TypeOK ==
    /\ registered \in BOOLEAN
    /\ dr \in Byte \cup {Nothing} /\ rxne \in BOOLEAN
    /\ isr \in {"off", "clear", "store"} /\ data \in Byte \cup {Nothing}
    /\ buffer \in [Index -> Byte \cup {Nothing}] /\ front \in Index /\ rear \in Index
    /\ masked \in Readers \cup {Nothing}
    /\ pc \in [Readers -> {"idle", "mask", "test", "load", "advance", "unmask"}]
    /\ left \in [Readers -> 0 .. MaxRead]
    /\ byte \in [Readers -> Byte \cup {Nothing}]
    /\ put \in Byte \cup {Nothing} /\ got \in Byte \cup {Nothing}

\* uart1_device_init has set up the receiver and enabled its interrupt.
Init ==
    /\ registered = FALSE
    /\ dr = Nothing /\ rxne = FALSE
    /\ isr = "off" /\ data = Nothing
    /\ buffer = [i \in Index |-> Nothing] /\ front = 0 /\ rear = 0
    /\ masked = Nothing
    /\ pc = [t \in Readers |-> "idle"]
    /\ left = [t \in Readers |-> 0]
    /\ byte = [t \in Readers |-> Nothing]
    /\ put = Nothing /\ got = Nothing

After(i) == (i + 1) % Size

-----------------------------------------------------------------------------
\* The hardware: a byte that comes while the last one has not been read is lost.
Arrive(b) ==
    /\ ~rxne
    /\ dr' = b /\ rxne' = TRUE
    /\ UNCHANGED <<registered, handler, ring, reader, put, got>>

\* The dispatcher finds no handler, clean_interrupt_flag does nothing on this board, and
\* the interrupt is taken again.
Unhandled == ~registered /\ rxne /\ UNCHANGED vars

\* main_tty_dev_init, after uart1_device_init has enabled the interrupt: with a byte
\* waiting the call does not get to run.
RequestIrq ==
    /\ ~registered /\ ~rxne
    /\ registered' = TRUE
    /\ UNCHANGED <<dr, rxne, handler, ring, reader, put, got>>

\* The interrupt: C_IRQ_Dispatcher calls the handler, which reads the data register;
\* that clears RXNE.
Interrupt ==
    /\ registered /\ rxne
    /\ masked = Nothing /\ isr = "off"
    /\ data' = dr /\ dr' = Nothing /\ rxne' = FALSE
    /\ isr' = "clear"
    /\ UNCHANGED <<registered, ring, reader, put, got>>

\* Slip: the byte is read from the data register again after the flag has been cleared.
ClearSR_Again ==
    /\ isr = "clear"
    /\ rxne' = FALSE /\ dr' = Nothing
    /\ data' = dr
    /\ isr' = "store"
    /\ UNCHANGED <<registered, ring, reader, put, got>>

\* SR &= ~RXNE: a byte that has come since is lost.
ClearSR ==
    /\ isr = "clear"
    /\ rxne' = FALSE /\ dr' = Nothing
    /\ isr' = "store"
    /\ UNCHANGED <<registered, data, ring, reader, put, got>>

\* The handler's new rear: a full ring loses its oldest byte.
Dropped == IF After(front) = rear THEN After(rear) ELSE rear

Store ==
    /\ isr = "store"
    /\ rear' = Dropped
    /\ buffer' = [buffer EXCEPT ![front] = data]
    /\ front' = After(front)
    /\ isr' = "off" /\ data' = Nothing
    /\ put' = data
    /\ UNCHANGED <<line, reader, got>>

-----------------------------------------------------------------------------
\* A task runs when the handler does not and nobody else has masked the scheduler's
\* interrupt.
Runs(t) == isr = "off" /\ masked \in {Nothing, t}
Goto(t, l) == pc' = [pc EXCEPT ![t] = l]

\* tty_read of n bytes.
Read(t, n) ==
    /\ registered /\ Runs(t) /\ pc[t] = "idle"
    /\ left' = [left EXCEPT ![t] = n]
    /\ Goto(t, "mask")
    /\ UNCHANGED <<line, handler, ring, masked, byte, put, got>>

\* Slip: interrupts are not masked.
Mask_Not(t) ==
    /\ Runs(t) /\ pc[t] = "mask"
    /\ Goto(t, "test")
    /\ UNCHANGED <<line, handler, ring, masked, left, byte, put, got>>

\* Usart1_read: local_irq_disable.
Mask(t) ==
    /\ Runs(t) /\ pc[t] = "mask"
    /\ masked' = t
    /\ Goto(t, "test")
    /\ UNCHANGED <<line, handler, ring, left, byte, put, got>>

\* With the ring empty, where the reader goes and who has masked interrupts then.
TestAt(t, empty, who) ==
    /\ Runs(t) /\ pc[t] = "test"
    /\ Goto(t, IF rear # front THEN "load" ELSE empty)
    /\ masked' = IF rear # front THEN masked ELSE who
    /\ UNCHANGED <<line, handler, ring, left, byte, put, got>>

\* Slip: the early return leaves interrupts masked.
Test_Masked(t) == TestAt(t, "idle", masked)

\* Slip: tty_read tries again instead of leaving its loop.
Test_Again(t) == TestAt(t, "mask", Nothing)

\* get_rx_buffer_state: an empty ring ends the read, interrupts enabled.
Test(t) == TestAt(t, "idle", Nothing)

\* get_rx_buffer_data.
Load(t) ==
    /\ Runs(t) /\ pc[t] = "load"
    /\ byte' = [byte EXCEPT ![t] = buffer[rear]]
    /\ Goto(t, "advance")
    /\ UNCHANGED <<line, handler, ring, masked, left, put, got>>

AdvanceTo(t, i) ==
    /\ Runs(t) /\ pc[t] = "advance"
    /\ rear' = i
    /\ got' = byte[t]
    /\ byte' = [byte EXCEPT ![t] = Nothing]
    /\ Goto(t, "unmask")
    /\ UNCHANGED <<line, handler, buffer, front, masked, left, put>>

\* Slip: the index does not wrap.
Advance_Past(t) == AdvanceTo(t, rear + 1)

Advance(t) == AdvanceTo(t, After(rear))

\* local_irq_enable; tty_read goes on with the next byte.
Unmask(t) ==
    /\ Runs(t) /\ pc[t] = "unmask"
    /\ masked' = Nothing
    /\ left' = [left EXCEPT ![t] = @ - 1]
    /\ Goto(t, IF left[t] = 1 THEN "idle" ELSE "mask")
    /\ UNCHANGED <<line, handler, ring, byte, put, got>>

Step(t) == Mask(t) \/ Test(t) \/ Load(t) \/ Advance(t) \/ Unmask(t)
Handler == Interrupt \/ ClearSR \/ Store

Next ==
    \/ \E b \in Byte : Arrive(b)
    \/ Unhandled \/ RequestIrq \/ Handler
    \/ \E t \in Readers : Step(t) \/ \E n \in 1 .. MaxRead : Read(t, n)

Spec == Init /\ [][Next]_vars

\* A pending interrupt is taken as soon as it is enabled; a reader gets to run again and
\* again in between.
FairSpec ==
    Spec /\ SF_vars(Interrupt) /\ WF_vars(ClearSR \/ Store) /\ \A t \in Readers : SF_vars(Step(t))

-----------------------------------------------------------------------------
\* The bytes in the ring, oldest first.
Slot(i) == IF rear + i < Size THEN rear + i ELSE rear + i - Size
Count == IF front >= rear THEN front - rear ELSE front - rear + Size
Held == [i \in 1 .. Count |-> buffer[Slot(i - 1)]]

Queue == INSTANCE DropFifo WITH queue <- Held, Capacity <- Size - 1

\* The ring is a queue that drops its oldest byte when full: the handler, coming between
\* any two steps of a reader, never makes it return a byte twice, out of order or one
\* that has been dropped.
ReceiveSpec == Queue!DropSpec

\* A byte that is in the data register while the handler does not run (USART1_IRQHandler)
\* reaches the store into the ring, however busy the readers are: it is not the byte that
\* clearing the flag loses.
WaitingByteStored ==
    \A b \in Byte :
        registered /\ rxne /\ dr = b /\ isr = "off" ~> isr = "store" /\ data = b

\* A read returns, with the bytes that are there, and whichever way it ends it has enabled
\* interrupts again.
ReadEnds == \A t \in Readers : pc[t] # "idle" ~> (pc[t] = "idle" /\ masked # t)
=============================================================================
