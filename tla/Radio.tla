------------------------------- MODULE Radio -------------------------------
(***************************************************************************)
(* The driver of the CC3000 WiFi module: the main thread, the interrupt at *)
(* the end of a transfer (SPI_DMA_IntHandler) and the interrupt of the     *)
(* module's IRQ pin (SPI_EXTI_IntHandler) share one SPI bus, the state     *)
(* ulSpiState and one receive buffer; the external flash is on the same    *)
(* bus.  Above them is the host driver, which waits for the answer to each *)
(* command and counts the module's free transmit buffers.                  *)
(*                                                                         *)
(* The thread is where pc says.  Each place at which it waits with         *)
(* interrupts enabled is a place of its own, and the interrupts and the    *)
(* module may act between any two of its steps.  What a transfer carries   *)
(* is known from ulSpiState, as it is to the interrupt at its end.         *)
(*                                                                         *)
(* A message is its kind.  What is read when the module has nothing to     *)
(* say is garbage of any length; what a write leaves in the receive buffer *)
(* is taken for an event nobody knows or for data.                         *)
(***************************************************************************)
EXTENDS Sequences, FiniteSets, Naturals

CONSTANTS
  Commands,   \* commands with one answer, other than those named below
  Buffers,    \* transmit buffers of the module
  MaxQueue    \* bound: messages in the module before it says more on its own

ASSUME RadioAssumption ==
  /\ Commands \cap {"start", "size", "recv", "send", "none"} = {}
  /\ Buffers \in Nat /\ MaxQueue \in Nat

Ops == Commands \cup {"start", "size", "recv", "send"}

\* inactive: the answer to a send, with ERROR_SOCKET_INACTIVE as its status.
\* more: the answer to a recv announces data.  old: the message was there when
\* the command under way was begun (history, for the properties).
Message == [type : {"answer", "inactive", "data", "event", "free", "patches", "junk", "none"},
            op : Ops \cup {"none"}, more : BOOLEAN, old : BOOLEAN]
Plain(type) == [type |-> type, op |-> "none", more |-> FALSE, old |-> FALSE]
Answer(o, more) == [type |-> "answer", op |-> o, more |-> more, old |-> FALSE]
NotSent == [type |-> "inactive", op |-> "send", more |-> FALSE, old |-> FALSE]
NoMessage == Plain("none")
Garbled == {Plain("event"), Plain("junk")}

VARIABLES
  spi,          \* sSpiInformation.ulSpiState
  bus,          \* spi_bus_lock
  csRadio, csFlash,  \* is the chip selected?
  transfer,     \* the DMA is at work; its interrupt comes when it ends
  pending,      \* an edge of the IRQ pin waits for its interrupt
  listening,    \* that interrupt is enabled (SpiResumeSpi, SpiPauseSpi)
  chip,         \* the module: "off", "booting" or "ready"
  irqLow,       \* the module pulls its IRQ pin
  queue, held,  \* its messages for the host and the buffers it has in use
  buffer,       \* wlan_rx_buffer
  received,     \* usEventOrDataReceived
  awaited,      \* usRxEventOpcode
  dataPending,  \* usRxDataPending
  solicited,    \* solicitedResponse
  free,         \* usNumberOfFreeBuffers
  pc, op,       \* where the thread is, and for which command
  patching,     \* SpiWrite was called to send a patch
  mishaps       \* what has gone wrong since the last SpiOpen (history)

wires == <<bus, csRadio, csFlash>>
line == <<pending, irqLow>>
module == <<chip, queue, held>>
inbox == <<buffer, received>>
expects == <<awaited, dataPending, solicited>>
thread == <<pc, op, patching>>
vars == <<spi, wires, transfer, listening, line, module, inbox, expects, free, thread, mishaps>>

TypeOK ==
  /\ spi \in {"POWERUP", "INITIALIZED", "IDLE", "FIRST_WRITE", "WRITE_WAIT_IRQ",
              "WRITE_PROCEED", "READ_IRQ", "READ_PROCEED", "READ_PREP_IRQ"}
  /\ bus \in {"none", "radio", "flash"}
  /\ csRadio \in BOOLEAN /\ csFlash \in BOOLEAN
  /\ transfer \in BOOLEAN
  /\ pending \in BOOLEAN /\ listening \in BOOLEAN
  /\ chip \in {"off", "booting", "ready"} /\ irqLow \in BOOLEAN
  /\ queue \in Seq(Message) /\ held \in 0 .. Buffers
  /\ buffer \in Message /\ received \in BOOLEAN
  /\ awaited \in Ops \cup {"none"}
  /\ dataPending \in BOOLEAN /\ solicited \in BOOLEAN
  /\ free \in 0 .. Buffers
  /\ pc \in {"idle", "select", "flash", "release", "request", "stopping", "open",
             "opened", "disabled", "consume", "begin", "first", "grant", "write",
             "await", "handle", "panic"}
  /\ op \in Ops /\ patching \in BOOLEAN
  /\ mishaps \subseteq {"cutOff", "hasty", "missed", "notSent", "gaveUp"}

Init ==
  /\ spi = "POWERUP" /\ bus = "none" /\ csRadio = FALSE /\ csFlash = FALSE
  /\ transfer = FALSE /\ pending = FALSE /\ listening = FALSE
  /\ chip = "off" /\ irqLow = FALSE /\ queue = <<>> /\ held = 0
  /\ buffer = NoMessage /\ received = FALSE
  /\ awaited = "none" /\ dataPending = FALSE /\ solicited = FALSE /\ free = 0
  /\ pc = "idle" /\ op = "start" /\ patching = FALSE /\ mishaps = {}

-----------------------------------------------------------------------------
(* The bus and its two chip selects.                                       *)

\* try_acquire_spi_bus and try_release_spi_bus; acquire and release spin on them.
MayAcquire_Always(owner) == TRUE
MayAcquire(owner) == bus \in {"none", owner}
MayRelease(owner) == bus \in {"none", owner}

\* The module lets its pin go when it is deselected.
CC3000_CS_LOW == csRadio' = TRUE /\ bus' = "radio" /\ UNCHANGED csFlash
CC3000_CS_HIGH ==
  /\ MayRelease("radio")
  /\ csRadio' = FALSE /\ bus' = "none" /\ irqLow' = FALSE /\ UNCHANGED csFlash

\* SpiIO: a read of the header starts as soon as the module is selected.
StartRead ==
  /\ CC3000_CS_LOW /\ spi' = "READ_IRQ" /\ transfer' = TRUE

Panic == pc' = "panic" /\ UNCHANGED <<op, patching>>

-----------------------------------------------------------------------------
(* The module: it boots, takes commands and tells what happens in its own  *)
(* time.                                                                   *)

software == <<listening, inbox, expects, free, thread, mishaps>>

PullIrq == irqLow' = TRUE /\ pending' = TRUE

Boot ==
  /\ chip = "booting" /\ chip' = "ready" /\ PullIrq
  /\ UNCHANGED <<spi, wires, transfer, queue, held, software>>

\* It asks to be read, or allows the write it was selected for.
Signal ==
  /\ chip = "ready" /\ ~irqLow /\ (queue # <<>> \/ csRadio)
  /\ PullIrq
  /\ UNCHANGED <<spi, wires, transfer, module, software>>

Tell(m) == Len(queue) < MaxQueue /\ queue' = Append(queue, m)

\* An event of the network, or of a socket.
Event ==
  /\ chip = "ready" /\ Tell(Plain("event"))
  /\ UNCHANGED <<spi, wires, transfer, line, chip, held, software>>

\* A packet has been sent and its buffer is free again.
FreeBuffer ==
  /\ chip = "ready" /\ held > 0 /\ Tell(Plain("free")) /\ held' = held - 1
  /\ UNCHANGED <<spi, wires, transfer, line, chip, software>>

\* What the module answers to a command it has received.
Replies(o, patch) ==
  CASE patch         -> {<<Answer("start", FALSE)>>}
    [] o = "start"   -> {<<Answer("start", FALSE)>>, <<Plain("patches")>>}
    [] o = "recv"    -> {<<Answer("recv", FALSE)>>,
                         <<Answer("recv", TRUE), Plain("data")>>}
    [] o = "send"    -> {<<Answer("send", FALSE)>>, <<NotSent>>}
    [] OTHER         -> {<<Answer(o, FALSE)>>}

\* It does not hear a command before it has booted.
Deliver ==
  IF chip = "ready"
    THEN /\ \E r \in Replies(op, patching) : queue' = queue \o r
         /\ held' = (IF op = "send" /\ ~patching THEN held + 1 ELSE held)
         /\ UNCHANGED chip
    ELSE UNCHANGED module

Off == chip' = "off" /\ irqLow' = FALSE /\ queue' = <<>> /\ held' = 0

-----------------------------------------------------------------------------
(* SPI_EXTI_IntHandler.  An edge that comes while the handler has no use   *)
(* for it is forgotten.                                                    *)

Edge == pc # "panic" /\ pending /\ listening /\ pending' = FALSE

PinPowerup ==
  /\ Edge /\ irqLow /\ spi = "POWERUP" /\ spi' = "INITIALIZED"
  /\ mishaps' = (IF pc = "opened" THEN mishaps \cup {"hasty"} ELSE mishaps)
  /\ UNCHANGED <<wires, transfer, listening, irqLow, module, inbox, expects, free, thread>>

PinRead ==
  /\ Edge /\ irqLow /\ spi = "IDLE" /\ MayAcquire("radio") /\ StartRead
  /\ UNCHANGED <<irqLow, module, software>>

\* The flash has the bus: whoever releases it will read.
PinPostpone ==
  /\ Edge /\ irqLow /\ spi = "IDLE" /\ ~MayAcquire("radio")
  /\ spi' = "READ_PREP_IRQ"
  /\ UNCHANGED <<wires, transfer, irqLow, module, software>>

PinGrant ==
  /\ Edge /\ irqLow /\ spi = "WRITE_WAIT_IRQ" /\ spi' = "WRITE_PROCEED"
  /\ UNCHANGED <<wires, transfer, irqLow, module, software>>

PinIgnored ==
  /\ Edge /\ (irqLow => spi \notin {"POWERUP", "IDLE", "WRITE_WAIT_IRQ"})
  /\ UNCHANGED <<spi, wires, transfer, irqLow, module, software>>

-----------------------------------------------------------------------------
(* SPI_DMA_IntHandler, and SpiReceiveHandler, which it calls.              *)

Ended(state) == pc # "panic" /\ transfer /\ spi = state

\* The length is the module's if it has a message.  A length of zero starts no
\* transfer; SPARK_ASSERT refuses one that does not fit the buffer.
Speaks == chip = "ready" /\ queue # <<>>
HeaderRead ==
  /\ Ended("READ_IRQ") /\ spi' = "READ_PROCEED"
  /\ \/ transfer' = TRUE /\ UNCHANGED thread
     \/ ~Speaks /\ transfer' = FALSE /\ UNCHANGED thread
     \/ ~Speaks /\ transfer' = FALSE /\ Panic
  /\ UNCHANGED <<wires, listening, line, module, inbox, expects, free, mishaps>>

\* hci_unsol_event_handler returns 1: the message needs nobody.  So it says of
\* the answer to a send whose socket is not active, even if it is waited for,
\* and of no other answer to a send, even if nobody waits for it yet.
Unsolicited(m) ==
  \/ m.type \in {"event", "free", "inactive"}
  \/ m.type = "answer" /\ m.op \notin {"send", awaited}
\* hci_unsolicited_event_handler: it is dealt with in the interrupt.
Handled(m) == Unsolicited(m) \/ (m.type \in {"answer", "patches"} /\ ~solicited)

\* The host's own count of the module's buffers.
Counted_Twice(m) == IF m.type = "free" THEN free + 2 ELSE free
Counted(m) == IF m.type = "free" THEN free + 1 ELSE free

IsAnswer(m) == m.type \in {"answer", "inactive"}
SpiReceiveHandler(m) ==
  /\ free' = Counted(m)
  /\ IF Handled(m)
       THEN received' = FALSE /\ buffer' = NoMessage /\ listening' = TRUE
       ELSE received' = TRUE /\ buffer' = m /\ listening' = FALSE
  /\ mishaps' = (IF Handled(m) /\ IsAnswer(m) /\ ~m.old
                   THEN mishaps \cup {IF m.type = "inactive" THEN "notSent" ELSE "missed"}
                   ELSE mishaps)

BodyRead ==
  /\ Ended("READ_PROCEED")
  /\ spi' = "IDLE" /\ CC3000_CS_HIGH /\ transfer' = FALSE
  /\ IF Speaks
       THEN SpiReceiveHandler(Head(queue)) /\ queue' = Tail(queue)
       ELSE \E m \in Garbled : SpiReceiveHandler(m) /\ UNCHANGED queue
  /\ UNCHANGED <<pending, chip, held, expects, thread>>

FirstWritten ==
  /\ Ended("FIRST_WRITE") /\ spi' = "WRITE_PROCEED" /\ transfer' = FALSE
  /\ UNCHANGED <<wires, line, module, software>>

Written ==
  /\ Ended("WRITE_PROCEED")
  /\ spi' = "IDLE" /\ CC3000_CS_HIGH /\ transfer' = FALSE
  /\ Deliver
  /\ UNCHANGED <<pending, software>>

\* INVALID_CASE: a transfer ends in a state that knows of none.
Unexpected ==
  /\ pc # "panic" /\ transfer
  /\ spi \notin {"READ_IRQ", "READ_PROCEED", "FIRST_WRITE", "WRITE_PROCEED"}
  /\ transfer' = FALSE /\ Panic
  /\ UNCHANGED <<spi, wires, listening, line, module, inbox, expects, free, mishaps>>

-----------------------------------------------------------------------------
(* The thread: SpiWrite.                                                   *)

Go(place) == pc' = place /\ UNCHANGED <<op, patching>>

\* A write receives as it sends: the DMA puts what comes in where the messages
\* of the module are.
WriteOverBuffer ==
  /\ transfer' = TRUE
  /\ \/ ~received /\ UNCHANGED buffer
     \/ received /\ buffer' \in Garbled
  /\ UNCHANGED received

SpiSetUp == solicited' = TRUE /\ UNCHANGED <<awaited, dataPending>>

\* The first write after SpiOpen, in two parts.
FirstWrite ==
  /\ pc = "begin" /\ spi = "INITIALIZED" /\ MayAcquire("radio")
  /\ spi' = "FIRST_WRITE" /\ CC3000_CS_LOW /\ SpiSetUp /\ WriteOverBuffer /\ Go("first")
  /\ UNCHANGED <<listening, line, module, free, mishaps>>

WriteRest ==
  /\ pc = "first" /\ spi # "FIRST_WRITE"
  /\ WriteOverBuffer /\ Go("write")
  /\ UNCHANGED <<spi, wires, listening, line, module, expects, free, mishaps>>

\* Every other one waits for the bus to be idle, selects the module ...
Reserve_NotTestedAgain ==
  /\ pc = "begin" /\ spi \notin {"POWERUP", "INITIALIZED"} /\ MayAcquire("radio")
  /\ spi' = "WRITE_WAIT_IRQ" /\ CC3000_CS_LOW /\ SpiSetUp /\ Go("grant")
  /\ UNCHANGED <<transfer, listening, line, module, inbox, free, mishaps>>
Reserve ==
  /\ pc = "begin" /\ spi = "IDLE" /\ MayAcquire("radio")
  /\ spi' = "WRITE_WAIT_IRQ" /\ CC3000_CS_LOW /\ SpiSetUp /\ Go("grant")
  /\ UNCHANGED <<transfer, listening, line, module, inbox, free, mishaps>>

\* ... waits for its permission, also looking at the pin itself ...
Proceed ==
  /\ pc = "grant" /\ (spi = "WRITE_PROCEED" \/ irqLow)
  /\ spi' = "WRITE_PROCEED" /\ WriteOverBuffer /\ Go("write")
  /\ UNCHANGED <<wires, listening, line, module, expects, free, mishaps>>

\* ... and for the end of the transfer.
WriteReturns_AnswerThere ==
  /\ pc = "write" /\ spi # "WRITE_PROCEED"
  /\ pc' = (IF patching THEN "handle" ELSE IF received THEN "idle" ELSE "await")
  /\ patching' = FALSE
  /\ UNCHANGED <<spi, wires, transfer, listening, line, module, inbox, expects, free, op, mishaps>>
WriteReturns ==
  /\ pc = "write" /\ spi # "WRITE_PROCEED"
  /\ pc' = (IF patching THEN "handle" ELSE "await") /\ patching' = FALSE
  /\ UNCHANGED <<spi, wires, transfer, listening, line, module, inbox, expects, free, op, mishaps>>

-----------------------------------------------------------------------------
(* The thread: commands.                                                   *)

bottom == <<spi, wires, transfer, line, module>>

\* A command is begun: what answers were there are answers to earlier ones.
Aged(m) == IF IsAnswer(m) \/ m.type = "data" THEN [m EXCEPT !.old = TRUE] ELSE m
Begin(o) ==
  /\ op' = o /\ pc' = "begin" /\ UNCHANGED patching
  /\ queue' = [i \in DOMAIN queue |-> Aged(queue[i])]
  /\ buffer' = Aged(buffer)
  /\ UNCHANGED <<spi, wires, transfer, listening, line, chip, held, received, mishaps>>

Command ==
  /\ pc = "idle" /\ chip # "off" /\ Len(queue) < MaxQueue
  /\ \E o \in Commands \cup {"recv"} : Begin(o)
  /\ UNCHANGED <<expects, free>>

Send ==
  /\ pc = "idle" /\ chip # "off" /\ Len(queue) < MaxQueue
  /\ pc' = "consume" /\ op' = "send" /\ UNCHANGED patching
  /\ UNCHANGED <<bottom, listening, inbox, expects, free, mishaps>>

\* HostFlowControlConsumeBuff ...
Consume_NotCounted ==
  /\ pc = "consume" /\ free > 0 /\ UNCHANGED free /\ Begin("send")
  /\ UNCHANGED expects
Consume ==
  /\ pc = "consume" /\ free > 0 /\ free' = free - 1 /\ Begin("send")
  /\ UNCHANGED expects

\* ... gives up after a time, or at once when the socket is not active or the
\* packet before this one could not be sent.
Refuse ==
  /\ pc = "consume" /\ Go("idle")
  /\ UNCHANGED <<bottom, listening, inbox, expects, free, mishaps>>

\* SimpleLinkWaitEvent, after the command has been written.
WaitEvent ==
  /\ pc = "await" /\ awaited' = op /\ Go("handle")
  /\ UNCHANGED <<bottom, listening, inbox, dataPending, solicited, free, mishaps>>

\* What the caller of hci_event_handler does next: wlan_start asks for the
\* number of buffers, simple_link_recv waits for the data it was promised.
Return(data) ==
  CASE op = "start" -> /\ op' = "size" /\ pc' = "begin" /\ dataPending' = FALSE
    [] data         -> /\ UNCHANGED op /\ pc' = "handle" /\ dataPending' = TRUE
    [] OTHER        -> /\ UNCHANGED op /\ pc' = "idle" /\ dataPending' = FALSE

\* hci_event_handler with a message.
Answers(m) == IsAnswer(m) /\ m.op = awaited
\* SpiResumeSpi is called for every message, whatever it was.
Resumed_AfterAnswer == Answers(buffer) \/ listening
Resumed == TRUE
Process ==
  /\ pc = "handle" /\ received
  /\ received' = FALSE /\ buffer' = NoMessage /\ listening' = Resumed
  /\ awaited' = (IF Answers(buffer) THEN "none" ELSE awaited)
  /\ solicited' = (solicited /\ ~Answers(buffer))
  /\ free' = (IF Answers(buffer) /\ op = "size" THEN Buffers ELSE free)
  /\ IF buffer.type = "patches"
       THEN /\ pc' = "begin" /\ patching' = TRUE /\ UNCHANGED <<op, dataPending>>
       ELSE /\ UNCHANGED patching
            /\ LET waits == dataPending /\ buffer.type \notin {"data", "junk"}
               IN IF awaited' = "none" /\ ~waits
                    THEN Return(op = "recv" /\ Answers(buffer) /\ buffer.more)
                    ELSE UNCHANGED <<op, pc>> /\ dataPending' = waits
  /\ UNCHANGED <<bottom, mishaps>>

\* hci_event_handler gives up; a command is then taken to have failed, and a
\* wait for data ends in INVALID_CASE.
Timeout ==
  /\ pc = "handle" /\ ~received
  /\ mishaps' = mishaps \cup {"gaveUp"}
  /\ IF awaited = "none"
       THEN Panic /\ UNCHANGED dataPending
       ELSE Return(FALSE) /\ UNCHANGED patching
  /\ UNCHANGED <<bottom, listening, inbox, awaited, solicited, free>>

-----------------------------------------------------------------------------
(* The thread: wlan_start and wlan_stop.                                   *)

\* wlan_start, which is also called without a wlan_stop before it.
Start ==
  /\ pc = "idle" /\ pc' = "open" /\ op' = "start" /\ UNCHANGED patching
  /\ received' = FALSE /\ buffer' = NoMessage
  /\ awaited' = "none" /\ dataPending' = FALSE /\ free' = 0
  /\ UNCHANGED <<bottom, listening, solicited, mishaps>>

\* SpiOpen sets the state, switches the module off ...
SpiOpen ==
  /\ pc = "open" /\ spi' = "POWERUP" /\ Go("opened")
  /\ mishaps' = (IF transfer THEN {"cutOff"} ELSE {})
  /\ UNCHANGED <<wires, transfer, listening, line, module, inbox, expects, free>>

SwitchOff ==
  /\ pc = "opened" /\ Off /\ Go("disabled")
  /\ UNCHANGED <<spi, wires, transfer, pending, listening, inbox, expects, free, mishaps>>

\* ... and after a pause longer than any transfer on again.
SwitchOn ==
  /\ pc = "disabled" /\ ~transfer
  /\ pending' = FALSE /\ listening' = TRUE /\ chip' = "booting"
  /\ Go("begin")
  /\ UNCHANGED <<spi, wires, transfer, irqLow, queue, held, inbox, expects, free, mishaps>>

wlan_stop ==
  /\ pc = "idle" /\ chip # "off" /\ Off /\ Go("stopping")
  /\ mishaps' = (IF transfer THEN mishaps \cup {"cutOff"} ELSE mishaps)
  /\ UNCHANGED <<spi, wires, transfer, pending, listening, inbox, expects, free>>

SpiClose ==
  /\ pc = "stopping" /\ listening' = FALSE /\ Go("idle")
  /\ UNCHANGED <<bottom, inbox, expects, free, mishaps>>

\* The device restarts after a panic.
Reset ==
  /\ pc = "panic"
  /\ spi' = "POWERUP" /\ bus' = "none" /\ csRadio' = FALSE /\ csFlash' = FALSE
  /\ transfer' = FALSE /\ pending' = FALSE /\ listening' = FALSE /\ Off
  /\ buffer' = NoMessage /\ received' = FALSE
  /\ awaited' = "none" /\ dataPending' = FALSE /\ solicited' = FALSE /\ free' = 0
  /\ pc' = "idle" /\ op' = "start" /\ patching' = FALSE /\ mishaps' = {}

-----------------------------------------------------------------------------
(* The thread: the external flash.                                         *)

above == <<listening, line, module, inbox, expects, free, mishaps>>

UseFlash ==
  /\ pc = "idle" /\ Go("select")
  /\ UNCHANGED <<spi, wires, transfer, above>>

sFLASH_CS_LOW ==
  /\ pc = "select" /\ MayAcquire("flash")
  /\ bus' = "flash" /\ csFlash' = TRUE /\ Go("flash")
  /\ UNCHANGED <<spi, csRadio, transfer, above>>

\* sFLASH_CS_HIGH; sFLASH_WriteBytes calls it a second time at its end.
Deselect ==
  /\ pc \in {"flash", "idle"} /\ csFlash' = FALSE /\ Go("release")
  /\ UNCHANGED <<spi, bus, csRadio, transfer, above>>

ReleaseBus ==
  /\ pc = "release" /\ MayRelease("flash") /\ bus' = "none" /\ Go("request")
  /\ UNCHANGED <<spi, csRadio, csFlash, transfer, above>>

\* A read that had to wait for the flash.
handle_spi_request_Idle ==
  /\ pc = "request" /\ Go("idle")
  /\ UNCHANGED <<spi, wires, transfer, above>>
handle_spi_request ==
  /\ pc = "request" /\ Go("idle")
  /\ IF spi = "READ_PREP_IRQ" /\ MayAcquire("radio")
       THEN StartRead ELSE UNCHANGED <<spi, wires, transfer>>
  /\ UNCHANGED above

-----------------------------------------------------------------------------

PinInterrupt == PinPowerup \/ PinRead \/ PinPostpone \/ PinGrant \/ PinIgnored
DmaInterrupt == HeaderRead \/ BodyRead \/ FirstWritten \/ Written \/ Unexpected
SpiWrite == FirstWrite \/ WriteRest \/ Reserve \/ Proceed \/ WriteReturns
\* What the thread does by itself in the middle of a call.
Continue ==
  \/ SpiWrite \/ WaitEvent \/ Process
  \/ SpiOpen \/ SwitchOff \/ SwitchOn \/ SpiClose
  \/ sFLASH_CS_LOW \/ (pc = "flash" /\ Deselect) \/ ReleaseBus \/ handle_spi_request
Thread ==
  \/ Continue \/ Command \/ Send \/ Consume \/ Refuse \/ Timeout
  \/ Start \/ wlan_stop \/ UseFlash \/ Deselect
Module == Boot \/ Signal \/ Event \/ FreeBuffer

Next == PinInterrupt \/ DmaInterrupt \/ Thread \/ Module \/ Reset

\* Interrupts come, transfers end and the thread runs.  It waits in loops that
\* look again and again, so that it does not miss every one of several idle
\* moments; the module boots and answers.  No time limit is relied upon.
Fairness ==
  /\ WF_vars(PinInterrupt) /\ WF_vars(DmaInterrupt)
  /\ WF_vars(Continue) /\ SF_vars(Reserve) /\ SF_vars(sFLASH_CS_LOW) /\ SF_vars(ReleaseBus)
  /\ WF_vars(Consume \/ Refuse) /\ WF_vars(Boot) /\ WF_vars(Signal) /\ WF_vars(Reset)

Spec == Init /\ [][Next]_vars /\ Fairness

-----------------------------------------------------------------------------

\* The two chips are never selected together, the lock belongs to the one that
\* is, and no transfer of the driver runs while the module is not selected.
OneChipSelected ==
  /\ ~(csRadio /\ csFlash)
  /\ csRadio => bus = "radio"
  /\ csFlash => bus = "flash"
  /\ transfer => csRadio

\* The driver's assertions fail only after a transfer was cut off by wlan_stop
\* or SpiOpen, after the module started too early for the driver, or when data
\* that was announced did not come in time.
PanicHasACause == pc = "panic" => mishaps \cap {"cutOff", "hasty", "gaveUp"} # {}

\* The thread takes no answer and no data for those of the command under way
\* that are an earlier one's, unless it has given up waiting for a command.
AnswersMatch ==
  pc = "handle" /\ received /\ buffer.old /\ "gaveUp" \notin mishaps
    => ~Answers(buffer) /\ ~(dataPending /\ buffer.type = "data")

\* The host never believes in more free buffers than there are, and knows how
\* many there are when no call is under way and nothing has gone wrong.
FreeMessages == {i \in DOMAIN queue : queue[i].type = "free"}
InHand ==
  IF /\ op = "send" /\ ~patching
     /\ pc \in {"begin", "grant"} \/ (pc = "write" /\ spi = "WRITE_PROCEED")
    THEN 1 ELSE 0
Used == held + Cardinality(FreeMessages) + InHand
BuffersAddUp ==
  /\ chip = "ready" => free + Used <= Buffers
  /\ pc = "idle" /\ chip = "ready" /\ mishaps = {} => free + Used = Buffers

\* Every call of the driver returns, without a time limit, unless something has
\* gone wrong: a transfer cut off, a start too early, an answer that came before
\* it was waited for, a time limit, or a send on a socket that is not active.
CallsReturn == pc \notin {"idle", "panic"} ~> (pc = "idle" \/ mishaps # {})

\* SimpleLinkWaitEvent promises to "Wait for event, pass it to the
\* hci_event_handler": an answer that is read while it is waited for is left in
\* the buffer for the thread.  The interrupt throws that of a send on an inactive
\* socket away, and the send waits for its time limit, or for ever without one.
AwaitedIsPassedOn ==
  [][BodyRead /\ Speaks /\ pc = "handle" /\ Answers(Head(queue)) /\ mishaps = {}
       => received']_vars

\* A message the module offers is read, whatever the thread and the flash do.
OffersAreTaken ==
  (irqLow /\ queue # <<>> /\ mishaps = {}) ~> (~irqLow \/ mishaps # {})
=============================================================================
