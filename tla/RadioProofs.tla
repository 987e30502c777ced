---------------------------- MODULE RadioProofs ----------------------------
(***************************************************************************)
(* Who has the SPI bus, which buffers are free, why the driver stops and   *)
(* which answer belongs to which command: for any commands, any number of  *)
(* buffers and any order of interrupts, also after transfers were cut off. *)
(***************************************************************************)
EXTENDS Radio, Functions, FiniteSetTheorems, SequenceTheorems, TLAPS

\* Who is selected holds the lock.  Only the thread selects the flash, between
\* two of its steps or when an assertion stops it there.
BusInv ==
  /\ csRadio \in BOOLEAN /\ csFlash \in BOOLEAN /\ transfer \in BOOLEAN
  /\ csRadio = TRUE <=> bus = "radio"
  /\ csFlash = TRUE => bus = "flash" /\ pc \in {"flash", "panic"}

\* A transfer ends before the module is deselected.  While SpiWrite waits
\* between two transfers no interrupt finds one that it could end.
TransferInv ==
  /\ transfer = TRUE => csRadio = TRUE
  /\ spi = "IDLE" => ~transfer
  /\ pc = "first" => /\ csRadio = TRUE
                     /\ spi = "FIRST_WRITE" \/ (spi = "WRITE_PROCEED" /\ ~transfer)
  /\ pc = "grant" => /\ csRadio = TRUE /\ ~transfer
                     /\ spi \in {"WRITE_WAIT_IRQ", "WRITE_PROCEED"}

IInv == BusInv /\ TransferInv

LEMMA InitEstablishes ==
  ASSUME Init
  PROVE  IInv
BY DEF Init, IInv, BusInv, TransferInv

-----------------------------------------------------------------------------
(* The interrupts.                                                         *)

LEMMA PinInterruptKeeps ==
  ASSUME IInv, PinInterrupt
  PROVE  IInv'
<1> USE DEF IInv, BusInv, TransferInv, Edge, MayAcquire, wires, thread
<1>1. CASE PinPowerup
  BY <1>1 DEF PinPowerup
<1>2. CASE PinRead
  BY <1>2 DEF PinRead, StartRead, CC3000_CS_LOW, software
<1>3. CASE PinPostpone
  BY <1>3 DEF PinPostpone, software
<1>4. CASE PinGrant
  BY <1>4 DEF PinGrant, software
<1>5. CASE PinIgnored
  BY <1>5 DEF PinIgnored, software
<1>6. QED
  BY <1>1, <1>2, <1>3, <1>4, <1>5 DEF PinInterrupt

LEMMA DmaInterruptKeeps ==
  ASSUME IInv, DmaInterrupt
  PROVE  IInv'
<1> USE DEF IInv, BusInv, TransferInv, Ended, MayRelease, wires, thread
<1>1. CASE HeaderRead
  BY <1>1 DEF HeaderRead, Panic
<1>2. CASE BodyRead
  BY <1>2 DEF BodyRead, CC3000_CS_HIGH
<1>3. CASE FirstWritten
  BY <1>3 DEF FirstWritten, software
<1>4. CASE Written
  BY <1>4 DEF Written, CC3000_CS_HIGH, software
<1>5. CASE Unexpected
  BY <1>5 DEF Unexpected, Panic
<1>6. QED
  BY <1>1, <1>2, <1>3, <1>4, <1>5 DEF DmaInterrupt

-----------------------------------------------------------------------------
(* The thread.                                                             *)

LEMMA SpiWriteKeeps ==
  ASSUME IInv, SpiWrite
  PROVE  IInv'
<1> USE DEF IInv, BusInv, TransferInv, MayAcquire, Go, WriteOverBuffer, wires, thread
<1>1. CASE FirstWrite
  BY <1>1 DEF FirstWrite, CC3000_CS_LOW
<1>2. CASE WriteRest
  BY <1>2 DEF WriteRest
<1>3. CASE Reserve
  BY <1>3 DEF Reserve, CC3000_CS_LOW
<1>4. CASE Proceed
  BY <1>4 DEF Proceed
<1>5. CASE WriteReturns
  BY <1>5 DEF WriteReturns
<1>6. QED
  BY <1>1, <1>2, <1>3, <1>4, <1>5 DEF SpiWrite

\* What leaves the bus, its state and its transfer alone and does not go to
\* a place of which the invariant speaks.
LEMMA AloneKeeps ==
  ASSUME IInv, UNCHANGED <<spi, wires, transfer>>,
         pc' = pc \/ (pc \notin {"flash", "panic"} /\ pc' \notin {"first", "grant"})
  PROVE  IInv'
BY DEF IInv, BusInv, TransferInv, wires

LEMMA CommandsKeep ==
  ASSUME IInv,
         Command \/ Send \/ Consume \/ Refuse \/ WaitEvent \/ Process \/ Timeout
  PROVE  IInv'
<1> USE DEF bottom, Go, Begin, thread
<1>1. CASE Command \/ Send \/ Consume \/ Refuse \/ WaitEvent
  BY <1>1, AloneKeeps DEF Command, Send, Consume, Refuse, WaitEvent
<1>2. CASE Process
  BY <1>2, AloneKeeps DEF Process, Return
<1>3. CASE Timeout
  BY <1>3, AloneKeeps DEF Timeout, Return, Panic
<1>4. QED
  BY <1>1, <1>2, <1>3

LEMMA SwitchingKeeps ==
  ASSUME IInv,
         Start \/ SpiOpen \/ SwitchOff \/ SwitchOn \/ wlan_stop \/ SpiClose \/ Reset
  PROVE  IInv'
<1> USE DEF bottom, Go, thread
<1>1. CASE Start \/ SwitchOff \/ SwitchOn \/ wlan_stop \/ SpiClose
  BY <1>1, AloneKeeps DEF Start, SwitchOff, SwitchOn, wlan_stop, SpiClose
<1>2. CASE SpiOpen
  BY <1>2 DEF SpiOpen, IInv, BusInv, TransferInv, wires
<1>3. CASE Reset
  BY <1>3 DEF Reset, IInv, BusInv, TransferInv
<1>4. QED
  BY <1>1, <1>2, <1>3

LEMMA FlashKeeps ==
  ASSUME IInv, UseFlash \/ sFLASH_CS_LOW \/ Deselect \/ ReleaseBus \/ handle_spi_request
  PROVE  IInv'
<1> USE DEF IInv, BusInv, TransferInv, MayAcquire, MayRelease, Go, wires
<1>1. CASE UseFlash
  BY <1>1 DEF UseFlash
<1>2. CASE sFLASH_CS_LOW
  BY <1>2 DEF sFLASH_CS_LOW
<1>3. CASE Deselect
  BY <1>3 DEF Deselect
<1>4. CASE ReleaseBus
  BY <1>4 DEF ReleaseBus
<1>5. CASE handle_spi_request
  BY <1>5 DEF handle_spi_request, StartRead, CC3000_CS_LOW
<1>6. QED
  BY <1>1, <1>2, <1>3, <1>4, <1>5

LEMMA ModuleKeeps ==
  ASSUME IInv, Module
  PROVE  IInv'
BY AloneKeeps DEF Module, Boot, Signal, Event, FreeBuffer, software, thread

LEMMA StepKeeps ==
  ASSUME IInv, [Next]_vars
  PROVE  IInv'
<1>1. CASE Next
  BY <1>1, PinInterruptKeeps, DmaInterruptKeeps, SpiWriteKeeps, CommandsKeep, SwitchingKeeps,
     FlashKeeps, ModuleKeeps
     DEF Next, Thread, Continue
<1>2. CASE UNCHANGED vars
  BY <1>2, AloneKeeps DEF vars, thread
<1>3. QED
  BY <1>1, <1>2

\* The two chips on the bus are never selected together, the lock belongs to
\* the one that is selected, and the DMA only runs while the module is, however
\* the thread and the interrupts of cc3000_spi.c interleave, and also after
\* wlan_stop or SpiOpen has cut a transfer off.
THEOREM BusIsOwned == Spec => []OneChipSelected
<1>1. Init => IInv
  BY InitEstablishes
<1>2. IInv /\ [Next]_vars => IInv'
  BY StepKeeps
<1>3. IInv => OneChipSelected
  BY DEF IInv, BusInv, TransferInv, OneChipSelected
<1>4. QED
  BY <1>1, <1>2, <1>3, PTL DEF Spec

-----------------------------------------------------------------------------
(* The count of free buffers.  Each of the Buffers buffers of the module is *)
(* free as far as the host knows, in use, announced as free by a message,  *)
(* or claimed by a packet that is being written.                           *)

FreeIn(q) == {i \in DOMAIN q : q[i].type = "free"}
Announced(q) == Cardinality(FreeIn(q))
\* One if m announces a free buffer.
Counts(m) == IF m.type = "free" THEN 1 ELSE 0

Rest == {"idle", "select", "flash", "release", "request"}
Busy == {"begin", "first", "grant", "write", "await", "handle"}

\* TypeOK without the messages and the counts.
Bits ==
  /\ pending \in BOOLEAN /\ listening \in BOOLEAN /\ irqLow \in BOOLEAN
  /\ received \in BOOLEAN /\ dataPending \in BOOLEAN /\ solicited \in BOOLEAN
  /\ patching \in BOOLEAN

Shape ==
  /\ spi \in {"POWERUP", "INITIALIZED", "IDLE", "FIRST_WRITE", "WRITE_WAIT_IRQ",
              "WRITE_PROCEED", "READ_IRQ", "READ_PROCEED", "READ_PREP_IRQ"}
  /\ bus \in {"none", "radio", "flash"}
  /\ chip \in {"off", "booting", "ready"}
  /\ awaited \in Ops \cup {"none"}
  /\ pc \in Rest \cup Busy \cup {"stopping", "open", "opened", "disabled", "consume", "panic"}
  /\ op \in Ops
  /\ mishaps \subseteq {"cutOff", "hasty", "missed", "notSent", "gaveUp"}

\* Where the thread is while the bus is in a state of SpiWrite or SpiOpen.
PlaceInv ==
  /\ spi = "FIRST_WRITE" => pc = "first"
  /\ spi = "WRITE_WAIT_IRQ" => pc = "grant"
  /\ spi = "WRITE_PROCEED" /\ transfer = TRUE => pc = "write"
  /\ spi \in {"POWERUP", "INITIALIZED"} =>
       op = "start" /\ (chip = "off" \/ pc \in {"opened", "disabled", "begin", "panic"})
  /\ pc = "first" => op = "start"
  /\ chip = "off" => pc \in Rest \cup {"stopping", "open", "opened", "disabled", "panic"}
  /\ pc \in {"stopping", "disabled"} => chip = "off"
  /\ pc \in {"open", "opened", "disabled"} => op = "start"
  /\ op = "start" /\ pc \in Rest => chip = "off"
  /\ pc = "consume" => op = "send"
  /\ patching = TRUE => pc \in {"begin", "first", "grant", "write", "panic"}

\* What the thread waits for.
AwaitInv ==
  /\ pc = "handle" \/ (patching = TRUE /\ pc # "panic") =>
       IF dataPending = TRUE THEN awaited = "none" /\ op = "recv" ELSE awaited = op
  /\ dataPending = TRUE => pc \in {"handle", "panic"} \/ patching = TRUE

\* No permission is taken for the module's being ready before it is.
BootInv ==
  /\ irqLow = TRUE => chip = "ready"
  /\ chip = "booting" \/ pc \in {"opened", "disabled"} => spi = "POWERUP" \/ mishaps # {}

ControlInv == Bits /\ Shape /\ PlaceInv /\ AwaitInv /\ BootInv

Booked == free + held + Announced(queue) + InHand
\* wlan_start has learnt how many buffers there are.
Sized ==
  pc \in Rest \/ (op \notin {"start", "size"} /\ pc \in Busy \cup {"consume"})

Known == mishaps = {} /\ chip = "ready" /\ Sized
\* wlan_start is at work on a module that it has switched off before.
Fresh == op \in {"start", "size"} /\ pc \in Busy \cup {"disabled"}

CountInv ==
  /\ queue \in Seq(Message) /\ buffer \in Message
  /\ held \in Nat /\ free \in Nat
  /\ Fresh => held = 0 /\ Announced(queue) = 0
  /\ Booked <= Buffers
  /\ Known => Booked = Buffers

LEMMA AnnouncedIsNat ==
  ASSUME NEW q \in Seq(Message)
  PROVE  IsFiniteSet(FreeIn(q)) /\ Announced(q) \in Nat
<1>1. Len(q) \in Nat /\ DOMAIN q = 1 .. Len(q)
  BY LenProperties
<1>2. IsFiniteSet(1 .. Len(q))
  BY <1>1, FS_Interval
<1>3. FreeIn(q) \in SUBSET (1 .. Len(q))
  BY <1>1 DEF FreeIn
<1>4. IsFiniteSet(FreeIn(q))
  BY <1>2, <1>3, FS_Subset
<1>5. QED
  BY <1>4, FS_CardinalityType DEF Announced

LEMMA AnnouncedOfNone ==
  Announced(<<>>) = 0
<1>1. FreeIn(<<>>) = {}
  BY DEF FreeIn
<1>2. QED
  BY <1>1, FS_EmptySet DEF Announced

LEMMA AnnouncedOfAppend ==
  ASSUME NEW q \in Seq(Message), NEW m \in Message
  PROVE  /\ Append(q, m) \in Seq(Message)
         /\ Announced(Append(q, m)) = Announced(q) + Counts(m)
<1> DEFINE l == Len(q) + 1
<1>1. Len(q) \in Nat /\ DOMAIN q = 1 .. Len(q)
  BY LenProperties
<1>2. /\ Append(q, m) \in Seq(Message) /\ DOMAIN Append(q, m) = 1 .. l
      /\ \A i \in 1 .. Len(q) : Append(q, m)[i] = q[i]
      /\ Append(q, m)[l] = m
  BY AppendProperties, LenProperties
<1>3. CASE m.type = "free"
  <2>1. FreeIn(Append(q, m)) = FreeIn(q) \cup {l} /\ l \notin FreeIn(q)
    BY <1>1, <1>2, <1>3 DEF FreeIn
  <2>2. QED
    BY <2>1, <1>2, <1>3, AnnouncedIsNat, FS_AddElement DEF Announced, Counts
<1>4. CASE m.type # "free"
  <2>1. FreeIn(Append(q, m)) = FreeIn(q)
    BY <1>1, <1>2, <1>4 DEF FreeIn
  <2>2. QED
    BY <2>1, <1>2, <1>4, AnnouncedIsNat DEF Announced, Counts
<1>5. QED
  BY <1>3, <1>4

LEMMA AnnouncedOfTail ==
  ASSUME NEW q \in Seq(Message), q # <<>>
  PROVE  /\ Head(q) \in Message /\ Tail(q) \in Seq(Message)
         /\ Announced(q) = Announced(Tail(q)) + Counts(Head(q))
<1> DEFINE t == Tail(q)
           f == [i \in FreeIn(t) |-> i + 1]
           rest == FreeIn(q) \ {1}
<1>1. /\ Head(q) = q[1] /\ Head(q) \in Message /\ t \in Seq(Message)
      /\ Len(t) = Len(q) - 1 /\ \A i \in 1 .. Len(t) : t[i] = q[i + 1]
  BY HeadTailProperties
<1>2. /\ Len(q) \in Nat /\ DOMAIN q = 1 .. Len(q) /\ Len(q) # 0
      /\ Len(t) \in Nat /\ DOMAIN t = 1 .. Len(t)
  BY <1>1, LenProperties, EmptySeq
<1>3. f \in Bijection(FreeIn(t), rest)
  <2>1. f \in [FreeIn(t) -> rest]
    BY <1>1, <1>2 DEF FreeIn
  <2>2. \A a, b \in FreeIn(t) : f[a] = f[b] => a = b
    BY <1>2 DEF FreeIn
  <2>3. \A j \in rest : j - 1 \in FreeIn(t) /\ f[j - 1] = j
    BY <1>1, <1>2 DEF FreeIn
  <2>4. QED
    BY <2>1, <2>2, <2>3 DEF Bijection, Injection, Surjection, IsInjective
<1>4. Cardinality(rest) = Announced(t)
  BY <1>1, <1>3, AnnouncedIsNat, FS_Bijection DEF ExistsBijection, Announced
<1>5. Cardinality(rest) = IF 1 \in FreeIn(q) THEN Announced(q) - 1 ELSE Announced(q)
  BY AnnouncedIsNat, FS_RemoveElement DEF Announced
<1>6. 1 \in FreeIn(q) <=> Head(q).type = "free"
  BY <1>1, <1>2 DEF FreeIn
<1>7. QED
  BY <1>1, <1>4, <1>5, <1>6, AnnouncedIsNat DEF Counts

\* A reply to a command announces nothing.
LEMMA AnnouncedOfReply ==
  ASSUME NEW q \in Seq(Message), NEW o \in Ops, NEW patch \in BOOLEAN,
         NEW r \in Replies(o, patch)
  PROVE  q \o r \in Seq(Message) /\ FreeIn(q \o r) = FreeIn(q)
<1>1. r \in Seq(Message) /\ \A i \in 1 .. Len(r) : r[i].type # "free"
  <2> DEFINE said == {m \in Message : m.type # "free"}
  <2>1. /\ \A a \in Ops, b \in BOOLEAN : Answer(a, b) \in said
        /\ Plain("patches") \in said /\ Plain("data") \in said /\ NotSent \in said
    BY DEF Answer, Plain, NotSent, Message, Ops
  <2>2. {"start", "recv", "send"} \subseteq Ops
    BY DEF Ops
  <2>3. PICK m \in said, n \in said : r = <<m>> \/ r = <<m, n>>
    BY <2>1, <2>2 DEF Replies
  <2>4. m \in Message /\ n \in Message /\ m.type # "free" /\ n.type # "free"
    OBVIOUS
  <2>5. CASE r = <<m>>
    BY <2>4, <2>5
  <2>6. CASE r = <<m, n>>
    BY <2>4, <2>6
  <2>7. QED
    BY <2>3, <2>5, <2>6
<1>2. /\ q \o r \in Seq(Message) /\ Len(q \o r) = Len(q) + Len(r)
      /\ \A i \in 1 .. Len(q) + Len(r) :
           (q \o r)[i] = IF i <= Len(q) THEN q[i] ELSE r[i - Len(q)]
  BY <1>1, ConcatProperties
<1>3. /\ Len(q) \in Nat /\ DOMAIN q = 1 .. Len(q)
      /\ Len(r) \in Nat /\ DOMAIN (q \o r) = 1 .. Len(q) + Len(r)
  BY <1>1, <1>2, LenProperties
<1>4. QED
  BY <1>1, <1>2, <1>3 DEF FreeIn

LEMMA AnnouncedOfAged ==
  ASSUME NEW q \in Seq(Message)
  PROVE  LET a == [i \in DOMAIN q |-> Aged(q[i])]
         IN  a \in Seq(Message) /\ FreeIn(a) = FreeIn(q)
<1> DEFINE a == [i \in DOMAIN q |-> Aged(q[i])]
<1>1. \A m \in Message : Aged(m) \in Message /\ Aged(m).type = m.type
  BY DEF Aged, Message
<1>2. /\ Len(q) \in Nat /\ DOMAIN q = 1 .. Len(q)
      /\ \A i \in 1 .. Len(q) : q[i] \in Message
  BY LenProperties, ElementOfSeq
<1>3. a \in [1 .. Len(q) -> Message]
  BY <1>1, <1>2
<1>4. a \in Seq(Message)
  BY <1>2, <1>3, SeqDef
<1>5. FreeIn(a) = FreeIn(q)
  BY <1>1, <1>2, <1>3 DEF FreeIn
<1>6. QED
  BY <1>4, <1>5

-----------------------------------------------------------------------------
(* Where the thread is and what it waits for.                              *)

LEMMA BitsKept ==
  ASSUME Bits, Next
  PROVE  Bits'
<1> USE DEF Bits
<1>1. CASE PinInterrupt
  BY <1>1 DEF PinInterrupt, PinPowerup, Edge, expects, inbox, module, thread, wires, PinRead,
     StartRead, CC3000_CS_LOW, software, PinPostpone, PinGrant, PinIgnored
<1>2. CASE DmaInterrupt
  BY <1>2 DEF DmaInterrupt, HeaderRead, Ended, Panic, expects, inbox, line, module, thread,
     wires, BodyRead, SpiReceiveHandler, CC3000_CS_HIGH, FirstWritten, software, Written,
     Deliver, Unexpected
<1>3. CASE SpiWrite
  BY <1>3 DEF SpiWrite, FirstWrite, CC3000_CS_LOW, SpiSetUp, WriteOverBuffer, Go, line, module,
     WriteRest, expects, wires, Reserve, inbox, Proceed, WriteReturns
<1>4. CASE Command \/ Send \/ Consume \/ Refuse \/ WaitEvent \/ Process \/ Timeout
  BY <1>4 DEF Command, Begin, expects, line, wires, Send, bottom, inbox, module, Consume,
     Refuse, Go, WaitEvent, Process, Return, Answers, Resumed, Timeout, Panic
<1>5. CASE Start \/ SpiOpen \/ SwitchOff \/ SwitchOn \/ wlan_stop \/ SpiClose \/ Reset
  BY <1>5 DEF Start, bottom, line, module, wires, SpiOpen, Go, expects, inbox, SwitchOff, Off,
     SwitchOn, wlan_stop, SpiClose, Reset
<1>6. CASE UseFlash \/ sFLASH_CS_LOW \/ Deselect \/ ReleaseBus \/ handle_spi_request
  BY <1>6 DEF UseFlash, Go, above, expects, inbox, line, module, wires, sFLASH_CS_LOW, Deselect,
     ReleaseBus, handle_spi_request, StartRead, CC3000_CS_LOW
<1>7. CASE Module
  BY <1>7 DEF Module, Boot, PullIrq, expects, inbox, software, thread, wires, Signal, module,
     Event, Tell, line, FreeBuffer
<1>8. QED
  BY <1>1, <1>2, <1>3, <1>4, <1>5, <1>6, <1>7 DEF Next, Thread, Continue

LEMMA ShapeKept ==
  ASSUME Shape, Next
  PROVE  Shape'
<1> USE DEF Shape
<1>1. CASE PinInterrupt
  <2>1. CASE PinPowerup
    BY <2>1 DEF PinPowerup, Edge, expects, inbox, module, thread, wires
  <2>2. CASE PinRead
    BY <2>2 DEF PinRead, Edge, StartRead, CC3000_CS_LOW, software, module, wires, inbox, expects,
       thread
  <2>3. CASE PinPostpone
    BY <2>3 DEF PinPostpone, Edge, wires, module, software, inbox, expects, thread
  <2>4. CASE PinGrant
    BY <2>4 DEF PinGrant, Edge, wires, module, software, inbox, expects, thread
  <2>5. CASE PinIgnored
    BY <2>5 DEF PinIgnored, Edge, wires, module, software, inbox, expects, thread
  <2>6. QED
    BY <1>1, <2>1, <2>2, <2>3, <2>4, <2>5 DEF PinInterrupt
<1>2. CASE DmaInterrupt
  BY <1>2 DEF DmaInterrupt, HeaderRead, Ended, Panic, expects, inbox, line, module, thread,
     wires, Rest, Busy, BodyRead, SpiReceiveHandler, CC3000_CS_HIGH, FirstWritten, software,
     Written, Deliver, Unexpected
<1>3. CASE SpiWrite
  BY <1>3 DEF SpiWrite, FirstWrite, CC3000_CS_LOW, SpiSetUp, WriteOverBuffer, Go, line, module,
     Rest, Busy, WriteRest, expects, wires, Reserve, inbox, Proceed, WriteReturns
<1>4. CASE Command \/ Send \/ Consume \/ Refuse \/ WaitEvent \/ Process \/ Timeout
  BY <1>4 DEF Command, Begin, expects, line, wires, Rest, Busy, Ops, Send, bottom, inbox,
     module, Consume, Refuse, Go, WaitEvent, Process, Return, Answers, Resumed, Timeout, Panic
<1>5. CASE Start \/ SpiOpen \/ SwitchOff \/ SwitchOn \/ wlan_stop \/ SpiClose \/ Reset
  BY <1>5 DEF Start, bottom, line, module, wires, Rest, Busy, Ops, SpiOpen, Go, expects, inbox,
     SwitchOff, Off, SwitchOn, wlan_stop, SpiClose, Reset
<1>6. CASE UseFlash \/ sFLASH_CS_LOW \/ Deselect \/ ReleaseBus \/ handle_spi_request
  BY <1>6 DEF UseFlash, Go, above, expects, inbox, line, module, wires, Rest, Busy,
     sFLASH_CS_LOW, Deselect, ReleaseBus, handle_spi_request, StartRead, CC3000_CS_LOW
<1>7. CASE Module
  BY <1>7 DEF Module, Boot, PullIrq, expects, inbox, software, thread, wires, Rest, Busy,
     Signal, module, Event, Tell, line, FreeBuffer
<1>8. QED
  BY <1>1, <1>2, <1>3, <1>4, <1>5, <1>6, <1>7 DEF Next, Thread, Continue

LEMMA AwaitKept ==
  ASSUME PlaceInv, AwaitInv, Next
  PROVE  AwaitInv'
<1> USE DEF AwaitInv
<1>1. CASE PinInterrupt
  BY <1>1 DEF PinInterrupt, PinPowerup, Edge, expects, inbox, module, thread, wires, PlaceInv,
     Rest, PinRead, StartRead, CC3000_CS_LOW, software, PinPostpone, PinGrant, PinIgnored
<1>2. CASE DmaInterrupt
  BY <1>2 DEF DmaInterrupt, HeaderRead, Ended, Panic, expects, inbox, line, module, thread,
     wires, PlaceInv, Rest, BodyRead, SpiReceiveHandler, CC3000_CS_HIGH, FirstWritten, software,
     Written, Deliver, Unexpected
<1>3. CASE SpiWrite
  BY <1>3 DEF SpiWrite, FirstWrite, CC3000_CS_LOW, SpiSetUp, WriteOverBuffer, Go, line, module,
     PlaceInv, Rest, WriteRest, expects, wires, Reserve, inbox, Proceed, WriteReturns
<1>4. CASE Command \/ Send \/ Consume \/ Refuse \/ WaitEvent \/ Process \/ Timeout
  <2>1. CASE Command \/ Send \/ Consume \/ Refuse \/ WaitEvent \/ Timeout
    BY <2>1, RadioAssumption DEF Command, Begin, expects, line, wires, Ops, PlaceInv, Rest,
       RadioAssumption, Send, bottom, inbox, module, Consume, Refuse, Go, WaitEvent,
       Return, Timeout, Panic
  <2>2. CASE Process
    BY <2>2, RadioAssumption DEF Process, Return, Answers, IsAnswer, bottom, line, module, wires,
       Ops, PlaceInv, Rest, RadioAssumption
  <2>3. QED
    BY <1>4, <2>1, <2>2
<1>5. CASE Start \/ SpiOpen \/ SwitchOff \/ SwitchOn \/ wlan_stop \/ SpiClose \/ Reset
  BY <1>5, RadioAssumption DEF Start, bottom, line, module, wires, Ops, PlaceInv, Rest,
     RadioAssumption, SpiOpen, Go, expects, inbox, SwitchOff, Off, SwitchOn, wlan_stop,
     SpiClose, Reset
<1>6. CASE UseFlash \/ sFLASH_CS_LOW \/ Deselect \/ ReleaseBus \/ handle_spi_request
  BY <1>6 DEF UseFlash, Go, above, expects, inbox, line, module, wires, PlaceInv, Rest,
     sFLASH_CS_LOW, Deselect, ReleaseBus, handle_spi_request, StartRead, CC3000_CS_LOW
<1>7. CASE Module
  BY <1>7 DEF Module, Boot, PullIrq, expects, inbox, software, thread, wires, PlaceInv, Rest,
     Signal, module, Event, Tell, line, FreeBuffer
<1>8. QED
  BY <1>1, <1>2, <1>3, <1>4, <1>5, <1>6, <1>7 DEF Next, Thread, Continue

LEMMA BootKept ==
  ASSUME PlaceInv, BootInv, Next
  PROVE  BootInv'
<1> USE DEF BootInv
<1>1. CASE PinInterrupt
  BY <1>1 DEF PinInterrupt, PinPowerup, Edge, expects, inbox, module, thread, wires, PlaceInv,
     PinRead, StartRead, CC3000_CS_LOW, software, PinPostpone, PinGrant, PinIgnored
<1>2. CASE DmaInterrupt
  BY <1>2 DEF DmaInterrupt, HeaderRead, Ended, Panic, expects, inbox, line, module, thread,
     wires, BodyRead, SpiReceiveHandler, CC3000_CS_HIGH, FirstWritten, software, Written,
     Deliver, Unexpected
<1>3. CASE SpiWrite
  BY <1>3 DEF SpiWrite, FirstWrite, CC3000_CS_LOW, SpiSetUp, WriteOverBuffer, Go, line, module,
     WriteRest, expects, wires, Reserve, inbox, Proceed, WriteReturns
<1>4. CASE Command \/ Send \/ Consume \/ Refuse \/ WaitEvent \/ Process \/ Timeout
  BY <1>4 DEF Command, Begin, expects, line, wires, Send, bottom, inbox, module, Consume,
     Refuse, Go, WaitEvent, Process, Return, Answers, Resumed, Timeout, Panic
<1>5. CASE Start \/ SpiOpen \/ SwitchOff \/ SwitchOn \/ wlan_stop \/ SpiClose \/ Reset
  BY <1>5 DEF Start, bottom, line, module, wires, SpiOpen, Go, expects, inbox, SwitchOff, Off,
     PlaceInv, SwitchOn, wlan_stop, SpiClose, Reset
<1>6. CASE UseFlash \/ sFLASH_CS_LOW \/ Deselect \/ ReleaseBus \/ handle_spi_request
  BY <1>6 DEF UseFlash, Go, above, expects, inbox, line, module, wires, sFLASH_CS_LOW, Deselect,
     ReleaseBus, handle_spi_request, StartRead, CC3000_CS_LOW
<1>7. CASE Module
  BY <1>7 DEF Module, Boot, PullIrq, expects, inbox, software, thread, wires, Signal, module,
     Event, Tell, line, FreeBuffer
<1>8. QED
  BY <1>1, <1>2, <1>3, <1>4, <1>5, <1>6, <1>7 DEF Next, Thread, Continue

LEMMA PlaceKept ==
  ASSUME IInv, PlaceInv, Next
  PROVE  PlaceInv'
<1> USE DEF PlaceInv, Rest
<1>1. CASE PinPowerup
  BY <1>1 DEF PinPowerup, Edge, expects, inbox, module, thread, wires
<1>2. CASE PinRead
  BY <1>2 DEF PinRead, Edge, StartRead, CC3000_CS_LOW, expects, inbox, module, software, thread
<1>3. CASE PinPostpone
  BY <1>3 DEF PinPostpone, Edge, expects, inbox, module, software, thread, wires
<1>4. CASE PinGrant
  BY <1>4 DEF PinGrant, Edge, expects, inbox, module, software, thread, wires, IInv, TransferInv
<1>5. CASE PinIgnored
  BY <1>5 DEF PinIgnored, Edge, expects, inbox, module, software, thread, wires
<1>6. CASE HeaderRead
  BY <1>6 DEF HeaderRead, Ended, Panic, expects, inbox, line, module, thread, wires
<1>7. CASE BodyRead
  BY <1>7 DEF BodyRead, Ended, SpiReceiveHandler, CC3000_CS_HIGH, expects, thread
<1>8. CASE FirstWritten
  BY <1>8 DEF FirstWritten, Ended, expects, inbox, line, module, software, thread, wires, IInv,
     TransferInv
<1>9. CASE Written
  BY <1>9 DEF Written, Ended, Deliver, CC3000_CS_HIGH, expects, inbox, module, software, thread,
     IInv, TransferInv
<1>10. CASE Unexpected
  BY <1>10 DEF Unexpected, IInv, TransferInv, Panic, expects, inbox, line, module, wires
<1>11. CASE FirstWrite
  BY <1>11 DEF FirstWrite, CC3000_CS_LOW, SpiSetUp, WriteOverBuffer, Go, line, module
<1>12. CASE WriteRest
  BY <1>12 DEF WriteRest, WriteOverBuffer, Go, expects, line, module, wires, IInv, TransferInv
<1>13. CASE Reserve
  BY <1>13 DEF Reserve, CC3000_CS_LOW, SpiSetUp, Go, inbox, line, module, IInv, TransferInv
<1>14. CASE Proceed
  BY <1>14 DEF Proceed, WriteOverBuffer, Go, expects, line, module, wires, IInv, TransferInv
<1>15. CASE WriteReturns
  BY <1>15 DEF WriteReturns, expects, inbox, line, module, wires
<1>16. CASE Command
  BY <1>16 DEF Command, Begin, expects, line, wires
<1>17. CASE Send
  BY <1>17 DEF Send, bottom, expects, inbox, line, module, wires
<1>18. CASE Consume
  BY <1>18 DEF Consume, Begin, expects, line, wires
<1>19. CASE Refuse
  BY <1>19 DEF Refuse, Go, bottom, expects, inbox, line, module, wires
<1>20. CASE WaitEvent
  BY <1>20 DEF WaitEvent, Go, bottom, inbox, line, module, wires
<1>21. CASE Process
  BY <1>21 DEF Process, Return, Answers, Resumed, bottom, line, module, wires
<1>22. CASE Timeout
  BY <1>22 DEF Timeout, Return, Panic, bottom, inbox, line, module, wires
<1>23. CASE Start
  BY <1>23 DEF Start, bottom, line, module, wires
<1>24. CASE SpiOpen
  BY <1>24 DEF SpiOpen, Go, expects, inbox, line, module, wires
<1>25. CASE SwitchOff
  BY <1>25 DEF SwitchOff, Off, Go, expects, inbox, wires
<1>26. CASE SwitchOn
  BY <1>26 DEF SwitchOn, Go, expects, inbox, wires
<1>27. CASE wlan_stop
  BY <1>27 DEF wlan_stop, Off, Go, expects, inbox, wires
<1>28. CASE SpiClose
  BY <1>28 DEF SpiClose, Go, bottom, expects, inbox, line, module, wires
<1>29. CASE Reset
  BY <1>29 DEF Reset, Off
<1>30. CASE UseFlash
  BY <1>30 DEF UseFlash, Go, above, expects, inbox, line, module, wires
<1>31. CASE sFLASH_CS_LOW
  BY <1>31 DEF sFLASH_CS_LOW, Go, above, expects, inbox, line, module
<1>32. CASE Deselect
  BY <1>32 DEF Deselect, Go, above, expects, inbox, line, module
<1>33. CASE ReleaseBus
  BY <1>33 DEF ReleaseBus, Go, above, expects, inbox, line, module
<1>34. CASE handle_spi_request
  BY <1>34 DEF handle_spi_request, StartRead, CC3000_CS_LOW, Go, above, expects, inbox, line,
     module, wires
<1>35. CASE Boot
  BY <1>35 DEF Boot, PullIrq, expects, inbox, software, thread, wires
<1>36. CASE Signal
  BY <1>36 DEF Signal, PullIrq, expects, inbox, module, software, thread, wires
<1>37. CASE Event
  BY <1>37 DEF Event, Tell, expects, inbox, line, software, thread, wires
<1>38. CASE FreeBuffer
  BY <1>38 DEF FreeBuffer, Tell, expects, inbox, line, software, thread, wires
<1>39. QED
  BY <1>1, <1>2, <1>3, <1>4, <1>5, <1>6, <1>7, <1>8, <1>9, <1>10, <1>11, <1>12, <1>13, <1>14,
     <1>15, <1>16, <1>17, <1>18, <1>19, <1>20, <1>21, <1>22, <1>23, <1>24, <1>25, <1>26, <1>27,
     <1>28, <1>29, <1>30, <1>31, <1>32, <1>33, <1>34, <1>35, <1>36, <1>37, <1>38
     DEF Next, Thread, Continue, Module, PinInterrupt, DmaInterrupt, SpiWrite

-----------------------------------------------------------------------------
(* The count is kept.                                                      *)

\* Steps that book no buffer elsewhere.
LEMMA SameBooking ==
  ASSUME CountInv, UNCHANGED <<held, free>>,
         queue' \in Seq(Message), buffer' \in Message, Announced(queue') = Announced(queue),
         InHand' <= InHand, InHand' \in Nat, InHand \in Nat,
         Fresh' => Fresh,
         Known' => Known /\ InHand' = InHand
  PROVE  CountInv'
<1>1. Announced(queue) \in Nat
  BY AnnouncedIsNat DEF CountInv
<1>2. QED
  BY <1>1, RadioAssumption DEF CountInv, Booked, RadioAssumption

LEMMA InHandIsNat ==
  InHand \in {0, 1} /\ InHand' \in {0, 1}
BY DEF InHand

LEMMA MessagesKnown ==
  Plain("event") \in Message /\ Plain("junk") \in Message /\ NoMessage \in Message
  /\ Plain("free") \in Message
BY DEF Plain, NoMessage, Message

\* Steps that leave messages, counts and the place of the thread alone.
LEMMA OnlyBus ==
  ASSUME CountInv, UNCHANGED <<module, buffer, free, thread>>, mishaps \subseteq mishaps',
         InHand' = InHand
  PROVE  CountInv'
BY SameBooking, InHandIsNat DEF CountInv, module, thread, Known, Sized, Fresh

LEMMA PinKeepsCount ==
  ASSUME PlaceInv, CountInv, PinInterrupt
  PROVE  CountInv'
<1> USE DEF software, thread, inbox
<1>1. CASE PinPowerup
  BY <1>1, OnlyBus DEF PinPowerup, PlaceInv, InHand
<1>2. CASE PinRead
  BY <1>2, OnlyBus DEF PinRead, StartRead, InHand
<1>3. CASE PinPostpone
  BY <1>3, OnlyBus DEF PinPostpone, InHand
<1>4. CASE PinGrant
  BY <1>4, OnlyBus DEF PinGrant, PlaceInv, InHand
<1>5. CASE PinIgnored
  BY <1>5, OnlyBus DEF PinIgnored, InHand
<1>6. QED
  BY <1>1, <1>2, <1>3, <1>4, <1>5 DEF PinInterrupt

\* After a panic nothing is booked, nor known.
LEMMA PanicKeepsCount ==
  ASSUME CountInv, UNCHANGED <<module, buffer, free>>, Panic
  PROVE  CountInv'
<1>1. ~Fresh' /\ ~Known' /\ InHand' = 0
  BY DEF Panic, Fresh, Known, Sized, InHand, Busy, Rest
<1>2. QED
  BY <1>1, SameBooking, InHandIsNat DEF CountInv, module

\* SpiReceiveHandler counts what the module has announced.
LEMMA ReceivedIsCounted ==
  ASSUME NEW m \in Message, free \in Nat, SpiReceiveHandler(m)
  PROVE  free' = free + Counts(m) /\ free' \in Nat /\ mishaps \subseteq mishaps'
         /\ (buffer' = m \/ buffer' = NoMessage)
BY DEF SpiReceiveHandler, Counted, Counts

LEMMA BodyReadKeepsCount ==
  ASSUME CountInv, BodyRead
  PROVE  CountInv'
<1>1. UNCHANGED <<pc, op, patching, chip, held>> /\ InHand' = InHand
  BY DEF BodyRead, Ended, thread, InHand
<1>2. (Known' => mishaps' = {} /\ chip = "ready" /\ Sized) /\ (Fresh' => Fresh)
  BY <1>1 DEF Known, Sized, Fresh
<1>3. CASE Speaks
  <2>1. /\ SpiReceiveHandler(Head(queue)) /\ queue' = Tail(queue) /\ queue # <<>>
    BY <1>3 DEF BodyRead, Speaks
  <2>2. /\ Head(queue) \in Message /\ Tail(queue) \in Seq(Message)
        /\ Announced(queue) = Announced(Tail(queue)) + Counts(Head(queue))
        /\ Announced(queue) \in Nat /\ Announced(Tail(queue)) \in Nat
    BY <2>1, AnnouncedOfTail, AnnouncedIsNat DEF CountInv
  <2>3. /\ free' = free + Counts(Head(queue)) /\ free' \in Nat /\ mishaps \subseteq mishaps'
        /\ buffer' \in Message
    BY <2>1, <2>2, ReceivedIsCounted, MessagesKnown DEF CountInv
  <2>4. Counts(Head(queue)) \in Nat
    BY DEF Counts
  <2>5. Booked' = Booked
    <3> DEFINE c == Counts(Head(queue))
               rest == Announced(Tail(queue))
    <3>1. Booked = free + held + (rest + c) + InHand
      BY <2>2 DEF Booked
    <3>2. Booked' = (free + c) + held + rest + InHand
      BY <1>1, <2>1, <2>3 DEF Booked
    <3>3. free \in Nat /\ held \in Nat /\ InHand \in Nat /\ rest \in Nat /\ c \in Nat
      BY <2>2, <2>4, InHandIsNat DEF CountInv
    <3> HIDE DEF c, rest
    <3>4. QED
      BY <3>1, <3>2, <3>3
  <2>6. Fresh => Announced(queue') = 0
    <3>1. Fresh => Announced(queue) = 0
      BY DEF CountInv
    <3>2. QED
      BY <2>1, <2>2, <2>4, <3>1
  <2>7. Known' => Known
    BY <1>2, <2>3 DEF Known
  <2>8. QED
    BY <1>1, <1>2, <2>1, <2>2, <2>3, <2>5, <2>6, <2>7 DEF CountInv
<1>4. CASE ~Speaks
  <2>1. PICK m \in Garbled : SpiReceiveHandler(m) /\ UNCHANGED queue
    BY <1>4 DEF BodyRead
  <2>2. m \in Message /\ Counts(m) = 0
    <3>1. Counts(Plain("event")) = 0 /\ Counts(Plain("junk")) = 0
      BY DEF Counts, Plain
    <3>2. QED
      BY <3>1, MessagesKnown DEF Garbled
  <2>3. free' = free /\ mishaps \subseteq mishaps' /\ buffer' \in Message
    BY <2>1, <2>2, ReceivedIsCounted, MessagesKnown DEF CountInv
  <2>4. QED
    BY <1>1, <1>2, <2>1, <2>3, SameBooking, InHandIsNat DEF CountInv, Known
<1>5. QED
  BY <1>3, <1>4

\* What was in the hands of SpiWrite is in use by the module now.
LEMMA WrittenKeepsCount ==
  ASSUME Shape, Bits, PlaceInv, BootInv, CountInv, Written
  PROVE  CountInv'
<1>1. /\ pc = "write" /\ UNCHANGED <<pc, op, patching, free, buffer, mishaps>>
      /\ spi = "WRITE_PROCEED" /\ InHand' = 0
  BY DEF Written, Ended, PlaceInv, software, thread, inbox, InHand
<1>2. InHand = IF op = "send" /\ ~patching THEN 1 ELSE 0
  BY <1>1 DEF InHand
<1>3. CASE chip = "ready"
  <2>1. PICK r \in Replies(op, patching) : queue' = queue \o r
    BY <1>3 DEF Written, Deliver
  <2>2. queue' \in Seq(Message) /\ Announced(queue') = Announced(queue)
    BY <2>1, AnnouncedOfReply DEF CountInv, Shape, Bits, Announced
  <2>3. held' = held + InHand /\ chip' = chip
    BY <1>2, <1>3, InHandIsNat DEF Written, Deliver, CountInv
  <2>4. (Fresh' => Fresh /\ InHand = 0) /\ (Known' => Known)
    BY <1>1, <1>2, <2>3 DEF Fresh, Known, Sized
  <2>5. QED
    BY <1>1, <2>2, <2>3, <2>4, AnnouncedIsNat, InHandIsNat, RadioAssumption
       DEF CountInv, Booked, RadioAssumption
<1>4. CASE chip # "ready"
  BY <1>1, <1>4, SameBooking, InHandIsNat
     DEF Written, Deliver, module, CountInv, Known, Fresh
<1>5. QED
  BY <1>3, <1>4

LEMMA DmaKeepsCount ==
  ASSUME Shape, Bits, PlaceInv, BootInv, CountInv, DmaInterrupt
  PROVE  CountInv'
<1>1. CASE HeaderRead /\ UNCHANGED thread
  BY <1>1, OnlyBus DEF HeaderRead, Ended, InHand, inbox, thread
<1>2. CASE HeaderRead /\ Panic
  BY <1>2, PanicKeepsCount DEF HeaderRead, inbox
<1>3. CASE FirstWritten
  BY <1>3, OnlyBus DEF FirstWritten, Ended, PlaceInv, InHand, software, inbox, thread
<1>4. CASE Unexpected
  BY <1>4, PanicKeepsCount DEF Unexpected, inbox
<1>5. QED
  BY <1>1, <1>2, <1>3, <1>4, BodyReadKeepsCount, WrittenKeepsCount DEF DmaInterrupt, HeaderRead

LEMMA SpiWriteKeepsCount ==
  ASSUME IInv, PlaceInv, CountInv, SpiWrite
  PROVE  CountInv'
<1> USE SameBooking, InHandIsNat DEF CountInv, module, Go, Known, Sized, Fresh, Busy, Rest
<1>1. WriteOverBuffer => buffer' \in Message
  BY MessagesKnown DEF WriteOverBuffer, Garbled
<1>2. CASE FirstWrite
  <2>1. op = "start" /\ InHand' = 0 /\ InHand = 0
    BY <1>2 DEF FirstWrite, PlaceInv, InHand
  <2>2. QED
    BY <1>1, <1>2, <2>1 DEF FirstWrite
<1>3. CASE WriteRest
  <2>1. op = "start" /\ InHand' = 0 /\ InHand = 0
    BY <1>3 DEF WriteRest, PlaceInv, InHand
  <2>2. QED
    BY <1>1, <1>3, <2>1 DEF WriteRest
<1>4. CASE Reserve
  <2>1. InHand' = InHand
    BY <1>4 DEF Reserve, InHand
  <2>2. QED
    BY <1>4, <2>1 DEF Reserve, inbox
<1>5. CASE Proceed
  <2>1. InHand' = InHand
    BY <1>5 DEF Proceed, InHand
  <2>2. QED
    BY <1>1, <1>5, <2>1 DEF Proceed
<1>6. CASE WriteReturns
  <2>1. InHand' = InHand
    BY <1>6 DEF WriteReturns, InHand
  <2>2. QED
    BY <1>6, <2>1 DEF WriteReturns, inbox
<1>7. QED
  BY <1>2, <1>3, <1>4, <1>5, <1>6 DEF SpiWrite

\* Beginning a command only makes messages older.
LEMMA BeginAges ==
  ASSUME CountInv, NEW o \in Ops, Begin(o)
  PROVE  /\ queue' \in Seq(Message) /\ buffer' \in Message
         /\ Announced(queue') = Announced(queue)
<1>1. \A m \in Message : Aged(m) \in Message
  BY DEF Aged, Message
<1>2. QED
  BY <1>1, AnnouncedOfAged DEF Begin, CountInv, Announced

LEMMA CommandsKeepCount ==
  ASSUME Shape, PlaceInv, AwaitInv, CountInv,
         Command \/ Send \/ Consume \/ Refuse \/ WaitEvent
  PROVE  CountInv'
<1> USE DEF Known, Sized, Fresh, Busy, Rest
<1>1. CASE Command
  <2>1. PICK o \in Commands \cup {"recv"} : Begin(o)
    BY <1>1 DEF Command
  <2>2. o \in Ops /\ o \notin {"start", "size", "send"}
    BY RadioAssumption DEF RadioAssumption, Ops
  <2>3. InHand' = 0 /\ InHand = 0
    BY <1>1, <2>1, <2>2 DEF Command, Begin, InHand
  <2>4. QED
    BY <1>1, <2>1, <2>2, <2>3, BeginAges, SameBooking DEF Command, Begin
<1>2. CASE Send \/ Refuse \/ WaitEvent
  <2>1. InHand' = InHand
    BY <1>2 DEF Send, Refuse, WaitEvent, Go, InHand
  <2>2. UNCHANGED <<held, free, queue, buffer, chip, mishaps>>
    BY <1>2 DEF Send, Refuse, WaitEvent, bottom, module, inbox
  <2>3. (Fresh' => Fresh) /\ (Sized' => Sized)
    BY <1>2 DEF Send, Refuse, WaitEvent, Go, PlaceInv
  <2>4. QED
    BY <2>1, <2>2, <2>3, SameBooking, InHandIsNat DEF CountInv, Announced
<1>3. CASE Consume
  <2>1. Begin("send") /\ "send" \in Ops /\ patching = FALSE
    BY <1>3 DEF Consume, Ops, PlaceInv, Shape
  <2>2. InHand' = 1 /\ InHand = 0 /\ ~Fresh'
    BY <1>3, <2>1 DEF Consume, Begin, InHand
  <2>3. /\ free' = free - 1 /\ free' \in Nat /\ held' = held
        /\ Announced(queue') = Announced(queue) /\ Announced(queue) \in Nat
    BY <1>3, <2>1, BeginAges, AnnouncedIsNat DEF Consume, Begin, CountInv
  <2>4. Booked' = Booked
    BY <2>2, <2>3 DEF Booked, CountInv
  <2>5. Known' => Known
    BY <1>3, <2>1 DEF Consume, Begin, PlaceInv
  <2>6. QED
    BY <2>1, <2>2, <2>3, <2>4, <2>5, BeginAges DEF CountInv
<1>4. QED
  BY <1>1, <1>2, <1>3

\* The answer to wlan_start's question finds an empty module.
LEMMA ProcessKeepsCount ==
  ASSUME Shape, PlaceInv, AwaitInv, CountInv, Process
  PROVE  CountInv'
<1>1. /\ pc = "handle" /\ buffer' = NoMessage /\ buffer' \in Message
      /\ UNCHANGED <<queue, held, chip, mishaps>>
  BY MessagesKnown DEF Process, bottom, module
<1>2. InHand = 0 /\ InHand' = 0
  BY <1>1 DEF Process, Return, InHand
<1>3. CASE op = "size"
  <2>1. Fresh /\ held = 0 /\ Announced(queue) = 0
    BY <1>1, <1>3 DEF Fresh, Busy, CountInv
  <2>2. free' = IF Answers(buffer) THEN Buffers ELSE free
    BY <1>3 DEF Process
  <2>3. Known' => free' = Buffers
    <3>1. CASE Answers(buffer)
      BY <2>2, <3>1
    <3>2. CASE ~Answers(buffer)
      <4>1. awaited' = "size" /\ "size" # "none"
        BY <1>1, <1>3, <3>2 DEF Process, AwaitInv
      <4>2. op' = op /\ pc' \in {"begin", "handle"}
        BY <1>1, <1>3, <3>2, <4>1 DEF Process
      <4>3. QED
        BY <1>3, <4>2 DEF Known, Sized, Rest
    <3>3. QED
      BY <3>1, <3>2
  <2>4. QED
    BY <1>1, <1>2, <2>1, <2>2, <2>3, RadioAssumption DEF CountInv, Booked, RadioAssumption
<1>4. CASE op # "size"
  <2>1. free' = free /\ (Fresh' => Fresh)
    BY <1>1, <1>4 DEF Process, Return, Fresh, Busy
  <2>2. Known' => Known
    BY <1>1, <1>4 DEF Process, Return, Known, Sized, Busy, Rest
  <2>3. QED
    BY <1>1, <1>2, <2>1, <2>2, SameBooking DEF CountInv
<1>5. QED
  BY <1>3, <1>4

LEMMA TimeoutKeepsCount ==
  ASSUME CountInv, Timeout
  PROVE  CountInv'
<1>1. ~Known' /\ InHand = 0 /\ InHand' = 0
  BY DEF Timeout, Return, Panic, Known, InHand
<1>2. Fresh' => Fresh
  BY DEF Timeout, Return, Panic, Fresh, Busy
<1>3. QED
  BY <1>1, <1>2, SameBooking DEF Timeout, bottom, module, inbox, CountInv

\* Switching the module off empties it.
LEMMA OffKeepsCount ==
  ASSUME CountInv, Off, UNCHANGED <<free, buffer>>, InHand' = 0
  PROVE  CountInv'
<1>1. /\ held' = 0 /\ queue' \in Seq(Message) /\ Announced(queue') = 0 /\ ~Known'
  BY AnnouncedOfNone DEF Off, Known
<1>2. QED
  BY <1>1, AnnouncedIsNat, InHandIsNat, RadioAssumption DEF CountInv, Booked, RadioAssumption

LEMMA SwitchingKeepsCount ==
  ASSUME PlaceInv, BootInv, CountInv,
         Start \/ SpiOpen \/ SwitchOff \/ SwitchOn \/ wlan_stop \/ SpiClose \/ Reset
  PROVE  CountInv'
<1> USE DEF Go, inbox, bottom, module
<1>1. CASE Start
  <2>1. /\ UNCHANGED <<queue, held>> /\ free' = 0 /\ buffer' \in Message
        /\ InHand' = 0 /\ InHand = 0 /\ ~Known' /\ ~Fresh'
    BY <1>1, MessagesKnown DEF Start, InHand, Known, Sized, Fresh, Rest, Busy
  <2>2. QED
    BY <2>1, AnnouncedIsNat, RadioAssumption DEF CountInv, Booked, RadioAssumption
<1>2. CASE SpiOpen
  <2>1. /\ UNCHANGED <<queue, held, free, buffer>>
        /\ InHand' = 0 /\ InHand = 0 /\ ~Known' /\ ~Fresh'
    BY <1>2 DEF SpiOpen, InHand, Known, Sized, Fresh, Rest, Busy
  <2>2. QED
    BY <2>1, SameBooking DEF CountInv
<1>3. CASE SwitchOff
  BY <1>3, OffKeepsCount DEF SwitchOff, InHand
<1>4. CASE SwitchOn
  <2>1. /\ UNCHANGED <<queue, held, free, buffer>> /\ op = "start" /\ op' = "start"
        /\ InHand' = 0 /\ InHand = 0 /\ ~Known' /\ Fresh
    BY <1>4 DEF SwitchOn, PlaceInv, InHand, Known, Fresh
  <2>2. QED
    BY <2>1, SameBooking DEF CountInv
<1>5. CASE wlan_stop
  BY <1>5, OffKeepsCount DEF wlan_stop, InHand
<1>6. CASE SpiClose
  <2>1. /\ UNCHANGED <<queue, held, free, buffer>> /\ chip' = "off"
        /\ InHand' = 0 /\ InHand = 0 /\ ~Known' /\ ~Fresh'
    BY <1>6 DEF SpiClose, PlaceInv, InHand, Known, Fresh, Busy
  <2>2. QED
    BY <2>1, SameBooking DEF CountInv
<1>7. CASE Reset
  <2>1. /\ held' = 0 /\ free' = 0 /\ queue' = <<>> /\ buffer' \in Message
        /\ InHand' = 0 /\ ~Known' /\ ~Fresh'
    BY <1>7, MessagesKnown DEF Reset, Off, InHand, Known, Fresh, Busy
  <2>2. QED
    BY <2>1, AnnouncedOfNone, RadioAssumption DEF CountInv, Booked, RadioAssumption
<1>8. QED
  BY <1>1, <1>2, <1>3, <1>4, <1>5, <1>6, <1>7

LEMMA FlashKeepsCount ==
  ASSUME CountInv,
         UseFlash \/ sFLASH_CS_LOW \/ Deselect \/ ReleaseBus \/ handle_spi_request
  PROVE  CountInv'
<1>1. /\ UNCHANGED <<queue, held, free, buffer, chip, mishaps, op>>
      /\ pc \in Rest /\ pc' \in Rest
  BY DEF UseFlash, sFLASH_CS_LOW, Deselect, ReleaseBus, handle_spi_request, Go, above, module,
     inbox, Rest
<1>2. InHand = 0 /\ InHand' = 0 /\ ~Fresh' /\ (Known' => Known)
  BY <1>1 DEF InHand, Rest, Fresh, Busy, Known, Sized
<1>3. QED
  BY <1>1, <1>2, SameBooking DEF CountInv

\* What the module announces it does not use any more.
LEMMA ModuleKeepsCount ==
  ASSUME PlaceInv, BootInv, CountInv, Module
  PROVE  CountInv'
<1> USE DEF software, inbox, thread, module
<1>1. CASE Boot
  <2>1. UNCHANGED <<queue, held, free, buffer, pc, op, mishaps>> /\ InHand' = InHand
    BY <1>1 DEF Boot, InHand
  <2>2. ~Known'
    BY <1>1, <2>1 DEF Boot, PlaceInv, BootInv, Known, Sized, Rest, Busy
  <2>3. QED
    BY <2>1, <2>2, SameBooking, InHandIsNat DEF CountInv, Fresh
<1>2. CASE Signal
  BY <1>2, OnlyBus DEF Signal, InHand
<1>3. CASE Event
  <2>1. /\ UNCHANGED <<held, free, buffer, pc, op, mishaps, chip>> /\ InHand' = InHand
        /\ queue' = Append(queue, Plain("event"))
    BY <1>3 DEF Event, Tell, InHand
  <2>2. Counts(Plain("event")) = 0
    BY DEF Counts, Plain
  <2>3. queue' \in Seq(Message) /\ Announced(queue') = Announced(queue)
    BY <2>1, <2>2, AnnouncedOfAppend, AnnouncedIsNat, MessagesKnown DEF CountInv
  <2>4. QED
    BY <2>1, <2>3, SameBooking, InHandIsNat DEF CountInv, Fresh, Known, Sized
<1>4. CASE FreeBuffer
  <2>1. /\ UNCHANGED <<free, buffer, pc, op, mishaps, chip>> /\ InHand' = InHand
        /\ held > 0 /\ held' = held - 1 /\ queue' = Append(queue, Plain("free"))
    BY <1>4 DEF FreeBuffer, Tell, InHand
  <2>2. Counts(Plain("free")) = 1
    BY DEF Counts, Plain
  <2>3. queue' \in Seq(Message) /\ Announced(queue') = Announced(queue) + 1
    BY <2>1, <2>2, AnnouncedOfAppend, AnnouncedIsNat, MessagesKnown DEF CountInv
  <2>4. held' \in Nat /\ Booked' = Booked
    BY <2>1, <2>3, AnnouncedIsNat, InHandIsNat DEF CountInv, Booked
  <2>5. ~Fresh /\ (Fresh' => Fresh) /\ (Known' => Known)
    BY <2>1 DEF CountInv, Fresh, Known, Sized
  <2>6. QED
    BY <2>1, <2>3, <2>4, <2>5 DEF CountInv
<1>5. QED
  BY <1>1, <1>2, <1>3, <1>4 DEF Module

-----------------------------------------------------------------------------

BuffersInv == IInv /\ ControlInv /\ CountInv

LEMMA InitAddsUp ==
  ASSUME Init
  PROVE  BuffersInv
<1>1. ControlInv
  BY DEF Init, ControlInv, Bits, Shape, PlaceInv, AwaitInv, BootInv, Rest, Busy, Ops
<1>2. CountInv
  BY MessagesKnown, AnnouncedOfNone, RadioAssumption
     DEF Init, CountInv, Booked, InHand, Known, Fresh, RadioAssumption
<1>3. QED
  BY <1>1, <1>2, InitEstablishes DEF BuffersInv

LEMMA StepAddsUp ==
  ASSUME BuffersInv, [Next]_vars
  PROVE  BuffersInv'
<1>1. CASE Next
  <2>1. ControlInv'
    BY <1>1, BitsKept, ShapeKept, AwaitKept, BootKept, PlaceKept DEF BuffersInv, ControlInv
  <2>2. CountInv'
    BY <1>1, PinKeepsCount, DmaKeepsCount, SpiWriteKeepsCount, CommandsKeepCount,
       ProcessKeepsCount, TimeoutKeepsCount, SwitchingKeepsCount, FlashKeepsCount,
       ModuleKeepsCount
       DEF BuffersInv, ControlInv, Next, Thread, Continue
  <2>3. QED
    BY <2>1, <2>2, StepKeeps DEF BuffersInv
<1>2. CASE UNCHANGED vars
  <2>1. ControlInv'
    BY <1>2 DEF vars, wires, line, module, inbox, expects, thread,
       BuffersInv, ControlInv, Bits, Shape, PlaceInv, AwaitInv, BootInv
  <2>2. CountInv'
    BY <1>2 DEF vars, wires, line, module, inbox, expects, thread,
       BuffersInv, CountInv, Booked, InHand, Known, Sized, Fresh
  <2>3. QED
    BY <2>1, <2>2, StepKeeps DEF BuffersInv
<1>3. QED
  BY <1>1, <1>2

LEMMA AddsUp == Spec => []BuffersInv
<1>1. Init => BuffersInv
  BY InitAddsUp
<1>2. BuffersInv /\ [Next]_vars => BuffersInv'
  BY StepAddsUp
<1>3. QED
  BY <1>1, <1>2, PTL DEF Spec

\* Type correctness of the driver, with counters between zero and the number of
\* buffers of the module.
THEOREM TypeCorrect == Spec => []TypeOK
<1>1. BuffersInv => TypeOK
  <2>1. ASSUME BuffersInv PROVE free \in 0 .. Buffers /\ held \in 0 .. Buffers
    BY <2>1, AnnouncedIsNat, InHandIsNat, RadioAssumption
       DEF BuffersInv, CountInv, Booked, RadioAssumption
  <2>2. QED
    BY <2>1 DEF BuffersInv, ControlInv, Bits, Shape, IInv, BusInv, CountInv, TypeOK, Rest, Busy
<1>2. QED
  BY <1>1, AddsUp, PTL

\* HostFlowControlConsumeBuff, the events of buffers that are free again and
\* the answer to wlan_start never make the host believe in a buffer that is in
\* use, for any number of buffers; and unless something has gone wrong it knows
\* of all of them.
THEOREM NoBufferTwice == Spec => []BuffersAddUp
<1>1. BuffersInv => BuffersAddUp
  <2> SUFFICES ASSUME BuffersInv PROVE BuffersAddUp
    OBVIOUS
  <2>1. FreeMessages = FreeIn(queue)
    BY DEF FreeMessages, FreeIn
  <2>2. free + Used = Booked
    BY <2>1, AnnouncedIsNat, InHandIsNat DEF Used, Booked, Announced, BuffersInv, CountInv
  <2>3. pc = "idle" /\ chip = "ready" /\ mishaps = {} => Known
    BY DEF Known, Sized, Rest
  <2>4. QED
    BY <2>2, <2>3 DEF BuffersAddUp, BuffersInv, CountInv
<1>2. QED
  BY <1>1, AddsUp, PTL

-----------------------------------------------------------------------------
(* Why the driver stops.  An assertion fails when a transfer ends in a     *)
(* state that knows of none, or when a header is read of a module that has *)
(* nothing to say.                                                         *)

Cause == "cutOff" \in mishaps \/ "hasty" \in mishaps \/ "gaveUp" \in mishaps

\* While nothing went wrong, a read is begun only for a message: when the
\* module asked to be read on its own, not to start or to grant a write.
QuietInv ==
  /\ bus = "flash" => pc \in {"flash", "release", "panic"}
  /\ Cause \/
       /\ pc # "panic"
       /\ transfer = TRUE => spi \in {"READ_IRQ", "READ_PROCEED", "FIRST_WRITE", "WRITE_PROCEED"}
       /\ spi = "READ_IRQ" => transfer = TRUE /\ Speaks
       /\ spi = "READ_PREP_IRQ" => Speaks /\ pc \in {"flash", "release", "request"}
       /\ spi = "IDLE" => csRadio = FALSE
       /\ irqLow = TRUE /\ csRadio = FALSE => queue # <<>> \/ spi \in {"POWERUP", "INITIALIZED"}
       /\ chip = "booting" \/ pc \in {"opened", "disabled"} => spi = "POWERUP"

LEMMA QuietKept ==
  ASSUME IInv, Bits, Shape, PlaceInv, BootInv, QuietInv, Next
  PROVE  QuietInv'
<1> USE DEF IInv, BusInv, TransferInv, Bits, PlaceInv, BootInv, QuietInv, Cause, Speaks, Rest
<1>1. CASE PinInterrupt
  <2> USE DEF Edge, software, thread, module
  <2>1. CASE PinPowerup
    BY <2>1 DEF PinPowerup, wires
  <2>2. CASE PinRead
    BY <2>2 DEF PinRead, StartRead, CC3000_CS_LOW
  <2>3. CASE PinPostpone
    BY <2>3 DEF PinPostpone, MayAcquire, Shape, wires
  <2>4. CASE PinGrant
    BY <2>4 DEF PinGrant, wires
  <2>5. CASE PinIgnored
    BY <2>5 DEF PinIgnored, wires
  <2>6. QED
    BY <1>1, <2>1, <2>2, <2>3, <2>4, <2>5 DEF PinInterrupt
<1>2. CASE DmaInterrupt
  BY <1>2 DEF DmaInterrupt, HeaderRead, Ended, Panic, expects, inbox, line, module, thread,
     wires, BodyRead, SpiReceiveHandler, CC3000_CS_HIGH, FirstWritten, software, Written,
     Deliver, Unexpected
<1>3. CASE SpiWrite
  BY <1>3 DEF SpiWrite, FirstWrite, CC3000_CS_LOW, SpiSetUp, WriteOverBuffer, Go, line, module,
     WriteRest, expects, wires, Reserve, inbox, Proceed, WriteReturns
<1>4. CASE Command \/ Send \/ Consume \/ Refuse \/ WaitEvent \/ Process \/ Timeout
  BY <1>4 DEF Command, Begin, expects, line, wires, Send, bottom, inbox, module, Consume,
     Refuse, Go, WaitEvent, Process, Return, Answers, Resumed, Timeout, Panic
<1>5. CASE Start \/ SpiOpen \/ SwitchOff \/ SwitchOn \/ wlan_stop \/ SpiClose \/ Reset
  BY <1>5 DEF Start, bottom, line, module, wires, SpiOpen, Go, expects, inbox, SwitchOff, Off,
     PlaceInv, SwitchOn, wlan_stop, SpiClose, Reset
<1>6. CASE UseFlash \/ sFLASH_CS_LOW \/ Deselect \/ ReleaseBus \/ handle_spi_request
  <2> USE DEF Go, above, line, module
  <2>1. CASE UseFlash
    BY <2>1 DEF UseFlash, wires
  <2>2. CASE sFLASH_CS_LOW
    BY <2>2 DEF sFLASH_CS_LOW
  <2>3. CASE Deselect
    BY <2>3 DEF Deselect
  <2>4. CASE ReleaseBus
    BY <2>4 DEF ReleaseBus
  <2>5. CASE handle_spi_request
    BY <2>5 DEF handle_spi_request, StartRead, CC3000_CS_LOW, MayAcquire, Shape, wires
  <2>6. QED
    BY <1>6, <2>1, <2>2, <2>3, <2>4, <2>5
<1>7. CASE Module
  BY <1>7 DEF Module, Boot, PullIrq, expects, inbox, software, thread, wires, Signal, module,
     Event, Tell, line, FreeBuffer
<1>8. QED
  BY <1>1, <1>2, <1>3, <1>4, <1>5, <1>6, <1>7 DEF Next, Thread, Continue

-----------------------------------------------------------------------------
(* Which command a message answers.                                        *)

Reply(m) == m.type \in {"answer", "inactive", "data", "patches"}
RepliesIn(q) == {i \in DOMAIN q : Reply(q[i])}
\* The answer to a recv that is followed by data.
Announces(m) == m.type = "answer" /\ m.op = "recv" /\ m.more

\* A reply is followed by nothing but the data it announces.
InOrder(q) ==
  \A i, j \in RepliesIn(q) : i < j => Announces(q[i]) /\ q[j].type = "data"
NoneOld(q) == \A i \in RepliesIn(q) : ~q[i].old

\* The module says nothing while it is off or boots, and no garbage at all.
SilentInv ==
  /\ chip # "ready" => queue = <<>>
  /\ \A i \in DOMAIN queue : queue[i].type # "junk"

\* The thread has not yet sent what will be answered.
Unasked ==
  pc \in Rest \cup {"consume", "stopping", "disabled", "begin", "first", "grant"}
    \/ (pc = "write" /\ spi = "WRITE_PROCEED")
\* A message of before wlan_start may be in the buffer until the first write.
Starting == op = "start" /\ patching = FALSE /\ pc \in {"disabled", "begin", "grant"}

\* As long as the thread has never given up waiting, all there is of replies is
\* what is left of the reply to the command it has sent.
ReplyInv == "gaveUp" \notin mishaps =>
  /\ patching = TRUE => dataPending = FALSE
  /\ Unasked => RepliesIn(queue) = {} /\ (received = TRUE /\ ~Starting => ~Reply(buffer))
  /\ pc \in {"write", "await", "handle"} =>
       /\ InOrder(queue) /\ NoneOld(queue)
       /\ received = TRUE /\ Reply(buffer) =>
            /\ ~buffer.old
            /\ \A i \in RepliesIn(queue) : Announces(buffer) /\ queue[i].type = "data"
       /\ dataPending = TRUE =>
            /\ \A i \in RepliesIn(queue) : queue[i].type = "data"
            /\ received = TRUE /\ Reply(buffer) => buffer.type = "data"
            /\ received = TRUE /\ buffer.type = "junk" => RepliesIn(queue) = {}

LEMMA AnswersAreReplies ==
  ASSUME NEW m
  PROVE  Answers(m) => Reply(m)
BY DEF Answers, IsAnswer, Reply

LEMMA RepliesInRange ==
  ASSUME NEW q \in Seq(Message)
  PROVE  /\ Len(q) \in Nat /\ DOMAIN q = 1 .. Len(q)
         /\ RepliesIn(q) \subseteq 1 .. Len(q)
         /\ RepliesIn(<<>>) = {}
BY LenProperties DEF RepliesIn

\* What the module says on its own is no reply.
LEMMA RepliesOfAppend ==
  ASSUME NEW q \in Seq(Message), NEW m \in Message, ~Reply(m)
  PROVE  LET a == Append(q, m)
         IN  /\ RepliesIn(a) = RepliesIn(q) /\ \A i \in RepliesIn(q) : a[i] = q[i]
             /\ \A i \in DOMAIN a : a[i] = m \/ (i \in DOMAIN q /\ a[i] = q[i])
<1> DEFINE a == Append(q, m)
<1>1. Len(q) \in Nat /\ DOMAIN q = 1 .. Len(q)
  BY LenProperties
<1>2. /\ a \in Seq(Message) /\ DOMAIN a = 1 .. Len(q) + 1
      /\ \A i \in 1 .. Len(q) : a[i] = q[i]
      /\ a[Len(q) + 1] = m
  BY AppendProperties, LenProperties
<1> HIDE DEF a
<1>3. RepliesIn(a) = RepliesIn(q)
  BY <1>1, <1>2 DEF RepliesIn
<1>4. \A i \in RepliesIn(q) : a[i] = q[i]
  BY <1>1, <1>2 DEF RepliesIn
<1>5. \A i \in DOMAIN a : a[i] = m \/ (i \in DOMAIN q /\ a[i] = q[i])
  BY <1>1, <1>2
<1>6. QED
  BY <1>3, <1>4, <1>5 DEF a

LEMMA RepliesOfTail ==
  ASSUME NEW q \in Seq(Message), q # <<>>
  PROVE  LET t == Tail(q)
         IN  /\ \A i \in DOMAIN t : i + 1 \in DOMAIN q /\ t[i] = q[i + 1]
             /\ \A i \in RepliesIn(t) : i + 1 \in RepliesIn(q) /\ t[i] = q[i + 1] /\ i \in Nat \ {0}
             /\ Head(q) = q[1] /\ 1 \in DOMAIN q
             /\ Reply(Head(q)) => 1 \in RepliesIn(q)
<1> DEFINE t == Tail(q)
<1>1. /\ Head(q) = q[1] /\ t \in Seq(Message)
      /\ Len(t) = Len(q) - 1 /\ \A i \in 1 .. Len(t) : t[i] = q[i + 1]
  BY HeadTailProperties
<1>2. /\ Len(q) \in Nat /\ DOMAIN q = 1 .. Len(q) /\ Len(q) # 0
      /\ Len(t) \in Nat /\ DOMAIN t = 1 .. Len(t)
  BY <1>1, LenProperties, EmptySeq
<1> HIDE DEF t
<1>3. \A i \in DOMAIN t : i + 1 \in DOMAIN q /\ t[i] = q[i + 1] /\ i \in Nat \ {0}
  BY <1>1, <1>2
<1>4. QED
  BY <1>1, <1>2, <1>3 DEF RepliesIn, t

LEMMA InOrderOfTail ==
  ASSUME NEW q \in Seq(Message), q # <<>>, InOrder(q), NoneOld(q)
  PROVE  /\ InOrder(Tail(q)) /\ NoneOld(Tail(q))
         /\ Reply(Head(q)) =>
              /\ ~Head(q).old
              /\ \A i \in RepliesIn(Tail(q)) : Announces(Head(q)) /\ Tail(q)[i].type = "data"
<1> DEFINE t == Tail(q)
<1>1. /\ \A i \in RepliesIn(t) : i + 1 \in RepliesIn(q) /\ t[i] = q[i + 1] /\ i \in Nat \ {0}
      /\ Head(q) = q[1] /\ (Reply(Head(q)) => 1 \in RepliesIn(q))
  BY RepliesOfTail
<1> HIDE DEF t
<1>2. InOrder(t)
  <2> SUFFICES ASSUME NEW i \in RepliesIn(t), NEW j \in RepliesIn(t), i < j
               PROVE  Announces(t[i]) /\ t[j].type = "data"
    BY DEF InOrder
  <2>1. i + 1 < j + 1 /\ i + 1 \in RepliesIn(q) /\ j + 1 \in RepliesIn(q)
    BY <1>1
  <2>2. QED
    BY <1>1, <2>1 DEF InOrder
<1>3. NoneOld(t)
  BY <1>1 DEF NoneOld
<1>4. ASSUME Reply(Head(q))
      PROVE  /\ ~Head(q).old
             /\ \A i \in RepliesIn(t) : Announces(Head(q)) /\ t[i].type = "data"
  <2>1. 1 \in RepliesIn(q) /\ ~Head(q).old
    BY <1>1, <1>4 DEF NoneOld
  <2>2. ASSUME NEW i \in RepliesIn(t) PROVE Announces(Head(q)) /\ t[i].type = "data"
    <3>1. 1 < i + 1 /\ i + 1 \in RepliesIn(q) /\ t[i] = q[i + 1]
      BY <1>1
    <3>2. QED
      BY <1>1, <2>1, <3>1 DEF InOrder
  <2>3. QED
    BY <2>1, <2>2
<1>5. QED
  BY <1>2, <1>3, <1>4 DEF t

\* A reply comes in order, and it is new.
LEMMA ReplyIsInOrder ==
  ASSUME NEW q \in Seq(Message), NEW o \in Ops, NEW patch \in BOOLEAN,
         NEW r \in Replies(o, patch)
  PROVE  /\ RepliesIn(q) = {} => InOrder(q \o r) /\ NoneOld(q \o r)
         /\ (\A i \in DOMAIN q : q[i].type # "junk") =>
               \A i \in DOMAIN (q \o r) : (q \o r)[i].type # "junk"
<1> DEFINE qr == q \o r
<1>1. /\ r \in Seq(Message) /\ \A i \in 1 .. Len(r) : ~r[i].old /\ r[i].type # "junk"
      /\ \A i, j \in 1 .. Len(r) : i < j => Announces(r[i]) /\ r[j].type = "data"
  <2> DEFINE said == {m \in Message : ~m.old /\ m.type # "junk"}
  <2>1. /\ \A a \in Ops, b \in BOOLEAN : Answer(a, b) \in said
        /\ Plain("patches") \in said /\ Plain("data") \in said /\ NotSent \in said
        /\ Announces(Answer("recv", TRUE)) /\ Plain("data").type = "data"
    BY DEF Answer, Plain, NotSent, Message, Announces, Ops
  <2>2. {"start", "recv", "send"} \subseteq Ops
    BY DEF Ops
  <2>3. \/ \E m \in said : r = <<m>>
        \/ \E m, n \in said : r = <<m, n>> /\ Announces(m) /\ n.type = "data"
    BY <2>1, <2>2 DEF Replies
  <2>4. CASE \E m \in said : r = <<m>>
    <3>1. PICK m \in said : r = <<m>>
      BY <2>4
    <3>2. m \in Message /\ ~m.old /\ m.type # "junk"
      OBVIOUS
    <3> HIDE DEF said
    <3>3. QED
      BY <3>1, <3>2
  <2>5. CASE \E m, n \in said : r = <<m, n>> /\ Announces(m) /\ n.type = "data"
    <3>1. PICK m \in said, n \in said : r = <<m, n>> /\ Announces(m) /\ n.type = "data"
      BY <2>5
    <3>2. m \in Message /\ ~m.old /\ m.type # "junk" /\ n \in Message /\ ~n.old /\ n.type # "junk"
      OBVIOUS
    <3> HIDE DEF said
    <3>3. QED
      BY <3>1, <3>2
  <2>6. QED
    BY <2>3, <2>4, <2>5
<1>2. /\ qr \in Seq(Message) /\ Len(qr) = Len(q) + Len(r)
      /\ \A i \in 1 .. Len(q) + Len(r) :
           qr[i] = IF i <= Len(q) THEN q[i] ELSE r[i - Len(q)]
  BY <1>1, ConcatProperties
<1>3. /\ Len(q) \in Nat /\ DOMAIN q = 1 .. Len(q)
      /\ Len(r) \in Nat /\ DOMAIN qr = 1 .. Len(q) + Len(r)
  BY <1>1, <1>2, LenProperties
<1> HIDE DEF qr
<1>4. ASSUME RepliesIn(q) = {}
      PROVE  \A i \in RepliesIn(qr) :
               i - Len(q) \in 1 .. Len(r) /\ qr[i] = r[i - Len(q)] /\ i \in Nat
  BY <1>2, <1>3, <1>4 DEF RepliesIn
<1>5. RepliesIn(q) = {} => InOrder(qr)
  <2> SUFFICES ASSUME RepliesIn(q) = {},
                      NEW i \in RepliesIn(qr), NEW j \in RepliesIn(qr), i < j
               PROVE  Announces(qr[i]) /\ qr[j].type = "data"
    BY DEF InOrder
  <2>1. i - Len(q) < j - Len(q)
    BY <1>3, <1>4
  <2>2. QED
    BY <1>1, <1>4, <2>1
<1>6. RepliesIn(q) = {} => NoneOld(qr)
  BY <1>1, <1>4 DEF NoneOld
<1>7. ASSUME \A i \in DOMAIN q : q[i].type # "junk", NEW i \in DOMAIN qr
      PROVE  qr[i].type # "junk"
  <2>1. CASE i <= Len(q)
    BY <1>2, <1>3, <1>7, <2>1
  <2>2. CASE ~(i <= Len(q))
    <3>1. i - Len(q) \in 1 .. Len(r)
      BY <1>3, <2>2
    <3>2. QED
      BY <1>1, <1>2, <1>3, <2>2, <3>1
  <2>3. QED
    BY <2>1, <2>2
<1>8. QED
  BY <1>5, <1>6, <1>7 DEF qr

LEMMA RepliesOfAged ==
  ASSUME NEW q \in Seq(Message)
  PROVE  LET a == [i \in DOMAIN q |-> Aged(q[i])]
         IN  /\ RepliesIn(a) = RepliesIn(q)
             /\ DOMAIN a = DOMAIN q /\ \A i \in DOMAIN q : a[i].type = q[i].type
<1> DEFINE a == [i \in DOMAIN q |-> Aged(q[i])]
<1>1. \A m \in Message : Aged(m).type = m.type
  BY DEF Aged, Message
<1>2. \A i \in DOMAIN q : q[i] \in Message
  BY LenProperties, ElementOfSeq
<1>3. DOMAIN a = DOMAIN q /\ \A i \in DOMAIN q : a[i].type = q[i].type
  BY <1>1, <1>2
<1> HIDE DEF a
<1>4. RepliesIn(a) = RepliesIn(q)
  BY <1>3 DEF RepliesIn, Reply
<1>5. QED
  BY <1>3, <1>4 DEF a

LEMMA SilentKept ==
  ASSUME Bits, Shape, PlaceInv, CountInv, SilentInv, Next
  PROVE  SilentInv'
<1> USE DEF SilentInv, module, thread
<1>1. CASE UNCHANGED module \/ Off
  BY <1>1 DEF Off
<1>2. CASE Boot
  BY <1>2 DEF Boot
<1>3. ASSUME NEW m \in {Plain("event"), Plain("free")}, chip = "ready", UNCHANGED chip, Tell(m)
      PROVE  SilentInv'
  <2>1. m \in Message /\ ~Reply(m) /\ m.type # "junk"
    <3>1. Plain("event").type = "event" /\ Plain("free").type = "free"
      BY DEF Plain
    <3>2. QED
      BY <3>1, MessagesKnown DEF Reply
  <2>2. QED
    BY <1>3, <2>1, RepliesOfAppend DEF Tell, CountInv
<1>4. CASE BodyRead
  <2>1. CASE Speaks
    BY <1>4, <2>1, RepliesOfTail DEF BodyRead, Speaks, CountInv
  <2>2. CASE ~Speaks
    BY <1>4, <2>2 DEF BodyRead
  <2>3. QED
    BY <2>1, <2>2
<1>5. CASE Written
  <2>1. CASE chip = "ready"
    <3>1. PICK r \in Replies(op, patching) : queue' = queue \o r
      BY <1>5, <2>1 DEF Written, Deliver
    <3>2. \A i \in DOMAIN queue' : queue'[i].type # "junk"
      BY <3>1, ReplyIsInOrder DEF Shape, Bits, CountInv
    <3>3. QED
      BY <1>5, <2>1, <3>2 DEF Written, Deliver
  <2>2. CASE chip # "ready"
    BY <1>5, <2>2 DEF Written, Deliver
  <2>3. QED
    BY <2>1, <2>2
<1>6. ASSUME NEW o, Begin(o) PROVE SilentInv'
  BY <1>6, RepliesOfAged DEF Begin, CountInv
<1>7. CASE SwitchOn
  <2>1. queue = <<>> /\ queue' = queue
    BY <1>7 DEF SwitchOn, PlaceInv
  <2>2. QED
    BY <2>1
<1>8. CASE PinInterrupt \/ HeaderRead \/ FirstWritten \/ Unexpected \/ SpiWrite
  BY <1>1, <1>8 DEF PinInterrupt, PinPowerup, PinRead, PinPostpone, PinGrant, PinIgnored, software,
     HeaderRead, FirstWritten, Unexpected, SpiWrite, FirstWrite, WriteRest, Reserve, Proceed,
     WriteReturns
<1>9. CASE Command \/ Send \/ Consume \/ Refuse \/ WaitEvent \/ Process \/ Timeout
  BY <1>1, <1>6, <1>9 DEF Command, Send, Consume, Refuse, WaitEvent, Process, Timeout, bottom
<1>10. CASE Start \/ SpiOpen \/ SwitchOff \/ wlan_stop \/ SpiClose \/ Reset
  BY <1>1, <1>10 DEF Start, SpiOpen, SwitchOff, wlan_stop, SpiClose, Reset, bottom
<1>11. CASE UseFlash \/ sFLASH_CS_LOW \/ Deselect \/ ReleaseBus \/ handle_spi_request
  BY <1>1, <1>11 DEF UseFlash, sFLASH_CS_LOW, Deselect, ReleaseBus, handle_spi_request, above
<1>12. CASE Signal \/ Event \/ FreeBuffer
  BY <1>1, <1>3, <1>12 DEF Signal, Event, FreeBuffer
<1>13. QED
  BY <1>2, <1>4, <1>5, <1>7, <1>8, <1>9, <1>10, <1>11, <1>12
     DEF Next, Thread, Continue, Module, DmaInterrupt

\* Steps that leave the messages alone, and the thread outside the places of
\* which the invariant speaks, or among them as it was.
LEMMA AloneKeepsReplies ==
  ASSUME ReplyInv, UNCHANGED <<queue, inbox, dataPending, op, patching>>,
         "gaveUp" \in mishaps => "gaveUp" \in mishaps',
         Unasked' => Unasked /\ (Starting => Starting'),
         pc' \in {"write", "await", "handle"} => pc \in {"write", "await", "handle"}
  PROVE  ReplyInv'
BY DEF ReplyInv, inbox

\* Nothing is read after a panic.
LEMMA PanicKeepsReplies ==
  ASSUME ReplyInv, UNCHANGED <<dataPending, patching>>,
         "gaveUp" \in mishaps => "gaveUp" \in mishaps', pc' = "panic"
  PROVE  ReplyInv'
BY DEF ReplyInv, Unasked, Rest

LEMMA PinKeepsReplies ==
  ASSUME PlaceInv, ReplyInv, PinInterrupt
  PROVE  ReplyInv'
<1> USE DEF software, module, thread, expects, inbox, Unasked, Starting
<1>1. CASE PinPowerup
  BY <1>1, AloneKeepsReplies DEF PinPowerup
<1>2. CASE PinRead
  BY <1>2, AloneKeepsReplies DEF PinRead, StartRead
<1>3. CASE PinPostpone
  BY <1>3, AloneKeepsReplies DEF PinPostpone
<1>4. CASE PinGrant
  BY <1>4, AloneKeepsReplies DEF PinGrant, PlaceInv
<1>5. CASE PinIgnored
  BY <1>5, AloneKeepsReplies DEF PinIgnored
<1>6. QED
  BY <1>1, <1>2, <1>3, <1>4, <1>5 DEF PinInterrupt

\* SpiReceiveHandler puts the message into the buffer, or nothing.
LEMMA ReceiveHandler ==
  ASSUME NEW m, SpiReceiveHandler(m)
  PROVE  /\ received' = TRUE => buffer' = m
         /\ "gaveUp" \in mishaps => "gaveUp" \in mishaps'
BY DEF SpiReceiveHandler

LEMMA BodyReadKeepsReplies ==
  ASSUME PlaceInv, CountInv, SilentInv, ReplyInv, BodyRead
  PROVE  ReplyInv'
<1>1. UNCHANGED <<pc, op, patching, dataPending>> /\ spi' = "IDLE" /\ spi = "READ_PROCEED"
  BY DEF BodyRead, Ended, thread, expects
<1>2. CASE Speaks
  <2> DEFINE m == Head(queue)
  <2>1. /\ SpiReceiveHandler(m) /\ queue' = Tail(queue) /\ queue # <<>>
    BY <1>2 DEF BodyRead, Speaks
  <2>2. /\ received' = TRUE => buffer' = m
        /\ "gaveUp" \in mishaps => "gaveUp" \in mishaps'
    BY <2>1, ReceiveHandler
  <2>3. /\ \A i \in RepliesIn(queue') : i + 1 \in RepliesIn(queue) /\ queue'[i] = queue[i + 1]
        /\ m = queue[1] /\ 1 \in DOMAIN queue
        /\ Reply(m) => 1 \in RepliesIn(queue)
    BY <2>1, RepliesOfTail DEF CountInv
  <2>4. m.type # "junk"
    BY <2>3 DEF SilentInv
  <2>5. InOrder(queue) /\ NoneOld(queue) =>
          /\ InOrder(queue') /\ NoneOld(queue')
          /\ Reply(m) => /\ ~m.old
                         /\ \A i \in RepliesIn(queue') : Announces(m) /\ queue'[i].type = "data"
    BY <2>1, InOrderOfTail DEF CountInv
  <2> HIDE DEF m
  <2>6. CASE pc \in {"write", "await", "handle"}
    <3>1. SUFFICES ASSUME "gaveUp" \notin mishaps' PROVE ReplyInv'
      BY DEF ReplyInv
    <3>2. InOrder(queue) /\ NoneOld(queue) /\ (patching = TRUE => dataPending = FALSE)
      BY <2>2, <2>6, <3>1 DEF ReplyInv
    <3>3. dataPending = TRUE =>
            /\ \A i \in RepliesIn(queue') : queue'[i].type = "data"
            /\ Reply(m) => m.type = "data"
      BY <2>2, <2>3, <2>6, <3>1 DEF ReplyInv
    <3>4. Unasked' => FALSE
      BY <1>1, <2>6 DEF Unasked, Rest
    <3>5. QED
      BY <1>1, <2>2, <2>4, <2>5, <3>2, <3>3, <3>4 DEF ReplyInv
  <2>7. CASE pc \notin {"write", "await", "handle"}
    <3>1. Unasked' => Unasked /\ (Starting => Starting')
      BY <1>1, <2>7 DEF Unasked, Starting
    <3>2. QED
      BY <1>1, <2>2, <2>3, <2>7, <3>1 DEF ReplyInv
  <2>8. QED
    BY <2>6, <2>7
<1>3. CASE ~Speaks
  <2>1. PICK m \in Garbled : SpiReceiveHandler(m) /\ UNCHANGED queue
    BY <1>3 DEF BodyRead
  <2>2. /\ received' = TRUE => buffer' = m
        /\ "gaveUp" \in mishaps => "gaveUp" \in mishaps'
    BY <2>1, ReceiveHandler
  <2>3. ~Reply(m)
    <3>1. ~Reply(Plain("event")) /\ ~Reply(Plain("junk"))
      BY DEF Reply, Plain
    <3>2. QED
      BY <3>1 DEF Garbled
  <2>4. RepliesIn(queue) = {}
    BY <1>3 DEF Speaks, SilentInv, RepliesIn
  <2>5. Unasked' => Unasked
    BY <1>1 DEF Unasked
  <2>6. QED
    BY <1>1, <2>1, <2>2, <2>3, <2>4, <2>5 DEF ReplyInv
<1>4. QED
  BY <1>2, <1>3

LEMMA WrittenKeepsReplies ==
  ASSUME Bits, Shape, PlaceInv, AwaitInv, CountInv, SilentInv, ReplyInv, Written
  PROVE  ReplyInv'
<1>1. /\ pc = "write" /\ UNCHANGED <<pc, op, patching, dataPending, received, buffer, mishaps>>
      /\ spi = "WRITE_PROCEED" /\ spi' = "IDLE"
  BY DEF Written, Ended, PlaceInv, software, thread, inbox, expects
<1>2. SUFFICES ASSUME "gaveUp" \notin mishaps PROVE ReplyInv'
  BY <1>1 DEF ReplyInv
<1>3. Unasked /\ ~Starting /\ ~Unasked'
  BY <1>1 DEF Unasked, Starting, Rest
<1>4. RepliesIn(queue) = {} /\ (received = TRUE => ~Reply(buffer))
  BY <1>2, <1>3 DEF ReplyInv
<1>5. dataPending = FALSE
  BY <1>1, <1>2 DEF ReplyInv, AwaitInv, Bits
<1>6. InOrder(queue') /\ NoneOld(queue')
  <2>1. CASE chip = "ready"
    <3>1. PICK r \in Replies(op, patching) : queue' = queue \o r
      BY <2>1 DEF Written, Deliver
    <3>2. QED
      BY <1>4, <3>1, ReplyIsInOrder DEF Shape, Bits, CountInv
  <2>2. CASE chip # "ready"
    BY <1>4, <2>2 DEF Written, Deliver, module, InOrder, NoneOld
  <2>3. QED
    BY <2>1, <2>2
<1>7. QED
  BY <1>1, <1>3, <1>4, <1>5, <1>6 DEF ReplyInv

LEMMA HeaderReadKeepsReplies ==
  ASSUME PlaceInv, ReplyInv, HeaderRead \/ FirstWritten \/ Unexpected
  PROVE  ReplyInv'
<1> USE DEF software, module, expects, inbox
<1>1. CASE UNCHANGED thread /\ (HeaderRead \/ FirstWritten)
  <2>1. Unasked' => Unasked
    BY <1>1 DEF HeaderRead, FirstWritten, Ended, PlaceInv, Unasked, thread
  <2>2. QED
    BY <1>1, <2>1, AloneKeepsReplies DEF HeaderRead, FirstWritten, Starting, thread
<1>2. CASE Panic /\ (HeaderRead \/ Unexpected)
  BY <1>2, PanicKeepsReplies DEF HeaderRead, Unexpected, Panic
<1>3. QED
  BY <1>1, <1>2 DEF HeaderRead, FirstWritten, Unexpected

\* What a write leaves in the buffer is no reply.
LEMMA WriteOverLeavesNoReply ==
  ASSUME WriteOverBuffer
  PROVE  received' = received /\ (received' = TRUE => ~Reply(buffer'))
<1>1. ~Reply(Plain("event")) /\ ~Reply(Plain("junk"))
  BY DEF Reply, Plain
<1>2. QED
  BY <1>1 DEF WriteOverBuffer, Garbled

LEMMA SpiWriteKeepsReplies ==
  ASSUME Bits, PlaceInv, TransferInv, ReplyInv, SpiWrite
  PROVE  ReplyInv'
<1> USE DEF module, Go
<1>1. ASSUME WriteOverBuffer, Unasked, pc' = "first" \/ pc' = "write",
             UNCHANGED <<queue, dataPending, op, patching, mishaps>>
      PROVE  ReplyInv'
  <2>1. UNCHANGED received /\ (received' = TRUE => ~Reply(buffer'))
    BY <1>1, WriteOverLeavesNoReply
  <2>2. QED
    BY <1>1, <2>1 DEF ReplyInv, InOrder, NoneOld
<1>2. CASE FirstWrite
  BY <1>1, <1>2 DEF FirstWrite, SpiSetUp, Unasked
<1>3. CASE WriteRest
  BY <1>1, <1>3 DEF WriteRest, expects, Unasked
<1>4. CASE Reserve
  BY <1>4, AloneKeepsReplies DEF Reserve, SpiSetUp, Unasked, Starting, inbox
<1>5. CASE Proceed
  BY <1>1, <1>5 DEF Proceed, expects, Unasked
<1>6. CASE WriteReturns
  BY <1>6 DEF WriteReturns, expects, inbox, ReplyInv, Unasked, Rest
<1>7. QED
  BY <1>2, <1>3, <1>4, <1>5, <1>6 DEF SpiWrite

LEMMA CommandsKeepReplies ==
  ASSUME Bits, Shape, PlaceInv, AwaitInv, CountInv, ReplyInv,
         Command \/ Send \/ Consume \/ Refuse \/ WaitEvent
  PROVE  ReplyInv'
<1>1. ASSUME NEW o \in Ops, o # "start", Begin(o), pc \in {"idle", "consume"}, UNCHANGED expects
      PROVE  ReplyInv'
  <2>1. SUFFICES ASSUME "gaveUp" \notin mishaps' PROVE ReplyInv'
    BY DEF ReplyInv
  <2>2. RepliesIn(queue) = {} /\ (received = TRUE => ~Reply(buffer))
    BY <1>1, <2>1 DEF Begin, ReplyInv, Unasked, Starting, Rest
  <2>3. RepliesIn(queue') = {}
    BY <1>1, <2>2, RepliesOfAged DEF Begin, CountInv
  <2>4. buffer'.type = buffer.type /\ UNCHANGED received
    BY <1>1 DEF Begin, Aged, CountInv, Message
  <2>5. patching' = FALSE /\ pc' = "begin"
    BY <1>1 DEF Begin, PlaceInv, Bits
  <2>6. QED
    BY <2>2, <2>3, <2>4, <2>5 DEF ReplyInv, Reply
<1>2. CASE Command
  BY <1>1, <1>2, RadioAssumption DEF Command, RadioAssumption, Ops
<1>3. CASE Consume
  BY <1>1, <1>3 DEF Consume, Ops
<1>4. CASE Send
  BY <1>4, AloneKeepsReplies
     DEF Send, bottom, module, expects, Unasked, Starting, Rest, inbox, ReplyInv, PlaceInv
<1>5. CASE Refuse
  BY <1>5, AloneKeepsReplies DEF Refuse, Go, bottom, module, expects, Unasked, Starting, Rest
<1>6. CASE WaitEvent
  BY <1>6, AloneKeepsReplies DEF WaitEvent, Go, bottom, module, Unasked, Rest
<1>7. QED
  BY <1>2, <1>3, <1>4, <1>5, <1>6

\* After an answer only its data is missing, and after the data nothing.
LEMMA ProcessKeepsReplies ==
  ASSUME Bits, Shape, PlaceInv, AwaitInv, ReplyInv, Process
  PROVE  ReplyInv'
<1>1. /\ pc = "handle" /\ received = TRUE /\ received' = FALSE /\ UNCHANGED <<queue, mishaps>>
      /\ patching = FALSE
  BY DEF Process, bottom, module, PlaceInv, Bits
<1>2. SUFFICES ASSUME "gaveUp" \notin mishaps PROVE ReplyInv'
  BY <1>1 DEF ReplyInv
<1>3. /\ InOrder(queue) /\ NoneOld(queue)
      /\ Reply(buffer) =>
           \A i \in RepliesIn(queue) : Announces(buffer) /\ queue[i].type = "data"
      /\ dataPending = TRUE =>
           /\ \A i \in RepliesIn(queue) : queue[i].type = "data"
           /\ Reply(buffer) => buffer.type = "data"
           /\ buffer.type = "junk" => RepliesIn(queue) = {}
  BY <1>1, <1>2 DEF ReplyInv
<1>4. CASE buffer.type = "patches"
  <2>1. Reply(buffer) /\ ~Announces(buffer) /\ dataPending = FALSE
    BY <1>3, <1>4 DEF Reply, Announces, Bits
  <2>2. RepliesIn(queue) = {} /\ pc' = "begin" /\ dataPending' = FALSE
    BY <1>3, <1>4, <2>1 DEF Process
  <2>3. QED
    BY <1>1, <2>2 DEF ReplyInv
<1>5. CASE buffer.type # "patches"
  <2> DEFINE waits == dataPending /\ buffer.type \notin {"data", "junk"}
             more == op = "recv" /\ Answers(buffer) /\ buffer.more
  <2>1. /\ UNCHANGED patching
        /\ IF awaited' = "none" /\ ~waits THEN Return(more)
           ELSE UNCHANGED <<op, pc>> /\ dataPending' = waits
    BY <1>5 DEF Process
  <2>2. CASE awaited' = "none" /\ ~waits
    <3>1. dataPending = TRUE => RepliesIn(queue) = {}
      BY <1>3, <2>2 DEF Reply, Announces
    <3>2. dataPending = FALSE => Answers(buffer) /\ awaited = op
      BY <1>1, <2>2, RadioAssumption DEF Process, AwaitInv, Shape, Ops, RadioAssumption
    <3>3. CASE more
      <4>1. pc' = "handle" /\ dataPending' = TRUE
        BY <2>1, <2>2, <3>3 DEF Return
      <4>2. \A i \in RepliesIn(queue) : queue[i].type = "data"
        BY <1>3, <3>3, AnswersAreReplies
      <4>3. QED
        BY <1>1, <1>3, <4>1, <4>2, <2>1 DEF ReplyInv, Unasked, Rest
    <3>4. CASE ~more
      <4>1. RepliesIn(queue) = {}
        <5>1. dataPending = FALSE => ~Announces(buffer) /\ Reply(buffer)
          BY <3>2, <3>4, AnswersAreReplies DEF Announces, Answers
        <5>2. QED
          BY <1>3, <3>1, <5>1 DEF Bits
      <4>2. dataPending' = FALSE
        BY <2>1, <2>2, <3>4 DEF Return
      <4>3. QED
        BY <1>1, <1>3, <4>1, <4>2, <2>1 DEF ReplyInv
    <3>5. QED
      BY <3>3, <3>4
  <2>3. CASE ~(awaited' = "none" /\ ~waits)
    <3>1. pc' = "handle" /\ dataPending' = waits
      BY <1>1, <2>1, <2>3
    <3>2. waits => dataPending = TRUE
      BY DEF Bits
    <3>3. QED
      BY <1>1, <1>3, <2>1, <3>1, <3>2 DEF ReplyInv, Unasked, Rest
  <2>4. QED
    BY <2>2, <2>3
<1>6. QED
  BY <1>4, <1>5

LEMMA TimeoutKeepsReplies ==
  ASSUME ReplyInv, Timeout
  PROVE  ReplyInv'
BY DEF ReplyInv, Timeout

LEMMA SwitchingKeepsReplies ==
  ASSUME Bits, PlaceInv, AwaitInv, SilentInv, ReplyInv,
         Start \/ SpiOpen \/ SwitchOff \/ SwitchOn \/ wlan_stop \/ SpiClose \/ Reset
  PROVE  ReplyInv'
<1> USE DEF Go, bottom, module, inbox, expects, Rest
<1>1. RepliesIn(<<>>) = {}
  BY DEF RepliesIn
<1>2. CASE Start
  BY <1>2 DEF Start, ReplyInv, Unasked
<1>3. CASE SpiOpen
  BY <1>3 DEF SpiOpen, ReplyInv, Unasked, PlaceInv, Bits
<1>4. CASE SwitchOff
  BY <1>1, <1>4 DEF SwitchOff, Off, ReplyInv, Unasked, Starting, PlaceInv, Bits
<1>5. CASE SwitchOn
  BY <1>1, <1>5 DEF SwitchOn, ReplyInv, Unasked, Starting, PlaceInv, SilentInv, Bits
<1>6. CASE wlan_stop
  BY <1>1, <1>6 DEF wlan_stop, Off, ReplyInv, Unasked, Starting
<1>7. CASE SpiClose
  BY <1>7 DEF SpiClose, ReplyInv, Unasked, Starting
<1>8. CASE Reset
  BY <1>1, <1>8 DEF Reset, Off, ReplyInv, Unasked
<1>9. QED
  BY <1>2, <1>3, <1>4, <1>5, <1>6, <1>7, <1>8

LEMMA FlashKeepsReplies ==
  ASSUME ReplyInv,
         UseFlash \/ sFLASH_CS_LOW \/ Deselect \/ ReleaseBus \/ handle_spi_request
  PROVE  ReplyInv'
<1>1. /\ UNCHANGED <<queue, received, buffer, dataPending, op, patching, mishaps>>
      /\ pc \in Rest /\ pc' \in Rest
  BY DEF UseFlash, sFLASH_CS_LOW, Deselect, ReleaseBus, handle_spi_request, Go, above, module,
     inbox, expects, Rest
<1>2. QED
  BY <1>1 DEF ReplyInv, Unasked, Starting, Rest

LEMMA ModuleKeepsReplies ==
  ASSUME CountInv, SilentInv, ReplyInv, Module
  PROVE  ReplyInv'
<1>1. UNCHANGED <<spi, received, buffer, dataPending, pc, op, patching, mishaps>>
  BY DEF Module, Boot, Signal, Event, FreeBuffer, software, inbox, expects, thread
<1>2. Unasked' = Unasked /\ Starting' = Starting
  BY <1>1 DEF Unasked, Starting
<1>3. CASE UNCHANGED queue
  BY <1>1, <1>2, <1>3 DEF ReplyInv
<1>4. ASSUME NEW m \in {Plain("event"), Plain("free")}, queue' = Append(queue, m)
      PROVE  ReplyInv'
  <2>1. m \in Message /\ ~Reply(m)
    <3>1. Plain("event").type = "event" /\ Plain("free").type = "free"
      BY DEF Plain
    <3>2. QED
      BY <3>1, MessagesKnown DEF Reply
  <2>2. RepliesIn(queue') = RepliesIn(queue) /\ \A i \in RepliesIn(queue) : queue'[i] = queue[i]
    BY <1>4, <2>1, RepliesOfAppend DEF CountInv
  <2>3. InOrder(queue) /\ NoneOld(queue) => InOrder(queue') /\ NoneOld(queue')
    BY <2>2 DEF InOrder, NoneOld
  <2>4. QED
    BY <1>1, <1>2, <2>2, <2>3 DEF ReplyInv
<1>5. QED
  BY <1>3, <1>4 DEF Module, Boot, Signal, Event, FreeBuffer, Tell, module

-----------------------------------------------------------------------------

MessagesInv == BuffersInv /\ QuietInv /\ SilentInv /\ ReplyInv

LEMMA InitMessages ==
  ASSUME Init
  PROVE  MessagesInv
<1>1. QuietInv
  BY DEF Init, QuietInv
<1>2. SilentInv
  BY DEF Init, SilentInv
<1>3. ReplyInv
  <2>1. RepliesIn(queue) = {}
    BY DEF Init, RepliesIn
  <2>2. QED
    BY <2>1 DEF Init, ReplyInv
<1>4. QED
  BY <1>1, <1>2, <1>3, InitAddsUp DEF MessagesInv

LEMMA StepMessages ==
  ASSUME MessagesInv, [Next]_vars
  PROVE  MessagesInv'
<1>1. BuffersInv'
  BY StepAddsUp DEF MessagesInv
<1>2. CASE Next
  <2>1. QuietInv' /\ SilentInv'
    BY <1>2, QuietKept, SilentKept DEF MessagesInv, BuffersInv, ControlInv
  <2>2. ReplyInv'
    BY <1>2, PinKeepsReplies, HeaderReadKeepsReplies, BodyReadKeepsReplies, WrittenKeepsReplies,
       SpiWriteKeepsReplies, CommandsKeepReplies, ProcessKeepsReplies, TimeoutKeepsReplies,
       SwitchingKeepsReplies, FlashKeepsReplies, ModuleKeepsReplies
       DEF MessagesInv, BuffersInv, ControlInv, IInv, Next, Thread, Continue, DmaInterrupt
  <2>3. QED
    BY <1>1, <2>1, <2>2 DEF MessagesInv
<1>3. CASE UNCHANGED vars
  <2>1. QuietInv' /\ SilentInv' /\ ReplyInv'
    BY <1>3 DEF vars, wires, line, module, inbox, expects, thread, MessagesInv,
       QuietInv, Cause, Speaks, SilentInv, ReplyInv, Unasked, Starting
  <2>2. QED
    BY <1>1, <2>1 DEF MessagesInv
<1>4. QED
  BY <1>2, <1>3

LEMMA MessagesAlways == Spec => []MessagesInv
<1>1. Init => MessagesInv
  BY InitMessages
<1>2. MessagesInv /\ [Next]_vars => MessagesInv'
  BY StepMessages
<1>3. QED
  BY <1>1, <1>2, PTL DEF Spec

\* INVALID_CASE and SPARK_ASSERT of cc3000_spi.c and evnt_handler.c fail only
\* after a transfer was cut off, after the module started too early for the
\* driver, or after a wait was given up, whatever the thread, the interrupts
\* and the module do in between.
THEOREM StopsForACause == Spec => []PanicHasACause
<1>1. MessagesInv => PanicHasACause
  BY DEF MessagesInv, QuietInv, Cause, PanicHasACause
<1>2. QED
  BY <1>1, MessagesAlways, PTL

\* hci_event_handler never takes an answer or data for those of the command
\* under way that are an earlier one's, for any commands and any number of
\* messages of the module's own, unless it has given up waiting before.
THEOREM AnswersAreOfTheCommand == Spec => []AnswersMatch
<1>1. MessagesInv => AnswersMatch
  BY AnswersAreReplies DEF MessagesInv, ReplyInv, AnswersMatch, BuffersInv, ControlInv, Bits, Reply
<1>2. QED
  BY <1>1, MessagesAlways, PTL
=============================================================================
