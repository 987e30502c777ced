------------------------------- MODULE Cloud -------------------------------
(***************************************************************************)
(* The connection to the Spark cloud: SparkProtocol::event_loop(), the     *)
(* flags by which the firmware knows of it, and the update of the          *)
(* application over the air, which saves chunks in external flash until    *)
(* the server says that it is done.  The main loop, the SysTick interrupt, *)
(* the events of the CC3000 and the server interleave.                     *)
(*                                                                         *)
(* The server is not part of the repository.  It is taken to follow the    *)
(* protocol: it sends a chunk, waits for the answer and does what the      *)
(* answer says.  As a chunk carries no number and TCP loses nothing, it    *)
(* takes a request for a chunk that is still on its way to be late.        *)
(*                                                                         *)
(* Flash is an array of cells; a cell that was written holds the number of *)
(* a cell of the image.                                                    *)
(***************************************************************************)
EXTENDS Integers, Sequences

CONSTANTS
  NumChunks, ChunkSize, LastSize,  \* the image, in cells
  SectorSize,   \* cells erased together
  PingAfter, AckWait, ChunkWait, Watchdog,  \* in ticks; 15, 10, 3 and 30 s
  Window        \* bound: messages on their way in one direction

ASSUME CloudAssumption ==
  /\ {NumChunks, ChunkSize, LastSize, SectorSize} \subseteq Nat \ {0}
  /\ LastSize <= ChunkSize
  /\ {PingAfter, AckWait, ChunkWait, Watchdog} \subseteq Nat
  /\ Window \in Nat \ {0, 1}

Chunk == 0 .. NumChunks - 1
SizeOf(c) == IF c = NumChunks - 1 THEN LastSize ELSE ChunkSize
ImageSize == (NumChunks - 1) * ChunkSize + LastSize
Cell == 0 .. ImageSize - 1

Erased == -1
Garbage == -2
Previous == -3   \* of the application that is running

Image == [a \in Cell |-> a]
PreviousImage == [a \in Cell |-> Previous]

VARIABLES
  \* The flags of spark_wlan.cpp.
  socketed, connected, flashUpdate,
  \* SparkProtocol; the two ages are millis() less a last_..._millis.
  updating, expecting_ping_ack, sinceMessage, sinceChunk, chunk_index,
  \* The update in hw_config.c and main.cpp, External_Flash_Address in cells.
  updateIndex, flashAddress, timingFlashUpdate,
  \* What survives a reset.
  flash, installed,
  \* The world: messages on their way, and the server.
  toDevice, toServer, server, silent,
  \* History, read by the properties only: since the update began a write of
  \* a short last chunk failed, in a sector that is not the first.
  shortFailed

flags == <<socketed, connected, flashUpdate>>
timers == <<sinceMessage, sinceChunk, timingFlashUpdate>>
place == <<updateIndex, flashAddress, flash, shortFailed>>
world == <<toDevice, toServer, server, silent>>
vars == <<flags, updating, expecting_ping_ack, timers, chunk_index, place, installed, world>>

NoSession == [phase |-> "none", next |-> 0, pending |-> FALSE, acked |-> FALSE]
Session == [NoSession EXCEPT !.phase = "idle"]

\* A chunk carries no number on the wire: .chunk stands for what is in it.
ToDevice(t) == [type |-> t, chunk |-> 0]
ChunkMsg(c) == [type |-> "chunk", chunk |-> c]
ToServer(t) == [type |-> t, index |-> 0]
Missed(i) == [type |-> "missed", index |-> i]

\* Timers need not tell apart times past their limits.
SilenceCap == (IF PingAfter > AckWait THEN PingAfter ELSE AckWait) + 1
Older(age, cap) == IF age < cap THEN age + 1 ELSE age

TypeOK ==
  /\ {socketed, connected, flashUpdate, updating, expecting_ping_ack, silent} \subseteq BOOLEAN
  /\ shortFailed \in BOOLEAN
  /\ sinceMessage \in 0 .. SilenceCap /\ sinceChunk \in 0 .. ChunkWait + 1
  /\ timingFlashUpdate \in 0 .. Watchdog
  /\ {chunk_index, updateIndex, flashAddress} \subseteq Nat
  /\ flash \in [Cell -> Cell \cup {Erased, Garbage, Previous}]
  /\ installed \in [Cell -> Cell \cup {Erased, Garbage, Previous}]
  /\ toDevice \in Seq([type : {"begin", "chunk", "done", "other"}, chunk : Chunk])
  /\ toServer \in Seq([type : {"ack", "ready", "ok", "bad", "missed"}, index : Nat])
  /\ Len(toDevice) <= Window /\ Len(toServer) <= Window
  /\ server \in [phase : {"none", "idle", "asked", "sending", "finished"},
                 next : Nat, pending : BOOLEAN, acked : BOOLEAN]

---------------------------------------------------------------------------
\* The end of a connection as the firmware sees it.
SocketLost ==
  /\ socketed' = FALSE /\ connected' = FALSE
  /\ toDevice' = <<>> /\ toServer' = <<>> /\ server' = NoSession /\ silent' = FALSE

Unlinked == SocketLost /\ flashUpdate' = FALSE

\* NVIC_SystemReset(): RAM starts from zero, and so does millis().
SystemReset ==
  /\ Unlinked
  /\ updating' = FALSE /\ expecting_ping_ack' = FALSE
  /\ sinceMessage' = 0 /\ sinceChunk' = 0 /\ timingFlashUpdate' = 0
  /\ chunk_index' = 0 /\ updateIndex' = 0 /\ flashAddress' = 0

\* blocking_send() of all messages in ms succeeds.  A server that has gone
\* silent does not read them; any other one takes what fits the window.
Sent(ms) ==
  /\ \/ silent /\ UNCHANGED toServer
     \/ /\ Len(toServer) + Len(ms) <= Window
        /\ toServer' = toServer \o ms
  /\ UNCHANGED <<socketed, connected, server, silent>>

---------------------------------------------------------------------------
(* The main loop. *)

\* Spark_Handshake().  A close that arrives while its last messages are sent
\* clears all flags, and SPARK_CLOUD_CONNECTED is set after that.
Handshake_KeepsUpdating ==
  /\ UNCHANGED <<updating, flashUpdate>>
  /\ socketed' = TRUE /\ connected' = TRUE /\ server' = Session

Handshake ==
  /\ updating' = FALSE
  /\ \/ /\ socketed' = TRUE /\ connected' = TRUE /\ server' = Session
        /\ UNCHANGED flashUpdate
     \/ /\ socketed' = TRUE /\ connected' = FALSE /\ server' = NoSession
        /\ UNCHANGED flashUpdate
     \/ /\ socketed' = FALSE /\ connected' = TRUE /\ server' = NoSession
        /\ flashUpdate' = FALSE

\* Spark_Connect(), then the handshake, unless the firmware takes itself to be
\* connected; the first bytes of the server are then read as a message.
Connect ==
  /\ ~socketed
  /\ \/ ~connected /\ Handshake /\ UNCHANGED toDevice
     \/ /\ connected /\ socketed' = TRUE /\ toDevice' = <<ToDevice("other")>>
        /\ UNCHANGED <<connected, flashUpdate, updating, server>>
  /\ UNCHANGED <<expecting_ping_ack, timers, chunk_index, place, installed, toServer, silent>>

\* The handshake is tried again on a socket on which it failed.
HandshakeAgain ==
  /\ socketed /\ ~connected
  /\ Handshake
  /\ silent => ~connected'
  /\ silent' = (silent /\ socketed')
  /\ UNCHANGED <<expecting_ping_ack, timers, chunk_index, place, installed, toDevice, toServer>>

\* event_loop() with nothing to read.
RequestChunk ==
  /\ socketed /\ updating /\ sinceChunk > ChunkWait
  /\ \/ Unlinked /\ UNCHANGED sinceChunk
     \/ /\ Sent(<<Missed(chunk_index)>>) /\ sinceChunk' = 0
        /\ UNCHANGED <<flashUpdate, toDevice>>
  /\ UNCHANGED <<updating, expecting_ping_ack, sinceMessage, timingFlashUpdate, chunk_index,
                 place, installed>>

\* Whether the ping could be sent is not looked at.
Ping_NoDeadline ==
  /\ socketed /\ ~updating /\ ~expecting_ping_ack /\ sinceMessage > PingAfter
  /\ sinceMessage' = 0
  /\ UNCHANGED <<flags, updating, expecting_ping_ack, sinceChunk, timingFlashUpdate, chunk_index,
                 place, installed, world>>

Ping ==
  /\ socketed /\ ~updating /\ ~expecting_ping_ack /\ sinceMessage > PingAfter
  /\ expecting_ping_ack' = TRUE /\ sinceMessage' = 0
  /\ UNCHANGED <<flags, updating, sinceChunk, timingFlashUpdate, chunk_index, place, installed,
                 world>>

PingTimeout ==
  /\ socketed /\ ~updating /\ expecting_ping_ack /\ sinceMessage > AckWait
  /\ expecting_ping_ack' = FALSE /\ sinceMessage' = 0
  /\ Unlinked
  /\ UNCHANGED <<updating, sinceChunk, timingFlashUpdate, chunk_index, place, installed>>

\* Any message that is no part of an update: answered or dropped.
ReceiveOther(rest) ==
  /\ \/ Unlinked
     \/ Sent(<<>>) /\ toDevice' = rest /\ UNCHANGED flashUpdate
  /\ UNCHANGED <<updating, sinceChunk, timingFlashUpdate, chunk_index, place, installed>>

\* Spark_Prepare_For_Firmware_Update() and FLASH_Begin().
PrepareForFirmwareUpdate ==
  /\ timingFlashUpdate' = 0
  /\ updateIndex' = 0 /\ flashAddress' = 0
  /\ flash' = [a \in Cell |-> Erased]
  /\ shortFailed' = FALSE

StartUpdating_KeepsIndex == sinceChunk' = 0 /\ updating' = TRUE /\ UNCHANGED chunk_index
StartUpdating == sinceChunk' = 0 /\ updating' = TRUE /\ chunk_index' = 0

\* UPDATE_BEGIN: ACK, prepare, UPDATE_READY; either message may fail.  When
\* WiFi is lost during the ACK, and the CC3000 still takes UPDATE_READY,
\* SPARK_FLASH_UPDATE is set after the event has cleared all flags.
ReceiveBegin(rest) ==
  /\ \/ /\ Unlinked
        /\ UNCHANGED <<updating, sinceChunk, timingFlashUpdate, chunk_index, place>>
     \/ /\ PrepareForFirmwareUpdate
        /\ StartUpdating
        /\ \/ Unlinked
           \/ Sent(<<ToServer("ready")>>) /\ toDevice' = rest /\ flashUpdate' = TRUE
           \/ SocketLost /\ flashUpdate' = TRUE
  /\ UNCHANGED installed

\* The index to which a failed write backs off.
IndexAt_Unchanged(address, size) == updateIndex
IndexAt(address, size) == address \div size

\* FLASH_Update(), when all of the chunk reads back as it was written.
WriteChunk(c) ==
  LET span == flashAddress .. flashAddress + SizeOf(c) - 1
  IN  /\ \A a \in span \cap Cell : flash[a] = Erased
      /\ flash' = [a \in Cell |-> IF a \in span THEN c * ChunkSize + a - flashAddress
                                  ELSE flash[a]]
      /\ flashAddress' = flashAddress + SizeOf(c)
      /\ updateIndex' = updateIndex + 1
      /\ UNCHANGED shortFailed

\* FLASH_Update(), when it does not, which may happen at any write: the sector
\* in which the chunk starts is erased.
BackOff(c) ==
  LET span == flashAddress .. flashAddress + SizeOf(c) - 1
      start == (flashAddress \div SectorSize) * SectorSize
  IN  /\ flash' = [a \in Cell |-> IF a \in start .. start + SectorSize - 1 THEN Erased
                                  ELSE IF a \in span THEN Garbage ELSE flash[a]]
      /\ flashAddress' = start
      /\ updateIndex' = IndexAt(start, SizeOf(c))
      /\ shortFailed' = (shortFailed \/ (SizeOf(c) # ChunkSize /\ start > 0))

\* Spark_Save_Firmware_Chunk() feeds the watchdog before it knows which it is.
SaveFirmwareChunk(c) == timingFlashUpdate' = 0 /\ (WriteChunk(c) \/ BackOff(c))

\* What the server is told of a chunk whose CRC is right.
Verdict_AlwaysOk(next) == ToServer("ok")
Verdict(next) == IF next > chunk_index THEN ToServer("ok") ELSE Missed(next)

\* A chunk with a wrong CRC is dropped.
DropChunk_FeedsWatchdog == timingFlashUpdate' = 0 /\ UNCHANGED <<chunk_index, place>>
DropChunk == UNCHANGED <<timingFlashUpdate, chunk_index, place>>

\* CHUNK: ACK, then the verdict.  The connection may fail before either.
ReceiveChunk(c, rest) ==
  LET Reply(m) == \/ Unlinked
                  \/ /\ Sent(<<ToServer("ack"), m>>)
                     /\ toDevice' = rest /\ UNCHANGED flashUpdate
  IN  /\ sinceChunk' = 0
      /\ \/ Reply(ToServer("bad")) /\ DropChunk
         \/ /\ SaveFirmwareChunk(c)
            /\ chunk_index' = updateIndex'
            /\ Reply(Verdict(updateIndex'))
      /\ UNCHANGED <<updating, installed>>

\* UPDATE_DONE: ACK, then FLASH_End(), which leaves a note for the bootloader
\* (external), and resets: the bootloader copies what is in flash.
ReceiveDone ==
  \/ /\ Unlinked
     /\ UNCHANGED <<updating, sinceChunk, timingFlashUpdate, chunk_index, place, installed>>
  \/ installed' = flash /\ SystemReset /\ UNCHANGED <<flash, shortFailed>>

\* handle_received_message().
Receive ==
  /\ socketed /\ toDevice # <<>>
  /\ sinceMessage' = 0 /\ expecting_ping_ack' = FALSE
  /\ LET m == Head(toDevice)
         rest == Tail(toDevice)
     IN  \/ m.type = "other" /\ ReceiveOther(rest)
         \/ m.type = "begin" /\ ReceiveBegin(rest)
         \/ m.type = "chunk" /\ ReceiveChunk(m.chunk, rest)
         \/ m.type = "done" /\ ReceiveDone

EventLoop == RequestChunk \/ Ping \/ PingTimeout \/ Receive

---------------------------------------------------------------------------
(* Interrupts, and events of the CC3000. *)

\* One tick of millis(), and of the SysTick handler, which resets a device
\* whose update has stalled.
TickUnless(stalled) ==
  IF flashUpdate /\ stalled
  THEN SystemReset /\ UNCHANGED <<flash, shortFailed, installed>>
  ELSE /\ sinceMessage' = Older(sinceMessage, SilenceCap)
       /\ sinceChunk' = Older(sinceChunk, ChunkWait + 1)
       /\ timingFlashUpdate' = IF flashUpdate THEN timingFlashUpdate + 1 ELSE timingFlashUpdate
       /\ UNCHANGED <<flags, updating, expecting_ping_ack, chunk_index, place, installed, world>>

Tick_OneLate == TickUnless(timingFlashUpdate > Watchdog)
Tick == TickUnless(timingFlashUpdate >= Watchdog)

\* The socket is closed, WiFi is lost, or a read fails.
LinkLost ==
  /\ socketed \/ connected \/ flashUpdate
  /\ Unlinked
  /\ UNCHANGED <<updating, expecting_ping_ack, timers, chunk_index, place, installed>>

---------------------------------------------------------------------------
(* The server, external. *)

Device == <<flags, updating, expecting_ping_ack, timers, chunk_index, place, installed>>

ServerSends(m) ==
  /\ socketed /\ ~silent /\ Len(toDevice) < Window
  /\ toDevice' = Append(toDevice, m)
  /\ UNCHANGED <<Device, toServer, silent>>

\* Pings, answers to pings, calls, requests, events, the time.
ServerTalks == server.phase # "none" /\ ServerSends(ToDevice("other")) /\ UNCHANGED server

ServerBegins ==
  /\ server.phase = "idle" /\ server' = [server EXCEPT !.phase = "asked"]
  /\ ServerSends(ToDevice("begin"))

ServerSendsChunk ==
  /\ server.phase = "sending" /\ ~server.pending /\ server.next \in Chunk
  /\ server' = [server EXCEPT !.pending = TRUE]
  /\ ServerSends(ChunkMsg(server.next))

ServerFinishes ==
  /\ server.phase = "sending" /\ ~server.pending /\ server.next \notin Chunk
  /\ server' = [server EXCEPT !.phase = "finished"]
  /\ ServerSends(ToDevice("done"))

\* The answer to a chunk comes after its ACK; a request for a chunk that comes
\* before the ACK was sent before the chunk arrived.
ServerReceives ==
  /\ toServer # <<>> /\ ~silent
  /\ toServer' = Tail(toServer)
  /\ LET m == Head(toServer)
         To(next) == [server EXCEPT !.next = next, !.pending = FALSE, !.acked = FALSE]
     IN  server' =
           CASE server.phase = "asked" /\ m.type = "ready" -> [server EXCEPT !.phase = "sending"]
             [] server.phase = "sending" /\ m.type = "ack" -> [server EXCEPT !.acked = TRUE]
             [] server.phase = "sending" /\ m.type = "ok" -> To(server.next + 1)
             [] server.phase = "sending" /\ m.type = "bad" -> To(server.next)
             [] server.phase = "sending" /\ m.type = "missed" /\ server.pending = server.acked ->
                  To(m.index)
             [] OTHER -> server
  /\ UNCHANGED <<Device, toDevice, silent>>

\* The server is gone and the network does not say so.
ServerFallsSilent ==
  /\ socketed /\ ~silent /\ silent' = TRUE
  /\ UNCHANGED <<Device, toDevice, toServer, server>>

---------------------------------------------------------------------------
Init ==
  /\ socketed = FALSE /\ connected = FALSE /\ flashUpdate = FALSE
  /\ updating = FALSE /\ expecting_ping_ack = FALSE
  /\ sinceMessage = 0 /\ sinceChunk = 0 /\ timingFlashUpdate = 0 /\ chunk_index = 0
  /\ updateIndex = 0 /\ flashAddress = 0 /\ flash = [a \in Cell |-> Garbage]
  /\ installed = PreviousImage
  /\ toDevice = <<>> /\ toServer = <<>> /\ server = NoSession /\ silent = FALSE
  /\ shortFailed = FALSE

Next ==
  \/ Connect \/ HandshakeAgain \/ EventLoop
  \/ Tick \/ LinkLost
  \/ ServerTalks \/ ServerBegins \/ ServerSendsChunk \/ ServerFinishes \/ ServerReceives
  \/ ServerFallsSilent

\* SysTick never stops, and the main loop calls event_loop() in every round.
Spec == Init /\ [][Next]_vars /\ WF_vars(Tick) /\ WF_vars(EventLoop)

---------------------------------------------------------------------------
(* Properties. *)

\* What the server takes to be stored is stored: whenever it knows the fate of
\* the last chunk it sent, all chunks before the one it will send next lie in
\* flash, each in its place; also after a write failed and a sector full of
\* chunks that had been acknowledged was erased (FLASH_Update, CHUNK).  Not so
\* once the write of a short last chunk has failed: see ErasedIsSentAgain.
AcknowledgedIsStored ==
  server.phase = "sending" /\ ~server.pending /\ ~shortFailed =>
    \A a \in Cell : a < server.next * ChunkSize => flash[a] = Image[a]

\* The bootloader is only ever told to install a whole image, however often
\* updates were cut short by resets, lost links, bad chunks and failed writes
\* (UPDATE_BEGIN to FLASH_End); except after a failed write of a short last
\* chunk, until the next update begins.
InstalledIsWhole == [][installed' # installed => installed' = Image \/ shortFailed]_vars

\* During an update the three places in which its progress is kept agree: the
\* index for which missing chunks are asked, the one in the flash driver, and
\* the address of the next write (SparkProtocol, hw_config.c).  The last two
\* part when the write of a short last chunk fails.
ProgressAgrees ==
  updating /\ ~shortFailed =>
    /\ chunk_index = updateIndex /\ updateIndex <= NumChunks
    /\ flashAddress = IF updateIndex = NumChunks THEN ImageSize ELSE updateIndex * ChunkSize

\* Whenever the protocol is updating on a live socket, and so does not ping the
\* server, the firmware is in SPARK_FLASH_UPDATE, and so resets if the update
\* stalls; although the two flags are set and cleared by different parties, and
\* do not always agree (event_loop, Spark_Handshake, WLAN_Async_Callback).
UpdateIsWatched == socketed /\ updating => flashUpdate

\* A server that has gone silent is noticed, in an update and out of it: the
\* connection is given up (event_loop, Timing_Decrement).
SilentServerIsNoticed == silent ~> ~socketed

\* The server begins an update; a chunk cannot be written.
Begins == Receive /\ Head(toDevice).type = "begin"
WriteFails ==
  Receive /\ Head(toDevice).type = "chunk"
  /\ timingFlashUpdate' = 0 /\ BackOff(Head(toDevice).chunk)

\* An update comes to an end, installed or not, unless the server begins it
\* again and again or writes to flash fail again and again: chunks with a bad
\* CRC and requests for missing ones do not keep the application stopped for
\* ever (main(), TimingFlashUpdateTimeout).
UpdateEnds == []<>~flashUpdate \/ []<><<Begins>>_vars \/ []<><<WriteFails>>_vars

\* After a failed write the driver means to "Erase the problematic SPI Flash
\* pages and back off the chunk index" (hw_config.c:1353), so that the server
\* sends again what was erased before the image is installed.  It does not: the
\* index is the address divided by the size of the chunk at hand, so that for a
\* short last chunk it goes up, and the chunk is answered OK.
ErasedIsSentAgain == [][installed' # installed => installed' = Image]_vars

\* "Reset is the only way now to recover from stuck OTA update" (main.cpp:284):
\* an update that makes no progress ends.  It does not when a sector cannot be
\* written: Spark_Save_Firmware_Chunk feeds the watchdog at each attempt.
StuckUpdateEnds == []<>~flashUpdate \/ []<><<Begins>>_vars
=============================================================================
