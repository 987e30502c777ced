----------------------------- MODULE CloudProofs -----------------------------
(***************************************************************************)
(* For every image, every limit and every order of events: no update       *)
(* escapes the watchdog; the device and the server agree on how far an     *)
(* update has come; only a whole image is installed.                       *)
(***************************************************************************)
EXTENDS Cloud, TLAPS

\* UpdateIsWatched is not inductive: SPARK_CLOUD_CONNECTED may be set on a
\* socket that is closed already, and the next socket then gets no handshake,
\* which is where the protocol forgets an update.  It holds because only a
\* session brings messages, and only a message starts an update.
WatchedInv ==
  /\ socketed \/ connected => ~updating \/ flashUpdate = TRUE
  /\ ~connected => toDevice = <<>> /\ server.phase = "none"

\* Once the link is lost no update is in progress on it.
LEMMA LostIsWatched ==
  ASSUME SocketLost
  PROVE  WatchedInv'
BY DEF SocketLost, WatchedInv, NoSession

LEMMA UnlinkedIsWatched ==
  ASSUME Unlinked
  PROVE  WatchedInv'
BY LostIsWatched DEF Unlinked

\* The protocol forgets an update in every handshake.
LEMMA HandshakeKeepsWatched ==
  ASSUME WatchedInv, ~connected, Handshake, UNCHANGED toDevice
  PROVE  WatchedInv'
<1>1. updating' = FALSE
  BY DEF Handshake
<1>2. toDevice' = <<>>
  BY DEF WatchedInv
<1>3. ~connected' => server'.phase = "none"
  BY DEF Handshake, NoSession
<1>4. QED
  BY <1>1, <1>2, <1>3 DEF WatchedInv

\* A message is only received in a session; the one that starts an update sets
\* the flag of the firmware too.
LEMMA ReceiveKeepsWatched ==
  ASSUME WatchedInv, Receive
  PROVE  WatchedInv'
<1> DEFINE m == Head(toDevice)
           rest == Tail(toDevice)
<1>1. connected /\ socketed /\ (~updating \/ flashUpdate = TRUE)
  BY DEF Receive, WatchedInv
<1>2. CASE SocketLost
  BY <1>2, LostIsWatched
<1>3. CASE ReceiveOther(rest) /\ ~SocketLost
  <2>1. connected' = connected /\ updating' = updating /\ flashUpdate' = flashUpdate
    BY <1>3 DEF ReceiveOther, Sent, Unlinked
  <2>2. QED
    BY <1>1, <2>1 DEF WatchedInv
<1>4. CASE ReceiveBegin(rest) /\ ~SocketLost
  <2>1. connected' = connected /\ flashUpdate' = TRUE
    BY <1>4 DEF ReceiveBegin, Sent, Unlinked
  <2>2. QED
    BY <1>1, <2>1 DEF WatchedInv
<1>5. CASE ReceiveChunk(m.chunk, rest) /\ ~SocketLost
  <2>1. connected' = connected /\ updating' = updating /\ flashUpdate' = flashUpdate
    BY <1>5 DEF ReceiveChunk, Sent, Unlinked
  <2>2. QED
    BY <1>1, <2>1 DEF WatchedInv
<1>6. CASE ReceiveDone /\ ~SocketLost
  BY <1>6 DEF ReceiveDone, SystemReset, Unlinked
<1>7. CASE ReceiveOther(rest) \/ ReceiveBegin(rest) \/ ReceiveChunk(m.chunk, rest) \/ ReceiveDone
  BY <1>2, <1>3, <1>4, <1>5, <1>6, <1>7
<1>8. QED
  BY <1>7 DEF Receive

LEMMA ServerKeepsWatched ==
  ASSUME WatchedInv,
         ServerTalks \/ ServerBegins \/ ServerSendsChunk \/ ServerFinishes
  PROVE  WatchedInv'
<1>1. server.phase # "none"
  BY DEF ServerTalks, ServerBegins, ServerSendsChunk, ServerFinishes
<1>2. connected /\ UNCHANGED <<socketed, connected, flashUpdate, updating>>
  BY <1>1 DEF WatchedInv, ServerTalks, ServerBegins, ServerSendsChunk, ServerFinishes,
              ServerSends, Device, flags
<1>3. QED
  BY <1>2 DEF WatchedInv

LEMMA WatchedStep ==
  ASSUME WatchedInv, [Next]_vars
  PROVE  WatchedInv'
<1>1. CASE Connect
  <2>1. CASE ~connected
    <3>1. Handshake /\ UNCHANGED toDevice
      BY <1>1, <2>1 DEF Connect
    <3>2. QED
      BY <2>1, <3>1, HandshakeKeepsWatched
  <2>2. CASE connected
    BY <1>1, <2>2 DEF Connect, WatchedInv
  <2>3. QED
    BY <2>1, <2>2
<1>2. CASE HandshakeAgain
  BY <1>2, HandshakeKeepsWatched DEF HandshakeAgain
<1>3. CASE RequestChunk
  <2>1. CASE Unlinked
    BY <2>1, UnlinkedIsWatched
  <2>2. CASE ~Unlinked
    <3>1. UNCHANGED <<socketed, connected, flashUpdate, updating, toDevice, server>>
      BY <1>3, <2>2 DEF RequestChunk, Sent
    <3>2. QED
      BY <3>1 DEF WatchedInv
  <2>3. QED
    BY <2>1, <2>2
<1>4. CASE Ping
  BY <1>4 DEF Ping, flags, world, WatchedInv
<1>5. CASE PingTimeout \/ LinkLost
  BY <1>5, UnlinkedIsWatched DEF PingTimeout, LinkLost
<1>6. CASE Receive
  BY <1>6, ReceiveKeepsWatched
<1>7. CASE Tick
  <2>1. CASE Unlinked
    BY <2>1, UnlinkedIsWatched
  <2>2. CASE ~Unlinked
    BY <1>7, <2>2 DEF Tick, TickUnless, SystemReset, flags, world, WatchedInv
  <2>3. QED
    BY <2>1, <2>2
<1>8. CASE ServerTalks \/ ServerBegins \/ ServerSendsChunk \/ ServerFinishes
  BY <1>8, ServerKeepsWatched
<1>9. CASE ServerReceives
  <2>1. UNCHANGED <<socketed, connected, flashUpdate, updating, toDevice>>
    BY <1>9 DEF ServerReceives, Device, flags
  <2>2. server.phase = "none" => server' = server
    BY <1>9 DEF ServerReceives
  <2>3. QED
    BY <2>1, <2>2 DEF WatchedInv
<1>10. CASE ServerFallsSilent
  BY <1>10 DEF ServerFallsSilent, Device, flags, WatchedInv
<1>11. CASE UNCHANGED vars
  BY <1>11 DEF vars, flags, world, WatchedInv
<1>12. QED
  BY <1>1, <1>2, <1>3, <1>4, <1>5, <1>6, <1>7, <1>8, <1>9, <1>10, <1>11 DEF Next, EventLoop

\* On a live socket the protocol is updating only while the firmware is in
\* SPARK_FLASH_UPDATE, so that either the ping or the watchdog watches over it.
THEOREM UpdateWatched == Spec => []UpdateIsWatched
<1>1. Init => WatchedInv
  BY DEF Init, WatchedInv, NoSession
<1>2. WatchedInv => UpdateIsWatched
  BY DEF WatchedInv, UpdateIsWatched
<1>3. QED
  BY <1>1, <1>2, WatchedStep, PTL DEF Spec

---------------------------------------------------------------------------
(* The update: what the device and the server believe of it, and flash.    *)

\* Whole chunks fill a sector: 512 bytes of 4096.  The last chunk may be shorter,
\* and any number of writes may fail.
FlashFits == SectorSize % ChunkSize = 0

Start(i) == IF i = NumChunks THEN ImageSize ELSE i * ChunkSize

\* While an update is in progress, also one whose link is lost, flash holds
\* the image up to the place of the next write, and is erased from there on;
\* unless the write of a short last chunk has failed.
ProgressInv ==
  updating = TRUE /\ shortFailed = FALSE =>
    /\ chunk_index = updateIndex /\ updateIndex \in 0 .. NumChunks
    /\ flashAddress = Start(updateIndex)
    /\ \A a \in Cell : flash[a] = IF a < flashAddress THEN a ELSE Erased

\* The messages on their way to the device: at most one is not about nothing.
Others == \A i \in 1 .. Len(toDevice) : toDevice[i].type = "other"

Coming(type) ==
  \E k \in 1 .. Len(toDevice) :
    /\ toDevice[k].type = type
    /\ type = "chunk" => toDevice[k].chunk = updateIndex
    /\ \A i \in 1 .. Len(toDevice) : i # k => toDevice[i].type = "other"

NoBegin == \A i \in 1 .. Len(toDevice) : toDevice[i].type # "begin"

\* The messages on their way to the server, from the k-th on: requests for the
\* chunk that the device waits for.
Asking(k) == \A i \in k .. Len(toServer) : toServer[i] = Missed(updateIndex)

\* The answer of the device to the chunk that the server sent last.
Answer(m) ==
  \/ m.type = "ok" /\ updateIndex = server.next + 1
  \/ m.type = "bad" /\ updateIndex = server.next
  \/ m = Missed(updateIndex)

NoUpdateInv ==
  /\ server \in {NoSession, Session}
  /\ Others /\ toServer = <<>>
  /\ socketed = TRUE \/ connected = TRUE => updating = FALSE

AskedInv ==
  /\ server.next = 0 /\ server.pending = FALSE /\ server.acked = FALSE
  /\ \/ Coming("begin") /\ toServer = <<>> /\ updating = FALSE
     \/ /\ Others /\ updating = TRUE /\ updateIndex = 0 /\ shortFailed = FALSE
        /\ silent = TRUE \/ (toServer # <<>> /\ toServer[1].type = "ready" /\ Asking(2))

\* The server waits for nothing, for the chunk to arrive, for the ACK, for what
\* follows the ACK, or for ever.
RestsInv == server.pending = FALSE /\ server.acked = FALSE /\ server.next = updateIndex
            /\ Others /\ Asking(1)
SentInv == server.pending = TRUE /\ server.acked = FALSE /\ server.next = updateIndex
           /\ Coming("chunk") /\ Asking(1)
AnsweredInv ==
  /\ server.pending = TRUE /\ server.acked = FALSE /\ Others
  /\ \E k \in 1 .. Len(toServer) - 1 :
       /\ toServer[k].type = "ack" /\ Answer(toServer[k + 1]) /\ Asking(k + 2)
       /\ \A i \in 1 .. k - 1 : toServer[i].type = "missed"
AckedInv ==
  /\ server.pending = TRUE /\ server.acked = TRUE /\ Others
  /\ toServer # <<>> /\ Answer(toServer[1]) /\ Asking(2)
DeafInv == server.pending = TRUE /\ silent = TRUE /\ Others

SendingInv ==
  /\ updating = TRUE /\ shortFailed = FALSE
  /\ server.pending = TRUE => server.next \in Chunk
  /\ RestsInv \/ SentInv \/ AnsweredInv \/ AckedInv \/ DeafInv

FinishedInv ==
  /\ updating = TRUE /\ updateIndex = NumChunks /\ shortFailed = FALSE
  /\ Others \/ Coming("done")

\* Once the write of a short last chunk has failed, all that is known is that
\* only a new session starts another update.
MisplacedInv ==
  server.phase \in {"sending", "finished"} /\ updating = TRUE /\ shortFailed = TRUE /\ NoBegin

SessionInv ==
  /\ server.phase # "none" => socketed = TRUE /\ connected = TRUE
  /\ \/ server.phase \in {"none", "idle"} /\ NoUpdateInv
     \/ server.phase = "asked" /\ AskedInv
     \/ server.phase = "sending" /\ SendingInv
     \/ server.phase = "finished" /\ FinishedInv
     \/ MisplacedInv

UpdateInv == TypeOK /\ ProgressInv /\ SessionInv

\* The places of the chunks follow one another and fill the image.
LEMMA Places ==
  /\ ImageSize \in Nat \ {0} /\ NumChunks <= ImageSize
  /\ \A i \in 0 .. NumChunks : i \in Nat /\ Start(i) \in 0 .. ImageSize
  /\ \A i \in Chunk : /\ SizeOf(i) \in 1 .. ChunkSize
                      /\ Start(i) = i * ChunkSize /\ Start(i + 1) = Start(i) + SizeOf(i)
<1> USE CloudAssumption DEF CloudAssumption
<1> DEFINE full == (NumChunks - 1) * ChunkSize
<1>1. full \in Nat /\ NumChunks - 1 <= full
  OBVIOUS
<1>2. ImageSize \in Nat \ {0} /\ NumChunks <= ImageSize
  <2>1. ImageSize = full + LastSize /\ LastSize \in Nat \ {0} /\ NumChunks \in Nat
    BY DEF ImageSize
  <2> HIDE DEF full
  <2>2. QED
    BY <1>1, <2>1
<1>3. ASSUME NEW i \in 0 .. NumChunks
      PROVE  i \in Nat /\ Start(i) \in 0 .. ImageSize
  <2>1. CASE i = NumChunks
    BY <1>2, <2>1 DEF Start
  <2>2. CASE i # NumChunks
    <3>1. i * ChunkSize \in 0 .. full
      BY <2>2
    <3>2. QED
      BY <1>1, <2>2, <3>1 DEF Start, ImageSize
  <2>3. QED
    BY <2>1, <2>2
<1>4. ASSUME NEW i \in Chunk
      PROVE  /\ SizeOf(i) \in 1 .. ChunkSize
             /\ Start(i) = i * ChunkSize /\ Start(i + 1) = Start(i) + SizeOf(i)
  BY <1>1 DEF Start, SizeOf, Chunk, ImageSize
<1>5. QED
  BY <1>2, <1>3, <1>4

\* The start of a sector is the start of a chunk, whose number the driver finds,
\* and the chunk that is written lies in the sector in which it starts.
LEMMA SectorPlaces ==
  ASSUME FlashFits, NEW i \in Chunk, NEW sector,
         sector = (Start(i) \div SectorSize) * SectorSize,
         SizeOf(i) = ChunkSize \/ sector = 0
  PROVE  /\ sector \in 0 .. Start(i) /\ Start(i) + SizeOf(i) <= sector + SectorSize
         /\ sector \div SizeOf(i) \in 0 .. i /\ Start(sector \div SizeOf(i)) = sector
<1> USE CloudAssumption DEF CloudAssumption
<1>1. i \in Nat /\ Start(i) = i * ChunkSize /\ SizeOf(i) \in 1 .. ChunkSize
  BY Places DEF Chunk
<1> DEFINE n == Start(i) \div SectorSize
           p == SectorSize \div ChunkSize
<1>2. n \in Nat /\ n * SectorSize <= Start(i) /\ Start(i) < n * SectorSize + SectorSize
  BY <1>1
<1>3. p \in Nat \ {0} /\ SectorSize = p * ChunkSize
  BY DEF FlashFits
<1>4. sector = (n * p) * ChunkSize /\ n * p \in Nat
  BY <1>2, <1>3
<1> DEFINE q == n * p
<1>5. q \in Nat /\ q <= i
  <2>1. q * ChunkSize <= i * ChunkSize
    BY <1>1, <1>2, <1>4
  <2> HIDE DEF q
  <2>2. QED
    BY <1>1, <1>4, <2>1 DEF q
<1>6. i < q + p
  <2>1. i * ChunkSize < (q + p) * ChunkSize
    BY <1>1, <1>2, <1>3, <1>4
  <2>2. QED
    BY <1>1, <1>3, <1>5, <2>1
<1>7. Start(i) + SizeOf(i) <= sector + SectorSize
  <2>1. (i + 1) * ChunkSize <= (q + p) * ChunkSize
    BY <1>1, <1>3, <1>5, <1>6
  <2>2. QED
    BY <1>1, <1>3, <1>4, <2>1
<1>8. sector \div SizeOf(i) = q
  <2>1. CASE SizeOf(i) = ChunkSize
    BY <1>4, <1>5, <2>1
  <2>2. CASE sector = 0
    <3>1. q = 0
      BY <1>4, <1>5, <2>2
    <3>2. QED
      BY <1>1, <2>2, <3>1
  <2>3. QED
    BY <2>1, <2>2
<1>9. Start(q) = sector
  BY <1>4, <1>5 DEF Start, Chunk
<1>10. QED
  BY <1>1, <1>2, <1>5, <1>7, <1>8, <1>9

\* A chunk that arrives in its turn is saved in its place, and the update goes
\* on behind it; when the write fails it goes back to the start of a sector.
LEMMA SaveKeepsProgress ==
  ASSUME FlashFits, TypeOK, ProgressInv, updating = TRUE, shortFailed = FALSE,
         updateIndex \in Chunk, SaveFirmwareChunk(updateIndex), shortFailed' = FALSE,
         chunk_index' = updateIndex', updating' = updating
  PROVE  /\ ProgressInv' /\ updateIndex' \in 0 .. updateIndex + 1
         /\ updateIndex' > updateIndex => updateIndex' = updateIndex + 1
<1> DEFINE i == updateIndex
           size == SizeOf(i)
           span == flashAddress .. flashAddress + size - 1
           start == (flashAddress \div SectorSize) * SectorSize
<1>1. /\ i \in Nat /\ flashAddress \in Nat /\ size \in 1 .. ChunkSize
      /\ flashAddress = Start(i) /\ flashAddress = i * ChunkSize
      /\ Start(i + 1) = flashAddress + size
      /\ \A a \in Cell : flash[a] = IF a < flashAddress THEN a ELSE Erased
  BY Places DEF ProgressInv, Chunk
<1>2. /\ NumChunks \in Nat /\ ChunkSize \in Nat /\ SectorSize \in Nat \ {0}
      /\ Cell \subseteq Nat /\ i + 1 \in 0 .. NumChunks
  <2>1. Cell \subseteq Nat
    BY Places DEF Cell
  <2>2. NumChunks \in Nat /\ ChunkSize \in Nat /\ SectorSize \in Nat \ {0}
    BY CloudAssumption DEF CloudAssumption
  <2>3. QED
    BY <1>1, <2>1, <2>2 DEF Chunk
<1>3. CASE WriteChunk(i)
  <2>1. updateIndex' = i + 1 /\ flashAddress' = flashAddress + size
        /\ flash' = [a \in Cell |-> IF a \in span THEN i * ChunkSize + a - flashAddress
                                    ELSE flash[a]]
    BY <1>3 DEF WriteChunk
  <2>2. ASSUME NEW a \in Cell
        PROVE  flash'[a] = IF a < flashAddress' THEN a ELSE Erased
    BY <1>1, <1>2, <2>1
  <2>3. QED
    BY <1>1, <1>2, <2>1, <2>2 DEF ProgressInv
<1>4. CASE BackOff(i)
  <2>1. /\ updateIndex' = start \div size /\ flashAddress' = start
        /\ flash' = [a \in Cell |-> IF a \in start .. start + SectorSize - 1 THEN Erased
                                    ELSE IF a \in span THEN Garbage ELSE flash[a]]
        /\ size = ChunkSize \/ ~(start > 0)
    BY <1>4 DEF BackOff, IndexAt
  <2>2. start \in Nat /\ (size = ChunkSize \/ start = 0)
    BY <1>1, <1>2, <2>1
  <2>3. /\ start \in 0 .. flashAddress /\ flashAddress + size <= start + SectorSize
        /\ start \div size \in 0 .. i /\ Start(start \div size) = start
    <3>1. start = (Start(i) \div SectorSize) * SectorSize
      BY <1>1
    <3> HIDE DEF start
    <3>2. QED
      BY <1>1, <2>2, <3>1, SectorPlaces
  <2> HIDE DEF start, size
  <2>4. ASSUME NEW a \in Cell
        PROVE  flash'[a] = IF a < flashAddress' THEN a ELSE Erased
    BY <1>1, <1>2, <2>1, <2>3
  <2>5. QED
    BY <1>1, <1>2, <2>1, <2>3, <2>4 DEF ProgressInv
<1>5. QED
  BY <1>3, <1>4 DEF SaveFirmwareChunk

---------------------------------------------------------------------------
(* Messages on their way.                                                  *)

DeviceMessage == [type : {"begin", "chunk", "done", "other"}, chunk : Chunk]
ServerMessage == [type : {"ack", "ready", "ok", "bad", "missed"}, index : Nat]

LEMMA Queues ==
  ASSUME TypeOK
  PROVE  /\ toDevice \in Seq(DeviceMessage) /\ Len(toDevice) <= Window
         /\ toServer \in Seq(ServerMessage) /\ Len(toServer) <= Window
BY DEF TypeOK, DeviceMessage, ServerMessage

\* The device takes a message that is not about the update.
LEMMA OtherTaken ==
  ASSUME toDevice \in Seq(DeviceMessage), toDevice # <<>>, toDevice' = Tail(toDevice),
         Head(toDevice).type = "other", updateIndex' = updateIndex
  PROVE  /\ Others => Others'
         /\ Coming("begin") => Coming("begin")'
         /\ Coming("chunk") => Coming("chunk")'
         /\ Coming("done") => Coming("done")'
         /\ NoBegin => NoBegin'
<1>1. (Others => Others') /\ (NoBegin => NoBegin')
  BY DEF Others, NoBegin
<1>2. ASSUME NEW type \in {"begin", "chunk", "done"}, Coming(type)
      PROVE  Coming(type)'
  <2>1. PICK k \in 1 .. Len(toDevice) :
          /\ toDevice[k].type = type
          /\ type = "chunk" => toDevice[k].chunk = updateIndex
          /\ \A i \in 1 .. Len(toDevice) : i # k => toDevice[i].type = "other"
    BY <1>2 DEF Coming
  <2>2. k # 1
    BY <2>1
  <2>3. k - 1 \in 1 .. Len(toDevice') /\ toDevice'[k - 1] = toDevice[k]
    BY <2>1, <2>2
  <2>4. \A i \in 1 .. Len(toDevice') : i # k - 1 => toDevice'[i].type = "other"
    BY <2>1
  <2>5. QED
    BY <2>1, <2>3, <2>4 DEF Coming
<1>3. QED
  BY <1>1, <1>2

\* The server sends a message that is not about the update, or one that is.
LEMMA OtherSent ==
  ASSUME toDevice \in Seq(DeviceMessage), toDevice' = Append(toDevice, ToDevice("other")),
         updateIndex' = updateIndex
  PROVE  /\ Others => Others'
         /\ Coming("begin") => Coming("begin")'
         /\ Coming("chunk") => Coming("chunk")'
         /\ Coming("done") => Coming("done")'
         /\ NoBegin => NoBegin'
<1>1. (Others => Others') /\ (NoBegin => NoBegin')
  BY DEF Others, NoBegin, ToDevice
<1>2. ASSUME NEW type \in {"begin", "chunk", "done"}, Coming(type)
      PROVE  Coming(type)'
  <2>1. PICK k \in 1 .. Len(toDevice) :
          /\ toDevice[k].type = type
          /\ type = "chunk" => toDevice[k].chunk = updateIndex
          /\ \A i \in 1 .. Len(toDevice) : i # k => toDevice[i].type = "other"
    BY <1>2 DEF Coming
  <2>2. k \in 1 .. Len(toDevice') /\ toDevice'[k] = toDevice[k]
    BY <2>1
  <2>3. \A i \in 1 .. Len(toDevice') : i # k => toDevice'[i].type = "other"
    BY <2>1 DEF ToDevice
  <2>4. QED
    BY <2>1, <2>2, <2>3 DEF Coming
<1>3. QED
  BY <1>1, <1>2

LEMMA AwaitedSent ==
  ASSUME toDevice \in Seq(DeviceMessage), Others, NEW m, toDevice' = Append(toDevice, m),
         updateIndex' = updateIndex, m.type = "chunk" => m.chunk = updateIndex
  PROVE  Coming(m.type)'
<1>1. Len(toDevice) + 1 \in 1 .. Len(toDevice') /\ toDevice'[Len(toDevice) + 1] = m
  OBVIOUS
<1>2. \A i \in 1 .. Len(toDevice') : i # Len(toDevice) + 1 => toDevice'[i].type = "other"
  BY DEF Others
<1>3. QED
  BY <1>1, <1>2 DEF Coming

\* Requests for the chunk that the device waits for may follow one another.
LEMMA AskedAgain ==
  ASSUME toServer \in Seq(ServerMessage), updateIndex' = updateIndex,
         toServer' = toServer \o <<Missed(updateIndex)>>, NEW k \in Nat \ {0}, Asking(k)
  PROVE  Asking(k)'
BY DEF Asking

---------------------------------------------------------------------------
(* The steps of the main loop keep the session.                            *)

LEMMA LostKeepsSession ==
  ASSUME SocketLost
  PROVE  SessionInv'
BY DEF SocketLost, SessionInv, NoUpdateInv, NoSession, Others

LEMMA UnlinkedKeepsSession ==
  ASSUME Unlinked
  PROVE  SessionInv'
BY LostKeepsSession DEF Unlinked

\* Steps that only take messages about nothing off, or put them on, the way to
\* the device; the server may fall silent.
LEMMA ForwardedKeepsSession ==
  ASSUME SessionInv, UNCHANGED <<socketed, connected, updating, updateIndex>>,
         UNCHANGED <<toServer, server, shortFailed>>, silent = TRUE => silent' = TRUE,
         NoBegin => NoBegin', Others => Others', Coming("begin") => Coming("begin")',
         Coming("chunk") => Coming("chunk")', Coming("done") => Coming("done")'
  PROVE  SessionInv'
<1>1. (Asking(1) => Asking(1)') /\ (Asking(2) => Asking(2)')
  BY DEF Asking
<1>2. NoUpdateInv => NoUpdateInv'
  BY DEF NoUpdateInv
<1>3. AskedInv => AskedInv'
  BY <1>1 DEF AskedInv
<1>4. SendingInv => SendingInv'
  <2>1. (RestsInv => RestsInv') /\ (SentInv => SentInv') /\ (DeafInv => DeafInv')
    BY <1>1 DEF RestsInv, SentInv, DeafInv
  <2>2. AnsweredInv => AnsweredInv'
    BY DEF AnsweredInv, Answer, Asking
  <2>3. AckedInv => AckedInv'
    BY <1>1 DEF AckedInv, Answer
  <2>4. QED
    BY <2>1, <2>2, <2>3 DEF SendingInv
<1>5. FinishedInv => FinishedInv'
  BY DEF FinishedInv
<1>6. MisplacedInv => MisplacedInv'
  BY DEF MisplacedInv
<1>7. QED
  BY <1>2, <1>3, <1>4, <1>5, <1>6 DEF SessionInv

\* Steps of which the session takes no notice.
LEMMA AloneKeepsSession ==
  ASSUME SessionInv, UNCHANGED <<socketed, connected, updating, updateIndex>>,
         UNCHANGED <<toDevice, toServer, server, shortFailed>>, silent = TRUE => silent' = TRUE
  PROVE  SessionInv'
<1>1. /\ NoBegin => NoBegin'
      /\ Others => Others'
      /\ Coming("begin") => Coming("begin")'
      /\ Coming("chunk") => Coming("chunk")'
      /\ Coming("done") => Coming("done")'
  BY DEF NoBegin, Others, Coming
<1>2. QED
  BY <1>1, ForwardedKeepsSession

\* What is left of an update that a failed write of its last chunk has misplaced.
LEMMA MisplacedKeepsSession ==
  ASSUME SessionInv, MisplacedInv, UNCHANGED <<socketed, connected, updating>>,
         shortFailed' = TRUE, server'.phase \in {"sending", "finished"}, NoBegin'
  PROVE  SessionInv'
BY DEF SessionInv, MisplacedInv

LEMMA HandshakeKeepsSession ==
  ASSUME SessionInv, connected # TRUE, Handshake, UNCHANGED <<toDevice, toServer>>
  PROVE  SessionInv'
<1>1. NoUpdateInv
  BY DEF SessionInv, MisplacedInv
<1>2. Others' /\ toServer' = <<>> /\ updating' = FALSE
  BY <1>1 DEF NoUpdateInv, Others, Handshake
<1>3. /\ server' \in {NoSession, Session} /\ server'.phase \in {"none", "idle"}
      /\ server'.phase # "none" => socketed' = TRUE /\ connected' = TRUE
  BY DEF Handshake, Session, NoSession
<1>4. QED
  BY <1>2, <1>3 DEF SessionInv, NoUpdateInv

LEMMA ConnectKeepsSession ==
  ASSUME TypeOK, SessionInv, Connect
  PROVE  SessionInv'
<1>1. CASE connected # TRUE
  BY <1>1, HandshakeKeepsSession DEF Connect, TypeOK
<1>2. CASE connected = TRUE
  <2>1. NoUpdateInv /\ server.phase = "none" /\ updating = FALSE
    BY <1>2 DEF SessionInv, NoUpdateInv, MisplacedInv, Connect
  <2>2. toDevice' = <<ToDevice("other")>> /\ UNCHANGED <<server, toServer, updating>>
    BY <1>2 DEF Connect
  <2>3. Others'
    BY <2>2 DEF Others, ToDevice
  <2>4. QED
    BY <2>1, <2>2, <2>3 DEF SessionInv, NoUpdateInv
<1>3. QED
  BY <1>1, <1>2

\* A request for the chunk that is missing joins whatever is on its way.
LEMMA RequestKeepsSession ==
  ASSUME TypeOK, ProgressInv, SessionInv, RequestChunk
  PROVE  SessionInv'
<1>1. CASE Unlinked
  BY <1>1, UnlinkedKeepsSession
<1>2. CASE Sent(<<Missed(chunk_index)>>) /\ toDevice' = toDevice /\ MisplacedInv
  <2>1. UNCHANGED <<socketed, connected, server, updating, shortFailed, toDevice>>
    BY <1>2 DEF RequestChunk, Sent, place
  <2>2. QED
    BY <1>2, <2>1, MisplacedKeepsSession DEF MisplacedInv, NoBegin
<1>3. CASE Sent(<<Missed(chunk_index)>>) /\ toDevice' = toDevice /\ ~MisplacedInv
  <2>1. updating = TRUE /\ socketed = TRUE
    BY DEF RequestChunk, TypeOK
  <2>2. shortFailed = FALSE
    BY <1>3, <2>1 DEF SessionInv, NoUpdateInv, AskedInv, SendingInv, FinishedInv
  <2>3. /\ chunk_index = updateIndex /\ updateIndex' = updateIndex /\ updating' = updating
        /\ UNCHANGED <<socketed, connected, server, silent, toDevice, shortFailed>>
    BY <1>3, <2>1, <2>2 DEF RequestChunk, place, Sent, ProgressInv
  <2>4. CASE UNCHANGED toServer
    BY <2>3, <2>4, AloneKeepsSession
  <2>5. CASE toServer' = toServer \o <<Missed(updateIndex)>>
    <3>1. toServer \in Seq(ServerMessage)
      BY Queues
    <3>2. \A k \in Nat \ {0} : Asking(k) => Asking(k)'
      BY <2>3, <2>5, <3>1, AskedAgain
    <3>3. /\ Len(toServer') = Len(toServer) + 1
          /\ \A i \in 1 .. Len(toServer) : toServer'[i] = toServer[i]
      BY <2>5, <3>1
    <3>4. (Others => Others') /\ (Coming("chunk") => Coming("chunk")')
          /\ (Coming("done") => Coming("done")')
      BY <2>3 DEF Others, Coming
    <3>5. CASE AskedInv /\ server.phase = "asked"
      BY <2>1, <2>3, <3>1, <3>2, <3>3, <3>4, <3>5 DEF AskedInv, SessionInv
    <3>6. CASE SendingInv /\ server.phase = "sending"
      <4>1. (RestsInv => RestsInv') /\ (SentInv => SentInv') /\ (DeafInv => DeafInv')
        BY <2>3, <3>2, <3>4 DEF RestsInv, SentInv, DeafInv
      <4>2. ASSUME AnsweredInv
            PROVE  AnsweredInv'
        <5>1. PICK k \in 1 .. Len(toServer) - 1 :
                /\ toServer[k].type = "ack" /\ Answer(toServer[k + 1]) /\ Asking(k + 2)
                /\ \A i \in 1 .. k - 1 : toServer[i].type = "missed"
          BY <4>2 DEF AnsweredInv
        <5>2. k \in 1 .. Len(toServer') - 1 /\ Asking(k + 2)'
          BY <3>2, <3>3, <5>1, <3>1
        <5>3. toServer'[k].type = "ack" /\ toServer'[k + 1] = toServer[k + 1]
              /\ \A i \in 1 .. k - 1 : toServer'[i].type = "missed"
          BY <3>3, <5>1, <3>1
        <5>4. Answer(toServer[k + 1])'
          BY <2>3, <5>1, <5>3 DEF Answer
        <5>5. QED
          BY <2>3, <3>4, <4>2, <5>2, <5>3, <5>4 DEF AnsweredInv
      <4>3. ASSUME AckedInv
            PROVE  AckedInv'
        <5>1. toServer' # <<>> /\ toServer'[1] = toServer[1] /\ Asking(2)'
          BY <3>1, <3>2, <3>3, <4>3 DEF AckedInv
        <5>2. QED
          BY <2>3, <3>4, <4>3, <5>1 DEF AckedInv, Answer
      <4>4. QED
        BY <2>1, <2>3, <3>6, <4>1, <4>2, <4>3 DEF SendingInv, SessionInv
    <3>7. CASE FinishedInv /\ server.phase = "finished"
      BY <2>1, <2>3, <3>4, <3>7 DEF FinishedInv, SessionInv
    <3>8. QED
      BY <1>3, <2>1, <2>3, <3>5, <3>6, <3>7 DEF SessionInv, NoUpdateInv
  <2>6. QED
    BY <1>3, <2>3, <2>4, <2>5 DEF Sent
<1>4. QED
  BY <1>1, <1>2, <1>3 DEF RequestChunk

\* What the first message on its way to the device says of the session.
LEMMA HeadMessage ==
  ASSUME TypeOK, SessionInv, toDevice # <<>>, Head(toDevice).type # "other",
         shortFailed = FALSE \/ Head(toDevice).type = "begin", NEW rest, rest = Tail(toDevice)
  PROVE  /\ \A i \in 1 .. Len(rest) : rest[i].type = "other"
         /\ Head(toDevice).type = "begin" => server.phase = "asked" /\ AskedInv /\ toServer = <<>>
         /\ Head(toDevice).type = "chunk" =>
              /\ server.phase = "sending" /\ updating = TRUE /\ SentInv
              /\ Head(toDevice).chunk = updateIndex /\ server.next \in Chunk
         /\ Head(toDevice).type = "done" => server.phase = "finished" /\ FinishedInv
<1>1. toDevice \in Seq(DeviceMessage)
  BY Queues
<1>2. ~Others
  BY <1>1 DEF Others
<1>3. ASSUME NEW type, Coming(type)
      PROVE  /\ Head(toDevice).type = type /\ \A i \in 1 .. Len(rest) : rest[i].type = "other"
             /\ type = "chunk" => Head(toDevice).chunk = updateIndex
  <2>1. PICK k \in 1 .. Len(toDevice) :
          /\ toDevice[k].type = type
          /\ type = "chunk" => toDevice[k].chunk = updateIndex
          /\ \A i \in 1 .. Len(toDevice) : i # k => toDevice[i].type = "other"
    BY <1>3 DEF Coming
  <2>2. k = 1 /\ Head(toDevice) = toDevice[1]
    BY <1>1, <2>1
  <2>3. QED
    BY <1>1, <2>1, <2>2
<1>4. CASE server.phase = "asked" /\ AskedInv
  BY <1>2, <1>3, <1>4 DEF AskedInv
<1>5. CASE server.phase = "sending" /\ SendingInv
  BY <1>2, <1>3, <1>5 DEF SendingInv, RestsInv, SentInv, AnsweredInv, AckedInv, DeafInv
<1>6. CASE server.phase = "finished" /\ FinishedInv
  BY <1>2, <1>3, <1>6 DEF FinishedInv
<1>7. ~MisplacedInv
  BY <1>1 DEF MisplacedInv, NoBegin
<1>8. QED
  BY <1>2, <1>4, <1>5, <1>6, <1>7 DEF SessionInv, NoUpdateInv

\* A misplaced update stays one until the link is lost: what the device makes of
\* its messages does not start another.
LEMMA TailKeepsMisplaced ==
  ASSUME TypeOK, SessionInv, toDevice # <<>>, Head(toDevice).type \in {"chunk", "done"},
         shortFailed = TRUE, NEW ms, Sent(ms), toDevice' = Tail(toDevice),
         updating' = updating, shortFailed' = TRUE
  PROVE  SessionInv'
<1>1. toDevice \in Seq(DeviceMessage)
  BY Queues
<1>2. ~Others /\ ~Coming("begin")
  BY <1>1 DEF Others, Coming
<1>3. MisplacedInv
  BY <1>2 DEF SessionInv, NoUpdateInv, AskedInv, SendingInv, FinishedInv
<1>4. NoBegin'
  BY <1>1, <1>3 DEF MisplacedInv, NoBegin
<1>5. QED
  BY <1>3, <1>4, MisplacedKeepsSession DEF Sent, MisplacedInv

LEMMA OtherKeepsSession ==
  ASSUME TypeOK, SessionInv, toDevice # <<>>, Head(toDevice).type = "other",
         ReceiveOther(Tail(toDevice))
  PROVE  SessionInv'
<1>1. CASE Unlinked
  BY <1>1, UnlinkedKeepsSession
<1>2. CASE Sent(<<>>) /\ toDevice' = Tail(toDevice)
  <2>1. toDevice \in Seq(DeviceMessage) /\ toServer \in Seq(ServerMessage)
    BY Queues
  <2>2. UNCHANGED <<socketed, connected, updating, updateIndex, shortFailed>>
        /\ UNCHANGED <<toServer, server, silent>>
    BY <1>2, <2>1 DEF ReceiveOther, Sent, place
  <2>3. /\ NoBegin => NoBegin'
        /\ Others => Others'
        /\ Coming("begin") => Coming("begin")'
        /\ Coming("chunk") => Coming("chunk")'
        /\ Coming("done") => Coming("done")'
    BY <1>2, <2>1, <2>2, OtherTaken
  <2>4. QED
    BY <2>2, <2>3, ForwardedKeepsSession
<1>3. QED
  BY <1>1, <1>2 DEF ReceiveOther

\* UPDATE_BEGIN starts the update anew at the device.
LEMMA BeginKeepsSession ==
  ASSUME TypeOK, ProgressInv, SessionInv, toDevice # <<>>, Head(toDevice).type = "begin",
         ReceiveBegin(Tail(toDevice))
  PROVE  SessionInv' /\ ProgressInv'
<1>1. CASE Unlinked /\ UNCHANGED <<updating, chunk_index, place>>
  BY <1>1, UnlinkedKeepsSession DEF ProgressInv, place
<1>2. CASE PrepareForFirmwareUpdate /\ StartUpdating
  <2>1. /\ updating' = TRUE /\ chunk_index' = 0 /\ updateIndex' = 0 /\ flashAddress' = 0
        /\ flash' = [a \in Cell |-> Erased] /\ shortFailed' = FALSE
    BY <1>2 DEF PrepareForFirmwareUpdate, StartUpdating
  <2>2. Start(0) = 0 /\ 0 \in 0 .. NumChunks /\ Cell \subseteq Nat
    <3>1. NumChunks \in Nat \ {0} /\ ChunkSize \in Nat
      BY CloudAssumption DEF CloudAssumption
    <3>2. Start(0) = 0
      BY <3>1 DEF Start
    <3>3. Cell \subseteq Nat
      BY DEF Cell
    <3>4. QED
      BY <3>1, <3>2, <3>3
  <2>3. ProgressInv'
    <3>1. ASSUME NEW a \in Cell
          PROVE  flash'[a] = Erased /\ ~(a < flashAddress')
      <4>1. a \in Nat
        BY <2>2
      <4>2. QED
        BY <2>1, <4>1
    <3>2. QED
      BY <2>1, <2>2, <3>1 DEF ProgressInv
  <2>4. CASE SocketLost
    BY <2>3, <2>4, LostKeepsSession
  <2>5. CASE Sent(<<ToServer("ready")>>) /\ toDevice' = Tail(toDevice)
    <3>1. /\ server.phase = "asked" /\ AskedInv /\ toServer = <<>>
          /\ \A i \in 1 .. Len(Tail(toDevice)) : Tail(toDevice)[i].type = "other"
      BY HeadMessage
    <3>2. Others' /\ UNCHANGED <<socketed, connected, server>>
      BY <2>5, <3>1 DEF Others, Sent
    <3>3. silent' = TRUE \/ toServer' = <<ToServer("ready")>>
      BY <2>5, <3>1 DEF Sent, TypeOK
    <3>4. toServer' = <<ToServer("ready")>> =>
            toServer' # <<>> /\ toServer'[1].type = "ready" /\ Asking(2)'
      BY DEF Asking, ToServer
    <3>5. AskedInv'
      BY <2>1, <3>1, <3>2, <3>3, <3>4 DEF AskedInv
    <3>6. QED
      BY <2>3, <3>1, <3>2, <3>5 DEF SessionInv
  <2>6. QED
    BY <2>4, <2>5, <1>1 DEF ReceiveBegin, Unlinked
<1>3. QED
  BY <1>1, <1>2 DEF ReceiveBegin

\* The device answers the chunk that the server sent last with where it is now.
LEMMA ReplyKeepsSession ==
  ASSUME TypeOK, SessionInv, toDevice # <<>>, Head(toDevice).type = "chunk",
         shortFailed = FALSE, shortFailed' = FALSE, updating' = updating,
         NEW m, Sent(<<ToServer("ack"), m>>), toDevice' = Tail(toDevice),
         \/ m.type = "ok" /\ updateIndex' = updateIndex + 1
         \/ m.type = "bad" /\ updateIndex' = updateIndex
         \/ m = Missed(updateIndex')
  PROVE  SessionInv'
<1>1. /\ server.phase = "sending" /\ updating = TRUE /\ SentInv /\ server.next \in Chunk
      /\ \A i \in 1 .. Len(Tail(toDevice)) : Tail(toDevice)[i].type = "other"
  BY HeadMessage
<1>2. Others' /\ UNCHANGED <<socketed, connected, server, silent, updating>>
  BY <1>1 DEF Others, Sent
<1>3. CASE silent = TRUE
  BY <1>1, <1>2, <1>3 DEF SessionInv, SendingInv, SentInv, DeafInv
<1>4. CASE toServer' = toServer \o <<ToServer("ack"), m>>
  <2>1. toServer \in Seq(ServerMessage)
    BY Queues
  <2>2. PICK n \in Nat : n = Len(toServer)
    BY <2>1
  <2>3. /\ Len(toServer') = n + 2 /\ toServer'[n + 1] = ToServer("ack") /\ toServer'[n + 2] = m
        /\ \A i \in 1 .. n : toServer'[i] = toServer[i]
    BY <1>4, <2>1, <2>2
  <2>4. n + 1 \in 1 .. Len(toServer') - 1 /\ toServer'[n + 1].type = "ack" /\ Asking(n + 3)'
    BY <2>2, <2>3 DEF Asking, ToServer
  <2>5. \A i \in 1 .. n : toServer'[i].type = "missed"
    BY <1>1, <2>2, <2>3 DEF SentInv, Asking, Missed
  <2>6. Answer(toServer[n + 2])'
    BY <1>1, <1>2, <2>3 DEF Answer, SentInv
  <2>7. AnsweredInv'
    <3>1. PICK k \in Nat : k = n + 1 /\ k + 1 = n + 2 /\ k + 2 = n + 3 /\ k - 1 = n
      BY <2>2
    <3>2. k \in 1 .. Len(toServer') - 1 /\ toServer'[k].type = "ack"
      BY <2>4, <3>1
    <3>3. \A i \in 1 .. k - 1 : toServer'[i].type = "missed"
      BY <2>5, <3>1
    <3>4. Answer(toServer[k + 1])'
      BY <2>6, <3>1
    <3>5. Asking(k + 2)'
      BY <2>4, <3>1
    <3>6. server'.pending = TRUE /\ server'.acked = FALSE
      BY <1>1, <1>2 DEF SentInv
    <3>7. QED
      BY <1>2, <3>2, <3>3, <3>4, <3>5, <3>6 DEF AnsweredInv
  <2>8. QED
    BY <1>1, <1>2, <2>7 DEF SessionInv, SendingInv
<1>5. QED
  BY <1>3, <1>4 DEF Sent, TypeOK

\* A write of the last chunk has failed, now or before.
LEMMA ChunkMisplaces ==
  ASSUME TypeOK, ProgressInv, SessionInv, toDevice # <<>>, Head(toDevice).type = "chunk",
         ReceiveChunk(Head(toDevice).chunk, Tail(toDevice)), shortFailed' = TRUE
  PROVE  SessionInv' /\ ProgressInv'
<1>1. ProgressInv'
  BY DEF ProgressInv
<1>2. CASE Unlinked
  BY <1>1, <1>2, UnlinkedKeepsSession
<1>3. CASE ~Unlinked
  <2>1. PICK ms : Sent(ms) /\ toDevice' = Tail(toDevice)
    BY <1>3 DEF ReceiveChunk
  <2>2. updating' = updating
    BY DEF ReceiveChunk
  <2>3. CASE shortFailed = TRUE
    BY <1>1, <2>1, <2>2, <2>3, TailKeepsMisplaced
  <2>4. CASE shortFailed = FALSE
    <3>1. /\ server.phase = "sending" /\ updating = TRUE
          /\ \A i \in 1 .. Len(Tail(toDevice)) : Tail(toDevice)[i].type = "other"
      BY <2>4, HeadMessage
    <3>2. NoBegin'
      BY <2>1, <3>1 DEF NoBegin
    <3>3. QED
      BY <1>1, <2>1, <2>2, <3>1, <3>2 DEF SessionInv, MisplacedInv, Sent
  <2>5. QED
    BY <2>3, <2>4 DEF TypeOK
<1>4. QED
  BY <1>2, <1>3

\* CHUNK: saved in its place, or dropped, or the link fails.
LEMMA ChunkKeepsSession ==
  ASSUME FlashFits, TypeOK, ProgressInv, SessionInv, toDevice # <<>>,
         Head(toDevice).type = "chunk", ReceiveChunk(Head(toDevice).chunk, Tail(toDevice)),
         shortFailed' = FALSE
  PROVE  SessionInv' /\ ProgressInv'
<1>1. shortFailed = FALSE
  BY DEF ReceiveChunk, DropChunk, place, SaveFirmwareChunk, WriteChunk, BackOff, TypeOK
<1>2. /\ server.phase = "sending" /\ updating = TRUE /\ SentInv /\ server.next \in Chunk
      /\ Head(toDevice).chunk = updateIndex
  BY <1>1, HeadMessage
<1>3. updateIndex \in Chunk /\ updateIndex \in Nat /\ NumChunks \in Nat
      /\ chunk_index = updateIndex /\ updating' = updating
  BY <1>1, <1>2, CloudAssumption DEF SentInv, Chunk, CloudAssumption, ProgressInv, ReceiveChunk
<1>4. CASE /\ DropChunk
           /\ \/ Unlinked
              \/ Sent(<<ToServer("ack"), ToServer("bad")>>) /\ toDevice' = Tail(toDevice)
  <2>1. UNCHANGED <<chunk_index, updateIndex, flashAddress, flash, shortFailed>>
    BY <1>4 DEF DropChunk, place
  <2>2. ProgressInv'
    BY <1>3, <2>1 DEF ProgressInv
  <2>3. SessionInv'
    BY <1>1, <1>3, <1>4, <2>1, ReplyKeepsSession, UnlinkedKeepsSession DEF ToServer
  <2>4. QED
    BY <2>2, <2>3
<1>5. CASE /\ SaveFirmwareChunk(updateIndex) /\ chunk_index' = updateIndex'
           /\ \/ Unlinked
              \/ /\ Sent(<<ToServer("ack"), Verdict(updateIndex')>>)
                 /\ toDevice' = Tail(toDevice)
  <2>1. /\ ProgressInv' /\ updateIndex' \in 0 .. updateIndex + 1
        /\ updateIndex' > updateIndex => updateIndex' = updateIndex + 1
    BY <1>1, <1>2, <1>3, <1>5, SaveKeepsProgress
  <2>2. IF updateIndex' > updateIndex THEN Verdict(updateIndex') = ToServer("ok")
                                      ELSE Verdict(updateIndex') = Missed(updateIndex')
    BY <1>3 DEF Verdict
  <2>3. ToServer("ok").type = "ok"
    BY DEF ToServer
  <2>4. SessionInv'
    BY <1>1, <1>3, <1>5, <2>1, <2>2, <2>3, ReplyKeepsSession, UnlinkedKeepsSession
  <2>5. QED
    BY <2>1, <2>4
<1>6. QED
  BY <1>2, <1>4, <1>5 DEF ReceiveChunk

\* UPDATE_DONE: what the bootloader is told to install is the image.
LEMMA DoneInstallsImage ==
  ASSUME TypeOK, ProgressInv, SessionInv, toDevice # <<>>, Head(toDevice).type = "done",
         shortFailed = FALSE
  PROVE  flash = Image
<1>1. server.phase = "finished" /\ updating = TRUE /\ updateIndex = NumChunks
  BY HeadMessage DEF FinishedInv
<1>2. flashAddress = ImageSize /\ \A a \in Cell : a < ImageSize
  BY <1>1, Places DEF ProgressInv, Start, Cell
<1>3. \A a \in Cell : flash[a] = a
  BY <1>1, <1>2 DEF ProgressInv
<1>4. QED
  BY <1>3 DEF TypeOK, Image

LEMMA ReceiveKeepsSession ==
  ASSUME FlashFits, UpdateInv, Receive
  PROVE  SessionInv' /\ ProgressInv'
<1> USE DEF UpdateInv
<1>1. toDevice # <<>>
  BY DEF Receive
<1>2. CASE Head(toDevice).type = "other" /\ ReceiveOther(Tail(toDevice))
  BY <1>1, <1>2, OtherKeepsSession DEF ReceiveOther, ProgressInv, place
<1>3. CASE Head(toDevice).type = "begin" /\ ReceiveBegin(Tail(toDevice))
  BY <1>1, <1>3, BeginKeepsSession DEF ReceiveBegin
<1>4. CASE Head(toDevice).type = "chunk" /\ ReceiveChunk(Head(toDevice).chunk, Tail(toDevice))
  <2>1. shortFailed' \in BOOLEAN
    BY <1>4 DEF ReceiveChunk, DropChunk, place, SaveFirmwareChunk, WriteChunk, BackOff, TypeOK
  <2>2. QED
    BY <1>1, <1>4, <2>1, ChunkKeepsSession, ChunkMisplaces
<1>5. CASE Head(toDevice).type = "done" /\ ReceiveDone
  <2>1. SessionInv'
    BY <1>5, UnlinkedKeepsSession DEF ReceiveDone, SystemReset
  <2>2. ProgressInv'
    BY <1>5 DEF ReceiveDone, SystemReset, ProgressInv, place
  <2>3. QED
    BY <2>1, <2>2
<1>6. QED
  BY <1>2, <1>3, <1>4, <1>5 DEF Receive

---------------------------------------------------------------------------
(* The steps of the server keep the session.                               *)

LEMMA ServerSendsKeepsSession ==
  ASSUME TypeOK, ProgressInv, SessionInv,
         ServerTalks \/ ServerBegins \/ ServerSendsChunk \/ ServerFinishes
  PROVE  SessionInv'
<1>1. toDevice \in Seq(DeviceMessage)
  BY Queues
<1>2. UNCHANGED <<socketed, connected, updating, updateIndex, shortFailed, toServer, silent>>
  BY DEF ServerTalks, ServerBegins, ServerSendsChunk, ServerFinishes, ServerSends, Device, flags,
         place
<1>3. (Asking(1) => Asking(1)') /\ (Asking(2) => Asking(2)')
  BY <1>2 DEF Asking
<1>4. CASE ServerTalks
  <2>1. toDevice' = Append(toDevice, ToDevice("other")) /\ server' = server
    BY <1>4 DEF ServerTalks, ServerSends
  <2>2. /\ NoBegin => NoBegin'
        /\ Others => Others'
        /\ Coming("begin") => Coming("begin")'
        /\ Coming("chunk") => Coming("chunk")'
        /\ Coming("done") => Coming("done")'
    BY <1>1, <1>2, <2>1, OtherSent
  <2>3. QED
    BY <1>2, <2>1, <2>2, ForwardedKeepsSession
<1>5. CASE ServerBegins
  <2>1. /\ server.phase = "idle" /\ server' = [server EXCEPT !.phase = "asked"]
        /\ toDevice' = Append(toDevice, ToDevice("begin"))
    BY <1>5 DEF ServerBegins, ServerSends
  <2>2. NoUpdateInv /\ server = Session /\ updating = FALSE /\ socketed = TRUE /\ connected = TRUE
    BY <2>1 DEF SessionInv, NoUpdateInv, MisplacedInv, NoSession
  <2>3. /\ server'.phase = "asked" /\ server'.next = 0
        /\ server'.pending = FALSE /\ server'.acked = FALSE
    BY <2>1, <2>2 DEF Session, NoSession
  <2>4. ToDevice("begin").type = "begin"
    BY DEF ToDevice
  <2>5. Coming("begin")'
    <3> DEFINE m == ToDevice("begin")
    <3>1. m.type = "begin"
      BY <2>4
    <3> HIDE DEF m
    <3>2. Coming(m.type)'
      BY <1>1, <1>2, <2>1, <2>2, <3>1, AwaitedSent DEF m, NoUpdateInv
    <3>3. QED
      BY <3>1, <3>2
  <2>6. QED
    BY <1>2, <2>2, <2>3, <2>5 DEF SessionInv, AskedInv, NoUpdateInv
<1>6. CASE (ServerSendsChunk \/ ServerFinishes) /\ MisplacedInv
  <2>1. PICK m : toDevice' = Append(toDevice, m) /\ m.type # "begin"
    BY <1>6 DEF ServerSendsChunk, ServerFinishes, ServerSends, ChunkMsg, ToDevice
  <2>2. NoBegin'
    BY <1>1, <1>6, <2>1 DEF MisplacedInv, NoBegin
  <2>3. server'.phase \in {"sending", "finished"}
    BY <1>6 DEF ServerSendsChunk, ServerFinishes, TypeOK
  <2>4. QED
    BY <1>2, <1>6, <2>2, <2>3, MisplacedKeepsSession DEF MisplacedInv
<1>7. CASE (ServerSendsChunk \/ ServerFinishes) /\ ~MisplacedInv
  <2>1. /\ server.phase = "sending" /\ server.pending = FALSE /\ SendingInv /\ RestsInv
        /\ socketed = TRUE /\ connected = TRUE
    BY <1>7 DEF SessionInv, SendingInv, SentInv, AnsweredInv, AckedInv, DeafInv, ServerSendsChunk,
                ServerFinishes, TypeOK
  <2>2. CASE ServerSendsChunk
    <3>1. /\ server.next \in Chunk /\ server' = [server EXCEPT !.pending = TRUE]
          /\ toDevice' = Append(toDevice, ChunkMsg(server.next))
      BY <2>2 DEF ServerSendsChunk, ServerSends
    <3>2. /\ server'.phase = "sending" /\ server'.next = server.next
          /\ server'.pending = TRUE /\ server'.acked = FALSE
      BY <2>1, <3>1 DEF RestsInv, TypeOK
    <3>3. Coming("chunk")'
      BY <1>1, <1>2, <2>1, <3>1, AwaitedSent DEF ChunkMsg, RestsInv
    <3>4. QED
      BY <1>2, <1>3, <2>1, <3>1, <3>2, <3>3 DEF SessionInv, SendingInv, RestsInv, SentInv
  <2>3. CASE ServerFinishes
    <3>1. /\ server.next \notin Chunk /\ server' = [server EXCEPT !.phase = "finished"]
          /\ toDevice' = Append(toDevice, ToDevice("done"))
      BY <2>3 DEF ServerFinishes, ServerSends
    <3>2. server'.phase = "finished"
      BY <3>1 DEF TypeOK
    <3>3. Coming("done")'
      BY <1>1, <1>2, <2>1, <3>1, AwaitedSent DEF ToDevice, RestsInv
    <3>4. updateIndex = NumChunks
      <4>1. server.next \in 0 .. NumChunks /\ NumChunks \in Nat
        BY <2>1, CloudAssumption DEF SendingInv, RestsInv, ProgressInv, CloudAssumption
      <4>2. QED
        BY <2>1, <3>1, <4>1 DEF RestsInv, Chunk
    <3>5. QED
      BY <1>2, <2>1, <3>2, <3>3, <3>4 DEF SessionInv, SendingInv, FinishedInv
  <2>4. QED
    BY <1>7, <2>2, <2>3
<1>8. QED
  BY <1>4, <1>5, <1>6, <1>7

\* The server takes a message while it waits for nothing, or for the chunk to
\* arrive, or for the ACK, or for what follows it.
LEMMA ReceivesWhileSending ==
  ASSUME TypeOK, SendingInv, server.phase = "sending", ServerReceives,
         UNCHANGED <<updating, updateIndex, shortFailed>>
  PROVE  server'.phase = "sending" /\ SendingInv'
<1> DEFINE m == Head(toServer)
           To(next) == [server EXCEPT !.next = next, !.pending = FALSE, !.acked = FALSE]
<1>1. toServer \in Seq(ServerMessage) /\ toServer # <<>> /\ m = toServer[1] /\ silent = FALSE
      /\ toServer' = Tail(toServer) /\ UNCHANGED toDevice
  <2>1. toServer \in Seq(ServerMessage)
    BY Queues
  <2>2. toServer # <<>> /\ silent = FALSE /\ toServer' = Tail(toServer) /\ UNCHANGED toDevice
    <3>1. silent \in BOOLEAN
      BY DEF TypeOK
    <3>2. QED
      BY <3>1, Zenon DEF ServerReceives
  <2>3. QED
    BY <2>1, <2>2
<1>2. (Asking(1) => Asking(1)') /\ (Asking(2) => Asking(1)') /\ (Others => Others')
      /\ (Coming("chunk") => Coming("chunk")')
  BY <1>1 DEF Asking, Others, Coming
<1>3. server' = CASE m.type = "ack" -> [server EXCEPT !.acked = TRUE]
                  [] m.type = "ok" -> To(server.next + 1)
                  [] m.type = "bad" -> To(server.next)
                  [] m.type = "missed" /\ server.pending = server.acked -> To(m.index)
                  [] OTHER -> server
  BY DEF ServerReceives
<1>4. \A next : /\ To(next).phase = "sending" /\ To(next).next = next
                /\ To(next).pending = FALSE /\ To(next).acked = FALSE
  BY DEF TypeOK
<1>5. \A i : Missed(i).type = "missed" /\ Missed(i).index = i
  BY DEF Missed
<1> HIDE DEF To
<1>6. CASE RestsInv
  <2>1. m = Missed(updateIndex)
    BY <1>1, <1>6 DEF RestsInv, Asking
  <2>2. server' = To(updateIndex)
    BY <1>3, <1>5, <1>6, <2>1 DEF RestsInv
  <2>3. QED
    BY <1>2, <1>4, <1>6, <2>2 DEF RestsInv, SendingInv
<1>7. CASE SentInv
  <2>1. m = Missed(updateIndex)
    BY <1>1, <1>7 DEF SentInv, Asking
  <2>2. server' = server
    BY <1>3, <1>5, <1>7, <2>1 DEF SentInv
  <2>3. QED
    BY <1>2, <1>7, <2>2 DEF SentInv, SendingInv
<1>8. CASE AnsweredInv
  <2>1. PICK k \in 1 .. Len(toServer) - 1 :
          /\ toServer[k].type = "ack" /\ Answer(toServer[k + 1]) /\ Asking(k + 2)
          /\ \A i \in 1 .. k - 1 : toServer[i].type = "missed"
    BY <1>8 DEF AnsweredInv
  <2>2. CASE k = 1
    <3>1. server' = [server EXCEPT !.acked = TRUE]
      BY <1>1, <1>3, <2>1, <2>2
    <3>2. /\ server'.phase = "sending" /\ server'.next = server.next
          /\ server'.pending = TRUE /\ server'.acked = TRUE
      BY <3>1, <1>8 DEF TypeOK, AnsweredInv
    <3>3. toServer' # <<>> /\ toServer'[1] = toServer[2]
      <4>1. Len(toServer) \in Nat /\ Len(toServer) >= 2
        BY <1>1, <2>1
      <4>2. Len(toServer') >= 1 /\ toServer'[1] = toServer[2]
        BY <1>1, <4>1
      <4>3. Len(<<>>) = 0
        OBVIOUS
      <4>4. QED
        BY <4>2, <4>3
    <3>4. Asking(3)
      BY <2>1, <2>2
    <3>5. Asking(2)'
      <4>1. /\ Len(toServer') = Len(toServer) - 1
            /\ \A i \in 1 .. Len(toServer') : toServer'[i] = toServer[i + 1]
        BY <1>1
      <4>2. ASSUME NEW i \in 2 .. Len(toServer')
            PROVE  toServer'[i] = Missed(updateIndex)
        <5>1. Len(toServer) \in Nat
          BY <1>1
        <5>2. i \in 1 .. Len(toServer') /\ i + 1 \in 3 .. Len(toServer)
          BY <4>1, <5>1
        <5>3. QED
          BY <3>4, <4>1, <5>2 DEF Asking
      <4>3. QED
        BY <4>2 DEF Asking
    <3>6. QED
      BY <1>2, <1>8, <2>1, <2>2, <3>1, <3>2, <3>3, <3>5
         DEF AnsweredInv, AckedInv, SendingInv, Answer
  <2>3. CASE k # 1
    <3>1. server' = server
      <4>1. m.type = "missed"
        BY <1>1, <2>1, <2>3
      <4>2. QED
        BY <1>3, <1>8, <4>1 DEF AnsweredInv
    <3>2. PICK j \in Nat : j = k - 1
      BY <2>1, <2>3
    <3>3. /\ j \in 1 .. Len(toServer') - 1 /\ toServer'[j] = toServer[k]
          /\ toServer'[j + 1] = toServer[k + 1]
          /\ \A i \in 1 .. j - 1 : toServer'[i].type = "missed"
      BY <1>1, <2>1, <2>3, <3>2
    <3>4. Asking(j + 2)'
      BY <1>1, <2>1, <3>2, <3>3 DEF Asking
    <3>5. Answer(toServer[j + 1])'
      BY <2>1, <3>1, <3>3 DEF Answer
    <3>6. AnsweredInv'
      BY <1>2, <1>8, <2>1, <3>1, <3>3, <3>4, <3>5 DEF AnsweredInv
    <3>7. QED
      BY <3>1, <3>6 DEF SendingInv
  <2>4. QED
    BY <2>2, <2>3
<1>9. CASE AckedInv
  <2>1. Answer(m) /\ server.pending = server.acked
    BY <1>1, <1>9 DEF AckedInv
  <2>2. server' = To(updateIndex)
    BY <1>3, <1>5, <2>1 DEF Answer
  <2>3. QED
    BY <1>2, <1>4, <1>9, <2>2 DEF AckedInv, RestsInv, SendingInv
<1>10. QED
  BY <1>1, <1>6, <1>7, <1>8, <1>9 DEF SendingInv, DeafInv

LEMMA ServerReceivesKeepsSession ==
  ASSUME TypeOK, SessionInv, ServerReceives
  PROVE  SessionInv'
<1>1. toServer \in Seq(ServerMessage) /\ toServer # <<>> /\ silent = FALSE
      /\ toServer' = Tail(toServer)
      /\ UNCHANGED <<toDevice, silent, socketed, connected, updating, updateIndex, shortFailed>>
  BY Queues DEF ServerReceives, Device, flags, place, TypeOK
<1>2. CASE server.phase = "asked" /\ AskedInv
  <2>1. /\ Others /\ updating = TRUE /\ updateIndex = 0 /\ shortFailed = FALSE
        /\ Head(toServer).type = "ready" /\ Asking(2)
    BY <1>1, <1>2 DEF AskedInv
  <2>2. server' = [server EXCEPT !.phase = "sending"]
    BY <1>2, <2>1 DEF ServerReceives
  <2>3. /\ server'.phase = "sending" /\ server'.next = 0
        /\ server'.pending = FALSE /\ server'.acked = FALSE
    BY <1>2, <2>2 DEF AskedInv, TypeOK
  <2>4. Others' /\ Asking(1)'
    BY <1>1, <2>1 DEF Others, Asking
  <2>5. QED
    BY <1>1, <1>2, <2>1, <2>3, <2>4 DEF SessionInv, SendingInv, RestsInv
<1>3. CASE server.phase = "sending" /\ SendingInv
  BY <1>1, <1>3, ReceivesWhileSending DEF SessionInv
<1>4. CASE server.phase = "finished" /\ FinishedInv
  <2>1. server' = server
    BY <1>4 DEF ServerReceives
  <2>2. (Others => Others') /\ (Coming("done") => Coming("done")')
    BY <1>1 DEF Others, Coming
  <2>3. QED
    BY <1>1, <1>4, <2>1, <2>2 DEF SessionInv, FinishedInv
<1>5. CASE MisplacedInv
  <2>1. NoBegin'
    BY <1>1, <1>5 DEF MisplacedInv, NoBegin
  <2>2. server'.phase = server.phase
    BY <1>5 DEF ServerReceives, MisplacedInv, TypeOK
  <2>3. QED
    BY <1>1, <1>5, <2>1, <2>2, MisplacedKeepsSession DEF MisplacedInv
<1>6. QED
  BY <1>1, <1>2, <1>3, <1>4, <1>5 DEF SessionInv, NoUpdateInv

LEMMA TickKeepsSession ==
  ASSUME UpdateInv, Tick
  PROVE  SessionInv' /\ ProgressInv'
<1>1. CASE SystemReset /\ UNCHANGED <<flash, shortFailed, installed>>
  BY <1>1, UnlinkedKeepsSession DEF SystemReset, ProgressInv, UpdateInv
<1>2. CASE UNCHANGED <<flags, updating, expecting_ping_ack, chunk_index, place, installed, world>>
  BY <1>2, AloneKeepsSession DEF flags, place, world, UpdateInv, ProgressInv
<1>3. QED
  BY <1>1, <1>2 DEF Tick, TickUnless

---------------------------------------------------------------------------
(* Types.                                                                  *)

ConnectionTypes ==
  /\ socketed \in BOOLEAN /\ connected \in BOOLEAN /\ silent \in BOOLEAN
  /\ toDevice \in Seq(DeviceMessage) /\ Len(toDevice) <= Window
  /\ toServer \in Seq(ServerMessage) /\ Len(toServer) <= Window
  /\ server \in [phase : {"none", "idle", "asked", "sending", "finished"},
                 next : Nat, pending : BOOLEAN, acked : BOOLEAN]

DeviceTypes ==
  /\ flashUpdate \in BOOLEAN /\ updating \in BOOLEAN /\ expecting_ping_ack \in BOOLEAN
  /\ sinceMessage \in 0 .. SilenceCap /\ sinceChunk \in 0 .. ChunkWait + 1
  /\ timingFlashUpdate \in 0 .. Watchdog

UpdateTypes ==
  /\ chunk_index \in Nat /\ updateIndex \in Nat /\ flashAddress \in Nat
  /\ flash \in [Cell -> Cell \cup {Erased, Garbage, Previous}]
  /\ installed \in [Cell -> Cell \cup {Erased, Garbage, Previous}]
  /\ shortFailed \in BOOLEAN

LEMMA TypesSplit ==
  /\ TypeOK <=> ConnectionTypes /\ DeviceTypes /\ UpdateTypes
  /\ TypeOK' <=> ConnectionTypes' /\ DeviceTypes' /\ UpdateTypes'
BY DEF TypeOK, ConnectionTypes, DeviceTypes, UpdateTypes, DeviceMessage, ServerMessage

LEMMA Limits ==
  /\ SilenceCap \in Nat \ {0} /\ ChunkWait \in Nat /\ Watchdog \in Nat
  /\ Window \in Nat \ {0, 1} /\ NumChunks \in Nat \ {0}
BY CloudAssumption DEF CloudAssumption, SilenceCap

LEMMA LostKeepsConnectionTypes ==
  ASSUME SocketLost
  PROVE  ConnectionTypes'
<1>1. socketed' \in BOOLEAN /\ connected' \in BOOLEAN /\ silent' \in BOOLEAN
  BY DEF SocketLost
<1>2. toDevice' \in Seq(DeviceMessage) /\ toServer' \in Seq(ServerMessage)
  BY DEF SocketLost
<1>3. Len(toDevice') <= Window /\ Len(toServer') <= Window
  BY Limits DEF SocketLost
<1>4. server' \in [phase : {"none", "idle", "asked", "sending", "finished"},
                   next : Nat, pending : BOOLEAN, acked : BOOLEAN]
  BY Limits DEF SocketLost, NoSession
<1>5. QED
  BY <1>1, <1>2, <1>3, <1>4 DEF ConnectionTypes

LEMMA SentKeepsConnectionTypes ==
  ASSUME ConnectionTypes, NEW ms \in Seq(ServerMessage), Sent(ms),
         toDevice' \in Seq(DeviceMessage), Len(toDevice') <= Len(toDevice)
  PROVE  ConnectionTypes'
<1>1. toServer' \in Seq(ServerMessage) /\ Len(toServer') <= Window
  <2>1. CASE toServer' = toServer
    BY <2>1 DEF ConnectionTypes
  <2>2. CASE Len(toServer) + Len(ms) <= Window /\ toServer' = toServer \o ms
    <3>1. Len(toServer') = Len(toServer) + Len(ms) /\ toServer' \in Seq(ServerMessage)
      BY <2>2 DEF ConnectionTypes
    <3>2. QED
      BY <2>2, <3>1
  <2>3. QED
    BY <2>1, <2>2 DEF Sent
<1>2. UNCHANGED <<socketed, connected, silent, server>>
  BY DEF Sent
<1>3. Len(toDevice') <= Window
  BY Limits DEF ConnectionTypes
<1>4. QED
  BY <1>1, <1>2, <1>3 DEF ConnectionTypes

LEMMA Messages ==
  /\ \A type \in {"begin", "done", "other"} : ToDevice(type) \in DeviceMessage
  /\ \A c \in Chunk : ChunkMsg(c) \in DeviceMessage
  /\ \A type \in {"ack", "ready", "ok", "bad"} : ToServer(type) \in ServerMessage
  /\ \A i \in Nat : Missed(i) \in ServerMessage
BY Places, CloudAssumption
   DEF ToDevice, ChunkMsg, ToServer, Missed, DeviceMessage, ServerMessage, Chunk, CloudAssumption

LEMMA HandshakeTypes ==
  ASSUME TypeOK, Connect \/ HandshakeAgain
  PROVE  TypeOK'
<1>1. ConnectionTypes /\ DeviceTypes /\ UpdateTypes
  BY TypesSplit
<1>2. UpdateTypes'
  BY <1>1 DEF UpdateTypes, Connect, HandshakeAgain, place
<1>3. DeviceTypes'
  BY <1>1 DEF DeviceTypes, Connect, HandshakeAgain, Handshake, timers
<1>4. /\ socketed' \in BOOLEAN /\ connected' \in BOOLEAN /\ silent' \in BOOLEAN
      /\ toServer' = toServer
  BY <1>1 DEF ConnectionTypes, Connect, HandshakeAgain, Handshake
<1>5. toDevice' = toDevice \/ toDevice' = <<ToDevice("other")>>
  BY DEF Connect, HandshakeAgain
<1>6. toDevice' \in Seq(DeviceMessage) /\ Len(toDevice') <= Window
  <2>1. ToDevice("other") \in DeviceMessage
    BY Messages
  <2>2. <<ToDevice("other")>> \in Seq(DeviceMessage) /\ Len(<<ToDevice("other")>>) = 1
    BY <2>1
  <2>3. toDevice \in Seq(DeviceMessage) /\ Len(toDevice) <= Window
    BY <1>1 DEF ConnectionTypes
  <2>4. 1 <= Window
    BY Limits
  <2>5. QED
    BY <1>5, <2>2, <2>3, <2>4
<1>7. server' \in {server, Session, NoSession}
  BY DEF Connect, HandshakeAgain, Handshake
<1>8. ConnectionTypes'
  <2> DEFINE T == [phase : {"none", "idle", "asked", "sending", "finished"},
                   next : Nat, pending : BOOLEAN, acked : BOOLEAN]
  <2>1. server \in T
    BY <1>1 DEF ConnectionTypes
  <2>2. NoSession \in T
    BY Limits DEF NoSession
  <2> HIDE DEF T
  <2>3. Session \in T
    BY <2>2 DEF Session, T
  <2>4. server' \in T
    BY <1>7, <2>1, <2>2, <2>3
  <2>5. QED
    BY <1>1, <1>4, <1>6, <2>4 DEF ConnectionTypes, T
<1>9. QED
  BY <1>2, <1>3, <1>8, TypesSplit

\* The timers count from zero to their caps.
LEMMA Zeros ==
  0 \in 0 .. SilenceCap /\ 0 \in 0 .. ChunkWait + 1 /\ 0 \in 0 .. Watchdog
BY Limits

LEMMA RequestTypes ==
  ASSUME TypeOK, RequestChunk
  PROVE  TypeOK'
<1>1. ConnectionTypes /\ DeviceTypes /\ UpdateTypes
  BY TypesSplit
<1>2. UpdateTypes'
  BY <1>1 DEF UpdateTypes, RequestChunk, place
<1>3. DeviceTypes'
  <2>1. UNCHANGED <<updating, expecting_ping_ack, sinceMessage, timingFlashUpdate>>
    BY DEF RequestChunk
  <2>2. flashUpdate' \in {flashUpdate, FALSE} /\ sinceChunk' \in {sinceChunk, 0}
    BY DEF RequestChunk, Unlinked
  <2>3. QED
    BY <1>1, <2>1, <2>2, Zeros DEF DeviceTypes
<1>4. <<Missed(chunk_index)>> \in Seq(ServerMessage)
  BY <1>1, Messages DEF UpdateTypes
<1>5. ConnectionTypes'
  <2>1. CASE Unlinked
    BY <2>1, LostKeepsConnectionTypes DEF Unlinked
  <2>2. CASE Sent(<<Missed(chunk_index)>>) /\ toDevice' = toDevice
    <3>1. toDevice \in Seq(DeviceMessage) /\ Len(toDevice) <= Len(toDevice)
      BY <1>1, Limits DEF ConnectionTypes
    <3>2. QED
      BY <1>1, <1>4, <2>2, <3>1, SentKeepsConnectionTypes
  <2>3. QED
    BY <2>1, <2>2 DEF RequestChunk
<1>6. QED
  BY <1>2, <1>3, <1>5, TypesSplit

LEMMA PingTypes ==
  ASSUME TypeOK, Ping \/ PingTimeout \/ LinkLost
  PROVE  TypeOK'
<1>1. ConnectionTypes /\ DeviceTypes /\ UpdateTypes
  BY TypesSplit
<1>2. UpdateTypes'
  BY <1>1 DEF UpdateTypes, Ping, PingTimeout, LinkLost, place
<1>3. DeviceTypes'
  <2>1. UNCHANGED <<updating, sinceChunk, timingFlashUpdate>>
    BY DEF Ping, PingTimeout, LinkLost, timers
  <2>2. /\ flashUpdate' \in {flashUpdate, FALSE} /\ sinceMessage' \in {sinceMessage, 0}
        /\ expecting_ping_ack' \in {expecting_ping_ack, TRUE, FALSE}
    BY DEF Ping, PingTimeout, LinkLost, Unlinked, flags, timers
  <2>3. QED
    BY <1>1, <2>1, <2>2, Zeros DEF DeviceTypes
<1>4. CASE Ping
  BY <1>1, <1>2, <1>3, <1>4, TypesSplit DEF ConnectionTypes, Ping, flags, world
<1>5. CASE PingTimeout \/ LinkLost
  BY <1>2, <1>3, <1>5, LostKeepsConnectionTypes, TypesSplit DEF PingTimeout, LinkLost, Unlinked
<1>6. QED
  BY <1>4, <1>5

\* Once the update has begun, or a chunk has been saved, the place lies within
\* the image, as it is the start of a chunk.
LEMMA ChunkTypes ==
  ASSUME TypeOK, NEW c \in Chunk, NEW rest, ReceiveChunk(c, rest)
  PROVE  timingFlashUpdate' \in {0, timingFlashUpdate} /\ UpdateTypes'
<1>1. UpdateTypes
  BY TypesSplit
<1>2. CASE DropChunk
  BY <1>1, <1>2 DEF ReceiveChunk, DropChunk, UpdateTypes, place
<1>3. CASE SaveFirmwareChunk(c) /\ chunk_index' = updateIndex'
  <2>1. SizeOf(c) \in Nat \ {0} /\ ChunkSize \in Nat /\ SectorSize \in Nat \ {0} /\ c \in Nat
    BY Places, CloudAssumption DEF Chunk, CloudAssumption
  <2>2. CASE WriteChunk(c)
    <3> DEFINE span == flashAddress .. flashAddress + SizeOf(c) - 1
    <3>1. ASSUME NEW a \in Cell, a \in span
          PROVE  c * ChunkSize + a - flashAddress \in Cell
      <4>1. Start(c) = c * ChunkSize /\ Start(c + 1) = Start(c) + SizeOf(c)
            /\ Start(c + 1) <= ImageSize /\ ImageSize \in Nat
        <5>1. c + 1 \in 0 .. NumChunks
          BY <2>1, Limits DEF Chunk
        <5>2. QED
          BY <5>1, Places
      <4>2. c * ChunkSize \in Nat
        BY <2>1
      <4>3. flashAddress \in Nat /\ a \in Int /\ flashAddress <= a
            /\ a <= flashAddress + SizeOf(c) - 1
        BY <1>1, <2>1, <3>1 DEF UpdateTypes
      <4> HIDE DEF span
      <4>4. QED
        BY <2>1, <4>1, <4>2, <4>3 DEF Cell
    <3>2. flash' = [a \in Cell |-> IF a \in span THEN c * ChunkSize + a - flashAddress
                                  ELSE flash[a]]
          /\ flashAddress' = flashAddress + SizeOf(c) /\ updateIndex' = updateIndex + 1
          /\ shortFailed' = shortFailed
      BY <2>2 DEF WriteChunk
    <3>3. flash' \in [Cell -> Cell \cup {Erased, Garbage, Previous}]
      BY <1>1, <3>1, <3>2 DEF UpdateTypes
    <3>4. flashAddress' \in Nat /\ updateIndex' \in Nat
      BY <1>1, <2>1, <3>2 DEF UpdateTypes
    <3>5. QED
      BY <1>1, <1>3, <3>2, <3>3, <3>4 DEF SaveFirmwareChunk, ReceiveChunk, UpdateTypes
  <2>3. CASE BackOff(c)
    <3> DEFINE span == flashAddress .. flashAddress + SizeOf(c) - 1
               start == (flashAddress \div SectorSize) * SectorSize
    <3>1. start \in Nat
      BY <1>1, <2>1 DEF UpdateTypes
    <3>2. /\ flash' = [a \in Cell |-> IF a \in start .. start + SectorSize - 1 THEN Erased
                                      ELSE IF a \in span THEN Garbage ELSE flash[a]]
          /\ flashAddress' = start /\ updateIndex' = start \div SizeOf(c)
          /\ shortFailed' \in BOOLEAN
      BY <1>1, <2>3 DEF BackOff, IndexAt, UpdateTypes
    <3> HIDE DEF start, span
    <3>3. start \div SizeOf(c) \in Nat
      BY <2>1, <3>1
    <3>4. flash' \in [Cell -> Cell \cup {Erased, Garbage, Previous}]
      BY <1>1, <3>2 DEF UpdateTypes
    <3>5. QED
      BY <1>1, <1>3, <3>1, <3>2, <3>3, <3>4 DEF SaveFirmwareChunk, ReceiveChunk, UpdateTypes
  <2>4. QED
    BY <1>3, <2>2, <2>3 DEF SaveFirmwareChunk
<1>4. QED
  BY <1>2, <1>3 DEF ReceiveChunk

LEMMA ReceiveTypes ==
  ASSUME TypeOK, Receive
  PROVE  TypeOK'
<1>1. ConnectionTypes /\ DeviceTypes /\ UpdateTypes
  BY TypesSplit
<1>2. toDevice \in Seq(DeviceMessage) /\ toDevice # <<>> /\ Len(Tail(toDevice)) <= Len(toDevice)
      /\ Tail(toDevice) \in Seq(DeviceMessage) /\ sinceMessage' = 0 /\ expecting_ping_ack' = FALSE
  BY <1>1 DEF Receive, ConnectionTypes
<1>3. ASSUME NEW ms \in Seq(ServerMessage), Sent(ms), toDevice' = Tail(toDevice)
      PROVE  ConnectionTypes'
  BY <1>1, <1>2, <1>3, SentKeepsConnectionTypes
<1>4. Unlinked => ConnectionTypes' /\ flashUpdate' = FALSE
  BY LostKeepsConnectionTypes DEF Unlinked
<1>5. CASE ReceiveOther(Tail(toDevice))
  <2>1. <<>> \in Seq(ServerMessage)
    OBVIOUS
  <2>2. ConnectionTypes' /\ flashUpdate' \in {flashUpdate, FALSE}
    BY <1>3, <1>4, <1>5, <2>1 DEF ReceiveOther
  <2>3. UNCHANGED <<updating, sinceChunk, timingFlashUpdate, chunk_index, place, installed>>
    BY <1>5 DEF ReceiveOther
  <2>4. DeviceTypes'
    BY <1>1, <1>2, <2>2, <2>3, Zeros DEF DeviceTypes
  <2>5. UpdateTypes'
    BY <1>1, <2>3 DEF UpdateTypes, place
  <2>6. QED
    BY <2>2, <2>4, <2>5, TypesSplit
<1>6. CASE ReceiveBegin(Tail(toDevice))
  <2>1. <<ToServer("ready")>> \in Seq(ServerMessage)
    BY Messages
  <2>2. ConnectionTypes'
    BY <1>3, <1>4, <1>6, <2>1, LostKeepsConnectionTypes DEF ReceiveBegin
  <2>3. /\ flashUpdate' \in {FALSE, TRUE} /\ updating' \in {updating, TRUE}
        /\ sinceChunk' \in {sinceChunk, 0} /\ timingFlashUpdate' \in {timingFlashUpdate, 0}
    BY <1>6 DEF ReceiveBegin, Unlinked, StartUpdating, PrepareForFirmwareUpdate
  <2>4. DeviceTypes'
    BY <1>1, <1>2, <2>3, Zeros DEF DeviceTypes
  <2>5. /\ chunk_index' \in {chunk_index, 0} /\ updateIndex' \in {updateIndex, 0}
        /\ flashAddress' \in {flashAddress, 0} /\ flash' \in {flash, [a \in Cell |-> Erased]}
        /\ shortFailed' \in {shortFailed, FALSE} /\ UNCHANGED installed
    BY <1>6 DEF ReceiveBegin, StartUpdating, PrepareForFirmwareUpdate, place
  <2>6. UpdateTypes'
    <3>1. flash' \in [Cell -> Cell \cup {Erased, Garbage, Previous}]
      BY <1>1, <2>5 DEF UpdateTypes
    <3>2. chunk_index' \in Nat /\ updateIndex' \in Nat /\ flashAddress' \in Nat
      BY <1>1, <2>5 DEF UpdateTypes
    <3>3. shortFailed' \in BOOLEAN /\ installed' = installed
      BY <1>1, <2>5 DEF UpdateTypes
    <3>4. QED
      BY <1>1, <3>1, <3>2, <3>3 DEF UpdateTypes
  <2>7. QED
    BY <2>2, <2>4, <2>6, TypesSplit
<1>7. CASE Head(toDevice).type = "chunk" /\ ReceiveChunk(Head(toDevice).chunk, Tail(toDevice))
  <2>1. timingFlashUpdate' \in {0, timingFlashUpdate} /\ UpdateTypes'
    <3>1. Head(toDevice).chunk \in Chunk
      <4>1. Head(toDevice) \in DeviceMessage
        BY <1>2
      <4>2. QED
        BY <4>1 DEF DeviceMessage
    <3>2. PICK c \in Chunk : ReceiveChunk(c, Tail(toDevice))
      BY <1>7, <3>1
    <3>3. QED
      BY <3>2, ChunkTypes
  <2>2. /\ sinceChunk' = 0 /\ UNCHANGED updating
        /\ flashUpdate' \in {flashUpdate, FALSE}
    BY <1>7 DEF ReceiveChunk, Unlinked
  <2>3. Verdict(updateIndex') \in ServerMessage
    BY <2>1, Messages DEF Verdict, UpdateTypes
  <2>4. <<ToServer("ack"), ToServer("bad")>> \in Seq(ServerMessage)
        /\ <<ToServer("ack"), Verdict(updateIndex')>> \in Seq(ServerMessage)
    BY <2>3, Messages
  <2>5. ConnectionTypes'
    BY <1>3, <1>4, <1>7, <2>4 DEF ReceiveChunk
  <2>6. DeviceTypes'
    BY <1>1, <1>2, <2>1, <2>2, Zeros DEF DeviceTypes
  <2>7. QED
    BY <2>1, <2>5, <2>6, TypesSplit
<1>8. CASE ReceiveDone
  <2>1. Unlinked
    BY <1>8 DEF ReceiveDone, SystemReset
  <2>2. DeviceTypes'
    <3>1. /\ updating' \in {updating, FALSE} /\ sinceChunk' \in {sinceChunk, 0}
          /\ timingFlashUpdate' \in {timingFlashUpdate, 0}
      BY <1>8 DEF ReceiveDone, SystemReset
    <3>2. QED
      BY <1>1, <1>2, <1>4, <2>1, <3>1, Zeros DEF DeviceTypes
  <2>3. UpdateTypes'
    <3>1. /\ chunk_index' \in {chunk_index, 0} /\ updateIndex' \in {updateIndex, 0}
          /\ flashAddress' \in {flashAddress, 0} /\ installed' \in {installed, flash}
          /\ UNCHANGED <<flash, shortFailed>>
      BY <1>8 DEF ReceiveDone, SystemReset, place
    <3>2. QED
      BY <1>1, <3>1 DEF UpdateTypes
  <2>4. QED
    BY <1>4, <2>1, <2>2, <2>3, TypesSplit
<1>9. QED
  BY <1>5, <1>6, <1>7, <1>8 DEF Receive

LEMMA TickTypes ==
  ASSUME TypeOK, Tick
  PROVE  TypeOK'
<1>1. ConnectionTypes /\ DeviceTypes /\ UpdateTypes
  BY TypesSplit
<1>2. CASE SystemReset /\ UNCHANGED <<flash, shortFailed, installed>>
  <2>1. ConnectionTypes'
    BY <1>2, LostKeepsConnectionTypes DEF SystemReset, Unlinked
  <2>2. DeviceTypes'
    BY <1>2, Zeros DEF DeviceTypes, SystemReset, Unlinked
  <2>3. UpdateTypes'
    BY <1>1, <1>2 DEF UpdateTypes, SystemReset
  <2>4. QED
    BY <2>1, <2>2, <2>3, TypesSplit
<1>3. CASE /\ ~(flashUpdate /\ timingFlashUpdate >= Watchdog)
           /\ sinceMessage' = Older(sinceMessage, SilenceCap)
           /\ sinceChunk' = Older(sinceChunk, ChunkWait + 1)
           /\ timingFlashUpdate' = IF flashUpdate THEN timingFlashUpdate + 1 ELSE timingFlashUpdate
           /\ UNCHANGED <<flags, updating, expecting_ping_ack, chunk_index, place, installed,
                         world>>
  <2>1. ConnectionTypes' /\ UpdateTypes'
    BY <1>1, <1>3 DEF ConnectionTypes, UpdateTypes, flags, place, world
  <2>2. sinceMessage' \in 0 .. SilenceCap /\ sinceChunk' \in 0 .. ChunkWait + 1
    BY <1>1, <1>3, Limits DEF DeviceTypes, Older
  <2>3. timingFlashUpdate' \in 0 .. Watchdog
    <3>1. timingFlashUpdate \in 0 .. Watchdog
      BY <1>1 DEF DeviceTypes
    <3>2. CASE flashUpdate
      BY <1>3, <3>1, <3>2, Limits
    <3>3. CASE ~flashUpdate
      BY <1>3, <3>1, <3>3
    <3>4. QED
      BY <3>2, <3>3
  <2>4. QED
    BY <1>1, <1>3, <2>1, <2>2, <2>3, TypesSplit DEF DeviceTypes, flags
<1>4. QED
  BY <1>2, <1>3 DEF Tick, TickUnless

LEMMA ServerTypes ==
  ASSUME TypeOK,
         ServerTalks \/ ServerBegins \/ ServerSendsChunk \/ ServerFinishes
         \/ ServerReceives \/ ServerFallsSilent
  PROVE  TypeOK'
<1>1. ConnectionTypes /\ DeviceTypes /\ UpdateTypes
  BY TypesSplit
<1>2. UNCHANGED Device
  BY DEF ServerTalks, ServerBegins, ServerSendsChunk, ServerFinishes, ServerSends, ServerReceives,
         ServerFallsSilent
<1>3. DeviceTypes' /\ UpdateTypes'
  BY <1>1, <1>2 DEF Device, DeviceTypes, UpdateTypes, flags, timers, place
<1>4. socketed' \in BOOLEAN /\ connected' \in BOOLEAN /\ silent' \in BOOLEAN
  BY <1>1, <1>2 DEF ConnectionTypes, Device, flags, ServerTalks, ServerBegins, ServerSendsChunk,
                    ServerFinishes, ServerSends, ServerReceives, ServerFallsSilent
<1>5. toDevice' \in Seq(DeviceMessage) /\ Len(toDevice') <= Window
  <2>1. ASSUME NEW m \in DeviceMessage, ServerSends(m)
        PROVE  toDevice' \in Seq(DeviceMessage) /\ Len(toDevice') <= Window
    <3>1. /\ Len(toDevice') = Len(toDevice) + 1 /\ Len(toDevice) < Window
          /\ toDevice' \in Seq(DeviceMessage) /\ Len(toDevice) \in Nat
      BY <1>1, <2>1 DEF ConnectionTypes, ServerSends
    <3>2. QED
      BY <3>1, Limits
  <2>2. CASE ServerTalks \/ ServerBegins \/ ServerSendsChunk \/ ServerFinishes
    BY <2>1, <2>2, Messages DEF ServerTalks, ServerBegins, ServerSendsChunk, ServerFinishes
  <2>3. CASE ServerReceives \/ ServerFallsSilent
    BY <1>1, <2>3 DEF ConnectionTypes, ServerReceives, ServerFallsSilent
  <2>4. QED
    BY <2>2, <2>3
<1>6. toServer' \in Seq(ServerMessage) /\ Len(toServer') <= Window
  <2>1. CASE ServerReceives
    <3>1. /\ toServer' \in Seq(ServerMessage) /\ Len(toServer') = Len(toServer) - 1
          /\ Len(toServer) \in Nat /\ Len(toServer) <= Window
      BY <1>1, <2>1 DEF ConnectionTypes, ServerReceives
    <3>2. QED
      BY <3>1, Limits
  <2>2. CASE UNCHANGED toServer
    BY <1>1, <2>2 DEF ConnectionTypes
  <2>3. QED
    BY <2>1, <2>2 DEF ServerTalks, ServerBegins, ServerSendsChunk, ServerFinishes, ServerSends,
                      ServerFallsSilent
<1> DEFINE T == [phase : {"none", "idle", "asked", "sending", "finished"},
                 next : Nat, pending : BOOLEAN, acked : BOOLEAN]
<1>7. server' \in T
  <2>1. server \in T
    BY <1>1 DEF ConnectionTypes
  <2>2. CASE ServerTalks \/ ServerBegins \/ ServerSendsChunk \/ ServerFinishes \/ ServerFallsSilent
    BY <2>1, <2>2 DEF ServerTalks, ServerBegins, ServerSendsChunk, ServerFinishes,
                      ServerFallsSilent
  <2>3. CASE ServerReceives
    <3> DEFINE To(next) == [server EXCEPT !.next = next, !.pending = FALSE, !.acked = FALSE]
    <3>1. PICK m \in ServerMessage :
            server' \in {server, [server EXCEPT !.phase = "sending"],
                        [server EXCEPT !.acked = TRUE],
                        To(server.next + 1), To(server.next), To(m.index)}
      <4>1. Head(toServer) \in ServerMessage
        BY <1>1, <2>3 DEF ConnectionTypes, ServerReceives
      <4>2. QED
        BY <2>3, <4>1 DEF ServerReceives
    <3>2. m.index \in Nat /\ server.next \in Nat /\ server.next + 1 \in Nat
      BY <2>1, <3>1 DEF ServerMessage
    <3>3. QED
      BY <2>1, <3>1, <3>2
  <2>4. QED
    BY <2>2, <2>3
<1>8. QED
  BY <1>3, <1>4, <1>5, <1>6, <1>7, TypesSplit DEF ConnectionTypes

---------------------------------------------------------------------------
LEMMA TypeStep ==
  ASSUME TypeOK, [Next]_vars
  PROVE  TypeOK'
<1>1. CASE UNCHANGED vars
  BY <1>1 DEF TypeOK, vars, flags, timers, place, world
<1>2. QED
  BY <1>1, HandshakeTypes, RequestTypes, PingTypes, ReceiveTypes, TickTypes, ServerTypes
     DEF Next, EventLoop

LEMMA UpdateStep ==
  ASSUME FlashFits, UpdateInv, [Next]_vars
  PROVE  UpdateInv'
<1>1. TypeOK /\ ProgressInv /\ SessionInv /\ TypeOK'
  BY TypeStep DEF UpdateInv
<1>2. CASE Connect
  BY <1>1, <1>2, ConnectKeepsSession DEF UpdateInv, Connect, Handshake, place, ProgressInv
<1>3. CASE HandshakeAgain
  <2>1. connected # TRUE
    BY <1>3 DEF HandshakeAgain
  <2>2. QED
    BY <1>1, <1>3, <2>1, HandshakeKeepsSession
       DEF UpdateInv, HandshakeAgain, Handshake, place, ProgressInv
<1>4. CASE RequestChunk
  BY <1>1, <1>4, RequestKeepsSession DEF UpdateInv, RequestChunk, place, ProgressInv
<1>5. CASE Ping \/ PingTimeout \/ LinkLost
  <2>1. SessionInv'
    <3>1. CASE Ping
      BY <1>1, <3>1, AloneKeepsSession DEF Ping, flags, place, world
    <3>2. CASE PingTimeout \/ LinkLost
      BY <3>2, UnlinkedKeepsSession DEF PingTimeout, LinkLost
    <3>3. QED
      BY <1>5, <3>1, <3>2
  <2>2. ProgressInv'
    BY <1>1, <1>5 DEF Ping, PingTimeout, LinkLost, place, ProgressInv
  <2>3. QED
    BY <1>1, <2>1, <2>2 DEF UpdateInv
<1>6. CASE Receive
  BY <1>1, <1>6, ReceiveKeepsSession DEF UpdateInv
<1>7. CASE Tick
  BY <1>1, <1>7, TickKeepsSession DEF UpdateInv
<1>8. CASE ServerTalks \/ ServerBegins \/ ServerSendsChunk \/ ServerFinishes \/ ServerReceives
           \/ ServerFallsSilent
  <2>1. SessionInv'
    <3>1. CASE ServerFallsSilent
      BY <1>1, <3>1, AloneKeepsSession DEF ServerFallsSilent, Device, flags, place
    <3>2. QED
      BY <1>1, <1>8, <3>1, ServerSendsKeepsSession, ServerReceivesKeepsSession
  <2>2. UNCHANGED Device
    BY <1>8 DEF ServerTalks, ServerBegins, ServerSendsChunk, ServerFinishes, ServerSends,
                ServerReceives, ServerFallsSilent
  <2>3. ProgressInv'
    BY <1>1, <2>2 DEF Device, place, ProgressInv
  <2>4. QED
    BY <1>1, <2>1, <2>3 DEF UpdateInv
<1>9. CASE UNCHANGED vars
  <2>1. SessionInv'
    BY <1>1, <1>9, AloneKeepsSession DEF vars, flags, place, world
  <2>2. QED
    BY <1>1, <1>9, <2>1 DEF vars, place, UpdateInv, ProgressInv
<1>10. QED
  BY <1>2, <1>3, <1>4, <1>5, <1>6, <1>7, <1>8, <1>9 DEF Next, EventLoop

LEMMA UpdateInit ==
  ASSUME Init
  PROVE  UpdateInv
<1>1. ConnectionTypes
  <2>1. toDevice \in Seq(DeviceMessage) /\ toServer \in Seq(ServerMessage)
    BY DEF Init
  <2>2. Len(toDevice) <= Window /\ Len(toServer) <= Window
    BY Limits DEF Init
  <2>3. server \in [phase : {"none", "idle", "asked", "sending", "finished"},
                    next : Nat, pending : BOOLEAN, acked : BOOLEAN]
    BY Limits DEF Init, NoSession
  <2>4. QED
    BY <2>1, <2>2, <2>3 DEF Init, ConnectionTypes
<1>2. DeviceTypes
  BY Zeros DEF Init, DeviceTypes
<1>3. UpdateTypes
  BY Places, Limits DEF Init, UpdateTypes, PreviousImage
<1>4. ProgressInv
  BY DEF Init, ProgressInv
<1>5. SessionInv
  BY DEF Init, SessionInv, NoUpdateInv, NoSession, Others
<1>6. QED
  BY <1>1, <1>2, <1>3, <1>4, <1>5, TypesSplit DEF UpdateInv

\* Every variable keeps its type, for every image and however many writes fail,
\* also of a short last chunk; above all no update is left alone for longer than
\* the watchdog (timingFlashUpdate, Timing_Decrement).
THEOREM TypeCorrect == Spec => []TypeOK
<1>1. Init => TypeOK
  BY UpdateInit DEF UpdateInv
<1>2. QED
  BY <1>1, TypeStep, PTL DEF Spec

\* For every image, also one whose last chunk is short, and any number of failed
\* writes: during an update the index for which missing chunks are asked, the
\* one in the flash driver and the address of the next write agree, from the
\* beginning of the update until the write of a short last chunk fails
\* (SparkProtocol, hw_config.c).
THEOREM ProgressIsAgreed ==
  ASSUME FlashFits
  PROVE  Spec => []ProgressAgrees
<1>1. UpdateInv => ProgressAgrees
  <2> SUFFICES ASSUME UpdateInv, updating = TRUE, shortFailed = FALSE
               PROVE  /\ chunk_index = updateIndex /\ updateIndex <= NumChunks
                      /\ flashAddress = IF updateIndex = NumChunks THEN ImageSize
                                        ELSE updateIndex * ChunkSize
    BY DEF ProgressAgrees, UpdateInv, TypeOK
  <2>1. QED
    BY DEF UpdateInv, ProgressInv, Start
<1>2. QED
  BY <1>1, UpdateInit, UpdateStep, PTL DEF Spec

\* For every image and any number of failed writes: whenever the server knows the
\* fate of the last chunk that it sent, all before the one that it sends next
\* lie in flash, each in its place; also after a failed write has cost a sector
\* of chunks that it knew to be stored, unless the chunk of that write was a
\* short last one (CHUNK, FLASH_Update, and the request in event_loop).
THEOREM AcknowledgedStored ==
  ASSUME FlashFits
  PROVE  Spec => []AcknowledgedIsStored
<1>1. UpdateInv => AcknowledgedIsStored
  <2> SUFFICES ASSUME UpdateInv, server.phase = "sending", server.pending = FALSE,
                      shortFailed = FALSE, NEW a \in Cell, a < server.next * ChunkSize
               PROVE  flash[a] = Image[a]
    BY DEF AcknowledgedIsStored, UpdateInv, TypeOK
  <2>1. updating = TRUE /\ server.next = updateIndex
    BY DEF UpdateInv, SessionInv, SendingInv, RestsInv, SentInv, AnsweredInv, AckedInv, DeafInv,
           MisplacedInv
  <2>2. flashAddress = Start(updateIndex) /\ flash[a] = IF a < flashAddress THEN a ELSE Erased
    BY <2>1 DEF UpdateInv, ProgressInv
  <2>3. a < ImageSize
    BY Places DEF Cell
  <2>4. a < flashAddress
    BY <2>1, <2>2, <2>3 DEF Start
  <2>5. QED
    BY <2>2, <2>4 DEF Image
<1>2. QED
  BY <1>1, UpdateInit, UpdateStep, PTL DEF Spec

\* For every image and every history of resets, lost links, bad chunks and any
\* number of failed writes: what the bootloader is told to install is the whole
\* image, unless in that update the write of a short last chunk has failed
\* (UPDATE_BEGIN to FLASH_End).
THEOREM WholeInstalled ==
  ASSUME FlashFits
  PROVE  Spec => InstalledIsWhole
<1>1. UpdateInv /\ [Next]_vars => [installed' # installed => installed' = Image \/ shortFailed]_vars
  <2> SUFFICES ASSUME UpdateInv, Next, installed' # installed, shortFailed = FALSE
               PROVE  installed' = Image
    BY DEF vars, UpdateInv, TypeOK
  <2>1. Receive
    BY DEF Next, EventLoop, Connect, HandshakeAgain, RequestChunk, Ping, PingTimeout, Tick,
           TickUnless, LinkLost, ServerTalks, ServerBegins, ServerSendsChunk, ServerFinishes,
           ServerReceives, ServerFallsSilent, ServerSends, Device
  <2>2. toDevice # <<>> /\ Head(toDevice).type = "done" /\ ReceiveDone
    BY <2>1 DEF Receive, ReceiveOther, ReceiveBegin, ReceiveChunk
  <2>3. installed' = flash
    BY <2>2 DEF ReceiveDone
  <2>4. QED
    BY <2>2, <2>3, DoneInstallsImage DEF UpdateInv
<1>2. QED
  BY <1>1, UpdateInit, UpdateStep, PTL DEF Spec, InstalledIsWhole
=============================================================================
