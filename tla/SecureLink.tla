----------------------------- MODULE SecureLink -----------------------------
(***************************************************************************)
(* How requests reach the garage application and answers leave it: the     *)
(* framing of SecureChannelServer::loop, the WiFi and client management of *)
(* WiFiCommunicationChannel, and the TCPServer and TCPClient under them.   *)
(*                                                                         *)
(* A connection is a stream of bytes, all of them of requests of one       *)
(* length.  A byte is only its position: what the program reads is fixed   *)
(* by where in the stream it reads.  A request whose HMAC is right is one  *)
(* whose header and body come from the place in the stream where a client  *)
(* put a request; a length read anywhere else may be any number.           *)
(*                                                                         *)
(* Every read() and write() of the channel first runs isClientConnected(), *)
(* here the steps "wifi" and "client"; the network acts between any two.   *)
(***************************************************************************)
EXTENDS Integers

CONSTANTS
  Conns,        \* connections, each made at most once
  Careful,      \* those whose client sends one request at a time, in one segment
  Length,       \* bytes of a request on each connection, header included
  BufSize,      \* TCPCLIENT_BUF_MAX_SIZE (128)
  MaxLength,    \* MAX_TRANSMISSION_SIZE (256)
  Garbage,      \* lengths that may be read from the middle of a request
  MaxSent,      \* bound: requests on one connection
  SocketFaults  \* may socket(), bind() or listen() fail?

NoSock == "MAX_SOCK_NUM"

ASSUME LinkAssumption ==
  /\ Careful \subseteq Conns /\ NoSock \notin Conns
  /\ Length \in [Conns -> 3 .. MaxLength - 1]
  /\ BufSize \in Nat \ {0} /\ MaxLength \in Nat \ {0}
  /\ Garbage \subseteq Nat /\ MaxSent \in Nat
  /\ SocketFaults \in BOOLEAN

NoRequest == [conn |-> "NONE"]
Request == [conn : Conns, index : 1 .. MaxSent]
NoFrame == [conn |-> "NONE"]

VARIABLES
  peer,               \* of each connection: what its two ends have done
  arrived,            \* bytes of each connection that reached the WiFi module
  wifi,               \* "ready", "connecting" (may become ready), "off", or "stopped":
                      \* off, but the flags behind WiFi.ready() are still set
  pingTimer,
  serverSock,         \* TCPServer::_sock: "none", "listening", or "stale"
  serverClient,       \* TCPServer::_client: its socket
  client,             \* the TCPClient and its buffer
  clientConnected,
  pc,                 \* in the channel: "wifi", "client" or "use"; or "stuck"
  op,                 \* called for: "read" or "write"
  msgState,
  transmissionLength,
  frame,              \* where in which stream the header came from
  received,           \* the last request handled on each connection
  reply               \* the request whose answer each connection got last

world == <<peer, arrived>>
radio == <<wifi, pingTimer>>
sockets == <<serverSock, serverClient, client, clientConnected>>
framing == <<msgState, transmissionLength, frame>>
history == <<received, reply>>
vars == <<world, radio, sockets, pc, op, framing, history>>

\* conn is the stream the buffer was filled from; stop() closes the socket and
\* keeps the buffer.  taken counts the bytes fetched from the module.
NoClient == [conn |-> NoSock, open |-> FALSE, offset |-> 0, total |-> 0, taken |-> 0]
ClientOn(c) == [NoClient EXCEPT !.conn = c, !.open = TRUE]

TypeOK ==
  /\ peer \in [Conns -> {"idle", "waiting", "open", "closing", "closed"}]
  /\ \A c \in Conns : arrived[c] \in 0 .. MaxSent * Length[c]
  /\ wifi \in {"ready", "connecting", "off", "stopped"}
  /\ pingTimer \in {"RUNNING", "STOPPED"}
  /\ serverSock \in {"none", "listening", "stale"}
  /\ serverClient \in Conns \cup {NoSock}
  /\ client.conn \in Conns \cup {NoSock} /\ client.open \in BOOLEAN
  /\ client.offset \in 0 .. client.total /\ client.total \in 0 .. BufSize
  /\ client.taken >= client.total
  /\ clientConnected \in BOOLEAN
  /\ pc \in {"wifi", "client", "use", "stuck"} /\ op \in {"read", "write"}
  /\ msgState \in {"NEED_TRANSMISSION_LENGTH", "RECEIVING_TRANSMISSION"}
  /\ transmissionLength \in 0 .. MaxLength - 1
  /\ frame \in [conn : Conns, at : Nat] \cup {NoFrame}
  /\ \A c \in Conns : received[c] \in 0 .. MaxSent
  /\ \A c \in Conns : reply[c] \in Request \cup {NoRequest}

\* After setup(): WiFi is up or coming up, and nothing listens yet.
Init ==
  /\ peer = [c \in Conns |-> "idle"] /\ arrived = [c \in Conns |-> 0]
  /\ \/ wifi = "ready" /\ pingTimer = "RUNNING"
     \/ wifi = "connecting" /\ pingTimer = "STOPPED"
  /\ serverSock = "none" /\ serverClient = NoSock
  /\ client = NoClient /\ clientConnected = FALSE
  /\ pc = "wifi" /\ op = "read"
  /\ msgState = "NEED_TRANSMISSION_LENGTH" /\ transmissionLength = 0 /\ frame = NoFrame
  /\ received = [c \in Conns |-> 0] /\ reply = [c \in Conns |-> NoRequest]

-----------------------------------------------------------------------------
(* The clients, the network and the WiFi module.                           *)

program == <<radio, sockets, pc, op, framing, history>>

Connect(c) ==
  /\ peer[c] = "idle"
  /\ wifi = "ready" /\ serverSock = "listening"
  /\ peer' = [peer EXCEPT ![c] = "waiting"]
  /\ UNCHANGED <<arrived, program>>

\* Bytes arrive in segments of any size; a careful client's request arrives
\* in one, and only after the answer to the one before.
Arrive(c) ==
  /\ peer[c] \in {"waiting", "open"} /\ wifi = "ready"
  /\ \E n \in 1 .. MaxSent * Length[c] - arrived[c] :
        /\ c \in Careful =>
             /\ n = Length[c]
             /\ arrived[c] > 0 => reply[c] = [conn |-> c, index |-> arrived[c] \div Length[c]]
        /\ arrived' = [arrived EXCEPT ![c] = @ + n]
  /\ UNCHANGED <<peer, program>>

Leave(c) ==
  /\ \/ peer[c] = "waiting" /\ peer' = [peer EXCEPT ![c] = "closed"]
     \/ peer[c] = "open" /\ peer' = [peer EXCEPT ![c] = "closing"]
  /\ UNCHANGED <<arrived, program>>

\* The module loses the access point, and may find it again by itself.
WiFiChanges ==
  /\ \/ wifi = "ready" /\ wifi' = "connecting"
     \/ wifi = "connecting" /\ wifi' = "ready"
  /\ UNCHANGED <<world, pingTimer, sockets, pc, op, framing, history>>

-----------------------------------------------------------------------------
(* TCPClient.                                                              *)

\* WiFi.ready().  SPARK_WLAN_Loop, before the next loop() reads, clears the
\* flags of a module that was switched off.
WiFi_ready == wifi = "ready" \/ (wifi = "stopped" /\ ~(pc = "wifi" /\ op = "read"))

AtMost(n, limit) == IF n < limit THEN n ELSE limit

bufferCount(cl) == cl.total - cl.offset

\* available(): only a buffer that has been read to its end makes room.
Fetchable(cl, room) ==
  IF wifi = "ready" /\ cl.open THEN AtMost(room, arrived[cl.conn] - cl.taken) ELSE 0
Fetch(cl) ==
  LET n == Fetchable(cl, BufSize - cl.total)
  IN  [cl EXCEPT !.total = @ + n, !.taken = @ + n]
flush(cl) == [cl EXCEPT !.offset = 0, !.total = 0]

HasRoom(cl) == cl.open /\ (bufferCount(cl) = 0 \/ cl.total < BufSize)

available_NoFlush(cl) == Fetch(cl)
available(cl) == Fetch(IF bufferCount(cl) = 0 THEN flush(cl) ELSE cl)

\* Where in the stream the next byte of the buffer comes from.
Position(cl) == cl.taken - bufferCount(cl)

status(open, c) == open /\ WiFi_ready /\ peer[c] = "open"

\* connected(): a socket that the peer has closed and whose buffer is empty is
\* asked once more for what the module still holds ...
AtEnd(cl) ==
  bufferCount(cl) = 0 /\ cl.open /\ peer[cl.conn] = "closing"
Tried(cl) == IF AtEnd(cl) THEN available(cl) ELSE cl

\* ... and stopped if that is nothing.
connected_WhileOpen(cl) == cl.open
connected(cl) == status(cl.open, cl.conn) \/ bufferCount(Tried(cl)) > 0
PeerAfterStop(cl) == IF AtEnd(cl) THEN [peer EXCEPT ![cl.conn] = "closed"] ELSE peer

-----------------------------------------------------------------------------
(* The end of SecureChannelServer::loop.                                   *)

reset_transmission_state ==
  /\ msgState' = "NEED_TRANSMISSION_LENGTH"
  /\ transmissionLength' = 0 /\ frame' = NoFrame

\* isClientConnected() was false: read() is 0 bytes, which is never the rest
\* of a request, and write() does nothing.
ReturnNothing ==
  pc' = "wifi" /\ op' = "read" /\ reset_transmission_state

-----------------------------------------------------------------------------
(* Calls of a module that is off.                                          *)

\* Whether the next step calls the driver: to read or close a socket, to
\* accept a client, to send.
CallsDriver ==
  \/ pc = "wifi" /\ ~WiFi_ready /\ client.open
  \/ pc = "client" /\ (AtEnd(client) \/ (WiFi_ready /\ ~connected(client)))
  \/ pc = "use" /\ op = "read" /\ WiFi_ready /\ HasRoom(client)
  \/ pc = "use" /\ op = "write" /\ status(serverClient # NoSock, serverClient)

\* The module is switched off: SpiWrite waits for ever for it to grant the
\* write ...
HitsStoppedModule == wifi \in {"off", "stopped"} /\ CallsDriver
GetStuck ==
  /\ HitsStoppedModule
  /\ pc' = "stuck"
  /\ UNCHANGED <<world, radio, sockets, op, framing, history>>

DeadPeers == [c \in Conns |-> IF peer[c] = "idle" THEN "idle" ELSE "closed"]

\* ... or a fault, as wlan_stop has zeroed the pointer to the buffer in which
\* the command is put together, restarts the device.
Restart ==
  /\ pc = "stuck"
  /\ peer' = DeadPeers
  /\ wifi' = "connecting" /\ pingTimer' = "STOPPED"
  /\ serverSock' = "none" /\ serverClient' = NoSock
  /\ client' = NoClient /\ clientConnected' = FALSE
  /\ ReturnNothing
  /\ UNCHANGED <<arrived, history>>

-----------------------------------------------------------------------------
(* WiFiCommunicationChannel::isClientConnected.                            *)

\* A ping that is not answered switches WiFi off, and the call goes on.  The
\* flags are cleared only if the module told of the disconnection before that.
CheckWiFi ==
  /\ pc = "wifi" /\ WiFi_ready
  /\ \/ UNCHANGED radio
     \/ /\ wifi = "ready" /\ pingTimer = "RUNNING"
        /\ wifi' \in {"off", "stopped"} /\ pingTimer' = "STOPPED"
  /\ pc' = "client"
  /\ UNCHANGED <<world, sockets, op, framing, history>>

\* TCPServer::begin on a module without a listening socket: the new _sock.
begin == {"listening"} \cup (IF SocketFaults THEN {serverSock} ELSE {})

\* There is no WiFi: the module is restarted, which ends every connection, and
\* open() waits a while for it and starts the timer if it came; it may be gone
\* again before the server's socket is opened.
Reconnect ==
  /\ pc = "wifi" /\ ~WiFi_ready /\ ~HitsStoppedModule
  /\ peer' = DeadPeers
  /\ client' = [client EXCEPT !.open = FALSE]
  /\ clientConnected' = FALSE
  /\ \/ /\ wifi' = "ready" /\ pingTimer' = "RUNNING"
        /\ serverSock' \in IF serverSock = "none" THEN begin ELSE {"listening"} \cup
                             (IF SocketFaults THEN {"stale"} ELSE {})
     \/ /\ wifi' = "connecting" /\ pingTimer' \in {pingTimer, "RUNNING"}
        /\ serverSock' = IF serverSock = "none" THEN "none" ELSE "stale"
  /\ ReturnNothing
  /\ UNCHANGED <<arrived, serverClient, history>>

KeepClient ==
  /\ pc = "client" /\ connected(client) /\ ~HitsStoppedModule
  /\ client' = Tried(client)
  /\ clientConnected' = TRUE
  /\ pc' = "use"
  /\ UNCHANGED <<world, radio, serverSock, serverClient, op, framing, history>>

\* TCPServer::available: start listening if that was never done, ...
Listen ==
  IF wifi = "ready" /\ serverSock = "none" THEN serverSock' \in begin
  ELSE serverSock' = IF wifi = "ready" THEN serverSock ELSE "none"

\* ... and accept a client if there is one.
Accept ==
  \/ \E c \in Conns :
        /\ serverSock' = "listening" /\ peer[c] = "waiting"
        /\ peer' = [PeerAfterStop(client) EXCEPT ![c] = "open"]
        /\ client' = ClientOn(c) /\ serverClient' = c
  \/ /\ peer' = PeerAfterStop(client)
     /\ client' = NoClient /\ serverClient' = NoSock

\* The client is gone.  The call returns false even if it accepts another one.
SeekClient_AtOnce ==
  /\ pc = "client" /\ ~connected(client) /\ ~HitsStoppedModule
  /\ Listen /\ Accept
  /\ clientConnected' = client'.open
  /\ IF client'.open THEN pc' = "use" /\ UNCHANGED <<op, framing>> ELSE ReturnNothing
  /\ UNCHANGED <<arrived, radio, history>>
SeekClient ==
  /\ pc = "client" /\ ~connected(client) /\ ~HitsStoppedModule
  /\ Listen /\ Accept
  /\ clientConnected' = FALSE
  /\ ReturnNothing
  /\ UNCHANGED <<arrived, radio, history>>

-----------------------------------------------------------------------------
(* SecureChannelServer::loop, with a client.                               *)

\* The next n bytes leave the buffer.
Consume(cl, n) == client' = [cl EXCEPT !.offset = @ + n]

StartsRequest(at, c) == at % Length[c] = 0

Fits_Any(len) == len > 0
Fits(len) == len > 0 /\ len < MaxLength

ReadLength ==
  /\ pc = "use" /\ op = "read" /\ msgState = "NEED_TRANSMISSION_LENGTH"
  /\ ~HitsStoppedModule
  /\ LET cl == available(client)
         n == AtMost(2, bufferCount(cl))
         at == Position(cl)
     IN  /\ Consume(cl, n)
         /\ IF n = 0 THEN UNCHANGED framing
            ELSE \E len \in IF StartsRequest(at, cl.conn) THEN {Length[cl.conn]} ELSE Garbage :
                   IF Fits(len)
                     THEN /\ msgState' = "RECEIVING_TRANSMISSION"
                          /\ transmissionLength' = len
                          /\ frame' = IF n = 2 THEN [conn |-> cl.conn, at |-> at] ELSE NoFrame
                     ELSE reset_transmission_state
  /\ pc' = "wifi"
  /\ UNCHANGED <<world, radio, serverSock, serverClient, clientConnected, op, history>>

\* transmissionLength - 2 as a size_t: a length of 1 asks for everything.
BodySize == IF transmissionLength = 1 THEN BufSize ELSE transmissionLength - 2
BodyRead(cl) == AtMost(BodySize, bufferCount(cl))

\* Whether the HMAC of what was read is right.
Authentic(cl) ==
  /\ BodyRead(cl) = transmissionLength - 2
  /\ frame = [conn |-> cl.conn, at |-> Position(cl) - 2]
  /\ StartsRequest(frame.at, frame.conn)

CurrentRequest ==
  [conn |-> frame.conn, index |-> frame.at \div Length[frame.conn] + 1]

\* The request is carried out; there may be no answer to it.
HandleRequest ==
  /\ pc = "use" /\ op = "read" /\ msgState = "RECEIVING_TRANSMISSION"
  /\ ~HitsStoppedModule
  /\ LET cl == available(client)
     IN  Authentic(cl) /\ Consume(cl, BodyRead(cl))
  /\ received' = [received EXCEPT ![frame.conn] = CurrentRequest.index]
  /\ pc' = "wifi"
  /\ \/ op' = "write" /\ UNCHANGED framing
     \/ op' = "read" /\ reset_transmission_state
  /\ UNCHANGED <<world, radio, serverSock, serverClient, clientConnected, reply>>

\* Too few bytes, or a wrong HMAC.
DropRequest ==
  /\ pc = "use" /\ op = "read" /\ msgState = "RECEIVING_TRANSMISSION"
  /\ ~HitsStoppedModule
  /\ LET cl == available(client)
     IN  ~Authentic(cl) /\ Consume(cl, BodyRead(cl))
  /\ pc' = "wifi" /\ reset_transmission_state
  /\ UNCHANGED <<world, radio, serverSock, serverClient, clientConnected, op, history>>

\* TCPServer::write goes to the socket accepted last; send() may fail.
WriteAnswer ==
  /\ pc = "use" /\ op = "write" /\ ~HitsStoppedModule
  /\ \/ UNCHANGED reply
     \/ /\ status(serverClient # NoSock, serverClient)
        /\ reply' = [reply EXCEPT ![serverClient] = CurrentRequest]
  /\ pc' = "wifi" /\ op' = "read" /\ reset_transmission_state
  /\ UNCHANGED <<world, radio, sockets, received>>

Environment == WiFiChanges \/ \E c \in Conns : Connect(c) \/ Arrive(c) \/ Leave(c)
Channel == CheckWiFi \/ Reconnect \/ KeepClient \/ SeekClient \/ GetStuck
Server == ReadLength \/ HandleRequest \/ DropRequest \/ WriteAnswer

Next == Environment \/ Channel \/ Server \/ Restart

\* The main loop calls loop() for ever; nobody has to connect, send or leave.
Spec == Init /\ [][Next]_vars /\ WF_vars(Channel \/ Server)

-----------------------------------------------------------------------------
(* Properties.                                                             *)

\* The promise to the code above, in terms of whole requests.
Abstract == INSTANCE MessageChannel WITH
  sent    <- [c \in Conns |-> arrived[c] \div Length[c]],
  pending <- IF op = "write" THEN CurrentRequest ELSE NoRequest

(* However the bytes of a request are cut up, however many requests lie in *)
(* the buffer and whenever clients and WiFi come and go: requests are      *)
(* handled whole, in order and at most once, and an answer never reaches   *)
(* another client than the one that asked (loop, isClientConnected).       *)
DeliversMessages == Abstract!Spec

(* A client that sends one request at a time, each in one segment, is      *)
(* understood whatever earlier clients left behind: its request is handled *)
(* unless WiFi fails, even if it hangs up right after sending it.          *)
CarefulClientIsServed ==
  \A c \in Careful :
    (client.conn = c /\ client.open /\ arrived[c] > received[c] * Length[c])
      ~> (arrived[c] = received[c] * Length[c] \/ wifi # "ready")

(* The server holds one client at a time and has no timeout for it, so it  *)
(* must notice that a client has hung up, with what is left in the buffer  *)
(* read first, or nobody else would ever be accepted.  Only a device that  *)
(* is stuck does not (PingRepairsWiFi).                                    *)
DepartedClientIsLetGo ==
  \A c \in Conns :
    (client.conn = c /\ client.open /\ peer[c] = "closing")
      ~> ~(client.conn = c /\ client.open) \/ pc = "stuck"

(* isClientConnected "ensures that WiFi connectivity is present and        *)
(* functioning" (WiFiCommunicationChannel.h:80-81): once WiFi stays up the *)
(* server listens or serves a client.  The code breaks it when open()      *)
(* times out and WiFi comes up right after: TCPServer keeps the socket     *)
(* number of before the restart and accept() fails on it for ever.  Pings  *)
(* are answered, so that nobody restarts the module again.                 *)
ListensAgain ==
  <>[](wifi = "ready") => []<>(serverSock = "listening")

(* "This is accomplished by pinging pingTarget" (lines 82-83): a ping that *)
(* fails has WiFi started again ("Re-initializing WiFi...", line 144).     *)
(* The code goes on in the same call, with WiFi.ready() still true unless  *)
(* the event of the disconnection has come; there, or when it closes the   *)
(* client's socket in the next call, it talks to the stopped module.       *)
PingRepairsWiFi ==
  wifi \in {"off", "stopped"} ~> wifi \in {"ready", "connecting"}
=============================================================================
