-------------------------- MODULE SecureLinkProofs --------------------------
(***************************************************************************)
(* Requests are handled whole, in order and at most once, and answers go   *)
(* to who asked: SecureLink implements MessageChannel, for any connections,*)
(* any lengths of requests, any size of the buffer and any garbage that is *)
(* taken for a length.                                                     *)
(***************************************************************************)
EXTENDS SecureLink, TLAPS

---------------------------------------------------------------------------
(* Counting whole requests in a stream of bytes.                           *)

LEMMA DivMod ==
  ASSUME NEW n \in Nat, NEW d \in Nat \ {0}
  PROVE  /\ n \div d \in Nat /\ n % d \in 0 .. d - 1
         /\ n = d * (n \div d) + (n % d)
OBVIOUS

LEMMA Monotone ==
  ASSUME NEW i \in Int, NEW j \in Int, NEW d \in Nat, i <= j
  PROVE  d * i <= d * j
OBVIOUS

\* k whole requests have arrived when their bytes have.
LEMMA DivAtLeast ==
  ASSUME NEW n \in Nat, NEW d \in Nat \ {0}, NEW k \in Int, d * k <= n
  PROVE  k <= n \div d
<1> DEFINE q == n \div d
<1>1. q \in Nat /\ n < d * q + d
  BY DivMod
<1>2. SUFFICES ASSUME q + 1 <= k PROVE FALSE
  BY <1>1
<1>3. d * (q + 1) <= d * k
  BY <1>1, <1>2, Monotone
<1>4. d * (q + 1) = d * q + d
  BY <1>1
<1> HIDE DEF q
<1>5. QED
  BY <1>1, <1>3, <1>4

LEMMA DivAtMost ==
  ASSUME NEW n \in Nat, NEW d \in Nat \ {0}, NEW k \in Int, n < d * k + d
  PROVE  n \div d <= k
<1> DEFINE q == n \div d
<1>1. q \in Nat /\ d * q <= n
  BY DivMod
<1>2. SUFFICES ASSUME k + 1 <= q PROVE FALSE
  BY <1>1
<1>3. d * (k + 1) <= d * q
  BY <1>1, <1>2, Monotone
<1>4. d * (k + 1) = d * k + d
  OBVIOUS
<1> HIDE DEF q
<1>5. QED
  BY <1>1, <1>3, <1>4

LEMMA DivMonotone ==
  ASSUME NEW m \in Nat, NEW n \in Nat, NEW d \in Nat \ {0}, m <= n
  PROVE  m \div d <= n \div d
<1>1. m \div d \in Nat /\ d * (m \div d) <= m
  BY DivMod
<1>2. QED
  BY <1>1, DivAtLeast

LEMMA LengthIsPositive ==
  ASSUME NEW c \in Conns
  PROVE  Length[c] \in Nat \ {0} /\ Length[c] >= 3 /\ Length[c] < MaxLength
BY LinkAssumption

---------------------------------------------------------------------------
(* The invariant.                                                          *)

Clients ==
  [conn : Conns \cup {NoSock}, open : BOOLEAN, offset : Nat, total : Nat, taken : Nat]

Types ==
  /\ peer \in [Conns -> {"idle", "waiting", "open", "closing", "closed"}]
  /\ arrived \in [Conns -> Nat]
  /\ \A c \in Conns : arrived[c] <= MaxSent * Length[c]
  /\ wifi \in {"ready", "connecting", "off", "stopped"}
  /\ pingTimer \in {"RUNNING", "STOPPED"}
  /\ serverSock \in {"none", "listening", "stale"}
  /\ serverClient \in Conns \cup {NoSock}
  /\ client \in Clients
  /\ clientConnected \in BOOLEAN
  /\ pc \in {"wifi", "client", "use", "stuck"} /\ op \in {"read", "write"}
  /\ msgState \in {"NEED_TRANSMISSION_LENGTH", "RECEIVING_TRANSMISSION"}
  /\ transmissionLength \in 0 .. MaxLength - 1
  /\ frame \in [conn : Conns, at : Nat] \cup {NoFrame}
  /\ received \in [Conns -> 0 .. MaxSent]
  /\ reply \in [Conns -> Request \cup {NoRequest}]

\* The buffer of a client: of what was taken from the module, some is left.
Sound(cl) ==
  /\ cl \in Clients
  /\ cl.offset <= cl.total /\ cl.total <= BufSize /\ cl.total <= cl.taken
  /\ cl.conn = NoSock => cl.open = FALSE /\ cl.total = 0
  /\ cl.conn # NoSock => cl.taken <= arrived[cl.conn]

\* The server's client is the one that was accepted last, and was accepted.
Live == {"open", "closing", "closed"}
ClientInv ==
  /\ Sound(client)
  /\ serverClient = client.conn
  /\ client.conn # NoSock => peer[client.conn] \in Live

\* All requests that were handled lie before the place where the server reads.
ProgressInv ==
  /\ client.conn # NoSock => Length[client.conn] * received[client.conn] <= Position(client)
  /\ \A c \in Conns : peer[c] \notin Live => received[c] = 0

\* A header is of the client's stream, and of a request that was not handled
\* before; the request that is answered is the one handled last.
FrameInv ==
  /\ msgState = "RECEIVING_TRANSMISSION" => transmissionLength > 0
  /\ op = "write" => frame # NoFrame /\ StartsRequest(frame.at, frame.conn)
  /\ frame # NoFrame =>
       /\ frame.conn = client.conn
       /\ op = "read" => Length[frame.conn] * received[frame.conn] <= frame.at
       /\ op = "write" => received[frame.conn] = CurrentRequest.index
       /\ StartsRequest(frame.at, frame.conn) => transmissionLength = Length[frame.conn]

IInv == Types /\ ClientInv /\ ProgressInv /\ FrameInv

LEMMA FrameIsRecord ==
  ASSUME frame \in [conn : Conns, at : Nat] \cup {NoFrame}, frame # NoFrame
  PROVE  frame \in [conn : Conns, at : Nat] /\ frame.conn \in Conns /\ frame.at \in Nat
OBVIOUS

LEMMA NoFrameIsNone ==
  ASSUME NEW c, NEW n
  PROVE  [conn |-> c, at |-> n] # NoFrame /\ [conn |-> c, index |-> n] # NoRequest
BY DEF NoFrame, NoRequest

LEMMA InitIInv == Init => IInv
<1> SUFFICES ASSUME Init PROVE IInv
  OBVIOUS
<1> USE LinkAssumption DEF Init, NoClient
<1>1. Types
  <2>1. \A c \in Conns : 0 <= MaxSent * Length[c]
    <3>1. ASSUME NEW c \in Conns PROVE 0 <= MaxSent * Length[c]
      <4>1. Length[c] \in Nat
        BY LengthIsPositive
      <4>2. QED
        BY <4>1
    <3>2. QED
      BY <3>1
  <2>2. client \in Clients
    BY DEF Clients
  <2>3. frame \in [conn : Conns, at : Nat] \cup {NoFrame}
    OBVIOUS
  <2>4. received \in [Conns -> 0 .. MaxSent] /\ arrived \in [Conns -> Nat]
    OBVIOUS
  <2>5. reply \in [Conns -> Request \cup {NoRequest}]
    OBVIOUS
  <2>6. transmissionLength \in 0 .. MaxLength - 1
    OBVIOUS
  <2>7. QED
    BY <2>1, <2>2, <2>3, <2>4, <2>5, <2>6 DEF Types
<1>2. ClientInv
  BY DEF ClientInv, Sound, Clients
<1>3. ProgressInv
  BY DEF ProgressInv
<1>4. FrameInv
  BY DEF FrameInv
<1>5. QED
  BY <1>1, <1>2, <1>3, <1>4 DEF IInv

---------------------------------------------------------------------------
(* The buffer.                                                             *)

LEMMA FetchIsClient ==
  ASSUME NEW cl \in Clients, NEW n \in Nat, NEW av,
         av = [cl EXCEPT !.total = @ + n, !.taken = @ + n]
  PROVE  /\ av \in Clients /\ av.conn = cl.conn /\ av.open = cl.open
         /\ av.offset = cl.offset /\ av.total = cl.total + n /\ av.taken = cl.taken + n
<1>1. cl.total + n \in Nat /\ cl.taken + n \in Nat
  BY DEF Clients
<1>2. QED
  BY <1>1 DEF Clients

\* What is fetched goes to the end; the place of the next byte stays.
LEMMA AvailableKeeps ==
  ASSUME NEW cl, Sound(cl), Types
  PROVE  LET av == available(cl)
         IN  /\ Sound(av) /\ av.conn = cl.conn /\ av.open = cl.open
             /\ Position(av) = Position(cl)
<1> DEFINE fl == IF bufferCount(cl) = 0 THEN flush(cl) ELSE cl
           n == Fetchable(fl, BufSize - fl.total)
<1>1. /\ fl \in Clients /\ fl.conn = cl.conn /\ fl.open = cl.open /\ fl.taken = cl.taken
      /\ fl.offset <= fl.total /\ fl.total <= BufSize /\ fl.total <= fl.taken
      /\ bufferCount(fl) = bufferCount(cl)
      /\ fl.total <= cl.total
  <2>1. CASE bufferCount(cl) = 0
    <3>1. fl = [cl EXCEPT !.offset = 0, !.total = 0]
      BY <2>1 DEF flush
    <3> HIDE DEF fl
    <3>2. fl \in Clients /\ fl.conn = cl.conn /\ fl.open = cl.open /\ fl.taken = cl.taken
          /\ fl.offset = 0 /\ fl.total = 0
      BY <3>1 DEF Sound, Clients
    <3>3. QED
      BY <2>1, <3>2, LinkAssumption DEF Sound, Clients, bufferCount
  <2>2. CASE bufferCount(cl) # 0
    <3>1. fl = cl
      BY <2>2
    <3> HIDE DEF fl
    <3>2. QED
      BY <3>1, LinkAssumption DEF Sound, Clients
  <2>3. QED
    BY <2>1, <2>2
<1>2. n \in Nat /\ n <= BufSize - fl.total
  <2>1. CASE fl.open
    BY <1>1, <2>1, LinkAssumption DEF Fetchable, AtMost, Sound, Clients, Types
  <2>2. CASE ~fl.open
    BY <1>1, <2>2, LinkAssumption DEF Fetchable, Clients
  <2>3. QED
    BY <2>1, <2>2
<1>3. fl.conn = NoSock => n = 0
  BY <1>1 DEF Fetchable, Sound
<1>4. fl.conn # NoSock => n <= arrived[fl.conn] - fl.taken
  BY <1>1, LinkAssumption DEF Fetchable, AtMost, Sound, Clients, Types
<1>5. available(cl) = [fl EXCEPT !.total = @ + n, !.taken = @ + n]
  BY DEF available, Fetch
<1> HIDE DEF fl, n
<1> DEFINE av == available(cl)
<1>6. av = [fl EXCEPT !.total = @ + n, !.taken = @ + n]
  BY <1>5
<1> HIDE DEF av
<1>7. /\ av \in Clients /\ av.conn = fl.conn /\ av.open = fl.open
      /\ av.offset = fl.offset /\ av.total = fl.total + n /\ av.taken = fl.taken + n
  <2>1. fl \in Clients /\ n \in Nat
    BY <1>1, <1>2
  <2>2. QED
    BY <1>6, <2>1, FetchIsClient
<1>8. av.total <= BufSize /\ av.offset <= av.total /\ av.total <= av.taken
  BY <1>1, <1>2, <1>7, LinkAssumption DEF Clients
<1>9. av.conn # NoSock => av.taken <= arrived[av.conn]
  BY <1>1, <1>2, <1>4, <1>7 DEF Clients, Types
<1>10. Sound(av)
  BY <1>1, <1>2, <1>3, <1>7, <1>8, <1>9 DEF Sound, Clients
<1>11. Position(av) = Position(cl)
  BY <1>1, <1>2, <1>7, LinkAssumption DEF Position, bufferCount, Clients, Sound
<1>12. QED
  BY <1>1, <1>7, <1>10, <1>11 DEF av

LEMMA TriedKeeps ==
  ASSUME NEW cl, Sound(cl), Types
  PROVE  /\ Sound(Tried(cl)) /\ Tried(cl).conn = cl.conn /\ Tried(cl).open = cl.open
         /\ Position(Tried(cl)) = Position(cl)
BY AvailableKeeps DEF Tried

\* Taking n bytes out of the buffer moves the place of the next one by n.
LEMMA ConsumeKeeps ==
  ASSUME NEW cl, Sound(cl), NEW n \in Nat, n <= bufferCount(cl), Consume(cl, n)
  PROVE  /\ Sound(client')
         /\ client'.conn = cl.conn /\ client'.open = cl.open
         /\ Position(client') = Position(cl) + n
<1>1. /\ client' \in Clients /\ client'.conn = cl.conn /\ client'.open = cl.open
      /\ client'.total = cl.total /\ client'.taken = cl.taken
      /\ client'.offset = cl.offset + n
  BY DEF Consume, Sound, Clients
<1>2. client'.offset <= cl.total
  BY <1>1 DEF bufferCount, Sound, Clients
<1>3. QED
  BY <1>1, <1>2, LinkAssumption DEF Sound, Clients, bufferCount, Position

---------------------------------------------------------------------------
(* The clients, the network and the module keep the invariant.             *)

LEMMA ConnectKeeps ==
  ASSUME IInv, NEW c \in Conns, Connect(c)
  PROVE  IInv'
<1> USE DEF IInv, Connect, program, radio, sockets, framing, history
<1>1. Types'
  BY DEF Types
<1>2. \A d \in Conns : peer'[d] = peer[d] \/ (d = c /\ peer[c] \notin Live /\ peer'[c] \notin Live)
  BY DEF Types, Live
<1>3. ClientInv'
  BY <1>2 DEF Types, ClientInv, Sound, Clients
<1>4. ProgressInv'
  BY <1>2 DEF ProgressInv, Position, bufferCount
<1>5. FrameInv'
  BY DEF FrameInv, StartsRequest, CurrentRequest
<1>6. QED
  BY <1>1, <1>3, <1>4, <1>5

LEMMA ArriveKeeps ==
  ASSUME IInv, NEW c \in Conns, Arrive(c)
  PROVE  IInv'
<1> USE DEF IInv, Arrive, program, radio, sockets, framing, history
<1>1. PICK n \in 1 .. MaxSent * Length[c] - arrived[c] : arrived' = [arrived EXCEPT ![c] = @ + n]
  OBVIOUS
<1>2. MaxSent * Length[c] \in Nat /\ arrived[c] \in Nat
  BY LengthIsPositive, LinkAssumption DEF Types
<1>3. /\ arrived' \in [Conns -> Nat]
      /\ arrived'[c] = arrived[c] + n
      /\ \A d \in Conns : arrived[d] <= arrived'[d] /\ (d # c => arrived'[d] = arrived[d])
  BY <1>1, <1>2 DEF Types
<1>4. arrived'[c] <= MaxSent * Length[c]
  BY <1>1, <1>2, <1>3
<1>5. Types'
  BY <1>3, <1>4 DEF Types
<1>6. client.conn # NoSock => client.taken <= arrived'[client.conn]
  BY <1>3 DEF ClientInv, Sound, Clients, Types
<1>7. ClientInv'
  BY <1>6 DEF ClientInv, Sound
<1>8. ProgressInv'
  BY DEF ProgressInv, Position, bufferCount
<1>9. FrameInv'
  BY DEF FrameInv, StartsRequest, CurrentRequest
<1>10. QED
  BY <1>5, <1>7, <1>8, <1>9

LEMMA LeaveKeeps ==
  ASSUME IInv, NEW c \in Conns, Leave(c)
  PROVE  IInv'
<1> USE DEF IInv, Leave, program, radio, sockets, framing, history
<1>1. Types'
  BY DEF Types
<1>2. \A d \in Conns : peer'[d] = peer[d] \/ (d = c /\ peer'[c] \in Live)
  BY DEF Types, Live
<1>3. ClientInv'
  BY <1>2 DEF Types, ClientInv, Sound, Clients
<1>4. ProgressInv'
  BY <1>2 DEF ProgressInv, Position, bufferCount
<1>5. FrameInv'
  BY DEF FrameInv, StartsRequest, CurrentRequest
<1>6. QED
  BY <1>1, <1>3, <1>4, <1>5

LEMMA RadioKeeps ==
  ASSUME IInv, UNCHANGED <<world, sockets, framing, history, op>>,
         wifi' \in {"ready", "connecting", "off", "stopped"},
         pingTimer' \in {"RUNNING", "STOPPED"}, pc' \in {"wifi", "client", "use", "stuck"}
  PROVE  IInv'
<1> USE DEF IInv, world, sockets, framing, history
<1>1. Types'
  BY DEF Types
<1>2. ClientInv'
  BY DEF ClientInv, Sound
<1>3. ProgressInv'
  BY DEF ProgressInv, Position, bufferCount
<1>4. FrameInv'
  BY DEF FrameInv, StartsRequest, CurrentRequest
<1>5. QED
  BY <1>1, <1>2, <1>3, <1>4

---------------------------------------------------------------------------
(* The channel keeps it.                                                   *)

\* Without a header and an answer to give, the framing is in order.
LEMMA NoFrameIsFine ==
  ASSUME reset_transmission_state, op' = "read"
  PROVE  FrameInv'
BY DEF reset_transmission_state, FrameInv

LEMMA ReconnectKeeps ==
  ASSUME IInv, Reconnect
  PROVE  IInv'
<1> USE DEF IInv, Reconnect, history, ReturnNothing
<1>1. FrameInv'
  BY NoFrameIsFine
<1>2. /\ client' \in Clients /\ client'.open = FALSE /\ client'.conn = client.conn
      /\ client'.offset = client.offset /\ client'.total = client.total
      /\ client'.taken = client.taken
  BY DEF ClientInv, Sound, Clients
<1>3. serverSock' \in {"none", "listening", "stale"}
  BY DEF Types, begin
<1>4. \A c \in Conns : /\ peer'[c] \in {"idle", "closed"}
                       /\ peer[c] \in Live => peer'[c] \in Live
                       /\ peer'[c] \notin Live => peer[c] \notin Live
  BY DEF DeadPeers, Live, Types
<1>5. Types'
  <2>1. peer' \in [Conns -> {"idle", "waiting", "open", "closing", "closed"}]
    BY <1>4 DEF DeadPeers
  <2>2. wifi' \in {"ready", "connecting", "off", "stopped"} /\ pingTimer' \in {"RUNNING", "STOPPED"}
    BY DEF Types
  <2>3. transmissionLength' \in 0 .. MaxLength - 1 /\ frame' = NoFrame
        /\ msgState' = "NEED_TRANSMISSION_LENGTH"
    BY LinkAssumption DEF reset_transmission_state
  <2>4. QED
    BY <1>2, <1>3, <2>1, <2>2, <2>3 DEF Types
<1>6. ClientInv'
  BY <1>2, <1>4 DEF ClientInv, Sound, Clients
<1>7. ProgressInv'
  BY <1>2, <1>4 DEF ProgressInv, Position, bufferCount
<1>8. QED
  BY <1>1, <1>5, <1>6, <1>7

LEMMA RestartKeeps ==
  ASSUME IInv, Restart
  PROVE  IInv'
<1> USE DEF IInv, Restart, history, ReturnNothing
<1>1. FrameInv'
  BY NoFrameIsFine
<1>2. peer' \in [Conns -> {"idle", "waiting", "open", "closing", "closed"}]
      /\ \A c \in Conns : peer'[c] \notin Live => peer[c] \notin Live
  BY DEF DeadPeers, Live, Types
<1>3. Types'
  <2>1. client' \in Clients /\ serverClient' \in Conns \cup {NoSock}
    BY DEF NoClient, Clients
  <2>2. transmissionLength' \in 0 .. MaxLength - 1 /\ frame' = NoFrame
        /\ msgState' = "NEED_TRANSMISSION_LENGTH"
    BY LinkAssumption DEF reset_transmission_state
  <2>3. QED
    BY <1>2, <2>1, <2>2 DEF Types
<1>4. ClientInv'
  BY LinkAssumption DEF ClientInv, Sound, NoClient, Clients
<1>5. ProgressInv'
  BY <1>2 DEF ProgressInv, NoClient
<1>6. QED
  BY <1>1, <1>3, <1>4, <1>5

LEMMA KeepClientKeeps ==
  ASSUME IInv, KeepClient
  PROVE  IInv'
<1> USE DEF IInv, KeepClient, world, radio, framing, history
<1>1. /\ Sound(client') /\ client'.conn = client.conn
      /\ Position(client') = Position(client)
  BY TriedKeeps DEF ClientInv
<1>2. client' \in Clients
  BY <1>1 DEF Sound
<1>3. Types'
  BY <1>2 DEF Types
<1>4. ClientInv'
  BY <1>1 DEF ClientInv, Sound
<1>5. ProgressInv'
  BY <1>1 DEF ProgressInv, Position, bufferCount
<1>6. FrameInv'
  BY <1>1 DEF FrameInv, StartsRequest, CurrentRequest
<1>7. QED
  BY <1>3, <1>4, <1>5, <1>6

LEMMA SeekClientKeeps ==
  ASSUME IInv, SeekClient
  PROVE  IInv'
<1> USE DEF IInv, SeekClient, history, radio, ReturnNothing
<1>1. FrameInv'
  BY NoFrameIsFine
<1>2. serverSock' \in {"none", "listening", "stale"}
  BY DEF Types, Listen, begin
<1> DEFINE stopped == PeerAfterStop(client)
<1>3. /\ stopped \in [Conns -> {"idle", "waiting", "open", "closing", "closed"}]
      /\ \A c \in Conns : stopped[c] = peer[c] \/ (peer[c] \in Live /\ stopped[c] \in Live)
  BY DEF PeerAfterStop, AtEnd, Types, Live
<1> HIDE DEF stopped
<1>4. transmissionLength' \in 0 .. MaxLength - 1 /\ frame' = NoFrame
      /\ msgState' = "NEED_TRANSMISSION_LENGTH"
  BY LinkAssumption DEF reset_transmission_state
<1>5. CASE peer' = stopped /\ client' = NoClient /\ serverClient' = NoSock
  <2>1. Types'
    <3>1. client' \in Clients
      BY <1>5 DEF NoClient, Clients
    <3>2. QED
      BY <1>2, <1>3, <1>5, <1>4, <3>1 DEF Types
  <2>2. ClientInv'
    BY <1>5, LinkAssumption DEF ClientInv, Sound, NoClient, Clients
  <2>3. ProgressInv'
    BY <1>3, <1>5 DEF ProgressInv, NoClient
  <2>4. QED
    BY <1>1, <2>1, <2>2, <2>3
<1>6. ASSUME NEW c \in Conns, peer[c] = "waiting", peer' = [stopped EXCEPT ![c] = "open"],
             client' = ClientOn(c), serverClient' = c
      PROVE  IInv'
  <2>1. client' = [conn |-> c, open |-> TRUE, offset |-> 0, total |-> 0, taken |-> 0]
    BY <1>6 DEF ClientOn, NoClient
  <2>2. client' \in Clients
    BY <2>1 DEF Clients
  <2>3. Types'
    <3>1. peer' \in [Conns -> {"idle", "waiting", "open", "closing", "closed"}]
      BY <1>3, <1>6
    <3>2. QED
      BY <1>2, <1>6, <1>4, <2>2, <3>1 DEF Types
  <2>4. peer'[c] = "open" /\ received'[c] = 0
    BY <1>3, <1>6 DEF ProgressInv, Live
  <2>5. ClientInv'
    BY <1>6, <2>1, <2>2, <2>4, LinkAssumption DEF ClientInv, Sound, Live, Types
  <2>6. ProgressInv'
    <3>1. Position(client') = 0
      BY <2>1 DEF Position, bufferCount
    <3>2. Length[c] * 0 = 0
      BY LengthIsPositive
    <3>3. \A d \in Conns : peer'[d] \notin Live => received'[d] = 0
      BY <1>3, <1>6 DEF ProgressInv, Live
    <3>4. Length[client'.conn] * received'[client'.conn] <= Position(client')
      BY <2>1, <2>4, <3>1, <3>2
    <3>5. QED
      BY <3>3, <3>4 DEF ProgressInv, Position, bufferCount
  <2>7. QED
    BY <1>1, <2>3, <2>5, <2>6
<1>7. QED
  BY <1>5, <1>6 DEF Accept, stopped

---------------------------------------------------------------------------
(* The server keeps it.                                                    *)

\* What is read of a client's buffer.
LEMMA ReadKeeps ==
  ASSUME IInv, NEW n \in Nat, n <= bufferCount(available(client)),
         Consume(available(client), n), UNCHANGED <<world, serverClient>>
  PROVE  /\ client' \in Clients /\ client'.conn = client.conn
         /\ Position(client') = Position(client) + n
         /\ Position(client) \in Nat
         /\ n > 0 => client.conn \in Conns /\ Position(client') <= arrived[client.conn]
         /\ ClientInv'
<1> DEFINE av == available(client)
<1> USE DEF IInv, world
<1>1. Sound(av) /\ av.conn = client.conn /\ Position(av) = Position(client)
  BY AvailableKeeps DEF ClientInv
<1> HIDE DEF av
<1>2. n <= bufferCount(av) /\ Consume(av, n)
  BY DEF av
<1>3. Sound(client') /\ client'.conn = av.conn /\ Position(client') = Position(av) + n
  BY <1>1, <1>2, ConsumeKeeps
<1>4. Position(av) \in Nat
  BY <1>1 DEF Sound, Clients, Position, bufferCount
<1>5. ASSUME n > 0
      PROVE  client.conn \in Conns /\ Position(client') <= arrived[client.conn]
  <2>1. client.conn # NoSock
    BY <1>1, <1>2, <1>5 DEF Sound, Clients, bufferCount
  <2>2. client'.taken <= arrived[client.conn]
    BY <1>1, <1>3, <2>1 DEF Sound
  <2>3. client.conn \in Conns /\ arrived[client.conn] \in Nat
    BY <2>1 DEF ClientInv, Sound, Clients, Types
  <2>4. QED
    BY <1>3, <2>2, <2>3 DEF Sound, Clients, Position, bufferCount
<1>6. ClientInv'
  BY <1>1, <1>3 DEF ClientInv, Sound
<1>7. QED
  BY <1>1, <1>3, <1>4, <1>5, <1>6 DEF Sound

\* The place where the server reads only moves on.
LEMMA ReadOnKeepsProgress ==
  ASSUME IInv, client'.conn = client.conn, NEW n \in Nat,
         Position(client') = Position(client) + n, Position(client) \in Nat,
         UNCHANGED <<peer, received>>
  PROVE  ProgressInv'
<1>1. client.conn # NoSock =>
        /\ Length[client.conn] * received[client.conn] \in Nat
        /\ Length[client.conn] * received[client.conn] <= Position(client)
  BY LengthIsPositive DEF IInv, Types, ProgressInv, Clients
<1>2. QED
  BY <1>1 DEF IInv, ProgressInv, Position, bufferCount

LEMMA ReadLengthKeeps ==
  ASSUME IInv, ReadLength
  PROVE  IInv'
<1> USE DEF IInv
<1> DEFINE av == available(client)
           n == AtMost(2, bufferCount(av))
           at == Position(av)
<1>1. Sound(av) /\ av.conn = client.conn /\ Position(av) = Position(client)
  BY AvailableKeeps DEF ClientInv
<1>2. n \in Nat /\ n <= bufferCount(av)
  BY <1>1 DEF AtMost, Sound, Clients, bufferCount
<1>3. Consume(av, n)
      /\ UNCHANGED <<world, radio, serverSock, serverClient, clientConnected, op, history>>
      /\ pc' = "wifi" /\ op = "read" /\ op' = "read" /\ received' = received
  BY DEF ReadLength, history
<1>4. /\ client' \in Clients /\ client'.conn = client.conn
      /\ Position(client') = Position(client) + n /\ Position(client) \in Nat
      /\ n > 0 => client.conn \in Conns
      /\ ClientInv'
  BY <1>2, <1>3, ReadKeeps
<1>5. ProgressInv'
  BY <1>2, <1>3, <1>4, ReadOnKeepsProgress DEF world, history
<1>6. \/ UNCHANGED framing
      \/ reset_transmission_state
      \/ \E len \in IF StartsRequest(at, av.conn) THEN {Length[av.conn]} ELSE Garbage :
            /\ Fits(len) /\ n > 0
            /\ msgState' = "RECEIVING_TRANSMISSION" /\ transmissionLength' = len
            /\ frame' = IF n = 2 THEN [conn |-> av.conn, at |-> at] ELSE NoFrame
  BY <1>2 DEF ReadLength
<1> HIDE DEF n, at, av
<1>7. Types' /\ FrameInv'
  <2>1. ASSUME transmissionLength' \in 0 .. MaxLength - 1,
               frame' \in [conn : Conns, at : Nat] \cup {NoFrame},
               msgState' \in {"NEED_TRANSMISSION_LENGTH", "RECEIVING_TRANSMISSION"}
        PROVE  Types'
    BY <1>3, <1>4, <2>1 DEF Types, world, radio, history
  <2>2. CASE UNCHANGED framing
    <3>1. Types'
      BY <2>1, <2>2 DEF Types, framing
    <3>2. FrameInv'
      BY <1>3, <1>4, <2>2 DEF FrameInv, framing, history, StartsRequest, CurrentRequest
    <3>3. QED
      BY <3>1, <3>2
  <2>3. CASE reset_transmission_state
    <3>1. Types'
      BY <2>1, <2>3, LinkAssumption DEF reset_transmission_state
    <3>2. FrameInv'
      BY <1>3, <2>3, NoFrameIsFine
    <3>3. QED
      BY <3>1, <3>2
  <2>4. ASSUME NEW len \in IF StartsRequest(at, av.conn) THEN {Length[av.conn]} ELSE Garbage,
               Fits(len), n > 0, msgState' = "RECEIVING_TRANSMISSION", transmissionLength' = len,
               frame' = IF n = 2 THEN [conn |-> av.conn, at |-> at] ELSE NoFrame
        PROVE  Types' /\ FrameInv'
    <3>1. av.conn = client.conn /\ av.conn \in Conns /\ at \in Nat /\ at = Position(client)
      BY <1>1, <1>4, <2>4 DEF at
    <3>2. len \in 1 .. MaxLength - 1
      <4>1. Length[av.conn] \in Nat
        BY <3>1, LengthIsPositive
      <4>2. len \in Nat
        BY <2>4, <4>1, LinkAssumption
      <4>3. QED
        BY <2>4, <4>2, LinkAssumption DEF Fits
    <3>3. Types'
      BY <2>1, <2>4, <3>1, <3>2
    <3>4. StartsRequest(at, av.conn) => len = Length[av.conn]
      BY <2>4
    <3>5. CASE frame' = NoFrame
      <4>1. transmissionLength' > 0
        BY <2>4, <3>2
      <4>2. QED
        BY <1>3, <3>3, <3>5, <4>1 DEF FrameInv
    <3>6. CASE frame' = [conn |-> av.conn, at |-> at]
      <4>1. frame'.conn = av.conn /\ frame'.at = at
        BY <3>6
      <4>2. Length[av.conn] * received[av.conn] <= at
        BY <3>1, LinkAssumption DEF ProgressInv
      <4>3. transmissionLength' > 0 /\ transmissionLength' = len
        BY <2>4, <3>2
      <4>4. StartsRequest(frame'.at, frame'.conn) => transmissionLength' = Length[frame'.conn]
        BY <3>4, <4>1, <4>3
      <4>5. frame'.conn = client'.conn
        BY <1>4, <3>1, <4>1
      <4>6. Length[frame'.conn] * received'[frame'.conn] <= frame'.at
        BY <1>3, <4>1, <4>2
      <4>7. QED
        BY <1>3, <3>3, <4>3, <4>4, <4>5, <4>6 DEF FrameInv, StartsRequest
    <3>7. QED
      BY <2>4, <3>3, <3>5, <3>6
  <2>5. QED
    BY <1>6, <2>2, <2>3, <2>4
<1>8. QED
  BY <1>4, <1>5, <1>7

\* The bytes of the body that are there are read.
LEMMA BodyIsRead ==
  ASSUME IInv, msgState = "RECEIVING_TRANSMISSION"
  PROVE  LET av == available(client)
         IN  BodyRead(av) \in Nat /\ BodyRead(av) <= bufferCount(av)
<1> DEFINE av == available(client)
<1>1. Sound(av)
  BY AvailableKeeps DEF IInv, ClientInv
<1> HIDE DEF av
<1>2. bufferCount(av) \in Nat
  BY <1>1 DEF Sound, Clients, bufferCount
<1>3. BodySize \in Nat
  BY LinkAssumption DEF IInv, FrameInv, Types, BodySize
<1>4. BodyRead(av) \in Nat /\ BodyRead(av) <= bufferCount(av)
  BY <1>2, <1>3 DEF BodyRead, AtMost
<1>5. QED
  BY <1>4 DEF av

LEMMA DropRequestKeeps ==
  ASSUME IInv, DropRequest
  PROVE  IInv'
<1> USE DEF IInv
<1> DEFINE n == BodyRead(available(client))
<1>1. n \in Nat /\ n <= bufferCount(available(client))
  BY BodyIsRead DEF DropRequest
<1>2. Consume(available(client), n)
      /\ UNCHANGED <<world, radio, serverSock, serverClient, clientConnected, op, history>>
      /\ pc' = "wifi" /\ op = "read" /\ reset_transmission_state
  BY DEF DropRequest
<1> HIDE DEF n
<1>3. /\ client' \in Clients /\ client'.conn = client.conn
      /\ Position(client') = Position(client) + n /\ Position(client) \in Nat
      /\ ClientInv'
  BY <1>1, <1>2, ReadKeeps
<1>4. ProgressInv'
  BY <1>1, <1>2, <1>3, ReadOnKeepsProgress DEF world, history
<1>5. FrameInv'
  BY <1>2, NoFrameIsFine
<1>6. transmissionLength' \in 0 .. MaxLength - 1 /\ frame' = NoFrame
      /\ msgState' = "NEED_TRANSMISSION_LENGTH"
  BY <1>2, LinkAssumption DEF reset_transmission_state
<1>7. Types'
  BY <1>2, <1>3, <1>6 DEF Types, world, radio, history
<1>8. QED
  BY <1>3, <1>4, <1>5, <1>7

\* An authentic body ends a request of the client that had not been handled,
\* and that lies in what has arrived.
LEMMA HandledRequest ==
  ASSUME IInv, HandleRequest
  PROVE  /\ frame # NoFrame /\ frame.conn \in Conns /\ frame.at \in Nat
         /\ StartsRequest(frame.at, frame.conn)
         /\ client' \in Clients /\ client'.conn = frame.conn /\ client.conn = frame.conn
         /\ ClientInv'
         /\ CurrentRequest.index \in 1 .. MaxSent
         /\ received[frame.conn] < CurrentRequest.index
         /\ Length[frame.conn] * CurrentRequest.index <= arrived[frame.conn]
         /\ Position(client') = Length[frame.conn] * CurrentRequest.index
<1> USE DEF IInv
<1> DEFINE av == available(client)
           n == BodyRead(av)
           c == frame.conn
           L == Length[c]
           k == frame.at \div L
<1>1. Sound(av) /\ av.conn = client.conn /\ Position(av) = Position(client)
  BY AvailableKeeps DEF ClientInv
<1>2. n \in Nat /\ n <= bufferCount(av)
  BY BodyIsRead DEF HandleRequest
<1>3. /\ Consume(av, n) /\ UNCHANGED <<world, serverClient>> /\ op = "read"
      /\ n = transmissionLength - 2
      /\ frame = [conn |-> av.conn, at |-> Position(av) - 2]
      /\ StartsRequest(frame.at, frame.conn)
  BY DEF HandleRequest, Authentic
<1> HIDE DEF n
<1>4. /\ client' \in Clients /\ client'.conn = client.conn
      /\ Position(client') = Position(client) + n /\ Position(client) \in Nat
      /\ n > 0 => client.conn \in Conns /\ Position(client') <= arrived[client.conn]
      /\ ClientInv'
  BY <1>2, <1>3, ReadKeeps
<1> HIDE DEF av
<1>5. frame # NoFrame /\ c = client.conn /\ frame.at = Position(client) - 2
  BY <1>1, <1>3, NoFrameIsNone
<1>6. c \in Conns /\ frame.at \in Nat
  BY <1>5, FrameIsRecord DEF Types
<1>7. /\ L \in Nat \ {0} /\ L >= 3 /\ transmissionLength = L /\ received[c] \in 0 .. MaxSent
      /\ L * received[c] <= frame.at
      /\ frame.at % L = 0
  BY <1>3, <1>5, <1>6, LengthIsPositive DEF FrameInv, StartsRequest, Types
<1>8. k \in Nat /\ CurrentRequest.index = k + 1 /\ frame.at = L * k
  <2>1. CurrentRequest.index = k + 1
    BY DEF CurrentRequest
  <2> HIDE DEF L, c
  <2>2. k \in Nat /\ frame.at = L * k + (frame.at % L)
    BY <1>6, <1>7, DivMod
  <2> HIDE DEF k
  <2>3. QED
    BY <1>6, <1>7, <2>1, <2>2
<1>9. received[c] <= k
  <2> HIDE DEF L, c
  <2>1. received[c] \in Int
    BY <1>7, LinkAssumption
  <2>2. QED
    BY <1>6, <1>7, <2>1, DivAtLeast
<1>10. Position(client') = frame.at + L /\ Position(client') <= arrived[c]
  BY <1>3, <1>4, <1>5, <1>6, <1>7
<1>11. arrived[c] <= MaxSent * L /\ arrived[c] \in Nat
  BY <1>6 DEF Types
<1> HIDE DEF k, c, L
<1>12. L * (k + 1) = frame.at + L
  BY <1>7, <1>8
<1>13. k + 1 <= MaxSent
  <2>1. SUFFICES ASSUME MaxSent <= k PROVE FALSE
    BY <1>8, LinkAssumption
  <2>2. L * MaxSent <= L * k
    BY <1>7, <1>8, <2>1, Monotone, LinkAssumption
  <2>3. QED
    BY <1>6, <1>7, <1>8, <1>10, <1>11, <2>2, LinkAssumption
<1>14. /\ CurrentRequest.index \in 1 .. MaxSent
       /\ received[c] < CurrentRequest.index
       /\ L * CurrentRequest.index <= arrived[c]
       /\ Position(client') = L * CurrentRequest.index
  BY <1>7, <1>8, <1>9, <1>10, <1>12, <1>13, LinkAssumption
<1>15. QED
  BY <1>3, <1>4, <1>5, <1>6, <1>14 DEF c, L

LEMMA HandleRequestKeeps ==
  ASSUME IInv, HandleRequest
  PROVE  IInv'
<1> USE DEF IInv
<1> DEFINE c == frame.conn
           i == CurrentRequest.index
<1>1. /\ frame # NoFrame /\ c \in Conns /\ frame.at \in Nat
      /\ StartsRequest(frame.at, c)
      /\ client' \in Clients /\ client'.conn = c /\ client.conn = c
      /\ ClientInv'
      /\ i \in 1 .. MaxSent
      /\ Position(client') = Length[c] * i
  BY HandledRequest
<1>2. /\ received' = [received EXCEPT ![c] = i]
      /\ UNCHANGED <<world, radio, serverSock, serverClient, clientConnected, reply>>
      /\ pc' = "wifi" /\ msgState = "RECEIVING_TRANSMISSION"
      /\ \/ op' = "write" /\ UNCHANGED framing
         \/ op' = "read" /\ reset_transmission_state
  BY DEF HandleRequest
<1>3. /\ received' \in [Conns -> 0 .. MaxSent] /\ received'[c] = i
      /\ \A d \in Conns : d # c => received'[d] = received[d]
  <2> HIDE DEF i
  <2>1. QED
    BY <1>1, <1>2 DEF Types
<1>4. ProgressInv'
  <2>1. Length[c] * received'[c] <= Position(client')
    <3>1. Length[c] \in Nat
      BY <1>1, LengthIsPositive
    <3> HIDE DEF i
    <3>2. Length[c] * i \in Nat
      BY <1>1, <3>1
    <3>3. QED
      BY <1>1, <1>3, <3>2
  <2>2. peer[c] \in Live
    BY <1>1, LinkAssumption DEF ClientInv
  <2>3. \A d \in Conns : peer'[d] \notin Live => received'[d] = 0
    BY <1>1, <1>2, <1>3, <2>2 DEF ProgressInv, world
  <2>4. QED
    BY <1>1, <2>1, <2>3 DEF ProgressInv, Position, bufferCount
<1>5. CASE op' = "write" /\ UNCHANGED framing
  <2>1. Types'
    BY <1>1, <1>2, <1>3, <1>5 DEF Types, world, radio, framing
  <2>2. frame' = frame /\ transmissionLength' = transmissionLength /\ msgState' = msgState
    BY <1>5 DEF framing
  <2>3. CurrentRequest' = CurrentRequest
    BY <2>2 DEF CurrentRequest
  <2>4. FrameInv'
    BY <1>1, <1>3, <1>5, <2>2, <2>3 DEF FrameInv, StartsRequest
  <2>5. QED
    BY <1>1, <1>4, <2>1, <2>4
<1>6. CASE op' = "read" /\ reset_transmission_state
  <2>1. FrameInv'
    BY <1>6, NoFrameIsFine
  <2>2. transmissionLength' \in 0 .. MaxLength - 1 /\ frame' = NoFrame
        /\ msgState' = "NEED_TRANSMISSION_LENGTH"
    BY <1>6, LinkAssumption DEF reset_transmission_state
  <2>3. Types'
    BY <1>1, <1>2, <1>3, <1>6, <2>2 DEF Types, world, radio
  <2>4. QED
    BY <1>1, <1>4, <2>1, <2>3
<1>7. QED
  BY <1>2, <1>5, <1>6

\* What is answered is a request: the one handled last.
LEMMA PendingRequest ==
  ASSUME IInv, op = "write"
  PROVE  /\ frame # NoFrame /\ frame.conn \in Conns /\ frame.conn = client.conn
         /\ CurrentRequest.conn = frame.conn
         /\ CurrentRequest.index = received[frame.conn]
         /\ CurrentRequest \in Request
<1> USE DEF IInv
<1>1. /\ frame # NoFrame /\ frame.conn = client.conn
      /\ received[frame.conn] = CurrentRequest.index
  BY DEF FrameInv
<1>2. frame.conn \in Conns /\ frame.at \in Nat
  BY <1>1, FrameIsRecord DEF Types
<1>3. frame.at \div Length[frame.conn] \in Nat
  BY <1>2, LengthIsPositive, DivMod
<1>4. /\ CurrentRequest.conn = frame.conn
      /\ CurrentRequest.index = frame.at \div Length[frame.conn] + 1
  BY DEF CurrentRequest
<1>5. CurrentRequest.index \in 1 .. MaxSent
  <2>1. received[frame.conn] \in 0 .. MaxSent
    BY <1>2 DEF Types
  <2>2. QED
    BY <1>1, <1>3, <1>4, <2>1, LinkAssumption
<1>6. CurrentRequest = [conn |-> frame.conn, index |-> CurrentRequest.index]
  BY DEF CurrentRequest
<1>7. CurrentRequest \in Request
  BY <1>2, <1>5, <1>6 DEF Request
<1>8. QED
  BY <1>1, <1>2, <1>4, <1>7

LEMMA WriteAnswerKeeps ==
  ASSUME IInv, WriteAnswer
  PROVE  IInv'
<1> USE DEF IInv
<1>1. /\ op = "write" /\ pc' = "wifi" /\ op' = "read" /\ reset_transmission_state
      /\ UNCHANGED <<world, radio, sockets, received>>
      /\ UNCHANGED reply \/ reply' = [reply EXCEPT ![serverClient] = CurrentRequest]
  BY DEF WriteAnswer
<1>2. CurrentRequest \in Request
  BY <1>1, PendingRequest
<1>3. reply' \in [Conns -> Request \cup {NoRequest}]
  BY <1>1, <1>2 DEF Types
<1>4. FrameInv'
  BY <1>1, NoFrameIsFine
<1>5. transmissionLength' \in 0 .. MaxLength - 1 /\ frame' = NoFrame
      /\ msgState' = "NEED_TRANSMISSION_LENGTH"
  BY <1>1, LinkAssumption DEF reset_transmission_state
<1>6. Types'
  BY <1>1, <1>3, <1>5 DEF Types, world, radio, sockets
<1>7. ClientInv'
  BY <1>1 DEF ClientInv, Sound, world, sockets
<1>8. ProgressInv'
  BY <1>1 DEF ProgressInv, Position, bufferCount, world, sockets
<1>9. QED
  BY <1>4, <1>6, <1>7, <1>8

---------------------------------------------------------------------------
(* The theorems.                                                           *)

LEMMA StepIInv == IInv /\ [Next]_vars => IInv'
<1> SUFFICES ASSUME IInv, [Next]_vars PROVE IInv'
  OBVIOUS
<1>1. CASE WiFiChanges
  BY <1>1, RadioKeeps DEF WiFiChanges, IInv, Types
<1>2. ASSUME NEW c \in Conns, Connect(c) \/ Arrive(c) \/ Leave(c) PROVE IInv'
  BY <1>2, ConnectKeeps, ArriveKeeps, LeaveKeeps
<1>3. CASE CheckWiFi
  BY <1>3, RadioKeeps DEF CheckWiFi, IInv, Types, radio
<1>4. CASE Reconnect
  BY <1>4, ReconnectKeeps
<1>5. CASE KeepClient
  BY <1>5, KeepClientKeeps
<1>6. CASE SeekClient
  BY <1>6, SeekClientKeeps
<1>7. CASE ReadLength
  BY <1>7, ReadLengthKeeps
<1>8. CASE HandleRequest
  BY <1>8, HandleRequestKeeps
<1>9. CASE DropRequest
  BY <1>9, DropRequestKeeps
<1>10. CASE WriteAnswer
  BY <1>10, WriteAnswerKeeps
<1>11. CASE GetStuck
  BY <1>11, RadioKeeps DEF GetStuck, IInv, Types, radio
<1>12. CASE Restart
  BY <1>12, RestartKeeps
<1>13. CASE UNCHANGED vars
  BY <1>13, RadioKeeps DEF vars, IInv, Types, radio
<1>14. QED
  BY <1>1, <1>2, <1>3, <1>4, <1>5, <1>6, <1>7, <1>8, <1>9, <1>10, <1>11, <1>12, <1>13
     DEF Next, Environment, Channel, Server

LEMMA AlwaysIInv == Spec => []IInv
BY InitIInv, StepIInv, PTL DEF Spec

\* The buffer and the count of what was fetched agree, a header is that of a
\* request that may follow, and no more is handled or answered than was sent.
THEOREM TypeCorrect == Spec => []TypeOK
<1>1. IInv => TypeOK
  <2> SUFFICES ASSUME IInv PROVE TypeOK
    OBVIOUS
  <2> USE DEF IInv, Types, ClientInv, Sound, Clients
  <2>1. client.offset \in 0 .. client.total /\ client.total \in 0 .. BufSize
        /\ client.taken >= client.total /\ client.open \in BOOLEAN
        /\ client.conn \in Conns \cup {NoSock}
    BY LinkAssumption
  <2>2. \A c \in Conns : arrived[c] \in 0 .. MaxSent * Length[c]
    <3>1. ASSUME NEW c \in Conns PROVE arrived[c] \in 0 .. MaxSent * Length[c]
      <4>1. Length[c] \in Nat /\ MaxSent \in Nat
        BY LengthIsPositive, LinkAssumption
      <4>2. MaxSent * Length[c] \in Nat
        BY <4>1
      <4>3. QED
        BY <4>2
    <3>2. QED
      BY <3>1
  <2>3. QED
    BY <2>1, <2>2 DEF TypeOK
<1>2. QED
  BY <1>1, AlwaysIInv, PTL

---------------------------------------------------------------------------
(* The refinement: a request is sent when its last byte arrives, and it is *)
(* pending while its answer has not been written.                          *)

SentBar == [c \in Conns |-> arrived[c] \div Length[c]]
PendingBar == IF op = "write" THEN CurrentRequest ELSE NoRequest

LEMMA BarVars ==
  /\ Abstract!vars = <<SentBar, received, PendingBar, reply>>
  /\ Abstract!vars' = <<SentBar', received', PendingBar', reply'>>
BY DEF Abstract!vars, SentBar, PendingBar

LEMMA InitRefines == Init => Abstract!Init
<1> SUFFICES ASSUME Init PROVE Abstract!Init
  OBVIOUS
<1>1. ASSUME NEW c \in Conns PROVE arrived[c] \div Length[c] = 0
  <2>1. arrived[c] = 0 /\ Length[c] \in Nat \ {0}
    BY LengthIsPositive DEF Init
  <2>2. QED
    BY <2>1
<1>2. [c \in Conns |-> arrived[c] \div Length[c]] = [c \in Conns |-> 0]
  BY <1>1
<1>3. QED
  BY <1>2 DEF Init, Abstract!Init, Abstract!NoRequest, NoRequest

LEMMA ArriveRefines ==
  ASSUME IInv, NEW c \in Conns, Arrive(c)
  PROVE  [Abstract!Next]_(Abstract!vars)
<1> USE DEF IInv
<1>1. UNCHANGED <<received, reply, op, frame>>
  BY DEF Arrive, program, framing, history
<1>2. PendingBar' = PendingBar
  BY <1>1 DEF PendingBar, CurrentRequest
<1>3. PICK n \in 1 .. MaxSent * Length[c] - arrived[c] : arrived' = [arrived EXCEPT ![c] = @ + n]
  BY DEF Arrive
<1>4. /\ arrived[c] \in Nat /\ Length[c] \in Nat \ {0} /\ MaxSent \in Nat
      /\ MaxSent * Length[c] = Length[c] * MaxSent /\ Length[c] * MaxSent \in Nat
  BY LengthIsPositive, LinkAssumption DEF Types
<1>5. /\ arrived'[c] \in Nat /\ arrived[c] <= arrived'[c] /\ arrived'[c] <= Length[c] * MaxSent
      /\ \A d \in Conns : d # c => arrived'[d] = arrived[d]
  BY <1>3, <1>4 DEF Types
<1> DEFINE before == arrived[c] \div Length[c]
           after == arrived'[c] \div Length[c]
<1>6. before \in Nat /\ after \in Nat /\ before <= after
  BY <1>4, <1>5, DivMonotone, DivMod
<1>7. after <= MaxSent
  BY <1>4, <1>5, DivAtMost
<1>8. SentBar' = [SentBar EXCEPT ![c] = after] /\ SentBar[c] = before
  BY <1>5 DEF SentBar
<1> HIDE DEF before, after
<1>9. CASE before = after
  <2>1. SentBar' = SentBar
    BY <1>8, <1>9 DEF SentBar
  <2>2. QED
    BY <1>1, <1>2, <2>1, BarVars
<1>10. CASE before # after
  <2>1. after \in SentBar[c] + 1 .. MaxSent
    BY <1>4, <1>6, <1>7, <1>8, <1>10
  <2>2. Abstract!Send(c)
    BY <1>1, <1>2, <1>8, <2>1 DEF Abstract!Send, SentBar, PendingBar
  <2>3. QED
    BY <2>2 DEF Abstract!Next
<1>11. QED
  BY <1>9, <1>10

LEMMA HandleRefines ==
  ASSUME IInv, HandleRequest
  PROVE  Abstract!Next
<1> USE DEF IInv
<1> DEFINE c == frame.conn
           i == CurrentRequest.index
<1>1. /\ c \in Conns /\ i \in 1 .. MaxSent /\ received[c] < i
      /\ Length[c] * i <= arrived[c]
  BY HandledRequest
<1>2. /\ op = "read" /\ received' = [received EXCEPT ![c] = i]
      /\ UNCHANGED <<arrived, reply>>
      /\ (op' = "write" /\ frame' = frame) \/ op' = "read"
  BY DEF HandleRequest, world, framing
<1>3. SentBar' = SentBar /\ SentBar[c] = arrived[c] \div Length[c]
  BY <1>1, <1>2 DEF SentBar
<1>4. i <= SentBar[c] /\ SentBar[c] \in Nat
  <2> HIDE DEF c, i
  <2>1. arrived[c] \in Nat /\ Length[c] \in Nat \ {0} /\ i \in Int
    BY <1>1, LengthIsPositive DEF Types
  <2>2. QED
    BY <1>1, <1>3, <2>1, DivAtLeast, DivMod
<1>5. PendingBar = NoRequest
  BY <1>2 DEF PendingBar
<1>6. PendingBar' \in {NoRequest, [conn |-> c, index |-> i]}
  BY <1>2 DEF PendingBar, CurrentRequest
<1> HIDE DEF c, i
<1>7. i \in received[c] + 1 .. SentBar[c]
  BY <1>1, <1>4 DEF Types
<1>8. Abstract!Handle(c)
  BY <1>2, <1>3, <1>5, <1>6, <1>7
     DEF Abstract!Handle, Abstract!NoRequest, NoRequest, SentBar, PendingBar
<1>9. QED
  BY <1>1, <1>8 DEF Abstract!Next

LEMMA AnswerRefines ==
  ASSUME IInv, WriteAnswer
  PROVE  Abstract!Next
<1> USE DEF IInv
<1>1. /\ op = "write" /\ op' = "read" /\ UNCHANGED <<arrived, received>>
      /\ \/ UNCHANGED reply
         \/ /\ serverClient # NoSock
            /\ reply' = [reply EXCEPT ![serverClient] = CurrentRequest]
  BY DEF WriteAnswer, world, status
<1>2. SentBar' = SentBar
  BY <1>1 DEF SentBar
<1>3. PendingBar = CurrentRequest /\ PendingBar' = NoRequest
  BY <1>1 DEF PendingBar
<1>4. PendingBar # NoRequest /\ PendingBar.conn = serverClient
  BY <1>1, <1>3, PendingRequest, NoFrameIsNone DEF CurrentRequest, ClientInv
<1>5. CASE UNCHANGED reply
  <2>1. Abstract!LoseAnswer
    BY <1>1, <1>2, <1>3, <1>4, <1>5
       DEF Abstract!LoseAnswer, Abstract!NoRequest, NoRequest, SentBar, PendingBar
  <2>2. QED
    BY <2>1 DEF Abstract!Next
<1>6. CASE reply' = [reply EXCEPT ![serverClient] = CurrentRequest]
  <2>1. Abstract!Answer
    BY <1>1, <1>2, <1>3, <1>4, <1>6
       DEF Abstract!Answer, Abstract!NoRequest, NoRequest, SentBar, PendingBar
  <2>2. QED
    BY <2>1 DEF Abstract!Next
<1>7. QED
  BY <1>1, <1>5, <1>6

\* When the client is gone, so is the answer to it.
LEMMA LossRefines ==
  ASSUME UNCHANGED <<arrived, received, reply>>, op' = "read", op \in {"read", "write"}
  PROVE  [Abstract!Next]_(Abstract!vars)
<1>1. SentBar' = SentBar /\ PendingBar' = NoRequest
  BY DEF SentBar, PendingBar
<1>2. CASE op = "read"
  BY <1>1, <1>2, BarVars DEF PendingBar
<1>3. CASE op = "write"
  <2>1. PendingBar # NoRequest
    BY <1>3, NoFrameIsNone DEF PendingBar, CurrentRequest
  <2>2. Abstract!LoseAnswer
    BY <1>1, <2>1 DEF Abstract!LoseAnswer, Abstract!NoRequest, NoRequest, SentBar, PendingBar
  <2>3. QED
    BY <2>2 DEF Abstract!Next
<1>4. QED
  BY <1>2, <1>3

LEMMA StutterRefines ==
  ASSUME UNCHANGED <<arrived, received, reply, op, frame>>
  PROVE  UNCHANGED Abstract!vars
<1>1. SentBar' = SentBar /\ PendingBar' = PendingBar
  BY DEF SentBar, PendingBar, CurrentRequest
<1>2. QED
  BY <1>1, BarVars

LEMMA StepRefines == IInv /\ [Next]_vars => [Abstract!Next]_(Abstract!vars)
<1> SUFFICES ASSUME IInv, [Next]_vars PROVE [Abstract!Next]_(Abstract!vars)
  OBVIOUS
<1>1. CASE WiFiChanges
  BY <1>1, StutterRefines DEF WiFiChanges, world, framing, history
<1>2. ASSUME NEW c \in Conns, Connect(c) \/ Leave(c) PROVE [Abstract!Next]_(Abstract!vars)
  BY <1>2, StutterRefines DEF Connect, Leave, program, framing, history
<1>3. ASSUME NEW c \in Conns, Arrive(c) PROVE [Abstract!Next]_(Abstract!vars)
  BY <1>3, ArriveRefines
<1>4. CASE CheckWiFi \/ KeepClient \/ GetStuck
  BY <1>4, StutterRefines DEF CheckWiFi, KeepClient, GetStuck, world, framing, history
<1>5. CASE Reconnect \/ SeekClient \/ Restart
  <2>1. UNCHANGED <<arrived, received, reply>> /\ op' = "read" /\ op \in {"read", "write"}
    BY <1>5 DEF Reconnect, SeekClient, Restart, ReturnNothing, history, IInv, Types
  <2>2. QED
    BY <2>1, LossRefines
<1>6. CASE ReadLength \/ DropRequest
  <2>1. UNCHANGED <<arrived, received, reply>> /\ op' = "read" /\ op \in {"read", "write"}
    BY <1>6 DEF ReadLength, DropRequest, world, history
  <2>2. QED
    BY <2>1, LossRefines
<1>7. CASE HandleRequest
  BY <1>7, HandleRefines
<1>8. CASE WriteAnswer
  BY <1>8, AnswerRefines
<1>9. CASE UNCHANGED vars
  BY <1>9, StutterRefines DEF vars, world, framing, history
<1>10. QED
  BY <1>1, <1>2, <1>3, <1>4, <1>5, <1>6, <1>7, <1>8, <1>9
     DEF Next, Environment, Channel, Server

\* Requests are handled whole, in order and at most once, and no answer
\* reaches another client than the one that asked: each step of the framing,
\* the buffer and the reconnecting is one of MessageChannel, or none.
THEOREM Implementation == Spec => DeliversMessages
BY InitRefines, StepRefines, AlwaysIInv, PTL DEF Spec, DeliversMessages, Abstract!Spec
=============================================================================
