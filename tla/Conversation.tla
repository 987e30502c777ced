---------------------------- MODULE Conversation ----------------------------
(***************************************************************************)
(* The conversations of SecureChannelServer (SparkSecureChannelServer.h):  *)
(* a client asks for a challenge, derives the conversation token from it   *)
(* and prepends the token to its commands; the server executes a command   *)
(* only under the current token and only while conversationTimer runs.     *)
(*                                                                         *)
(* Transmissions are whole messages here (SecureLink models how they are   *)
(* cut out of a byte stream).  loop() is three steps because it looks at   *)
(* the clock twice and blocks in between: in the channel's read(), which   *)
(* may re-initialise WiFi, and in the consumer, which may wait for the     *)
(* door's relay.                                                           *)
(***************************************************************************)
EXTENDS Timer, FiniteSets

CONSTANTS
  Clients,
  Duration,     \* conversationDuration, in ticks (5000 ms)
  MaxGap,       \* longest time between two calls of loop(), in ticks
  MaxNonce,     \* bound: challenges issued
  MaxInFlight   \* bound: transmissions under way to the server

ASSUME ConversationAssumption ==
  /\ Duration \in 0 .. HalfRange - 1
  /\ MaxGap \in 0 .. HalfRange - 1
  /\ MaxNonce \in Nat /\ MaxInFlight \in Nat

NoToken == 0                  \* the zeroed token
Tokens == NoToken .. MaxNonce \* HMAC(challenge n) is n: distinct nonces, distinct tokens

\* UNKNOWN_COMMAND is one the consumer answers with an empty string.
Transmissions ==
  [kind : {"NEED_CHALLENGE", "COMMAND", "UNKNOWN_COMMAND"}, from : Clients, token : Tokens]
Responses == [body : {"CHALLENGE", "STATUS", "SESSION_EXPIRED"}, to : Clients]
NoResponse == [body |-> "NONE"]

VARIABLES
  clock,                   \* millis()
  conversationTimer,
  conversationToken,
  conversationTokenValid,
  pc,                      \* where loop() is: "top" | "read" | "write"
  send_buffer,             \* the response to be written
  inFlight,                \* transmissions sent and neither read nor lost
  known,                   \* the token each client has derived last
  nonce,                   \* the last challenge issued
  served,                  \* history: the token under which a command was executed last
  age,                     \* ticks since the last challenge, counted up to Wrap
  gap                      \* ticks since loop() was last entered

server == <<conversationTimer, conversationToken, conversationTokenValid, pc, send_buffer>>
vars == <<clock, conversationTimer, conversationToken, conversationTokenValid, pc,
          send_buffer, inFlight, known, nonce, served, age, gap>>

TypeOK ==
  /\ clock \in Time
  /\ conversationTimer \in TimerRecord
  /\ conversationToken \in Tokens
  /\ conversationTokenValid \in BOOLEAN
  /\ pc \in {"top", "read", "write"}
  /\ send_buffer \in Responses \cup {NoResponse}
  /\ inFlight \in SUBSET Transmissions
  /\ known \in [Clients -> Tokens]
  /\ nonce \in Tokens /\ served \in Tokens
  /\ age \in 0 .. Wrap
  /\ gap \in 0 .. MaxGap

PoweredUp ==
  /\ clock' = 0
  /\ conversationTimer' = NewTimer
  /\ conversationToken' = NoToken /\ conversationTokenValid' = FALSE
  /\ pc' = "top" /\ send_buffer' = NoResponse
  /\ age' = Wrap /\ gap' = 0

Init ==
  /\ clock = 0
  /\ conversationTimer = NewTimer
  /\ conversationToken = NoToken /\ conversationTokenValid = FALSE
  /\ pc = "top" /\ send_buffer = NoResponse
  /\ inFlight = {} /\ known = [c \in Clients |-> NoToken]
  /\ nonce = 0 /\ served = NoToken /\ age = Wrap /\ gap = 0

-----------------------------------------------------------------------------
(* Time, the clients and the network.                                      *)

Tick ==
  /\ gap < MaxGap
  /\ clock' = Later(clock, 1)
  /\ gap' = gap + 1
  /\ age' = IF age < Wrap THEN age + 1 ELSE age
  /\ UNCHANGED <<server, inFlight, known, nonce, served>>

Send(m) ==
  /\ m \notin inFlight /\ Cardinality(inFlight) < MaxInFlight
  /\ inFlight' = inFlight \cup {m}
  /\ UNCHANGED <<server, clock, known, nonce, served, age, gap>>

AskForChallenge(c) ==
  Send([kind |-> "NEED_CHALLENGE", from |-> c, token |-> NoToken])

\* A client may send a command again, for a lost answer or a second errand.
SendCommand(c) ==
  /\ known[c] # NoToken
  /\ \E k \in {"COMMAND", "UNKNOWN_COMMAND"} :
        Send([kind |-> k, from |-> c, token |-> known[c]])

Lose ==
  /\ \E m \in inFlight : inFlight' = inFlight \ {m}
  /\ UNCHANGED <<server, clock, known, nonce, served, age, gap>>

-----------------------------------------------------------------------------
(* The server.                                                             *)

\* invalidateConversationTokenIfExpired, the first thing loop() does.
Expired == IsRunning(conversationTimer) /\ IsElapsed(conversationTimer, clock)

EnterLoop ==
  /\ pc = "top"
  /\ conversationTimer' = IF IsRunning(conversationTimer)
                            THEN Polled(conversationTimer, clock) ELSE conversationTimer
  /\ conversationToken' = IF Expired THEN NoToken ELSE conversationToken
  /\ conversationTokenValid' = (conversationTokenValid /\ ~Expired)
  /\ pc' = "read" /\ gap' = 0
  /\ UNCHANGED <<send_buffer, clock, inFlight, known, nonce, served, age>>

\* The channel had no transmission, or one whose HMAC is wrong.
ReadNothing ==
  /\ pc = "read"
  /\ pc' = "top"
  /\ UNCHANGED <<conversationTimer, conversationToken, conversationTokenValid,
                 send_buffer, clock, inFlight, known, nonce, served, age, gap>>

\* isConversationValid: the answer ...
isConversationValid_NoPoll(token) ==
  conversationTokenValid /\ IsRunning(conversationTimer) /\ token = conversationToken
isConversationValid(token) ==
  /\ conversationTokenValid
  /\ IsRunning(conversationTimer)
  /\ ~IsElapsed(conversationTimer, clock)
  /\ token = conversationToken

\* ... and the poll that it makes before it compares the tokens.
PollConversation ==
  conversationTimer' = IF conversationTokenValid
                         THEN Polled(conversationTimer, clock) ELSE conversationTimer

\* A response is written in the step after; an empty one is not written.
Answer(r) ==
  /\ send_buffer' = r
  /\ pc' = IF r = NoResponse THEN "top" ELSE "write"

Read(m) ==
  /\ pc = "read"
  /\ m \in inFlight
  /\ inFlight' = inFlight \ {m}
  /\ UNCHANGED <<clock, known, gap>>

\* Any conversation under way is replaced.
IssueChallenge_KeepsTimer(m) ==
  /\ Read(m) /\ m.kind = "NEED_CHALLENGE" /\ nonce < MaxNonce
  /\ nonce' = nonce + 1 /\ age' = 0
  /\ conversationToken' = nonce + 1 /\ conversationTokenValid' = TRUE
  /\ conversationTimer' = IF IsRunning(conversationTimer)
                            THEN conversationTimer ELSE Started(clock, Duration)
  /\ Answer([body |-> "CHALLENGE", to |-> m.from])
  /\ UNCHANGED served
IssueChallenge(m) ==
  /\ Read(m) /\ m.kind = "NEED_CHALLENGE"
  /\ nonce < MaxNonce
  /\ nonce' = nonce + 1 /\ age' = 0
  /\ conversationToken' = nonce + 1 /\ conversationTokenValid' = TRUE
  /\ conversationTimer' = Started(clock, Duration)
  /\ Answer([body |-> "CHALLENGE", to |-> m.from])
  /\ UNCHANGED served

ExecuteCommand(m) ==
  /\ Read(m) /\ m.kind # "NEED_CHALLENGE"
  /\ isConversationValid(m.token)
  /\ PollConversation
  /\ Answer(IF m.kind = "COMMAND" THEN [body |-> "STATUS", to |-> m.from] ELSE NoResponse)
  /\ served' = m.token
  /\ UNCHANGED <<conversationToken, conversationTokenValid, nonce, age>>

RefuseCommand(m) ==
  /\ Read(m) /\ m.kind # "NEED_CHALLENGE"
  /\ ~isConversationValid(m.token)
  /\ PollConversation
  /\ Answer([body |-> "SESSION_EXPIRED", to |-> m.from])
  /\ UNCHANGED <<conversationToken, conversationTokenValid, nonce, served, age>>

\* The response may be lost; a challenge that arrives gives the client its token.
Write ==
  /\ pc = "write"
  /\ \/ UNCHANGED known
     \/ /\ send_buffer.body = "CHALLENGE"
        /\ known' = [known EXCEPT ![send_buffer.to] = conversationToken]
  /\ send_buffer' = NoResponse /\ pc' = "top"
  /\ UNCHANGED <<conversationTimer, conversationToken, conversationTokenValid,
                 clock, inFlight, nonce, served, age, gap>>

\* A power cut: the clients and the network do not notice.
Reboot == PoweredUp /\ UNCHANGED <<inFlight, known, nonce, served>>

Process(m) == IssueChallenge(m) \/ ExecuteCommand(m) \/ RefuseCommand(m)
Loop == EnterLoop \/ ReadNothing \/ (\E m \in inFlight : Process(m)) \/ Write

Next ==
  \/ Tick \/ Lose \/ Loop \/ Reboot
  \/ \E c \in Clients : AskForChallenge(c) \/ SendCommand(c)

\* The main loop calls loop() for ever and time passes; clients owe nothing.
Fairness == WF_vars(Tick) /\ WF_vars(Loop)

Spec == Init /\ [][Next]_vars /\ Fairness

-----------------------------------------------------------------------------
(* Properties.                                                             *)

Fresh(m) == m.token = nonce /\ age < Duration

(* A command is executed only under the challenge issued last and only     *)
(* within conversationDuration of it, in true time: however late a         *)
(* transmission arrives, whatever the counter does and whichever of the    *)
(* two polls of the timer sees the end first (lines 302-320, 366-371).     *)
OnlyFreshCommands ==
  [][\A m \in inFlight : ExecuteCommand(m) => Fresh(m)]_vars

(* The converse: a client that is within its conversation is never told    *)
(* SESSION_EXPIRED, so neither poll ends a conversation early.  The token  *)
(* stays valid when a command was executed under it (lines 366-376), which *)
(* is what the header says of it (lines 144-154); the README says          *)
(* otherwise, see OneCommandPerConversation.                               *)
FreshCommandsAreServed ==
  [][\A m \in inFlight : RefuseCommand(m) => ~Fresh(m)]_vars

(* "If so, execute command, invalidate conversationToken and               *)
(* SparkResponse" (README.md:58): a conversation is good for one command,  *)
(* however often it is sent or arrives.  The code leaves the token valid   *)
(* until its timer runs out, and executes the second command too.          *)
OneCommandPerConversation ==
  [][\A m \in inFlight : ExecuteCommand(m) => served # m.token]_vars

(* A conversation ends by itself: nobody has to talk to the server for the *)
(* token to stop being honoured.                                           *)
ConversationEnds ==
  \A n \in 1 .. MaxNonce :
    (nonce = n /\ IsRunning(conversationTimer))
      ~> (nonce # n \/ ~IsRunning(conversationTimer))
=============================================================================
