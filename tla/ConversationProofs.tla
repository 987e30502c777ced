------------------------- MODULE ConversationProofs -------------------------
(***************************************************************************)
(* A command is executed exactly when it is fresh, for every counter       *)
(* range, conversation length, set of clients and bound on the loop's      *)
(* pauses that stays below half the counter range.                         *)
(***************************************************************************)
EXTENDS Conversation, TimerProofs

\* The running timer knows the age of the last challenge, and the loop has
\* polled it often enough for the age not to escape the timer's horizon.
TimerInv ==
  IsRunning(conversationTimer) =>
    /\ age <= Duration + gap
    /\ TracksAge(conversationTimer, clock, age, Duration)

\* A valid token is the one of the last challenge.
TokenInv == conversationTokenValid => conversationToken = nonce

\* Nothing but its expiry ends a conversation.
OpenInv ==
  age < Duration => conversationTokenValid /\ IsRunning(conversationTimer)

IInv == TypeOK /\ TimerInv /\ TokenInv /\ OpenInv

-----------------------------------------------------------------------------
LEMMA Arithmetic ==
  /\ HalfRange \in Nat /\ Wrap \in Nat /\ Wrap > 1 /\ Wrap = HalfRange + HalfRange
  /\ Duration \in Nat /\ Duration < HalfRange /\ Duration \in 0 .. HalfRange - 1
  /\ MaxGap \in Nat /\ MaxGap < HalfRange
  /\ MaxNonce \in Nat
  /\ 0 \in Time /\ 1 \in Time /\ NoToken \in Tokens /\ 0 \in Tokens
BY HalfRangeAssumption, ConversationAssumption DEF Wrap, Time, Tokens, NoToken

LEMMA NewTimerType == NewTimer \in TimerRecord /\ ~IsRunning(NewTimer)
BY Arithmetic DEF NewTimer, TimerRecord, IsRunning

LEMMA InitIInv == Init => IInv
<1> SUFFICES ASSUME Init PROVE IInv
  OBVIOUS
<1>1. TypeOK
  <2>1. conversationTokenValid \in BOOLEAN
    BY Zenon DEF Init
  <2>2. inFlight \in SUBSET Transmissions /\ known \in [Clients -> Tokens]
    BY Arithmetic DEF Init
  <2>3. age \in 0 .. Wrap /\ gap \in 0 .. MaxGap
    BY Arithmetic DEF Init
  <2>4. clock \in Time /\ conversationToken \in Tokens /\ nonce \in Tokens
        /\ served \in Tokens
    BY Arithmetic DEF Init
  <2>5. /\ conversationTimer \in TimerRecord
        /\ pc \in {"top", "read", "write"}
        /\ send_buffer \in Responses \cup {NoResponse}
    BY NewTimerType DEF Init
  <2>6. QED
    BY <2>1, <2>2, <2>3, <2>4, <2>5 DEF TypeOK
<1>2. TimerInv /\ TokenInv /\ OpenInv
  BY Arithmetic, NewTimerType DEF Init, TimerInv, TokenInv, OpenInv
<1>3. QED
  BY <1>1, <1>2 DEF IInv

\* The timer's answer is the true one whenever it runs.
LEMMA PollIsTrue ==
  ASSUME IInv, IsRunning(conversationTimer)
  PROVE  IsElapsed(conversationTimer, clock) <=> age >= Duration
<1>1. /\ conversationTimer \in TimerRecord /\ clock \in Time /\ age \in Nat
      /\ gap \in 0 .. MaxGap
  BY Arithmetic DEF IInv, TypeOK
<1>2. age < Duration + HalfRange /\ TracksAge(conversationTimer, clock, age, Duration)
  BY <1>1, Arithmetic DEF IInv, TimerInv
<1>3. QED
  BY <1>1, <1>2, ElapsedIsAccurate, Arithmetic

\* What a poll does to the timer; only an expired one is switched off.
LEMMA PollEffect ==
  ASSUME IInv
  PROVE  LET t == Polled(conversationTimer, clock) IN
         /\ t \in TimerRecord
         /\ IsRunning(t) => t = conversationTimer /\ age < Duration
         /\ age < Duration => t = conversationTimer
<1>1. conversationTimer \in TimerRecord /\ age \in Int /\ Duration \in Int
  BY Arithmetic DEF IInv, TypeOK
<1>2. CASE IsRunning(conversationTimer)
  BY <1>1, <1>2, PollIsTrue, PolledTimer
<1>3. CASE ~IsRunning(conversationTimer)
  BY <1>1, <1>3, PolledTimer DEF IInv, OpenInv
<1>4. QED
  BY <1>2, <1>3

LEMMA TickIInv == IInv /\ Tick => IInv'
<1> SUFFICES ASSUME IInv, Tick PROVE IInv'
  OBVIOUS
<1> USE Arithmetic
<1>1. /\ conversationTimer' = conversationTimer /\ conversationToken' = conversationToken
      /\ conversationTokenValid' = conversationTokenValid /\ pc' = pc
      /\ send_buffer' = send_buffer /\ UNCHANGED <<inFlight, known, nonce, served>>
      /\ gap' = gap + 1 /\ gap < MaxGap /\ clock' = Later(clock, 1)
  BY DEF Tick, server
<1>2. clock' \in Time /\ age' \in 0 .. Wrap /\ gap' \in 0 .. MaxGap
  BY <1>1, LaterType DEF Tick, IInv, TypeOK
<1>3. TypeOK'
  BY <1>1, <1>2 DEF IInv, TypeOK
<1>4. TimerInv'
  <2> SUFFICES ASSUME IsRunning(conversationTimer)
               PROVE  /\ age' <= Duration + gap'
                      /\ TracksAge(conversationTimer, clock', age', Duration)
    BY <1>1 DEF TimerInv
  <2>1. age \in 0 .. Wrap - 1 /\ age <= Duration + gap
    BY <1>1 DEF IInv, TypeOK, TimerInv
  <2>2. age' = age + 1
    BY <2>1 DEF Tick
  <2>3. conversationTimer \in TimerRecord /\ clock \in Time
        /\ TracksAge(conversationTimer, clock, age, Duration)
    BY DEF IInv, TypeOK, TimerInv
  <2>4. TracksAge(conversationTimer, Later(clock, 1), age + 1, Duration)
    BY <2>1, <2>3, TickTracksAge
  <2>5. age + 1 <= Duration + (gap + 1)
    BY <2>1 DEF IInv, TypeOK
  <2>6. QED
    BY <1>1, <2>2, <2>4, <2>5
<1>5. TokenInv' /\ OpenInv'
  BY <1>1 DEF Tick, IInv, TypeOK, TokenInv, OpenInv
<1>6. QED
  BY <1>3, <1>4, <1>5 DEF IInv

LEMMA EnterLoopIInv == IInv /\ EnterLoop => IInv'
<1> SUFFICES ASSUME IInv, EnterLoop PROVE IInv'
  OBVIOUS
<1>1. /\ conversationTimer' \in TimerRecord
      /\ IsRunning(conversationTimer')
           => conversationTimer' = conversationTimer /\ age < Duration
      /\ age < Duration => conversationTimer' = conversationTimer /\ ~Expired
  BY PollEffect, PollIsTrue, Arithmetic
  DEF EnterLoop, Expired, IInv, TypeOK, OpenInv
<1>2. conversationTokenValid' \in BOOLEAN /\ conversationToken' \in Tokens
      /\ (conversationTokenValid' => conversationTokenValid /\ ~Expired)
      /\ (~Expired => /\ conversationToken' = conversationToken
                      /\ conversationTokenValid' = conversationTokenValid)
  BY Arithmetic DEF EnterLoop, IInv, TypeOK
<1>3. TypeOK'
  BY <1>1, <1>2, Arithmetic DEF EnterLoop, IInv, TypeOK
<1>4. TimerInv'
  BY <1>1, Arithmetic DEF EnterLoop, IInv, TypeOK, TimerInv
<1>5. TokenInv' /\ OpenInv'
  BY <1>1, <1>2 DEF EnterLoop, IInv, TokenInv, OpenInv
<1>6. QED
  BY <1>3, <1>4, <1>5 DEF IInv

LEMMA IssueChallengeIInv ==
  ASSUME IInv, NEW m \in inFlight, IssueChallenge(m)
  PROVE  IInv'
<1>1. /\ conversationTimer' \in TimerRecord
      /\ TracksAge(conversationTimer', clock, 0, Duration)
      /\ IsRunning(conversationTimer')
  BY StartTracksAge, Arithmetic DEF IssueChallenge, IInv, TypeOK
<1>2. m \in Transmissions /\ m.from \in Clients /\ m.token \in Tokens
  BY DEF IInv, TypeOK, Transmissions
<1>3. send_buffer' \in Responses \cup {NoResponse} /\ pc' \in {"top", "read", "write"}
  BY <1>2 DEF IssueChallenge, Answer, Responses
<1>4. nonce + 1 \in Tokens
  BY Arithmetic DEF IssueChallenge, IInv, TypeOK, Tokens, NoToken
<1>5. TypeOK'
  BY <1>1, <1>3, <1>4, Arithmetic DEF IssueChallenge, Read, IInv, TypeOK
<1>6. TimerInv' /\ TokenInv' /\ OpenInv'
  BY <1>1, Arithmetic
  DEF IssueChallenge, Read, IInv, TypeOK, TimerInv, TokenInv, OpenInv
<1>7. QED
  BY <1>5, <1>6 DEF IInv

LEMMA CommandIInv ==
  ASSUME IInv, NEW m \in inFlight, ExecuteCommand(m) \/ RefuseCommand(m)
  PROVE  IInv'
<1>1. /\ conversationTimer' \in TimerRecord
      /\ IsRunning(conversationTimer') => conversationTimer' = conversationTimer
      /\ age < Duration => conversationTimer' = conversationTimer
  <2>1. PollConversation
    BY DEF ExecuteCommand, RefuseCommand
  <2>2. QED
    BY <2>1, PollEffect DEF PollConversation, IInv, TypeOK
<1>2. m \in Transmissions /\ m.from \in Clients /\ m.token \in Tokens
  BY DEF IInv, TypeOK, Transmissions
<1>3. send_buffer' \in Responses \cup {NoResponse} /\ pc' \in {"top", "read", "write"}
  BY <1>2 DEF ExecuteCommand, RefuseCommand, Answer, Responses
<1>4. UNCHANGED <<conversationToken, conversationTokenValid, nonce, age, clock, known, gap>>
      /\ inFlight' \in SUBSET inFlight /\ served' \in {served, m.token}
  BY DEF ExecuteCommand, RefuseCommand, Read
<1>5. TypeOK'
  BY <1>1, <1>2, <1>3, <1>4 DEF IInv, TypeOK
<1>6. TimerInv' /\ TokenInv' /\ OpenInv'
  BY <1>1, <1>4 DEF IInv, TimerInv, TokenInv, OpenInv
<1>7. QED
  BY <1>5, <1>6 DEF IInv

LEMMA WriteIInv == IInv /\ Write => IInv'
<1> SUFFICES ASSUME IInv, Write PROVE IInv'
  OBVIOUS
<1>1. known' \in [Clients -> Tokens]
  BY DEF Write, IInv, TypeOK
<1>2. QED
  BY <1>1 DEF Write, IInv, TypeOK, TimerInv, TokenInv, OpenInv

LEMMA ClientIInv ==
  ASSUME IInv, NEW c \in Clients, AskForChallenge(c) \/ SendCommand(c)
  PROVE  IInv'
<1>1. PICK m \in Transmissions : Send(m)
  BY Arithmetic DEF AskForChallenge, SendCommand, Transmissions, IInv, TypeOK
<1>2. QED
  BY <1>1 DEF Send, server, IInv, TypeOK, TimerInv, TokenInv, OpenInv

LEMMA OtherIInv == IInv /\ (Lose \/ ReadNothing \/ Reboot \/ UNCHANGED vars) => IInv'
<1>1. IInv /\ (Lose \/ ReadNothing \/ UNCHANGED vars) => IInv'
  BY DEF Lose, ReadNothing, vars, server, IInv, TypeOK, TimerInv, TokenInv, OpenInv
<1>2. IInv /\ Reboot => IInv'
  <2> SUFFICES ASSUME IInv, Reboot PROVE IInv'
    OBVIOUS
  <2>1. TypeOK'
    <3>1. (conversationTokenValid \in BOOLEAN)'
      BY Zenon DEF Reboot, PoweredUp
    <3>2. (inFlight \in SUBSET Transmissions /\ known \in [Clients -> Tokens]
           /\ nonce \in Tokens /\ served \in Tokens)'
      BY DEF Reboot, IInv, TypeOK
    <3>3. (age \in 0 .. Wrap /\ gap \in 0 .. MaxGap)'
      BY Arithmetic DEF Reboot, PoweredUp
    <3>4. (clock \in Time /\ conversationToken \in Tokens)'
      BY Arithmetic DEF Reboot, PoweredUp
    <3>5. (/\ conversationTimer \in TimerRecord
           /\ pc \in {"top", "read", "write"}
           /\ send_buffer \in Responses \cup {NoResponse})'
      BY NewTimerType DEF Reboot, PoweredUp
    <3>6. QED
      BY <3>1, <3>2, <3>3, <3>4, <3>5 DEF TypeOK
  <2>2. TimerInv' /\ TokenInv' /\ OpenInv'
    BY Arithmetic, NewTimerType DEF Reboot, PoweredUp, TimerInv, TokenInv, OpenInv
  <2>3. QED
    BY <2>1, <2>2 DEF IInv
<1>3. QED
  BY <1>1, <1>2

\* The inductive invariant of the conversations.
THEOREM Invariance == Spec => []IInv
<1>1. Init => IInv
  BY InitIInv
<1>2. IInv /\ [Next]_vars => IInv'
  BY TickIInv, EnterLoopIInv, IssueChallengeIInv, CommandIInv, WriteIInv, ClientIInv, OtherIInv
  DEF Next, Loop, Process
<1>3. QED
  BY <1>1, <1>2, PTL DEF Spec

\* Type correctness.
THEOREM TypeCorrect == Spec => []TypeOK
<1>1. IInv => TypeOK
  BY DEF IInv
<1>2. QED
  BY <1>1, Invariance, PTL

\* The server's verdict on a token is right in every reachable state.
LEMMA VerdictIsFresh ==
  ASSUME IInv, NEW m
  PROVE  isConversationValid(m.token) <=> Fresh(m)
<1>1. CASE age < Duration
  BY <1>1, PollIsTrue, Arithmetic
  DEF isConversationValid, Fresh, IInv, TypeOK, OpenInv, TokenInv
<1>2. CASE ~(age < Duration)
  BY <1>2, PollIsTrue, Arithmetic DEF isConversationValid, Fresh, IInv, TypeOK
<1>3. QED
  BY <1>1, <1>2

\* Only fresh commands are executed.
THEOREM Freshness == Spec => OnlyFreshCommands
<1>1. IInv /\ [Next]_vars => [\A m \in inFlight : ExecuteCommand(m) => Fresh(m)]_vars
  BY VerdictIsFresh DEF ExecuteCommand
<1>2. QED
  BY <1>1, Invariance, PTL DEF Spec, OnlyFreshCommands

\* Every fresh command is executed rather than refused.
THEOREM Service == Spec => FreshCommandsAreServed
<1>1. IInv /\ [Next]_vars => [\A m \in inFlight : RefuseCommand(m) => ~Fresh(m)]_vars
  BY VerdictIsFresh DEF RefuseCommand
<1>2. QED
  BY <1>1, Invariance, PTL DEF Spec, FreshCommandsAreServed
=============================================================================
