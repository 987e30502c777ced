---------------------------- MODULE GarageProofs ----------------------------
(***************************************************************************)
(* Safety of the garage controller for every counter range, pulse,         *)
(* estimate and door speed.                                                *)
(***************************************************************************)
EXTENDS Garage, TimerProofs

\* The estimate covers the real door: it arrives before the pulse and the
\* travel timer that follows it are over.
DoorFits == DoorTime <= Pulse + Estimate

\* How far the moving door still has to go.
Remaining == IF motion = "up" THEN DoorTime - position ELSE position

MotionInv ==
  /\ motion = "up" => position < DoorTime
  /\ motion = "down" => position > 0

RelayInv == relay = "HIGH" <=> pc = "pressing"

TimerInv ==
  IsRunning(doorTravelTimer) /\ age < Wrap
    => TracksAge(doorTravelTimer, clock, age, Estimate)

\* A door that a remote press set in motion has been under way at least for
\* the time the relay has been closed, and after that for the whole pulse and
\* the age of the travel timer, which therefore still runs.
TravelInv ==
  RemoteMove =>
    /\ relay = "HIGH" => Remaining <= DoorTime - held
    /\ relay = "LOW"  => /\ IsRunning(doorTravelTimer)
                 /\ Remaining <= DoorTime - Pulse - age

IInv == TypeOK /\ MotionInv /\ RelayInv /\ TimerInv /\ TravelInv

-----------------------------------------------------------------------------
LEMMA Arithmetic ==
  /\ HalfRange \in Nat /\ Wrap \in Nat /\ HalfRange < Wrap /\ Wrap > 1
  /\ Pulse \in Nat /\ Estimate \in Nat /\ DoorTime \in Nat /\ DoorTime > 0
  /\ Estimate < HalfRange /\ Estimate \in 0 .. HalfRange - 1
  /\ 0 \in Time /\ 1 \in Time
BY HalfRangeAssumption, GarageAssumption DEF Wrap, Time

\* While a remote move is under way outside the press, the travel timer has
\* not elapsed.
LEMMA MovingMeansNotElapsed ==
  ASSUME DoorFits, IInv, RemoteMove, relay = "LOW"
  PROVE  ~IsElapsed(doorTravelTimer, clock)
<1>1. /\ position \in 0 .. DoorTime /\ age \in 0 .. Wrap /\ Remaining > 0
      /\ Remaining \in Int /\ Remaining <= DoorTime - Pulse - age
      /\ IsRunning(doorTravelTimer)
  BY Arithmetic DEF IInv, TypeOK, MotionInv, TravelInv, RemoteMove, Remaining
<1>2. age < Estimate
  BY <1>1, Arithmetic DEF DoorFits
<1>3. TracksAge(doorTravelTimer, clock, age, Estimate)
  BY <1>1, <1>2, Arithmetic DEF IInv, TimerInv
<1>4. doorTravelTimer \in TimerRecord /\ clock \in Time /\ age \in Nat
  BY <1>1 DEF IInv, TypeOK
<1>5. QED
  BY <1>1, <1>2, <1>3, <1>4, ElapsedIsAccurate, Arithmetic

LEMMA InitIInv == Init => IInv
BY Arithmetic
DEF Init, IInv, TypeOK, MotionInv, RelayInv, TimerInv, TravelInv, RemoteMove,
    NewTimer, TimerRecord, IsRunning, Commands, Statuses

\* A press of the button, by whomever: the door is still where it was, and
\* only a press by the program can leave a remote move behind.
LEMMA PressKeepsMotion ==
  ASSUME IInv, NEW who \in {"remote", "wall"}, ButtonPressedBy(who)
  PROVE  MotionInv' /\ position' = position /\ mover' = who
         /\ motion' \in {"up", "down", "still"}
BY Arithmetic DEF ButtonPressedBy, AfterPress, CanMove, IInv, TypeOK, MotionInv

LEMMA TickIInv == IInv /\ Tick => IInv'
<1> SUFFICES ASSUME IInv, Tick PROVE IInv'
  OBVIOUS
<1> USE Arithmetic
<1>1. TypeOK /\ MotionInv /\ RelayInv /\ TimerInv /\ TravelInv
  BY DEF IInv
<1>2. doorTravelTimer' = doorTravelTimer /\ relay' = relay /\ pc' = pc
      /\ command' = command /\ response' = response
  BY DEF Tick, program
<1>3. /\ position' \in 0 .. DoorTime /\ motion' \in {"up", "down", "still"}
      /\ MotionInv' /\ mover' = mover
  BY <1>1 DEF Tick, DoorMoves, TypeOK, MotionInv
<1>4. clock' \in Time
  BY <1>1, LaterType DEF Tick, TypeOK
<1>5. held' \in 0 .. Pulse /\ age' \in 0 .. Wrap
  BY <1>1 DEF Tick, TypeOK
<1>6. TypeOK'
  BY <1>1, <1>2, <1>3, <1>4, <1>5 DEF TypeOK
<1>7. RelayInv'
  BY <1>1, <1>2 DEF RelayInv
<1>8. TimerInv'
  <2> SUFFICES ASSUME IsRunning(doorTravelTimer), age' < Wrap
               PROVE  TracksAge(doorTravelTimer, clock', age', Estimate)
    BY <1>2 DEF TimerInv, IsRunning
  <2>1. age \in 0 .. Wrap - 1 /\ age' = age + 1 /\ clock' = Later(clock, 1)
    BY <1>1 DEF Tick, TypeOK
  <2>2. QED
    BY <2>1, <1>1, TickTracksAge DEF TimerInv, TypeOK
<1>9. TravelInv'
  <2> SUFFICES ASSUME RemoteMove' PROVE TravelInv'
    BY DEF TravelInv
  <2>1. RemoteMove /\ Remaining' = Remaining - 1
    BY <1>1, <1>3 DEF Tick, DoorMoves, RemoteMove, Remaining, TypeOK, MotionInv
  <2>2. Remaining \in Int /\ held \in Int /\ age \in Int
    BY <1>1 DEF Remaining, TypeOK
  <2>3. relay' = "HIGH" => Remaining' <= DoorTime - held'
    BY <1>1, <1>2, <2>1, <2>2 DEF TravelInv, Tick
  <2>4. relay' = "LOW" => IsRunning(doorTravelTimer') /\ Remaining' <= DoorTime - Pulse - age'
    BY <1>1, <1>2, <2>1, <2>2 DEF TravelInv, Tick
  <2>5. QED
    BY <2>3, <2>4 DEF TravelInv
<1>10. QED
  BY <1>3, <1>6, <1>7, <1>8, <1>9 DEF IInv

LEMMA WallIInv == IInv /\ PressWallButton => IInv'
<1> SUFFICES ASSUME IInv, PressWallButton PROVE IInv'
  OBVIOUS
<1>1. MotionInv' /\ position' = position /\ mover' = "wall"
      /\ motion' \in {"up", "down", "still"}
  BY PressKeepsMotion DEF PressWallButton
<1>2. QED
  BY <1>1 DEF PressWallButton, program, IInv, TypeOK, RelayInv, TimerInv,
              TravelInv, RemoteMove

\* The program starts a press: the door has at most its whole way to go.
LEMMA StartPressIInv ==
  ASSUME IInv, StartPress, clock' = clock, age' = age, response' = response,
         command' \in Commands, doorTravelTimer' \in TimerRecord,
         IsRunning(doorTravelTimer') => doorTravelTimer' = doorTravelTimer
  PROVE  IInv'
<1>1. /\ MotionInv' /\ position' = position /\ mover' = "remote"
      /\ motion' \in {"up", "down", "still"}
      /\ relay' = "HIGH" /\ held' = 0 /\ pc' = "pressing"
  BY PressKeepsMotion DEF StartPress
<1>2. TypeOK'
  BY <1>1, Arithmetic DEF IInv, TypeOK
<1>3. TravelInv'
  BY <1>1, <1>2, Arithmetic DEF TravelInv, Remaining, TypeOK
<1>4. TimerInv'
  BY DEF IInv, TimerInv
<1>5. QED
  BY <1>1, <1>2, <1>3, <1>4 DEF IInv, RelayInv

\* A step that only reads the status: the timer may be switched off, but not
\* while a remote move is under way.
LEMMA ReadIInv ==
  ASSUME DoorFits, IInv, relay = "LOW", PollTravelTimer, UNCHANGED <<clock, relay, held, age, door>>,
         pc' \in {"idle", "check", "respond"},
         command' \in Commands, response' \in Statuses \cup {"NONE"}
  PROVE  IInv'
<1>1. /\ doorTravelTimer' \in TimerRecord
      /\ ~IsElapsed(doorTravelTimer, clock) => doorTravelTimer' = doorTravelTimer
      /\ IsRunning(doorTravelTimer') => doorTravelTimer' = doorTravelTimer
  BY PolledTimer DEF IInv, TypeOK, PollTravelTimer
<1>2. RemoteMove => doorTravelTimer' = doorTravelTimer
  BY <1>1, MovingMeansNotElapsed
<1>3. TypeOK' /\ MotionInv' /\ RelayInv'
  BY <1>1 DEF door, IInv, TypeOK, MotionInv, RelayInv
<1>4. TimerInv'
  BY <1>1 DEF IInv, TimerInv
<1>5. TravelInv'
  BY <1>2 DEF door, IInv, TravelInv, RemoteMove, Remaining
<1>6. QED
  BY <1>3, <1>4, <1>5 DEF IInv

LEMMA EndPressIInv == IInv /\ EndPress => IInv'
<1> SUFFICES ASSUME IInv, EndPress PROVE IInv'
  OBVIOUS
<1>1. /\ doorTravelTimer' \in TimerRecord /\ IsRunning(doorTravelTimer')
      /\ TracksAge(doorTravelTimer', clock', 0, Estimate)
  BY StartTracksAge, Arithmetic DEF EndPress, IInv, TypeOK
<1>2. relay = "HIGH" /\ relay' = "LOW" /\ held = Pulse /\ age' = 0 /\ pc' = "respond"
      /\ UNCHANGED <<command, response, held, position, motion, mover>>
      /\ clock' = clock
  BY DEF EndPress, door, IInv, RelayInv
<1>3. TypeOK' /\ MotionInv' /\ RelayInv' /\ TimerInv'
  BY <1>1, <1>2, Arithmetic DEF IInv, TypeOK, MotionInv, RelayInv, TimerInv
<1>4. TravelInv'
  BY <1>1, <1>2, Arithmetic DEF IInv, TypeOK, TravelInv, RemoteMove, Remaining
<1>5. QED
  BY <1>3, <1>4 DEF IInv

LEMMA NextIInv == ASSUME DoorFits PROVE IInv /\ [Next]_vars => IInv'
<1> SUFFICES ASSUME IInv, [Next]_vars PROVE IInv'
  OBVIOUS
<1>0. TypeOK /\ RelayInv
  BY DEF IInv
<1>1. CASE Tick
  BY <1>1, TickIInv
<1>2. CASE PressWallButton
  BY <1>2, WallIInv
<1>3. CASE PressButton
  <2>1. StartPress /\ UNCHANGED <<clock, age, response, doorTravelTimer>>
        /\ command' \in Commands
    BY <1>3 DEF PressButton, Commands
  <2>2. QED
    BY <2>1, <1>0, StartPressIInv DEF TypeOK
<1>4. CASE OpenOrClose
  <2>1. /\ relay = "LOW" /\ pc' \in {"idle", "check", "respond"}
        /\ command' \in Commands /\ response' \in Statuses \cup {"NONE"}
    BY <1>4, <1>0 DEF OpenOrClose, RelayInv, Commands, TypeOK
  <2>2. QED
    BY <1>4, <2>1, ReadIInv DEF OpenOrClose
<1>5. CASE PressIfWanted
  <2>1. /\ doorTravelTimer' \in TimerRecord
        /\ IsRunning(doorTravelTimer') => doorTravelTimer' = doorTravelTimer
    BY <1>5, <1>0, PolledTimer DEF PressIfWanted, PollTravelTimer, TypeOK
  <2>2. QED
    BY <1>5, <1>0, <2>1, StartPressIInv DEF PressIfWanted, TypeOK
<1>6. CASE LeaveDoorAlone
  <2>1. /\ relay = "LOW" /\ pc' \in {"idle", "check", "respond"}
        /\ command' \in Commands /\ response' \in Statuses \cup {"NONE"}
    BY <1>6, <1>0 DEF LeaveDoorAlone, RelayInv, TypeOK
  <2>2. QED
    BY <1>6, <2>1, ReadIInv DEF LeaveDoorAlone
<1>7. CASE EndPress
  BY <1>7, EndPressIInv
<1>8. CASE Respond
  <2>1. /\ relay = "LOW" /\ pc' \in {"idle", "check", "respond"}
        /\ command' \in Commands /\ response' \in Statuses \cup {"NONE"}
    BY <1>8, <1>0 DEF Respond, RelayInv, TypeOK, getDoorStatus, readDoorSensor, Statuses
  <2>2. QED
    BY <1>8, <2>1, ReadIInv DEF Respond
<1>9. CASE GetStatus \/ Ignore \/ UNCHANGED vars
  BY <1>9 DEF GetStatus, Ignore, vars, door, IInv, TypeOK, MotionInv, RelayInv, TimerInv,
              TravelInv, RemoteMove, Remaining, Commands
<1>10. QED
  BY <1>1, <1>2, <1>3, <1>4, <1>5, <1>6, <1>7, <1>8, <1>9 DEF Next, Handler, Receive

\* The inductive invariant of the controller.
THEOREM Invariance == ASSUME DoorFits PROVE Spec => []IInv
<1>1. Init => IInv
  BY InitIInv
<1>2. IInv /\ [Next]_vars => IInv'
  BY NextIInv
<1>3. QED
  BY <1>1, <1>2, PTL DEF Spec

\* Type correctness.
THEOREM TypeCorrect == ASSUME DoorFits PROVE Spec => []TypeOK
<1>1. IInv => TypeOK
  BY DEF IInv
<1>2. QED
  BY <1>1, Invariance, PTL

\* OPEN and CLOSE never press the button during a remote move: both status
\* reads see the travel timer running, however the counter wraps.
THEOREM NoInterruption == ASSUME DoorFits PROVE Spec => NeverInterruptsRemoteMove
<1>1. IInv /\ [Next]_vars => [PressIfWanted => ~RemoteMove]_vars
  <2> SUFFICES ASSUME IInv, PressIfWanted, RemoteMove PROVE FALSE
    OBVIOUS
  <2>1. relay = "LOW"
    BY DEF IInv, TypeOK, RelayInv, PressIfWanted
  <2>2. getDoorStatus = "DOOR_MOVING"
    BY <2>1, MovingMeansNotElapsed DEF getDoorStatus
  <2>3. QED
    BY <2>2 DEF PressIfWanted, Wanted
<1>2. QED
  BY <1>1, Invariance, PTL DEF Spec, NeverInterruptsRemoteMove

\* A status other than DOOR_MOVING is never reported during a remote move.
THEOREM RestingStatus == ASSUME DoorFits PROVE Spec => RestingStatusIsTrue
<1>1. IInv /\ [Next]_vars
        => [Respond /\ response' # "DOOR_MOVING" => ~RemoteMove]_vars
  <2> SUFFICES ASSUME IInv, Respond, response' # "DOOR_MOVING", RemoteMove PROVE FALSE
    OBVIOUS
  <2>1. relay = "LOW"
    BY DEF IInv, TypeOK, RelayInv, Respond
  <2>2. QED
    BY <2>1, MovingMeansNotElapsed DEF Respond, getDoorStatus
<1>2. QED
  BY <1>1, Invariance, PTL DEF Spec, RestingStatusIsTrue

\* A status read within half a counter range of the estimate's end is not
\* DOOR_MOVING.  This one needs nothing from the door.
THEOREM PromptPoll == ASSUME DoorFits PROVE Spec => PromptPollSeesElapsed
<1>1. IInv /\ [Next]_vars
        => [Respond /\ age \in Estimate .. Estimate + HalfRange - 1
              => response' # "DOOR_MOVING"]_vars
  <2> SUFFICES ASSUME IInv, Respond, age \in Estimate .. Estimate + HalfRange - 1
               PROVE  response' # "DOOR_MOVING"
    OBVIOUS
  <2>1. /\ age < Estimate + HalfRange /\ age < Wrap /\ age \in Nat /\ age >= Estimate
        /\ doorTravelTimer \in TimerRecord /\ clock \in Time
    BY Arithmetic DEF IInv, TypeOK, Wrap
  <2>2. IsElapsed(doorTravelTimer, clock)
    <3>1. CASE IsRunning(doorTravelTimer)
      BY <2>1, <3>1, ElapsedIsAccurate, Arithmetic DEF IInv, TimerInv
    <3>2. CASE ~IsRunning(doorTravelTimer)
      BY <3>2 DEF IsElapsed
    <3>3. QED
      BY <3>1, <3>2
  <2>3. QED
    BY <2>2 DEF Respond, getDoorStatus, readDoorSensor
<1>2. QED
  BY <1>1, Invariance, PTL DEF Spec, PromptPollSeesElapsed
=============================================================================
