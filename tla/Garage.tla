------------------------------- MODULE Garage -------------------------------
(***************************************************************************)
(* The garage controller (libraries/garage/Garage.h): the commands of      *)
(* processMessage, the relay that presses the opener's button, the reed    *)
(* switch, and the door itself, which is the environment.                  *)
(*                                                                         *)
(* A command is several steps because the code reads the sensor up to      *)
(* three times and blocks in delay() while the relay is closed: time       *)
(* passes, and the door moves, between any two of them.                    *)
(***************************************************************************)
EXTENDS Timer

CONSTANTS
  Pulse,       \* delay() in pressDoorSwitch, in ticks (1000 ms)
  Estimate,    \* period of doorTravelTimer, in ticks (4500 ms)
  DoorTime,    \* ticks the real door needs from one end to the other
  WallButton   \* may somebody press the button in the garage?

ASSUME GarageAssumption ==
  /\ Pulse \in Nat /\ Estimate \in Nat /\ DoorTime \in Nat \ {0}
  /\ Estimate < HalfRange
  /\ WallButton \in BOOLEAN

Commands == {"OPEN", "CLOSE", "PRESS_BUTTON", "GET_STATUS", "UNKNOWN"}
Statuses == {"DOOR_OPEN", "DOOR_CLOSED", "DOOR_MOVING"}

VARIABLES
  clock,            \* millis()
  doorTravelTimer,
  pc,               \* where processMessage is: "idle" | "check" | "pressing" | "respond"
  command,          \* the command being processed
  relay,            \* level of DOOR_CONTROL_PIN
  response,         \* the last String returned, NONE when there is none to send
  position,         \* of the door: 0 is closed, DoorTime fully open
  motion,           \* of the door
  mover,            \* who set the door in motion
  held,             \* ticks the relay has been closed for, counted up to Pulse
  age               \* ticks since doorTravelTimer.start(), counted up to Wrap

program == <<doorTravelTimer, pc, command, relay, response>>
door == <<position, motion, mover>>
vars == <<clock, doorTravelTimer, pc, command, relay, response,
          position, motion, mover, held, age>>

TypeOK ==
  /\ clock \in Time
  /\ doorTravelTimer \in TimerRecord
  /\ pc \in {"idle", "check", "pressing", "respond"}
  /\ command \in Commands
  /\ relay \in {"HIGH", "LOW"}
  /\ response \in Statuses \cup {"NONE"}
  /\ position \in 0 .. DoorTime
  /\ motion \in {"up", "down", "still"}
  /\ mover \in {"remote", "wall"}
  /\ held \in 0 .. Pulse
  /\ age \in 0 .. Wrap

\* Power-up with the door at rest at either end.
Init ==
  /\ clock = 0
  /\ doorTravelTimer = NewTimer
  /\ pc = "idle" /\ command = "UNKNOWN"
  /\ relay = "LOW"
  /\ response = "NONE"
  /\ position \in {0, DoorTime}
  /\ motion = "still" /\ mover = "wall"
  /\ held = 0 /\ age = 0

-----------------------------------------------------------------------------
(* The door and its opener, which are outside the program.                 *)

\* A press of the button starts a resting door (from an end it can go only
\* one way) and stops or reverses a moving one.
CanMove == {d \in {"up", "down"} : position # (IF d = "up" THEN DoorTime ELSE 0)}
AfterPress ==
  (IF motion = "still" THEN CanMove ELSE CanMove \cup {"still"}) \ {motion}

ButtonPressedBy(who) == motion' \in AfterPress /\ mover' = who /\ UNCHANGED position

DoorMoves ==
  /\ position' = CASE motion = "up"    -> position + 1
                   [] motion = "down"  -> position - 1
                   [] motion = "still" -> position
  /\ motion' = IF position' \in {0, DoorTime} THEN "still" ELSE motion
  /\ UNCHANGED mover

Tick ==
  /\ clock' = Later(clock, 1)
  /\ DoorMoves
  /\ held' = IF relay = "HIGH" /\ held < Pulse THEN held + 1 ELSE held
  /\ age' = IF age < Wrap THEN age + 1 ELSE age
  /\ UNCHANGED program

PressWallButton ==
  /\ WallButton
  /\ ButtonPressedBy("wall")
  /\ UNCHANGED <<program, clock, held, age>>

-----------------------------------------------------------------------------
(* The controller.                                                         *)

\* The magnetic switch closes only when the door is fully closed.
readDoorSensor == IF position = 0 THEN "DOOR_CLOSED" ELSE "DOOR_OPEN"

getDoorStatus_SensorOnly == readDoorSensor
getDoorStatus ==
  IF IsElapsed(doorTravelTimer, clock) THEN readDoorSensor ELSE "DOOR_MOVING"

\* Reading the status switches an elapsed doorTravelTimer off.
PollTravelTimer == doorTravelTimer' = Polled(doorTravelTimer, clock)

\* pressDoorSwitch up to its delay().
StartPress ==
  /\ pc' = "pressing"
  /\ relay' = "HIGH" /\ held' = 0
  /\ ButtonPressedBy("remote")

PressButton ==
  /\ pc = "idle"
  /\ command' = "PRESS_BUTTON"
  /\ StartPress
  /\ UNCHANGED <<clock, doorTravelTimer, response, age>>

\* openDoor and closeDoor, first half: !isDoorMoving().
OpenOrClose ==
  /\ pc = "idle"
  /\ command' \in {"OPEN", "CLOSE"}
  /\ pc' = IF getDoorStatus = "DOOR_MOVING" THEN "respond" ELSE "check"
  /\ PollTravelTimer
  /\ UNCHANGED <<clock, relay, response, held, age, door>>

\* Second half: isDoorClosed() or isDoorOpen() reads the status again.
Wanted == IF command = "OPEN" THEN "DOOR_CLOSED" ELSE "DOOR_OPEN"

PressIfWanted ==
  /\ pc = "check"
  /\ getDoorStatus = Wanted
  /\ PollTravelTimer
  /\ StartPress
  /\ UNCHANGED <<clock, command, response, age>>

LeaveDoorAlone ==
  /\ pc = "check"
  /\ getDoorStatus # Wanted
  /\ PollTravelTimer
  /\ pc' = "respond"
  /\ UNCHANGED <<clock, command, relay, response, held, age, door>>

\* pressDoorSwitch after its delay(), which may return late but not early.
EndPress_NoTimer ==
  /\ pc = "pressing" /\ held = Pulse
  /\ relay' = "LOW" /\ age' = 0 /\ pc' = "respond"
  /\ UNCHANGED <<clock, doorTravelTimer, command, response, held, door>>
EndPress_NoRelease ==
  /\ pc = "pressing" /\ held = Pulse
  /\ doorTravelTimer' = Started(clock, Estimate) /\ age' = 0 /\ pc' = "respond"
  /\ UNCHANGED <<clock, relay, command, response, held, door>>
EndPress ==
  /\ pc = "pressing"
  /\ held = Pulse
  /\ relay' = "LOW"
  /\ doorTravelTimer' = Started(clock, Estimate)
  /\ age' = 0
  /\ pc' = "respond"
  /\ UNCHANGED <<clock, command, response, held, door>>

GetStatus ==
  /\ pc = "idle"
  /\ command' = "GET_STATUS"
  /\ pc' = "respond"
  /\ UNCHANGED <<clock, doorTravelTimer, relay, response, held, age, door>>

Respond ==
  /\ pc = "respond"
  /\ response' = getDoorStatus
  /\ PollTravelTimer
  /\ pc' = "idle"
  /\ UNCHANGED <<clock, command, relay, held, age, door>>

\* A command the garage does not know: no work and no response.
Ignore ==
  /\ pc = "idle"
  /\ command' = "UNKNOWN"
  /\ response' = "NONE"
  /\ UNCHANGED <<clock, doorTravelTimer, pc, relay, held, age, door>>

Handler == PressIfWanted \/ LeaveDoorAlone \/ EndPress \/ Respond
Receive == PressButton \/ OpenOrClose \/ GetStatus \/ Ignore

Next == Tick \/ PressWallButton \/ Handler \/ Receive

\* Time passes, and the handler that is running runs on; nobody has to send
\* a command.
Fairness == WF_vars(Tick) /\ WF_vars(Handler)

Spec == Init /\ [][Next]_vars /\ Fairness

-----------------------------------------------------------------------------
(* Properties.                                                             *)

RemoteMove == motion # "still" /\ mover = "remote"

(* OPEN and CLOSE never press the button while the door is travelling      *)
(* because of an earlier remote press: the press would stop or reverse it. *)
(* The three sensor reads, the delay() and the travel timer of openDoor    *)
(* and closeDoor have to work together for it (Garage.h:111-151).          *)
NeverInterruptsRemoteMove == [][PressIfWanted => ~RemoteMove]_vars

(* A status other than DOOR_MOVING is never reported while the door is     *)
(* travelling because of a remote press (Garage.h:111-124).                *)
RestingStatusIsTrue ==
  [][Respond /\ response' # "DOOR_MOVING" => ~RemoteMove]_vars

(* A status read while the travel estimate is over, and less than half a   *)
(* counter range over, does not claim that the door is moving.             *)
PromptPollSeesElapsed ==
  [][Respond /\ age \in Estimate .. Estimate + HalfRange - 1
       => response' # "DOOR_MOVING"]_vars

(* The same without the upper limit: what Timer.h:34 ("Checks if the       *)
(* specified period has elapsed. If so, returns true and turns off the     *)
(* timer") and Garage.h:44 promise.  The code breaks it once nobody has    *)
(* sent a command for half a counter range (24.8 days).                    *)
LatePollSeesElapsed ==
  [][Respond /\ age >= Estimate => response' # "DOOR_MOVING"]_vars

(* Every command runs to its end and leaves the opener's button released.  *)
CommandCompletes == pc # "idle" ~> pc = "idle" /\ relay = "LOW"
=============================================================================
