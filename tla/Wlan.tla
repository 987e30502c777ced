-------------------------------- MODULE Wlan --------------------------------
(***************************************************************************)
(* SPARK_WLAN_Loop(), which starts the WiFi module, watches over it, starts*)
(* it anew when it gets no address or the cloud cannot be reached, and     *)
(* keeps the connection to the cloud, in every SYSTEM_MODE.  The events of *)
(* the module (WLAN_Async_Callback) are handled in an interrupt and come   *)
(* between any two steps; the application switches WiFi and the cloud on   *)
(* and off.                                                                *)
(*                                                                         *)
(* The module Cloud tells what happens in a session; here it is alive or   *)
(* not.                                                                    *)
(***************************************************************************)
EXTENDS Integers

CONSTANT MaxFailed   \* MAX_FAILED_CONNECTS

ASSUME WlanAssumption == MaxFailed \in Nat \ {0}

VARIABLES
  \* SPARK_WLAN_STARTED, _RESET, _SLEEP, SPARK_CLOUD_CONNECT and WLAN_DISCONNECT.
  started, reset, sleep, cloudConnect, disconnect,
  \* WLAN_CONNECTED and WLAN_DHCP; SPARK_CLOUD_SOCKETED and _CONNECTED.
  associated, dhcp, socketed, connected,
  \* wlan_watchdog; cfod_count; WLAN_SMART_CONFIG_START; SPARK_WIRING_APPLICATION.
  watchdog, failed, smartConfig, application,
  mode, at,   \* System.mode(); where the main loop is
  late,       \* asked to reset, or armed, after a reset and before the start (history)
  \* What the flags are about: the module, and whether the session still works.
  link, alive

orders == <<started, reset, sleep, cloudConnect, disconnect>>
beliefs == <<associated, dhcp, socketed, connected>>
counts == <<watchdog, failed, late>>
modes == <<mode, smartConfig, application>>
truth == <<link, alive>>
vars == <<orders, beliefs, counts, modes, at, truth>>

Places == {"setup", "top", "clear", "starting", "config", "listening", "cloud", "connecting",
           "joined", "process", "shaken", "serve", "app"}

\* Off; looking for a network after a start, or after it lost one; in a network
\* without an address, or with one that could not be renewed; with an address.
Links == {"off", "alone", "lost", "joined", "refused", "addressed"}

TypeOK ==
  /\ {started, reset, sleep, cloudConnect, disconnect} \subseteq BOOLEAN
  /\ {associated, dhcp, socketed, connected} \subseteq BOOLEAN
  /\ {smartConfig, application, alive, late} \subseteq BOOLEAN
  /\ watchdog \in {"off", "armed", "due"}
  /\ failed \in 0 .. MaxFailed + 1
  /\ mode \in {"AUTOMATIC", "SEMI_AUTOMATIC", "MANUAL"} /\ at \in Places
  /\ link \in Links

---------------------------------------------------------------------------
\* The connection to the cloud is given up; what becomes of its socket does not
\* matter any more.
NoCloud == socketed' = FALSE /\ connected' = FALSE /\ alive' = FALSE
NoNetwork == associated' = FALSE /\ dhcp' = FALSE

Ready == started /\ dhcp

\* wlan_start(): the module is switched off and on.  Its flags stay.
StartModule ==
  /\ link' = "alone" /\ alive' = FALSE
  /\ disconnect' = FALSE /\ started' = TRUE /\ sleep' = FALSE

\* WiFi.connect().  Without a network to try it asks for smart config.
ConnectAnew == StartModule /\ (smartConfig' = TRUE \/ UNCHANGED smartConfig)

WiFi_connect ==
  \/ Ready /\ UNCHANGED <<disconnect, started, sleep, truth, smartConfig>>
  \/ ~Ready /\ ConnectAnew

---------------------------------------------------------------------------
(* One round of SPARK_WLAN_Loop. *)

\* SPARK_WLAN_Setup().
Setup ==
  /\ at = "setup" /\ at' = "top"
  /\ \/ mode = "AUTOMATIC" /\ ConnectAnew
     \/ mode # "AUTOMATIC" /\ UNCHANGED <<disconnect, started, sleep, truth, smartConfig>>
  /\ UNCHANGED <<reset, cloudConnect, beliefs, counts, mode, application>>

MustReset == reset \/ sleep \/ watchdog = "due"

\* CLR_WLAN_WD() comes first.
BeginReset_WatchdogStays ==
  /\ at = "top" /\ at' = "clear" /\ MustReset /\ started
  /\ late' = FALSE
  /\ UNCHANGED <<orders, beliefs, watchdog, failed, modes, truth>>

BeginReset ==
  /\ at = "top" /\ at' = "clear" /\ MustReset /\ started
  /\ watchdog' = "off" /\ late' = FALSE
  /\ UNCHANGED <<orders, beliefs, failed, modes, truth>>

\* Then the flags.  WiFi.off() comes last and does nothing, as it looks at
\* SPARK_WLAN_STARTED: the module runs until it is started anew.
ClearFlags_KeepsAddress ==
  /\ at = "clear" /\ at' = "config"
  /\ associated' = FALSE /\ UNCHANGED dhcp /\ NoCloud
  /\ reset' = FALSE /\ started' = FALSE /\ failed' = 0
  /\ UNCHANGED <<sleep, cloudConnect, disconnect, watchdog, late, modes, link>>

ClearFlags ==
  /\ at = "clear" /\ at' = "config"
  /\ NoNetwork /\ NoCloud
  /\ reset' = FALSE /\ started' = FALSE /\ failed' = 0
  /\ UNCHANGED <<sleep, cloudConnect, disconnect, watchdog, late, modes, link>>

\* Nothing is done to a module that is not started, and what asked for the reset
\* goes on asking.
NothingToReset ==
  /\ at = "top" /\ at' = "config" /\ (MustReset = ~started)
  /\ UNCHANGED <<orders, beliefs, counts, modes, truth>>

Arm == watchdog' = "armed"

\* The module is started under the watchdog.
BeginStart ==
  /\ at = "top" /\ at' = "starting" /\ ~MustReset /\ ~started
  /\ IF disconnect THEN UNCHANGED watchdog ELSE Arm
  /\ UNCHANGED <<orders, beliefs, failed, late, modes, truth>>

Start ==
  /\ at = "starting" /\ at' = "config"
  /\ ConnectAnew
  /\ UNCHANGED <<reset, cloudConnect, beliefs, counts, mode, application>>

\* Start_Smart_Config().  WiFi.disconnect() does nothing in it, as WLAN_DHCP was
\* cleared; that a module which looks for smart config leaves its network is
\* external.
BeginSmartConfig ==
  /\ at = "config" /\ smartConfig /\ at' = "listening"
  /\ NoNetwork /\ NoCloud
  /\ link' = IF link = "off" THEN "off" ELSE "alone"
  /\ UNCHANGED <<orders, counts, modes>>

\* A wish for smart config that comes from this WiFi.connect() is lost.
EndSmartConfig ==
  /\ at = "listening" /\ at' = "cloud"
  /\ \/ Ready /\ UNCHANGED <<disconnect, started, sleep, truth>>
     \/ ~Ready /\ StartModule
  /\ smartConfig' = FALSE
  /\ UNCHANGED <<reset, cloudConnect, beliefs, counts, mode, application>>

NoSmartConfig ==
  /\ at = "config" /\ ~smartConfig /\ at' = "cloud"
  /\ UNCHANGED <<orders, beliefs, counts, modes, truth>>

\* The application wants no connection.
CloudUnwanted ==
  /\ at = "cloud" /\ ~cloudConnect /\ at' = "app"
  /\ IF socketed \/ connected THEN NoCloud ELSE UNCHANGED <<socketed, connected, alive>>
  /\ UNCHANGED <<orders, associated, dhcp, counts, modes, link>>

MayConnect == dhcp /\ ~sleep /\ ~socketed

CloudKept ==
  /\ at = "cloud" /\ cloudConnect /\ ~MayConnect /\ at' = "process"
  /\ UNCHANGED <<orders, beliefs, counts, modes, truth>>

\* Spark_Connect() closes the old socket first.
BeginConnect ==
  /\ at = "cloud" /\ cloudConnect /\ MayConnect /\ at' = "connecting"
  /\ alive' = FALSE
  /\ UNCHANGED <<orders, beliefs, counts, modes, link>>

ConnectSucceeds ==
  /\ at = "connecting" /\ at' = "joined"
  /\ link = "addressed" /\ alive' = TRUE
  /\ failed' = 0
  /\ UNCHANGED <<orders, beliefs, watchdog, late, modes, link>>

\* SPARK_CLOUD_SOCKETED, whatever events have come meanwhile.
SetSocketed ==
  /\ at = "joined" /\ at' = "process"
  /\ socketed' = TRUE
  /\ UNCHANGED <<orders, associated, dhcp, connected, counts, modes, truth>>

\* One failed attempt is counted, and another if the Internet_Test() fails.
CountFailure_ComparedLate(n) ==
  /\ failed' = failed + n
  /\ reset' = (reset \/ failed + n = MaxFailed)

\* As with RESET_ON_CFOD = 0.
CountFailure_NoReset(n) == UNCHANGED <<failed, reset>>

CountFailure(n) ==
  /\ failed' = failed + n
  /\ reset' = (reset \/ MaxFailed \in failed + 1 .. failed + n)

ConnectFails_InReset ==
  /\ at = "connecting" /\ at' = "process"
  /\ \E n \in 1 .. 2 : CountFailure(n)
  /\ late' = (late \/ (reset' /\ ~started))
  /\ socketed' = FALSE
  /\ UNCHANGED <<started, sleep, cloudConnect, disconnect, associated, dhcp, connected, watchdog,
                 modes, truth>>

ConnectFails ==
  /\ at = "connecting" /\ ~reset /\ at' = "process"
  /\ \E n \in 1 .. 2 : CountFailure(n)
  /\ late' = (late \/ (reset' /\ ~started))
  /\ socketed' = FALSE
  /\ UNCHANGED <<started, sleep, cloudConnect, disconnect, associated, dhcp, connected, watchdog,
                 modes, truth>>

ConnectFailsInReset ==
  /\ at = "connecting" /\ reset /\ at' = "app"
  /\ UNCHANGED <<orders, beliefs, counts, modes, truth>>

\* Nothing goes through a socket while a reset or sleep is wanted.
Works == alive /\ ~reset /\ ~sleep

HandshakeSucceeds ==
  /\ at = "process" /\ socketed /\ ~connected /\ at' = "shaken"
  /\ Works
  /\ UNCHANGED <<orders, beliefs, counts, modes, truth>>

HandshakeFails ==
  /\ at = "process" /\ socketed /\ ~connected /\ at' = "serve"
  /\ UNCHANGED <<orders, beliefs, counts, modes, truth>>

SetConnected ==
  /\ at = "shaken" /\ at' = "serve"
  /\ connected' = TRUE
  /\ UNCHANGED <<orders, associated, dhcp, socketed, counts, modes, truth>>

NoHandshake ==
  /\ at = "process" /\ ~(socketed /\ ~connected)
  /\ at' = IF socketed THEN "serve" ELSE "app"
  /\ UNCHANGED <<orders, beliefs, counts, modes, truth>>

\* Spark.process(), also after a handshake that failed; in MANUAL mode the loop
\* calls it during an update only.
ServeGivesUp_OnlySessions ==
  /\ at = "serve" /\ socketed /\ connected /\ at' = "app"
  /\ NoCloud
  /\ UNCHANGED <<orders, associated, dhcp, counts, modes, link>>

ServeGivesUp ==
  /\ at = "serve" /\ socketed /\ at' = "app"
  /\ NoCloud
  /\ UNCHANGED <<orders, associated, dhcp, counts, modes, link>>

\* It takes a while to notice that a server is gone.
Serve ==
  /\ at = "serve" /\ at' = "app"
  /\ \/ socketed => ~reset /\ ~sleep
     \/ mode = "MANUAL"
  /\ UNCHANGED <<orders, beliefs, counts, modes, truth>>

---------------------------------------------------------------------------
(* The application's loop() in main(). *)

MayRun == sleep \/ ~cloudConnect \/ connected \/ application

Loop ==
  /\ at = "app" /\ at' = "top"
  /\ application' = (application \/ MayRun)
  /\ UNCHANGED <<orders, beliefs, counts, mode, smartConfig, truth>>

Spark_connect ==
  /\ WiFi_connect /\ cloudConnect' = TRUE
  /\ UNCHANGED <<reset, beliefs>>

Spark_process ==
  /\ socketed /\ NoCloud
  /\ UNCHANGED <<orders, associated, dhcp, smartConfig, link>>

Spark_disconnect ==
  /\ cloudConnect' = FALSE
  /\ UNCHANGED <<started, reset, sleep, disconnect, beliefs, truth, smartConfig>>

WiFi_disconnect ==
  /\ Ready /\ disconnect' = TRUE /\ cloudConnect' = FALSE
  /\ UNCHANGED <<started, reset, sleep, beliefs, truth, smartConfig>>

WiFi_on ==
  /\ ~started /\ started' = TRUE /\ sleep' = FALSE
  /\ link' = "alone" /\ alive' = FALSE
  /\ UNCHANGED <<reset, cloudConnect, disconnect, beliefs, smartConfig>>

\* SPARK_WLAN_STARTED stays until the next round.
WiFi_off ==
  /\ started /\ sleep' = TRUE /\ cloudConnect' = FALSE
  /\ link' = "off" /\ alive' = FALSE
  /\ UNCHANGED <<started, reset, disconnect, beliefs, smartConfig>>

WiFi_listen ==
  /\ smartConfig' = TRUE
  /\ UNCHANGED <<orders, beliefs, truth>>

Call ==
  /\ at = "app" /\ MayRun /\ application' = TRUE
  /\ \/ Spark_connect \/ Spark_process \/ Spark_disconnect
     \/ WiFi_disconnect \/ WiFi_on \/ WiFi_off \/ WiFi_listen
     \/ WiFi_connect /\ UNCHANGED <<reset, cloudConnect, beliefs>>
  /\ UNCHANGED <<counts, mode, at>>

---------------------------------------------------------------------------
(* WLAN_Async_Callback, and SysTick. *)

Idle == UNCHANGED <<orders, failed, modes, at>>

ArmByEvent == Arm /\ late' = (late \/ at = "clear" \/ ~started)

UnsolConnect ==
  /\ link \in {"alone", "lost"} /\ link' = "joined"
  /\ associated' = TRUE
  /\ IF disconnect THEN UNCHANGED <<watchdog, late>> ELSE ArmByEvent
  /\ Idle /\ UNCHANGED <<dhcp, socketed, connected, alive>>

\* It may also come when an attempt to join a network fails.
UnsolDisconnect_Unwatched ==
  /\ link # "off" /\ link' = IF link = "alone" THEN "alone" ELSE "lost"
  /\ NoNetwork /\ NoCloud
  /\ Idle /\ UNCHANGED <<watchdog, late>>

UnsolDisconnect ==
  /\ link # "off" /\ link' = IF link = "alone" THEN "alone" ELSE "lost"
  /\ IF associated /\ ~disconnect THEN ArmByEvent ELSE UNCHANGED <<watchdog, late>>
  /\ NoNetwork /\ NoCloud
  /\ Idle

GotAddress ==
  /\ link \in {"joined", "refused"} /\ link' = "addressed"
  /\ watchdog' = "off" /\ dhcp' = TRUE
  /\ Idle /\ UNCHANGED <<associated, socketed, connected, late, alive>>

NoAddress ==
  /\ \/ link = "joined" /\ UNCHANGED link
     \/ link = "addressed" /\ link' = "refused"
  /\ dhcp' = FALSE /\ alive' = FALSE
  /\ Idle /\ UNCHANGED <<associated, socketed, connected, watchdog, late>>

\* The server closes the connection.
TcpCloseWait ==
  /\ alive /\ NoCloud
  /\ Idle /\ UNCHANGED <<associated, dhcp, watchdog, late, link>>

\* The server is gone and nobody says so.
ServerFallsSilent ==
  /\ alive /\ alive' = FALSE
  /\ Idle /\ UNCHANGED <<beliefs, watchdog, late, link>>

\* WLAN_WD_TO() looks at the time and at nothing else.
WatchdogExpires ==
  /\ watchdog = "armed" /\ watchdog' = "due"
  /\ Idle /\ UNCHANGED <<beliefs, late, truth>>

\* The button is held for three seconds.
Button ==
  /\ ~sleep /\ ~smartConfig /\ smartConfig' = TRUE
  /\ UNCHANGED <<orders, beliefs, counts, mode, application, at, truth>>

Event == \/ UnsolConnect \/ UnsolDisconnect \/ GotAddress \/ NoAddress
         \/ TcpCloseWait \/ ServerFallsSilent

---------------------------------------------------------------------------
Init ==
  /\ started = FALSE /\ reset = FALSE /\ disconnect = FALSE
  /\ mode \in {"AUTOMATIC", "SEMI_AUTOMATIC", "MANUAL"}
  /\ sleep = (mode # "AUTOMATIC") /\ cloudConnect = ~sleep
  /\ associated = FALSE /\ dhcp = FALSE /\ socketed = FALSE /\ connected = FALSE
  /\ watchdog = "off" /\ failed = 0 /\ smartConfig = FALSE /\ application = FALSE
  /\ at = "setup" /\ late = FALSE /\ link = "off" /\ alive = FALSE

Network == BeginReset \/ ClearFlags \/ NothingToReset \/ BeginStart \/ Start
Configure == BeginSmartConfig \/ NoSmartConfig
KeepCloud ==
  \/ CloudUnwanted \/ CloudKept \/ BeginConnect \/ ConnectSucceeds \/ SetSocketed
  \/ ConnectFails \/ ConnectFailsInReset
  \/ HandshakeSucceeds \/ HandshakeFails \/ SetConnected \/ NoHandshake
  \/ ServeGivesUp \/ Serve

Round == Setup \/ Network \/ Configure \/ KeepCloud \/ Loop

Next == Round \/ EndSmartConfig \/ Call \/ Event \/ WatchdogExpires \/ Button

\* The main loop goes on, time passes, and SparkProtocol, which is called in
\* every round except in MANUAL mode, gives up on a server that does not answer
\* (Cloud!SilentServerIsNoticed).  Nobody need finish a smart config.
Spec ==
  /\ Init /\ [][Next]_vars
  /\ WF_vars(Round) /\ WF_vars(WatchdogExpires)
  /\ SF_vars(ServeGivesUp /\ ~alive /\ mode # "MANUAL")

---------------------------------------------------------------------------
(* Properties. *)

\* Once WiFi has been switched off and the loop has seen it, no flag says that
\* there is a network or a cloud, whatever was under way (WiFi.off,
\* SPARK_WLAN_Loop).
AsleepIsQuiet ==
  sleep /\ ~started => ~associated /\ ~dhcp /\ ~socketed /\ ~connected

\* Failures are compared with their limit for equality and counted one or two at
\* a time; they never run past it without a reset being asked for.
FailuresReset == failed >= MaxFailed => reset

\* A module does not stay without a network that it lost, nor in one that gives it
\* no address: it is switched off and on, unless somebody has other plans for it.
\* One that finds and loses networks for ever is left alone, as each event arms
\* the watchdog anew; of one that is not started see ModuleIsStarted
\* (WLAN_Async_Callback, WLAN_WD_TO).
Planned == disconnect \/ smartConfig \/ sleep
LostModuleIsRestarted ==
  \A l \in {"lost", "joined"} : []<>(link # l \/ ~started \/ Planned)

\* An address that the firmware believes in and the module does not have, as when
\* an event of the module comes while it is reset, is noticed, as long as the
\* cloud is wanted and attended to (SPARK_WLAN_Loop).
StaleAddressIsNoticed ==
  mode # "MANUAL" /\ dhcp /\ link # "addressed"
    ~> ~dhcp \/ link = "addressed" \/ ~cloudConnect \/ Planned

\* A module that was reset is started again, and no wish for a reset outlives its
\* reset.  What asks for another one after that, and before the start, is left to
\* ResetStartsAgain (SPARK_WLAN_Loop).
ModuleIsStarted == ~started ~> started \/ sleep \/ smartConfig \/ late

\* "1 Will do reset" (config.h:28, of RESET_ON_CFOD), "Resetting CC3000 due to %d
\* failed connect attempts" (line 512): a module that was reset is started again,
\* and a reset that was asked for is done.  They are not if connections fail, or
\* if an event has armed the watchdog and it runs out, before the start: the
\* loop then takes its first branch in every round, which does nothing to a
\* module that is not started (lines 376-378).
ResetStartsAgain == ~started ~> started \/ sleep \/ smartConfig

\* A session that no longer works is given up, in whatever order the flags of the
\* cloud were set by the loop and cleared by events, and even if no handshake
\* ever succeeded in it (SPARK_WLAN_Loop).
DeadSessionIsDropped ==
  mode # "MANUAL" /\ socketed /\ ~alive ~> ~socketed \/ alive
=============================================================================
