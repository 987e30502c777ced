------------------------------ MODULE WlanProofs ------------------------------
(***************************************************************************)
(* What holds of the flags of SPARK_WLAN_Loop at every limit on failed     *)
(* attempts: after WiFi was switched off they say so, and failures never   *)
(* run past the limit unnoticed.                                           *)
(***************************************************************************)
EXTENDS Wlan, TLAPS

USE WlanAssumption DEF WlanAssumption, orders, beliefs, counts, modes, truth

---------------------------------------------------------------------------
\* Only the application puts the module to sleep, and between two rounds: in
\* sleep the module is off and no step of the loop is under way that would set a
\* flag.
Pending == {"starting", "connecting", "joined", "shaken"}
SleepInv ==
  sleep => /\ link = "off"
           /\ at \notin Pending
           /\ at = "setup" => mode # "AUTOMATIC"

\* One says that nothing raises a flag in sleep, the other that none is up.
Asleep == SleepInv /\ AsleepIsQuiet

IInv == TypeOK /\ FailuresReset /\ Asleep

LEMMA NoFailures == 0 \in 0 .. MaxFailed + 1
OBVIOUS

LEMMA InitIInv == Init => IInv
<1> SUFFICES ASSUME Init PROVE IInv
  OBVIOUS
<1>1. sleep \in BOOLEAN /\ cloudConnect \in BOOLEAN
  BY Zenon DEF Init
<1>2. TypeOK
  BY <1>1, NoFailures DEF Init, TypeOK, Places, Links
<1>3. FailuresReset
  BY DEF Init, FailuresReset
<1>4. Asleep
  BY DEF Init, Asleep, SleepInv, Pending, AsleepIsQuiet
<1>5. QED
  BY <1>2, <1>3, <1>4 DEF IInv

---------------------------------------------------------------------------
LEMMA SetupTyped == TypeOK /\ Setup => TypeOK'
BY DEF TypeOK, Setup, ConnectAnew, StartModule, Places, Links

LEMMA NetworkTyped == TypeOK /\ Network => TypeOK'
<1> SUFFICES ASSUME TypeOK, Network PROVE TypeOK'
  OBVIOUS
<1>1. CASE BeginReset
  BY <1>1 DEF TypeOK, BeginReset, Places, Links
<1>2. CASE ClearFlags
  BY <1>2, NoFailures DEF TypeOK, ClearFlags, NoNetwork, NoCloud, Places, Links
<1>3. CASE NothingToReset
  BY <1>3 DEF TypeOK, NothingToReset, Places, Links
<1>4. CASE BeginStart
  BY <1>4 DEF TypeOK, BeginStart, Arm, Places, Links
<1>5. CASE Start
  BY <1>5 DEF TypeOK, Start, ConnectAnew, StartModule, Places, Links
<1>6. QED
  BY <1>1, <1>2, <1>3, <1>4, <1>5 DEF Network

LEMMA ConfigureTyped == TypeOK /\ (Configure \/ EndSmartConfig) => TypeOK'
<1> SUFFICES ASSUME TypeOK, Configure \/ EndSmartConfig PROVE TypeOK'
  OBVIOUS
<1>1. CASE BeginSmartConfig
  BY <1>1 DEF TypeOK, BeginSmartConfig, NoNetwork, NoCloud, Places, Links
<1>2. CASE NoSmartConfig
  BY <1>2 DEF TypeOK, NoSmartConfig, Places, Links
<1>3. CASE EndSmartConfig
  BY <1>3 DEF TypeOK, EndSmartConfig, StartModule, Places, Links
<1>4. QED
  BY <1>1, <1>2, <1>3 DEF Configure

\* The only count: below the limit before, as no reset was asked for, and at most
\* one above it after.
LEMMA ConnectFailsCounts ==
  ASSUME TypeOK, FailuresReset, ConnectFails
  PROVE  /\ failed' \in 0 .. MaxFailed + 1
         /\ reset' \in BOOLEAN /\ late' \in BOOLEAN
         /\ FailuresReset'
<1>1. failed < MaxFailed /\ reset = FALSE
  BY DEF TypeOK, FailuresReset, ConnectFails
<1>2. PICK n \in 1 .. 2 : CountFailure(n)
  BY DEF ConnectFails
<1>3. failed' = failed + n /\ (reset' <=> MaxFailed \in failed + 1 .. failed + n)
  BY <1>1, <1>2 DEF CountFailure
<1>4. reset' \in BOOLEAN /\ late' \in BOOLEAN
  BY <1>1, <1>2, Zenon DEF CountFailure, ConnectFails
<1>5. failed' >= MaxFailed => MaxFailed \in failed + 1 .. failed + n
  BY <1>1, <1>2, <1>3 DEF TypeOK
<1>6. QED
  BY <1>1, <1>2, <1>3, <1>4, <1>5 DEF TypeOK, FailuresReset

LEMMA KeepCloudTyped == TypeOK /\ FailuresReset /\ KeepCloud => TypeOK'
<1> SUFFICES ASSUME TypeOK, FailuresReset, KeepCloud PROVE TypeOK'
  OBVIOUS
<1>1. CASE CloudUnwanted
  BY <1>1 DEF TypeOK, CloudUnwanted, NoCloud, Places, Links
<1>2. CASE CloudKept \/ BeginConnect \/ SetSocketed \/ ConnectFailsInReset
  BY <1>2 DEF TypeOK, CloudKept, BeginConnect, SetSocketed, ConnectFailsInReset, Places, Links
<1>3. CASE ConnectSucceeds
  BY <1>3 DEF TypeOK, ConnectSucceeds, Places, Links
<1>4. CASE ConnectFails
  BY <1>4, ConnectFailsCounts DEF TypeOK, ConnectFails, Places, Links
<1>5. CASE HandshakeSucceeds \/ HandshakeFails \/ SetConnected \/ NoHandshake
  BY <1>5 DEF TypeOK, HandshakeSucceeds, HandshakeFails, SetConnected, NoHandshake, Places, Links
<1>6. CASE ServeGivesUp \/ Serve
  BY <1>6 DEF TypeOK, ServeGivesUp, Serve, NoCloud, Places, Links
<1>7. QED
  BY <1>1, <1>2, <1>3, <1>4, <1>5, <1>6 DEF KeepCloud

LEMMA ApplicationTyped == TypeOK /\ (Loop \/ Call) => TypeOK'
<1> SUFFICES ASSUME TypeOK, Loop \/ Call PROVE TypeOK'
  OBVIOUS
<1>1. CASE Loop
  BY <1>1 DEF TypeOK, Loop, MayRun, Places, Links
<1>2. CASE Call
  BY <1>2 DEF TypeOK, Call, Spark_connect, Spark_process, Spark_disconnect, WiFi_connect,
              WiFi_disconnect, WiFi_on, WiFi_off, WiFi_listen, ConnectAnew, StartModule, NoCloud,
              Places, Links
<1>3. QED
  BY <1>1, <1>2

LEMMA EventTyped == TypeOK /\ (Event \/ WatchdogExpires \/ Button) => TypeOK'
<1> SUFFICES ASSUME TypeOK, Event \/ WatchdogExpires \/ Button PROVE TypeOK'
  OBVIOUS
<1>1. CASE UnsolConnect \/ GotAddress \/ NoAddress
  BY <1>1 DEF TypeOK, UnsolConnect, GotAddress, NoAddress, Idle, Arm, ArmByEvent, Places, Links
<1>2. CASE UnsolDisconnect
  BY <1>2 DEF TypeOK, UnsolDisconnect, Idle, Arm, ArmByEvent, NoNetwork, NoCloud, Places, Links
<1>3. CASE TcpCloseWait
  BY <1>3 DEF TypeOK, TcpCloseWait, Idle, NoCloud, Places, Links
<1>4. CASE ServerFallsSilent
  BY <1>4 DEF TypeOK, ServerFallsSilent, Idle, Places, Links
<1>5. CASE WatchdogExpires
  BY <1>5 DEF TypeOK, WatchdogExpires, Idle, Places, Links
<1>6. CASE Button
  BY <1>6 DEF TypeOK, Button, Places, Links
<1>7. QED
  BY <1>1, <1>2, <1>3, <1>4, <1>5, <1>6 DEF Event

LEMMA TypeStep == TypeOK /\ FailuresReset /\ [Next]_vars => TypeOK'
<1>1. TypeOK /\ UNCHANGED vars => TypeOK'
  BY DEF TypeOK, vars
<1>2. QED
  BY <1>1, SetupTyped, NetworkTyped, ConfigureTyped, KeepCloudTyped, ApplicationTyped, EventTyped
  DEF Next, Round
---------------------------------------------------------------------------
LEMMA LoopKeepsAsleep == Asleep /\ (Setup \/ Network \/ Configure \/ EndSmartConfig) => Asleep'
<1> SUFFICES ASSUME Asleep, Setup \/ Network \/ Configure \/ EndSmartConfig PROVE Asleep'
  OBVIOUS
<1> USE DEF Asleep, SleepInv, AsleepIsQuiet, Pending
<1>1. CASE Setup
  BY <1>1 DEF Setup, ConnectAnew, StartModule
<1>2. CASE BeginReset \/ NothingToReset
  BY <1>2 DEF BeginReset, NothingToReset
<1>3. CASE ClearFlags
  BY <1>3 DEF ClearFlags, NoNetwork, NoCloud
<1>4. CASE BeginStart
  BY <1>4 DEF BeginStart, MustReset
<1>5. CASE Start
  BY <1>5 DEF Start, ConnectAnew, StartModule
<1>6. CASE BeginSmartConfig \/ NoSmartConfig
  BY <1>6 DEF BeginSmartConfig, NoSmartConfig, NoNetwork, NoCloud
<1>7. CASE EndSmartConfig
  BY <1>7 DEF EndSmartConfig, StartModule
<1>8. QED
  BY <1>1, <1>2, <1>3, <1>4, <1>5, <1>6, <1>7 DEF Network, Configure

LEMMA KeepCloudKeepsAsleep == Asleep /\ KeepCloud => Asleep'
<1> SUFFICES ASSUME Asleep, KeepCloud PROVE Asleep'
  OBVIOUS
<1> USE DEF Asleep, SleepInv, AsleepIsQuiet, Pending
<1>1. CASE CloudUnwanted \/ CloudKept
  BY <1>1 DEF CloudUnwanted, CloudKept, NoCloud
<1>2. CASE BeginConnect
  BY <1>2 DEF BeginConnect, MayConnect
<1>3. CASE ConnectSucceeds \/ SetSocketed \/ ConnectFails \/ ConnectFailsInReset
  BY <1>3 DEF ConnectSucceeds, SetSocketed, ConnectFails, ConnectFailsInReset
<1>4. CASE HandshakeSucceeds \/ HandshakeFails \/ SetConnected \/ NoHandshake
  BY <1>4 DEF HandshakeSucceeds, HandshakeFails, SetConnected, NoHandshake, Works
<1>5. CASE ServeGivesUp \/ Serve
  BY <1>5 DEF ServeGivesUp, Serve, NoCloud
<1>6. QED
  BY <1>1, <1>2, <1>3, <1>4, <1>5 DEF KeepCloud

LEMMA ApplicationKeepsAsleep == Asleep /\ (Loop \/ Call) => Asleep'
<1> SUFFICES ASSUME Asleep, Loop \/ Call PROVE Asleep'
  OBVIOUS
<1> USE DEF Asleep, SleepInv, AsleepIsQuiet, Pending
<1>1. CASE Loop
  BY <1>1 DEF Loop
<1>2. CASE Call
  BY <1>2 DEF Call, Spark_connect, Spark_process, Spark_disconnect, WiFi_connect, WiFi_disconnect,
              WiFi_on, WiFi_off, WiFi_listen, ConnectAnew, StartModule, NoCloud
<1>3. QED
  BY <1>1, <1>2

\* The module raises flags by its events only, and there are none while it is off.
LEMMA EventKeepsAsleep == Asleep /\ (Event \/ WatchdogExpires \/ Button) => Asleep'
<1> SUFFICES ASSUME Asleep, Event \/ WatchdogExpires \/ Button PROVE Asleep'
  OBVIOUS
<1> USE DEF Asleep, SleepInv, AsleepIsQuiet, Pending, Idle
<1>1. CASE UnsolConnect \/ UnsolDisconnect \/ GotAddress \/ NoAddress
  BY <1>1 DEF UnsolConnect, UnsolDisconnect, GotAddress, NoAddress
<1>2. CASE TcpCloseWait \/ ServerFallsSilent
  BY <1>2 DEF TcpCloseWait, ServerFallsSilent, NoCloud
<1>3. CASE WatchdogExpires \/ Button
  BY <1>3 DEF WatchdogExpires, Button
<1>4. QED
  BY <1>1, <1>2, <1>3 DEF Event

LEMMA AsleepStep == Asleep /\ [Next]_vars => Asleep'
<1>1. Asleep /\ UNCHANGED vars => Asleep'
  BY DEF Asleep, SleepInv, AsleepIsQuiet, vars
<1>2. QED
  BY <1>1, LoopKeepsAsleep, KeepCloudKeepsAsleep, ApplicationKeepsAsleep, EventKeepsAsleep
  DEF Next, Round

---------------------------------------------------------------------------
\* reset is only taken back together with the count, and the count only grows
\* with a failed attempt.
LEMMA FailuresStep == TypeOK /\ FailuresReset /\ [Next]_vars => FailuresReset'
<1> SUFFICES ASSUME TypeOK, FailuresReset, [Next]_vars PROVE FailuresReset'
  OBVIOUS
<1>1. CASE ConnectFails
  BY <1>1, ConnectFailsCounts
<1>2. CASE ConnectSucceeds \/ ClearFlags
  BY <1>2 DEF FailuresReset, ConnectSucceeds, ClearFlags
<1>3. CASE ~ConnectFails /\ ~ConnectSucceeds /\ ~ClearFlags
  <2>1. UNCHANGED <<failed, reset>>
    <3>1. CASE Setup \/ Network \/ Configure \/ EndSmartConfig
      BY <1>3, <3>1 DEF Setup, Network, Configure, EndSmartConfig, BeginReset, NothingToReset,
                        BeginStart, Start, BeginSmartConfig, NoSmartConfig
    <3>2. CASE KeepCloud
      BY <1>3, <3>2 DEF KeepCloud, CloudUnwanted, CloudKept, BeginConnect, SetSocketed,
                        ConnectFailsInReset, HandshakeSucceeds, HandshakeFails, SetConnected,
                        NoHandshake, ServeGivesUp, Serve
    <3>3. CASE Loop \/ Call
      BY <3>3 DEF Loop, Call, Spark_connect, Spark_process, Spark_disconnect, WiFi_disconnect,
                  WiFi_on, WiFi_off, WiFi_listen
    <3>4. CASE Event \/ WatchdogExpires \/ Button \/ UNCHANGED vars
      BY <3>4 DEF Event, UnsolConnect, UnsolDisconnect, GotAddress, NoAddress, TcpCloseWait,
                  ServerFallsSilent, WatchdogExpires, Button, Idle, vars
    <3>5. QED
      BY <3>1, <3>2, <3>3, <3>4 DEF Next, Round
  <2>2. QED
    BY <2>1 DEF FailuresReset
<1>4. QED
  BY <1>1, <1>2, <1>3

LEMMA IInvHolds == Spec => []IInv
<1>1. IInv /\ [Next]_vars => IInv'
  BY TypeStep, FailuresStep, AsleepStep DEF IInv
<1>2. QED
  BY InitIInv, <1>1, PTL DEF Spec

\* Types, and with them that the count stays within one of its limit.
THEOREM TypeCorrect == Spec => []TypeOK
<1>1. IInv => TypeOK
  BY DEF IInv
<1>2. QED
  BY IInvHolds, <1>1, PTL

\* Once WiFi has been switched off and the loop has seen it, no flag says that
\* there is a network or a cloud, whatever was under way.
THEOREM SleepIsQuiet == Spec => []AsleepIsQuiet
<1>1. IInv => AsleepIsQuiet
  BY DEF IInv, Asleep
<1>2. QED
  BY IInvHolds, <1>1, PTL

\* However failures are counted, by one or by two, none runs past the limit
\* without a reset being asked for, at every limit.
THEOREM FailuresAskForReset == Spec => []FailuresReset
<1>1. IInv => FailuresReset
  BY DEF IInv
<1>2. QED
  BY IInvHolds, <1>1, PTL
=============================================================================
