--------------------------- MODULE StartupProofs ----------------------------
(***************************************************************************)
(* The start of the firmware, for any motors, any counts and any number of *)
(* requests.  The invariant says what setup has established at each of its *)
(* parts, and what a shutdown that waits, or a server that may start, rest *)
(* on in the connector.                                                    *)
(***************************************************************************)
EXTENDS Startup, TLAPS

\* An acknowledged clear was heard: the motor counts from its origin.
ClearedCountsZero == \A m \in Motors : clearAcked[m] => counter[m] = 0

\* Each attempt to join was asked for.
AttemptsWereAsked == attemptCount <= requests

\* A portal that is to close, or is closed, belongs to the attempt that was finished.
FinishedIsJoined ==
  pendingApShutdown \/ ~apOn =>
    wifiState = "staConnected" /\ finishedAttempt = attemptCount

\* A join that succeeded was answered by a network, which may be lost again.
JoinedWasAnswered == wifiState = "staConnected" => radio \in {"connected", "lost"}

\* The server may start only once the portal is closed.
ReadyMeansClosed == tcpReady => ~apOn

\* Nothing uses the application before its server: no job, no result; a fault is
\* one of the setup, which then is over, or of the bus.
ApplicationUnused ==
  /\ ExecInit
  /\ jobState = "none" \/ (faulted /\ jobState = "failed")
  /\ jobId = 0 /\ remoteCommandActive = FALSE /\ activeSteps = NoBlock /\ elapsed = 0
  /\ remoteFinalPending = FALSE /\ remoteFinalStatus = "none" /\ remoteFinalJob = 0
  /\ faulted \in BOOLEAN /\ remoteFaultNotified = faulted /\ stopLatched = FALSE
  /\ display = (IF faulted THEN "error" ELSE "idle") /\ completeShown = "no"
  /\ pc # "can" /\ ~canReady /\ ~canFatal => faulted
  /\ ~Booted => ~faulted

WifiInvariant ==
  WifiTypeOK /\ AttemptsWereAsked /\ FinishedIsJoined /\ JoinedWasAnswered /\ ReadyMeansClosed
MotorInvariant == MotorTypeOK /\ ClearedCountsZero

StartupInvariant ==
  /\ BusTypeOK /\ pc \in SetupPc \cup LoopPc /\ serverStarted \in BOOLEAN
  /\ WifiInvariant
  /\ MotorInvariant
  /\ ApplicationUnused
  /\ ReadyAtOrigin

USE DEF execVars, busVars, slotVars, finalVars, faultVars, displayVars, appVars,
        deviceVars, wifiVars, motorVars, vars, Goto

----------------------------------------------------------------------------
(* The connector. *)

LEMMA WifiBegins == WifiInit => WifiInvariant
<1> SUFFICES ASSUME WifiInit PROVE WifiInvariant
  OBVIOUS
<1> USE DEF WifiInit
<1>1. WifiTypeOK
  <2>1. /\ attemptCount \in 0..MaxHttpRequests /\ requests \in 0..MaxHttpRequests
        /\ connectAge \in 0..(ConnectTimeout + 1) /\ shutdownAge \in 0..ShutdownDelay
        /\ finishedAttempt \in 0..MaxHttpRequests
    BY ProvisioningAssumption
  <2>2. /\ wifiState \in WifiState /\ radio \in Radio /\ apOn \in BOOLEAN
        /\ pendingApShutdown \in BOOLEAN /\ tcpReady \in BOOLEAN
    BY Zenon DEF WifiState, Radio
  <2> QED
    BY <2>1, <2>2 DEF WifiTypeOK
<1>2. AttemptsWereAsked
  BY DEF AttemptsWereAsked
<1>3. FinishedIsJoined /\ JoinedWasAnswered /\ ReadyMeansClosed
  BY DEF FinishedIsJoined, JoinedWasAnswered, ReadyMeansClosed
<1> QED
  BY <1>1, <1>2, <1>3 DEF WifiInvariant

\* A request over HTTP: a new attempt calls a waiting shutdown off, a finish is
\* granted only while the device is joined.
LEMMA RequestKeeps == WifiInvariant /\ HandleClient => WifiInvariant'
<1> USE DEF WifiInvariant, AttemptsWereAsked, FinishedIsJoined, JoinedWasAnswered, ReadyMeansClosed
<1> SUFFICES ASSUME WifiInvariant, HandleClient PROVE WifiInvariant'
  OBVIOUS
<1>1. CASE NoRequest
  BY <1>1 DEF NoRequest, WifiTypeOK
<1>2. ASSUME requests < MaxHttpRequests, requests' = requests + 1, Provision \/ Finish
      PROVE  /\ requests' \in 0..MaxHttpRequests
             /\ attemptCount' \in 0..MaxHttpRequests /\ attemptCount' <= requests'
             /\ finishedAttempt' \in 0..MaxHttpRequests
             /\ connectAge' \in 0..(ConnectTimeout + 1) /\ shutdownAge' \in 0..ShutdownDelay
  BY <1>2, ProvisioningAssumption
     DEF Provision, StartConnection, Finish, WifiTypeOK
<1>3. ASSUME Provision \/ Finish
      PROVE  /\ wifiState' \in WifiState /\ radio' \in Radio /\ apOn' \in BOOLEAN
             /\ pendingApShutdown' \in BOOLEAN /\ tcpReady' \in BOOLEAN
  BY <1>3, Zenon DEF Provision, StartConnection, Finish, WifiTypeOK, WifiState, Radio
<1>4. ASSUME Provision \/ Finish
      PROVE  FinishedIsJoined' /\ JoinedWasAnswered' /\ ReadyMeansClosed'
  BY <1>4 DEF Provision, StartConnection, Finish, FinishAllowed
<1> QED
  BY <1>1, <1>2, <1>3, <1>4 DEF HandleClient, WifiTypeOK

\* The rest of the connector's tick, the network and time.
LEMMA WifiKeeps ==
  ASSUME WifiInvariant,
         \/ FinishApIfDue \/ PollWifiState \/ ConsumeTcpReady \/ RadioChanges
         \/ WifiTimePasses \/ UNCHANGED wifiVars
  PROVE  WifiInvariant'
<1> USE ProvisioningAssumption
    DEF WifiInvariant, WifiTypeOK, WifiState, Radio, AttemptsWereAsked, FinishedIsJoined,
        JoinedWasAnswered, ReadyMeansClosed
<1>1. CASE FinishApIfDue
  BY <1>1 DEF FinishApIfDue
<1>2. CASE PollWifiState
  BY <1>2 DEF PollWifiState, FailConnection
<1>3. CASE ConsumeTcpReady
  BY <1>3 DEF ConsumeTcpReady
<1>4. CASE RadioChanges
  BY <1>4 DEF RadioChanges
<1>5. CASE WifiTimePasses
  BY <1>5 DEF WifiTimePasses
<1>6. CASE UNCHANGED wifiVars
  BY <1>6
<1> QED
  BY <1>1, <1>2, <1>3, <1>4, <1>5, <1>6

----------------------------------------------------------------------------
(* The motors. *)

\* A clear that is acknowledged was heard, and a motor that heard it counts from 0.
LEMMA ClearKeeps == MotorInvariant /\ ClearMotors => MotorInvariant'
<1> SUFFICES ASSUME MotorInvariant,
                    NEW heard \in SUBSET Motors, NEW acked \in SUBSET heard, Cleared(heard),
                    clearAcked' = [m \in Motors |-> m \in acked], UNCHANGED seen
             PROVE  MotorInvariant'
  BY DEF ClearMotors
<1>1. counter' \in [Motors -> Counts]
  BY StartupAssumption DEF MotorInvariant, MotorTypeOK, Cleared
<1>2. \A m \in heard : counter'[m] = 0
  BY DEF Cleared
<1>3. clearAcked' \in [Motors -> BOOLEAN]
  BY SMT
<1>4. \A m \in Motors : clearAcked'[m] => m \in heard
  BY Zenon
<1> QED
  BY <1>1, <1>2, <1>3, <1>4 DEF MotorInvariant, MotorTypeOK, ClearedCountsZero

LEMMA PollKeeps == MotorInvariant /\ PollMotors => MotorInvariant'
<1> SUFFICES ASSUME MotorInvariant, NEW answers \in SUBSET Motors, seen' = Sampled(answers),
                    UNCHANGED <<counter, clearAcked>>
             PROVE  MotorInvariant'
  BY DEF PollMotors
<1>1. seen' \in [Motors -> Counts \cup {NoSample}]
  BY DEF Sampled, MotorInvariant, MotorTypeOK
<1> QED
  BY <1>1 DEF MotorInvariant, MotorTypeOK, ClearedCountsZero

\* When setup ends, with or without a refused clear, no acknowledgement is kept.
LEMMA ForgetKeeps ==
  ASSUME MotorInvariant, ForgetSamples,
         UNCHANGED counter \/ \E heard \in SUBSET Motors : Cleared(heard)
  PROVE  MotorInvariant'
<1>1. counter' \in [Motors -> Counts]
  BY StartupAssumption DEF MotorInvariant, MotorTypeOK, Cleared
<1>2. seen' \in [Motors -> Counts \cup {NoSample}]
  BY DEF ForgetSamples, Nothing
<1>3. clearAcked' \in [Motors -> BOOLEAN] /\ \A m \in Motors : ~clearAcked'[m]
  BY DEF ForgetSamples
<1> QED
  BY <1>1, <1>2, <1>3 DEF MotorInvariant, MotorTypeOK, ClearedCountsZero

----------------------------------------------------------------------------
(* The invariant. *)

LEMMA InvariantBegins == Init => StartupInvariant
<1> SUFFICES ASSUME Init PROVE StartupInvariant
  OBVIOUS
<1>1. WifiInvariant
  BY WifiBegins DEF Init
<1>2. MotorInvariant
  BY DEF Init, MotorInit, MotorInvariant, MotorTypeOK, ClearedCountsZero, Nothing
<1>3. ApplicationUnused
  BY DEF Init, ApplicationUnused, Booted
<1>4. ReadyAtOrigin
  BY DEF Init, ReadyAtOrigin, Booted, SetupPc
<1> QED
  BY <1>1, <1>2, <1>3, <1>4 DEF Init, StartupInvariant, BusTypeOK, SetupPc

\* A read of the alerts leaves the controller ready or its fault recorded.
LEMMA AlertsRead ==
  ASSUME BusTypeOK, ReadAlerts
  PROVE  BusTypeOK' /\ (~canReady' /\ ~canFatal' => ~canReady /\ ~canFatal)
  BY DEF ReadAlerts, BusOff, BusTypeOK

\* The parts of setup.  The device is not faulted before setup returns.
LEMMA SetupKeepsInvariant == StartupInvariant /\ Setup => StartupInvariant'
<1> SUFFICES ASSUME StartupInvariant, Setup PROVE StartupInvariant'
  OBVIOUS
<1> USE DEF SetupKeeps
<1>1. WifiInvariant'
  <2>1. UNCHANGED wifiVars
    BY DEF Setup, BeginCan, ProbeMotors, ClearOrigin, ClearRefused, PollOrigin, VerifyOrigin
  <2> QED
    BY <2>1, WifiKeeps DEF StartupInvariant
<1>2. MotorInvariant'
  <2>1. CASE BeginCan
    BY <2>1 DEF BeginCan, StartupInvariant, MotorInvariant, MotorTypeOK, ClearedCountsZero
  <2>2. CASE ProbeMotors \/ PollOrigin
    BY <2>2, PollKeeps DEF ProbeMotors, PollOrigin, StartupInvariant
  <2>3. CASE ClearOrigin
    BY <2>3, ClearKeeps DEF ClearOrigin, StartupInvariant
  <2>4. CASE ClearRefused
    BY <2>4, ForgetKeeps DEF ClearRefused, StartupInvariant
  <2>5. CASE VerifyOrigin
    BY <2>5, ForgetKeeps DEF VerifyOrigin, StartupInvariant
  <2> QED
    BY <2>1, <2>2, <2>3, <2>4, <2>5 DEF Setup
<1> USE DEF StartupInvariant, ApplicationUnused, Booted, SetupPc, LoopPc, ExecInit
<1>3. CASE BeginCan
  <2>1. BusTypeOK' /\ serverStarted' \in BOOLEAN
    BY <1>3, Zenon DEF BeginCan, BusTypeOK
  <2>2. CASE canReady' = TRUE /\ pc' = "probe" /\ UNCHANGED <<faultVars, displayVars>>
    BY <1>1, <1>2, <1>3, <2>1, <2>2 DEF BeginCan, ReadyAtOrigin
  <2>3. CASE SetupFails
    BY <1>1, <1>2, <1>3, <2>1, <2>3 DEF BeginCan, SetupFails, SetFault, ReadyAtOrigin
  <2> QED
    BY <1>3, <2>2, <2>3 DEF BeginCan
<1>4. CASE ProbeMotors \/ ClearOrigin \/ PollOrigin
  BY <1>1, <1>2, <1>4, AlertsRead DEF ProbeMotors, ClearOrigin, PollOrigin, ReadyAtOrigin
<1>5. CASE ClearRefused
  BY <1>1, <1>2, <1>5 DEF ClearRefused, SetupFails, SetFault, BusTypeOK, ReadyAtOrigin
<1>6. CASE VerifyOrigin
  <2>1. CASE AtOrigin
    <3>1. \A m \in Motors : counter'[m] = 0
      BY <1>6, <2>1 DEF VerifyOrigin, AtOrigin, MotorInvariant, ClearedCountsZero
    <3> QED
      BY <1>1, <1>2, <1>6, <2>1, <3>1 DEF VerifyOrigin, BusTypeOK, ReadyAtOrigin
  <2>2. CASE ~AtOrigin
    BY <1>1, <1>2, <1>6, <2>2 DEF VerifyOrigin, SetupFails, SetFault, BusTypeOK, ReadyAtOrigin
  <2> QED
    BY <2>1, <2>2
<1> QED
  BY <1>3, <1>4, <1>5, <1>6 DEF Setup

\* The parts of the loop, the network and time.
LEMMA LoopKeepsInvariant ==
  StartupInvariant /\ (Loop \/ Outside \/ UNCHANGED vars) => StartupInvariant'
<1> SUFFICES ASSUME StartupInvariant, Loop \/ Outside \/ UNCHANGED vars
             PROVE  StartupInvariant'
  OBVIOUS
<1> USE DEF WifiOnly, AppKeeps
<1>1. WifiInvariant'
  BY RequestKeeps, WifiKeeps
     DEF StartupInvariant, Loop, Outside, ServeHttp, CloseAp, PollWifi, StartServer,
         NoServerToStart, Pump, CheckFatal, CheckDisplay
<1>2. UNCHANGED motorVars
  BY DEF Loop, Outside, ServeHttp, CloseAp, PollWifi, StartServer, NoServerToStart, Pump,
         CheckFatal, CheckDisplay
<1>3. MotorInvariant'
  BY <1>2 DEF StartupInvariant, MotorInvariant, MotorTypeOK, ClearedCountsZero
<1> USE DEF StartupInvariant, ApplicationUnused, Booted, SetupPc, LoopPc, ExecInit
<1>4. CASE ServeHttp \/ CloseAp \/ PollWifi \/ StartServer \/ NoServerToStart
  <2>1. serverStarted' \in BOOLEAN
    BY <1>4, Zenon DEF ServeHttp, CloseAp, PollWifi, StartServer, NoServerToStart
  <2> QED
    BY <1>1, <1>2, <1>3, <1>4, <2>1
       DEF ServeHttp, CloseAp, PollWifi, StartServer, NoServerToStart, BusTypeOK, ReadyAtOrigin
<1>5. CASE Pump
  BY <1>1, <1>2, <1>3, <1>5, AlertsRead DEF Pump, PumpCan, ReadyAtOrigin
<1>6. CASE CheckFatal
  BY <1>1, <1>2, <1>3, <1>6
     DEF CheckFatal, LatchCanFault, SetFault, Finalize, BusTypeOK, ReadyAtOrigin
<1>7. CASE CheckDisplay
  BY <1>1, <1>2, <1>3, <1>7 DEF CheckDisplay, TickDisplay, BusTypeOK, ReadyAtOrigin
<1>8. CASE Outside \/ UNCHANGED vars
  BY <1>1, <1>2, <1>3, <1>8 DEF Outside, BusTypeOK, ReadyAtOrigin
<1> QED
  BY <1>4, <1>5, <1>6, <1>7, <1>8 DEF Loop

\* The invariant of the start holds from power-on until the server runs, and after.
THEOREM StartupInvariance == Spec => []StartupInvariant
<1>1. Init => StartupInvariant
  BY InvariantBegins
<1>2. StartupInvariant /\ [Next]_vars => StartupInvariant'
  BY SetupKeepsInvariant, LoopKeepsInvariant DEF Next
<1> QED
  BY <1>1, <1>2, PTL DEF Spec

----------------------------------------------------------------------------
(* The properties. *)

\* Every variable of the start keeps its type (members of the application, the
\* connector and the boot).
THEOREM StartupTypes == Spec => []StartupTypeOK
<1>1. StartupInvariant => StartupTypeOK
  <2> SUFFICES ASSUME StartupInvariant PROVE StartupTypeOK
    OBVIOUS
  <2> USE DEF StartupInvariant, ApplicationUnused
  <2>1. JobTypeOK
    BY ApplicationAssumption DEF JobTypeOK, JobState, MaybeBlock, FinalStatus
  <2>2. FlagTypeOK /\ DisplayTypeOK
    BY DEF FlagTypeOK, DisplayTypeOK, Display, CompleteShown
  <2>3. ExecTypeOK
    BY DEF ExecInit, ExecTypeOK, ExecState, ExecStage
  <2> QED
    BY <2>1, <2>2, <2>3 DEF StartupTypeOK, WifiInvariant, MotorInvariant
<1> QED
  BY <1>1, StartupInvariance, PTL

\* A device that comes up without a fault counts from the place its motors were put
\* at: prepareMotorsAtOrigin verifies what it has cleared.
THEOREM ReadyIsAtOrigin == Spec => []ReadyAtOrigin
<1>1. StartupInvariant => ReadyAtOrigin
  BY DEF StartupInvariant
<1> QED
  BY <1>1, StartupInvariance, PTL

\* The portal is closed only for the attempt whose finish was granted, after its join
\* had succeeded: handleProvisionRoute calls a waiting shutdown off.  That the network
\* is still there is not said, and not so (finishProvisioningApIfDue).
THEOREM PortalUntilJoined == Spec => []AccessPointUntilJoined
<1>1. StartupInvariant => AccessPointUntilJoined
  BY DEF StartupInvariant, WifiInvariant, FinishedIsJoined, JoinedWasAnswered,
         AccessPointUntilJoined
<1> QED
  BY <1>1, StartupInvariance, PTL

\* The step that starts the server, the only one there is.
LEMMA ServerStarts == Next /\ ~serverStarted /\ serverStarted' => tcpReady /\ pc = "server"
  BY DEF Next, Setup, BeginCan, ProbeMotors, ClearOrigin, ClearRefused, PollOrigin, VerifyOrigin,
         SetupKeeps, Loop, ServeHttp, CloseAp, PollWifi, StartServer, NoServerToStart, Pump,
         CheckFatal, CheckDisplay, WifiOnly, AppKeeps, Outside, ConsumeTcpReady

\* The server starts only for the attempt whose finish was granted, with the portal
\* closed (consumeTcpReady).
THEOREM ServerIsForFinished == Spec => ServerStartsWhenFinished
<1>1. StartupInvariant /\ [Next]_vars =>
        [ ~serverStarted /\ serverStarted' =>
            /\ ~apOn /\ wifiState = "staConnected" /\ finishedAttempt = attemptCount ]_vars
  BY ServerStarts DEF StartupInvariant, WifiInvariant, FinishedIsJoined, ReadyMeansClosed
<1> QED
  BY <1>1, StartupInvariance, PTL DEF Spec, ServerStartsWhenFinished

\* The server meets the application in a state Firmware may begin with.
THEOREM FirmwareTakesOver == Spec => HandsOverToFirmware
<1>1. StartupInvariant /\ [Next]_vars => [ ~serverStarted /\ serverStarted' => AppInit ]_vars
  <2> SUFFICES ASSUME StartupInvariant, Next, ~serverStarted, serverStarted' PROVE AppInit
    OBVIOUS
  <2>1. pc = "server"
    BY ServerStarts
  <2>2. BusInit /\ ExecInit
    BY DEF StartupInvariant, ApplicationUnused, BusTypeOK, BusInit
  <2>3. faulted \in BOOLEAN
    BY DEF StartupInvariant, ApplicationUnused
  <2> QED
    BY <2>1, <2>2, <2>3 DEF AppInit, StartupInvariant, ApplicationUnused
<1> QED
  BY <1>1, StartupInvariance, PTL DEF Spec, HandsOverToFirmware
=============================================================================
