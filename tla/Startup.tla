------------------------------ MODULE Startup -------------------------------
(***************************************************************************)
(* The firmware from power-on to the start of its TCP server: the setup of *)
(* the application with its motors, then the main loop, which serves the   *)
(* provisioning portal, starts the server once the portal was finished,    *)
(* and ticks the application all the while.  Firmware goes on from there.  *)
(***************************************************************************)
EXTENDS AutoTyperApplication, Provisioning, MotorStartup

VARIABLES
  pc,              \* the next part of setup or of the loop
  serverStarted    \* gMotionServerStarted

deviceVars == <<execVars, busVars, appVars>>
vars == <<deviceVars, wifiVars, motorVars, pc, serverStarted>>

SetupPc == {"can", "probe", "clear", "poll", "verify"}
LoopPc == {"http", "ap", "wifi", "server", "pump", "check"}

Booted == pc \notin SetupPc

Goto(from, to) == pc = from /\ pc' = to

\* Before setup: the objects as they are constructed.
Init ==
  /\ ExecInit /\ canReady = FALSE /\ canFatal = FALSE
  /\ faulted = FALSE /\ remoteFaultNotified = FALSE /\ stopLatched = FALSE
  /\ jobState = "none" /\ jobId = 0 /\ remoteCommandActive = FALSE
  /\ activeSteps = NoBlock /\ elapsed = 0
  /\ remoteFinalPending = FALSE /\ remoteFinalStatus = "none" /\ remoteFinalJob = 0
  /\ display = "idle" /\ completeShown = "no"
  /\ WifiInit /\ MotorInit
  /\ pc = "can" /\ serverStarted = FALSE

----------------------------------------------------------------------------
(* AutoTyperApplication::setup.  The loop does not run meanwhile. *)

\* Mutated form of SetupFails: the error is not shown.
SetupFailsSilently ==
  /\ pc' = "http"
  /\ SetFault
  /\ UNCHANGED <<stopLatched, displayVars>>

\* setFault and showError, and setup returns.
SetupFails ==
  /\ pc' = "http"
  /\ SetFault /\ display' = "error"
  /\ UNCHANGED <<stopLatched, completeShown>>

SetupKeeps == UNCHANGED <<execVars, slotVars, finalVars, wifiVars, serverStarted>>

BeginCan ==
  /\ pc = "can"
  /\ \/ canReady' = TRUE /\ pc' = "probe" /\ UNCHANGED <<faultVars, displayVars>>
     \/ SetupFails /\ UNCHANGED canReady
  /\ UNCHANGED <<canFatal, motorVars>>
  /\ SetupKeeps

\* Every step that waits for answers reads the alerts of the bus too.
ProbeMotors ==
  /\ Goto("probe", "clear")
  /\ PollMotors /\ ReadAlerts
  /\ UNCHANGED <<faultVars, displayVars>> /\ SetupKeeps

ClearOrigin ==
  /\ Goto("clear", "poll")
  /\ ClearMotors /\ ReadAlerts
  /\ UNCHANGED <<faultVars, displayVars>> /\ SetupKeeps

\* No room in the transmit queue: the clears that were queued are sent all the same.
ClearRefused ==
  /\ pc = "clear"
  /\ \E heard \in SUBSET Motors : heard # Motors /\ Cleared(heard)
  /\ ForgetSamples
  /\ SetupFails
  /\ UNCHANGED busVars /\ SetupKeeps

PollOrigin ==
  /\ Goto("poll", "verify")
  /\ PollMotors /\ ReadAlerts
  /\ UNCHANGED <<faultVars, displayVars>> /\ SetupKeeps

VerifyOrigin ==
  /\ pc = "verify"
  /\ IF AtOrigin
       THEN /\ pc' = "http" /\ display' = "idle" /\ completeShown' = "no"
            /\ UNCHANGED faultVars
       ELSE SetupFails
  /\ ForgetSamples
  /\ UNCHANGED <<busVars, counter>> /\ SetupKeeps

Setup == BeginCan \/ ProbeMotors \/ ClearOrigin \/ ClearRefused \/ PollOrigin \/ VerifyOrigin

----------------------------------------------------------------------------
(* autoTyperLoop *)

WifiOnly == UNCHANGED <<deviceVars, motorVars, serverStarted>>

ServeHttp == Goto("http", "ap") /\ HandleClient /\ WifiOnly
CloseAp == Goto("ap", "wifi") /\ FinishApIfDue /\ WifiOnly
PollWifi == Goto("wifi", "server") /\ PollWifiState /\ WifiOnly

StartServer ==
  /\ Goto("server", "pump")
  /\ ~serverStarted /\ ConsumeTcpReady
  /\ serverStarted' = TRUE
  /\ UNCHANGED <<deviceVars, motorVars>>

\* A server that runs has no client here.
NoServerToStart ==
  /\ Goto("server", "pump")
  /\ serverStarted \/ ~tcpReady
  /\ UNCHANGED <<deviceVars, wifiVars, motorVars, serverStarted>>

\* The application's tick; without a job and a run there is nothing after these.
AppKeeps == UNCHANGED <<wifiVars, motorVars, serverStarted>>

Pump == Goto("pump", "check") /\ PumpCan /\ AppKeeps
CheckFatal == Goto("check", "http") /\ LatchCanFault /\ AppKeeps
CheckDisplay == Goto("check", "http") /\ TickDisplay /\ AppKeeps

Loop ==
  \/ ServeHttp \/ CloseAp \/ PollWifi \/ StartServer \/ NoServerToStart
  \/ Pump \/ CheckFatal \/ CheckDisplay

----------------------------------------------------------------------------

Outside ==
  /\ RadioChanges \/ WifiTimePasses
  /\ UNCHANGED <<deviceVars, motorVars, pc, serverStarted>>

Next == Setup \/ Loop \/ Outside

Spec == Init /\ [][Next]_vars

\* Setup and the loop go on, and so does time; the network owes nothing.
Passes == WifiTimePasses /\ UNCHANGED <<deviceVars, motorVars, pc, serverStarted>>
FairSpec == Spec /\ WF_vars(Setup \/ Loop) /\ WF_vars(Passes)

----------------------------------------------------------------------------
(* Properties. *)

\* Type invariant of the start.
StartupTypeOK ==
  /\ BusTypeOK /\ JobTypeOK /\ FlagTypeOK /\ DisplayTypeOK /\ ExecTypeOK
  /\ WifiTypeOK /\ MotorTypeOK
  /\ pc \in SetupPc \cup LoopPc /\ serverStarted \in BOOLEAN

\* A device that accepts motion has motors that count from the place the operator
\* put them at, whatever answers were lost while it started.
ReadyAtOrigin == Booted /\ ~faulted => \A m \in Motors : counter[m] = 0

\* The access point is closed only for the attempt whose finish the client was granted:
\* its join had succeeded, and no newer attempt was made between the finish and the
\* delayed shutdown.  The network may have been lost since (radio "lost"): nobody asks.
AccessPointUntilJoined ==
  ~apOn => /\ wifiState = "staConnected" /\ radio \in {"connected", "lost"}
           /\ finishedAttempt = attemptCount

\* The server starts only for the network whose finish the client was granted.
ServerStartsWhenFinished ==
  [][ ~serverStarted /\ serverStarted' =>
        /\ ~apOn /\ wifiState = "staConnected" /\ finishedAttempt = attemptCount ]_vars

\* The server meets an application in the state Firmware starts from.
HandsOverToFirmware == [][ ~serverStarted /\ serverStarted' => AppInit ]_vars

\* An attempt to join ends, with or without an answer of the network.
AttemptEnds == wifiState = "staConnecting" ~> wifiState # "staConnecting"

\* A finish that was granted starts the server, unless a new attempt is made.
FinishStartsServer ==
  \A a \in 1..MaxHttpRequests :
    finishedAttempt = a ~> serverStarted \/ attemptCount # a
=============================================================================
