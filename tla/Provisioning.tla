---------------------------- MODULE Provisioning ----------------------------
(***************************************************************************)
(* ProvisioningWifiConnector: the device opens an access point, takes the  *)
(* name of a network over HTTP, joins it, and closes the access point when *)
(* the client says it has finished.  Only then the TCP server may start.   *)
(*                                                                         *)
(* The network itself is outside: whether and when a join succeeds, and    *)
(* whether the connection is lost later, is a choice.  Automatic reconnect *)
(* is switched off.  A request can arrive over the access point or, once   *)
(* joined, over the network: the HTTP server is never stopped.  Requests   *)
(* for the status change nothing and are left out.                         *)
(***************************************************************************)
EXTENDS Naturals

CONSTANTS
  MaxHttpRequests,   \* bound on the requests to provision and to finish
  ConnectTimeout,    \* kConnectTimeoutMs
  ShutdownDelay      \* kFinishApShutdownDelayMs

ASSUME ProvisioningAssumption ==
  MaxHttpRequests \in Nat /\ ConnectTimeout \in Nat /\ ShutdownDelay \in Nat

VARIABLES
  wifiState,           \* state_
  attemptCount,        \* attemptCount_
  connectAge,          \* since connectStartedAtMs_
  pendingApShutdown,   \* pendingApShutdown_
  shutdownAge,         \* since apShutdownRequestedAtMs_
  tcpReady,            \* tcpReady_
  apOn,                \* the access point is open
  radio,               \* what WiFi.status() says
  requests,            \* how many requests came
  finishedAttempt      \* history: the attempt the last accepted finish was about

wifiVars == <<wifiState, attemptCount, connectAge, pendingApShutdown, shutdownAge, tcpReady,
              apOn, radio, requests, finishedAttempt>>

WifiState == {"provisioningAp", "staConnecting", "staConnected", "staFailed"}
Radio == {"idle", "connected", "noSsid", "connectFailed", "lost"}

\* Type invariant of the connector.
WifiTypeOK ==
  /\ wifiState \in WifiState /\ radio \in Radio
  /\ attemptCount \in 0..MaxHttpRequests /\ requests \in 0..MaxHttpRequests
  /\ connectAge \in 0..(ConnectTimeout + 1) /\ shutdownAge \in 0..ShutdownDelay
  /\ pendingApShutdown \in BOOLEAN /\ tcpReady \in BOOLEAN /\ apOn \in BOOLEAN
  /\ finishedAttempt \in 0..MaxHttpRequests

\* begin
WifiInit ==
  /\ wifiState = "provisioningAp" /\ attemptCount = 0 /\ connectAge = 0
  /\ pendingApShutdown = FALSE /\ shutdownAge = 0 /\ tcpReady = FALSE
  /\ apOn = TRUE /\ radio = "idle" /\ requests = 0 /\ finishedAttempt = 0

----------------------------------------------------------------------------
(* tick: at most one request, the delayed shutdown, the state of the join. *)

Reachable == apOn \/ radio = "connected"

NoRequest == UNCHANGED wifiVars

\* Mutated form of StartConnection: a shutdown that waits is not called off.
StartConnectionOnly ==
  /\ attemptCount' = attemptCount + 1
  /\ connectAge' = 0
  /\ wifiState' = "staConnecting"
  /\ tcpReady' = FALSE
  /\ apOn' = TRUE /\ radio' = "idle"
  /\ UNCHANGED <<pendingApShutdown, shutdownAge, finishedAttempt>>

\* The station leaves its network; WIFI_AP_STA opens the access point again.
StartConnection ==
  /\ attemptCount' = attemptCount + 1
  /\ connectAge' = 0
  /\ wifiState' = "staConnecting"
  /\ tcpReady' = FALSE
  /\ pendingApShutdown' = FALSE
  /\ apOn' = TRUE /\ radio' = "idle"
  /\ UNCHANGED <<shutdownAge, finishedAttempt>>

\* handleProvisionRoute; without a name the request is answered with an error.
Provision ==
  \/ StartConnection
  \/ UNCHANGED <<wifiState, attemptCount, connectAge, pendingApShutdown, shutdownAge, tcpReady,
                 apOn, radio, finishedAttempt>>

\* Mutated form of FinishAllowed: the state of the join does not matter.
FinishAtAnyTime == TRUE

FinishAllowed == wifiState = "staConnected"

\* handleFinishRoute
Finish ==
  /\ IF FinishAllowed
       THEN pendingApShutdown' = TRUE /\ shutdownAge' = 0 /\ finishedAttempt' = attemptCount
       ELSE UNCHANGED <<pendingApShutdown, shutdownAge, finishedAttempt>>
  /\ UNCHANGED <<wifiState, attemptCount, connectAge, tcpReady, apOn, radio>>

HandleClient ==
  \/ NoRequest
  \/ /\ Reachable /\ requests < MaxHttpRequests
     /\ requests' = requests + 1
     /\ Provision \/ Finish

\* Mutated form of FinishApIfDue: nobody is told that the server may start.
FinishApSilently ==
  IF pendingApShutdown /\ shutdownAge >= ShutdownDelay
    THEN /\ pendingApShutdown' = FALSE /\ apOn' = FALSE
         /\ UNCHANGED <<wifiState, attemptCount, connectAge, shutdownAge, tcpReady, radio,
                        requests, finishedAttempt>>
    ELSE UNCHANGED wifiVars

\* finishProvisioningApIfDue: whether the station is still connected is not asked.
FinishApIfDue ==
  IF pendingApShutdown /\ shutdownAge >= ShutdownDelay
    THEN /\ pendingApShutdown' = FALSE /\ apOn' = FALSE /\ tcpReady' = TRUE
         /\ UNCHANGED <<wifiState, attemptCount, connectAge, shutdownAge, radio, requests,
                        finishedAttempt>>
    ELSE UNCHANGED wifiVars

\* Mutated form of ConnectTimedOut: a join that gets no answer goes on.
NeverTimedOut == FALSE

ConnectTimedOut == connectAge > ConnectTimeout

FailConnection == wifiState' = "staFailed" /\ radio' = "idle"

JoinFailed == radio \in {"noSsid", "connectFailed"} \/ ConnectTimedOut

PollWifiState ==
  /\ \/ /\ wifiState = "staConnecting" /\ radio = "connected"
        /\ wifiState' = "staConnected" /\ UNCHANGED radio
     \/ /\ wifiState = "staConnecting" /\ radio # "connected" /\ JoinFailed
        /\ FailConnection
     \/ /\ wifiState = "staConnecting" => radio # "connected" /\ ~JoinFailed
        /\ UNCHANGED <<wifiState, radio>>
  /\ UNCHANGED <<attemptCount, connectAge, pendingApShutdown, shutdownAge, tcpReady, apOn,
                 requests, finishedAttempt>>

\* consumeTcpReady
ConsumeTcpReady ==
  /\ tcpReady /\ tcpReady' = FALSE
  /\ UNCHANGED <<wifiState, attemptCount, connectAge, pendingApShutdown, shutdownAge, apOn,
                 radio, requests, finishedAttempt>>

----------------------------------------------------------------------------
(* The network and time. *)

RadioChanges ==
  /\ \/ wifiState = "staConnecting" /\ radio = "idle"
        /\ radio' \in {"connected", "noSsid", "connectFailed", "lost"}
     \/ radio = "connected" /\ radio' = "lost"
  /\ UNCHANGED <<wifiState, attemptCount, connectAge, pendingApShutdown, shutdownAge, tcpReady,
                 apOn, requests, finishedAttempt>>

WifiTimePasses ==
  /\ connectAge' = IF wifiState = "staConnecting" /\ connectAge <= ConnectTimeout
                     THEN connectAge + 1 ELSE connectAge
  /\ shutdownAge' = IF pendingApShutdown /\ shutdownAge < ShutdownDelay
                      THEN shutdownAge + 1 ELSE shutdownAge
  /\ UNCHANGED <<wifiState, attemptCount, pendingApShutdown, tcpReady, apOn, radio, requests,
                 finishedAttempt>>
=============================================================================
