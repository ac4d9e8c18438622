------------------------------- MODULE CanBus -------------------------------
(***************************************************************************)
(* The health of the CAN controller as the application reads it from       *)
(* CanBus: whether the TWAI driver is installed and whether a transport    *)
(* fault is recorded.  Alerts come from the bus, so what a read of them    *)
(* finds is a choice.                                                      *)
(***************************************************************************)

VARIABLES
  canReady,   \* ready_
  canFatal    \* diagnostics_.fatalFault

busVars == <<canReady, canFatal>>

\* After boot: a driver that could not be installed is not recorded as fatal.
BusInit ==
  /\ canReady \in BOOLEAN
  /\ canFatal \in BOOLEAN

\* Type invariant of the bus state.
BusTypeOK == canReady \in BOOLEAN /\ canFatal \in BOOLEAN

MotionTransportReady == canReady /\ ~canFatal

\* What a bus-off alert can leave behind: recovered, not restarted, or uninstalled.
BusOff ==
  \/ canReady' = TRUE  /\ canFatal' \in BOOLEAN
  \/ canReady' = FALSE /\ canFatal' = TRUE

\* An installed driver may report bus-off; recovery clears an earlier fatal fault too.
ReadAlerts ==
  \/ canReady /\ BusOff
  \/ UNCHANGED busVars

\* recoverOrClearFault, then alerts read while the motors are probed.
RecoverThenProbe(recovered) ==
  IF recovered \/ canReady THEN BusOff ELSE UNCHANGED busVars
=============================================================================
