------------------------------ MODULE Firmware ------------------------------
(***************************************************************************)
(* The main loop of the firmware and the clients around it.  The loop is   *)
(* one thread: a round runs MotionProtocolServer::tick, which may handle   *)
(* several request lines, and then AutoTyperApplication::tick.  Clients    *)
(* connect, send and disconnect between any two steps of the loop.         *)
(*                                                                         *)
(* The loop is modelled from the moment the TCP server was started.        *)
(***************************************************************************)
EXTENDS MotionProtocolServer, FiniteSets

VARIABLES
  pc,         \* the next part of the loop
  connects,   \* how many connections clients made
  sent        \* how many requests clients sent

loopVars == <<pc, connects, sent>>
vars == <<execVars, busVars, appVars, serverVars, loopVars>>

Pc == {"detect", "drain", "accept", "read", "drainAgain",
       "pump", "check", "start", "guard", "exec", "settle"}

Init ==
  /\ AppInit /\ ServerInit
  /\ pc = "detect" /\ connects = 0 /\ sent = 0

Goto(from, to) ==
  /\ pc = from /\ pc' = to
  /\ UNCHANGED <<connects, sent>>

----------------------------------------------------------------------------
(* MotionProtocolServer::tick *)

Detect == Goto("detect", "drain") /\ (DropClient \/ KeepClient)

Drain == Goto("drain", "accept") /\ DrainRuntimeEvents

\* readClient returns at once when nobody is connected.
Accept ==
  /\ AcceptClient \/ RefuseClient \/ NoIncomingClient
  /\ Goto("accept", IF session' # 0 /\ linkUp' THEN "read" ELSE "drainAgain")

ReadLine == Goto("read", "read") /\ HandleLine

\* No whole line is left, or the read budget of this round is used up.
ReadDone ==
  /\ Goto("read", "drainAgain")
  /\ UNCHANGED <<execVars, busVars, appVars, serverVars>>

DrainAgain == Goto("drainAgain", "pump") /\ DrainRuntimeEvents

(* AutoTyperApplication::tick *)

Pump == Goto("pump", "check") /\ PumpCan /\ UNCHANGED serverVars

CheckFatal == Goto("check", "detect") /\ LatchCanFault /\ UNCHANGED serverVars

CheckDisplay == Goto("check", "start") /\ TickDisplay /\ UNCHANGED serverVars

StartBlock == Goto("start", "guard") /\ StartQueued /\ UNCHANGED serverVars

RejectBlock == Goto("start", "detect") /\ RejectQueued /\ UNCHANGED serverVars

NothingToStart ==
  /\ Goto("start", "guard")
  /\ jobState # "queued"
  /\ UNCHANGED <<execVars, busVars, appVars, serverVars>>

RuntimeTimeout ==
  /\ Goto("guard", "detect")
  /\ RuntimeExceeded
  /\ EmergencyStop
  /\ UNCHANGED serverVars

WithinRuntime ==
  /\ Goto("guard", "exec")
  /\ ~RuntimeExceeded
  /\ UNCHANGED <<execVars, busVars, appVars, serverVars>>

Exec == Goto("exec", "settle") /\ RunExecutor /\ UNCHANGED serverVars

Settle ==
  /\ Goto("settle", "detect")
  /\ SettleFault \/ SettleCompleted \/ SettleNothing
  /\ UNCHANGED serverVars

Loop ==
  \/ Detect \/ Drain \/ Accept \/ ReadLine \/ ReadDone \/ DrainAgain
  \/ Pump \/ CheckFatal \/ CheckDisplay
  \/ StartBlock \/ RejectBlock \/ NothingToStart
  \/ RuntimeTimeout \/ WithinRuntime \/ Exec \/ Settle

----------------------------------------------------------------------------
(* Clients: any program that speaks the protocol, well-behaved or not. *)

Connect ==
  /\ backlog = 0
  /\ connects < MaxSessions
  /\ connects' = connects + 1
  /\ backlog' = connects + 1
  /\ UNCHANGED <<pc, sent, execVars, busVars, appVars, session, linkUp, handshaken, rx, historyVars>>

Send ==
  /\ session # 0 /\ linkUp
  /\ sent < MaxRequests
  /\ Len(rx) < MaxUnread
  /\ \E request \in Request : rx' = Append(rx, request)
  /\ sent' = sent + 1
  /\ UNCHANGED <<pc, connects, execVars, busVars, appVars, session, linkUp, handshaken, backlog,
                 historyVars>>

\* A closed connection may leave lines to read; a broken one leaves none.
Close ==
  /\ session # 0 /\ linkUp
  /\ linkUp' = FALSE
  /\ rx' \in {rx, <<>>}
  /\ UNCHANGED <<loopVars, execVars, busVars, appVars, session, handshaken, backlog, historyVars>>

Clients == Connect \/ Send \/ Close

Next == Loop \/ Clients

Spec == Init /\ [][Next]_vars

\* The loop never blocks for good and always runs again; clients owe nothing.
FairSpec == Spec /\ WF_vars(Loop)
=============================================================================
