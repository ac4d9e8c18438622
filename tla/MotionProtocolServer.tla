------------------------ MODULE MotionProtocolServer ------------------------
(***************************************************************************)
(* The TCP side of the firmware: one client at a time, a handshake before  *)
(* any command, requests handled in the order of their lines, and runtime  *)
(* events sent to whoever is connected when they are drained.  A request   *)
(* that fails validation, a heartbeat and a snapshot change no state and   *)
(* are all of type "other".  Answers to requests are not kept; the results *)
(* sent for a block are, as history.                                       *)
(***************************************************************************)
EXTENDS AutoTyperApplication, Sequences

CONSTANTS
  MaxSessions,  \* bound: TCP connections made during a run
  MaxRequests,  \* bound: requests sent during a run
  MaxUnread     \* bound: requests waiting in the socket

ASSUME ServerAssumption ==
  /\ MaxSessions \in Nat
  /\ MaxRequests \in Nat
  /\ MaxUnread \in Nat

VARIABLES
  session,     \* the connection held in client_, 0 for none
  linkUp,      \* client_.connected()
  handshaken,  \* handshaken_
  rx,          \* request lines not read yet
  backlog,     \* the connection server_.available() would return, 0 for none
  owner,       \* history: the session whose request job jobId is
  results      \* history: the block_result messages sent for each job

clientVars == <<session, linkUp, handshaken, rx, backlog>>
historyVars == <<owner, results>>
serverVars == <<clientVars, historyVars>>

Sessions == 1..MaxSessions
Jobs == 1..MaxRequests

PlainType == {"handshake", "other", "finish_task", "emergency_stop", "reset_fault"}
Request ==
  [type : PlainType, block : {NoBlock}]
  \cup [type : {"execute_block"}, block : Blocks]
  \cup [type : {"cancel"}, block : MaybeBlock]

\* Type invariants of the connection and of the history kept about it.
ClientTypeOK ==
  /\ session \in 0..MaxSessions /\ backlog \in 0..MaxSessions
  /\ rx \in Seq(Request)
LinkTypeOK == linkUp \in BOOLEAN /\ handshaken \in BOOLEAN
Result == [status : FinalStatus, to : 0..MaxSessions]
HistoryTypeOK ==
  /\ owner \in 0..MaxSessions
  /\ results \in [Jobs -> Seq(Result)]

ServerInit ==
  /\ session = 0 /\ linkUp = FALSE /\ handshaken = FALSE
  /\ rx = <<>>
  /\ backlog = 0
  /\ owner = 0
  /\ results = [j \in Jobs |-> <<>>]

\* Mutated form of Deliverable: a failure is left to the fault event.
DeliverableUnlessFailed ==
  session # 0 /\ linkUp /\ handshaken /\ remoteFinalStatus # "failed"

Deliverable == session # 0 /\ linkUp /\ handshaken

----------------------------------------------------------------------------
(* The parts of tick(), in order. *)

DisconnectClient ==
  /\ CancelQueuedRemoteBlock(NoBlock)
  /\ session' = 0 /\ linkUp' = FALSE /\ handshaken' = FALSE
  /\ rx' = <<>>
  /\ UNCHANGED <<backlog, historyVars>>

\* The client is gone, or it let the handshake timeout pass.
DropClient ==
  /\ session # 0
  /\ ~linkUp \/ ~handshaken
  /\ DisconnectClient

\* client_ as a condition may itself ask connected(): a lost link may go unnoticed.
KeepClient == UNCHANGED <<execVars, busVars, appVars, serverVars>>

DrainRuntimeEvents ==
  /\ ConsumeEvents
  /\ results' = IF remoteFinalPending /\ Deliverable
                THEN [results EXCEPT ![remoteFinalJob] =
                        Append(@, [status |-> remoteFinalStatus, to |-> session])]
                ELSE results
  /\ UNCHANGED <<clientVars, owner>>

AcceptClient ==
  /\ backlog # 0
  /\ session = 0 \/ ~linkUp
  /\ session' = backlog
  /\ linkUp' = TRUE
  /\ handshaken' = FALSE
  /\ rx' = <<>>
  /\ backlog' = 0
  /\ UNCHANGED <<execVars, busVars, appVars, historyVars>>

\* A second client is answered device_busy and closed.
RefuseClient ==
  /\ backlog # 0
  /\ session # 0 /\ linkUp
  /\ backlog' = 0
  /\ UNCHANGED <<execVars, busVars, appVars, session, linkUp, handshaken, rx, historyVars>>

NoIncomingClient ==
  /\ backlog = 0
  /\ UNCHANGED <<execVars, busVars, appVars, serverVars>>

----------------------------------------------------------------------------
(* handleLine, one disjunct per request type. *)

HandleHandshake ==
  /\ Head(rx).type = "handshake"
  /\ handshaken' = TRUE
  /\ UNCHANGED <<execVars, busVars, appVars, owner>>

HandleExecuteBlock ==
  /\ handshaken /\ Head(rx).type = "execute_block"
  /\ SubmitRemoteBlock(Head(rx).block)
  /\ owner' = session
  /\ UNCHANGED handshaken

HandleCancel ==
  /\ handshaken /\ Head(rx).type = "cancel"
  /\ CancelQueuedRemoteBlock(Head(rx).block)
  /\ UNCHANGED <<handshaken, owner>>

HandleFinishTask ==
  /\ handshaken /\ Head(rx).type = "finish_task"
  /\ FinishRemoteTask
  /\ UNCHANGED <<handshaken, owner>>

HandleEmergencyStop ==
  /\ handshaken /\ Head(rx).type = "emergency_stop"
  /\ EmergencyStop
  /\ UNCHANGED <<handshaken, owner>>

HandleResetFault ==
  /\ handshaken /\ Head(rx).type = "reset_fault"
  /\ ResetFault
  /\ UNCHANGED <<handshaken, owner>>

\* Answered with protocol_error, a negative result or a report, and nothing else.
HandleOther ==
  /\ \/ ~handshaken /\ Head(rx).type # "handshake"
     \/ Head(rx).type = "other"
     \/ Head(rx).type = "execute_block" /\ ~AcceptsBlock
     \/ Head(rx).type = "finish_task" /\ (Busy \/ remoteCommandActive)
  /\ UNCHANGED <<execVars, busVars, appVars, handshaken, owner>>

HandleLine ==
  /\ rx # <<>>
  /\ \/ HandleHandshake \/ HandleExecuteBlock \/ HandleCancel \/ HandleFinishTask
     \/ HandleEmergencyStop \/ HandleResetFault \/ HandleOther
  /\ rx' = Tail(rx)
  /\ UNCHANGED <<session, linkUp, backlog, results>>
=============================================================================
