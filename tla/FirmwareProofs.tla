--------------------------- MODULE FirmwareProofs ---------------------------
(***************************************************************************)
(* The safety properties of the firmware loop, for any set of blocks and   *)
(* any bounds.  FirmwareInvariant is inductive: each property is a conjunct *)
(* of it, and what it adds ties the pending outcome, the run and the        *)
(* history to the slot and to the place in the loop.                       *)
(***************************************************************************)
EXTENDS FirmwareProperties, SequenceTheorems, TLAPS

USE DEF execVars, busVars, slotVars, finalVars, faultVars, displayVars, appVars,
        clientVars, historyVars, serverVars, loopVars, vars, Goto

\* After setup() every variable has its type, whether or not the bus and the
\* motors came up.
LEMMA TypeInit == Init => TypeOK
<1> SUFFICES ASSUME Init PROVE TypeOK
  OBVIOUS
<1> USE ApplicationAssumption, ServerAssumption DEF Init, AppInit, ServerInit
<1>1. ExecTypeOK /\ BusTypeOK
  BY DEF ExecTypeOK, BusTypeOK, ExecInit, BusInit, ExecState, ExecStage
<1>2. JobTypeOK
  <2>1. activeSteps \in MaybeBlock
    BY DEF MaybeBlock
  <2> QED
    BY <2>1 DEF JobTypeOK, JobState, FinalStatus
<1>3. FlagTypeOK /\ LinkTypeOK
  BY DEF FlagTypeOK, LinkTypeOK
<1>4. DisplayTypeOK
  BY DEF DisplayTypeOK, Display, CompleteShown
<1>5. ClientTypeOK
  BY EmptySeq DEF ClientTypeOK
<1>6. HistoryTypeOK
  BY EmptySeq DEF HistoryTypeOK, Jobs
<1> QED
  BY <1>1, <1>2, <1>3, <1>4, <1>5, <1>6 DEF TypeOK, Pc

\* The execute_block line readClient hands to handleLine names a block.
LEMMA ExecuteNamesBlock ==
  ASSUME ClientTypeOK, rx # <<>>, Head(rx).type = "execute_block"
  PROVE  Head(rx).block \in MaybeBlock
<1>1. Head(rx) \in Request
  BY HeadTailProperties DEF ClientTypeOK
<1> QED
  BY <1>1 DEF Request, PlainType, MaybeBlock

\* drainRuntimeEvents sends results with a known status to a known session.
LEMMA DrainHistory ==
  ASSUME JobTypeOK, ClientTypeOK, HistoryTypeOK, DrainRuntimeEvents
  PROVE  HistoryTypeOK'
<1> DEFINE message == [status |-> remoteFinalStatus, to |-> session]
<1>1. message \in Result
  BY DEF Result, JobTypeOK, ClientTypeOK
<1>2. \A j \in Jobs : Append(results[j], message) \in Seq(Result)
  BY <1>1, AppendProperties DEF HistoryTypeOK
<1>3. results' \in [Jobs -> Seq(Result)]
  BY <1>2 DEF DrainRuntimeEvents, HistoryTypeOK
<1> QED
  BY <1>3 DEF DrainRuntimeEvents, HistoryTypeOK

\* drainRuntimeEvents sends nothing for a block that still holds the slot
\* afterwards, nor for one that is not accepted yet.
LEMMA DrainUnreported ==
  ASSUME JobTypeOK, HistoryTypeOK, PendingBelongsToSlot, UnendedUnreported,
         DrainRuntimeEvents
  PROVE  UnendedUnreported'
<1> SUFFICES ASSUME NEW j \in Jobs, j > jobId' \/ (j = jobId' /\ remoteCommandActive')
             PROVE  results'[j] = <<>>
  BY DEF UnendedUnreported
<1>1. jobId' = jobId /\ remoteCommandActive' = (remoteCommandActive /\ ~remoteFinalPending)
  BY DEF DrainRuntimeEvents, ConsumeEvents
<1>2. results[j] = <<>>
  BY <1>1 DEF UnendedUnreported
<1>3. ASSUME remoteFinalPending PROVE remoteFinalJob # j
  <2>1. j > jobId /\ remoteFinalJob = jobId
    BY <1>1, <1>3 DEF PendingBelongsToSlot
  <2> QED
    BY <2>1 DEF JobTypeOK, Jobs
<1> QED
  BY <1>2, <1>3 DEF DrainRuntimeEvents, HistoryTypeOK

\* Every part of the loop and every client step keeps the types; the hard case
\* is a drain, whose message must be a Result.
LEMMA TypeStep == TypeOK /\ Next => TypeOK'
<1> SUFFICES ASSUME TypeOK, Next PROVE TypeOK'
  OBVIOUS
<1> USE ApplicationAssumption, ServerAssumption
        DEF TypeOK, ExecState, ExecStage, JobState, FinalStatus, Display, CompleteShown, Pc
<1>1. CASE Detect
  <2>1. CASE DropClient
    <3>1. JobTypeOK'
      BY <1>1, <2>1 DEF JobTypeOK, Detect, DropClient, DisconnectClient,
         CancelQueuedRemoteBlock, Cancellable, Finalize
    <3>2. FlagTypeOK'
      BY <1>1, <2>1 DEF FlagTypeOK, Detect, DropClient, DisconnectClient,
         CancelQueuedRemoteBlock, Cancellable, Finalize
    <3>3. LinkTypeOK'
      BY <1>1, <2>1 DEF LinkTypeOK, Detect, DropClient, DisconnectClient,
         CancelQueuedRemoteBlock
    <3>4. ClientTypeOK'
      BY <1>1, <2>1, EmptySeq DEF ClientTypeOK, Detect, DropClient, DisconnectClient,
         CancelQueuedRemoteBlock
    <3>5. (ExecTypeOK /\ BusTypeOK /\ DisplayTypeOK /\ HistoryTypeOK)'
      BY <1>1, <2>1 DEF ExecTypeOK, BusTypeOK, DisplayTypeOK, HistoryTypeOK, Detect,
         DropClient, DisconnectClient, CancelQueuedRemoteBlock, Cancellable, Finalize
    <3> QED
      BY <1>1, <2>1, <3>1, <3>2, <3>3, <3>4, <3>5 DEF Detect
  <2>2. CASE KeepClient
    <3>1. (ExecTypeOK /\ BusTypeOK /\ JobTypeOK /\ FlagTypeOK /\ DisplayTypeOK /\
           LinkTypeOK /\ ClientTypeOK /\ HistoryTypeOK)'
      BY <1>1, <2>2 DEF ExecTypeOK, BusTypeOK, JobTypeOK, FlagTypeOK, DisplayTypeOK,
         LinkTypeOK, ClientTypeOK, HistoryTypeOK, Detect, KeepClient
    <3> QED
      BY <1>1, <2>2, <3>1 DEF Detect
  <2> QED
    BY <1>1, <2>1, <2>2 DEF Detect
<1>2. CASE Drain
  <2>1. JobTypeOK'
    BY <1>2 DEF JobTypeOK, Drain, DrainRuntimeEvents, ConsumeEvents, Deliverable
  <2>2. FlagTypeOK'
    BY <1>2 DEF FlagTypeOK, Drain, DrainRuntimeEvents, ConsumeEvents, Deliverable
  <2>3. HistoryTypeOK'
    BY <1>2, DrainHistory DEF Drain
  <2>4. (ExecTypeOK /\ BusTypeOK /\ DisplayTypeOK /\ LinkTypeOK /\ ClientTypeOK)'
    BY <1>2 DEF ExecTypeOK, BusTypeOK, DisplayTypeOK, LinkTypeOK, ClientTypeOK, Drain,
       DrainRuntimeEvents, ConsumeEvents, Deliverable
  <2> QED
    BY <1>2, <2>1, <2>2, <2>3, <2>4 DEF Drain
<1>3. CASE Accept
  <2>1. CASE AcceptClient
    <3>1. LinkTypeOK'
      BY <1>3, <2>1 DEF LinkTypeOK, Accept, AcceptClient
    <3>2. ClientTypeOK'
      BY <1>3, <2>1, EmptySeq DEF ClientTypeOK, Accept, AcceptClient
    <3>3. (ExecTypeOK /\ BusTypeOK /\ JobTypeOK /\ FlagTypeOK /\ DisplayTypeOK /\
           HistoryTypeOK)'
      BY <1>3, <2>1 DEF ExecTypeOK, BusTypeOK, JobTypeOK, FlagTypeOK, DisplayTypeOK,
         HistoryTypeOK, Accept, AcceptClient
    <3> QED
      BY <1>3, <2>1, <3>1, <3>2, <3>3 DEF Accept
  <2>2. CASE RefuseClient
    <3>1. (ExecTypeOK /\ BusTypeOK /\ JobTypeOK /\ FlagTypeOK /\ DisplayTypeOK /\
           LinkTypeOK /\ ClientTypeOK /\ HistoryTypeOK)'
      BY <1>3, <2>2 DEF ExecTypeOK, BusTypeOK, JobTypeOK, FlagTypeOK, DisplayTypeOK,
         LinkTypeOK, ClientTypeOK, HistoryTypeOK, Accept, RefuseClient
    <3> QED
      BY <1>3, <2>2, <3>1 DEF Accept
  <2>3. CASE NoIncomingClient
    <3>1. (ExecTypeOK /\ BusTypeOK /\ JobTypeOK /\ FlagTypeOK /\ DisplayTypeOK /\
           LinkTypeOK /\ ClientTypeOK /\ HistoryTypeOK)'
      BY <1>3, <2>3 DEF ExecTypeOK, BusTypeOK, JobTypeOK, FlagTypeOK, DisplayTypeOK,
         LinkTypeOK, ClientTypeOK, HistoryTypeOK, Accept, NoIncomingClient
    <3> QED
      BY <1>3, <2>3, <3>1 DEF Accept
  <2> QED
    BY <1>3, <2>1, <2>2, <2>3 DEF Accept
<1>4. CASE ReadLine
  <2> USE <1>4 DEF ReadLine, HandleLine
  <2>0. ClientTypeOK'
    BY HeadTailProperties DEF ClientTypeOK
  <2>1. CASE HandleHandshake
    <3>1. (ExecTypeOK /\ BusTypeOK /\ JobTypeOK /\ FlagTypeOK /\ DisplayTypeOK /\
           LinkTypeOK /\ HistoryTypeOK)'
      BY <2>1 DEF ExecTypeOK, BusTypeOK, JobTypeOK, FlagTypeOK, DisplayTypeOK, LinkTypeOK,
         HistoryTypeOK, HandleHandshake
    <3> QED
      BY <2>1, <2>0, <3>1 DEF HandleHandshake
  <2>2. CASE HandleExecuteBlock
    <3>1. JobTypeOK'
      BY <2>2, ExecuteNamesBlock DEF JobTypeOK, HandleExecuteBlock, SubmitRemoteBlock,
         AcceptsBlock
    <3>2. FlagTypeOK'
      BY <2>2 DEF FlagTypeOK, HandleExecuteBlock, SubmitRemoteBlock, AcceptsBlock
    <3>3. HistoryTypeOK'
      BY <2>2 DEF HistoryTypeOK, ClientTypeOK, HandleExecuteBlock, SubmitRemoteBlock
    <3>4. (ExecTypeOK /\ BusTypeOK /\ DisplayTypeOK /\ LinkTypeOK)'
      BY <2>2 DEF ExecTypeOK, BusTypeOK, DisplayTypeOK, LinkTypeOK, HandleExecuteBlock,
         SubmitRemoteBlock, AcceptsBlock
    <3> QED
      BY <2>2, <2>0, <3>1, <3>2, <3>3, <3>4 DEF HandleExecuteBlock
  <2>3. CASE HandleCancel
    <3>1. JobTypeOK'
      BY <2>3 DEF JobTypeOK, HandleCancel, CancelQueuedRemoteBlock, Cancellable, Finalize
    <3>2. FlagTypeOK'
      BY <2>3 DEF FlagTypeOK, HandleCancel, CancelQueuedRemoteBlock, Cancellable, Finalize
    <3>3. (ExecTypeOK /\ BusTypeOK /\ DisplayTypeOK /\ LinkTypeOK /\ HistoryTypeOK)'
      BY <2>3 DEF ExecTypeOK, BusTypeOK, DisplayTypeOK, LinkTypeOK, HistoryTypeOK,
         HandleCancel, CancelQueuedRemoteBlock, Cancellable, Finalize
    <3> QED
      BY <2>3, <2>0, <3>1, <3>2, <3>3 DEF HandleCancel
  <2>4. CASE HandleFinishTask
    <3>1. JobTypeOK'
      BY <2>4 DEF JobTypeOK, HandleFinishTask, FinishRemoteTask
    <3>2. FlagTypeOK'
      BY <2>4 DEF FlagTypeOK, HandleFinishTask, FinishRemoteTask
    <3>3. (ExecTypeOK /\ BusTypeOK /\ DisplayTypeOK /\ LinkTypeOK /\ HistoryTypeOK)'
      BY <2>4 DEF ExecTypeOK, BusTypeOK, DisplayTypeOK, LinkTypeOK, HistoryTypeOK,
         HandleFinishTask, FinishRemoteTask
    <3> QED
      BY <2>4, <2>0, <3>1, <3>2, <3>3 DEF HandleFinishTask
  <2>5. CASE HandleEmergencyStop
    <3>1. JobTypeOK'
      BY <2>5 DEF JobTypeOK, HandleEmergencyStop, EmergencyStop, ExecEmergencyStop,
         SetFault, Finalize
    <3>2. FlagTypeOK'
      BY <2>5 DEF FlagTypeOK, HandleEmergencyStop, EmergencyStop, ExecEmergencyStop,
         SetFault, Finalize
    <3>3. (ExecTypeOK /\ BusTypeOK /\ DisplayTypeOK /\ LinkTypeOK /\ HistoryTypeOK)'
      BY <2>5 DEF ExecTypeOK, BusTypeOK, DisplayTypeOK, LinkTypeOK, HistoryTypeOK,
         HandleEmergencyStop, EmergencyStop, ExecEmergencyStop, SetFault, Finalize
    <3> QED
      BY <2>5, <2>0, <3>1, <3>2, <3>3 DEF HandleEmergencyStop
  <2>6. CASE HandleResetFault
    <3>1. BusTypeOK'
      BY <2>6 DEF BusTypeOK, HandleResetFault, ResetFault, ExecResetFault, ResetSucceeds,
         SetFault, RecoverThenProbe, BusOff
    <3>2. FlagTypeOK'
      BY <2>6 DEF FlagTypeOK, HandleResetFault, ResetFault, ExecResetFault, ResetSucceeds,
         SetFault, RecoverThenProbe, BusOff
    <3>3. (ExecTypeOK /\ JobTypeOK /\ DisplayTypeOK /\ LinkTypeOK /\ HistoryTypeOK)'
      BY <2>6 DEF ExecTypeOK, JobTypeOK, DisplayTypeOK, LinkTypeOK, HistoryTypeOK,
         HandleResetFault, ResetFault, ExecResetFault, ResetSucceeds, SetFault
    <3> QED
      BY <2>6, <2>0, <3>1, <3>2, <3>3 DEF HandleResetFault
  <2>7. CASE HandleOther
    <3>1. (ExecTypeOK /\ BusTypeOK /\ JobTypeOK /\ FlagTypeOK /\ DisplayTypeOK /\
           LinkTypeOK /\ HistoryTypeOK)'
      BY <2>7 DEF ExecTypeOK, BusTypeOK, JobTypeOK, FlagTypeOK, DisplayTypeOK, LinkTypeOK,
         HistoryTypeOK, HandleOther
    <3> QED
      BY <2>7, <2>0, <3>1 DEF HandleOther
  <2> QED
    BY <2>1, <2>2, <2>3, <2>4, <2>5, <2>6, <2>7
<1>5. CASE ReadDone
  <2>1. (ExecTypeOK /\ BusTypeOK /\ JobTypeOK /\ FlagTypeOK /\ DisplayTypeOK /\
         LinkTypeOK /\ ClientTypeOK /\ HistoryTypeOK)'
    BY <1>5 DEF ExecTypeOK, BusTypeOK, JobTypeOK, FlagTypeOK, DisplayTypeOK, LinkTypeOK,
       ClientTypeOK, HistoryTypeOK, ReadDone
  <2> QED
    BY <1>5, <2>1 DEF ReadDone
<1>6. CASE DrainAgain
  <2>1. JobTypeOK'
    BY <1>6 DEF JobTypeOK, DrainAgain, DrainRuntimeEvents, ConsumeEvents, Deliverable
  <2>2. FlagTypeOK'
    BY <1>6 DEF FlagTypeOK, DrainAgain, DrainRuntimeEvents, ConsumeEvents, Deliverable
  <2>3. HistoryTypeOK'
    BY <1>6, DrainHistory DEF DrainAgain
  <2>4. (ExecTypeOK /\ BusTypeOK /\ DisplayTypeOK /\ LinkTypeOK /\ ClientTypeOK)'
    BY <1>6 DEF ExecTypeOK, BusTypeOK, DisplayTypeOK, LinkTypeOK, ClientTypeOK, DrainAgain,
       DrainRuntimeEvents, ConsumeEvents, Deliverable
  <2> QED
    BY <1>6, <2>1, <2>2, <2>3, <2>4 DEF DrainAgain
<1>7. CASE Pump
  <2>1. BusTypeOK'
    BY <1>7 DEF BusTypeOK, Pump, PumpCan, ReadAlerts, BusOff, Later
  <2>2. JobTypeOK'
    BY <1>7 DEF JobTypeOK, Pump, PumpCan, ReadAlerts, BusOff, Later
  <2>3. (ExecTypeOK /\ FlagTypeOK /\ DisplayTypeOK /\ LinkTypeOK /\ ClientTypeOK /\
         HistoryTypeOK)'
    BY <1>7 DEF ExecTypeOK, FlagTypeOK, DisplayTypeOK, LinkTypeOK, ClientTypeOK,
       HistoryTypeOK, Pump, PumpCan
  <2> QED
    BY <1>7, <2>1, <2>2, <2>3 DEF Pump
<1>8. CASE CheckFatal
  <2>1. JobTypeOK'
    BY <1>8 DEF JobTypeOK, CheckFatal, LatchCanFault, SetFault, Finalize
  <2>2. FlagTypeOK'
    BY <1>8 DEF FlagTypeOK, CheckFatal, LatchCanFault, SetFault, Finalize
  <2>3. (ExecTypeOK /\ BusTypeOK /\ DisplayTypeOK /\ LinkTypeOK /\ ClientTypeOK /\
         HistoryTypeOK)'
    BY <1>8 DEF ExecTypeOK, BusTypeOK, DisplayTypeOK, LinkTypeOK, ClientTypeOK,
       HistoryTypeOK, CheckFatal, LatchCanFault, SetFault, Finalize
  <2> QED
    BY <1>8, <2>1, <2>2, <2>3 DEF CheckFatal
<1>9. CASE CheckDisplay
  <2>1. (ExecTypeOK /\ BusTypeOK /\ JobTypeOK /\ FlagTypeOK /\ DisplayTypeOK /\
         LinkTypeOK /\ ClientTypeOK /\ HistoryTypeOK)'
    BY <1>9 DEF ExecTypeOK, BusTypeOK, JobTypeOK, FlagTypeOK, DisplayTypeOK, LinkTypeOK,
       ClientTypeOK, HistoryTypeOK, CheckDisplay, TickDisplay
  <2> QED
    BY <1>9, <2>1 DEF CheckDisplay
<1>10. CASE StartBlock
  <2>1. ExecTypeOK'
    <3>1. execMoved' \in BOOLEAN
      BY <1>10 DEF StartBlock, StartQueued, ExecStart
    <3> QED
      BY <1>10, <3>1 DEF ExecTypeOK, JobTypeOK, StartBlock, StartQueued, ExecStart
  <2>2. JobTypeOK'
    BY <1>10 DEF JobTypeOK, StartBlock, StartQueued, ExecCanStart, ExecStart
  <2>3. FlagTypeOK'
    BY <1>10 DEF FlagTypeOK, StartBlock, StartQueued, ExecCanStart, ExecStart
  <2>4. (BusTypeOK /\ DisplayTypeOK /\ LinkTypeOK /\ ClientTypeOK /\ HistoryTypeOK)'
    BY <1>10 DEF BusTypeOK, DisplayTypeOK, LinkTypeOK, ClientTypeOK, HistoryTypeOK,
       StartBlock, StartQueued, ExecCanStart, ExecStart
  <2> QED
    BY <1>10, <2>1, <2>2, <2>3, <2>4 DEF StartBlock
<1>11. CASE RejectBlock
  <2>1. JobTypeOK'
    BY <1>11 DEF JobTypeOK, RejectBlock, RejectQueued, SetFault, Finalize
  <2>2. FlagTypeOK'
    BY <1>11 DEF FlagTypeOK, RejectBlock, RejectQueued, SetFault, Finalize
  <2>3. (ExecTypeOK /\ BusTypeOK /\ DisplayTypeOK /\ LinkTypeOK /\ ClientTypeOK /\
         HistoryTypeOK)'
    BY <1>11 DEF ExecTypeOK, BusTypeOK, DisplayTypeOK, LinkTypeOK, ClientTypeOK,
       HistoryTypeOK, RejectBlock, RejectQueued, SetFault, Finalize
  <2> QED
    BY <1>11, <2>1, <2>2, <2>3 DEF RejectBlock
<1>12. CASE NothingToStart
  <2>1. (ExecTypeOK /\ BusTypeOK /\ JobTypeOK /\ FlagTypeOK /\ DisplayTypeOK /\
         LinkTypeOK /\ ClientTypeOK /\ HistoryTypeOK)'
    BY <1>12 DEF ExecTypeOK, BusTypeOK, JobTypeOK, FlagTypeOK, DisplayTypeOK, LinkTypeOK,
       ClientTypeOK, HistoryTypeOK, NothingToStart
  <2> QED
    BY <1>12, <2>1 DEF NothingToStart
<1>13. CASE RuntimeTimeout
  <2>1. JobTypeOK'
    BY <1>13 DEF JobTypeOK, RuntimeTimeout, EmergencyStop, ExecEmergencyStop, SetFault,
       Finalize
  <2>2. FlagTypeOK'
    BY <1>13 DEF FlagTypeOK, RuntimeTimeout, EmergencyStop, ExecEmergencyStop, SetFault,
       Finalize
  <2>3. (ExecTypeOK /\ BusTypeOK /\ DisplayTypeOK /\ LinkTypeOK /\ ClientTypeOK /\
         HistoryTypeOK)'
    BY <1>13 DEF ExecTypeOK, BusTypeOK, DisplayTypeOK, LinkTypeOK, ClientTypeOK,
       HistoryTypeOK, RuntimeTimeout, EmergencyStop, ExecEmergencyStop, SetFault, Finalize
  <2> QED
    BY <1>13, <2>1, <2>2, <2>3 DEF RuntimeTimeout
<1>14. CASE WithinRuntime
  <2>1. (ExecTypeOK /\ BusTypeOK /\ JobTypeOK /\ FlagTypeOK /\ DisplayTypeOK /\
         LinkTypeOK /\ ClientTypeOK /\ HistoryTypeOK)'
    BY <1>14 DEF ExecTypeOK, BusTypeOK, JobTypeOK, FlagTypeOK, DisplayTypeOK, LinkTypeOK,
       ClientTypeOK, HistoryTypeOK, WithinRuntime, RuntimeExceeded
  <2> QED
    BY <1>14, <2>1 DEF WithinRuntime
<1>15. CASE Exec
  <2>1. ExecTypeOK'
    BY <1>15 DEF ExecTypeOK, Exec, RunExecutor, ExecTick, TickBaseline, TickNoMotion,
       TickIssue, TickTarget, TickFinished
  <2>2. (BusTypeOK /\ JobTypeOK /\ FlagTypeOK /\ DisplayTypeOK /\ LinkTypeOK /\
         ClientTypeOK /\ HistoryTypeOK)'
    BY <1>15 DEF BusTypeOK, JobTypeOK, FlagTypeOK, DisplayTypeOK, LinkTypeOK, ClientTypeOK,
       HistoryTypeOK, Exec, RunExecutor, ExecTick, TickBaseline, TickNoMotion, TickIssue,
       TickTarget, TickFinished
  <2> QED
    BY <1>15, <2>1, <2>2 DEF Exec
<1>16. CASE Settle
  <2>1. CASE SettleFault
    <3>1. JobTypeOK'
      BY <1>16, <2>1 DEF JobTypeOK, Settle, SettleFault, SetFault, Finalize
    <3>2. FlagTypeOK'
      BY <1>16, <2>1 DEF FlagTypeOK, Settle, SettleFault, SetFault, Finalize
    <3>3. (ExecTypeOK /\ BusTypeOK /\ DisplayTypeOK /\ LinkTypeOK /\ ClientTypeOK /\
           HistoryTypeOK)'
      BY <1>16, <2>1 DEF ExecTypeOK, BusTypeOK, DisplayTypeOK, LinkTypeOK, ClientTypeOK,
         HistoryTypeOK, Settle, SettleFault, SetFault, Finalize
    <3> QED
      BY <1>16, <2>1, <3>1, <3>2, <3>3 DEF Settle
  <2>2. CASE SettleCompleted
    <3>1. JobTypeOK'
      BY <1>16, <2>2 DEF JobTypeOK, Settle, SettleCompleted, Finalize
    <3>2. FlagTypeOK'
      BY <1>16, <2>2 DEF FlagTypeOK, Settle, SettleCompleted, Finalize
    <3>3. (ExecTypeOK /\ BusTypeOK /\ DisplayTypeOK /\ LinkTypeOK /\ ClientTypeOK /\
           HistoryTypeOK)'
      BY <1>16, <2>2 DEF ExecTypeOK, BusTypeOK, DisplayTypeOK, LinkTypeOK, ClientTypeOK,
         HistoryTypeOK, Settle, SettleCompleted, Finalize
    <3> QED
      BY <1>16, <2>2, <3>1, <3>2, <3>3 DEF Settle
  <2>3. CASE SettleNothing
    <3>1. (ExecTypeOK /\ BusTypeOK /\ JobTypeOK /\ FlagTypeOK /\ DisplayTypeOK /\
           LinkTypeOK /\ ClientTypeOK /\ HistoryTypeOK)'
      BY <1>16, <2>3 DEF ExecTypeOK, BusTypeOK, JobTypeOK, FlagTypeOK, DisplayTypeOK,
         LinkTypeOK, ClientTypeOK, HistoryTypeOK, Settle, SettleNothing
    <3> QED
      BY <1>16, <2>3, <3>1 DEF Settle
  <2> QED
    BY <1>16, <2>1, <2>2, <2>3 DEF Settle
<1>17. CASE Connect
  <2>1. ClientTypeOK'
    BY <1>17 DEF ClientTypeOK, Connect
  <2>2. (ExecTypeOK /\ BusTypeOK /\ JobTypeOK /\ FlagTypeOK /\ DisplayTypeOK /\
         LinkTypeOK /\ HistoryTypeOK)'
    BY <1>17 DEF ExecTypeOK, BusTypeOK, JobTypeOK, FlagTypeOK, DisplayTypeOK, LinkTypeOK,
       HistoryTypeOK, Connect
  <2> QED
    BY <1>17, <2>1, <2>2 DEF Connect
<1>18. CASE Send
  <2>1. ClientTypeOK'
    BY <1>18, AppendProperties DEF ClientTypeOK, Send
  <2>2. (ExecTypeOK /\ BusTypeOK /\ JobTypeOK /\ FlagTypeOK /\ DisplayTypeOK /\
         LinkTypeOK /\ HistoryTypeOK)'
    BY <1>18 DEF ExecTypeOK, BusTypeOK, JobTypeOK, FlagTypeOK, DisplayTypeOK, LinkTypeOK,
       HistoryTypeOK, Send
  <2> QED
    BY <1>18, <2>1, <2>2 DEF Send
<1>19. CASE Close
  <2>1. LinkTypeOK'
    BY <1>19 DEF LinkTypeOK, Close
  <2>2. ClientTypeOK'
    BY <1>19, EmptySeq DEF ClientTypeOK, Close
  <2>3. (ExecTypeOK /\ BusTypeOK /\ JobTypeOK /\ FlagTypeOK /\ DisplayTypeOK /\
         HistoryTypeOK)'
    BY <1>19 DEF ExecTypeOK, BusTypeOK, JobTypeOK, FlagTypeOK, DisplayTypeOK, HistoryTypeOK,
       Close
  <2> QED
    BY <1>19, <2>1, <2>2, <2>3 DEF Close
<1> QED
  BY <1>1, <1>2, <1>3, <1>4, <1>5, <1>6, <1>7, <1>8, <1>9, <1>10, <1>11, <1>12, <1>13,
     <1>14, <1>15, <1>16, <1>17, <1>18, <1>19 DEF Next, Loop, Clients

\* Every part of the loop and every client step keeps the inductive invariant:
\* one step per action, and under it the conjuncts the action can disturb.
LEMMA InvariantStep == FirmwareInvariant /\ Next => FirmwareInvariant'
<1> SUFFICES ASSUME FirmwareInvariant, Next PROVE FirmwareInvariant'
  OBVIOUS
<1> USE DEF FirmwareInvariant, TypeOK, Busy, FlagTypeOK, PendingBelongsToSlot, RunBelongsToSlot,
        SlotAgreesWithJob, DoneMeansOwnMotion, CancelledNeverStarted, StoppedStaysStopped,
        RuntimeBounded
<1> DEFINE SlotLinks == PendingBelongsToSlot /\ RunBelongsToSlot /\ SlotAgreesWithJob
           SlotSafety == DoneMeansOwnMotion /\ CancelledNeverStarted /\ StoppedStaysStopped
                         /\ RuntimeBounded
<1>0. TypeOK'
  BY TypeStep
<1>1. CASE Detect
  <2>1. CASE DropClient
    <3>1. CountsAgree'
      BY <1>1, <2>1, EmptySeq DEF CountsAgree, ClientTypeOK, JobTypeOK, ExecTypeOK, Detect,
         DropClient, DisconnectClient, CancelQueuedRemoteBlock
    <3>2. UnendedUnreported'
      BY <1>1, <2>1 DEF UnendedUnreported, JobTypeOK, Detect, DropClient, DisconnectClient,
         CancelQueuedRemoteBlock
    <3>3. SlotLinks'
      BY <1>1, <2>1 DEF CountsAgree, JobTypeOK, Detect, DropClient, DisconnectClient,
         CancelQueuedRemoteBlock, Cancellable, Finalize
    <3>4. SlotSafety'
      BY <1>1, <2>1 DEF JobTypeOK, ExecTypeOK, CountsAgree, Detect, DropClient,
         DisconnectClient, CancelQueuedRemoteBlock, Cancellable, Finalize
    <3> QED
      BY <1>0, <3>1, <3>2, <3>3, <3>4
  <2>2. CASE KeepClient
    <3>1. (CountsAgree /\ UnendedUnreported)'
      BY <1>1, <2>2 DEF CountsAgree, UnendedUnreported, ClientTypeOK, JobTypeOK, ExecTypeOK,
         Detect, KeepClient
    <3>2. (SlotLinks /\ SlotSafety)'
      BY <1>1, <2>2 DEF Detect, KeepClient
    <3> QED
      BY <1>0, <3>1, <3>2
  <2> QED
    BY <1>1, <2>1, <2>2 DEF Detect
<1>2. CASE Drain
  <2>1. CountsAgree'
    BY <1>2 DEF CountsAgree, ClientTypeOK, JobTypeOK, ExecTypeOK, Drain, DrainRuntimeEvents,
       ConsumeEvents
  <2>2. UnendedUnreported'
    BY <1>2, DrainUnreported DEF Drain
  <2>3. SlotLinks'
    BY <1>2 DEF CountsAgree, JobTypeOK, Drain, DrainRuntimeEvents, ConsumeEvents,
       Deliverable
  <2>4. SlotSafety'
    BY <1>2 DEF JobTypeOK, Drain, DrainRuntimeEvents, ConsumeEvents, Deliverable
  <2> QED
    BY <1>0, <2>1, <2>2, <2>3, <2>4
<1>3. CASE Accept
  <2>1. CASE AcceptClient
    <3>1. (CountsAgree /\ UnendedUnreported)'
      BY <1>3, <2>1, EmptySeq DEF CountsAgree, UnendedUnreported, ClientTypeOK, JobTypeOK,
         ExecTypeOK, Accept, AcceptClient
    <3>2. (SlotLinks /\ SlotSafety)'
      BY <1>3, <2>1 DEF Accept, AcceptClient
    <3> QED
      BY <1>0, <3>1, <3>2
  <2>2. CASE RefuseClient
    <3>1. (CountsAgree /\ UnendedUnreported)'
      BY <1>3, <2>2 DEF CountsAgree, UnendedUnreported, ClientTypeOK, JobTypeOK, ExecTypeOK,
         Accept, RefuseClient
    <3>2. (SlotLinks /\ SlotSafety)'
      BY <1>3, <2>2 DEF Accept, RefuseClient
    <3> QED
      BY <1>0, <3>1, <3>2
  <2>3. CASE NoIncomingClient
    <3>1. (CountsAgree /\ UnendedUnreported)'
      BY <1>3, <2>3 DEF CountsAgree, UnendedUnreported, ClientTypeOK, JobTypeOK, ExecTypeOK,
         Accept, NoIncomingClient
    <3>2. (SlotLinks /\ SlotSafety)'
      BY <1>3, <2>3 DEF Accept, NoIncomingClient
    <3> QED
      BY <1>0, <3>1, <3>2
  <2> QED
    BY <1>3, <2>1, <2>2, <2>3 DEF Accept
<1>4. CASE ReadLine
  <2> USE <1>4 DEF ReadLine, HandleLine
  <2>1. CASE HandleHandshake
    <3>1. (CountsAgree /\ UnendedUnreported)'
      BY <2>1, HeadTailProperties DEF CountsAgree, UnendedUnreported, ClientTypeOK,
         JobTypeOK, ExecTypeOK, HandleHandshake
    <3>2. (SlotLinks /\ SlotSafety)'
      BY <2>1 DEF HandleHandshake
    <3> QED
      BY <1>0, <3>1, <3>2
  <2>2. CASE HandleExecuteBlock
    <3>1. CountsAgree'
      BY <2>2, HeadTailProperties DEF CountsAgree, ClientTypeOK, JobTypeOK, ExecTypeOK,
         HandleExecuteBlock, SubmitRemoteBlock
    <3>2. UnendedUnreported'
      <4>1. jobId' = jobId + 1 /\ results' = results
        BY <2>2 DEF HandleExecuteBlock, SubmitRemoteBlock
      <4>2. \A j \in Jobs : j > jobId' \/ j = jobId' => j > jobId
        BY <4>1 DEF JobTypeOK, Jobs
      <4> QED
        BY <4>1, <4>2 DEF UnendedUnreported
    <3>3. SlotLinks'
      BY <2>2 DEF CountsAgree, JobTypeOK, ExecTypeOK, HandleExecuteBlock, SubmitRemoteBlock,
         AcceptsBlock
    <3>4. SlotSafety'
      BY <2>2 DEF JobTypeOK, ExecTypeOK, CountsAgree, HandleExecuteBlock, SubmitRemoteBlock,
         AcceptsBlock
    <3> QED
      BY <1>0, <3>1, <3>2, <3>3, <3>4
  <2>3. CASE HandleCancel
    <3>1. CountsAgree'
      BY <2>3, HeadTailProperties DEF CountsAgree, ClientTypeOK, JobTypeOK, ExecTypeOK,
         HandleCancel, CancelQueuedRemoteBlock
    <3>2. UnendedUnreported'
      BY <2>3 DEF UnendedUnreported, JobTypeOK, HandleCancel, CancelQueuedRemoteBlock
    <3>3. SlotLinks'
      BY <2>3 DEF CountsAgree, JobTypeOK, HandleCancel, CancelQueuedRemoteBlock,
         Cancellable, Finalize
    <3>4. SlotSafety'
      BY <2>3 DEF JobTypeOK, ExecTypeOK, CountsAgree, HandleCancel, CancelQueuedRemoteBlock,
         Cancellable, Finalize
    <3> QED
      BY <1>0, <3>1, <3>2, <3>3, <3>4
  <2>4. CASE HandleFinishTask
    <3>1. (CountsAgree /\ UnendedUnreported)'
      BY <2>4, HeadTailProperties DEF CountsAgree, UnendedUnreported, ClientTypeOK,
         JobTypeOK, ExecTypeOK, HandleFinishTask, FinishRemoteTask
    <3>2. (SlotLinks /\ SlotSafety)'
      BY <2>4 DEF HandleFinishTask, FinishRemoteTask
    <3> QED
      BY <1>0, <3>1, <3>2
  <2>5. CASE HandleEmergencyStop
    <3>1. CountsAgree'
      BY <2>5, HeadTailProperties DEF CountsAgree, ClientTypeOK, JobTypeOK, ExecTypeOK,
         HandleEmergencyStop, EmergencyStop, ExecEmergencyStop
    <3>2. UnendedUnreported'
      BY <2>5 DEF UnendedUnreported, JobTypeOK, HandleEmergencyStop, EmergencyStop,
         ExecEmergencyStop
    <3>3. SlotLinks'
      BY <2>5 DEF CountsAgree, JobTypeOK, HandleEmergencyStop, EmergencyStop,
         ExecEmergencyStop, SetFault, Finalize
    <3>4. SlotSafety'
      BY <2>5 DEF JobTypeOK, HandleEmergencyStop, EmergencyStop, ExecEmergencyStop,
         SetFault, Finalize
    <3> QED
      BY <1>0, <3>1, <3>2, <3>3, <3>4
  <2>6. CASE HandleResetFault
    <3>1. CountsAgree'
      BY <2>6, HeadTailProperties DEF CountsAgree, ClientTypeOK, JobTypeOK, ExecTypeOK,
         HandleResetFault, ResetFault, ExecResetFault
    <3>2. UnendedUnreported'
      BY <2>6 DEF UnendedUnreported, JobTypeOK, HandleResetFault, ResetFault, ExecResetFault
    <3>3. SlotLinks'
      BY <2>6 DEF CountsAgree, JobTypeOK, HandleResetFault, ResetFault, ExecResetFault,
         ResetSucceeds, SetFault
    <3>4. SlotSafety'
      BY <2>6 DEF JobTypeOK, HandleResetFault, ResetFault, ExecResetFault, ResetSucceeds,
         SetFault
    <3> QED
      BY <1>0, <3>1, <3>2, <3>3, <3>4
  <2>7. CASE HandleOther
    <3>1. (CountsAgree /\ UnendedUnreported)'
      BY <2>7, HeadTailProperties DEF CountsAgree, UnendedUnreported, ClientTypeOK,
         JobTypeOK, ExecTypeOK, HandleOther
    <3>2. (SlotLinks /\ SlotSafety)'
      BY <2>7 DEF HandleOther
    <3> QED
      BY <1>0, <3>1, <3>2
  <2> QED
    BY <2>1, <2>2, <2>3, <2>4, <2>5, <2>6, <2>7
<1>5. CASE ReadDone
  <2>1. (CountsAgree /\ UnendedUnreported)'
    BY <1>5 DEF CountsAgree, UnendedUnreported, ClientTypeOK, JobTypeOK, ExecTypeOK,
       ReadDone
  <2>2. (SlotLinks /\ SlotSafety)'
    BY <1>5 DEF ReadDone
  <2> QED
    BY <1>0, <2>1, <2>2
<1>6. CASE DrainAgain
  <2>1. CountsAgree'
    BY <1>6 DEF CountsAgree, ClientTypeOK, JobTypeOK, ExecTypeOK, DrainAgain,
       DrainRuntimeEvents, ConsumeEvents
  <2>2. UnendedUnreported'
    BY <1>6, DrainUnreported DEF DrainAgain
  <2>3. SlotLinks'
    BY <1>6 DEF CountsAgree, JobTypeOK, DrainAgain, DrainRuntimeEvents, ConsumeEvents,
       Deliverable
  <2>4. SlotSafety'
    BY <1>6 DEF JobTypeOK, DrainAgain, DrainRuntimeEvents, ConsumeEvents, Deliverable
  <2> QED
    BY <1>0, <2>1, <2>2, <2>3, <2>4
<1>7. CASE Pump
  <2>1. CountsAgree'
    BY <1>7 DEF CountsAgree, ClientTypeOK, JobTypeOK, ExecTypeOK, Pump, PumpCan
  <2>2. UnendedUnreported'
    BY <1>7 DEF UnendedUnreported, JobTypeOK, Pump, PumpCan
  <2>3. SlotLinks'
    BY <1>7 DEF CountsAgree, JobTypeOK, Pump, PumpCan
  <2>4. SlotSafety'
    BY <1>7 DEF JobTypeOK, Pump, PumpCan
  <2> QED
    BY <1>0, <2>1, <2>2, <2>3, <2>4
<1>8. CASE CheckFatal
  <2>1. CountsAgree'
    BY <1>8 DEF CountsAgree, ClientTypeOK, JobTypeOK, ExecTypeOK, CheckFatal, LatchCanFault
  <2>2. UnendedUnreported'
    BY <1>8 DEF UnendedUnreported, JobTypeOK, CheckFatal, LatchCanFault
  <2>3. SlotLinks'
    BY <1>8 DEF CountsAgree, JobTypeOK, CheckFatal, LatchCanFault, SetFault, Finalize
  <2>4. SlotSafety'
    BY <1>8 DEF JobTypeOK, CheckFatal, LatchCanFault, SetFault, Finalize
  <2> QED
    BY <1>0, <2>1, <2>2, <2>3, <2>4
<1>9. CASE CheckDisplay
  <2>1. (CountsAgree /\ UnendedUnreported)'
    BY <1>9 DEF CountsAgree, UnendedUnreported, ClientTypeOK, JobTypeOK, ExecTypeOK,
       CheckDisplay, TickDisplay
  <2>2. (SlotLinks /\ SlotSafety)'
    BY <1>9 DEF CheckDisplay, TickDisplay
  <2> QED
    BY <1>0, <2>1, <2>2
<1>10. CASE StartBlock
  <2>1. CountsAgree'
    BY <1>10 DEF CountsAgree, ClientTypeOK, JobTypeOK, ExecTypeOK, StartBlock, StartQueued,
       ExecStart
  <2>2. UnendedUnreported'
    BY <1>10 DEF UnendedUnreported, JobTypeOK, StartBlock, StartQueued, ExecStart
  <2>3. SlotLinks'
    BY <1>10 DEF CountsAgree, JobTypeOK, ExecTypeOK, StartBlock, StartQueued, ExecCanStart,
       ExecStart
  <2>4. SlotSafety'
    BY <1>10 DEF JobTypeOK, ExecTypeOK, CountsAgree, StartBlock, StartQueued, ExecCanStart,
       ExecStart
  <2> QED
    BY <1>0, <2>1, <2>2, <2>3, <2>4
<1>11. CASE RejectBlock
  <2>1. CountsAgree'
    BY <1>11 DEF CountsAgree, ClientTypeOK, JobTypeOK, ExecTypeOK, RejectBlock, RejectQueued
  <2>2. UnendedUnreported'
    BY <1>11 DEF UnendedUnreported, JobTypeOK, RejectBlock, RejectQueued
  <2>3. SlotLinks'
    BY <1>11 DEF CountsAgree, JobTypeOK, RejectBlock, RejectQueued, SetFault, Finalize
  <2>4. SlotSafety'
    BY <1>11 DEF JobTypeOK, RejectBlock, RejectQueued, SetFault, Finalize
  <2> QED
    BY <1>0, <2>1, <2>2, <2>3, <2>4
<1>12. CASE NothingToStart
  <2>1. (CountsAgree /\ UnendedUnreported)'
    BY <1>12 DEF CountsAgree, UnendedUnreported, ClientTypeOK, JobTypeOK, ExecTypeOK,
       NothingToStart
  <2>2. (SlotLinks /\ SlotSafety)'
    BY <1>12 DEF NothingToStart
  <2> QED
    BY <1>0, <2>1, <2>2
<1>13. CASE RuntimeTimeout
  <2>1. CountsAgree'
    BY <1>13 DEF CountsAgree, ClientTypeOK, JobTypeOK, ExecTypeOK, RuntimeTimeout,
       EmergencyStop, ExecEmergencyStop
  <2>2. UnendedUnreported'
    BY <1>13 DEF UnendedUnreported, JobTypeOK, RuntimeTimeout, EmergencyStop,
       ExecEmergencyStop
  <2>3. SlotLinks'
    BY <1>13 DEF CountsAgree, JobTypeOK, RuntimeTimeout, EmergencyStop, ExecEmergencyStop,
       SetFault, Finalize
  <2>4. SlotSafety'
    BY <1>13 DEF JobTypeOK, RuntimeTimeout, EmergencyStop, ExecEmergencyStop, SetFault,
       Finalize
  <2> QED
    BY <1>0, <2>1, <2>2, <2>3, <2>4
<1>14. CASE WithinRuntime
  <2>1. CountsAgree'
    BY <1>14 DEF CountsAgree, ClientTypeOK, JobTypeOK, ExecTypeOK, WithinRuntime
  <2>2. UnendedUnreported'
    BY <1>14 DEF UnendedUnreported, JobTypeOK, WithinRuntime, RuntimeExceeded
  <2>3. SlotLinks'
    BY <1>14 DEF CountsAgree, JobTypeOK, WithinRuntime, RuntimeExceeded
  <2>4. SlotSafety'
    BY <1>14, ApplicationAssumption DEF JobTypeOK, WithinRuntime, RuntimeExceeded
  <2> QED
    BY <1>0, <2>1, <2>2, <2>3, <2>4
<1>15. CASE Exec
  <2>1. CountsAgree'
    BY <1>15 DEF CountsAgree, ClientTypeOK, JobTypeOK, ExecTypeOK, Exec, RunExecutor,
       ExecTick, TickBaseline, TickNoMotion, TickIssue, TickTarget, TickFinished
  <2>2. UnendedUnreported'
    BY <1>15 DEF UnendedUnreported, JobTypeOK, Exec, RunExecutor, ExecTick, TickBaseline,
       TickNoMotion, TickIssue, TickTarget, TickFinished
  <2>3. SlotLinks'
    BY <1>15 DEF CountsAgree, JobTypeOK, ExecTypeOK, Exec, RunExecutor, ExecTick,
       TickBaseline, TickNoMotion, TickIssue, TickTarget, TickFinished
  <2>4. SlotSafety'
    BY <1>15 DEF JobTypeOK, Exec, RunExecutor, ExecTick, TickBaseline, TickNoMotion,
       TickIssue, TickTarget, TickFinished
  <2> QED
    BY <1>0, <2>1, <2>2, <2>3, <2>4
<1>16. CASE Settle
  <2>1. CASE SettleFault
    <3>1. CountsAgree'
      BY <1>16, <2>1 DEF CountsAgree, ClientTypeOK, JobTypeOK, ExecTypeOK, Settle,
         SettleFault
    <3>2. UnendedUnreported'
      BY <1>16, <2>1 DEF UnendedUnreported, JobTypeOK, Settle, SettleFault
    <3>3. SlotLinks'
      BY <1>16, <2>1 DEF CountsAgree, JobTypeOK, Settle, SettleFault, SetFault, Finalize
    <3>4. SlotSafety'
      BY <1>16, <2>1 DEF JobTypeOK, Settle, SettleFault, SetFault, Finalize
    <3> QED
      BY <1>0, <3>1, <3>2, <3>3, <3>4
  <2>2. CASE SettleCompleted
    <3>1. CountsAgree'
      BY <1>16, <2>2 DEF CountsAgree, ClientTypeOK, JobTypeOK, ExecTypeOK, Settle,
         SettleCompleted
    <3>2. UnendedUnreported'
      BY <1>16, <2>2 DEF UnendedUnreported, JobTypeOK, Settle, SettleCompleted
    <3>3. SlotLinks'
      BY <1>16, <2>2 DEF CountsAgree, JobTypeOK, Settle, SettleCompleted, Finalize
    <3>4. SlotSafety'
      BY <1>16, <2>2 DEF JobTypeOK, Settle, SettleCompleted, Finalize
    <3> QED
      BY <1>0, <3>1, <3>2, <3>3, <3>4
  <2>3. CASE SettleNothing
    <3>1. (CountsAgree /\ UnendedUnreported)'
      BY <1>16, <2>3 DEF CountsAgree, UnendedUnreported, ClientTypeOK, JobTypeOK,
         ExecTypeOK, Settle, SettleNothing
    <3>2. (SlotLinks /\ SlotSafety)'
      BY <1>16, <2>3 DEF Settle, SettleNothing
    <3> QED
      BY <1>0, <3>1, <3>2
  <2> QED
    BY <1>16, <2>1, <2>2, <2>3 DEF Settle
<1>17. CASE Connect
  <2>1. (CountsAgree /\ UnendedUnreported)'
    BY <1>17 DEF CountsAgree, UnendedUnreported, ClientTypeOK, JobTypeOK, ExecTypeOK,
       Connect
  <2>2. (SlotLinks /\ SlotSafety)'
    BY <1>17 DEF Connect
  <2> QED
    BY <1>0, <2>1, <2>2
<1>18. CASE Send
  <2>1. (CountsAgree /\ UnendedUnreported)'
    BY <1>18, AppendProperties DEF CountsAgree, UnendedUnreported, ClientTypeOK, JobTypeOK,
       ExecTypeOK, Send
  <2>2. (SlotLinks /\ SlotSafety)'
    BY <1>18 DEF Send
  <2> QED
    BY <1>0, <2>1, <2>2
<1>19. CASE Close
  <2>1. (CountsAgree /\ UnendedUnreported)'
    BY <1>19, EmptySeq DEF CountsAgree, UnendedUnreported, ClientTypeOK, JobTypeOK,
       ExecTypeOK, Close
  <2>2. (SlotLinks /\ SlotSafety)'
    BY <1>19 DEF Close
  <2> QED
    BY <1>0, <2>1, <2>2
<1> QED
  BY <1>1, <1>2, <1>3, <1>4, <1>5, <1>6, <1>7, <1>8, <1>9, <1>10, <1>11, <1>12, <1>13,
     <1>14, <1>15, <1>16, <1>17, <1>18, <1>19 DEF Next, Loop, Clients

\* The device comes up with an empty slot, also when it comes up faulted.
LEMMA InvariantInit == Init => FirmwareInvariant
<1> SUFFICES ASSUME Init PROVE FirmwareInvariant
  OBVIOUS
<1>1. TypeOK
  BY TypeInit
<1>2. CountsAgree /\ UnendedUnreported
  BY DEF Init, AppInit, ExecInit, ServerInit, CountsAgree, UnendedUnreported
<1>3. PendingBelongsToSlot /\ RunBelongsToSlot /\ SlotAgreesWithJob
  BY DEF Init, AppInit, ExecInit, PendingBelongsToSlot, RunBelongsToSlot, SlotAgreesWithJob, Busy
<1>4. DoneMeansOwnMotion /\ CancelledNeverStarted /\ StoppedStaysStopped /\ RuntimeBounded
  BY DEF Init, AppInit, DoneMeansOwnMotion, CancelledNeverStarted, StoppedStaysStopped,
     RuntimeBounded
<1> QED
  BY <1>1, <1>2, <1>3, <1>4 DEF FirmwareInvariant

\* A step that changes nothing keeps the types ...
LEMMA TypeStutter == TypeOK /\ UNCHANGED vars => TypeOK'
BY DEF TypeOK, ExecTypeOK, BusTypeOK, JobTypeOK, FlagTypeOK, DisplayTypeOK, ClientTypeOK,
   LinkTypeOK, HistoryTypeOK

\* ... and the invariant.
LEMMA InvariantStutter == FirmwareInvariant /\ UNCHANGED vars => FirmwareInvariant'
BY TypeStutter
   DEF FirmwareInvariant, CountsAgree, UnendedUnreported, PendingBelongsToSlot,
       RunBelongsToSlot, SlotAgreesWithJob, Busy, DoneMeansOwnMotion, CancelledNeverStarted,
       StoppedStaysStopped, RuntimeBounded

----------------------------------------------------------------------------
\* Type correctness of the loop: in particular remoteFinalStatus_ is always a
\* wire status and the runtime count stays within one period of its limit.
THEOREM TypeCorrect == Spec => []TypeOK
<1>1. TypeOK /\ [Next]_vars => TypeOK'
  BY TypeStep, TypeStutter
<1> QED
  BY TypeInit, <1>1, PTL DEF Spec

\* The inductive invariant holds in every reachable state of the loop.
THEOREM InvariantHolds == Spec => []FirmwareInvariant
<1>1. FirmwareInvariant /\ [Next]_vars => FirmwareInvariant'
  BY InvariantStep, InvariantStutter
<1> QED
  BY InvariantInit, <1>1, PTL DEF Spec

\* After every call the job state and the remote slot agree, and a latched
\* fault has ended the block (setFault, finalizeRemoteGroup, resetFault).
THEOREM SlotAgreement == Spec => []SlotAgreesWithJob
<1>1. FirmwareInvariant => SlotAgreesWithJob
  BY DEF FirmwareInvariant
<1> QED
  BY InvariantHolds, <1>1, PTL

\* tick() finalizes a block "done" only on the completion of its own run.
THEOREM DoneIsOwnMotion == Spec => []DoneMeansOwnMotion
<1>1. FirmwareInvariant => DoneMeansOwnMotion
  BY DEF FirmwareInvariant
<1> QED
  BY InvariantHolds, <1>1, PTL

\* cancelQueuedRemoteBlock never reports "cancelled" for a block that was started.
THEOREM CancelledIsUnstarted == Spec => []CancelledNeverStarted
<1>1. FirmwareInvariant => CancelledNeverStarted
  BY DEF FirmwareInvariant
<1> QED
  BY InvariantHolds, <1>1, PTL

\* emergencyStop leaves the device faulted and without a run until a
\* resetFault succeeds, whatever is requested in between.
THEOREM StopHolds == Spec => []StoppedStaysStopped
<1>1. FirmwareInvariant => StoppedStaysStopped
  BY DEF FirmwareInvariant
<1> QED
  BY InvariantHolds, <1>1, PTL

\* Past the guard of tick() the running block is within its maxRuntimeMs.
THEOREM RuntimeIsBounded == Spec => []RuntimeBounded
<1>1. FirmwareInvariant => RuntimeBounded
  BY DEF FirmwareInvariant
<1> QED
  BY InvariantHolds, <1>1, PTL

\* Only tick() finding a queued block makes the job run.
LEMMA OnlyStartRuns ==
  ASSUME Next, jobState # "running", jobState' = "running"
  PROVE  jobState = "queued"
<1>1. CASE StartBlock
  BY <1>1 DEF StartBlock, StartQueued
<1>2. CASE Detect
  BY <1>2 DEF Detect, DropClient, DisconnectClient, KeepClient, CancelQueuedRemoteBlock
<1>3. CASE Drain \/ DrainAgain
  BY <1>3 DEF Drain, DrainAgain, DrainRuntimeEvents, ConsumeEvents
<1>4. CASE Accept
  BY <1>4 DEF Accept, AcceptClient, RefuseClient, NoIncomingClient
<1>5. CASE ReadLine
  BY <1>5 DEF ReadLine, HandleLine, HandleHandshake, HandleExecuteBlock, SubmitRemoteBlock,
     HandleCancel, CancelQueuedRemoteBlock, HandleFinishTask, FinishRemoteTask,
     HandleEmergencyStop, EmergencyStop, HandleResetFault, ResetFault, HandleOther
<1>6. CASE CheckFatal \/ RejectBlock \/ RuntimeTimeout \/ Settle
  BY <1>6 DEF CheckFatal, LatchCanFault, RejectBlock, RejectQueued, RuntimeTimeout,
     EmergencyStop, Settle, SettleFault, SettleCompleted, SettleNothing
<1>7. CASE ReadDone \/ Pump \/ CheckDisplay \/ NothingToStart \/ WithinRuntime \/ Exec
  BY <1>7 DEF ReadDone, Pump, PumpCan, CheckDisplay, TickDisplay, NothingToStart,
     WithinRuntime, Exec, RunExecutor
<1>8. CASE Clients
  BY <1>8 DEF Clients, Connect, Send, Close
<1> QED
  BY <1>1, <1>2, <1>3, <1>4, <1>5, <1>6, <1>7, <1>8 DEF Next, Loop

\* A block that was queued when a fault was latched is failed before tick()
\* could start it: no block starts on a faulted device.
THEOREM FaultedNeverStarts == Spec => NoStartWhileFaulted
<1> DEFINE Safe == jobState # "running" /\ jobState' = "running" => ~faulted
<1>1. FirmwareInvariant /\ [Next]_vars => [Safe]_vars
  <2> SUFFICES ASSUME FirmwareInvariant, Next, jobState # "running", jobState' = "running"
               PROVE  ~faulted
    OBVIOUS
  <2>1. Busy
    BY OnlyStartRuns DEF Busy
  <2> QED
    BY <2>1 DEF FirmwareInvariant, SlotAgreesWithJob
<1> QED
  BY InvariantHolds, <1>1, PTL DEF Spec, NoStartWhileFaulted
=============================================================================
