------------------------- MODULE FirmwareRefinement -------------------------
(***************************************************************************)
(* The firmware loop implements BlockLifecycle: every step of it accepts,  *)
(* starts, ends, reports, discards or drops the block in the slot as that   *)
(* specification allows, or leaves the slot alone.                         *)
(***************************************************************************)
EXTENDS FirmwareProofs

USE DEF execVars, busVars, slotVars, finalVars, faultVars, displayVars, appVars,
        clientVars, historyVars, serverVars, loopVars, vars, Goto

\* The lifecycle state the slot flags and the job state stand for ...
LEMMA SlotNow ==
  /\ ~remoteCommandActive => Slot = "free"
  /\ remoteCommandActive /\ remoteFinalPending => Slot = "ended"
  /\ remoteCommandActive /\ ~remoteFinalPending /\ jobState = "queued" => Slot = "reserved"
  /\ remoteCommandActive /\ ~remoteFinalPending /\ jobState # "queued" => Slot = "executing"
BY DEF Slot

\* ... and the one they stand for after a step.
LEMMA SlotNext ==
  /\ ~remoteCommandActive' => Slot' = "free"
  /\ remoteCommandActive' /\ remoteFinalPending' => Slot' = "ended"
  /\ remoteCommandActive' /\ ~remoteFinalPending' /\ jobState' = "queued" => Slot' = "reserved"
  /\ remoteCommandActive' /\ ~remoteFinalPending' /\ jobState' # "queued" => Slot' = "executing"
BY DEF Slot

\* After setup() the slot is free and nothing was reported.
LEMMA LifecycleInitial == Init => Lifecycle!LifecycleInit
BY SlotNow DEF Init, AppInit, ServerInit, Lifecycle!LifecycleInit

\* submitRemoteBlock accepts a block only into a free slot.
LEMMA SubmitIsAccept ==
  ASSUME FirmwareInvariant, ReadLine, HandleExecuteBlock
  PROVE  Lifecycle!Accept
<1>1. ~remoteCommandActive
  BY DEF HandleExecuteBlock, SubmitRemoteBlock, AcceptsBlock
<1>2. Slot = "free"
  BY <1>1, SlotNow
<1>3. remoteCommandActive' /\ ~remoteFinalPending' /\ jobState' = "queued" /\ jobId' = jobId + 1
  BY DEF HandleExecuteBlock, SubmitRemoteBlock
<1>4. Slot' = "reserved"
  BY <1>3, SlotNext
<1>5. jobId + 1 \in Jobs
  BY HeadTailProperties, LenProperties, ServerAssumption
     DEF FirmwareInvariant, CountsAgree, TypeOK, JobTypeOK, ClientTypeOK, Jobs, ReadLine, HandleLine
<1>6. results' = results
  BY DEF ReadLine, HandleLine
<1> QED
  BY <1>2, <1>3, <1>4, <1>5, <1>6 DEF Lifecycle!Accept

\* A step that touches neither the slot flags nor the results is invisible.
LEMMA KeepIsStutter ==
  ASSUME UNCHANGED <<remoteCommandActive, remoteFinalPending, remoteFinalStatus, jobId, results>>,
         ~remoteCommandActive \/ jobState' = jobState
  PROVE  UNCHANGED Lifecycle!lifecycleVars
<1>1. Slot' = Slot
  BY SlotNow, SlotNext
<1> QED
  BY <1>1 DEF Lifecycle!lifecycleVars

\* finalizeRemoteGroup ends the block in the slot, once, with an outcome it may
\* have; on an empty or ended slot it is invisible.
LEMMA FinalizeIsEnd ==
  ASSUME FirmwareInvariant, NEW status \in {"done", "failed", "cancelled"}, Finalize(status),
         jobState = "queued" => status # "done",
         jobState = "running" => status # "cancelled",
         UNCHANGED <<remoteCommandActive, jobId, results>>
  PROVE  Lifecycle!End \/ UNCHANGED Lifecycle!lifecycleVars
<1>1. CASE remoteCommandActive /\ ~remoteFinalPending
  <2>1. remoteFinalPending' /\ remoteFinalStatus' = status
    BY <1>1 DEF Finalize
  <2>2. Slot' = "ended"
    BY <1>1, <2>1, SlotNext
  <2>3. CASE jobState = "queued"
    <3>1. Slot = "reserved"
      BY <1>1, <2>3, SlotNow
    <3> QED
      BY <2>1, <2>2, <2>3, <3>1 DEF Lifecycle!End
  <2>4. CASE jobState # "queued"
    <3>1. Slot = "executing"
      BY <1>1, <2>4, SlotNow
    <3>2. jobState = "running"
      BY <1>1, <2>4 DEF FirmwareInvariant, SlotAgreesWithJob, Busy
    <3> QED
      BY <2>1, <2>2, <3>1, <3>2 DEF Lifecycle!End
  <2> QED
    BY <2>3, <2>4
<1>2. CASE ~remoteCommandActive \/ remoteFinalPending
  <2>1. UNCHANGED finalVars
    BY <1>2 DEF Finalize
  <2>2. Slot' = Slot
    BY <1>2, <2>1, SlotNow, SlotNext
  <2> QED
    BY <2>1, <2>2 DEF Lifecycle!lifecycleVars
<1> QED
  BY <1>1, <1>2

\* drainRuntimeEvents reports the pending outcome to the connected session or
\* discards it, and either frees the slot.
LEMMA DrainIsReportOrDiscard ==
  ASSUME FirmwareInvariant, DrainRuntimeEvents
  PROVE  \/ \E s \in Sessions : Lifecycle!Report(s)
         \/ Lifecycle!Discard
         \/ UNCHANGED Lifecycle!lifecycleVars
<1> USE DEF DrainRuntimeEvents, ConsumeEvents
<1>1. CASE ~remoteFinalPending
  <2>1. UNCHANGED <<remoteCommandActive, jobState, jobId, remoteFinalStatus, results>>
    BY <1>1 DEF FirmwareInvariant, TypeOK, FlagTypeOK
  <2>2. Slot' = Slot /\ Slot # "ended"
    BY <1>1, <2>1, SlotNow, SlotNext
  <2> QED
    BY <2>1, <2>2 DEF Lifecycle!lifecycleVars
<1>2. CASE remoteFinalPending
  <2>1. /\ remoteCommandActive /\ remoteFinalJob = jobId
        /\ jobId > 0 /\ jobId <= MaxRequests /\ jobId \in Nat
    BY <1>2, LenProperties, ServerAssumption
       DEF FirmwareInvariant, PendingBelongsToSlot, CountsAgree, TypeOK, JobTypeOK, ClientTypeOK
  <2>2. jobId \in Jobs
    BY <2>1, ServerAssumption DEF Jobs
  <2>3. results[jobId] = <<>>
    BY <2>1, <2>2 DEF FirmwareInvariant, UnendedUnreported
  <2>4. Slot = "ended" /\ Slot' = "free"
    BY <1>2, <2>1, SlotNow, SlotNext
  <2>5. CASE Deliverable
    <3>1. session \in Sessions
      BY <2>5, ServerAssumption
         DEF Deliverable, Sessions, FirmwareInvariant, TypeOK, ClientTypeOK
    <3>2. results' = [results EXCEPT ![jobId] = <<[status |-> remoteFinalStatus, to |-> session]>>]
      BY <1>2, <2>1, <2>2, <2>3, <2>5 DEF FirmwareInvariant, TypeOK, HistoryTypeOK
    <3> QED
      BY <2>3, <2>4, <3>1, <3>2 DEF Lifecycle!Report
  <2>6. CASE ~Deliverable
    BY <2>4, <2>6 DEF Lifecycle!Discard
  <2> QED
    BY <2>5, <2>6
<1> QED
  BY <1>1, <1>2

\* resetFault empties the slot, with or without an outcome in it.
LEMMA ResetIsDrop ==
  ASSUME ResetFault, UNCHANGED results
  PROVE  Lifecycle!Drop \/ UNCHANGED Lifecycle!lifecycleVars
<1>1. ~remoteCommandActive' /\ jobId' = jobId
  BY DEF ResetFault
<1>2. Slot' = "free"
  BY <1>1, SlotNext
<1>3. CASE Slot = "free"
  BY <1>1, <1>2, <1>3 DEF Lifecycle!lifecycleVars
<1>4. CASE Slot # "free"
  BY <1>1, <1>2, <1>4 DEF Lifecycle!Drop
<1> QED
  BY <1>3, <1>4

\* tick() starts the block that reserved the slot.
LEMMA StartIsStart ==
  ASSUME FirmwareInvariant, StartBlock
  PROVE  Lifecycle!Start
<1>1. /\ jobState = "queued" /\ jobState' = "running"
      /\ UNCHANGED <<remoteCommandActive, remoteFinalPending, jobId, results>>
  BY DEF StartBlock, StartQueued
<1>2. remoteCommandActive /\ ~remoteFinalPending
  BY <1>1 DEF FirmwareInvariant, SlotAgreesWithJob, Busy
<1>3. Slot = "reserved" /\ Slot' = "executing"
  BY <1>1, <1>2, SlotNow, SlotNext
<1> QED
  BY <1>1, <1>3 DEF Lifecycle!Start

\* Every step of the loop or of a client is a step of the lifecycle or invisible.
LEMMA StepImplementsLifecycle ==
  ASSUME FirmwareInvariant, Next
  PROVE  [Lifecycle!LifecycleNext]_(Lifecycle!lifecycleVars)
<1> USE DEF Lifecycle!LifecycleNext
<1>1. CASE Detect
  <2>1. CASE DropClient
    <3>1. CASE Cancellable(NoBlock)
      BY <1>1, <2>1, <3>1, FinalizeIsEnd
         DEF Detect, DropClient, DisconnectClient, CancelQueuedRemoteBlock, Cancellable
    <3>2. CASE ~Cancellable(NoBlock)
      BY <1>1, <2>1, <3>2, KeepIsStutter
         DEF Detect, DropClient, DisconnectClient, CancelQueuedRemoteBlock
    <3> QED
      BY <3>1, <3>2
  <2>2. CASE KeepClient
    BY <1>1, <2>2, KeepIsStutter DEF Detect, KeepClient
  <2> QED
    BY <1>1, <2>1, <2>2 DEF Detect
<1>2. CASE Drain \/ DrainAgain
  BY <1>2, DrainIsReportOrDiscard DEF Drain, DrainAgain
<1>3. CASE Accept
  BY <1>3, KeepIsStutter DEF Accept, AcceptClient, RefuseClient, NoIncomingClient
<1>4. CASE ReadLine
  <2> USE <1>4 DEF ReadLine, HandleLine
  <2>1. CASE HandleExecuteBlock
    BY <2>1, SubmitIsAccept
  <2>2. CASE HandleCancel
    <3>1. CASE Cancellable(Head(rx).block)
      BY <2>2, <3>1, FinalizeIsEnd DEF HandleCancel, CancelQueuedRemoteBlock, Cancellable
    <3>2. CASE ~Cancellable(Head(rx).block)
      BY <2>2, <3>2, KeepIsStutter DEF HandleCancel, CancelQueuedRemoteBlock
    <3> QED
      BY <3>1, <3>2
  <2>3. CASE HandleEmergencyStop
    BY <2>3, FinalizeIsEnd DEF HandleEmergencyStop, EmergencyStop
  <2>4. CASE HandleResetFault
    BY <2>4, ResetIsDrop DEF HandleResetFault
  <2>5. CASE HandleHandshake \/ HandleFinishTask \/ HandleOther
    BY <2>5, KeepIsStutter DEF HandleHandshake, HandleFinishTask, FinishRemoteTask, HandleOther
  <2> QED
    BY <2>1, <2>2, <2>3, <2>4, <2>5
<1>5. CASE CheckFatal
  <2>1. CASE faulted
    BY <1>5, <2>1, KeepIsStutter DEF CheckFatal, LatchCanFault
  <2>2. CASE ~faulted
    BY <1>5, <2>2, FinalizeIsEnd DEF CheckFatal, LatchCanFault
  <2> QED
    BY <2>1, <2>2
<1>6. CASE StartBlock
  BY <1>6, StartIsStart
<1>7. CASE RejectBlock
  BY <1>7, FinalizeIsEnd DEF RejectBlock, RejectQueued
<1>8. CASE RuntimeTimeout
  BY <1>8, FinalizeIsEnd DEF RuntimeTimeout, EmergencyStop
<1>9. CASE Settle
  <2>1. CASE SettleFault
    BY <1>9, <2>1, FinalizeIsEnd DEF Settle, SettleFault
  <2>2. CASE SettleCompleted
    <3>1. jobState # "queued"
      BY <1>9 DEF Settle, FirmwareInvariant, RunBelongsToSlot
    <3> QED
      BY <1>9, <2>2, <3>1, FinalizeIsEnd DEF Settle, SettleCompleted
  <2>3. CASE SettleNothing
    BY <1>9, <2>3, KeepIsStutter DEF Settle, SettleNothing
  <2> QED
    BY <1>9, <2>1, <2>2, <2>3 DEF Settle
<1>10. CASE ReadDone \/ Pump \/ CheckDisplay \/ NothingToStart \/ WithinRuntime \/ Exec
  BY <1>10, KeepIsStutter
     DEF ReadDone, Pump, PumpCan, CheckDisplay, TickDisplay, NothingToStart, WithinRuntime,
         Exec, RunExecutor
<1>11. CASE Clients
  BY <1>11, KeepIsStutter DEF Clients, Connect, Send, Close
<1> QED
  BY <1>1, <1>2, <1>3, <1>4, <1>5, <1>6, <1>7, <1>8, <1>9, <1>10, <1>11 DEF Next, Loop

\* The firmware keeps the promises of BlockLifecycle: one slot, one outcome per
\* accepted block, at most one result for it, sent before the slot is free.
THEOREM LifecycleImplemented == Spec => ImplementsLifecycle
<1>1. FirmwareInvariant /\ [Next]_vars => [Lifecycle!LifecycleNext]_(Lifecycle!lifecycleVars)
  <2>1. CASE UNCHANGED vars
    BY <2>1, KeepIsStutter
  <2> QED
    BY <2>1, StepImplementsLifecycle
<1> QED
  BY <1>1, LifecycleInitial, InvariantHolds, PTL
     DEF Spec, ImplementsLifecycle, Lifecycle!LifecycleSpec
=============================================================================
