------------------------ MODULE AutoTyperApplication ------------------------
(***************************************************************************)
(* The firmware's application object: one slot for a remote block, the     *)
(* fault latch, the pending terminal result and the OLED status.  One      *)
(* operator per method the TCP path calls; the methods for local text jobs *)
(* and bench diagnostics have no caller in the firmware and are left out,  *)
(* so the job states Planning and Cancelling do not occur, and neither     *)
(* lineFeedPrimeRequired_ nor the progress events are read by anyone.      *)
(***************************************************************************)
EXTENDS BlockExecutor, CanBus

CONSTANTS
  Blocks,       \* motion blocks a client may send
  NoBlock,      \* "no block named"
  MaxRuntime    \* policy.maxRuntimeMs, in loop periods

ASSUME ApplicationAssumption ==
  /\ NoBlock \notin Blocks
  /\ MaxRuntime \in Nat \ {0}

VARIABLES
  jobState,              \* jobState_
  jobId,                 \* jobId_: how many blocks were accepted
  remoteCommandActive,   \* remoteCommandActive_
  activeSteps,           \* the block in activeMotionSteps_
  elapsed,               \* loop periods since remoteCommandStartedAtMs_, capped
  remoteFinalPending,    \* remoteFinalPending_
  remoteFinalStatus,     \* remoteFinalStatus_
  remoteFinalJob,        \* remoteFinalGroupId_ and remoteFinalSeq_
  faulted,               \* faulted_
  remoteFaultNotified,   \* remoteFaultNotified_
  display,               \* the last status shown on the OLED
  completeShown,         \* taskCompleteDisplayActive_, and whether a round passed since
  stopLatched            \* history: stopped by emergencyStop, not reset successfully since

slotVars    == <<jobState, jobId, remoteCommandActive, activeSteps, elapsed>>
finalVars   == <<remoteFinalPending, remoteFinalStatus, remoteFinalJob>>
faultVars   == <<faulted, remoteFaultNotified, stopLatched>>
displayVars == <<display, completeShown>>
appVars     == <<slotVars, finalVars, faultVars, displayVars>>

MaybeBlock == Blocks \cup {NoBlock}
JobState == {"none", "queued", "running", "completed", "cancelled", "failed"}
FinalStatus == {"none", "done", "failed", "cancelled"}
Display == {"idle", "printing", "complete", "error"}
CompleteShown == {"no", "fresh", "aged"}

\* Type invariants of the application: the job and its outcome, the flags, the OLED.
JobTypeOK ==
  /\ jobState \in JobState /\ jobId \in Nat
  /\ activeSteps \in MaybeBlock
  /\ elapsed \in 0..(MaxRuntime + 1)
  /\ remoteFinalStatus \in FinalStatus /\ remoteFinalJob \in Nat
FlagTypeOK ==
  /\ remoteCommandActive \in BOOLEAN /\ remoteFinalPending \in BOOLEAN
  /\ faulted \in BOOLEAN /\ remoteFaultNotified \in BOOLEAN /\ stopLatched \in BOOLEAN
DisplayTypeOK == display \in Display /\ completeShown \in CompleteShown

\* Ready, or latched in a fault: CAN or the motors did not come up, or the bus
\* failed since, which is recorded as a failed job.
AppInit ==
  /\ BusInit /\ ExecInit
  /\ faulted \in BOOLEAN
  /\ ~canReady /\ ~canFatal => faulted
  /\ jobState = "none" \/ (faulted /\ jobState = "failed")
  /\ jobId = 0
  /\ remoteCommandActive = FALSE
  /\ activeSteps = NoBlock
  /\ elapsed = 0
  /\ remoteFinalPending = FALSE
  /\ remoteFinalStatus = "none"
  /\ remoteFinalJob = 0
  /\ remoteFaultNotified = faulted
  /\ display = IF faulted THEN "error" ELSE "idle"
  /\ completeShown = "no"
  /\ stopLatched = FALSE

Busy == jobState \in {"queued", "running"}

SetFault == faulted' = TRUE /\ remoteFaultNotified' = TRUE

\* Mutated form of Finalize: the job's state is sent in place of the outcome.
FinalizeWithJobState(status) ==
  IF remoteCommandActive /\ ~remoteFinalPending
  THEN /\ remoteFinalPending' = TRUE
       /\ remoteFinalStatus' = jobState'
       /\ remoteFinalJob' = jobId
  ELSE UNCHANGED finalVars

\* Mutated form of Finalize: the last outcome wins.
FinalizeLastWins(status) ==
  IF remoteCommandActive
  THEN /\ remoteFinalPending' = TRUE
       /\ remoteFinalStatus' = status
       /\ remoteFinalJob' = jobId
  ELSE UNCHANGED finalVars

\* finalizeRemoteGroup: the first outcome wins.
Finalize(status) ==
  IF remoteCommandActive /\ ~remoteFinalPending
  THEN /\ remoteFinalPending' = TRUE
       /\ remoteFinalStatus' = status
       /\ remoteFinalJob' = jobId
  ELSE UNCHANGED finalVars

----------------------------------------------------------------------------
(* Calls of the protocol server. *)

\* Mutated form of AcceptsBlock: only the executor's own fault is looked at.
AcceptsBlockWhileFaulted ==
  /\ execState # "faulted"
  /\ ~Busy /\ ~remoteCommandActive /\ ~remoteFinalPending
  /\ MotionTransportReady

AcceptsBlock ==
  /\ ~faulted /\ execState # "faulted"
  /\ ~Busy /\ ~remoteCommandActive /\ ~remoteFinalPending
  /\ MotionTransportReady

SubmitRemoteBlock(b) ==
  /\ AcceptsBlock
  /\ jobState' = "queued"
  /\ jobId' = jobId + 1
  /\ remoteCommandActive' = TRUE
  /\ activeSteps' = b
  /\ elapsed' = 0
  /\ remoteFinalPending' = FALSE
  /\ remoteFinalStatus' = "none"
  /\ remoteFinalJob' = 0
  /\ remoteFaultNotified' = FALSE
  /\ UNCHANGED <<execVars, busVars, faulted, stopLatched, displayVars>>

\* Mutated form of Cancellable: a running block is cancelled too.
CancellableAnyTime(target) ==
  /\ remoteCommandActive
  /\ Busy
  /\ target \in {NoBlock, activeSteps}

Cancellable(target) ==
  /\ remoteCommandActive
  /\ jobState = "queued"
  /\ target \in {NoBlock, activeSteps}

CancelQueuedRemoteBlock(target) ==
  IF Cancellable(target)
  THEN /\ jobState' = "cancelled"
       /\ Finalize("cancelled")
       /\ display' = "idle"
       /\ completeShown' = "no"
       /\ UNCHANGED <<execVars, busVars, jobId, remoteCommandActive, activeSteps, elapsed,
                      faultVars>>
  ELSE UNCHANGED <<execVars, busVars, appVars>>

FinishRemoteTask ==
  /\ ~Busy /\ ~remoteCommandActive
  /\ jobState' = "completed"
  /\ display' = "complete"
  /\ completeShown' = "fresh"
  /\ UNCHANGED <<execVars, busVars, jobId, remoteCommandActive, activeSteps, elapsed,
                 finalVars, faultVars>>

\* The motors are stopped, disabled and unlocked; the executor is left faulted.
EmergencyStop ==
  /\ ExecEmergencyStop
  /\ SetFault
  /\ stopLatched' = TRUE
  /\ jobState' = "failed"
  /\ Finalize("failed")
  /\ display' = "error"
  /\ completeShown' = "no"
  /\ UNCHANGED <<busVars, jobId, remoteCommandActive, activeSteps, elapsed>>

ResetSucceeds(recovered, motorsReady) == recovered /\ ~canFatal' /\ motorsReady

\* The slot is emptied whether or not the executor was faulted.
ResetFault ==
  \E recovered, motorsReady \in BOOLEAN :
    /\ ExecResetFault
    /\ RecoverThenProbe(recovered)
    /\ jobState' = "none"
    /\ remoteCommandActive' = FALSE
    /\ remoteFinalPending' = FALSE
    /\ completeShown' = "no"
    /\ IF ResetSucceeds(recovered, motorsReady)
       THEN /\ faulted' = FALSE /\ stopLatched' = FALSE
            /\ display' = "idle"
            /\ UNCHANGED remoteFaultNotified
       ELSE /\ SetFault
            /\ display' = "error"
            /\ UNCHANGED stopLatched
    /\ UNCHANGED <<jobId, activeSteps, elapsed, remoteFinalStatus, remoteFinalJob>>

\* consumeRemoteBlockFinal and consumeRemoteFault: taking a result frees the slot.
ConsumeEvents ==
  /\ remoteFinalPending' = FALSE
  /\ remoteCommandActive' = (remoteCommandActive /\ ~remoteFinalPending)
  /\ remoteFaultNotified' = FALSE
  /\ UNCHANGED <<execVars, busVars, jobState, jobId, activeSteps, elapsed, remoteFinalStatus,
                 remoteFinalJob, faulted, stopLatched, displayVars>>

----------------------------------------------------------------------------
(* The parts of tick(), in order. *)

\* A loop takes one period or more; beyond MaxRuntime all counts are alike.
Later(t) == (IF t > MaxRuntime THEN t ELSE t + 1)..(MaxRuntime + 1)

\* canRx_.tick reads the alerts.
PumpCan ==
  /\ ReadAlerts
  /\ IF jobState = "running"
     THEN elapsed' \in Later(elapsed)
     ELSE UNCHANGED elapsed
  /\ UNCHANGED <<execVars, jobState, jobId, remoteCommandActive, activeSteps, finalVars,
                 faultVars, displayVars>>

\* Mutated form of LatchCanFault: the block in the slot gets no outcome.
LatchCanFaultOnly ==
  /\ canFatal
  /\ IF faulted THEN UNCHANGED appVars
     ELSE /\ SetFault
          /\ jobState' = "failed"
          /\ display' = "error"
          /\ UNCHANGED <<jobId, remoteCommandActive, activeSteps, elapsed, finalVars,
                         stopLatched, completeShown>>
  /\ UNCHANGED <<execVars, busVars>>

\* A bus fault fails the job; the motors are told to stop, the executor keeps its run.
LatchCanFault ==
  /\ canFatal
  /\ IF faulted THEN UNCHANGED appVars
     ELSE /\ SetFault
          /\ jobState' = "failed"
          /\ Finalize("failed")
          /\ display' = "error"
          /\ UNCHANGED <<jobId, remoteCommandActive, activeSteps, elapsed, stopLatched,
                         completeShown>>
  /\ UNCHANGED <<execVars, busVars>>

\* The completion text gives way to Idle once its dwell is over, rounds later.
TickDisplay ==
  /\ ~canFatal
  /\ \/ /\ completeShown = "aged"
        /\ display' = "idle"
        /\ completeShown' = "no"
     \/ /\ completeShown' = IF completeShown = "fresh" THEN "aged" ELSE completeShown
        /\ UNCHANGED display
  /\ UNCHANGED <<execVars, busVars, slotVars, finalVars, faultVars>>

\* Mutated form of StartQueued: the result of start() is not looked at.
StartQueuedBlindly ==
  /\ jobState = "queued"
  /\ IF ExecCanStart THEN ExecStart(jobId) ELSE UNCHANGED execVars
  /\ jobState' = "running"
  /\ elapsed' = 0
  /\ display' = "printing"
  /\ completeShown' = "no"
  /\ UNCHANGED <<busVars, jobId, remoteCommandActive, activeSteps, finalVars, faultVars>>

StartQueued ==
  /\ jobState = "queued"
  /\ ExecCanStart
  /\ ExecStart(jobId)
  /\ jobState' = "running"
  /\ elapsed' = 0
  /\ display' = "printing"
  /\ completeShown' = "no"
  /\ UNCHANGED <<busVars, jobId, remoteCommandActive, activeSteps, finalVars, faultVars>>

\* start() found an earlier run still going: executor_busy.
RejectQueued ==
  /\ jobState = "queued"
  /\ ~ExecCanStart
  /\ SetFault
  /\ jobState' = "failed"
  /\ Finalize("failed")
  /\ display' = "error"
  /\ completeShown' = "no"
  /\ UNCHANGED <<execVars, busVars, jobId, remoteCommandActive, activeSteps, elapsed,
                 stopLatched>>

\* Mutated forms of RuntimeExceeded: one period late; for a queued block only.
RuntimeExceededLate ==
  remoteCommandActive /\ jobState = "running" /\ elapsed > MaxRuntime + 1
RuntimeExceededWhileQueued ==
  remoteCommandActive /\ jobState = "queued" /\ elapsed > MaxRuntime

RuntimeExceeded ==
  remoteCommandActive /\ jobState = "running" /\ elapsed > MaxRuntime

\* executor_.tick(); what it found is settled next.
RunExecutor ==
  /\ ExecTick \/ (execState # "running" /\ UNCHANGED execVars)
  /\ UNCHANGED <<busVars, appVars>>

SettleFault ==
  /\ execState = "faulted"
  /\ SetFault
  /\ jobState' = "failed"
  /\ Finalize("failed")
  /\ display' = "error"
  /\ UNCHANGED <<execVars, busVars, jobId, remoteCommandActive, activeSteps, elapsed,
                 stopLatched, completeShown>>

\* A completed run ends the active block; without one it changes nothing.
SettleCompleted ==
  /\ execState = "completed"
  /\ remoteCommandActive
  /\ jobState' = "completed"
  /\ Finalize("done")
  /\ UNCHANGED <<execVars, busVars, jobId, remoteCommandActive, activeSteps, elapsed,
                 faultVars, displayVars>>

SettleNothing ==
  /\ execState # "faulted"
  /\ execState = "completed" => ~remoteCommandActive
  /\ UNCHANGED <<execVars, busVars, appVars>>
=============================================================================
