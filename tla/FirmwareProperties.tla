------------------------- MODULE FirmwareProperties -------------------------
(***************************************************************************)
(* What the firmware loop guarantees about motion blocks, and claims of    *)
(* the protocol document that it does not keep.                            *)
(***************************************************************************)
EXTENDS Firmware

\* Every variable keeps its type, and the bounded counters their bounds.
TypeOK ==
  /\ ExecTypeOK /\ BusTypeOK
  /\ JobTypeOK /\ FlagTypeOK /\ DisplayTypeOK
  /\ ClientTypeOK /\ LinkTypeOK /\ HistoryTypeOK
  /\ pc \in Pc /\ connects \in 0..MaxSessions /\ sent \in 0..MaxRequests

----------------------------------------------------------------------------
(* Safety *)

\* The job state, which mode() and the admission guard read, and the remote
\* slot, which the result path reads, are kept by different assignments: they
\* must agree after every call, and a latched fault leaves no block unfinished.
SlotAgreesWithJob ==
  /\ Busy <=> remoteCommandActive /\ ~remoteFinalPending
  /\ faulted => ~Busy

\* A block is reported "done" only if the executor completed a run that was
\* started for this very block; a run left over from an earlier block does not
\* count, however the requests were batched.
DoneMeansOwnMotion ==
  remoteFinalPending /\ remoteFinalStatus = "done" =>
    execState = "completed" /\ execStage = "finished" /\ execJob = remoteFinalJob

\* A block reported "cancelled" never had a run: cancel and disconnect reach
\* only a block that still waits for its first tick.
CancelledNeverStarted ==
  remoteFinalPending /\ remoteFinalStatus = "cancelled" => execJob # remoteFinalJob

\* From an emergency stop (or a runtime timeout, which uses the same path)
\* until a reset succeeds, the device stays faulted and no run exists, also
\* when stop, reset and new blocks arrive in one read.
StoppedStaysStopped == stopLatched => faulted /\ execState # "running"

\* Once the runtime check of a round is past, the running block is within its
\* maxRuntimeMs.
RuntimeBounded ==
  jobState = "running" /\ pc \notin {"check", "start", "guard"} => elapsed <= MaxRuntime

----------------------------------------------------------------------------
(* The inductive invariant the proofs rest on: the properties above and what  *)
(* links them to the place in the loop.                                       *)

\* Accepted blocks are requests already read; a run belongs to an accepted block.
CountsAgree ==
  /\ jobId + Len(rx) <= sent
  /\ execJob <= jobId

\* A pending outcome belongs to the block in the slot, exists only between its
\* end and the next drain, and is "done" only until the first drain of a round.
PendingBelongsToSlot ==
  /\ remoteCommandActive => jobId > 0
  /\ remoteFinalPending =>
        /\ remoteCommandActive /\ remoteFinalJob = jobId
        /\ remoteFinalStatus \in {"done", "failed", "cancelled"}
        /\ pc \in {"detect", "drain", "read", "drainAgain"}
        /\ remoteFinalStatus = "done" => pc \in {"detect", "drain"}

\* A queued block has no run and does not outlive its round; a running one has
\* its own run; a completed run went through its last stage.
RunBelongsToSlot ==
  /\ jobState = "queued" =>
        execJob < jobId /\ pc \in {"read", "drainAgain", "pump", "check", "start"}
  /\ jobState = "running" => execJob = jobId
  /\ execState = "completed" => execStage = "finished"

\* Nothing was sent for a block that has not ended.
UnendedUnreported ==
  \A j \in Jobs : j > jobId \/ (j = jobId /\ remoteCommandActive) => results[j] = <<>>

FirmwareInvariant ==
  /\ TypeOK
  /\ CountsAgree /\ PendingBelongsToSlot /\ RunBelongsToSlot /\ UnendedUnreported
  /\ SlotAgreesWithJob /\ DoneMeansOwnMotion /\ CancelledNeverStarted
  /\ StoppedStaysStopped /\ RuntimeBounded

----------------------------------------------------------------------------
(* Action properties and refinement *)

\* No block starts on a faulted device, even one admitted before the fault.
NoStartWhileFaulted == [][jobState # "running" /\ jobState' = "running" => ~faulted]_vars

\* The slot, the number of accepted blocks and the results sent follow the
\* block lifecycle: accepted only into a free slot, done only after executing,
\* cancelled only before, and reported at most once.
Slot ==
  CASE ~remoteCommandActive -> "free"
    [] remoteCommandActive /\ remoteFinalPending -> "ended"
    [] remoteCommandActive /\ ~remoteFinalPending /\ jobState = "queued" -> "reserved"
    [] OTHER -> "executing"

Lifecycle == INSTANCE BlockLifecycle WITH
  slot <- Slot,
  job <- jobId,
  outcome <- IF Slot = "ended" THEN remoteFinalStatus ELSE "none",
  reports <- results

ImplementsLifecycle == Lifecycle!LifecycleSpec

----------------------------------------------------------------------------
(* Liveness, under FairSpec *)

\* An accepted block does not hold the slot forever: whatever the executor
\* does, the runtime limit ends it.
AcceptedBlockEnds ==
  \A j \in Jobs : remoteCommandActive /\ jobId = j ~> ~(remoteCommandActive /\ jobId = j)

\* A client that stays connected and resets nothing learns how its block ended.
OwnerLearnsOutcome ==
  \A j \in Jobs :
    remoteCommandActive /\ jobId = j /\ session = owner ~>
      results[j] # <<>> \/ session # owner \/ ~linkUp \/ jobState = "none"

----------------------------------------------------------------------------
(* Claims of shared/protocol/README.md *)

\* "block_result is the only terminal event for an accepted block": once the
\* result of a block was sent, no motor command is issued on its behalf.
NoMotionAfterResult ==
  [][~execMoved /\ execMoved' => results[execJob] = <<>>]_vars

\* "Only one motion block may be active at a time": while a block holds the
\* slot, the executor is not running another one.
OneBlockActive == remoteCommandActive /\ execState = "running" => execJob = jobId
=============================================================================
