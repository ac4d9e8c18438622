------------------------------ MODULE Desktop -------------------------------
(***************************************************************************)
(* The desktop with a device: the loops of PrintTask, the link, and at the *)
(* other end of the connection a device that keeps BlockLifecycle, which   *)
(* is what the firmware is shown to implement.  Of the firmware's faults   *)
(* it keeps the latch: a faulted device accepts no block.                  *)
(***************************************************************************)
EXTENDS PrintTask, BlockLifecycle

CONSTANTS MaxFaults    \* bound on the faults the device has of its own

ASSUME DesktopAssumption == MaxFaults \in Nat

VARIABLES
  faulted,        \* faulted_ of the device
  faultNotice,    \* remoteFaultNotified_: a fault event is to be sent
  owner,          \* the block that was accepted last: it owns the slot
  completed,      \* history: the blocks that executed to their end
  finished,       \* history: the jobs whose finish the device accepted
  faults          \* how many faults the device had of its own

deviceVars == <<lifecycleVars, faulted, faultNotice, owner, completed, finished, faults>>
vars == <<linkVars, wireVars, taskVars, deviceVars>>

Init ==
  /\ LinkInit /\ TaskInit /\ LifecycleInit
  /\ faulted = FALSE /\ faultNotice = FALSE
  /\ owner = NoBlock /\ completed = {} /\ finished = {} /\ faults = 0

----------------------------------------------------------------------------
(* The device. *)

\* handleLine: the answer leaves at once, results and faults later.
Replies(req, ok) ==
  /\ toDevice' = Tail(toDevice)
  /\ fromDevice' = IF linkUp THEN Append(fromDevice, Reply(req, ok)) ELSE fromDevice

ServeBlock(req) ==
  \/ /\ slot = "free" /\ ~faulted
     /\ Accept /\ owner' = req
     /\ Replies(req, TRUE)
     /\ UNCHANGED <<faulted, faultNotice, finished>>
  \/ /\ slot # "free" \/ faulted
     /\ Replies(req, FALSE)
     /\ UNCHANGED <<lifecycleVars, owner, faulted, faultNotice, finished>>

\* A fault is not looked at.
ServeFinish(req) ==
  /\ finished' = IF slot = "free" THEN finished \cup {req.op} ELSE finished
  /\ Replies(req, slot = "free")
  /\ UNCHANGED <<lifecycleVars, owner, faulted, faultNotice>>

EndsFailed == IF slot \in {"reserved", "executing"} THEN End /\ outcome' = "failed"
              ELSE UNCHANGED lifecycleVars

ServeStop(req) ==
  /\ EndsFailed
  /\ faulted' = TRUE /\ faultNotice' = TRUE
  /\ Replies(req, TRUE)
  /\ UNCHANGED <<owner, finished>>

ServeReset(req) ==
  /\ IF slot # "free" THEN Drop ELSE UNCHANGED lifecycleVars
  /\ \E ok \in BOOLEAN :
       /\ faulted' = ~ok
       /\ faultNotice' = (faultNotice \/ ~ok)
       /\ Replies(req, ok)
  /\ UNCHANGED <<owner, finished>>

Serve ==
  /\ toDevice # << >>
  /\ LET req == Head(toDevice)
     IN CASE req.kind = "block"  -> ServeBlock(req)
          [] req.kind = "finish" -> ServeFinish(req)
          [] req.kind = "stop"   -> ServeStop(req)
          [] OTHER               -> ServeReset(req)
  /\ UNCHANGED <<linkVars, taskVars, inbox, completed, faults>>

DeviceKeeps == UNCHANGED <<linkVars, taskVars, toDevice, inbox, owner, finished>>

Execute ==
  /\ Start
  /\ UNCHANGED <<fromDevice, faulted, faultNotice, completed, faults>> /\ DeviceKeeps

Complete ==
  /\ slot = "executing" /\ End /\ outcome' = "done"
  /\ completed' = completed \cup {owner}
  /\ UNCHANGED <<fromDevice, faulted, faultNotice, faults>> /\ DeviceKeeps

\* The motors or the bus fail, with or without a block.
Fault ==
  /\ faults < MaxFaults /\ faults' = faults + 1
  /\ EndsFailed
  /\ faulted' = TRUE /\ faultNotice' = TRUE
  /\ UNCHANGED <<fromDevice, completed>> /\ DeviceKeeps

\* drainRuntimeEvents: the result first, then the fault.
DrainResult ==
  /\ slot = "ended"
  /\ IF linkUp
       THEN Report(1) /\ fromDevice' = Append(fromDevice, Result(owner, outcome))
       ELSE Discard /\ UNCHANGED fromDevice
  /\ UNCHANGED <<faulted, faultNotice, completed, faults>> /\ DeviceKeeps

DrainFault ==
  /\ slot # "ended" /\ faultNotice
  /\ faultNotice' = FALSE
  /\ fromDevice' = IF linkUp THEN Append(fromDevice, FaultEvent) ELSE fromDevice
  /\ UNCHANGED <<lifecycleVars, faulted, completed, faults>> /\ DeviceKeeps

Device == Serve \/ Execute \/ Complete \/ Fault \/ DrainResult \/ DrainFault

----------------------------------------------------------------------------
\* The main process has no promise left to run, so its next event may be served.
LinkIdle == settled = << >> /\ (commandQueue = << >> \/ headSent)

LinkSteps ==
  /\ RunCommand \/ Receive \/ Resume \/ (LinkIdle /\ RequestTimeout)
  /\ UNCHANGED <<taskVars, deviceVars>>

LinkBreaks == LinkIdle /\ Disconnect /\ UNCHANGED <<taskVars, deviceVars>>

Loops == LinkIdle /\ (Hear \/ ResultTimeout \/ Render) /\ UNCHANGED deviceVars

User ==
  /\ LinkIdle
  /\ SubmitJob \/ CancelJob \/ EmergencyStop \/ ResetFault
  /\ UNCHANGED deviceVars

Next == Device \/ LinkSteps \/ LinkBreaks \/ Loops \/ User

Spec == Init /\ [][Next]_vars

----------------------------------------------------------------------------
(* Properties. *)

Completes == slot = "executing" /\ slot' = "ended" /\ outcome' = "done"

Predecessors(b) ==
  IF b.index = JobBlocks + 1 THEN {[b EXCEPT !.index = i] : i \in 1..JobBlocks}
  ELSE {[b EXCEPT !.index = @ - 1]}

\* The motors execute a block once, and only after the block of the same operation
\* before it, whatever was cancelled, stopped, lost, reset or started meanwhile
\* (requireDone waits for the result before the loop goes on).
BlocksInOrder ==
  [][ Completes =>
        /\ owner \notin completed
        /\ owner.index = 1 \/ Predecessors(owner) \cap completed # {} ]_vars

\* A task is finished on the device only after its last block was done: finish_task
\* looks at no block but the active one (sendCommand, and the device's own check).
FinishedMeansDone == \A e \in finished : Req("block", e, JobBlocks) \in completed

\* The position from which the next task is planned is one the motors were moved to,
\* although it is written by loops of old operations as well (positionRef).
PositionIsReached == position # NoBlock => position \in completed

\* While the user interface refuses a task because one is running, some loop is alive,
\* of this operation or of an older one: the flag does not stay set with nobody left to
\* clear it (runningRef, the effect on printTask.running).
RunningHasLoop == running => \E e \in 1..MaxEpoch : loop[e].phase \notin {"none", "over"}

\* A loop never meets its own last block in the slot: it waits for a result that says
\* the slot is free again, whatever was late, stopped or reset meanwhile (requireDone).
OwnBlockIsOver ==
  toDevice # << >> /\ Head(toDevice).kind = "block" /\ slot # "free" =>
    owner.op # Head(toDevice).op

AnswerComes(req) ==
  \/ req \in ToSet(commandQueue) \cup pending
  \/ \E m \in ToSet(settled) : m.req = req
  \/ \E m \in ToSet(inbox) : m.type = "answer" /\ m.req = req

\* No loop waits for an answer that cannot come any more, and the command queue is
\* never held by a request that is over (handleDisconnect, the timers, enqueue).
EveryWaitIsAnswered ==
  /\ \A e \in 1..MaxEpoch :
       /\ loop[e].phase = "ack" => AnswerComes(BlockOf(e))
       /\ loop[e].phase = "finish" => AnswerComes(Req("finish", e, 0))
  /\ headSent => Head(commandQueue) \in pending \cup {m.req : m \in ToSet(settled)}
=============================================================================
