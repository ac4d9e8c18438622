----------------------------- MODULE PrintTask ------------------------------
(***************************************************************************)
(* usePrintTaskController: the loops of the user interface that send the   *)
(* blocks of a task one by one.  A loop waits for the acknowledgement of   *)
(* its block and for its result (requireDone, awaitBlockExecution), and it *)
(* goes on waiting when a stop or a fault has let the user start another   *)
(* operation: an epoch tells whose state it is.                            *)
(*                                                                         *)
(* An operation is a printing task, with its return to zero when it is     *)
(* cancelled.  The debug moves of the hook have no button.                 *)
(***************************************************************************)
EXTENDS DeviceLink

CONSTANTS
  JobBlocks,       \* the blocks of a plan
  ReturnBlocks,    \* the blocks of encodeReturnToZero
  MaxEpoch,        \* bound on the operations and stops
  MaxResets        \* bound on the resets the user asks for

ASSUME TaskAssumption ==
  /\ {JobBlocks, ReturnBlocks} \subseteq Nat \ {0}
  /\ MaxEpoch \in Nat /\ MaxResets \in Nat

VARIABLES
  epoch,              \* operationEpochRef
  loop,               \* each operation begun: where its loop waits
  running,            \* runningRef
  taskRunning,        \* printTask.running
  rendered,           \* the value of it that was rendered last
  requiresRecovery,   \* printTask.requiresRecovery
  cancelRequested,    \* cancelRequestedRef
  activeRun,          \* activeRunRef: the operation it belongs to, or 0
  position,           \* positionRef: the block whose target it holds
  resets              \* how many resets were asked for

taskVars == <<epoch, loop, running, taskRunning, rendered, requiresRecovery, cancelRequested,
              activeRun, position, resets>>

Phase == {"none", "ack", "result", "finish", "over"}

NotBegun == [phase |-> "none", index |-> 0, outcome |-> "open", returning |-> FALSE]

TaskInit ==
  /\ epoch = 0 /\ loop = [e \in 1..MaxEpoch |-> NotBegun]
  /\ running = FALSE /\ taskRunning = FALSE /\ rendered = FALSE
  /\ requiresRecovery = FALSE /\ cancelRequested = FALSE /\ activeRun = 0
  /\ position = NoBlock /\ resets = 0

----------------------------------------------------------------------------
(* The loop of an operation. *)

BlockOf(e) == Req("block", e, loop[e].index)

FlagsKept == UNCHANGED <<running, taskRunning, requiresRecovery, cancelRequested, activeRun>>
LinkKept(box) == inbox' = box /\ UNCHANGED <<linkVars, toDevice, fromDevice>>

\* Mutated form of Submit: the outcome of the block before is still there.
SubmitKeepsOutcome(e, l, index, box) ==
  /\ loop' = [loop EXCEPT ![e] = [l EXCEPT !.phase = "ack", !.index = index]]
  /\ SendCommand(Req("block", e, index), box)

\* requireDone: the wait for the result begins before the block is sent.
Submit(e, l, index, box) ==
  /\ loop' = [loop EXCEPT ![e] = [l EXCEPT !.phase = "ack", !.index = index, !.outcome = "open"]]
  /\ SendCommand(Req("block", e, index), box)

\* submitJob: the button is enabled, beginOperation, the first block.
SubmitJob ==
  /\ ~running /\ ~taskRunning /\ ~requiresRecovery /\ epoch < MaxEpoch
  /\ epoch' = epoch + 1 /\ activeRun' = epoch + 1
  /\ running' = TRUE /\ taskRunning' = TRUE /\ cancelRequested' = FALSE
  /\ Submit(epoch + 1, NotBegun, 1, inbox)
  /\ UNCHANGED <<rendered, requiresRecovery, position, resets>>

\* Mutated form of Settle: an operation that failed is not finished.
SettleDone(e, recovery) ==
  IF e = epoch /\ ~recovery
    THEN /\ running' = FALSE /\ taskRunning' = FALSE /\ requiresRecovery' = recovery
         /\ cancelRequested' = FALSE /\ activeRun' = 0
    ELSE /\ taskRunning' = (taskRunning /\ e # epoch)
         /\ requiresRecovery' = (requiresRecovery \/ e = epoch)
         /\ UNCHANGED <<running, cancelRequested, activeRun>>

\* finishOperation and the writes before it: only the last operation has a state.
Settle(e, recovery) ==
  IF e = epoch
    THEN /\ running' = FALSE /\ taskRunning' = FALSE /\ requiresRecovery' = recovery
         /\ cancelRequested' = FALSE /\ activeRun' = 0
    ELSE FlagsKept

Ends(e, recovery, box) ==
  /\ loop' = [loop EXCEPT ![e].phase = "over"]
  /\ Settle(e, recovery)
  /\ LinkKept(box)

\* Mutated form of LastBlock: the last block of a task is left out.
LastBlockLess(l) == IF l.returning THEN JobBlocks + ReturnBlocks ELSE JobBlocks - 1

LastBlock(l) == IF l.returning THEN JobBlocks + ReturnBlocks ELSE JobBlocks

\* Mutated form of CancelSeen: the return to zero looks at it as well.
CancelSeenAgain(l) == cancelRequested

CancelSeen(l) == ~l.returning /\ cancelRequested

AskFinish(e, box) ==
  /\ loop' = [loop EXCEPT ![e].phase = "finish"]
  /\ SendCommand(Req("finish", e, 0), box)

\* The block of e is done: the next one, the return to zero, or the end.
Advance(e, box) ==
  LET l == loop[e]
  IN /\ position' = BlockOf(e)
     /\ \/ /\ CancelSeen(l)
           /\ Submit(e, [l EXCEPT !.returning = TRUE], JobBlocks + 1, box) /\ FlagsKept
        \/ /\ ~CancelSeen(l) /\ l.index < LastBlock(l)
           /\ Submit(e, l, l.index + 1, box) /\ FlagsKept
        \/ /\ ~CancelSeen(l) /\ l.index = LastBlock(l) /\ ~l.returning
           /\ AskFinish(e, box) /\ FlagsKept
        \/ /\ ~CancelSeen(l) /\ l.index = LastBlock(l) /\ l.returning
           /\ Ends(e, FALSE, box)

----------------------------------------------------------------------------
(* What the user interface hears. *)

\* The answer to an execute_block: the outcome may have been there before it.
BlockAnswered(m, box) ==
  LET e == m.req.op
  IN \/ /\ m.ok /\ loop[e].outcome = "open"
        /\ loop' = [loop EXCEPT ![e].phase = "result"]
        /\ FlagsKept /\ LinkKept(box) /\ UNCHANGED position
     \/ m.ok /\ loop[e].outcome = "done" /\ Advance(e, box)
     \/ /\ ~m.ok \/ loop[e].outcome \in {"failed", "aborted"}
        /\ Ends(e, TRUE, box) /\ UNCHANGED position

FinishAnswered(m, box) ==
  /\ position' = IF m.ok THEN Req("block", m.req.op, JobBlocks) ELSE position
  /\ Ends(m.req.op, ~m.ok, box)

\* resetFault, and the stop, whose result is only shown.
OtherAnswered(m, box) ==
  /\ requiresRecovery' = (requiresRecovery /\ ~(m.req.kind = "reset" /\ m.ok))
  /\ LinkKept(box)
  /\ UNCHANGED <<loop, running, taskRunning, cancelRequested, activeRun, position>>

HearAnswer(m, box) ==
  CASE m.req.kind = "block"  -> BlockAnswered(m, box)
    [] m.req.kind = "finish" -> FinishAnswered(m, box)
    [] OTHER                 -> OtherAnswered(m, box)

Waits(e) == loop[e].phase \in {"ack", "result"} /\ loop[e].outcome = "open"

\* Mutated form of DoneAfter: any result of the block will do.
DoneAnyway(status) == "done"

DoneAfter(status) == IF status = "done" THEN "done" ELSE "failed"

HearResult(m, box) ==
  LET e == m.req.op
      awaited == Waits(e) /\ loop[e].index = m.req.index
  IN \/ /\ ~awaited
        /\ FlagsKept /\ LinkKept(box) /\ UNCHANGED <<loop, position>>
     \/ /\ awaited /\ loop[e].phase = "ack"
        /\ loop' = [loop EXCEPT ![e].outcome = DoneAfter(m.status)]
        /\ FlagsKept /\ LinkKept(box) /\ UNCHANGED position
     \/ /\ awaited /\ loop[e].phase = "result"
        /\ IF DoneAfter(m.status) = "done" THEN Advance(e, box)
           ELSE Ends(e, TRUE, box) /\ UNCHANGED position

\* A fault ends every wait for a result, whatever block it is about.
HearFault(box) ==
  LET ends(e) == Waits(e) /\ loop[e].phase = "result"
  IN /\ loop' = [e \in DOMAIN loop |->
                   IF ends(e) THEN [loop[e] EXCEPT !.phase = "over"]
                   ELSE IF Waits(e) THEN [loop[e] EXCEPT !.outcome = "failed"]
                   ELSE loop[e]]
     /\ taskRunning' = FALSE /\ requiresRecovery' = TRUE
     /\ IF epoch # 0 /\ ends(epoch)
          THEN running' = FALSE /\ cancelRequested' = FALSE /\ activeRun' = 0
          ELSE UNCHANGED <<running, cancelRequested, activeRun>>
     /\ LinkKept(box)
     /\ UNCHANGED position

Hear ==
  /\ inbox # << >>
  /\ LET m == Head(inbox)
         box == Tail(inbox)
     IN CASE m.type = "answer" -> HearAnswer(m, box)
          [] m.type = "result" -> HearResult(m, box)
          [] OTHER             -> HearFault(box)
  /\ UNCHANGED <<epoch, rendered, resets>>

\* The timer of awaitBlockExecution, longer than any wait for an acknowledgement.
ResultTimeout ==
  /\ \E e \in 1..MaxEpoch : loop[e].phase = "result" /\ Ends(e, TRUE, inbox)
  /\ UNCHANGED <<epoch, rendered, position, resets>>

\* The effect that copies printTask.running to runningRef when it has changed.
Render ==
  /\ rendered # taskRunning
  /\ rendered' = taskRunning /\ running' = taskRunning
  /\ LinkKept(inbox)
  /\ UNCHANGED <<epoch, loop, taskRunning, requiresRecovery, cancelRequested, activeRun,
                 position, resets>>

----------------------------------------------------------------------------
(* What the user does. *)

CancelJob ==
  /\ running /\ taskRunning /\ cancelRequested' = TRUE
  /\ LinkKept(inbox)
  /\ UNCHANGED <<epoch, loop, running, taskRunning, rendered, requiresRecovery, activeRun,
                 position, resets>>

\* The abort reaches the loop that waits for a result now, and no later wait of it.
Aborted ==
  IF activeRun # 0 /\ Waits(activeRun)
    THEN [loop EXCEPT ![activeRun] =
            IF @.phase = "ack" THEN [@ EXCEPT !.outcome = "aborted"] ELSE [@ EXCEPT !.phase = "over"]]
    ELSE loop

EmergencyStop ==
  /\ epoch < MaxEpoch /\ epoch' = epoch + 1
  /\ loop' = Aborted
  /\ activeRun' = 0 /\ running' = FALSE /\ cancelRequested' = FALSE
  /\ taskRunning' = FALSE /\ requiresRecovery' = TRUE
  /\ SendCommand(Req("stop", epoch + 1, 0), inbox)
  /\ UNCHANGED <<rendered, position, resets>>

ResetFault ==
  /\ ~taskRunning /\ resets < MaxResets /\ resets' = resets + 1
  /\ SendCommand(Req("reset", resets + 1, 0), inbox)
  /\ UNCHANGED <<epoch, loop, running, taskRunning, rendered, requiresRecovery,
                 cancelRequested, activeRun, position>>
=============================================================================
