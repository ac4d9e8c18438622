--------------------------- MODULE BlockExecutor ----------------------------
(***************************************************************************)
(* MotionExecutor as AutoTyperApplication sees it.  A run executes the one *)
(* step of an accepted block: it waits for a feedback baseline             *)
(* ("preflight"), issues the motor commands, supervises them until the     *)
(* target is reached ("target"), has nothing left to do ("finished") and   *)
(* is found complete by the next tick.  Feedback and timers decide how far *)
(* one tick gets, so they are choices here.                                *)
(*                                                                         *)
(* cancel() and the states Cancelling and Cancelled have no caller on the  *)
(* TCP path and are left out.                                              *)
(***************************************************************************)
EXTENDS Naturals

VARIABLES
  execState,  \* state_: "idle", "running", "completed" or "faulted"
  execStage,  \* phase_ and currentStep_ of a run
  execMoved,  \* the run has handed motor commands to the driver
  execJob     \* the job the run was started for (context_.groupId and seq)

execVars == <<execState, execStage, execMoved, execJob>>

ExecState == {"idle", "running", "completed", "faulted"}
ExecStage == {"preflight", "target", "finished"}

\* Type invariant of the executor.
ExecTypeOK ==
  /\ execState \in ExecState /\ execStage \in ExecStage
  /\ execMoved \in BOOLEAN /\ execJob \in Nat

ExecInit ==
  /\ execState = "idle"
  /\ execStage = "preflight"
  /\ execMoved = FALSE
  /\ execJob = 0

ExecCanStart == execState # "running"

ExecStart(j) ==
  /\ execState' = "running"
  /\ execStage' = "preflight"
  /\ execMoved' = FALSE
  /\ execJob' = j

----------------------------------------------------------------------------
(* One tick of a running executor.  The phases fall through, so one tick may *)
(* pass several of them.                                                     *)

\* No fresh baseline yet, or it never came and the preflight timed out.
TickBaseline ==
  /\ execStage = "preflight"
  /\ execState' \in {"running", "faulted"}
  /\ UNCHANGED <<execStage, execMoved>>

\* A wait, or a move that is already at its target: nothing is commanded.  A
\* baseline that came late can leave no time for the rest.
TickNoMotion ==
  /\ execStage = "preflight"
  /\ \/ execState' = "running" /\ execStage' \in {"target", "finished"}
     \/ execState' = "faulted" /\ execStage' = "target"
  /\ UNCHANGED execMoved

\* The commands are enqueued; a rejection by a motor may be seen at once.
TickIssue ==
  /\ execStage = "preflight"
  /\ execState' \in {"running", "faulted"}
  /\ execStage' = "target"
  /\ execMoved' = TRUE

\* Acknowledged and at the target, still on the way, or failed.
TickTarget ==
  /\ execStage = "target"
  /\ \/ execState' = "running" /\ execStage' \in {"target", "finished"}
     \/ execState' = "faulted" /\ UNCHANGED execStage
  /\ UNCHANGED execMoved

TickFinished ==
  /\ execStage = "finished"
  /\ execState' = "completed"
  /\ UNCHANGED <<execStage, execMoved>>

ExecTick ==
  /\ execState = "running"
  /\ TickBaseline \/ TickNoMotion \/ TickIssue \/ TickTarget \/ TickFinished
  /\ UNCHANGED execJob

----------------------------------------------------------------------------

\* Mutated form of ExecEmergencyStop: the motors are stopped, the run goes on.
ExecStopMotorsOnly == UNCHANGED execVars

ExecEmergencyStop ==
  /\ execState' = "faulted"
  /\ UNCHANGED <<execStage, execMoved, execJob>>

\* Only a faulted executor is reset: a running one keeps its run.
ExecResetFault ==
  /\ execState' = IF execState = "faulted" THEN "idle" ELSE execState
  /\ UNCHANGED <<execStage, execMoved, execJob>>
=============================================================================
