-------------------------- MODULE MotionProperties --------------------------
(* What the executor owes to the machine and to the operator. *)
EXTENDS MotionExecutor

\* Type invariant of the executor and the motors.
MotionTypeOK ==
  /\ FeedbackTypeOK
  /\ state \in State /\ phase \in Phase /\ fault \in Fault
  /\ {accepted, refused, block} \subseteq Blocks \cup {<< >>} /\ slot \in Slot
  /\ supervision \in [Motors -> Supervision]
  /\ stepAge \in 0..MaxAge /\ commandAge \in 0..MaxAge
  /\ samples \in 0..CompletionSamples /\ {job, moves} \subseteq 0..MaxMoves
  /\ polled \subseteq Motors /\ ordered \subseteq Motors /\ answersLate \subseteq Motors /\ obeyed \subseteq Motors

Done == (state = "running" /\ phase = "finished") \/ state = "completed"

\* The motors that obeyed in this run and are judged by their pulse counts.
Observed == {m \in obeyed : supervision[m].active /\ supervision[m].known}

\* When a run is done and no block was accepted under it, every motor that obeyed its
\* command and was supervised from a known baseline is where the block of the run wants
\* it; this is decided from samples that may be older than the command
\* (feedbackSatisfied, motorAtTarget).  A motor that did not obey may pass its target
\* on the way of an earlier command.  A block accepted under the run overwrites the
\* step, whose kind says which motors are judged: then nothing can be promised.
DoneMeansArrived ==
  Done /\ slot # "other" =>
    \A m \in Observed : Near(motor[m].at, StepOf(block).targets[m])

\* However a run fails, no motor it has commanded is left on its way.
FailureStopsMotors ==
  state = "faulted" => \A m \in ordered : ~Moves(m)

Names(b, m, target) == MoveBlock(b) /\ \E i \in DOMAIN b : b[i].motor = m /\ b[i].target = target

\* A motor is only ever sent by a run, where the legal block that was accepted last
\* names it to be, which is the block of the run unless one was accepted under it; a Y
\* motor only together with the other one.  Otherwise its goal changes to be stopped.
MotionIsTheBlock ==
  [][ \A m \in Motors : motor'[m].goal \notin {motor[m].goal, motor[m].at} =>
        /\ state = "running" /\ ordered = {}
        /\ Names(accepted, m, motor'[m].goal)
        /\ slot # "other" => accepted = block
        /\ m \in YPair => YPair \subseteq ordered' ]_vars

\* A motor is supervised on its way only if it obeyed the command of this run, or
\* still owed the answer to an earlier one: acknowledgements carry no number.
AckIsForThisCommand ==
  state = "running" /\ phase \in {"target", "finished"} =>
    {m \in ordered : supervision[m].active} \subseteq obeyed \cup answersLate

\* "Acked but did not move" is said only on samples taken after the command.
NoMovementNeedsEvidence ==
  [][ state = "running" /\ fault' = "motion_no_movement" =>
        \E m \in ordered : /\ supervision[m].ack
                           /\ feedback[m].pulseAge < commandAge
                           /\ feedback[m].velocityAge < commandAge ]_vars

\* A run does not wait for ever, whatever the motors do.
RunEnds == state = "running" ~> state # "running"

----------------------------------------------------------------------------
(* What is inductive: the properties above rest on it. *)

Supervising == state = "running" /\ phase \in {"ack", "target", "finished"}

\* The step of a run is the one made from the block that was accepted last, which is
\* the block of the run as long as none was accepted under it.
StepIsTheBlock ==
  state = "running" =>
    /\ accepted \in Blocks /\ step = StepOf(accepted) /\ step.ok
    /\ slot # "other" => accepted = block

\* Before the commands nothing is ordered, supervised or counted.
NothingOrderedYet ==
  state = "running" /\ phase \in {"new", "preflight"} =>
    ordered = {} /\ Active(supervision) = {} /\ samples = 0

\* The motors supervised are motors commanded, the Y motors together.
SupervisedIsOrdered ==
  Supervising => /\ Active(supervision) \subseteq ordered
                 /\ ordered \cap YPair # {} => YPair \subseteq ordered

\* An answer that counts, or that will, is one of this run or one that was owed.
AnswersAreOwed ==
  Supervising =>
    \A m \in ordered : supervision[m].ack \/ motor[m].reply = "ack" => m \in obeyed \cup answersLate

\* Supervision on the way begins when every command is acknowledged.
AckedOnTheWay == Supervising /\ phase # "ack" => AllAcked(supervision)

NoFaultWhileRunning == state = "running" => fault = ""

MotionInvariant ==
  /\ MotionTypeOK
  /\ StepIsTheBlock
  /\ NothingOrderedYet
  /\ SupervisedIsOrdered
  /\ AnswersAreOwed
  /\ AckedOnTheWay
  /\ NoFaultWhileRunning
  /\ FailureStopsMotors

\* The supervision keeps the target of the command, whatever becomes of the step.  A
\* motor that obeyed goes there, or was stopped; it is of the block of the run unless
\* another was accepted under it.
ObeyedGoesThere ==
  /\ state = "running" /\ phase \in {"new", "preflight"} => obeyed = {}
  /\ Supervising \/ Done =>
       \A m \in obeyed :
         supervision[m].active => motor[m].goal \in {supervision[m].target, motor[m].at}

SupervisedForTheBlock ==
  (Supervising \/ Done) /\ slot # "other" =>
    \A m \in Active(supervision) : /\ m \in DOMAIN StepOf(block).targets
                                   /\ supervision[m].target = StepOf(block).targets[m]

\* All motors that are supervised are of the kind the step moves, so all are judged.
SupervisedIsJudged ==
  Supervising /\ phase # "finished" /\ slot # "other" => Active(supervision) \subseteq Judged

\* A sample at its target was taken there: the baseline, the last sample that may be
\* older than the command, is not at the target.
SampledWhereItIs ==
  Supervising =>
    \A m \in Observed :
      Near(feedback[m].pulse, supervision[m].target) => Near(motor[m].at, supervision[m].target)

ArrivalInvariant ==
  /\ ObeyedGoesThere /\ SupervisedForTheBlock /\ SupervisedIsJudged
  /\ SampledWhereItIs /\ DoneMeansArrived

\* All that holds together between the executor, its step, the motors and the samples:
\* what a run supervises was ordered from its step, answered, and judged where it is,
\* also when another block is accepted under the run.
ExecutorInvariant == MotionInvariant /\ ArrivalInvariant

----------------------------------------------------------------------------
(* Claims of the repository that the code does not keep. *)

\* Only one motion block may be active at a time: what moves is the block of the run,
\* not one that was accepted and refused while the run was on.
MotionIsOwnBlock ==
  [][ \A m \in Motors : motor'[m].goal \notin {motor[m].goal, motor[m].at} =>
        Names(block, m, motor'[m].goal) ]_vars

\* The actions of the protocol are motor_move and wait: a legal block is accepted.
LegalBlocksAreAccepted == refused # << >> => ~LegalBlock(refused)

----------------------------------------------------------------------------
(* The detailed executor implements the one the application is checked with. *)

Abstract == INSTANCE BlockExecutor WITH
  execState <- state,
  execStage <- CASE phase \in {"new", "preflight"} -> "preflight"
                 [] phase = "finished" -> "finished"
                 [] OTHER -> "target",
  execMoved <- ordered # {},
  execJob <- job

\* Every step of the executor is one that BlockExecutor allows.
ImplementsBlockExecutor ==
  Abstract!ExecInit /\ [][ \/ Abstract!ExecTick
                           \/ Abstract!ExecCanStart /\ Abstract!ExecStart(job')
                           \/ Abstract!ExecEmergencyStop
                           \/ Abstract!ExecResetFault ]_<<Abstract!execVars>>
=============================================================================
