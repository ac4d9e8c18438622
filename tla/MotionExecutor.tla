--------------------------- MODULE MotionExecutor ---------------------------
(***************************************************************************)
(* MotionExecutor in detail: how the step of an accepted block becomes     *)
(* motor commands, and how the feedback of the motors decides whether the  *)
(* run ends as completed or as a fault.  BlockExecutor is what the         *)
(* application sees of it.                                                 *)
(*                                                                         *)
(* There is no clock: the age of the step, of its commands and of every    *)
(* sample grow together in TimePasses.  A limit is compared with an age as *)
(* the code compares it with the difference of two readings of millis().   *)
(* Frames are received between two ticks, one at a time; a tick passes as  *)
(* many phases as it can.  The stops of stopAll are heard at once here,    *)
(* MotionTransport models how they reach the bus.                          *)
(*                                                                         *)
(* The executor does not own the step it runs: it reads it again in every  *)
(* tick from the buffer of the application (activeMotionSteps_), which the *)
(* next accepted block overwrites.  A reset that empties the slot of a run *)
(* lets a block be accepted under it: "accepted" is the block whose step   *)
(* is in the buffer, "block" the one the run was started for.              *)
(***************************************************************************)
EXTENDS MotionBlockParser, MotorFeedback

CONSTANTS
  Blocks,               \* the blocks that are submitted
  MaxMoves,             \* bound on the actions of all accepted blocks
  BaselineFresh,        \* kBaselineFreshMs
  FeedbackFresh,        \* kFeedbackFreshMs
  BaselineTimeout,      \* kBaselinePreflightTimeoutMs
  AckTimeout,           \* motionCommandAckTimeoutMs
  NoMovementTimeout,    \* motionNoMovementTimeoutMs
  MinimumMotion,        \* minimumMotionMs of a step
  CompletionSamples,    \* completionSamples
  PositionTolerance,    \* positionToleranceSteps
  SkewTolerance         \* ySkewToleranceSteps

Limits == {BaselineFresh, FeedbackFresh, BaselineTimeout, AckTimeout,
           NoMovementTimeout, MinimumMotion, MaxBlockTimeout}

\* As configured: 1000 ms of freshness, 1200 ms without movement, 3 samples.
ASSUME ExecutorAssumption ==
  /\ Motors \subseteq AllMotors /\ Pulses \subseteq Int /\ 0 \in Pulses
  /\ \A p, q \in Pulses : p..q \subseteq Pulses
  /\ MaxAge \in Nat /\ \A l \in Limits : l \in Nat /\ l < MaxAge
  /\ FeedbackFresh <= NoMovementTimeout /\ FeedbackFresh <= BaselineFresh
  /\ CompletionSamples \in Nat /\ CompletionSamples > 1
  /\ PositionTolerance \in Nat /\ SkewTolerance \in Nat /\ MaxMoves \in Nat

\* What the parser has to make of the blocks: a step moves motors of the machine,
\* the Y motors together, to where an action of the block says; a wait moves none, and
\* an XY step moves X and Y only.
ASSUME StepsAssumption ==
  \A b \in Blocks :
    LET s == StepOf(b)
    IN /\ Len(b) \in Nat
       /\ s.ok =>
            /\ DOMAIN s.targets \subseteq Motors
            /\ DOMAIN s.targets \cap YPair # {} => YPair \subseteq DOMAIN s.targets
            /\ s.kind = "wait" => DOMAIN s.targets = {}
            /\ s.kind = "move_xy" => DOMAIN s.targets \subseteq {"x"} \cup YPair
            /\ \A m \in DOMAIN s.targets :
                 /\ s.targets[m] \in Pulses
                 /\ MoveBlock(b)
                 /\ \E i \in DOMAIN b : b[i].motor = m /\ b[i].target = s.targets[m]

VARIABLES
  state,         \* state_
  phase,         \* phase_; "new" before the first tick (stepStartedAtMs_ is 0),
                 \* "finished" once currentStep_ has passed the step
  accepted,      \* history: the block that was accepted last
  step,          \* the step made from it: activeMotionSteps_.steps[0]
  refused,       \* the block that was refused since then, if one was
  block,         \* history: the block the run was started for
  job,           \* the job of the run (context_.seq): the value of moves at its start
  slot,          \* of the run: "run" the slot is its block's, "free" a reset has
                 \* emptied it, "other" another block was accepted since
  supervision,   \* activeSupervision_
  stepAge,       \* since stepStartedAtMs_
  commandAge,    \* since commandIssueMs_
  samples,       \* completionSampleCount_
  fault,         \* faultCode_
  moves,         \* how many actions the accepted blocks had; numbers the jobs
  polled,        \* history: the motors asked for feedback in this run
  ordered,       \* history: the motors commanded in this run
  answersLate,   \* history: those that owed the answer to an earlier command
  obeyed         \* history: those that obeyed

runVars == <<state, phase, accepted, step, refused, block, job, slot, supervision, stepAge, commandAge,
             samples, fault, moves, polled, ordered, answersLate, obeyed>>
vars == <<feedbackVars, runVars>>

State == {"idle", "running", "completed", "faulted"}
Slot == {"run", "free", "other"}
Phase == {"new", "preflight", "ack", "target", "finished"}
Fault == {"", "emergency_stop", "motion_feedback_timeout", "motion_command_rejected",
          "motion_command_no_ack", "motion_condition_not_met", "motion_no_movement",
          "y_pair_skew", "motion_target_timeout"}

\* MotorSupervisionState: "known" is baselineKnown, "initial" initialPulse,
\* "target" targetPulse, "ref" pulseReferenceKnown, "moved" velocityEverNonZero.
Supervision == [active : BOOLEAN, target : Pulses,
                known : BOOLEAN, initial : Pulses, ref : BOOLEAN,
                ack : BOOLEAN, rejected : BOOLEAN, reached : BOOLEAN, moved : BOOLEAN]

Unsupervised == [active |-> FALSE, target |-> 0, known |-> FALSE, initial |-> 0, ref |-> FALSE,
                 ack |-> FALSE, rejected |-> FALSE, reached |-> FALSE, moved |-> FALSE]

Targets == DOMAIN step.targets

ExecutorInit ==
  /\ FeedbackInit
  /\ state = "idle" /\ phase = "new" /\ accepted = << >> /\ step = NoStep
  /\ refused = << >> /\ block = << >> /\ job = 0 /\ slot = "free"
  /\ supervision = [m \in Motors |-> Unsupervised]
  /\ stepAge = 0 /\ commandAge = 0 /\ samples = 0 /\ fault = "" /\ moves = 0
  /\ polled = {} /\ ordered = {} /\ answersLate = {} /\ obeyed = {}

\* Mutated form of Accepts: the buffer is not emptied, so the step is put behind the
\* one that is there.
AcceptsBehind(b) ==
  /\ moves + Len(b) <= MaxMoves /\ moves' = moves + Len(b)
  /\ accepted' = b /\ refused' = << >>
  /\ step' = IF step = NoStep THEN StepOf(b) ELSE step

\* An accepted block overwrites the buffer, the step of a run that reads it too.
Accepts(b) ==
  /\ moves + Len(b) <= MaxMoves /\ moves' = moves + Len(b)
  /\ accepted' = b /\ step' = StepOf(b) /\ refused' = << >>

\* The tick after that, with the executor at rest: start.
Starts ==
  /\ state # "running"
  /\ state' = "running" /\ phase' = "new"
  /\ block' = accepted' /\ job' = moves' /\ slot' = "run"
  /\ supervision' = [m \in Motors |-> Unsupervised]
  /\ stepAge' = 0 /\ commandAge' = 0 /\ samples' = 0 /\ fault' = ""
  /\ polled' = {} /\ ordered' = {} /\ answersLate' = {} /\ obeyed' = {}

\* Or the block was cancelled or dropped before, or start found a run: busy.
NotStarted ==
  /\ slot' = IF state = "running" THEN "other" ELSE slot
  /\ UNCHANGED <<block, job, state, phase, supervision, stepAge, commandAge, samples,
                 fault, polled, ordered, answersLate, obeyed>>

\* submitRemoteBlock on a ready device with nothing in the slot, and what the next
\* round makes of the block.
Submit(b) ==
  /\ state # "faulted"
  /\ state = "running" => slot # "run"
  /\ IF StepOf(b).ok
       THEN Accepts(b) /\ (Starts \/ NotStarted)
       ELSE /\ refused' = b
            /\ UNCHANGED <<accepted, step, block, job, slot, state, phase, supervision, stepAge,
                           commandAge, samples, fault, moves, polled, ordered, answersLate, obeyed>>
  /\ UNCHANGED feedbackVars

----------------------------------------------------------------------------
(* What the feedback says of a supervised motor. *)

Near(a, b) == a - b <= PositionTolerance /\ b - a <= PositionTolerance

\* motorAtTarget: by samples that need not be younger than the command.
AtTarget(sup, m) ==
  /\ Fresh(m, FeedbackFresh) /\ ~feedback[m].moving
  /\ Near(feedback[m].pulse, sup[m].target)

\* motorSupervisionSatisfied: without a baseline the motor's own word counts.
MotorSatisfied(sup, m) ==
  sup[m].active =>
    IF sup[m].known THEN AtTarget(sup, m)
    ELSE /\ stepAge >= MinimumMotion
         /\ \/ sup[m].reached
            \/ /\ sup[m].ack /\ sup[m].moved
               /\ FreshVelocity(m, FeedbackFresh) /\ ~feedback[m].moving

Rejected(sup) == \E m \in Motors : sup[m].active /\ sup[m].rejected
AllAcked(sup) == \A m \in Motors : sup[m].active => sup[m].ack

\* Mutated form of AckedButNotMoving: the last samples will do, however old.
AckedButStale(sup, m) ==
  /\ sup[m].active /\ sup[m].ack /\ ~sup[m].moved /\ sup[m].ref
  /\ Near(feedback[m].pulse, sup[m].initial)

AckedButNotMoving(sup, m) ==
  /\ sup[m].active /\ sup[m].ack /\ ~sup[m].moved /\ sup[m].ref
  /\ Fresh(m, FeedbackFresh)
  /\ Near(feedback[m].pulse, sup[m].initial)

\* The Y motors turn in opposite directions: their pulses should cancel out.
Skew(sup) ==
  (feedback["yLeft"].pulse - sup["yLeft"].initial)
    + (feedback["yRight"].pulse - sup["yRight"].initial)

\* yPairSkewCheckReady and yPairSkewExceeded, reached once X is satisfied.
SkewExceeded(sup) ==
  /\ step.kind = "move_xy"
  /\ YPair \subseteq Motors /\ \A m \in YPair : sup[m].active
  /\ "x" \in Motors => MotorSatisfied(sup, "x")
  /\ \/ \A m \in YPair : sup[m].known
     \/ \A m \in YPair : sup[m].ref /\ FreshInputPulse(m, FeedbackFresh)
  /\ Skew(sup) \notin -SkewTolerance..SkewTolerance

Active(sup) == {m \in Motors : sup[m].active}

\* Mutated form of WithPartner: a Y motor at its target is left out.
WithoutPartner(ms) == ms

\* The Y motors are polled and commanded together.
WithPartner(ms) == IF ms \cap YPair = {} THEN ms ELSE ms \cup YPair

XYMotors == {"x"} \cup YPair

\* requestFeedback: an XY step polls supervised motors only, the others always.
Polls(sup) ==
  IF step.kind = "move_xy"
    THEN WithPartner(Active(sup) \cap XYMotors) ELSE Targets

\* feedbackSatisfied looks at the motors its kind of step can move, and at no other
\* that is supervised.
Judged == IF step.kind = "move_xy" THEN Motors \cap XYMotors ELSE Targets

----------------------------------------------------------------------------
(* One tick.  "r" is the run as the earlier phases of the tick left it.    *)

Now == [sup |-> supervision, motors |-> motor, commandAge |-> commandAge,
        polled |-> polled, ordered |-> ordered, late |-> answersLate, obeyed |-> obeyed]

Leaves(r) ==
  /\ supervision' = r.sup /\ commandAge' = r.commandAge
  /\ polled' = r.polled /\ ordered' = r.ordered
  /\ answersLate' = r.late /\ obeyed' = r.obeyed

Goes(r, ph, n) ==
  /\ Leaves(r) /\ motor' = r.motors
  /\ phase' = ph /\ samples' = n
  /\ UNCHANGED <<state, fault>>

\* Mutated form of Fails: the motors are not stopped.
FailsOnly(r, ph, code) ==
  /\ Leaves(r) /\ motor' = r.motors
  /\ state' = "faulted" /\ fault' = code /\ phase' = ph
  /\ UNCHANGED samples

\* stopAll and fail.  The phase, which nobody reads any more, is kept.
Fails(r, ph, code) ==
  /\ Leaves(r) /\ motor' = Stopped(r.motors)
  /\ state' = "faulted" /\ fault' = code /\ phase' = ph
  /\ UNCHANGED samples

\* The count goes on in the code; only whether there are enough is read.
NextSample == IF samples < CompletionSamples THEN samples + 1 ELSE samples

\* Mutated form of Finishes: the run is complete with its last step.
FinishesAtOnce(r) ==
  /\ Leaves(r) /\ motor' = r.motors
  /\ phase' = "finished" /\ samples' = 0 /\ state' = "completed"
  /\ UNCHANGED fault

\* finishStep, and what tick resets after it.
Finishes(r) == Goes([r EXCEPT !.commandAge = 0], "finished", 0)

\* Enough samples in a row; the settle time may be over or not.
Settles(r, n) ==
  \/ Goes(r, "target", n)
  \/ n = CompletionSamples /\ Finishes(r)

\* Mutated form of Satisfied: the first supervised motor decides.
AnySatisfied(sup) ==
  \/ \A m \in Judged : ~sup[m].active
  \/ \E m \in Judged : sup[m].active /\ MotorSatisfied(sup, m)

Satisfied(sup) == \A m \in Judged : MotorSatisfied(sup, m)

\* Mutated form of Late: the limit is that of the configuration.
LateByDefault == stepAge > MaxAge

Late == stepAge > StepTimeout(step)

\* isStepComplete of a step that moves motors.
MotionPhase(r) ==
  LET q == [r EXCEPT !.polled = @ \cup Polls(r.sup)]
      stuck == /\ r.commandAge > NoMovementTimeout
               /\ \E m \in Motors : AckedButNotMoving(r.sup, m)
  IN \/ Rejected(r.sup) /\ Fails(q, "target", "motion_condition_not_met")
     \/ ~Rejected(r.sup) /\ stuck /\ Fails(q, "target", "motion_no_movement")
     \/ /\ ~Rejected(r.sup) /\ ~stuck
        /\ \/ SkewExceeded(r.sup) /\ Fails(q, "target", "y_pair_skew")
           \/ /\ ~SkewExceeded(r.sup) /\ Satisfied(r.sup)
              /\ Settles(q, NextSample)
           \/ /\ ~SkewExceeded(r.sup) /\ ~Satisfied(r.sup)
              /\ Goes(q, "target", 0)

\* isStepComplete.  A wait is over some time after it began.  A step that is late
\* has the code "motion_feedback_timeout" if a motor was never heard; that is not
\* told apart here.
TargetPhase(r) ==
  \/ Late /\ Fails(r, "target", "motion_target_timeout")
  \/ ~Late /\ step.kind = "wait" /\ (Goes(r, "target", samples) \/ Finishes(r))
  \/ ~Late /\ step.kind # "wait" /\ MotionPhase(r)

\* waitForCommandAck
AckPhase(r) ==
  \/ Rejected(r.sup) /\ Fails(r, "ack", "motion_condition_not_met")
  \/ ~Rejected(r.sup) /\ AllAcked(r.sup) /\ TargetPhase(r)
  \/ /\ ~Rejected(r.sup) /\ ~AllAcked(r.sup)
     /\ IF r.commandAge > AckTimeout
          THEN Fails(r, "ack", "motion_command_no_ack")
          ELSE Goes(r, "ack", samples)

\* Mutated form of Captured: what was noted for the last run stays.
CapturedAgain(m, known) ==
  IF m \notin Targets \/ (known /\ Near(step.targets[m], feedback[m].pulse))
    THEN Unsupervised
    ELSE [supervision[m] EXCEPT
            !.active = TRUE, !.target = step.targets[m], !.known = known, !.ack = TRUE,
            !.ref = @ \/ known, !.initial = IF known THEN feedback[m].pulse ELSE @]

\* Mutated form of Captured: a motor at its target is supervised all the same.
CapturedThere(m, known) ==
  IF m \notin Targets THEN Unsupervised
    ELSE [supervision[m] EXCEPT
            !.active = TRUE, !.target = step.targets[m], !.known = known,
            !.ref = @ \/ known, !.initial = IF known THEN feedback[m].pulse ELSE @]

\* makeSupervision.  A motor at its target is not supervised.
Captured(m, known) ==
  IF m \notin Targets \/ (known /\ Near(step.targets[m], feedback[m].pulse))
    THEN Unsupervised
    ELSE [supervision[m] EXCEPT
            !.active = TRUE, !.target = step.targets[m], !.known = known,
            !.ref = @ \/ known, !.initial = IF known THEN feedback[m].pulse ELSE @]

Supervise(expired) == [m \in Motors |-> Captured(m, m \notin expired)]

\* startMoveXY and the like: the supervised motors are commanded with their partners.
Issued(sup, heard) ==
  LET orders == WithPartner(Active(sup))
  IN [Now EXCEPT
        !.sup = sup, !.commandAge = 0, !.ordered = orders,
        !.obeyed = {m \in orders : heard[m] = "ack"},
        !.late = {m \in orders : motor[m].reply # "none" \/ supervision[m].ack},
        !.motors = [m \in Motors |->
          IF m \in orders THEN Heard(motor[m], step.targets[m], heard[m]) ELSE motor[m]]]

\* The transmit queue has no room for the batch: nothing is stopped.
NoRoom(r) ==
  /\ Leaves(r) /\ state' = "faulted" /\ fault' = "motion_command_rejected"
  /\ phase' = "preflight"
  /\ UNCHANGED <<motor, samples>>

\* issueStepCommand.  A sample that was fresh may be too old a moment later.
IssuePhase ==
  \E expired \in SUBSET {m \in Targets : ~Fresh(m, BaselineFresh - 1)} :
    LET sup == Supervise(expired)
        orders == WithPartner(Active(sup))
        r == [Now EXCEPT !.sup = sup, !.commandAge = 0]
    IN \/ orders = {} /\ TargetPhase(r)
       \/ orders # {} /\ \E heard \in [orders -> Reply] : AckPhase(Issued(sup, heard))
       \/ orders # {} /\ NoRoom(r)

\* preflightBaseline.  A step without motors needs none.
PreflightPhase ==
  LET r == [Now EXCEPT !.polled = @ \cup Polls(supervision)]
  IN \/ Targets = {} /\ TargetPhase(Now)
     \/ /\ Targets # {} /\ \A m \in Targets : Fresh(m, BaselineFresh)
        /\ IssuePhase
     \/ /\ \E m \in Targets : ~Fresh(m, BaselineFresh)
        /\ IF stepAge > BaselineTimeout
             THEN Fails(r, "preflight", "motion_feedback_timeout")
             ELSE Goes(r, "preflight", samples)

Complete ==
  /\ state' = "completed"
  /\ UNCHANGED <<motor, phase, supervision, commandAge, samples, fault,
                 polled, ordered, answersLate, obeyed>>

Tick ==
  /\ state = "running"
  /\ \/ phase \in {"new", "preflight"} /\ PreflightPhase
     \/ phase = "ack" /\ AckPhase(Now)
     \/ phase = "target" /\ TargetPhase(Now)
     \/ phase = "finished" /\ Complete
  /\ stepAge' = IF phase' = "finished" THEN 0 ELSE stepAge
  /\ UNCHANGED <<feedback, accepted, step, refused, block, job, slot, moves>>

----------------------------------------------------------------------------
(* Frames that arrive between two ticks.  updateMotorSupervision counts    *)
(* those that are not older than the command; one that is read just before *)
(* a command carries the same millisecond and may be counted too.  Unread  *)
(* replies are lost, or hidden by another reply in the same round.         *)

Note(m, s) ==
  \/ /\ supervision[m].active \/ phase \in {"new", "preflight"}
     /\ supervision' = [supervision EXCEPT ![m] = s]
  \/ ~supervision[m].active /\ UNCHANGED supervision

ReceiveReply(m) ==
  /\ motor[m].reply # "none"
  /\ motor' = [motor EXCEPT ![m] = [@ EXCEPT !.reply = "none"]]
  /\ IF motor[m].reply = "ack"
       THEN Note(m, [supervision[m] EXCEPT !.ack = TRUE])
       ELSE Note(m, [supervision[m] EXCEPT !.rejected = TRUE])
  /\ UNCHANGED feedback

ReceiveReached(m) ==
  /\ motor[m].arrived
  /\ motor' = [motor EXCEPT ![m] = [@ EXCEPT !.arrived = FALSE]]
  /\ Note(m, [supervision[m] EXCEPT !.reached = TRUE])
  /\ UNCHANGED feedback

ReceivePulse(m) ==
  /\ m \in polled
  /\ ApplyPulse(m)
  /\ LET s == supervision[m]
     IN Note(m, IF s.ref THEN s ELSE [s EXCEPT !.ref = TRUE, !.initial = motor[m].at])
  /\ UNCHANGED motor

ReceiveVelocity(m) ==
  /\ m \in polled
  /\ \E moving \in BOOLEAN :
       /\ ApplyVelocity(m, moving)
       /\ Note(m, [supervision[m] EXCEPT !.moved = @ \/ moving])
  /\ UNCHANGED motor

Receive ==
  /\ state = "running" /\ phase # "finished"
  /\ \E m \in Motors :
       ReceiveReply(m) \/ ReceiveReached(m) \/ ReceivePulse(m) \/ ReceiveVelocity(m)
  /\ UNCHANGED <<state, phase, accepted, step, refused, block, job, slot, stepAge, commandAge,
                 samples, fault, moves, polled, ordered, answersLate, obeyed>>

----------------------------------------------------------------------------
(* The application, the motors and time. *)

EmergencyStop ==
  /\ state' = "faulted" /\ fault' = "emergency_stop"
  /\ motor' = Stopped(motor)
  /\ UNCHANGED <<feedback, phase, accepted, step, refused, block, job, slot, supervision, stepAge,
                 commandAge, samples, moves, polled, ordered, answersLate, obeyed>>

\* A fatal CAN fault: the application stops the motors, not the run.
StopAll ==
  /\ motor' = Stopped(motor)
  /\ UNCHANGED <<feedback, runVars>>

SlotEmptied == IF slot = "run" THEN "free" ELSE slot

\* resetFault with no run, and the probe that goes with it.  The history of the last
\* run, and the ages start() resets before they are read again, are forgotten.
ResetFault(answers, moving) ==
  /\ state # "running"
  /\ state' = IF state = "faulted" THEN "idle" ELSE state
  /\ fault' = "" /\ slot' = SlotEmptied
  /\ ApplyProbe(answers, moving)
  /\ stepAge' = 0 /\ commandAge' = 0
  /\ polled' = {} /\ answersLate' = {} /\ obeyed' = {}
  /\ UNCHANGED <<motor, phase, accepted, step, refused, block, job, supervision, samples, moves, ordered>>

\* resetFault leaves a run as it is, but empties the slot and polls every motor; the
\* answers are received like others.  A round that starts a run ticks it too.
ResetUnderRun ==
  /\ state = "running" /\ phase # "new"
  /\ slot' = SlotEmptied
  /\ polled' = Motors
  /\ UNCHANGED <<feedbackVars, state, phase, accepted, step, refused, block, job, supervision, stepAge,
                 commandAge, samples, fault, moves, ordered, answersLate, obeyed>>

MotorAdvances ==
  /\ \E m \in Motors : Advance(m)
  /\ UNCHANGED runVars

TimePasses ==
  /\ AgeSamples
  /\ IF state = "running" /\ phase \notin {"new", "finished"}
       THEN stepAge' = Older(stepAge) /\ commandAge' = Older(commandAge)
       ELSE UNCHANGED <<stepAge, commandAge>>
  /\ UNCHANGED <<motor, state, phase, accepted, step, refused, block, job, slot, supervision, samples,
                 fault, moves, polled, ordered, answersLate, obeyed>>

Next ==
  \/ \E b \in Blocks : Submit(b)
  \/ Tick
  \/ Receive
  \/ EmergencyStop
  \/ StopAll
  \/ \E answers \in SUBSET Motors, moving \in SUBSET {m \in Motors : Moves(m)} :
       ResetFault(answers, moving)
  \/ ResetUnderRun
  \/ MotorAdvances
  \/ TimePasses

Init == ExecutorInit

Spec == Init /\ [][Next]_vars

\* The loop keeps turning and time goes on; nothing is asked of the motors.
FairSpec == Spec /\ WF_vars(Tick) /\ WF_vars(TimePasses)
=============================================================================
