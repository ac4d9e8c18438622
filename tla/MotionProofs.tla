---------------------------- MODULE MotionProofs ----------------------------
(***************************************************************************)
(* The safety of the motion executor, for any motors, pulses, blocks and   *)
(* limits that the assumptions allow, and that it implements the executor  *)
(* the firmware is checked with.  A tick passes phases with the run as a   *)
(* record: first what each phase keeps of MotionInvariant, then one step   *)
(* for each action.                                                        *)
(***************************************************************************)
EXTENDS MotionProperties, TLAPS

USE DEF State, Phase, Fault, Reply, Slot

Motor == [at : Pulses, goal : Pulses, reply : Reply, arrived : BOOLEAN]

Sample == [pulse : Pulses, pulseAge : 0..MaxAge, moving : BOOLEAN, velocityAge : 0..MaxAge]

\* The run as the phases of a tick hand it on.
Run == [sup : [Motors -> Supervision], motors : [Motors -> Motor], commandAge : 0..MaxAge,
        polled : SUBSET Motors, ordered : SUBSET Motors, late : SUBSET Motors,
        obeyed : SUBSET Motors]

\* ... and what it keeps of the invariant.
GoodRun(r) ==
  /\ r \in Run
  /\ Active(r.sup) \subseteq r.ordered
  /\ r.ordered \cap YPair # {} => YPair \subseteq r.ordered
  /\ \A m \in r.ordered : r.sup[m].ack \/ r.motors[m].reply = "ack" => m \in r.obeyed \cup r.late

Ticking == state = "running" /\ MotionInvariant

\* What every tick does.
TickFrame ==
  /\ stepAge' = IF phase' = "finished" THEN 0 ELSE stepAge
  /\ UNCHANGED <<feedback, accepted, step, refused, block, job, slot, moves>>

----------------------------------------------------------------------------
(* What the operators return. *)

\* A motor and its partner, if it has one, are motors of the step.
LEMMA PartnersAreTargets ==
  ASSUME Ticking, NEW ms \in SUBSET Targets
  PROVE  /\ WithPartner(ms) \subseteq Targets /\ Targets \subseteq Motors
         /\ ms \subseteq WithPartner(ms)
<1>1. accepted \in Blocks /\ step = StepOf(accepted) /\ step.ok
  BY DEF Ticking, MotionInvariant, StepIsTheBlock
<1>2. Targets \subseteq Motors /\ (Targets \cap YPair # {} => YPair \subseteq Targets)
  BY <1>1, StepsAssumption DEF Targets
<1> QED
  BY <1>2 DEF WithPartner

\* The target of a motor is a pulse count.
LEMMA TargetsArePulses ==
  ASSUME Ticking, NEW m \in Targets
  PROVE  step.targets[m] \in Pulses
BY StepsAssumption DEF Ticking, MotionInvariant, StepIsTheBlock, Targets

\* A motor of another step may still be supervised; its partner was commanded with it.
LEMMA PollsAreMotors ==
  ASSUME Ticking, NEW sup, NEW ms \in SUBSET Motors, Active(sup) \subseteq ms,
         ms \cap YPair # {} => YPair \subseteq ms
  PROVE  Polls(sup) \subseteq Motors
<1>1. Targets \subseteq Motors
  BY PartnersAreTargets
<1>2. WithPartner(Active(sup) \cap XYMotors) \subseteq ms
  BY DEF WithPartner
<1> QED
  BY <1>1, <1>2 DEF Polls

\* A stopped motor is on its way nowhere.
LEMMA StoppedProperties ==
  ASSUME NEW motors \in [Motors -> Motor]
  PROVE  /\ Stopped(motors) \in [Motors -> Motor]
         /\ \A m \in Motors : /\ Stopped(motors)[m].goal = Stopped(motors)[m].at
                              /\ Stopped(motors)[m].at = motors[m].at
                              /\ Stopped(motors)[m].reply = motors[m].reply
BY DEF Stopped, Motor

----------------------------------------------------------------------------
(* How a phase ends the tick. *)

\* Ages and counts begin at 0.
LEMMA Bounds ==
  /\ MaxAge \in Nat /\ 0 \in 0..MaxAge
  /\ CompletionSamples \in Nat /\ 0 \in 0..CompletionSamples
  /\ MaxMoves \in Nat /\ 0 \in 0..MaxMoves
<1>1. MaxAge \in Nat /\ CompletionSamples \in Nat /\ MaxMoves \in Nat
  BY Zenon, ExecutorAssumption
<1> QED
  BY <1>1

\* What the type invariant says of the variables a tick changes.
LEMMA TypeParts ==
  ASSUME MotionTypeOK
  PROVE  /\ motor \in [Motors -> Motor] /\ feedback \in [Motors -> Sample]
         /\ supervision \in [Motors -> Supervision]
         /\ stepAge \in 0..MaxAge /\ commandAge \in 0..MaxAge
         /\ samples \in 0..CompletionSamples
         /\ polled \subseteq Motors /\ ordered \subseteq Motors
         /\ answersLate \subseteq Motors /\ obeyed \subseteq Motors
         /\ state \in State /\ phase \in Phase /\ fault \in Fault
         /\ MaxAge \in Nat /\ CompletionSamples \in Nat
BY ExecutorAssumption DEF MotionTypeOK, FeedbackTypeOK, Motor, Sample

\* The step may begin anew, or it grows no older in a tick.
LEMMA TickKeepsAge ==
  ASSUME MotionTypeOK, TickFrame
  PROVE  stepAge' \in 0..MaxAge
<1>1. stepAge \in 0..MaxAge /\ MaxAge \in Nat /\ stepAge' \in {0, stepAge}
  BY TypeParts DEF TickFrame
<1> QED
  BY <1>1

\* The parts of a run.
LEMMA RunParts ==
  ASSUME NEW r \in Run
  PROVE  /\ r.sup \in [Motors -> Supervision] /\ r.motors \in [Motors -> Motor]
         /\ r.commandAge \in 0..MaxAge
         /\ r.polled \subseteq Motors /\ r.ordered \subseteq Motors
         /\ r.late \subseteq Motors /\ r.obeyed \subseteq Motors
BY DEF Run

LEMMA GoodRunPolls ==
  ASSUME Ticking, NEW r, GoodRun(r)
  PROVE  r \in Run /\ Polls(r.sup) \subseteq Motors
BY RunParts, PollsAreMotors DEF GoodRun

\* The run goes on.
LEMMA GoesKeeps ==
  ASSUME Ticking, NEW r, GoodRun(r), TickFrame,
         NEW ph \in {"preflight", "ack", "target", "finished"},
         NEW n \in 0..CompletionSamples, Goes(r, ph, n),
         ph = "preflight" => r.ordered = {} /\ n = 0,
         ph \in {"target", "finished"} => AllAcked(r.sup)
  PROVE  MotionInvariant'
<1> USE DEF Ticking, MotionInvariant, Goes, Leaves, TickFrame, GoodRun
<1>1. supervision' = r.sup /\ motor' = r.motors /\ ordered' = r.ordered /\ state' = "running"
  OBVIOUS
<1>0. /\ supervision' \in [Motors -> Supervision] /\ motor' \in [Motors -> Motor]
      /\ commandAge' \in 0..MaxAge /\ stepAge' \in 0..MaxAge /\ samples' \in 0..CompletionSamples
      /\ polled' \subseteq Motors /\ ordered' \subseteq Motors
      /\ answersLate' \subseteq Motors /\ obeyed' \subseteq Motors
  <2>1. r \in Run /\ MotionTypeOK
    OBVIOUS
  <2>2. stepAge' \in 0..MaxAge
    BY TickKeepsAge
  <2>3. samples' \in 0..CompletionSamples
    BY <2>1, TypeParts
  <2> QED
    BY <2>1, <2>2, <2>3, RunParts
<1>2. MotionTypeOK'
  <2>1. UNCHANGED <<state, fault, feedback, accepted, refused, block, job, slot, moves>> /\ phase' \in Phase
    OBVIOUS
  <2>2. FeedbackTypeOK'
    BY <1>0, <2>1 DEF MotionTypeOK, FeedbackTypeOK, Motor
  <2> QED
    BY <1>0, <2>1, <2>2 DEF MotionTypeOK
<1>3. StepIsTheBlock'
  BY DEF StepIsTheBlock
<1>4. Targets' = Targets /\ Active(supervision)' = Active(r.sup)
  BY DEF Targets, Active
<1>5. NothingOrderedYet'
  BY <1>4 DEF NothingOrderedYet
<1>6. SupervisedIsOrdered'
  BY <1>4 DEF SupervisedIsOrdered, Supervising
<1>7. AnswersAreOwed'
  BY DEF AnswersAreOwed, Supervising
<1>8. AckedOnTheWay'
  BY DEF AckedOnTheWay, Supervising, AllAcked
<1>9. NoFaultWhileRunning' /\ FailureStopsMotors'
  BY DEF NoFaultWhileRunning, FailureStopsMotors
<1> QED
  BY <1>2, <1>3, <1>5, <1>6, <1>7, <1>8, <1>9

\* The run fails.
LEMMA FailsKeeps ==
  ASSUME Ticking, NEW r, GoodRun(r), TickFrame,
         NEW ph \in Phase, NEW code \in Fault, Fails(r, ph, code)
  PROVE  MotionInvariant'
<1> USE DEF Ticking, MotionInvariant, Fails, Leaves, TickFrame, GoodRun
<1>1. state' = "faulted" /\ motor' = Stopped(r.motors) /\ ordered' \subseteq Motors
  BY RunParts
<1>2. /\ motor' \in [Motors -> Motor]
      /\ \A m \in Motors : motor'[m].goal = motor'[m].at
  BY <1>1, RunParts, StoppedProperties
<1>0. /\ supervision' \in [Motors -> Supervision]
      /\ commandAge' \in 0..MaxAge /\ stepAge' \in 0..MaxAge /\ samples' \in 0..CompletionSamples
      /\ polled' \subseteq Motors /\ ordered' \subseteq Motors
      /\ answersLate' \subseteq Motors /\ obeyed' \subseteq Motors
  <2>1. r \in Run /\ MotionTypeOK
    OBVIOUS
  <2>2. stepAge' \in 0..MaxAge
    BY TickKeepsAge
  <2>3. samples' \in 0..CompletionSamples
    BY <2>1, TypeParts
  <2> QED
    BY <2>1, <2>2, <2>3, RunParts
<1>3. MotionTypeOK'
  <2>1. UNCHANGED <<feedback, accepted, refused, block, job, slot, moves>> /\ phase' \in Phase /\ fault' \in Fault
    OBVIOUS
  <2> QED
    BY <1>0, <1>1, <1>2, <2>1 DEF MotionTypeOK, FeedbackTypeOK, Motor
<1>4. FailureStopsMotors'
  BY <1>1, <1>2 DEF FailureStopsMotors, Moves
<1> QED
  BY <1>1, <1>3, <1>4 DEF StepIsTheBlock, NothingOrderedYet, SupervisedIsOrdered, AnswersAreOwed,
                         AckedOnTheWay, NoFaultWhileRunning, Supervising

----------------------------------------------------------------------------
(* The phases. *)

\* A field that GoodRun only bounds may change within its bounds.
LEMMA GoodRunKept ==
  ASSUME Ticking, NEW r, GoodRun(r), NEW ps \in SUBSET Motors
  PROVE  /\ GoodRun([r EXCEPT !.commandAge = 0]) /\ GoodRun([r EXCEPT !.polled = ps])
         /\ [r EXCEPT !.commandAge = 0].sup = r.sup /\ [r EXCEPT !.polled = ps].sup = r.sup
<1>1. 0 \in 0..MaxAge
  BY Bounds
<1>2. r \in Run
  BY DEF GoodRun
<1>3. ASSUME NEW q \in {[r EXCEPT !.commandAge = 0], [r EXCEPT !.polled = ps]}
      PROVE  /\ q \in Run /\ q.sup = r.sup /\ q.motors = r.motors /\ q.ordered = r.ordered
             /\ q.late = r.late /\ q.obeyed = r.obeyed
  BY <1>1, <1>2 DEF Run
<1> QED
  BY <1>3 DEF GoodRun

LEMMA FinishesKeeps ==
  ASSUME Ticking, NEW r, GoodRun(r), AllAcked(r.sup), TickFrame, Finishes(r)
  PROVE  MotionInvariant'
<1> DEFINE q == [r EXCEPT !.commandAge = 0]
<1>1. GoodRun(q) /\ q.sup = r.sup
  BY GoodRunKept
<1>2. Goes(q, "finished", 0)
  BY DEF Finishes
<1>3. 0 \in 0..CompletionSamples
  BY Bounds
<1> HIDE DEF q
<1> QED
  BY <1>1, <1>2, <1>3, GoesKeeps

\* The ways out of a motion phase, r being the run with its new polls.
MotionOutcome(r) ==
  \/ \E code \in {"motion_condition_not_met", "motion_no_movement", "y_pair_skew"} :
       Fails(r, "target", code)
  \/ \E n \in {0, NextSample} : Goes(r, "target", n)
  \/ Finishes(r)

LEMMA MotionOutcomes ==
  ASSUME NEW r, MotionPhase(r)
  PROVE  MotionOutcome([r EXCEPT !.polled = @ \cup Polls(r.sup)])
BY Zenon DEF MotionPhase, MotionOutcome, Settles

LEMMA MotionOutcomeKeeps ==
  ASSUME Ticking, NEW r, GoodRun(r), AllAcked(r.sup), TickFrame, MotionOutcome(r)
  PROVE  MotionInvariant'
<1>1. {0, NextSample} \subseteq 0..CompletionSamples
  <2>1. samples \in 0..CompletionSamples
    BY TypeParts DEF Ticking, MotionInvariant
  <2> QED
    BY <2>1, Bounds DEF NextSample
<1>2. /\ \A code \in Fault : Fails(r, "target", code) => MotionInvariant'
      /\ \A n \in 0..CompletionSamples : Goes(r, "target", n) => MotionInvariant'
  BY FailsKeeps, GoesKeeps
<1> QED
  BY <1>1, <1>2, FinishesKeeps DEF MotionOutcome

LEMMA TargetPhaseKeeps ==
  ASSUME Ticking, NEW r, GoodRun(r), AllAcked(r.sup), TickFrame, TargetPhase(r)
  PROVE  MotionInvariant'
<1>1. Fails(r, "target", "motion_target_timeout") => MotionInvariant'
  BY FailsKeeps
<1>2. Goes(r, "target", samples) => MotionInvariant'
  <2>1. samples \in 0..CompletionSamples
    BY TypeParts DEF Ticking, MotionInvariant
  <2> QED
    BY <2>1, GoesKeeps
<1>3. ASSUME MotionPhase(r) PROVE MotionInvariant'
  <2> DEFINE q == [r EXCEPT !.polled = @ \cup Polls(r.sup)]
  <2>1. r.polled \cup Polls(r.sup) \in SUBSET Motors
    BY GoodRunPolls, RunParts
  <2>2. GoodRun(q) /\ q.sup = r.sup
    BY <2>1, GoodRunKept
  <2>3. MotionOutcome(q)
    BY <1>3, MotionOutcomes
  <2> HIDE DEF q
  <2> QED
    BY <2>2, <2>3, MotionOutcomeKeeps
<1> QED
  BY <1>1, <1>2, <1>3, FinishesKeeps DEF TargetPhase

LEMMA AckPhaseKeeps ==
  ASSUME Ticking, NEW r, GoodRun(r), TickFrame, AckPhase(r)
  PROVE  MotionInvariant'
<1>1. samples \in 0..CompletionSamples
  BY TypeParts DEF Ticking, MotionInvariant
<1>2. /\ \A code \in Fault : Fails(r, "ack", code) => MotionInvariant'
      /\ Goes(r, "ack", samples) => MotionInvariant'
  BY <1>1, FailsKeeps, GoesKeeps
<1>3. AllAcked(r.sup) /\ TargetPhase(r) => MotionInvariant'
  BY TargetPhaseKeeps
<1> QED
  BY <1>2, <1>3 DEF AckPhase

\* The supervision of a motor when the commands are issued.
LEMMA CapturedProperties ==
  ASSUME Ticking, NEW m \in Motors, NEW known \in BOOLEAN
  PROVE  /\ Captured(m, known) \in Supervision
         /\ Captured(m, known).active => m \in Targets /\ Captured(m, known).target = step.targets[m]
         /\ Captured(m, known).ack => supervision[m].ack
<1>1. /\ supervision[m] \in Supervision /\ feedback[m].pulse \in Pulses /\ 0 \in Pulses
  BY TypeParts, Zenon, ExecutorAssumption DEF Ticking, MotionInvariant, Sample
<1>2. Unsupervised \in Supervision /\ ~Unsupervised.active /\ ~Unsupervised.ack
  BY <1>1 DEF Unsupervised, Supervision
<1>3. CASE m \notin Targets \/ (known /\ Near(step.targets[m], feedback[m].pulse))
  BY <1>2, <1>3 DEF Captured
<1>4. CASE ~(m \notin Targets \/ (known /\ Near(step.targets[m], feedback[m].pulse)))
  <2> DEFINE s == [supervision[m] EXCEPT
                     !.active = TRUE, !.target = step.targets[m], !.known = known,
                     !.ref = @ \/ known, !.initial = IF known THEN feedback[m].pulse ELSE @]
  <2>0. step.targets[m] \in Pulses
    BY <1>4, TargetsArePulses
  <2>1. s \in Supervision /\ s.ack = supervision[m].ack /\ s.target = step.targets[m]
    BY <1>1, <2>0 DEF Supervision
  <2>2. Captured(m, known) = s
    BY <1>4 DEF Captured
  <2> HIDE DEF s
  <2> QED
    BY <1>4, <2>1, <2>2
<1> QED
  BY <1>3, <1>4

\* A motor that hears a command: it owes an answer of this run or of an earlier one.
LEMMA HeardProperties ==
  ASSUME NEW was \in Motor, NEW target \in Pulses, NEW reply \in Reply
  PROVE  /\ Heard(was, target, reply) \in Motor
         /\ Heard(was, target, reply).at = was.at
         /\ Heard(was, target, reply).goal \in {was.goal, target}
         /\ Heard(was, target, reply).reply = "ack" => reply = "ack" \/ was.reply # "none"
<1>1. CASE reply = "ack"
  BY <1>1 DEF Heard, Motor
<1>2. CASE reply = "reject"
  BY <1>2 DEF Heard, Motor
<1>3. CASE reply = "none"
  BY <1>3 DEF Heard
<1> QED
  BY <1>1, <1>2, <1>3

\* The run as a tick finds it.
LEMMA NowIsGood ==
  ASSUME Ticking
  PROVE  /\ Now \in Run
         /\ phase \in {"new", "preflight"} => GoodRun(Now) /\ Active(Now.sup) = {} /\ Now.ordered = {}
         /\ phase \in {"ack", "target", "finished"} => GoodRun(Now)
<1>1. Now \in Run
  BY TypeParts DEF Ticking, MotionInvariant, Now, Run
<1>2. CASE phase \in {"new", "preflight"}
  BY <1>1, <1>2 DEF Ticking, MotionInvariant, NothingOrderedYet, Now, GoodRun
<1>3. CASE phase \in {"ack", "target", "finished"}
  <2>1. /\ Active(supervision) \subseteq ordered
        /\ ordered \cap YPair # {} => YPair \subseteq ordered
        /\ \A m \in ordered : supervision[m].ack \/ motor[m].reply = "ack" => m \in obeyed \cup answersLate
    BY <1>3 DEF Ticking, MotionInvariant, SupervisedIsOrdered, AnswersAreOwed, Supervising
  <2> QED
    BY <1>1, <1>3, <2>1 DEF Now, GoodRun
<1> QED
  BY <1>1, <1>2, <1>3

LEMMA SuperviseProperties ==
  ASSUME Ticking, NEW expired
  PROVE  /\ Supervise(expired) \in [Motors -> Supervision]
         /\ Active(Supervise(expired)) \subseteq Targets
         /\ \A m \in Active(Supervise(expired)) : Supervise(expired)[m].target = step.targets[m]
         /\ \A m \in Motors : Supervise(expired)[m].ack => supervision[m].ack
<1>1. \A m \in Motors : (m \notin expired) \in BOOLEAN
  OBVIOUS
<1> QED
  BY <1>1, CapturedProperties DEF Supervise, Active

LEMMA IssuedProperties ==
  ASSUME Ticking, NEW sup \in [Motors -> Supervision], Active(sup) \subseteq Targets,
         \A m \in Motors : sup[m].ack => supervision[m].ack,
         NEW heard \in [WithPartner(Active(sup)) -> Reply]
  PROVE  LET r == Issued(sup, heard)
             orders == WithPartner(Active(sup))
         IN /\ GoodRun(r) /\ r.sup = sup /\ r.ordered = orders /\ r.commandAge = 0
            /\ orders \subseteq Targets
            /\ \A m \in Motors :
                 /\ r.motors[m].at = motor[m].at
                 /\ r.motors[m].goal # motor[m].goal =>
                      m \in orders /\ m \in Targets /\ r.motors[m].goal = step.targets[m]
<1> DEFINE orders == WithPartner(Active(sup))
           r == Issued(sup, heard)
<1>1. orders \subseteq Targets /\ Targets \subseteq Motors /\ Active(sup) \subseteq orders
  BY PartnersAreTargets
<1>2. /\ \A m \in Motors : motor[m] \in Motor
      /\ \A m \in orders : heard[m] \in Reply /\ step.targets[m] \in Pulses
  BY <1>1, TypeParts, TargetsArePulses DEF Ticking, MotionInvariant
<1>3. ASSUME NEW m \in orders
      PROVE  LET h == Heard(motor[m], step.targets[m], heard[m])
             IN /\ h \in Motor /\ h.at = motor[m].at /\ h.goal \in {motor[m].goal, step.targets[m]}
                /\ h.reply = "ack" => heard[m] = "ack" \/ motor[m].reply # "none"
  <2>1. motor[m] \in Motor /\ heard[m] \in Reply /\ step.targets[m] \in Pulses
    BY <1>1, <1>2
  <2> QED
    BY <2>1, HeardProperties
<1>4. /\ r.sup = sup /\ r.commandAge = 0 /\ r.ordered = orders /\ r.polled = polled
      /\ r.obeyed = {m \in orders : heard[m] = "ack"}
      /\ r.late = {m \in orders : motor[m].reply # "none" \/ supervision[m].ack}
      /\ r.motors = [m \in Motors |->
           IF m \in orders THEN Heard(motor[m], step.targets[m], heard[m]) ELSE motor[m]]
  BY DEF Issued, Now
<1>5. r.motors \in [Motors -> Motor]
  BY <1>2, <1>3, <1>4
<1>6. r \in Run
  <2>1. r.obeyed \subseteq Motors /\ r.late \subseteq Motors /\ r.ordered \subseteq Motors
    BY <1>1, <1>4
  <2>2. r = [Now EXCEPT !.sup = r.sup, !.commandAge = 0, !.ordered = r.ordered,
                        !.obeyed = r.obeyed, !.late = r.late, !.motors = r.motors]
    BY <1>4 DEF Issued
  <2> HIDE DEF r, orders
  <2> QED
    BY <1>4, <1>5, <2>1, <2>2, NowIsGood, Bounds DEF Run
<1>7. \A m \in orders : r.sup[m].ack \/ r.motors[m].reply = "ack" => m \in r.obeyed \cup r.late
  <2> HIDE DEF orders, r
  <2> QED
    BY <1>1, <1>3, <1>4
<1>8. GoodRun(r)
  <2>1. orders \cap YPair # {} => YPair \subseteq orders
    BY DEF WithPartner
  <2> HIDE DEF orders, r
  <2> QED
    BY <1>1, <1>4, <1>6, <1>7, <2>1 DEF GoodRun
<1>9. \A m \in Motors :
        /\ r.motors[m].at = motor[m].at
        /\ r.motors[m].goal # motor[m].goal =>
             m \in orders /\ m \in Targets /\ r.motors[m].goal = step.targets[m]
  <2> HIDE DEF orders, r
  <2> QED
    BY <1>1, <1>3, <1>4
<1> QED
  BY <1>1, <1>4, <1>8, <1>9

\* The run before the commands, with the supervision they will have.
Supervised(sup) == [Now EXCEPT !.sup = sup, !.commandAge = 0]

LEMMA SupervisedIsGood ==
  ASSUME Ticking, phase \in {"new", "preflight"}, NEW expired
  PROVE  LET sup == Supervise(expired)
         IN /\ Supervised(sup).sup = sup /\ Supervised(sup).ordered = {}
            /\ Supervised(sup).motors = motor /\ Supervised(sup).commandAge = 0
            /\ Supervised(sup) \in Run
            /\ WithPartner(Active(sup)) = {} => GoodRun(Supervised(sup)) /\ Active(sup) = {}
<1> DEFINE sup == Supervise(expired)
           r == Supervised(sup)
<1>1. sup \in [Motors -> Supervision] /\ Active(sup) \subseteq Targets
  BY SuperviseProperties
<1>2. r \in Run
  <2> HIDE DEF sup
  <2> QED
    BY <1>1, NowIsGood, Bounds DEF Supervised, Run
<1>3. r.sup = sup /\ r.ordered = {} /\ r.motors = motor /\ r.commandAge = 0
  <2>1. ordered = {}
    BY DEF Ticking, MotionInvariant, NothingOrderedYet
  <2> HIDE DEF sup
  <2> QED
    BY <2>1 DEF Supervised, Now
<1>4. WithPartner(Active(sup)) = {} => Active(sup) = {}
  BY <1>1, PartnersAreTargets
<1>5. WithPartner(Active(sup)) = {} => GoodRun(r)
  <2> HIDE DEF sup, r
  <2> QED
    BY <1>2, <1>3, <1>4 DEF GoodRun
<1> QED
  BY <1>2, <1>3, <1>4, <1>5

LEMMA NoRoomKeeps ==
  ASSUME Ticking, NEW r \in Run, r.ordered = {}, TickFrame, NoRoom(r)
  PROVE  MotionInvariant'
<1> USE DEF Ticking, MotionInvariant, NoRoom, Leaves
<1>1. /\ state' = "faulted" /\ phase' = "preflight" /\ fault' = "motion_command_rejected"
      /\ ordered' = {} /\ UNCHANGED <<motor, samples>>
  OBVIOUS
<1>2. MotionTypeOK'
  <2>1. /\ supervision' \in [Motors -> Supervision] /\ commandAge' \in 0..MaxAge
        /\ polled' \subseteq Motors /\ answersLate' \subseteq Motors /\ obeyed' \subseteq Motors
    BY RunParts
  <2>2. stepAge' \in 0..MaxAge
    BY TickKeepsAge
  <2>3. UNCHANGED <<feedback, accepted, refused, block, job, slot, moves>>
    BY DEF TickFrame
  <2> QED
    BY <1>1, <2>1, <2>2, <2>3 DEF MotionTypeOK, FeedbackTypeOK
<1> QED
  BY <1>1, <1>2 DEF FailureStopsMotors, StepIsTheBlock, NothingOrderedYet, SupervisedIsOrdered,
                    AnswersAreOwed, AckedOnTheWay, NoFaultWhileRunning, Supervising

LEMMA IssuePhaseKeeps ==
  ASSUME Ticking, phase \in {"new", "preflight"}, TickFrame, IssuePhase
  PROVE  MotionInvariant'
<1>1. PICK expired :
        LET sup == Supervise(expired)
            orders == WithPartner(Active(sup))
            r == [Now EXCEPT !.sup = sup, !.commandAge = 0]
        IN \/ orders = {} /\ TargetPhase(r)
           \/ orders # {} /\ \E heard \in [orders -> Reply] : AckPhase(Issued(sup, heard))
           \/ orders # {} /\ NoRoom(r)
  BY DEF IssuePhase
<1> DEFINE sup == Supervise(expired)
           orders == WithPartner(Active(sup))
           r == Supervised(sup)
<1>2. /\ r.sup = sup /\ r.ordered = {} /\ r \in Run
      /\ orders = {} => GoodRun(r) /\ Active(sup) = {}
  BY SupervisedIsGood
<1>3. ASSUME orders = {}, TargetPhase(r) PROVE MotionInvariant'
  <2>1. AllAcked(r.sup)
    <3> HIDE DEF sup, r
    <3> QED
      BY <1>2, <1>3 DEF AllAcked, Active
  <2> QED
    BY <1>2, <1>3, <2>1, TargetPhaseKeeps
<1>4. ASSUME NEW heard \in [orders -> Reply], AckPhase(Issued(sup, heard)) PROVE MotionInvariant'
  <2>1. GoodRun(Issued(sup, heard))
    BY SuperviseProperties, IssuedProperties
  <2> HIDE DEF sup
  <2> QED
    BY <1>4, <2>1, AckPhaseKeeps
<1>5. ASSUME NoRoom(r) PROVE MotionInvariant'
  <2> HIDE DEF r
  <2> QED
    BY <1>2, <1>5, NoRoomKeeps
<1> QED
  BY <1>1, <1>3, <1>4, <1>5 DEF Supervised

LEMMA PreflightPhaseKeeps ==
  ASSUME Ticking, phase \in {"new", "preflight"}, TickFrame, PreflightPhase
  PROVE  MotionInvariant'
<1> DEFINE r == [Now EXCEPT !.polled = @ \cup Polls(supervision)]
<1>1. GoodRun(Now) /\ Active(Now.sup) = {} /\ Now.ordered = {} /\ Now.sup = supervision
  BY NowIsGood DEF Now
<1>2. samples = 0
  BY DEF Ticking, MotionInvariant, NothingOrderedYet
<1>3. ASSUME TargetPhase(Now) PROVE MotionInvariant'
  <2>1. AllAcked(Now.sup)
    BY <1>1 DEF AllAcked, Active
  <2> QED
    BY <1>1, <1>3, <2>1, TargetPhaseKeeps
<1>4. GoodRun(r) /\ r.ordered = {}
  <2>1. Now.polled \cup Polls(supervision) \in SUBSET Motors
    BY <1>1, GoodRunPolls, RunParts
  <2>2. [Now EXCEPT !.polled = Now.polled \cup Polls(supervision)].ordered = Now.ordered
    BY DEF Now
  <2> QED
    BY <1>1, <2>1, <2>2, GoodRunKept
<1>5. ASSUME Fails(r, "preflight", "motion_feedback_timeout") PROVE MotionInvariant'
  <2> HIDE DEF r
  <2> QED
    BY <1>4, <1>5, FailsKeeps
<1>6. ASSUME Goes(r, "preflight", samples) PROVE MotionInvariant'
  <2> HIDE DEF r
  <2> QED
    BY <1>2, <1>4, <1>6, Bounds, GoesKeeps
<1> QED
  BY <1>3, <1>5, <1>6, IssuePhaseKeeps DEF PreflightPhase

LEMMA TickKeeps ==
  ASSUME MotionInvariant, Tick
  PROVE  MotionInvariant'
<1>1. Ticking /\ TickFrame
  BY DEF Tick, Ticking, TickFrame
<1>2. CASE phase \in {"new", "preflight"} /\ PreflightPhase
  BY <1>1, <1>2, PreflightPhaseKeeps
<1>3. CASE phase = "ack" /\ AckPhase(Now)
  BY <1>1, <1>3, NowIsGood, AckPhaseKeeps
<1>4. CASE phase = "target" /\ TargetPhase(Now)
  <2>1. AllAcked(Now.sup)
    BY <1>1, <1>4 DEF Ticking, MotionInvariant, AckedOnTheWay, Supervising, Now
  <2> QED
    BY <1>1, <1>4, <2>1, NowIsGood, TargetPhaseKeeps
<1>5. CASE phase = "finished" /\ Complete
  <2>1. /\ state' = "completed" /\ UNCHANGED <<accepted, refused, block, job, slot, moves, feedback>>
        /\ UNCHANGED <<motor, phase, supervision, commandAge, samples, fault,
                       polled, ordered, answersLate, obeyed>>
    BY <1>1, <1>5 DEF Complete, TickFrame
  <2>2. MotionTypeOK'
    <3>1. stepAge' \in 0..MaxAge
      BY <1>1, TickKeepsAge DEF MotionInvariant
    <3> QED
      BY <2>1, <3>1 DEF MotionTypeOK, FeedbackTypeOK, MotionInvariant
  <2> QED
    BY <2>1, <2>2 DEF MotionInvariant, FailureStopsMotors, StepIsTheBlock, NothingOrderedYet,
          SupervisedIsOrdered, AnswersAreOwed, AckedOnTheWay, NoFaultWhileRunning, Supervising
<1> QED
  BY <1>2, <1>3, <1>4, <1>5 DEF Tick

----------------------------------------------------------------------------
(* The other actions. *)

LEMMA SubmitKeeps ==
  ASSUME MotionInvariant, NEW b \in Blocks, Submit(b)
  PROVE  MotionInvariant'
<1> USE DEF MotionInvariant
<1>1. ASSUME StepOf(b).ok PROVE moves' \in 0..MaxMoves
  <2>1. moves' = moves + Len(b) /\ moves + Len(b) <= MaxMoves /\ moves \in 0..MaxMoves
    BY <1>1 DEF Submit, Accepts, MotionTypeOK
  <2>2. Len(b) \in Nat
    BY Zenon, StepsAssumption
  <2> QED
    BY <2>1, <2>2, Bounds
<1>2. CASE StepOf(b).ok /\ Starts
  <2>1. /\ accepted' = b /\ step' = StepOf(b) /\ refused' = << >> /\ block' = b
        /\ state' = "running" /\ phase' = "new" /\ job' = moves' /\ slot' = "run"
        /\ supervision' = [m \in Motors |-> Unsupervised]
        /\ stepAge' = 0 /\ commandAge' = 0 /\ samples' = 0 /\ fault' = ""
        /\ polled' = {} /\ ordered' = {} /\ answersLate' = {} /\ obeyed' = {}
        /\ UNCHANGED <<motor, feedback>>
    BY <1>2 DEF Submit, Accepts, Starts, feedbackVars
  <2>3. Unsupervised \in Supervision /\ ~Unsupervised.active
    <3>1. 0 \in Pulses
      BY Zenon, ExecutorAssumption
    <3> QED
      BY <3>1 DEF Unsupervised, Supervision
  <2>4. MotionTypeOK'
    BY <1>1, <1>2, <2>1, <2>3, Bounds DEF MotionTypeOK, FeedbackTypeOK
  <2>5. Active(supervision)' = {}
    BY <2>1, <2>3 DEF Active
  <2> QED
    BY <1>2, <2>1, <2>4, <2>5 DEF FailureStopsMotors, StepIsTheBlock, NothingOrderedYet,
          SupervisedIsOrdered, AnswersAreOwed, AckedOnTheWay, NoFaultWhileRunning, Supervising
<1>3. CASE StepOf(b).ok /\ NotStarted
  <2>1. /\ accepted' = b /\ step' = StepOf(b) /\ refused' = << >> /\ slot' \in {"other", slot}
        /\ state = "running" => slot' = "other"
        /\ UNCHANGED <<motor, feedback, block, job, state, phase, supervision, stepAge, commandAge,
                       samples, fault, polled, ordered, answersLate, obeyed>>
    BY <1>3 DEF Submit, Accepts, NotStarted, feedbackVars
  <2>2. MotionTypeOK'
    BY <1>1, <1>3, <2>1 DEF MotionTypeOK, FeedbackTypeOK
  <2>3. StepIsTheBlock'
    BY <1>3, <2>1 DEF StepIsTheBlock
  <2> QED
    BY <2>1, <2>2, <2>3 DEF FailureStopsMotors, NothingOrderedYet, SupervisedIsOrdered,
          AnswersAreOwed, AckedOnTheWay, NoFaultWhileRunning, Supervising, AllAcked, Active, Moves
<1>4. CASE ~StepOf(b).ok
  <2>1. /\ refused' = b /\ UNCHANGED feedbackVars
        /\ UNCHANGED <<accepted, step, block, job, slot, state, phase, supervision, stepAge,
                       commandAge, samples, fault, moves, polled, ordered, answersLate, obeyed>>
    BY <1>4 DEF Submit
  <2>2. MotionTypeOK'
    BY <2>1 DEF MotionTypeOK, FeedbackTypeOK, feedbackVars
  <2> QED
    BY <2>1, <2>2 DEF FailureStopsMotors, StepIsTheBlock, NothingOrderedYet, SupervisedIsOrdered,
          AnswersAreOwed, AckedOnTheWay, NoFaultWhileRunning, Supervising, AllAcked, Active,
          Moves, feedbackVars
<1> QED
  BY <1>2, <1>3, <1>4 DEF Submit

\* What a frame may change: an answer is heard or an observation is noted.
LEMMA HearingKeeps ==
  ASSUME MotionInvariant, state = "running", phase # "finished",
         motor' \in [Motors -> Motor], feedback' \in [Motors -> Sample],
         supervision' \in [Motors -> Supervision],
         \A m \in Motors :
           /\ supervision'[m].active = supervision[m].active
           /\ supervision[m].ack => supervision'[m].ack
           /\ supervision'[m].ack \/ motor'[m].reply = "ack" =>
                supervision[m].ack \/ motor[m].reply = "ack",
         UNCHANGED <<state, phase, accepted, step, refused, block, job, slot, stepAge, commandAge, samples, fault,
                     moves, polled, ordered, answersLate, obeyed>>
  PROVE  MotionInvariant'
<1> USE DEF MotionInvariant
<1>1. MotionTypeOK'
  BY DEF MotionTypeOK, FeedbackTypeOK, Motor, Sample
<1>2. Active(supervision)' = Active(supervision) /\ Targets' = Targets
  BY DEF Active, Targets
<1>3. ordered \subseteq Motors
  BY TypeParts
<1>4. StepIsTheBlock' /\ NothingOrderedYet' /\ SupervisedIsOrdered' /\ NoFaultWhileRunning'
  BY <1>2 DEF StepIsTheBlock, NothingOrderedYet, SupervisedIsOrdered, NoFaultWhileRunning, Supervising
<1>5. AnswersAreOwed'
  BY <1>3 DEF AnswersAreOwed, Supervising
<1>6. AckedOnTheWay'
  BY DEF AckedOnTheWay, Supervising, AllAcked
<1>7. FailureStopsMotors'
  BY DEF FailureStopsMotors
<1> QED
  BY <1>1, <1>4, <1>5, <1>6, <1>7

\* A note that keeps a motor supervised or not, and its acknowledgement.
LEMMA NoteProperties ==
  ASSUME MotionTypeOK, NEW m \in Motors, NEW s \in Supervision, Note(m, s),
         s.active = supervision[m].active, supervision[m].ack => s.ack
  PROVE  /\ supervision' \in [Motors -> Supervision]
         /\ \A n \in Motors :
              /\ supervision'[n].active = supervision[n].active
              /\ supervision[n].ack => supervision'[n].ack
              /\ supervision'[n].ack => supervision[n].ack \/ (n = m /\ s.ack)
<1>1. supervision \in [Motors -> Supervision]
  BY TypeParts
<1>2. CASE supervision' = [supervision EXCEPT ![m] = s]
  BY <1>1, <1>2
<1>3. CASE UNCHANGED supervision
  BY <1>1, <1>3
<1> QED
  BY <1>2, <1>3 DEF Note

LEMMA ReceiveKeeps ==
  ASSUME MotionInvariant, Receive
  PROVE  MotionInvariant'
<1>1. /\ state = "running" /\ phase # "finished"
      /\ UNCHANGED <<state, phase, accepted, step, refused, block, job, slot, stepAge, commandAge, samples, fault,
                     moves, polled, ordered, answersLate, obeyed>>
  BY DEF Receive
<1>2. PICK m \in Motors :
        ReceiveReply(m) \/ ReceiveReached(m) \/ ReceivePulse(m) \/ ReceiveVelocity(m)
  BY DEF Receive
<1>3. /\ MotionTypeOK /\ motor \in [Motors -> Motor] /\ feedback \in [Motors -> Sample]
      /\ supervision[m] \in Supervision /\ motor[m] \in Motor
  BY TypeParts DEF MotionInvariant
<1>4. CASE ReceiveReply(m)
  <2> DEFINE reply == [motor[m] EXCEPT !.reply = "none"]
  <2>1. reply \in Motor /\ reply.reply = "none"
    BY <1>3 DEF Motor
  <2>2. motor' = [motor EXCEPT ![m] = reply] /\ feedback' = feedback
    BY <1>4 DEF ReceiveReply
  <2>3. PICK s \in Supervision :
          /\ Note(m, s) /\ s.active = supervision[m].active
          /\ supervision[m].ack => s.ack
          /\ s.ack => supervision[m].ack \/ motor[m].reply = "ack"
    <3>1. CASE motor[m].reply = "ack"
      <4>1. [supervision[m] EXCEPT !.ack = TRUE] \in Supervision
        BY <1>3 DEF Supervision
      <4> QED
        BY <1>3, <1>4, <3>1, <4>1 DEF ReceiveReply, Supervision
    <3>2. CASE motor[m].reply # "ack"
      <4>1. [supervision[m] EXCEPT !.rejected = TRUE] \in Supervision
        BY <1>3 DEF Supervision
      <4> QED
        BY <1>3, <1>4, <3>2, <4>1 DEF ReceiveReply, Supervision
    <3> QED
      BY <3>1, <3>2
  <2> HIDE DEF reply
  <2>4. motor' \in [Motors -> Motor] /\ \A n \in Motors : motor'[n].reply = "ack" => motor[n].reply = "ack"
    BY <1>3, <2>1, <2>2
  <2> QED
    BY <1>1, <1>3, <2>2, <2>3, <2>4, NoteProperties, HearingKeeps
<1>5. CASE ReceiveReached(m)
  <2> DEFINE quiet == [motor[m] EXCEPT !.arrived = FALSE]
             s == [supervision[m] EXCEPT !.reached = TRUE]
  <2>1. quiet \in Motor /\ quiet.reply = motor[m].reply
    BY <1>3 DEF Motor
  <2>2. motor' = [motor EXCEPT ![m] = quiet] /\ feedback' = feedback /\ Note(m, s)
    BY <1>5 DEF ReceiveReached
  <2>3. s \in Supervision /\ s.active = supervision[m].active /\ s.ack = supervision[m].ack
    BY <1>3 DEF Supervision
  <2> HIDE DEF quiet, s
  <2>4. motor' \in [Motors -> Motor] /\ \A n \in Motors : motor'[n].reply = motor[n].reply
    BY <1>3, <2>1, <2>2
  <2> QED
    BY <1>1, <1>3, <2>2, <2>3, <2>4, NoteProperties, HearingKeeps
<1>6. CASE ReceivePulse(m)
  <2> DEFINE s == IF supervision[m].ref THEN supervision[m]
                  ELSE [supervision[m] EXCEPT !.ref = TRUE, !.initial = motor[m].at]
             sample == [feedback[m] EXCEPT !.pulse = motor[m].at, !.pulseAge = 0]
  <2>1. motor' = motor /\ feedback' = [feedback EXCEPT ![m] = sample] /\ Note(m, s)
    BY <1>6 DEF ReceivePulse, ApplyPulse
  <2>2. s \in Supervision /\ s.active = supervision[m].active /\ s.ack = supervision[m].ack
    BY <1>3 DEF Supervision, Motor
  <2>3. sample \in Sample
    BY <1>3, Bounds DEF Sample, Motor
  <2> HIDE DEF s, sample
  <2> QED
    BY <1>1, <1>3, <2>1, <2>2, <2>3, NoteProperties, HearingKeeps
<1>7. CASE ReceiveVelocity(m)
  <2>1. PICK moving \in BOOLEAN :
          /\ motor' = motor
          /\ feedback' = [feedback EXCEPT ![m] = [@ EXCEPT !.moving = moving, !.velocityAge = 0]]
          /\ Note(m, [supervision[m] EXCEPT !.moved = @ \/ moving])
    BY <1>7 DEF ReceiveVelocity, ApplyVelocity
  <2> DEFINE s == [supervision[m] EXCEPT !.moved = @ \/ moving]
             sample == [feedback[m] EXCEPT !.moving = moving, !.velocityAge = 0]
  <2>2. s \in Supervision /\ s.active = supervision[m].active /\ s.ack = supervision[m].ack
    BY <1>3 DEF Supervision
  <2>3. sample \in Sample
    BY <1>3, Bounds DEF Sample
  <2>4. feedback' = [feedback EXCEPT ![m] = sample] /\ Note(m, s)
    BY <2>1
  <2> HIDE DEF s, sample
  <2> QED
    BY <1>1, <1>3, <2>1, <2>2, <2>3, <2>4, NoteProperties, HearingKeeps
<1> QED
  BY <1>2, <1>4, <1>5, <1>6, <1>7

\* The motors move or stop; the run does not know.
LEMMA MotorsKeep ==
  ASSUME MotionInvariant, motor' \in [Motors -> Motor],
         \A m \in Motors : motor'[m].reply = motor[m].reply,
         UNCHANGED <<feedback, runVars>>, FailureStopsMotors'
  PROVE  MotionInvariant'
<1> USE DEF MotionInvariant
<1>1. /\ UNCHANGED <<state, phase, accepted, step, refused, block, job, slot, supervision, stepAge, commandAge, samples,
                     fault, moves, polled, ordered, answersLate, obeyed>>
      /\ feedback' = feedback
  BY DEF runVars
<1>2. MotionTypeOK'
  BY <1>1 DEF MotionTypeOK, FeedbackTypeOK, Motor
<1>3. ordered \subseteq Motors
  BY TypeParts
<1>4. AnswersAreOwed'
  BY <1>1, <1>3 DEF AnswersAreOwed, Supervising
<1> QED
  BY <1>1, <1>2, <1>4 DEF StepIsTheBlock, NothingOrderedYet, SupervisedIsOrdered, AckedOnTheWay,
                          NoFaultWhileRunning, Supervising, AllAcked, Active, Targets

LEMMA StopAllKeeps ==
  ASSUME MotionInvariant, StopAll
  PROVE  MotionInvariant'
<1>1. motor \in [Motors -> Motor] /\ ordered \subseteq Motors
  BY TypeParts DEF MotionInvariant
<1>2. motor' = Stopped(motor) /\ UNCHANGED <<feedback, runVars>> /\ ordered' = ordered
  BY DEF StopAll, runVars
<1>3. FailureStopsMotors'
  BY <1>1, <1>2, StoppedProperties DEF FailureStopsMotors, Moves
<1> QED
  BY <1>1, <1>2, <1>3, StoppedProperties, MotorsKeep

LEMMA MotorAdvancesKeeps ==
  ASSUME MotionInvariant, MotorAdvances
  PROVE  MotionInvariant'
<1>1. PICK m \in Motors : Advance(m)
  BY DEF MotorAdvances
<1>2. UNCHANGED <<feedback, runVars>> /\ ordered' = ordered /\ state' = state
  BY <1>1 DEF MotorAdvances, Advance, runVars
<1> DEFINE next == IF motor[m].at < motor[m].goal THEN motor[m].at + 1 ELSE motor[m].at - 1
           moved == [motor[m] EXCEPT !.at = next, !.arrived = (next = motor[m].goal)]
<1>3. motor' = [motor EXCEPT ![m] = moved] /\ motor[m].goal # motor[m].at
  BY <1>1 DEF Advance, Moves
<1>4. motor \in [Motors -> Motor] /\ motor[m] \in Motor /\ ordered \subseteq Motors
  BY TypeParts DEF MotionInvariant
<1>5. next \in Pulses
  <2>1. motor[m].at \in Pulses /\ motor[m].goal \in Pulses
    BY <1>4 DEF Motor
  <2>2. motor[m].at \in Int /\ motor[m].goal \in Int
    BY <2>1, Zenon, ExecutorAssumption
  <2>3. /\ motor[m].at..motor[m].goal \subseteq Pulses
        /\ motor[m].goal..motor[m].at \subseteq Pulses
    BY <2>1, Zenon, ExecutorAssumption
  <2>4. next \in motor[m].at..motor[m].goal \cup motor[m].goal..motor[m].at
    BY <1>3, <2>2
  <2> QED
    BY <2>3, <2>4
<1>6. moved \in Motor /\ moved.reply = motor[m].reply
  <2> HIDE DEF next
  <2> QED
    BY <1>4, <1>5 DEF Motor
<1> HIDE DEF moved
<1>7. /\ motor' \in [Motors -> Motor] /\ \A n \in Motors : motor'[n].reply = motor[n].reply
      /\ \A n \in Motors : n # m => motor'[n] = motor[n]
  BY <1>3, <1>4, <1>6
<1>8. FailureStopsMotors'
  BY <1>2, <1>3, <1>4, <1>7 DEF FailureStopsMotors, MotionInvariant, Moves
<1> QED
  BY <1>2, <1>7, <1>8, MotorsKeep

LEMMA EmergencyStopKeeps ==
  ASSUME MotionInvariant, EmergencyStop
  PROVE  MotionInvariant'
<1>1. /\ motor \in [Motors -> Motor] /\ motor' = Stopped(motor) /\ state' = "faulted"
      /\ fault' = "emergency_stop" /\ ordered \subseteq Motors /\ MotionTypeOK
      /\ UNCHANGED <<feedback, phase, accepted, step, refused, block, job, slot, supervision, stepAge, commandAge,
                     samples, moves, polled, ordered, answersLate, obeyed>>
  BY TypeParts DEF EmergencyStop, MotionInvariant
<1>2. motor' \in [Motors -> Motor] /\ \A m \in Motors : motor'[m].goal = motor'[m].at
  BY <1>1, StoppedProperties
<1>3. MotionTypeOK'
  BY <1>1, <1>2 DEF MotionTypeOK, FeedbackTypeOK, Motor
<1>4. FailureStopsMotors'
  BY <1>1, <1>2 DEF FailureStopsMotors, Moves
<1> QED
  BY <1>1, <1>3, <1>4 DEF MotionInvariant, StepIsTheBlock, NothingOrderedYet, SupervisedIsOrdered,
        AnswersAreOwed, AckedOnTheWay, NoFaultWhileRunning, Supervising

LEMMA ResetFaultKeeps ==
  ASSUME MotionInvariant, NEW answers, NEW moving, ResetFault(answers, moving)
  PROVE  MotionInvariant'
<1>1. /\ state' \in {"idle", "completed"} /\ fault' = "" /\ slot' \in {"free", slot}
      /\ ApplyProbe(answers, moving)
      /\ stepAge' = 0 /\ commandAge' = 0 /\ polled' = {} /\ answersLate' = {} /\ obeyed' = {}
      /\ UNCHANGED <<motor, phase, accepted, step, refused, block, job, supervision, samples,
                     moves, ordered>>
  BY TypeParts DEF ResetFault, SlotEmptied, MotionInvariant
<1>2. /\ motor \in [Motors -> Motor] /\ feedback \in [Motors -> Sample] /\ MotionTypeOK
  BY TypeParts DEF MotionInvariant
<1>3. feedback' \in [Motors -> Sample]
  <2>1. ASSUME NEW m \in Motors, NEW read \in BOOLEAN
        PROVE  [pulse |-> motor[m].at, pulseAge |-> 0, moving |-> read, velocityAge |-> 0] \in Sample
    BY <1>2, Bounds DEF Motor, Sample
  <2>2. \A m \in Motors : (m \in moving) \in BOOLEAN
    OBVIOUS
  <2> QED
    BY <1>1, <1>2, <2>1, <2>2 DEF ApplyProbe
<1>4. MotionTypeOK'
  <2>1. FeedbackTypeOK'
    BY <1>1, <1>2, <1>3 DEF MotionTypeOK, FeedbackTypeOK, Sample
  <2>2. fault' \in Fault /\ slot' \in Slot /\ state' \in State
    BY <1>1, <1>2 DEF MotionTypeOK
  <2>3. {accepted, refused, block}' \subseteq Blocks \cup {<< >>} /\ {job, moves}' \subseteq 0..MaxMoves
    BY <1>1, <1>2 DEF MotionTypeOK
  <2>4. stepAge' \in 0..MaxAge /\ commandAge' \in 0..MaxAge
    BY <1>1, Bounds
  <2> QED
    BY <1>1, <1>2, <2>1, <2>2, <2>3, <2>4 DEF MotionTypeOK
<1> QED
  BY <1>1, <1>4 DEF MotionInvariant, FailureStopsMotors, StepIsTheBlock, NothingOrderedYet,
        SupervisedIsOrdered, AnswersAreOwed, AckedOnTheWay, NoFaultWhileRunning, Supervising

LEMMA ResetUnderRunKeeps ==
  ASSUME MotionInvariant, ResetUnderRun
  PROVE  MotionInvariant'
<1>1. /\ slot' \in {"free", slot} /\ (slot' # "other" => slot # "other") /\ polled' = Motors
      /\ UNCHANGED <<motor, feedback, state, phase, accepted, step, refused, block, job, supervision,
                     stepAge, commandAge, samples, fault, moves, ordered, answersLate, obeyed>>
  BY DEF ResetUnderRun, SlotEmptied, feedbackVars
<1>2. MotionTypeOK'
  BY <1>1 DEF MotionTypeOK, FeedbackTypeOK, MotionInvariant
<1> QED
  BY <1>1, <1>2 DEF MotionInvariant, FailureStopsMotors, StepIsTheBlock, NothingOrderedYet,
        SupervisedIsOrdered, AnswersAreOwed, AckedOnTheWay, NoFaultWhileRunning, Supervising,
        AllAcked, Active, Moves

LEMMA TimePassesKeeps ==
  ASSUME MotionInvariant, TimePasses
  PROVE  MotionInvariant'
<1>1. /\ UNCHANGED <<motor, state, phase, accepted, step, refused, block, job, slot, supervision, samples, fault,
                     moves, polled, ordered, answersLate, obeyed>>
      /\ AgeSamples
      /\ stepAge' \in {stepAge, Older(stepAge)} /\ commandAge' \in {commandAge, Older(commandAge)}
  BY DEF TimePasses
<1>2. MotionTypeOK /\ feedback \in [Motors -> Sample] /\ stepAge \in 0..MaxAge /\ commandAge \in 0..MaxAge
  BY TypeParts DEF MotionInvariant
<1>3. \A age \in 0..MaxAge : Older(age) \in 0..MaxAge
  BY Bounds DEF Older
<1>4. feedback' \in [Motors -> Sample]
  <2>1. ASSUME NEW m \in Motors
        PROVE  [feedback[m] EXCEPT !.pulseAge = Older(@), !.velocityAge = Older(@)] \in Sample
    BY <1>2, <1>3 DEF Sample
  <2> QED
    BY <1>1, <2>1 DEF AgeSamples
<1>5. MotionTypeOK'
  BY <1>1, <1>2, <1>3, <1>4 DEF MotionTypeOK, FeedbackTypeOK, Sample
<1> QED
  BY <1>1, <1>5 DEF MotionInvariant, FailureStopsMotors, StepIsTheBlock, NothingOrderedYet,
        SupervisedIsOrdered, AnswersAreOwed, AckedOnTheWay, NoFaultWhileRunning, Supervising,
        AllAcked, Active, Targets, Moves

----------------------------------------------------------------------------
(* Invariance. *)

LEMMA InitHolds ==
  ASSUME Init
  PROVE  MotionInvariant
<1> USE DEF Init, ExecutorInit, FeedbackInit
<1>1. 0 \in Pulses
  BY Zenon, ExecutorAssumption
<1>3. Unsupervised \in Supervision
  BY <1>1 DEF Unsupervised, Supervision
<1>4. MotionTypeOK
  <2>1. FeedbackTypeOK
    BY <1>1, Bounds DEF FeedbackTypeOK
  <2>2. supervision \in [Motors -> Supervision]
    BY <1>3
  <2> QED
    BY <2>1, <2>2, Bounds DEF MotionTypeOK
<1> QED
  BY <1>4 DEF MotionInvariant, FailureStopsMotors, StepIsTheBlock, NothingOrderedYet,
        SupervisedIsOrdered, AnswersAreOwed, AckedOnTheWay, NoFaultWhileRunning, Supervising

LEMMA StepKeeps ==
  ASSUME MotionInvariant, [Next]_vars
  PROVE  MotionInvariant'
<1>1. ASSUME NEW b \in Blocks, Submit(b) PROVE MotionInvariant'
  BY <1>1, SubmitKeeps
<1>2. CASE Tick
  BY <1>2, TickKeeps
<1>3. CASE Receive
  BY <1>3, ReceiveKeeps
<1>4. CASE EmergencyStop
  BY <1>4, EmergencyStopKeeps
<1>5. CASE StopAll
  BY <1>5, StopAllKeeps
<1>6. ASSUME NEW answers, NEW moving, ResetFault(answers, moving) PROVE MotionInvariant'
  BY <1>6, ResetFaultKeeps
<1>10. CASE ResetUnderRun
  BY <1>10, ResetUnderRunKeeps
<1>7. CASE MotorAdvances
  BY <1>7, MotorAdvancesKeeps
<1>8. CASE TimePasses
  BY <1>8, TimePassesKeeps
<1>9. CASE UNCHANGED vars
  BY <1>9 DEF MotionInvariant, MotionTypeOK, FeedbackTypeOK, FailureStopsMotors, StepIsTheBlock,
        NothingOrderedYet, SupervisedIsOrdered, AnswersAreOwed, AckedOnTheWay, NoFaultWhileRunning,
        Supervising, AllAcked, Active, Targets, Moves, vars, runVars, feedbackVars
<1> QED
  BY <1>1, <1>2, <1>3, <1>4, <1>5, <1>6, <1>7, <1>8, <1>9, <1>10 DEF Next

\* The invariant holds whatever the motors answer, and when.
THEOREM MotionInvariance == Spec => []MotionInvariant
<1>1. Init => MotionInvariant
  BY InitHolds
<1>2. MotionInvariant /\ [Next]_vars => MotionInvariant'
  BY StepKeeps
<1> QED
  BY <1>1, <1>2, PTL DEF Spec

\* Ages, counts and states of the executor, the motors and the store stay in their
\* types (MotionExecutor, MotorFeedbackStore).
THEOREM MotionTypes == Spec => []MotionTypeOK
<1>1. MotionInvariant => MotionTypeOK
  BY DEF MotionInvariant
<1> QED
  BY <1>1, MotionInvariance, PTL

\* However a run fails, no motor it commanded is left on its way (fail, stopAll).
THEOREM FailureStops == Spec => []FailureStopsMotors
<1>1. MotionInvariant => FailureStopsMotors
  BY DEF MotionInvariant
<1> QED
  BY <1>1, MotionInvariance, PTL

\* A motor is supervised on its way only if it obeyed this run's command or owed an
\* answer to an earlier one (waitForCommandAck, captureSupervisionState).
THEOREM AcksAreForThisCommand == Spec => []AckIsForThisCommand
<1>1. MotionInvariant => AckIsForThisCommand
  <2> SUFFICES ASSUME MotionInvariant, state = "running", phase \in {"target", "finished"},
                      NEW m \in ordered, supervision[m].active
               PROVE  m \in obeyed \cup answersLate
    BY DEF AckIsForThisCommand
  <2>1. Supervising /\ phase # "ack" /\ m \in Motors
    BY TypeParts DEF Supervising, MotionInvariant
  <2>2. supervision[m].ack
    BY <2>1 DEF MotionInvariant, AckedOnTheWay, AllAcked
  <2> QED
    BY <2>1, <2>2 DEF MotionInvariant, AnswersAreOwed
<1> QED
  BY <1>1, MotionInvariance, PTL

----------------------------------------------------------------------------
(* What a tick does, whatever its outcome. *)

Stuck(r) == r.commandAge > NoMovementTimeout /\ \E m \in Motors : AckedButNotMoving(r.sup, m)

\* The run goes on in one of the phases "on", or it fails; only a failure stops the
\* motors, nothing is commanded, and "did not move" has its reason.
Outcome(r, on) ==
  /\ motor' \in {r.motors, Stopped(r.motors)} /\ ordered' = r.ordered
  /\ \/ state' = state /\ fault' = fault /\ phase' \in on
     \/ state' = "faulted" /\ phase' \in on \ {"finished"}
  /\ phase' = "finished" => step.kind = "wait" \/ NextSample = CompletionSamples
  /\ fault' # fault /\ fault' = "motion_no_movement" => Stuck(r)

LEMMA GoesOutcome ==
  ASSUME NEW r, NEW ph, NEW n, NEW on, Goes(r, ph, n), ph \in on, ph # "finished"
  PROVE  Outcome(r, on)
BY DEF Goes, Leaves, Outcome

LEMMA FailsOutcome ==
  ASSUME NEW r, NEW ph, NEW code, NEW on, Fails(r, ph, code), ph \in on \ {"finished"},
         code = "motion_no_movement" => Stuck(r)
  PROVE  Outcome(r, on)
BY DEF Fails, Leaves, Outcome

LEMMA FinishesOutcome ==
  ASSUME NEW r \in Run, NEW on, Finishes(r), "finished" \in on,
         step.kind = "wait" \/ NextSample = CompletionSamples
  PROVE  Outcome(r, on)
<1> DEFINE q == [r EXCEPT !.commandAge = 0]
<1>1. q.motors = r.motors /\ q.ordered = r.ordered
  BY DEF Run
<1>2. motor' = q.motors /\ ordered' = q.ordered /\ phase' = "finished" /\ UNCHANGED <<state, fault>>
  BY DEF Finishes, Goes, Leaves
<1> QED
  BY <1>1, <1>2 DEF Outcome

\* The polls of a phase do not matter for its outcome.
LEMMA PollsOutcome ==
  ASSUME NEW r \in Run, NEW ps, NEW on, Outcome([r EXCEPT !.polled = ps], on)
  PROVE  Outcome(r, on)
<1> DEFINE q == [r EXCEPT !.polled = ps]
<1>1. /\ q.motors = r.motors /\ q.ordered = r.ordered
      /\ q.sup = r.sup /\ q.commandAge = r.commandAge
  BY DEF Run
<1> HIDE DEF q
<1>2. Stuck(q) => Stuck(r)
  BY <1>1 DEF Stuck
<1>3. Outcome(q, on)
  BY DEF q
<1> QED
  BY <1>1, <1>2, <1>3 DEF Outcome

LEMMA TargetPhaseOutcome ==
  ASSUME Ticking, NEW r, GoodRun(r), NEW on, {"target", "finished"} \subseteq on, TargetPhase(r)
  PROVE  Outcome(r, on)
<1>1. r \in Run
  BY DEF GoodRun
<1>2. CASE Fails(r, "target", "motion_target_timeout")
  BY <1>2, FailsOutcome
<1>3. CASE step.kind = "wait" /\ (Goes(r, "target", samples) \/ Finishes(r))
  BY <1>1, <1>3, GoesOutcome, FinishesOutcome
<1>4. CASE MotionPhase(r)
  <2> DEFINE ps == r.polled \cup Polls(r.sup)
             q == [r EXCEPT !.polled = ps]
  <2>1. q \in Run /\ q.sup = r.sup /\ q.commandAge = r.commandAge
    <3>1. ps \in SUBSET Motors
      BY GoodRunPolls, RunParts
    <3> HIDE DEF ps
    <3> QED
      BY <1>1, <3>1 DEF Run
  <2>2. \/ Fails(q, "target", "motion_condition_not_met")
        \/ Stuck(r) /\ Fails(q, "target", "motion_no_movement")
        \/ Fails(q, "target", "y_pair_skew")
        \/ \E n \in {0, NextSample} : Goes(q, "target", n)
        \/ NextSample = CompletionSamples /\ Finishes(q)
    BY <1>4, Zenon DEF MotionPhase, Settles, Stuck
  <2>3. Stuck(r) => Stuck(q)
    <3> HIDE DEF q
    <3> QED
      BY <2>1 DEF Stuck
  <2>4. Outcome(q, on)
    <3> HIDE DEF q
    <3> QED
      BY <2>1, <2>2, <2>3, GoesOutcome, FailsOutcome, FinishesOutcome
  <2> HIDE DEF ps
  <2> QED
    BY <1>1, <2>4, PollsOutcome
<1> QED
  BY <1>2, <1>3, <1>4 DEF TargetPhase

LEMMA AckPhaseOutcome ==
  ASSUME Ticking, NEW r, GoodRun(r), AckPhase(r)
  PROVE  Outcome(r, {"ack", "target", "finished"})
<1>1. CASE Fails(r, "ack", "motion_condition_not_met") \/ Fails(r, "ack", "motion_command_no_ack")
  BY <1>1, FailsOutcome
<1>2. CASE TargetPhase(r)
  BY <1>2, TargetPhaseOutcome
<1>3. CASE Goes(r, "ack", samples)
  BY <1>3, GoesOutcome
<1> QED
  BY <1>1, <1>2, <1>3 DEF AckPhase

\* No baseline, or no room for the commands.
BaselineStep ==
  /\ phase' = "preflight" /\ motor' \in {motor, Stopped(motor)} /\ ordered' = {}
  /\ \/ state' = "running" /\ fault' = fault
     \/ state' = "faulted" /\ fault' # "motion_no_movement"

\* Nothing to command.
NoMotionStep(r) ==
  /\ r.motors = motor /\ r.ordered = {} /\ Active(r.sup) = {}
  /\ Outcome(r, {"target", "finished"})

\* The commands.
CommandStep(r) ==
  /\ r.ordered # {} /\ r.ordered \subseteq Targets /\ r.commandAge = 0
  /\ r.ordered \cap YPair # {} => YPair \subseteq r.ordered
  /\ \A m \in Motors :
       /\ r.motors[m].at = motor[m].at
       /\ r.motors[m].goal # motor[m].goal =>
            m \in r.ordered /\ r.motors[m].goal = step.targets[m]
  /\ Outcome(r, {"ack", "target", "finished"})

LEMMA IssuePhaseSteps ==
  ASSUME Ticking, phase \in {"new", "preflight"}, IssuePhase
  PROVE  BaselineStep \/ \E r \in Run : NoMotionStep(r) \/ CommandStep(r)
<1>1. PICK expired :
        LET sup == Supervise(expired)
            orders == WithPartner(Active(sup))
            r == [Now EXCEPT !.sup = sup, !.commandAge = 0]
        IN \/ orders = {} /\ TargetPhase(r)
           \/ orders # {} /\ \E heard \in [orders -> Reply] : AckPhase(Issued(sup, heard))
           \/ orders # {} /\ NoRoom(r)
  BY DEF IssuePhase
<1> DEFINE sup == Supervise(expired)
           orders == WithPartner(Active(sup))
           r == Supervised(sup)
<1>2. /\ r.sup = sup /\ r.ordered = {} /\ r.motors = motor /\ r \in Run
      /\ orders = {} => GoodRun(r) /\ Active(sup) = {}
  BY SupervisedIsGood
<1>3. ASSUME orders = {}, TargetPhase(r) PROVE NoMotionStep(r)
  <2> HIDE DEF sup, r
  <2>1. Outcome(r, {"target", "finished"})
    BY <1>2, <1>3, TargetPhaseOutcome
  <2> QED
    BY <1>2, <1>3, <2>1 DEF NoMotionStep
<1>4. ASSUME orders # {}, NEW heard \in [orders -> Reply], AckPhase(Issued(sup, heard))
      PROVE  \E q \in Run : CommandStep(q)
  <2> DEFINE q == Issued(sup, heard)
  <2>1. /\ GoodRun(q) /\ q.ordered = orders /\ q.commandAge = 0
        /\ \A m \in Motors :
             /\ q.motors[m].at = motor[m].at
             /\ q.motors[m].goal # motor[m].goal =>
                  m \in orders /\ q.motors[m].goal = step.targets[m]
        /\ orders \subseteq Targets
    BY SuperviseProperties, IssuedProperties
  <2>2. orders \cap YPair # {} => YPair \subseteq orders
    <3> HIDE DEF sup
    <3> QED
      BY DEF WithPartner
  <2>3. Outcome(q, {"ack", "target", "finished"})
    <3>1. AckPhase(q)
      BY <1>4
    <3> HIDE DEF q
    <3> QED
      BY <2>1, <3>1, AckPhaseOutcome
  <2>4. orders # {}
    BY <1>4
  <2> HIDE DEF q, orders
  <2> QED
    BY <2>1, <2>2, <2>3, <2>4 DEF CommandStep, GoodRun
<1>5. ASSUME NoRoom(r) PROVE BaselineStep
  <2> HIDE DEF r
  <2> QED
    BY <1>2, <1>5 DEF NoRoom, Leaves, BaselineStep
<1> QED
  BY <1>1, <1>2, <1>3, <1>4, <1>5 DEF Supervised

LEMMA TickSteps ==
  ASSUME MotionInvariant, Tick
  PROVE  /\ phase \in {"new", "preflight"} =>
              BaselineStep \/ \E r \in Run : NoMotionStep(r) \/ CommandStep(r)
         /\ phase = "ack" => Outcome(Now, {"ack", "target", "finished"})
         /\ phase = "target" => Outcome(Now, {"target", "finished"})
         /\ phase = "finished" => Complete
<1>1. Ticking
  BY DEF Tick, Ticking
<1>2. ASSUME phase \in {"new", "preflight"}
      PROVE  BaselineStep \/ \E r \in Run : NoMotionStep(r) \/ CommandStep(r)
  <2> DEFINE r == [Now EXCEPT !.polled = @ \cup Polls(supervision)]
  <2>1. GoodRun(Now) /\ Active(Now.sup) = {} /\ Now.ordered = {} /\ Now.motors = motor /\ Now \in Run
    BY <1>1, <1>2, NowIsGood DEF Now
  <2>2. r.ordered = {} /\ r.motors = motor
    BY <2>1 DEF Now
  <2>3. CASE TargetPhase(Now)
    BY <1>1, <2>1, <2>3, TargetPhaseOutcome DEF NoMotionStep
  <2>4. CASE IssuePhase
    BY <1>1, <1>2, <2>4, IssuePhaseSteps
  <2>5. CASE Fails(r, "preflight", "motion_feedback_timeout")
    <3> HIDE DEF r
    <3> QED
      BY <2>2, <2>5 DEF Fails, Leaves, BaselineStep
  <2>6. CASE Goes(r, "preflight", samples)
    <3> HIDE DEF r
    <3> QED
      BY <1>1, <2>2, <2>6 DEF Goes, Leaves, BaselineStep, Ticking
  <2>7. PreflightPhase
    BY <1>2 DEF Tick
  <2> QED
    BY <2>3, <2>4, <2>5, <2>6, <2>7 DEF PreflightPhase
<1>3. ASSUME phase = "ack" PROVE Outcome(Now, {"ack", "target", "finished"})
  BY <1>1, <1>3, NowIsGood, AckPhaseOutcome DEF Tick
<1>4. ASSUME phase = "target" PROVE Outcome(Now, {"target", "finished"})
  BY <1>1, <1>4, NowIsGood, TargetPhaseOutcome DEF Tick
<1>5. ASSUME phase = "finished" PROVE Complete
  BY <1>5 DEF Tick
<1> QED
  BY <1>2, <1>3, <1>4, <1>5

----------------------------------------------------------------------------
(* What a step never does. *)

\* "Acked but did not move" is a fault of the tick that finds it stuck.
LEMMA NoMovementIsStuck ==
  ASSUME MotionInvariant, [Next]_vars, state = "running", fault' = "motion_no_movement"
  PROVE  Tick /\ phase \in {"ack", "target"} /\ Stuck(Now)
<1>1. fault = ""
  BY DEF MotionInvariant, NoFaultWhileRunning
<1>2. Tick
  <2>1. ASSUME NEW b \in Blocks, Submit(b) PROVE FALSE
    BY <1>1, <2>1 DEF Submit, Starts, NotStarted
  <2>2. ASSUME NEW answers, NEW moving, ResetFault(answers, moving) PROVE FALSE
    BY <2>2 DEF ResetFault
  <2>4. ~ResetUnderRun
    BY <1>1 DEF ResetUnderRun
  <2>3. ~Receive /\ ~EmergencyStop /\ ~StopAll /\ ~MotorAdvances /\ ~TimePasses /\ ~UNCHANGED vars
    BY <1>1 DEF Receive, EmergencyStop, StopAll, MotorAdvances, TimePasses, vars, runVars
  <2> QED
    BY <2>1, <2>2, <2>3, <2>4 DEF Next
<1>3. NoMovementTimeout \in Nat
  BY Zenon, ExecutorAssumption DEF Limits
<1>4. ASSUME NEW r \in Run, NoMotionStep(r) PROVE FALSE
  <2>1. Stuck(r)
    BY <1>1, <1>4 DEF NoMotionStep, Outcome
  <2>2. Active(r.sup) = {}
    BY <1>4 DEF NoMotionStep
  <2> QED
    BY <2>1, <2>2 DEF Stuck, AckedButNotMoving, Active
<1>5. ASSUME NEW r \in Run, CommandStep(r) PROVE FALSE
  <2>1. Stuck(r) /\ r.commandAge = 0
    BY <1>1, <1>5 DEF CommandStep, Outcome
  <2> QED
    BY <1>3, <2>1 DEF Stuck
<1>6. ~BaselineStep
  BY <1>1 DEF BaselineStep
<1>7. phase \in {"ack", "target"}
  <2>1. phase # "finished"
    BY <1>1, <1>2, TickSteps DEF Complete
  <2>2. phase \in Phase
    BY TypeParts DEF MotionInvariant
  <2> QED
    BY <1>2, <1>4, <1>5, <1>6, <2>1, <2>2, TickSteps
<1>8. Stuck(Now)
  BY <1>1, <1>2, <1>7, TickSteps DEF Outcome
<1> QED
  BY <1>2, <1>7, <1>8

\* "Acked but did not move" is said only on samples taken after the command
\* (activeAckedButNotMoving: kFeedbackFreshMs against motionNoMovementTimeoutMs).
THEOREM NoMovementHasEvidence == Spec => NoMovementNeedsEvidence
<1>1. ASSUME MotionInvariant, [Next]_vars, state = "running", fault' = "motion_no_movement"
      PROVE  \E m \in ordered : /\ supervision[m].ack
                                /\ feedback[m].pulseAge < commandAge
                                /\ feedback[m].velocityAge < commandAge
  <2>1. phase \in {"ack", "target"} /\ Stuck(Now)
    BY <1>1, NoMovementIsStuck
  <2>2. PICK m \in Motors : AckedButNotMoving(supervision, m)
    BY <2>1 DEF Stuck, Now
  <2>3. commandAge > NoMovementTimeout
    BY <2>1 DEF Stuck, Now
  <2>4. m \in ordered
    BY <1>1, <2>1, <2>2 DEF MotionInvariant, SupervisedIsOrdered, Supervising, Active, AckedButNotMoving
  <2>5. supervision[m].ack /\ feedback[m].pulseAge <= FeedbackFresh /\ feedback[m].velocityAge <= FeedbackFresh
    BY <2>2 DEF AckedButNotMoving, Fresh, FreshInputPulse, FreshVelocity
  <2>6. FeedbackFresh \in Nat /\ NoMovementTimeout \in Nat /\ FeedbackFresh <= NoMovementTimeout
    BY Zenon, ExecutorAssumption DEF Limits
  <2>7. /\ feedback[m].pulseAge \in 0..MaxAge /\ feedback[m].velocityAge \in 0..MaxAge
        /\ commandAge \in 0..MaxAge /\ MaxAge \in Nat
    BY <1>1, TypeParts DEF MotionInvariant, Sample
  <2> QED
    BY <2>3, <2>4, <2>5, <2>6, <2>7
<1>2. MotionInvariant /\ [Next]_vars =>
        (state = "running" /\ fault' = "motion_no_movement" =>
           \E m \in ordered : /\ supervision[m].ack
                              /\ feedback[m].pulseAge < commandAge
                              /\ feedback[m].velocityAge < commandAge)
  BY <1>1
<1> QED
  BY <1>2, MotionInvariance, PTL DEF Spec, NoMovementNeedsEvidence

\* The goals of the motors after a phase: kept, stopped, or those of the run.
LEMMA OutcomeGoals ==
  ASSUME NEW r \in Run, NEW on, Outcome(r, on), NEW m \in Motors
  PROVE  motor'[m].goal \in {r.motors[m].goal, r.motors[m].at}
<1>1. r.motors \in [Motors -> Motor]
  BY DEF Run
<1> QED
  BY <1>1, StoppedProperties DEF Outcome

LEMMA TickGoals ==
  ASSUME MotionInvariant, Tick, NEW m \in Motors, motor'[m].goal \notin {motor[m].goal, motor[m].at}
  PROVE  /\ phase \in {"new", "preflight"}
         /\ \E r \in Run : /\ CommandStep(r) /\ ordered' = r.ordered
                           /\ m \in r.ordered /\ motor'[m].goal = step.targets[m]
<1>1. motor \in [Motors -> Motor] /\ phase \in Phase
  BY TypeParts DEF MotionInvariant
<1>2. Now \in Run /\ Now.motors = motor
  BY NowIsGood DEF Tick, Ticking, Now
<1>3. ~BaselineStep
  BY <1>1, StoppedProperties DEF BaselineStep
<1>4. phase \notin {"ack", "target"}
  BY <1>2, TickSteps, OutcomeGoals
<1>5. phase # "finished"
  BY TickSteps DEF Complete
<1>6. ASSUME NEW r \in Run PROVE ~NoMotionStep(r)
  BY OutcomeGoals DEF NoMotionStep
<1>7. PICK r \in Run : CommandStep(r)
  BY <1>1, <1>3, <1>4, <1>5, <1>6, TickSteps
<1>8. motor'[m].goal \in {r.motors[m].goal, r.motors[m].at}
  BY <1>7, OutcomeGoals DEF CommandStep
<1>9. r.motors[m].at = motor[m].at /\ ordered' = r.ordered
  BY <1>7 DEF CommandStep, Outcome
<1> QED
  BY <1>1, <1>4, <1>5, <1>7, <1>8, <1>9 DEF CommandStep

\* A motor is only sent by a run that has commanded nothing yet, where the legal block
\* accepted last names it to be; that is the block of the run as long as no other was
\* accepted under it.  A Y motor goes together with the other one (submitRemoteBlock,
\* parseAtomicMotionBlock, startMoveXY, startLineFeed, startPressMotor).
THEOREM MotionIsThatOfTheBlock == Spec => MotionIsTheBlock
<1> DEFINE Sent(m) == motor'[m].goal \notin {motor[m].goal, motor[m].at}
           Legal(m) == /\ state = "running" /\ ordered = {}
                       /\ Names(accepted, m, motor'[m].goal)
                       /\ slot # "other" => accepted = block
                       /\ m \in YPair => YPair \subseteq ordered'
<1>1. ASSUME MotionInvariant, [Next]_vars, NEW m \in Motors, Sent(m) PROVE Legal(m)
  <2>1. motor \in [Motors -> Motor]
    BY <1>1, TypeParts DEF MotionInvariant
  <2>2. CASE Tick
    <3>1. PICK r \in Run : /\ CommandStep(r) /\ ordered' = r.ordered
                           /\ m \in r.ordered /\ motor'[m].goal = step.targets[m]
      BY <1>1, <2>2, TickGoals
    <3>2. m \in Targets /\ (r.ordered \cap YPair # {} => YPair \subseteq r.ordered)
      BY <3>1 DEF CommandStep
    <3>3. /\ state = "running" /\ accepted \in Blocks /\ step = StepOf(accepted) /\ step.ok
          /\ slot # "other" => accepted = block
      BY <1>1, <2>2 DEF MotionInvariant, StepIsTheBlock, Tick
    <3>4. Names(accepted, m, step.targets[m])
      BY <3>2, <3>3, StepsAssumption DEF Targets, Names
    <3>5. ordered = {}
      BY <1>1, <2>2, <3>3, TickGoals DEF MotionInvariant, NothingOrderedYet
    <3> QED
      BY <3>1, <3>2, <3>3, <3>4, <3>5
  <2>3. CASE Receive
    <3>1. PICK n \in Motors : \/ UNCHANGED motor
                              \/ motor' = [motor EXCEPT ![n] = [@ EXCEPT !.reply = "none"]]
                              \/ motor' = [motor EXCEPT ![n] = [@ EXCEPT !.arrived = FALSE]]
      BY <2>3 DEF Receive, ReceiveReply, ReceiveReached, ReceivePulse, ReceiveVelocity
    <3>2. motor[n] \in Motor
      BY <2>1
    <3>3. motor'[m].goal = motor[m].goal
      BY <2>1, <3>1, <3>2 DEF Motor
    <3> QED
      BY <1>1, <3>3
  <2>4. CASE EmergencyStop \/ StopAll
    BY <1>1, <2>1, <2>4, StoppedProperties DEF EmergencyStop, StopAll
  <2>5. CASE MotorAdvances
    <3>1. PICK n \in Motors : Advance(n)
      BY <2>5 DEF MotorAdvances
    <3>2. motor'[m].goal = motor[m].goal
      BY <2>1, <3>1 DEF Advance, Motor
    <3> QED
      BY <1>1, <3>2
  <2>6. ASSUME NEW b \in Blocks, Submit(b) PROVE FALSE
    BY <1>1, <2>6 DEF Submit, feedbackVars
  <2>7. ASSUME NEW answers, NEW moving, ResetFault(answers, moving) PROVE FALSE
    BY <1>1, <2>7 DEF ResetFault
  <2>9. ~ResetUnderRun
    BY <1>1 DEF ResetUnderRun, feedbackVars
  <2>8. ~TimePasses /\ ~UNCHANGED vars
    BY <1>1 DEF TimePasses, vars, feedbackVars
  <2> QED
    BY <1>1, <2>2, <2>3, <2>4, <2>5, <2>6, <2>7, <2>8, <2>9 DEF Next
<1>2. MotionInvariant /\ [Next]_vars => \A m \in Motors : Sent(m) => Legal(m)
  BY <1>1
<1> QED
  BY <1>2, MotionInvariance, PTL DEF Spec, MotionIsTheBlock

----------------------------------------------------------------------------
(* Where the motors are when a run is done. *)

\* The motors supervised are those of the run's block, unless another was accepted.
ForTheBlock(sup) ==
  \A m \in Active(sup) : /\ m \in DOMAIN StepOf(block).targets
                         /\ sup[m].target = StepOf(block).targets[m]

\* What the phases of a tick keep of ArrivalInvariant.
Arriving(r) ==
  /\ \A m \in r.obeyed :
       r.sup[m].active =>
         /\ r.motors[m].goal \in {r.sup[m].target, r.motors[m].at}
         /\ r.sup[m].known =>
              (Near(feedback[m].pulse, r.sup[m].target) => Near(r.motors[m].at, r.sup[m].target))
  /\ slot # "other" => ForTheBlock(r.sup) /\ Active(r.sup) \subseteq Judged

\* The samples say that every motor that can be judged by them is there.
Arrived(r) ==
  slot # "other" =>
    \A m \in r.obeyed : r.sup[m].active /\ r.sup[m].known => Near(feedback[m].pulse, r.sup[m].target)

\* A failed run promises nothing.
LEMMA FailureArrives ==
  ASSUME state' \in {"faulted", "idle"}
  PROVE  ArrivalInvariant'
BY DEF ArrivalInvariant, ObeyedGoesThere, SupervisedForTheBlock, SupervisedIsJudged,
       SampledWhereItIs, DoneMeansArrived, Supervising, Done

LEMMA GoesArrives ==
  ASSUME Ticking, TickFrame, NEW r \in Run, Arriving(r), NEW ph, NEW n, Goes(r, ph, n), ph # "new",
         ph = "preflight" => r.obeyed = {}, ph = "finished" => Arrived(r)
  PROVE  ArrivalInvariant'
<1>1. /\ supervision' = r.sup /\ motor' = r.motors /\ obeyed' = r.obeyed
      /\ phase' = ph /\ state' = "running"
  BY DEF Goes, Leaves, Ticking
<1>2. /\ step' = step /\ feedback' = feedback /\ slot' = slot /\ block' = block
      /\ Judged' = Judged /\ Active(supervision)' = Active(r.sup)
  BY <1>1 DEF TickFrame, Targets, Judged, Active
<1>3. ObeyedGoesThere'
  BY <1>1, <1>2 DEF ObeyedGoesThere, Arriving
<1>4. SampledWhereItIs'
  BY <1>1, <1>2 DEF SampledWhereItIs, Observed, Arriving
<1>5. SupervisedForTheBlock' /\ SupervisedIsJudged'
  BY <1>1, <1>2 DEF SupervisedForTheBlock, SupervisedIsJudged, Arriving, ForTheBlock
<1>6. DoneMeansArrived'
  <2> SUFFICES ASSUME ph = "finished", slot # "other", NEW m \in r.obeyed,
                      r.sup[m].active, r.sup[m].known
               PROVE  Near(r.motors[m].at, StepOf(block).targets[m])
    BY <1>1, <1>2 DEF DoneMeansArrived, Done, Observed
  <2>1. Near(r.motors[m].at, r.sup[m].target)
    BY DEF Arriving, Arrived
  <2>2. m \in Active(r.sup)
    BY RunParts DEF Active
  <2> QED
    BY <2>1, <2>2 DEF Arriving, ForTheBlock
<1> QED
  BY <1>3, <1>4, <1>5, <1>6 DEF ArrivalInvariant

\* The polls and the age of the commands do not matter for where the motors are.
LEMMA ArrivingKept ==
  ASSUME NEW r \in Run, Arriving(r), NEW ps \in SUBSET Motors
  PROVE  /\ Arriving([r EXCEPT !.commandAge = 0]) /\ Arriving([r EXCEPT !.polled = ps])
         /\ [r EXCEPT !.polled = ps] \in Run /\ [r EXCEPT !.commandAge = 0] \in Run
         /\ Arrived(r) => Arrived([r EXCEPT !.commandAge = 0]) /\ Arrived([r EXCEPT !.polled = ps])
<1>1. ASSUME NEW q \in {[r EXCEPT !.commandAge = 0], [r EXCEPT !.polled = ps]}
      PROVE  q.sup = r.sup /\ q.motors = r.motors /\ q.obeyed = r.obeyed
  BY DEF Run
<1>2. [r EXCEPT !.polled = ps] \in Run /\ [r EXCEPT !.commandAge = 0] \in Run
  BY Bounds DEF Run
<1> QED
  BY <1>1, <1>2 DEF Arriving, Arrived

LEMMA FinishesArrives ==
  ASSUME Ticking, TickFrame, NEW r \in Run, Arriving(r), Arrived(r), Finishes(r)
  PROVE  ArrivalInvariant'
<1> DEFINE q == [r EXCEPT !.commandAge = 0]
<1>1. Arriving(q) /\ Arrived(q) /\ q \in Run
  BY ArrivingKept
<1>2. Goes(q, "finished", 0)
  BY DEF Finishes
<1> HIDE DEF q
<1> QED
  BY <1>1, <1>2, GoesArrives

LEMMA TargetPhaseArrives ==
  ASSUME Ticking, TickFrame, NEW r, GoodRun(r), Arriving(r), TargetPhase(r)
  PROVE  ArrivalInvariant'
<1>1. r \in Run
  BY DEF GoodRun
<1>2. CASE Fails(r, "target", "motion_target_timeout")
  BY <1>2, FailureArrives DEF Fails
<1>3. CASE step.kind = "wait" /\ (Goes(r, "target", samples) \/ Finishes(r))
  <2>1. Judged = {}
    BY <1>3, StepsAssumption DEF Ticking, MotionInvariant, StepIsTheBlock, Targets, Judged
  <2>2. Arrived(r)
    BY <1>1, <2>1, RunParts DEF Arriving, Arrived, Active
  <2> QED
    BY <1>1, <1>3, <2>2, GoesArrives, FinishesArrives
<1>4. CASE MotionPhase(r)
  <2> DEFINE ps == r.polled \cup Polls(r.sup)
             q == [r EXCEPT !.polled = ps]
  <2>1. ps \in SUBSET Motors
    BY GoodRunPolls, RunParts
  <2>2. q \in Run /\ Arriving(q) /\ (Arrived(r) => Arrived(q))
    <3> HIDE DEF ps
    <3> QED
      BY <1>1, <2>1, ArrivingKept
  <2>3. \/ \E code \in Fault : Fails(q, "target", code)
        \/ \E n \in {0, NextSample} : Goes(q, "target", n)
        \/ Satisfied(r.sup) /\ Finishes(q)
    BY <1>4, Zenon DEF MotionPhase, Settles
  <2>4. Satisfied(r.sup) => Arrived(r)
    <3>1. slot # "other" => \A m \in r.obeyed : r.sup[m].active => m \in Judged
      BY <1>1, RunParts DEF Arriving, Active
    <3> QED
      BY <3>1 DEF Satisfied, MotorSatisfied, AtTarget, Arrived
  <2>5. ASSUME NEW code, Fails(q, "target", code) PROVE ArrivalInvariant'
    BY <2>5, FailureArrives DEF Fails
  <2> HIDE DEF q
  <2>6. ASSUME NEW n, Goes(q, "target", n) PROVE ArrivalInvariant'
    BY <2>2, <2>6, GoesArrives
  <2> QED
    BY <2>2, <2>3, <2>4, <2>5, <2>6, FinishesArrives
<1> QED
  BY <1>2, <1>3, <1>4 DEF TargetPhase

LEMMA AckPhaseArrives ==
  ASSUME Ticking, TickFrame, NEW r, GoodRun(r), Arriving(r), AckPhase(r)
  PROVE  ArrivalInvariant'
<1>1. ASSUME NEW code, Fails(r, "ack", code) PROVE ArrivalInvariant'
  BY <1>1, FailureArrives DEF Fails
<1>2. CASE TargetPhase(r)
  BY <1>2, TargetPhaseArrives
<1>3. CASE Goes(r, "ack", samples)
  BY <1>3, GoesArrives DEF GoodRun
<1> QED
  BY <1>1, <1>2, <1>3 DEF AckPhase

\* While no other block was accepted, all motors of the step are judged.
LEMMA TargetsAreJudged ==
  ASSUME Ticking
  PROVE  Targets \subseteq Judged
BY StepsAssumption DEF Ticking, MotionInvariant, StepIsTheBlock, Targets, Judged, XYMotors

\* A motor that is supervised from a known baseline is not at its target yet.
LEMMA SupervisedIsAway ==
  ASSUME Ticking, NEW expired, NEW m \in Motors,
         Supervise(expired)[m].active, Supervise(expired)[m].known
  PROVE  ~Near(step.targets[m], feedback[m].pulse)
<1>1. Supervise(expired)[m] = Captured(m, m \notin expired)
  BY DEF Supervise
<1>2. supervision[m] \in Supervision
  BY TypeParts DEF Ticking, MotionInvariant
<1>3. ~Unsupervised.active
  BY DEF Unsupervised
<1>4. ~(m \notin Targets \/ (m \notin expired /\ Near(step.targets[m], feedback[m].pulse)))
  BY <1>1, <1>3 DEF Captured
<1>5. Captured(m, m \notin expired).known = (m \notin expired)
  BY <1>2, <1>4 DEF Captured, Supervision
<1> QED
  BY <1>1, <1>4, <1>5

LEMMA IssuedArrives ==
  ASSUME Ticking, NEW expired,
         NEW heard \in [WithPartner(Active(Supervise(expired))) -> Reply]
  PROVE  Arriving(Issued(Supervise(expired), heard))
<1> DEFINE sup == Supervise(expired)
           orders == WithPartner(Active(sup))
           r == Issued(sup, heard)
<1>1. orders \subseteq Targets /\ Targets \subseteq Motors
  BY SuperviseProperties, PartnersAreTargets
<1>2. /\ r.sup = sup /\ r.obeyed = {m \in orders : heard[m] = "ack"}
      /\ r.motors = [m \in Motors |->
           IF m \in orders THEN Heard(motor[m], step.targets[m], heard[m]) ELSE motor[m]]
  BY DEF Issued, Now
<1>6. /\ \A m \in Active(sup) : m \in Targets /\ sup[m].target = step.targets[m]
      /\ slot # "other" => step = StepOf(block)
  BY SuperviseProperties DEF Ticking, MotionInvariant, StepIsTheBlock
<1>3. ASSUME NEW m \in r.obeyed
      PROVE  r.motors[m].goal = step.targets[m] /\ m \in Motors
  <2>1. m \in orders /\ heard[m] = "ack" /\ m \in Motors /\ m \in Targets
    BY <1>1, <1>2, <1>3
  <2>2. motor[m] \in Motor
    BY <2>1, TypeParts DEF Ticking, MotionInvariant
  <2>3. r.motors[m] = Heard(motor[m], step.targets[m], "ack")
    BY <1>2, <2>1
  <2>4. Heard(motor[m], step.targets[m], "ack").goal = step.targets[m]
    BY <2>2 DEF Heard, Motor
  <2> QED
    BY <2>1, <2>3, <2>4
<1>4. ASSUME NEW m \in r.obeyed, sup[m].active, sup[m].known
      PROVE  ~Near(feedback[m].pulse, step.targets[m])
  <2>1. m \in Motors
    BY <1>1, <1>3, <1>4
  <2>2. ~Near(step.targets[m], feedback[m].pulse)
    BY <1>4, <2>1, SupervisedIsAway
  <2> QED
    BY <2>2 DEF Near
<1>7. \A m \in r.obeyed : sup[m].active => m \in Active(sup)
  BY <1>3 DEF Active
<1>5. Arriving(r)
  <2> HIDE DEF r, sup
  <2>1. slot # "other" => ForTheBlock(sup) /\ Active(sup) \subseteq Judged
    BY <1>6, TargetsAreJudged DEF ForTheBlock, Targets
  <2> QED
    BY <1>2, <1>3, <1>4, <1>6, <1>7, <2>1 DEF Arriving
<1> QED
  BY <1>5

\* Before the commands nobody is supervised.
LEMMA NobodyArrives ==
  ASSUME NEW r, r.obeyed = {}, Active(r.sup) = {}
  PROVE  Arriving(r)
BY DEF Arriving, ForTheBlock

LEMMA TickArrives ==
  ASSUME MotionInvariant, ArrivalInvariant, Tick
  PROVE  ArrivalInvariant'
<1>1. Ticking /\ TickFrame /\ phase \in Phase
  BY TypeParts DEF Tick, Ticking, TickFrame, MotionInvariant
<1>2. Now.sup = supervision /\ Now.motors = motor /\ Now.obeyed = obeyed /\ Now \in Run
  BY <1>1, NowIsGood DEF Now
<1>3. phase # "finished" => Arriving(Now)
  <2>1. CASE phase \in {"new", "preflight"}
    <3>1. obeyed = {} /\ Active(supervision) = {}
      BY <1>1, <2>1 DEF ArrivalInvariant, ObeyedGoesThere, Ticking, MotionInvariant, NothingOrderedYet
    <3> QED
      BY <1>2, <3>1, NobodyArrives
  <2>2. CASE phase \in {"ack", "target"}
    <3>1. Supervising
      BY <1>1, <2>2 DEF Supervising, Ticking
    <3>2. slot # "other" => ForTheBlock(supervision) /\ Active(supervision) \subseteq Judged
      BY <2>2, <3>1 DEF ForTheBlock, ArrivalInvariant, SupervisedForTheBlock, SupervisedIsJudged
    <3> QED
      BY <1>2, <3>1, <3>2 DEF Arriving, ArrivalInvariant, ObeyedGoesThere, SampledWhereItIs, Observed
  <2> QED
    BY <1>1, <2>1, <2>2
<1>4. CASE phase \in {"new", "preflight"} /\ PreflightPhase
  <2>0. obeyed = {}
    BY <1>1, <1>4 DEF ArrivalInvariant, ObeyedGoesThere, Ticking
  <2>9. Active(supervision) = {}
    BY <1>1, <1>4 DEF Ticking, MotionInvariant, NothingOrderedYet
  <2>1. CASE TargetPhase(Now)
    BY <1>1, <1>3, <1>4, <2>1, NowIsGood, TargetPhaseArrives
  <2>2. CASE IssuePhase
    <3>1. PICK expired :
            LET sup == Supervise(expired)
                orders == WithPartner(Active(sup))
                r == [Now EXCEPT !.sup = sup, !.commandAge = 0]
            IN \/ orders = {} /\ TargetPhase(r)
               \/ orders # {} /\ \E heard \in [orders -> Reply] : AckPhase(Issued(sup, heard))
               \/ orders # {} /\ NoRoom(r)
      BY <2>2 DEF IssuePhase
    <3> DEFINE sup == Supervise(expired)
               orders == WithPartner(Active(sup))
               r == Supervised(sup)
    <3>2. orders = {} => GoodRun(r) /\ r.sup = sup /\ Active(sup) = {}
      BY <1>1, <1>4, SupervisedIsGood
    <3>3. ASSUME orders = {}, TargetPhase(r) PROVE ArrivalInvariant'
      <4>1. r.obeyed = {}
        BY <2>0 DEF Supervised, Now
      <4>2. Arriving(r)
        <5> HIDE DEF r, sup
        <5> QED
          BY <3>2, <3>3, <4>1, NobodyArrives
      <4> HIDE DEF r
      <4> QED
        BY <1>1, <3>2, <3>3, <4>2, TargetPhaseArrives
    <3>4. ASSUME NEW heard \in [orders -> Reply], AckPhase(Issued(sup, heard)) PROVE ArrivalInvariant'
      <4>1. GoodRun(Issued(sup, heard))
        BY <1>1, SuperviseProperties, IssuedProperties
      <4>2. Arriving(Issued(sup, heard))
        BY <1>1, IssuedArrives
      <4> HIDE DEF sup
      <4> QED
        BY <1>1, <3>4, <4>1, <4>2, AckPhaseArrives
    <3>5. ASSUME NoRoom(r) PROVE ArrivalInvariant'
      BY <3>5, FailureArrives DEF NoRoom
    <3> QED
      BY <3>1, <3>3, <3>4, <3>5 DEF Supervised
  <2> DEFINE r == [Now EXCEPT !.polled = @ \cup Polls(supervision)]
  <2>3. CASE Fails(r, "preflight", "motion_feedback_timeout")
    BY <2>3, FailureArrives DEF Fails
  <2>4. CASE Goes(r, "preflight", samples)
    <3>1. r.obeyed = {} /\ r.sup = supervision
      BY <2>0 DEF Now
    <3>2. r \in Run
      <4>1. Now.polled \cup Polls(supervision) \in SUBSET Motors
        BY <1>1, <1>2, <1>4, NowIsGood, GoodRunPolls, RunParts
      <4> QED
        BY <1>2, <4>1 DEF Run
    <3> HIDE DEF r
    <3>3. Arriving(r)
      BY <2>9, <3>1, NobodyArrives
    <3> QED
      BY <1>1, <2>4, <3>1, <3>2, <3>3, GoesArrives
  <2> QED
    BY <1>4, <2>1, <2>2, <2>3, <2>4 DEF PreflightPhase
<1>5. CASE phase = "ack" /\ AckPhase(Now)
  BY <1>1, <1>3, <1>5, NowIsGood, AckPhaseArrives
<1>6. CASE phase = "target" /\ TargetPhase(Now)
  BY <1>1, <1>3, <1>6, NowIsGood, TargetPhaseArrives
<1>7. CASE phase = "finished" /\ Complete
  <2>1. /\ state = "running" /\ state' = "completed"
        /\ UNCHANGED <<motor, supervision, obeyed, step, block, slot, phase>>
    BY <1>1, <1>7 DEF Complete, TickFrame, Ticking
  <2>2. Supervising /\ Done
    BY <1>7, <2>1 DEF Supervising, Done
  <2> QED
    BY <2>1, <2>2 DEF ArrivalInvariant, ObeyedGoesThere, SupervisedForTheBlock, SupervisedIsJudged,
                      SampledWhereItIs, DoneMeansArrived, Supervising, Done, Observed, Active
<1> QED
  BY <1>4, <1>5, <1>6, <1>7 DEF Tick

\* Between two ticks motors go on or stop, samples arrive and grow old, and another
\* block may be accepted.
LEMMA MotionArrives ==
  ASSUME ArrivalInvariant, obeyed \subseteq Motors,
         UNCHANGED <<state, phase, obeyed>>,
         slot' # "other" =>
           slot # "other" /\ block' = block /\ (state = "running" => step' = step),
         \A m \in Motors :
           /\ supervision'[m].active = supervision[m].active
           /\ supervision'[m].known = supervision[m].known
           /\ supervision'[m].target = supervision[m].target
           /\ feedback'[m].pulse \in {feedback[m].pulse, motor'[m].at}
           /\ motor'[m].goal \in {motor[m].goal, motor'[m].at}
           /\ motor[m].goal = motor[m].at => motor'[m].at = motor[m].at,
         Supervising \/ Done =>
           \A m \in obeyed : supervision[m].active =>
             (Near(motor[m].at, supervision[m].target) => Near(motor'[m].at, supervision[m].target))
  PROVE  ArrivalInvariant'
<1>1. /\ Observed' = Observed /\ Observed \subseteq obeyed
      /\ Active(supervision)' = Active(supervision) /\ Observed \subseteq Active(supervision)
      /\ Active(supervision) \subseteq Motors
  BY DEF Observed, Active
<1>2. (Supervising' <=> Supervising) /\ (Done' <=> Done)
  BY DEF Supervising, Done
<1>3. ObeyedGoesThere'
  <2> SUFFICES ASSUME Supervising \/ Done, NEW m \in obeyed, supervision[m].active
               PROVE  motor'[m].goal \in {supervision[m].target, motor'[m].at}
    BY <1>2 DEF ArrivalInvariant, ObeyedGoesThere
  <2>1. motor[m].goal \in {supervision[m].target, motor[m].at}
    BY DEF ArrivalInvariant, ObeyedGoesThere
  <2> QED
    BY <2>1
<1>4. SampledWhereItIs'
  <2> SUFFICES ASSUME Supervising, NEW m \in Observed, Near(feedback'[m].pulse, supervision[m].target)
               PROVE  Near(motor'[m].at, supervision[m].target)
    BY <1>1, <1>2 DEF SampledWhereItIs
  <2>1. m \in Motors /\ m \in obeyed /\ supervision[m].active
    BY <1>1 DEF Observed
  <2>2. CASE feedback'[m].pulse = feedback[m].pulse
    BY <2>1, <2>2 DEF ArrivalInvariant, SampledWhereItIs
  <2>3. CASE feedback'[m].pulse = motor'[m].at
    BY <2>3
  <2> QED
    BY <2>1, <2>2, <2>3
<1>5. SupervisedForTheBlock'
  BY <1>1, <1>2 DEF ArrivalInvariant, SupervisedForTheBlock
<1>6. SupervisedIsJudged'
  <2> SUFFICES ASSUME Supervising, phase # "finished", slot' # "other"
               PROVE  Active(supervision) \subseteq Judged'
    BY <1>1, <1>2 DEF SupervisedIsJudged
  <2>1. step' = step
    BY DEF Supervising
  <2>2. Judged' = Judged
    BY <2>1 DEF Judged, Targets
  <2> QED
    BY <2>2 DEF ArrivalInvariant, SupervisedIsJudged
<1>7. DoneMeansArrived'
  <2> SUFFICES ASSUME Done, slot' # "other", NEW m \in Observed
               PROVE  Near(motor'[m].at, StepOf(block).targets[m])
    BY <1>1, <1>2 DEF DoneMeansArrived
  <2>1. slot # "other" /\ m \in obeyed /\ supervision[m].active /\ m \in Active(supervision)
    BY <1>1 DEF Observed
  <2>2. Near(motor[m].at, StepOf(block).targets[m])
    BY <2>1 DEF ArrivalInvariant, DoneMeansArrived
  <2>3. supervision[m].target = StepOf(block).targets[m]
    BY <2>1 DEF ArrivalInvariant, SupervisedForTheBlock
  <2> QED
    BY <2>1, <2>2, <2>3
<1> QED
  BY <1>3, <1>4, <1>5, <1>6, <1>7 DEF ArrivalInvariant

\* One pulse nearer to the goal is no farther from it.
LEMMA NearerIsNear ==
  ASSUME NEW a \in Int, NEW t \in Int, a # t, Near(a, t)
  PROVE  Near(IF a < t THEN a + 1 ELSE a - 1, t)
<1>1. PositionTolerance \in Nat
  BY Zenon, ExecutorAssumption
<1> QED
  BY <1>1 DEF Near

LEMMA AdvanceArrives ==
  ASSUME MotionInvariant, ArrivalInvariant, MotorAdvances
  PROVE  ArrivalInvariant'
<1>1. PICK m \in Motors : Advance(m)
  BY DEF MotorAdvances
<1>2. /\ UNCHANGED <<state, phase, step, block, slot, obeyed, supervision>> /\ feedback' = feedback
      /\ motor[m].goal # motor[m].at
  BY <1>1 DEF MotorAdvances, Advance, Moves, runVars
<1> DEFINE next == IF motor[m].at < motor[m].goal THEN motor[m].at + 1 ELSE motor[m].at - 1
<1>3. motor \in [Motors -> Motor] /\ obeyed \subseteq Motors
  BY TypeParts DEF MotionInvariant
<1>4. /\ motor'[m].at = next /\ motor'[m].goal = motor[m].goal
      /\ \A n \in Motors : n # m => motor'[n] = motor[n]
  BY <1>1, <1>3 DEF Advance, Motor
<1>5. ASSUME Supervising \/ Done, m \in obeyed, supervision[m].active,
             Near(motor[m].at, supervision[m].target)
      PROVE  Near(motor'[m].at, supervision[m].target)
  <2>1. motor[m].goal = supervision[m].target
    BY <1>2, <1>5 DEF ArrivalInvariant, ObeyedGoesThere
  <2>2. motor[m].at \in Int /\ motor[m].goal \in Int
    <3>1. motor[m].at \in Pulses /\ motor[m].goal \in Pulses
      BY <1>3 DEF Motor
    <3>2. Pulses \subseteq Int
      BY Zenon, ExecutorAssumption
    <3> QED
      BY <3>1, <3>2
  <2>3. Near(next, motor[m].goal)
    BY <1>2, <1>5, <2>1, <2>2, NearerIsNear
  <2> QED
    BY <1>4, <2>1, <2>3
<1> HIDE DEF next
<1>6. Supervising \/ Done =>
        \A n \in obeyed : supervision[n].active =>
          (Near(motor[n].at, supervision[n].target) => Near(motor'[n].at, supervision[n].target))
  BY <1>3, <1>4, <1>5
<1>7. \A n \in Motors :
        /\ motor'[n].goal \in {motor[n].goal, motor'[n].at}
        /\ motor[n].goal = motor[n].at => motor'[n].at = motor[n].at
  BY <1>2, <1>4
<1> QED
  BY <1>2, <1>3, <1>6, <1>7, MotionArrives

\* What is noted of a motor does not change what it is supervised for.
LEMMA NoteKeepsKnown ==
  ASSUME MotionTypeOK, NEW m \in Motors, NEW s, Note(m, s),
         s.active = supervision[m].active, s.known = supervision[m].known,
         s.target = supervision[m].target
  PROVE  \A n \in Motors : /\ supervision'[n].active = supervision[n].active
                           /\ supervision'[n].known = supervision[n].known
                           /\ supervision'[n].target = supervision[n].target
<1>1. supervision \in [Motors -> Supervision]
  BY TypeParts
<1>2. CASE supervision' = [supervision EXCEPT ![m] = s]
  BY <1>1, <1>2
<1>3. CASE UNCHANGED supervision
  BY <1>3
<1> QED
  BY <1>2, <1>3 DEF Note

LEMMA ReceiveArrives ==
  ASSUME MotionInvariant, ArrivalInvariant, Receive
  PROVE  ArrivalInvariant'
<1>1. UNCHANGED <<state, phase, step, block, slot, obeyed>>
  BY DEF Receive
<1>2. PICK m \in Motors :
        ReceiveReply(m) \/ ReceiveReached(m) \/ ReceivePulse(m) \/ ReceiveVelocity(m)
  BY DEF Receive
<1>3. /\ MotionTypeOK /\ motor \in [Motors -> Motor] /\ feedback \in [Motors -> Sample]
      /\ supervision[m] \in Supervision /\ motor[m] \in Motor /\ feedback[m] \in Sample
      /\ obeyed \subseteq Motors
  BY TypeParts DEF MotionInvariant
<1>4. PICK s : /\ Note(m, s)
               /\ s.active = supervision[m].active /\ s.known = supervision[m].known
               /\ s.target = supervision[m].target
  <2>1. ASSUME NEW s \in { [supervision[m] EXCEPT !.ack = TRUE],
                           [supervision[m] EXCEPT !.rejected = TRUE],
                           [supervision[m] EXCEPT !.reached = TRUE],
                           [supervision[m] EXCEPT !.ref = TRUE, !.initial = motor[m].at],
                           [supervision[m] EXCEPT !.moved = @ \/ TRUE],
                           [supervision[m] EXCEPT !.moved = @ \/ FALSE], supervision[m] }
        PROVE  /\ s.active = supervision[m].active /\ s.known = supervision[m].known
               /\ s.target = supervision[m].target
    BY <1>3 DEF Supervision
  <2>2. CASE ReceiveReply(m)
    BY <2>1, <2>2 DEF ReceiveReply
  <2>3. CASE ReceiveReached(m)
    BY <2>1, <2>3 DEF ReceiveReached
  <2>4. CASE ReceivePulse(m)
    BY <2>1, <2>4 DEF ReceivePulse
  <2>5. CASE ReceiveVelocity(m)
    <3>1. PICK moving \in BOOLEAN : Note(m, [supervision[m] EXCEPT !.moved = @ \/ moving])
      BY <2>5 DEF ReceiveVelocity
    <3> QED
      BY <2>1, <3>1
  <2> QED
    BY <1>2, <2>2, <2>3, <2>4, <2>5
<1>5. \A n \in Motors : /\ supervision'[n].active = supervision[n].active
                        /\ supervision'[n].known = supervision[n].known
                        /\ supervision'[n].target = supervision[n].target
  BY <1>3, <1>4, NoteKeepsKnown
<1>6. \A n \in Motors : motor'[n].at = motor[n].at /\ motor'[n].goal = motor[n].goal
  <2>1. motor' \in {motor, [motor EXCEPT ![m] = [@ EXCEPT !.reply = "none"]],
                           [motor EXCEPT ![m] = [@ EXCEPT !.arrived = FALSE]]}
    BY <1>2 DEF ReceiveReply, ReceiveReached, ReceivePulse, ReceiveVelocity
  <2> QED
    BY <1>3, <2>1 DEF Motor
<1>7. \A n \in Motors : feedback'[n].pulse \in {feedback[n].pulse, motor'[n].at}
  <2>1. CASE ReceiveReply(m) \/ ReceiveReached(m)
    BY <2>1 DEF ReceiveReply, ReceiveReached
  <2>2. CASE ReceivePulse(m)
    <3>1. motor' = motor /\ feedback' = [feedback EXCEPT ![m] = [@ EXCEPT !.pulse = motor[m].at, !.pulseAge = 0]]
      BY <2>2 DEF ReceivePulse, ApplyPulse
    <3> QED
      BY <1>3, <3>1 DEF Sample
  <2>3. CASE ReceiveVelocity(m)
    <3>1. PICK moving \in BOOLEAN :
            feedback' = [feedback EXCEPT ![m] = [@ EXCEPT !.moving = moving, !.velocityAge = 0]]
      BY <2>3 DEF ReceiveVelocity, ApplyVelocity
    <3> QED
      BY <1>3, <3>1 DEF Sample
  <2> QED
    BY <1>2, <2>1, <2>2, <2>3
<1> QED
  BY <1>1, <1>3, <1>5, <1>6, <1>7, MotionArrives

LEMMA StepArrives ==
  ASSUME MotionInvariant, ArrivalInvariant, [Next]_vars
  PROVE  ArrivalInvariant'
<1>0. /\ motor \in [Motors -> Motor] /\ feedback \in [Motors -> Sample] /\ obeyed \subseteq Motors
  BY TypeParts DEF MotionInvariant
<1>1. ASSUME NEW b \in Blocks, Submit(b) PROVE ArrivalInvariant'
  <2>1. CASE StepOf(b).ok /\ Starts
    <3>1. state' = "running" /\ phase' = "new" /\ obeyed' = {}
      BY <2>1 DEF Starts
    <3> QED
      BY <3>1 DEF ArrivalInvariant, ObeyedGoesThere, SupervisedForTheBlock, SupervisedIsJudged,
                  SampledWhereItIs, DoneMeansArrived, Supervising, Done
  <2>2. CASE StepOf(b).ok /\ NotStarted
    <3>1. /\ UNCHANGED <<motor, feedback, state, phase, block, obeyed, supervision>>
          /\ slot' = IF state = "running" THEN "other" ELSE slot
      BY <1>1, <2>2 DEF Submit, NotStarted, feedbackVars
    <3> QED
      BY <1>0, <3>1, MotionArrives
  <2>3. CASE ~StepOf(b).ok
    BY <1>0, <1>1, <2>3, MotionArrives DEF Submit, feedbackVars
  <2> QED
    BY <1>1, <2>1, <2>2, <2>3 DEF Submit
<1>2. CASE Tick
  BY <1>2, TickArrives
<1>3. CASE Receive
  BY <1>3, ReceiveArrives
<1>4. CASE EmergencyStop
  BY <1>4, FailureArrives DEF EmergencyStop
<1>5. CASE StopAll
  <2>1. /\ motor' = Stopped(motor)
        /\ UNCHANGED <<state, phase, step, block, slot, obeyed, supervision, feedback>>
    BY <1>5 DEF StopAll, runVars
  <2>2. \A m \in Motors : motor'[m].goal = motor'[m].at /\ motor'[m].at = motor[m].at
    BY <1>0, <2>1, StoppedProperties
  <2> QED
    BY <1>0, <2>1, <2>2, MotionArrives
<1>6. ASSUME NEW answers, NEW moving, ResetFault(answers, moving) PROVE ArrivalInvariant'
  <2>1. CASE state' \in {"faulted", "idle"}
    BY <2>1, FailureArrives
  <2>2. CASE state' = "completed"
    <3>1. /\ UNCHANGED <<motor, state, phase, block, supervision>> /\ obeyed' = {}
          /\ slot' # "other" => slot # "other"
      BY <1>6, <2>2 DEF ResetFault, SlotEmptied
    <3> QED
      BY <2>2, <3>1 DEF ArrivalInvariant, ObeyedGoesThere, SupervisedForTheBlock, SupervisedIsJudged,
                  SampledWhereItIs, DoneMeansArrived, Supervising, Done, Observed, Active
  <2>3. state' \in {"idle", "completed", "faulted"}
    BY <1>6, TypeParts DEF ResetFault, MotionInvariant
  <2> QED
    BY <2>1, <2>2, <2>3
<1>10. CASE ResetUnderRun
  <2>1. /\ UNCHANGED <<motor, feedback, state, phase, step, block, obeyed, supervision>>
        /\ slot' # "other" => slot # "other"
    BY <1>10 DEF ResetUnderRun, SlotEmptied, feedbackVars
  <2> QED
    BY <1>0, <2>1, MotionArrives
<1>7. CASE MotorAdvances
  BY <1>7, AdvanceArrives
<1>8. CASE TimePasses
  <2>1. UNCHANGED <<motor, state, phase, step, block, slot, obeyed, supervision>> /\ AgeSamples
    BY <1>8 DEF TimePasses
  <2>2. \A m \in Motors : feedback'[m].pulse = feedback[m].pulse
    BY <1>0, <2>1 DEF AgeSamples, Sample
  <2> QED
    BY <1>0, <2>1, <2>2, MotionArrives
<1>9. CASE UNCHANGED vars
  BY <1>0, <1>9, MotionArrives DEF vars, runVars, feedbackVars
<1> QED
  BY <1>1, <1>2, <1>3, <1>4, <1>5, <1>6, <1>7, <1>8, <1>9, <1>10 DEF Next

\* A motor that obeyed goes where its command said, whatever becomes of the step, and a
\* sample that says it is there was taken there, however old it is; the targets are those
\* of the run's block, and all of them judged, as long as no other block was accepted
\* under the run (motorAtTarget, captureSupervisionState, makeSupervision).
THEOREM ArrivalInvariance == Spec => []ArrivalInvariant
<1>1. Init => ArrivalInvariant
  BY DEF Init, ExecutorInit, ArrivalInvariant, ObeyedGoesThere, SupervisedForTheBlock,
         SupervisedIsJudged, SampledWhereItIs, DoneMeansArrived, Supervising, Done
<1>2. MotionInvariant /\ ArrivalInvariant /\ [Next]_vars => ArrivalInvariant'
  BY StepArrives
<1> QED
  BY <1>1, <1>2, MotionInvariance, PTL DEF Spec

\* A run under which no other block was accepted is only completed when the motors that
\* obeyed are where its block wants them (feedbackSatisfied, motorAtTarget, finishStep).
THEOREM DoneIsArrived == Spec => []DoneMeansArrived
<1>1. ArrivalInvariant => DoneMeansArrived
  BY DEF ArrivalInvariant
<1> QED
  BY <1>1, ArrivalInvariance, PTL

\* Executor, step, motors and samples hold together in every run, also in one whose step
\* is overwritten by a block accepted under it (submitRemoteBlock, tick).
THEOREM ExecutorInvariance == Spec => []ExecutorInvariant
<1>1. MotionInvariant /\ ArrivalInvariant => ExecutorInvariant
  BY DEF ExecutorInvariant
<1> QED
  BY <1>1, MotionInvariance, ArrivalInvariance, PTL

----------------------------------------------------------------------------
(* The executor implements the one the firmware is checked with. *)

Stage(ph) ==
  CASE ph \in {"new", "preflight"} -> "preflight"
    [] ph = "finished" -> "finished"
    [] OTHER -> "target"

AbstractStep ==
  \/ Abstract!ExecTick
  \/ Abstract!ExecCanStart /\ Abstract!ExecStart(job')
  \/ Abstract!ExecEmergencyStop
  \/ Abstract!ExecResetFault
  \/ UNCHANGED <<Abstract!execVars>>

LEMMA Stages ==
  /\ Stage("new") = "preflight" /\ Stage("preflight") = "preflight"
  /\ Stage("ack") = "target" /\ Stage("target") = "target" /\ Stage("finished") = "finished"
BY DEF Stage

LEMMA TickRefines ==
  ASSUME MotionInvariant, Tick
  PROVE  AbstractStep
<1> USE DEF Abstract!ExecTick, Abstract!TickBaseline, Abstract!TickNoMotion, Abstract!TickIssue,
            Abstract!TickTarget, Abstract!TickFinished
<1>1. state = "running" /\ job' = job /\ Ticking /\ phase \in Phase
  BY TypeParts DEF Tick, Ticking, MotionInvariant
<1>2. CASE phase \in {"new", "preflight"}
  <2>1. ordered = {} /\ samples = 0
    BY <1>1, <1>2 DEF MotionInvariant, NothingOrderedYet
  <2>2. NextSample # CompletionSamples
    <3>1. CompletionSamples \in Nat /\ CompletionSamples > 1
      BY Zenon, ExecutorAssumption
    <3> QED
      BY <2>1, <3>1 DEF NextSample
  <2>3. Stage(phase) = "preflight"
    BY <1>2, Stages
  <2>4. CASE BaselineStep
    <3>1. Stage(phase') = "preflight" /\ state' \in {"running", "faulted"} /\ ordered' = {}
      BY <2>4, Stages DEF BaselineStep
    <3> QED
      BY <1>1, <2>1, <2>3, <3>1 DEF AbstractStep, Stage
  <2>5. ASSUME NEW r \in Run, NoMotionStep(r) PROVE AbstractStep
    <3>1. /\ ordered' = {}
          /\ \/ state' = "running" /\ Stage(phase') \in {"target", "finished"}
             \/ state' = "faulted" /\ Stage(phase') = "target"
      BY <1>1, <2>5, Stages DEF NoMotionStep, Outcome
    <3> QED
      BY <1>1, <2>1, <2>3, <3>1 DEF AbstractStep, Stage
  <2>6. ASSUME NEW r \in Run, CommandStep(r) PROVE AbstractStep
    <3>1. step.kind # "wait"
      <4>1. Targets # {}
        BY <2>6 DEF CommandStep
      <4>2. accepted \in Blocks /\ step = StepOf(accepted) /\ step.ok
        BY <1>1 DEF MotionInvariant, StepIsTheBlock
      <4> QED
        BY <4>1, <4>2, StepsAssumption DEF Targets
    <3>2. /\ ordered' # {} /\ phase' # "finished"
          /\ state' \in {"running", "faulted"} /\ phase' \in {"ack", "target"}
      BY <1>1, <2>2, <2>6, <3>1 DEF CommandStep, Outcome
    <3>3. Stage(phase') = "target"
      BY <3>2, Stages
    <3> QED
      BY <1>1, <2>3, <3>2, <3>3 DEF AbstractStep, Stage
  <2> QED
    BY <1>2, <2>4, <2>5, <2>6, TickSteps
<1>3. CASE phase \in {"ack", "target"}
  <2>1. Outcome(Now, {"ack", "target", "finished"})
    BY <1>3, TickSteps DEF Outcome
  <2>2. ordered' = ordered
    BY <2>1 DEF Outcome, Now
  <2>3. /\ Stage(phase) = "target"
        /\ \/ state' = "running" /\ Stage(phase') \in {"target", "finished"}
           \/ state' = "faulted" /\ Stage(phase') = "target"
    BY <1>1, <1>3, <2>1, Stages DEF Outcome
  <2> QED
    BY <1>1, <2>2, <2>3 DEF AbstractStep, Stage
<1>4. CASE phase = "finished"
  <2>1. state' = "completed" /\ phase' = phase /\ ordered' = ordered
    BY <1>4, TickSteps DEF Complete
  <2>2. Stage(phase) = "finished" /\ Stage(phase') = "finished"
    BY <1>4, <2>1, Stages
  <2> QED
    BY <1>1, <2>1, <2>2 DEF AbstractStep, Stage
<1> QED
  BY <1>1, <1>2, <1>3, <1>4

LEMMA StepRefines ==
  ASSUME MotionInvariant, [Next]_vars
  PROVE  AbstractStep
<1> USE DEF AbstractStep, Abstract!execVars
<1>1. ASSUME NEW b \in Blocks, Submit(b) PROVE AbstractStep
  <2>1. CASE Starts
    BY <2>1 DEF Starts, Abstract!ExecCanStart, Abstract!ExecStart
  <2>2. CASE NotStarted \/ ~StepOf(b).ok
    BY <1>1, <2>2 DEF Submit, NotStarted
  <2> QED
    BY <1>1, <2>1, <2>2 DEF Submit
<1>2. CASE Tick
  BY <1>2, TickRefines
<1>3. CASE EmergencyStop
  BY <1>3 DEF EmergencyStop, Abstract!ExecEmergencyStop
<1>4. ASSUME NEW answers, NEW moving, ResetFault(answers, moving) PROVE AbstractStep
  BY <1>4 DEF ResetFault, Abstract!ExecResetFault
<1>6. CASE ResetUnderRun
  BY <1>6 DEF ResetUnderRun
<1>5. CASE Receive \/ StopAll \/ MotorAdvances \/ TimePasses \/ UNCHANGED vars
  BY <1>5 DEF Receive, StopAll, MotorAdvances, TimePasses, vars, runVars
<1> QED
  BY <1>1, <1>2, <1>3, <1>4, <1>5, <1>6 DEF Next

\* Every step of the detailed executor is one that BlockExecutor allows: the firmware
\* modules are checked with no less than the executor can do.
THEOREM ExecutorRefinement == Spec => ImplementsBlockExecutor
<1>1. Init => Abstract!ExecInit
  BY DEF Init, ExecutorInit, Abstract!ExecInit
<1>2. MotionInvariant /\ [Next]_vars => AbstractStep
  BY StepRefines
<1> QED
  BY <1>1, <1>2, MotionInvariance, PTL DEF Spec, ImplementsBlockExecutor, AbstractStep
=============================================================================
