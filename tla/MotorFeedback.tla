--------------------------- MODULE MotorFeedback ----------------------------
(***************************************************************************)
(* The motors on the CAN bus and what the firmware knows of them.          *)
(*                                                                         *)
(* The motors are outside the repository.  A motor that obeys a move goes  *)
(* to its target pulse by pulse and may stick; it answers the command with *)
(* an acknowledgement or a refusal, says when it has arrived, and answers  *)
(* polls with its pulse count and its velocity.  Answers may be late or    *)
(* lost.                                                                   *)
(*                                                                         *)
(* MotorFeedbackStore keeps the last sample of each kind with its time.    *)
(* The model keeps the age of a sample instead, up to MaxAge; a sample     *)
(* that was never taken is as old as that.                                 *)
(***************************************************************************)
EXTENDS Integers, FiniteSets

CONSTANTS
  Motors,       \* the motors in use
  Pulses,       \* the positions a motor can have, 0 the origin
  MaxAge        \* bound on the ages, above every limit they are compared with

VARIABLES
  motor,        \* each motor: where it is, where it goes, what it has to say
  feedback      \* states_ of the store: the last samples and their ages

feedbackVars == <<motor, feedback>>

Reply == {"none", "ack", "reject"}

\* Type invariant of the motors and the store.
FeedbackTypeOK ==
  /\ motor \in [Motors -> [at : Pulses, goal : Pulses, reply : Reply, arrived : BOOLEAN]]
  /\ feedback \in [Motors -> [pulse : Pulses, pulseAge : 0..MaxAge,
                              moving : BOOLEAN, velocityAge : 0..MaxAge]]

\* After the boot: every motor is at the origin and was heard.
FeedbackInit ==
  /\ motor = [m \in Motors |-> [at |-> 0, goal |-> 0, reply |-> "none", arrived |-> FALSE]]
  /\ feedback = [m \in Motors |-> [pulse |-> 0, pulseAge |-> 0,
                                   moving |-> FALSE, velocityAge |-> 0]]

Moves(m) == motor[m].goal # motor[m].at

----------------------------------------------------------------------------
(* The motors. *)

\* What becomes of a motor that obeys a move, refuses it, or hears nothing.
Heard(was, target, reply) ==
  CASE reply = "ack"    -> [was EXCEPT !.goal = target, !.reply = "ack", !.arrived = FALSE]
    [] reply = "reject" -> [was EXCEPT !.reply = "reject"]
    [] OTHER            -> was

Stopped(motors) == [m \in Motors |-> [motors[m] EXCEPT !.goal = motors[m].at]]

\* One pulse further; the last one makes the motor report its arrival.
Advance(m) ==
  /\ Moves(m)
  /\ LET next == IF motor[m].at < motor[m].goal THEN motor[m].at + 1 ELSE motor[m].at - 1
     IN motor' = [motor EXCEPT ![m] = [@ EXCEPT !.at = next, !.arrived = (next = motor[m].goal)]]
  /\ UNCHANGED feedback

----------------------------------------------------------------------------
(* The store.  A limit on the age of a sample is compared with its age.    *)

FreshInputPulse(m, limit) == feedback[m].pulseAge <= limit
FreshVelocity(m, limit) == feedback[m].velocityAge <= limit

Fresh(m, limit) == FreshInputPulse(m, limit) /\ FreshVelocity(m, limit)

\* apply: an input pulse count.
ApplyPulse(m) ==
  feedback' = [feedback EXCEPT ![m] = [@ EXCEPT !.pulse = motor[m].at, !.pulseAge = 0]]

\* apply: a velocity.  A motor that starts or ends a move may still read as idle.
ApplyVelocity(m, moving) ==
  /\ moving => Moves(m)
  /\ feedback' = [feedback EXCEPT ![m] = [@ EXCEPT !.moving = moving, !.velocityAge = 0]]

\* A probe of all motors, answered by those in "answers"; "moving" read as on the way.
ApplyProbe(answers, moving) ==
  feedback' = [m \in Motors |->
    IF m \in answers
      THEN [pulse |-> motor[m].at, pulseAge |-> 0, moving |-> m \in moving, velocityAge |-> 0]
      ELSE feedback[m]]

Older(age) == IF age < MaxAge THEN age + 1 ELSE age

AgeSamples ==
  feedback' = [m \in Motors |-> [feedback[m] EXCEPT
    !.pulseAge = Older(@), !.velocityAge = Older(@)]]
=============================================================================
