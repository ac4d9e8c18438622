---------------------------- MODULE MotorStartup ----------------------------
(***************************************************************************)
(* prepareMotorsAtOrigin: at power-on the operator has put the mechanism   *)
(* at its origin; the firmware makes the motors count from there and       *)
(* checks that they do.  The motors are outside: a motor may hear a        *)
(* command or not, and each of its answers may be lost.                    *)
(***************************************************************************)
EXTENDS Integers

CONSTANTS
  Motors,       \* the five motors
  Counts,       \* what a motor may count when the firmware starts
  Tolerance     \* positionToleranceSteps

ASSUME StartupAssumption ==
  Counts \subseteq Nat /\ 0 \in Counts /\ Tolerance \in Nat

VARIABLES
  counter,      \* what each motor counts, 0 the place it was put at
  seen,         \* inputPulseSteps of the store, NoSample before the first one
  clearAcked    \* lastAckCommand is the position-clear, of this start

motorVars == <<counter, seen, clearAcked>>

NoSample == -1

\* Type invariant of the start of the motors.
MotorTypeOK ==
  /\ counter \in [Motors -> Counts] /\ seen \in [Motors -> Counts \cup {NoSample}]
  /\ clearAcked \in [Motors -> BOOLEAN]

Nothing == [m \in Motors |-> NoSample]

MotorInit ==
  /\ counter \in [Motors -> Counts]
  /\ seen = Nothing
  /\ clearAcked = [m \in Motors |-> FALSE]

\* The start is over: this model has no use for what the store holds any more.
ForgetSamples == seen' = Nothing /\ clearAcked' = [m \in Motors |-> FALSE]

\* Mutated form of Sampled: the sign of the count is read the wrong way round.
SampledNegated(answers) == [m \in Motors |-> IF m \in answers THEN -counter[m] ELSE seen[m]]

Sampled(answers) == [m \in Motors |-> IF m \in answers THEN counter[m] ELSE seen[m]]

\* probeMotorsBestEffort and the polls after the clear: some motors answer.
PollMotors ==
  /\ \E answers \in SUBSET Motors : seen' = Sampled(answers)
  /\ UNCHANGED <<counter, clearAcked>>

Cleared(heard) == counter' = [m \in Motors |-> IF m \in heard THEN 0 ELSE counter[m]]

\* The clears are heard by some, acknowledged by some of those.  An acknowledgement
\* of an earlier command that comes later hides one of these.
ClearMotors ==
  \E heard \in SUBSET Motors : \E acked \in SUBSET heard :
    /\ Cleared(heard)
    /\ clearAcked' = [m \in Motors |-> m \in acked]
    /\ UNCHANGED seen

\* Mutated form of AtOrigin: the acknowledgement is not looked at.
AtOriginByCount ==
  \A m \in Motors : seen[m] # NoSample /\ seen[m] <= Tolerance

AtOrigin ==
  \A m \in Motors : clearAcked[m] /\ seen[m] # NoSample /\ seen[m] <= Tolerance
=============================================================================
