------------------------- MODULE MotionBlockParser --------------------------
(***************************************************************************)
(* What the block of an execute_block request makes the executor do:       *)
(* parseAtomicMotionBlock reads its actions one by one, convertRemoteStep  *)
(* turns the result into the step to run, or either rejects it.  A block   *)
(* is a sequence of actions, [type, motor, target, profile] to move a      *)
(* motor and [type] to wait.  A field that is missing or has the wrong     *)
(* type is a field out of range here.                                      *)
(***************************************************************************)
EXTENDS Integers, Sequences, SequencesExt

CONSTANTS
  MaxBlockTimeout,     \* kMaxBlockTimeoutMs
  MotionTimeout        \* motionTimeoutMs of the configuration, the default

ASSUME TimeoutAssumption == MaxBlockTimeout \in Nat /\ MotionTimeout \in Nat

\* Motor ids 1 to 5 of the topology.
AllMotors == {"x", "yLeft", "yRight", "lineFeed", "press"}
YPair == {"yLeft", "yRight"}

NoProfile == [rpm |-> 0, accelRaw |-> 0, timeoutMs |-> 0]

\* RemoteMotionStep{}: the targets are those the block has named so far.
NoStep == [ok |-> TRUE, kind |-> "none", targets |-> << >>, profile |-> NoProfile]

Failed(step) == [step EXCEPT !.ok = FALSE]

ProfileInRange(p) ==
  /\ p.rpm # 0 /\ p.accelRaw # 0
  /\ p.timeoutMs \in 1..MaxBlockTimeout

\* One motor_move of a block: all of a block share one profile, and no motor
\* is named twice.
ParseMove(step, a) ==
  IF /\ step.ok /\ a.type = "motor_move" /\ ProfileInRange(a.profile)
     /\ step.profile \in {NoProfile, a.profile}
     /\ a.motor \in AllMotors \ DOMAIN step.targets
  THEN [step EXCEPT !.targets = (a.motor :> a.target) @@ @, !.profile = a.profile]
  ELSE Failed(step)

\* The kind of a block that names these motors.
KindOf(named, target) ==
  CASE named = {"lineFeed"} -> "character_release"
    [] named = {"press"} -> IF target["press"] = 0 THEN "press_up" ELSE "press_down"
    [] named \in {{"x"}, YPair, {"x"} \cup YPair} -> "move_xy"
    [] OTHER -> "none"

ParseMoves(block) ==
  LET read == FoldLeft(ParseMove, NoStep, block)
      kind == KindOf(DOMAIN read.targets, read.targets)
  IN IF read.ok /\ kind # "none" THEN [read EXCEPT !.kind = kind] ELSE Failed(read)

\* A wait has no profile of its own.
ParseBlock(block) ==
  CASE Len(block) = 1 /\ block[1].type = "wait" -> [NoStep EXCEPT !.kind = "wait"]
    [] Len(block) \in 1..3 /\ block[1].type # "wait" -> ParseMoves(block)
    [] OTHER -> Failed(NoStep)

\* The time a step is given: its own, or that of the configuration.
StepTimeout(step) ==
  IF step.profile = NoProfile THEN MotionTimeout ELSE step.profile.timeoutMs

\* convertRemoteStep: the profile is checked before the kind is looked at.
ConvertStep(step) ==
  IF step.ok /\ StepTimeout(step) \in 1..MaxBlockTimeout THEN step ELSE Failed(step)

StepOf(block) == ConvertStep(ParseBlock(block))

----------------------------------------------------------------------------
(* The block as the protocol describes it, to compare the two with.        *)

WaitBlock(block) == Len(block) = 1 /\ block[1].type = "wait"

MoveBlock(block) ==
  /\ block # << >>
  /\ \A i \in DOMAIN block :
       /\ block[i].type = "motor_move"
       /\ ProfileInRange(block[i].profile)
       /\ \A j \in DOMAIN block :
            /\ block[j].profile = block[i].profile
            /\ block[j].motor = block[i].motor => i = j
  /\ LET named == {block[i].motor : i \in DOMAIN block}
     IN \/ named \in {{"x"}, {"lineFeed"}, {"press"}}
        \/ named \in {YPair, {"x"} \cup YPair}

LegalBlock(block) == WaitBlock(block) \/ MoveBlock(block)
=============================================================================
