------------------------------ MODULE MCMotion ------------------------------
(* Small instances of the motion executor for TLC. *)
EXTENDS MotionProperties

MCProfile == [rpm |-> 1, accelRaw |-> 1, timeoutMs |-> 1]

Move(m, t, p) == [type |-> "motor_move", motor |-> m, target |-> t, profile |-> p]
Wait == <<[type |-> "wait"]>>

\* The Y pair, which turns in opposite directions: a legal block, one that
\* leaves a motor where it is, and one that names a single motor.
MCPair == {"yLeft", "yRight"}
MCPairPulses == -1..1
MCPairBlocks ==
  {<<Move("yLeft", -1, MCProfile), Move("yRight", 1, MCProfile)>>,
   <<Move("yLeft", -1, MCProfile), Move("yRight", 0, MCProfile)>>}

\* States of the pair that TLC need not tell apart.  Of a run that failed only the
\* motors it commanded are read again, for start() clears the rest; and where every
\* block is legal, a free slot is as good as a taken one once the blocks are used up.
MCView ==
  <<feedbackVars, state, accepted, step, refused, block, job, moves,
    IF moves < MaxMoves THEN slot = "run" ELSE TRUE, slot = "other", ordered,
    IF state \in {"idle", "faulted"} THEN << >>
      ELSE <<phase, supervision, stepAge, commandAge, samples, fault,
             polled, answersLate, obeyed>> >>

\* One motor, several runs.
MCPress == {"press"}
MCPressPulses == -1..0
MCPressBlocks ==
  {<<Move("press", -1, MCProfile)>>, <<Move("press", 0, MCProfile)>>, Wait}
=============================================================================
