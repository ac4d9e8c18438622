SPECIFICATION Spec
CONSTANTS
  Jobs <- MCJobs
  Sessions <- MCSessions
  JobBlocks = 2
  ReturnBlocks = 1
  MaxEpoch = 2
  MaxResets = 1
  MaxFaults = 1
INVARIANTS
  FinishedMeansDone
  PositionIsReached
  RunningHasLoop
  OwnBlockIsOver
  EveryWaitIsAnswered
PROPERTIES
  BlocksInOrder
CHECK_DEADLOCK FALSE
