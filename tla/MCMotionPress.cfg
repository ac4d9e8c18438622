SPECIFICATION FairSpec
CONSTANTS
  Motors <- MCPress
  Pulses <- MCPressPulses
  Blocks <- MCPressBlocks
  MaxAge = 2
  MaxBlockTimeout = 1
  MotionTimeout = 1
  MaxMoves = 2
  BaselineFresh = 1
  FeedbackFresh = 0
  BaselineTimeout = 0
  AckTimeout = 0
  NoMovementTimeout = 0
  MinimumMotion = 1
  CompletionSamples = 2
  PositionTolerance = 0
  SkewTolerance = 0
INVARIANTS
  ExecutorInvariant
  AckIsForThisCommand
PROPERTIES
  MotionIsTheBlock
  ImplementsBlockExecutor
  RunEnds
CHECK_DEADLOCK FALSE
