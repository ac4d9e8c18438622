SPECIFICATION Spec
CONSTANTS
  Motors <- MCPair
  Pulses <- MCPairPulses
  Blocks <- MCPairBlocks
  MaxAge = 2
  MaxBlockTimeout = 1
  MotionTimeout = 1
  MaxMoves = 2
  BaselineFresh = 0
  FeedbackFresh = 0
  BaselineTimeout = 0
  AckTimeout = 0
  NoMovementTimeout = 0
  MinimumMotion = 1
  CompletionSamples = 2
  PositionTolerance = 0
  SkewTolerance = 0
VIEW MCView
INVARIANTS
  DoneMeansArrived
  FailureStopsMotors
PROPERTIES
  MotionIsTheBlock
  NoMovementNeedsEvidence
CHECK_DEADLOCK FALSE
