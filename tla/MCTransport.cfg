SPECIFICATION Spec
CONSTANTS
  x = x
  press = press
  Broadcast = Broadcast
  Capacity = 6
  MotorOrder <- MCMotorOrder
  Groups <- MCPair
  PollFirst <- MCPollNone
  MaxRuns = 2
  MaxStops = 1
  MaxResets = 1
  MaxPump = 1
INVARIANTS
  UrgentFirst
  BatchLeavesInOrder
  EmergencyNeverLost
  PromptOnHealthyBus
  OrderOnHealthyBus
PROPERTIES
  StoppedRunStaysSilent
