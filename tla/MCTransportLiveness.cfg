SPECIFICATION TransportFairSpec
CONSTANTS
  x = x
  press = press
  Broadcast = Broadcast
  Capacity = 6
  MotorOrder <- MCMotorOrder
  Groups <- MCGroups
  PollFirst <- MCPollFirst
  MaxRuns = 1
  MaxStops = 1
  MaxResets = 0
  MaxPump = 1
INVARIANTS
  DeliveryInvariant
PROPERTIES
  EveryMotorIsStopped
