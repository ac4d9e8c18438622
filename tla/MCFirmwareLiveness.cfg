SPECIFICATION FairSpec
CONSTANTS
  NoBlock = NoBlock
  Blocks = {b1}
  MaxRuntime = 1
  MaxSessions = 1
  MaxRequests = 3
  MaxUnread = 2
PROPERTIES
  AcceptedBlockEnds
  OwnerLearnsOutcome
