SPECIFICATION Spec
CONSTANTS
  NoBlock = NoBlock
  Blocks = {b1}
  MaxRuntime = 1
  MaxSessions = 1
  MaxRequests = 5
  MaxUnread = 2
PROPERTIES
  NoMotionAfterResult
