SPECIFICATION Spec
CONSTANTS
  NoBlock = NoBlock
  Blocks = {b1, b2}
  MaxRuntime = 1
  MaxSessions = 2
  MaxRequests = 4
  MaxUnread = 2
SYMMETRY MCSymmetry
INVARIANTS
  TypeOK
  SlotAgreesWithJob
  DoneMeansOwnMotion
  CancelledNeverStarted
  StoppedStaysStopped
  FirmwareInvariant
PROPERTIES
  NoStartWhileFaulted
  ImplementsLifecycle
