SPECIFICATION FairSpec
CONSTANTS
  Blocks = {b1}
  NoBlock = NoBlock
  MaxRuntime = 1
  MaxHttpRequests = 4
  ConnectTimeout = 1
  ShutdownDelay = 1
  Motors = {x, press}
  Counts <- MCCounts
  Tolerance = 1
INVARIANTS
  StartupTypeOK
  ReadyAtOrigin
  AccessPointUntilJoined
PROPERTIES
  ServerStartsWhenFinished
  HandsOverToFirmware
  AttemptEnds
  FinishStartsServer
