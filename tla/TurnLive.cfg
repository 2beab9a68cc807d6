CONSTANTS
  MaxBlocks = 1
  MaxDeltas = 5
  MaxExtras = 1
  StopReasons <- MCStopReasons
  TokenCounts <- MCTokenCounts
  U32Max = 3
  I32Max = 1
  StreamCap = 1
  BodyCap = 1
SPECIFICATION FairSpec
INVARIANTS
  UsageBeforeStop
  BoundedReadAhead
PROPERTIES
  KeepsContract
  BodyEnds
  DropReleasesUpstream
  FailureReachesClient
