CONSTANTS
  MaxBlocks = 1
  MaxDeltas = 1
  MaxExtras = 1
  StopReasons <- MCStopReasons
  TokenCounts <- MCTokenCounts
  U32Max = 3
  I32Max = 1
  StreamCap = 1
  BodyCap = 1
SPECIFICATION Spec
INVARIANT NoSilentEnd
