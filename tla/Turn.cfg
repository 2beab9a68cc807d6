CONSTANTS
  MaxBlocks = 3
  MaxDeltas = 2
  MaxExtras = 0
  StopReasons <- MCStopReasons
  TokenCounts <- MCTokenCounts
  U32Max = 3
  I32Max = 1
  StreamCap = 1
  BodyCap = 1
SPECIFICATION Spec
INVARIANTS
  TypeOK
  NoClientFault
  ShownInOrder
  EndedComplete
  HonestFinish
  FailureReported
  AnswerInv
  AsIfSequential
