CONSTANTS
  Asks <- MCAsks
  Parts <- MCParts
  Histories <- MCHistories
  MaxTurns = 3
  MaxParts = 3
  U32Max = 3
SPECIFICATION Spec
INVARIANTS
  TypeOK
  StubAlone
  ConversationInv
PROPERTIES
  TextsAndPayloadsKept
  PrefixStable
  CacheReusable
CHECK_DEADLOCK FALSE
