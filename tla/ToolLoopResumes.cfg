CONSTANTS
  Asks <- MCAsks
  Parts <- MCParts
  Histories <- MCHistories
  MaxTurns = 3
  MaxParts = 3
  U32Max = 3
SPECIFICATION Spec
INVARIANT ToolLoopResumes
CHECK_DEADLOCK FALSE
