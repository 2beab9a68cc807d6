CONSTANTS
  c1 = c1
  c2 = c2
  c3 = c3
  Conns <- MCConns
  Stalled <- MCStalled
  MaxOpen = 2
  MaxRequests <- MCMaxRequests
  StubWarpApi = TRUE
SPECIFICATION FairSpec
INVARIANTS
  TypeOK
  AnswersFit
PROPERTIES
  AcceptNotBlocked
  Answered
  ShutdownStops
