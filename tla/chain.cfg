SPECIFICATION FairSpec
CONSTANTS
  N = 4
  Clients = {c1, c2}
  RecvFrom = 3
  MaxReq = 2
  Cap = 1
INVARIANTS
  LinksHoldLog
  AnswerHeldByAll
PROPERTIES
  ImplementsReplicatedLog
  Progress
\* A run in which something gets stuck violates the liveness properties.
CHECK_DEADLOCK FALSE
