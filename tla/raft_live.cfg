SPECIFICATION FairSpec
CONSTANTS
  N = 3
  Clients = {c1, c2}
  RecvFrom = 0
  MaxReq = 2
  Cap = 1
PROPERTIES
  ImplementsReplicatedLog
  ProgressOneBehind
\* A run in which something gets stuck violates the liveness properties.
CHECK_DEADLOCK FALSE
