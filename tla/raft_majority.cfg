\* Four replicas: two of them are not a majority.
SPECIFICATION Spec
CONSTANTS
  N = 4
  Clients = {c1, c2}
  RecvFrom = 0
  MaxReq = 2
  Cap = 1
INVARIANTS
  CommittedByMajority
