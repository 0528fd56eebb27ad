\* As many clients as one slot bears: SafeClients = 2.
SPECIFICATION FairSpec
CONSTANTS
  N = 3
  Clients = {c1, c2}
  RecvFrom = 0
  MaxReq = 3
  Cap = 1
INVARIANTS
  TypeOK
  Agreement
  CommitsInTransit
  CommitNeedsAllVotes
  AnswerMatchesRequest
PROPERTIES
  ImplementsReplicatedLog
  Progress
\* A run in which something gets stuck violates the liveness properties.
CHECK_DEADLOCK FALSE
