\* Six entries, so that the lists are pruned while requests keep coming.
SPECIFICATION Spec
CONSTANTS
  N = 5
  Clients = {c1, c2}
  RecvFrom = 0
  MaxReq = 3
  Cap = 1
SYMMETRY ClientSymmetry
INVARIANTS
  EntriesPresent
  ListsBounded
  LogMatching
  RoundsMatch
  CommittedByMajority
  AnswerMatchesRequest
