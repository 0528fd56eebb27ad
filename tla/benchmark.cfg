SPECIFICATION FairSpec
CONSTANTS
  N = 4
  NodeSize = 3
  Setups <- AllSetups
  Runs = 1
  MaxReq = 2
INVARIANTS
  RolesAgree
  CountersBounded
PROPERTIES
  PrintedResultsFinal
  
\* The benchmark ends; a run that gets stuck before violates BenchmarkEnds.
CHECK_DEADLOCK FALSE
