\* Two laps and three quarters, and callers that keep to KeepsUp.
SPECIFICATION FairSpec
CONSTANTS
  NumReaders = 3
  NumSlots = 4
  MaxWrites = 11
  Paced = TRUE
INVARIANTS
  ResultsConsecutive
  PointerStable
  InLaps
PROPERTIES
  Progress
  ImplementsBroadcastQueue
\* The calls end after MaxWrites writes: stopping then is no deadlock.
CHECK_DEADLOCK FALSE
