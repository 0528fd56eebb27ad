\* The code as it stands: nothing holds the callers back.
SPECIFICATION Spec
CONSTANTS
  NumReaders = 2
  NumSlots = 3
  MaxWrites = 7
  Paced = FALSE
INVARIANTS
  ResultsConsecutive
