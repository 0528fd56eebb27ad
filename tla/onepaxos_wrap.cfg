\* Request ids of one bit, and one request more than they can count.
SPECIFICATION Spec
CONSTANTS
  N = 2
  Clients = {c1}
  RecvFrom = 0
  KVS = FALSE
  RidMod = 2
  MaxReq = 3
  Cap = 1
INVARIANTS
  OnlyDuplicatesDropped
