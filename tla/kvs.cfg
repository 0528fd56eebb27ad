\* As many clients as one slot bears: SafeClients = 2.
SPECIFICATION KvsSpec
CONSTANTS
  c1 = c1
  c2 = c2
  N = 4
  Clients <- TwoClients
  Local <- NearAndFar
  RecvFrom = 3
  KVS = TRUE
  RidMod = 8
  MaxReq = 3
  MaxGets = 1
  Cap = 1
INVARIANTS
  ReadsOwnWrites
  WritesReachLocal
  NoCircularWait
