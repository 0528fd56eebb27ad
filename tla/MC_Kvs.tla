------------------------------- MODULE MC_Kvs --------------------------------
(***************************************************************************)
(* The store with two clients: one on node 3, the other on node 1, whose   *)
(* replica is the acceptor, the last to execute a command.                 *)
(***************************************************************************)
EXTENDS Kvs

CONSTANTS c1, c2

TwoClients == {c1, c2}

NearAndFar == [c \in TwoClients |-> IF c = c1 THEN 3 ELSE 1]
==============================================================================
