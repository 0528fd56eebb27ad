----------------------------- MODULE MC_OnePaxos -----------------------------
(***************************************************************************)
(* OnePaxos on small instances, up to the symmetry of the clients.         *)
(***************************************************************************)
EXTENDS OnePaxos, TLC

ClientSymmetry == Permutations(Clients)
==============================================================================
