------------------------------- MODULE MC_Raft -------------------------------
(***************************************************************************)
(* Raft on small instances, up to the symmetry of the clients.             *)
(***************************************************************************)
EXTENDS Raft, TLC

ClientSymmetry == Permutations(Clients)
==============================================================================
