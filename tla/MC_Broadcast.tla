---------------------------- MODULE MC_Broadcast -----------------------------
(***************************************************************************)
(* Broadcast on small instances, up to the symmetry of the clients.        *)
(***************************************************************************)
EXTENDS Broadcast, TLC

ClientSymmetry == Permutations(Clients)
==============================================================================
