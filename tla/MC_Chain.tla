------------------------------ MODULE MC_Chain -------------------------------
(***************************************************************************)
(* Chain on small instances, up to the symmetry of the clients.            *)
(***************************************************************************)
EXTENDS Chain, TLC

ClientSymmetry == Permutations(Clients)
==============================================================================
