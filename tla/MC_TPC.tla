------------------------------- MODULE MC_TPC --------------------------------
(***************************************************************************)
(* TPC on small instances.  Clients are interchangeable: the specification *)
(* only compares them, so safety may be checked up to their symmetry.      *)
(***************************************************************************)
EXTENDS TPC, TLC

ClientSymmetry == Permutations(Clients)
==============================================================================
