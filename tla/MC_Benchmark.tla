----------------------------- MODULE MC_Benchmark ----------------------------
(***************************************************************************)
(* The setups of bench/README.md and Raft, in the four builds of its       *)
(* Makefile, with four replicas as in its example.                         *)
(***************************************************************************)
EXTENDS Benchmark

Setup(algo, below, smlt, kvs, numa, timely) ==
  [algo |-> algo, below |-> below, smlt |-> smlt, kvs |-> kvs, numa |-> numa,
   timely |-> timely]

(* start_bench. *)
Plain ==
  {Setup(a, "NONE", FALSE, FALSE, 0, TRUE) : a \in {"1PAXOS", "TPC", "BROAD", "CHAIN", "RAFT"}}

(***************************************************************************)
(* start_bench_smelt, in which only 1Paxos starts otherwise: its leader is *)
(* the second replica.  Without KVS sleeps of any length will do.          *)
(***************************************************************************)
Hasty == {Setup("1PAXOS", "NONE", TRUE, FALSE, 0, FALSE)}

(* With KVS the client relies on the sleeps. *)
Store ==
  {Setup(a, "NONE", s, TRUE, n, TRUE) :
     a \in {"1PAXOS", "TPC"}, s \in BOOLEAN, n \in 0 .. 3}

Below ==
  {Setup(a, "SHM", s, FALSE, 0, TRUE) :
     a \in {"1PAXOS", "TPC", "BROAD", "CHAIN"}, s \in BOOLEAN}

AllSetups == Plain \cup Hasty \cup Store \cup Below
==============================================================================
