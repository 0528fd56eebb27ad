------------------------------- MODULE Startup -------------------------------
(***************************************************************************)
(* How the program starts: bench/main.c, com_layer.c, replica.c and the    *)
(* init functions of the replicas and of the client.                       *)
(*                                                                         *)
(* The main thread fills one struct of arguments per replica, starts it    *)
(* with a pointer to the struct and goes on; the replica reads it when it  *)
(* gets to run.  A replica with an algorithm below it starts the replicas  *)
(* of its node in the same way.  Nothing tells a thread that another one   *)
(* is ready: sleep() is all the synchronisation there is.                  *)
(*                                                                         *)
(* What is configured differs by the command line (algo, below), by the    *)
(* build (smlt, kvs) and by where the client runs (numa); the initial      *)
(* state chooses a setup and no step changes it.                           *)
(***************************************************************************)
EXTENDS Naturals, Sequences

CONSTANTS
  N,        \* num_replicas
  NodeSize, \* node_size where an algorithm runs below; it is 1 otherwise
  Setups    \* the setups, see SetupType

ASSUME SizesAssumption == N \in Nat /\ N >= 2 /\ NodeSize \in Nat /\ NodeSize >= 2

SetupType ==
  [algo : {"1PAXOS", "TPC", "BROAD", "CHAIN", "RAFT"},
   below : {"SHM", "NONE"}, smlt : BOOLEAN, kvs : BOOLEAN,
   numa : 0 .. N - 1,   \* the NUMA node of the client's core
   timely : BOOLEAN]    \* whether main's sleeps outlast the start of a replica

ASSUME SetupsAssumption == Setups \subseteq SetupType

(* Core <<r, 0>> runs replica r, the others of node r what is below it. *)
NodeCore(r) == <<r, 0>>
NodeCores == {NodeCore(r) : r \in 0 .. N - 1}
CoreCores == (0 .. N - 1) \X (1 .. NodeSize - 1)
Threads == NodeCores \cup CoreCores
Main == <<N, 0>>

(* The elements in use of the arrays of arguments, which have 64. *)
Slots == (0 .. N - 1) \cup (0 .. NodeSize - 2)

VARIABLES
  setup,      \* the setup: constant
  mpc,        \* main: "main", "nodes", "clients", "running" or "exit"
  next,       \* per thread that starts others: its loop variable i
  thr_args,   \* per thread: its thread-local arrays thr_args and thr_args2,
  thr_args2,  \*   zero until it writes them itself
  arg,        \* per replica: what it was started with, a pointer to a struct
  rpc,        \* per replica: "off", "started", "init", "below" or "loop"
  replica,    \* per replica: its state after init_replica_*
  kvs_memory, \* per id: whether the table is allocated
  crash,      \* a null pointer was followed: the process is gone
  args,       \* benchmark_client_args_t of the client
  cpc         \* client: "off", "started", "joining" or "joined"

startupVars == <<setup, mpc, next, thr_args, thr_args2, arg, rpc, replica,
                 kvs_memory, crash, args, cpc>>

(* cons_args_t.  cores, the other cores of the node, is empty where NULL. *)
Args(id, core, num, algo, level, below, cores) ==
  [id |-> id, current_core |-> core, num_replicas |-> num, algo |-> algo,
   level |-> level, alg_below |-> below, cores |-> cores]

(* All bytes zero: ALG_1PAXOS and CORE_LEVEL are 0, and so is no ALG_NONE. *)
Zero == Args(0, <<0, 0>>, 0, "1PAXOS", "CORE", "1PAXOS", << >>)

NoPointer == [array |-> "none", of |-> Main, i |-> 0]

(* What the replica on core t finds behind its pointer when it looks. *)
Read(t) ==
  LET p == arg[t]
  IN  IF p.array = "thr_args" THEN thr_args[p.of][p.i] ELSE thr_args2[p.of][p.i]

Off == [polls |-> FALSE, answers |-> FALSE, samples |-> FALSE, args |-> Zero]

Init ==
  /\ setup \in Setups
  /\ mpc = "main"
  /\ next = [t \in Threads \cup {Main} |-> 0]
  /\ thr_args = [t \in Threads \cup {Main} |-> [i \in Slots |-> Zero]]
  /\ thr_args2 = [t \in Threads \cup {Main} |-> [i \in Slots |-> Zero]]
  /\ arg = [t \in Threads |-> NoPointer]
  /\ rpc = [t \in Threads |-> "off"]
  /\ replica = [t \in Threads |-> Off]
  /\ kvs_memory = [id \in 0 .. N - 1 |-> FALSE]
  /\ crash = FALSE
  /\ args = [leader |-> Main, recv_from |-> Main]
  /\ cpc = "off"

(* A sleep() of main: a timely one lets every replica get to its loop. *)
SleepOver ==
  setup.timely => \A t \in Threads : rpc[t] \in {"off", "loop"}

(* smlt_node_start(core t, replica_function, p). *)
Start(t, p) ==
  /\ arg' = [arg EXCEPT ![t] = p]
  /\ rpc' = [rpc EXCEPT ![t] = "started"]

------------------------------------------------------------------------------
(* The main thread. *)

(* main: SMLT refuses an algorithm below; consensus_init sets com_node. *)
main_start ==
  /\ mpc = "main"
  /\ mpc' = IF setup.smlt /\ setup.below # "NONE" THEN "exit" ELSE "nodes"
  /\ UNCHANGED <<setup, next, thr_args, thr_args2, arg, rpc, replica, kvs_memory,
                 crash, args, cpc>>

(* The cores of node i in the configuration, after its first. *)
node_cores(i) ==
  IF setup.below = "NONE" THEN <<0>> ELSE [j \in 1 .. NodeSize - 1 |-> <<i, j>>]

NodeArgs(i) ==
  Args(i, NodeCore(i), N, setup.algo, "NODE", setup.below, node_cores(i))

NodeSlot_one(i) == 0

(* The element of thr_args that replica i gets. *)
NodeSlot(i) == i

(***************************************************************************)
(* One replica of init_protocol_node.  It sleeps after the first one, and  *)
(* after the others only if the nodes have more than one core.             *)
(***************************************************************************)
init_protocol_node ==
  LET i == next[Main]
  IN  /\ mpc = "nodes"
      /\ i = 1 \/ setup.below # "NONE" => SleepOver
      /\ thr_args' = [thr_args EXCEPT ![Main][NodeSlot(i)] = NodeArgs(i)]
      /\ Start(NodeCore(i), [array |-> "thr_args", of |-> Main, i |-> NodeSlot(i)])
      /\ next' = [next EXCEPT ![Main] = i + 1]
      /\ mpc' = IF i = N - 1 THEN "clients" ELSE "nodes"
      /\ UNCHANGED <<setup, thr_args2, replica, kvs_memory, crash, args, cpc>>


(* The replica whose core the client gets for its leader. *)
client_leader(s) == IF s.algo = "1PAXOS" /\ s.smlt THEN 1 ELSE 0

(* The replica the client is to hear its answers from. *)
client_recv_from(s) ==
  CASE s.algo = "CHAIN"           -> N - 1
    [] s.algo = "1PAXOS" /\ s.kvs -> IF s.numa \in {0, 1} THEN s.numa + 2 ELSE s.numa
    [] OTHER                      -> client_leader(s)

(* consensus_bench_clients_init, after the sleeps of init_protocol_node and main. *)
consensus_bench_clients_init ==
  /\ mpc = "clients"
  /\ SleepOver
  /\ args' = [leader    |-> NodeCore(client_leader(setup)),
              recv_from |-> NodeCore(client_recv_from(setup))]
  /\ cpc' = "started"
  /\ mpc' = "running"
  /\ UNCHANGED <<setup, next, thr_args, thr_args2, arg, rpc, replica, kvs_memory, crash>>

------------------------------------------------------------------------------
(***************************************************************************)
(* What the init functions make of their arguments: whether the replica's  *)
(* loop polls the clients, whether the replica answers them (in the build  *)
(* with KVS, those that name its core in data[3]), and whether it starts   *)
(* the thread that samples the throughput.                                 *)
(***************************************************************************)
Role(a, polls, answers, samples) ==
  [polls |-> polls, answers |-> answers, samples |-> samples, args |-> a]

init_replica_tpc(a) == Role(a, a.id = 0, a.id = 0, a.id = 0 /\ a.level = "NODE")

current_leader(smlt) == IF smlt THEN 1 ELSE 0

current_acceptor(smlt) == IF smlt THEN 0 ELSE 1

init_replica_onepaxos(a) ==
  LET leader   == current_leader(setup.smlt)
      learners == (0 .. N - 1) \ {leader, current_acceptor(setup.smlt)}
  IN  Role(a, a.id = leader, IF setup.kvs THEN a.id \in learners ELSE a.id = leader,
           a.id = 0 /\ a.level = "NODE")

init_replica_broadcast(a) == Role(a, a.id = 0, a.id = 0, a.id = 0)

init_replica_chain(a) == Role(a, a.id = 0, a.id = a.num_replicas - 1, a.id = 0)

init_replica_raft(a) == Role(a, a.id = 0, a.id = 0, a.id = 0 /\ a.level = "NODE")

(* A reader of the node's queue hears of nobody else. *)
init_shm_reader(a) == Role(a, FALSE, FALSE, FALSE)

init_state(a) ==
  CASE a.algo = "TPC"    -> init_replica_tpc(a)
    [] a.algo = "1PAXOS" -> init_replica_onepaxos(a)
    [] a.algo = "BROAD"  -> init_replica_broadcast(a)
    [] a.algo = "CHAIN"  -> init_replica_chain(a)
    [] a.algo = "RAFT"   -> init_replica_raft(a)
    [] a.algo = "SHM"    -> init_shm_reader(a)

(* Raft and the readers of a queue start nothing below. *)
StartsBelow(a) == a.alg_below # "NONE" /\ a.algo \notin {"RAFT", "SHM"}

(* With KVS a replica first allocates its table. *)
init_kvs_replica(t) ==
  /\ setup.kvs
  /\ rpc[t] = "started"
  /\ kvs_memory' = [kvs_memory EXCEPT ![Read(t).id] = TRUE]
  /\ rpc' = [rpc EXCEPT ![t] = "init"]
  /\ UNCHANGED <<setup, mpc, next, thr_args, thr_args2, arg, replica, crash, args, cpc>>

(***************************************************************************)
(* init_replica, and com_layer_core_init up to its call of                 *)
(* init_protocol_core.  It reads cores[0] whether or not there is one.     *)
(***************************************************************************)
init_replica(t) ==
  LET a == Read(t)
  IN  /\ rpc[t] = IF setup.kvs THEN "init" ELSE "started"
      /\ replica' = [replica EXCEPT ![t] = init_state(a)]
      /\ rpc' = [rpc EXCEPT ![t] = IF StartsBelow(a) THEN "below" ELSE "loop"]
      /\ next' = [next EXCEPT ![t] = IF Len(a.cores) > 1 THEN 1 ELSE 0]
      /\ crash' = (StartsBelow(a) /\ a.cores = << >>)
      /\ UNCHANGED <<setup, mpc, thr_args, thr_args2, arg, kvs_memory, args, cpc>>

CoreArgs(a, i) ==
  Args(i, a.cores[i + 1], Len(a.cores), a.alg_below, "CORE", "NONE", << >>)

(* &thr_args[i], of the thread that has filled in thr_args2[i]. *)
CorePointer(t, i) == [array |-> "thr_args", of |-> t, i |-> i]

(* One replica of init_protocol_core, which starts number 0 last. *)
init_protocol_core(t) ==
  LET a == replica[t].args
      i == next[t]
  IN  /\ rpc[t] = "below"
      /\ thr_args2' = [thr_args2 EXCEPT ![t][i] = CoreArgs(a, i)]
      /\ arg' = [arg EXCEPT ![a.cores[i + 1]] = CorePointer(t, i)]
      /\ rpc' = [rpc EXCEPT ![a.cores[i + 1]] = "started",
                            ![t] = IF i = 0 THEN "loop" ELSE "below"]
      /\ next' = [next EXCEPT ![t] = IF i = Len(a.cores) - 1 THEN 0 ELSE i + 1]
      /\ UNCHANGED <<setup, mpc, thr_args, replica, kvs_memory, crash, args, cpc>>

------------------------------------------------------------------------------
(* The client. *)

(* init_kvs_client asserts that its table is there; then SETUP is sent. *)
init_consensus_client ==
  /\ cpc = "started"
  /\ crash' = (setup.kvs /\ ~kvs_memory[setup.numa])
  /\ cpc' = "joining"
  /\ UNCHANGED <<setup, mpc, next, thr_args, thr_args2, arg, rpc, replica,
                 kvs_memory, args>>

(* The leader, once it polls its clients, answers the SETUP. *)
handle_setup ==
  /\ cpc = "joining"
  /\ rpc[args.leader] = "loop"
  /\ replica[args.leader].polls
  /\ cpc' = "joined"
  /\ UNCHANGED <<setup, mpc, next, thr_args, thr_args2, arg, rpc, replica,
                 kvs_memory, crash, args>>

MainStep == main_start \/ init_protocol_node \/ consensus_bench_clients_init

ReplicaStart(t) == init_kvs_replica(t) \/ init_replica(t) \/ init_protocol_core(t)

ClientStart == init_consensus_client \/ handle_setup

Starting == MainStep \/ (\E t \in Threads : ReplicaStart(t)) \/ ClientStart

------------------------------------------------------------------------------
(***************************************************************************)
(* consensus_bench_clients_init works out leader and recv_from by itself,  *)
(* from the protocol and the build, and the replicas their roles from an   *)
(* id behind a pointer they read later.  For a client to be served, the    *)
(* two must meet: its leader polls it, and whoever it listens to, and in   *)
(* a build without KVS nobody else, answers it.  A replica that runs has   *)
(* the id, the core and the algorithm that the configuration gives it.     *)
(***************************************************************************)
RolesAgree ==
  \A r \in 0 .. N - 1 :
    LET t == NodeCore(r)
    IN  rpc[t] = "loop" =>
          /\ replica[t].args = NodeArgs(r)
          /\ cpc # "off" =>
               /\ args.leader = t <=> replica[t].polls
               /\ args.recv_from = t => replica[t].answers
               /\ replica[t].answers => args.recv_from = t \/ setup.kvs
==============================================================================
