-------------------------- MODULE Benchmark_proofs ---------------------------
(***************************************************************************)
(* Proofs about the start of the program and about the counters that two   *)
(* threads share: whatever the sleeps of the main thread are worth, a      *)
(* replica that runs has its own arguments and the client hears from the   *)
(* replica that answers it; no window shows more than was counted; and the *)
(* results are final when they are printed.                                *)
(***************************************************************************)
EXTENDS Benchmark, TLAPS, SequenceTheorems

Ids == 0 .. N - 1
AllThreads == Threads \cup {Main}
Windows == 0 .. Runs + 1

ThreadPCs == {"off", "started", "init", "below", "loop"}

Before == {"off", "started", "joining", "joined"}
ClientPCs == Before \cup {"idle", "waiting", "load", "store", "print", "done"}

Protocols == {"TPC", "1PAXOS", "BROAD", "CHAIN", "RAFT", "SHM"}

ArgsType ==
  [id : Nat, current_core : Nat \X Nat, num_replicas : Nat, algo : Protocols,
   level : {"NODE", "CORE"}, alg_below : Protocols \cup {"NONE"},
   cores : {<< >>} \cup {node_cores(i) : i \in Ids}]

RoleType ==
  [polls : BOOLEAN, answers : BOOLEAN, samples : BOOLEAN, args : ArgsType]

PointerType == [array : {"none", "thr_args"}, of : AllThreads, i : Slots]

StartupTypeOK ==
  /\ setup \in Setups
  /\ mpc \in {"main", "nodes", "clients", "running", "exit"}
  /\ next \in [AllThreads -> Nat]
  /\ thr_args \in [AllThreads -> [Slots -> ArgsType]]
  /\ thr_args2 \in [AllThreads -> [Slots -> ArgsType]]
  /\ arg \in [Threads -> PointerType]
  /\ rpc \in [Threads -> ThreadPCs]
  /\ replica \in [Threads -> RoleType]
  /\ kvs_memory \in [Ids -> BOOLEAN]
  /\ crash \in BOOLEAN
  /\ args \in [leader : Nat \X Nat, recv_from : Nat \X Nat]
  /\ cpc \in ClientPCs

MeasureTypeOK ==
  /\ req \in {"none", "sent", "taken", "answered"}
  /\ srv \in {"poll", "answer", "load", "store"}
  /\ num_reqs \in Nat /\ sreg \in Nat /\ executed \in Nat
  /\ rpl \in {"sample", "reset", "over"} /\ runs \in Nat
  /\ run_res \in [Windows -> Nat]
  /\ mt \in {"off", "report", "sleep", "over"}
  /\ current_run \in Windows /\ exit \in BOOLEAN
  /\ rt \in [Windows -> Nat] /\ taken \in [Windows -> Nat]
  /\ idx \in Windows /\ reg \in Nat /\ sent \in Nat

(* main starts each of the nodes once, in the order of their ids, then the client. *)
MainCounts ==
  /\ mpc \in {"main", "nodes"} => next[Main] \in Ids
  /\ mpc \in {"main", "nodes", "clients"} => cpc = "off"

(* The struct that a replica of a node was started with is its own. *)
NodeHasItsArgs ==
  \A r \in Ids : rpc[NodeCore(r)] # "off" =>
    /\ arg[NodeCore(r)] = [array |-> "thr_args", of |-> Main, i |-> r]
    /\ thr_args[Main][r] = NodeArgs(r)

(* What it has made of it. *)
NodeHasItsRole ==
  \A r \in Ids :
    LET t == NodeCore(r)
    IN  /\ rpc[t] \in {"below", "loop"} => replica[t] = init_state(NodeArgs(r))
        /\ rpc[t] = "below" => setup.below = "SHM" /\ next[t] + 1 \in 1 .. NodeSize - 1

(* Only main fills in thr_args: the cores find zeros, and a null pointer. *)
CoresFindZero ==
  /\ \A t \in Threads : thr_args[t] = [i \in Slots |-> Zero]
  /\ \A t \in CoreCores :
       /\ rpc[t] # "off" => arg[t].array = "thr_args" /\ arg[t].of \in Threads
       /\ rpc[t] # "loop"
       /\ rpc[t] = "below" => crash

(* What the client was started with. *)
ClientHasItsArgs ==
  cpc # "off" => args = [leader    |-> NodeCore(client_leader(setup)),
                         recv_from |-> NodeCore(client_recv_from(setup))]

StartupInv ==
  MainCounts /\ NodeHasItsArgs /\ NodeHasItsRole /\ CoresFindZero /\ ClientHasItsArgs

(* The server, between its command and the end of its count, is one behind. *)
ServerBehind ==
  /\ srv = "load" \/ (srv = "answer" /\ "answer" \in CountPlaces) => num_reqs < executed
  /\ srv = "store" => num_reqs < executed /\ sreg < executed
  /\ srv \in {"load", "store"} /\ "answer" \in CountPlaces => req # "taken"

(* So is the client, which counts for the run in which the answer came. *)
ClientBehind ==
  /\ cpc \in {"load", "store"} => rt[idx] < taken[idx]
  /\ cpc = "store" => reg < taken[idx]

(* measure_thread counts the runs to the end before it says so. *)
MeasureCounts ==
  /\ cpc \in Before => mt = "off"
  /\ mt = "sleep" => current_run <= Runs
  /\ exit => mt = "over" /\ current_run = Runs + 1
  /\ cpc \in {"print", "done"} => exit

CountersInv ==
  MeasureTypeOK /\ ServerBehind /\ ClientBehind /\ MeasureCounts /\ CountersBounded

IInv == StartupTypeOK /\ StartupInv /\ CountersInv

------------------------------------------------------------------------------
(* The constants and the arguments *)

(* What replacing one value of a function comes to. *)
LEMMA PointUpdate ==
  ASSUME NEW S, NEW T, NEW f \in [S -> T], NEW x \in S, NEW v \in T, NEW g,
         g = [f EXCEPT ![x] = v]
  PROVE  /\ g \in [S -> T] /\ g[x] = v
         /\ \A y \in S : y # x => g[y] = f[y]
OBVIOUS

(* What the threads are called: main, the cores of the replicas, the others. *)
LEMMA ThreadFacts ==
  /\ N \in Nat /\ N >= 2 /\ NodeSize \in Nat /\ NodeSize >= 2
  /\ 0 \in Ids /\ N - 1 \in Ids /\ Ids \subseteq Nat
  /\ Ids \subseteq Slots /\ 0 .. NodeSize - 2 \subseteq Slots /\ Slots \subseteq Nat
  /\ Main \notin Threads /\ Main \in AllThreads /\ Threads \subseteq AllThreads
  /\ NodeCores \subseteq Threads /\ CoreCores \subseteq Threads
  /\ AllThreads \subseteq Nat \X Nat
  /\ \A r \in Ids : NodeCore(r) \in NodeCores /\ NodeCore(r) \in Threads
                    /\ NodeCore(r) \notin CoreCores /\ NodeCore(r) # Main
  /\ \A t \in Threads : t \in CoreCores \/ \E r \in Ids : t = NodeCore(r)
<1>1. /\ N \in Nat /\ N >= 2 /\ NodeSize \in Nat /\ NodeSize >= 2
      /\ 0 \in Ids /\ N - 1 \in Ids /\ Ids \subseteq Nat
      /\ Ids \subseteq Slots /\ 0 .. NodeSize - 2 \subseteq Slots /\ Slots \subseteq Nat
  BY SizesAssumption DEF Ids, Slots
<1>2. NodeCores = {<<r, 0>> : r \in Ids} /\ CoreCores = Ids \X (1 .. NodeSize - 1)
  BY DEF NodeCores, NodeCore, CoreCores, Ids
<1>3. N \notin Ids /\ 0 \notin 1 .. NodeSize - 1 /\ 1 .. NodeSize - 1 \subseteq Nat
  BY <1>1 DEF Ids
<1>4. /\ Main \notin Threads /\ Main \in AllThreads /\ Threads \subseteq AllThreads
      /\ NodeCores \subseteq Threads /\ CoreCores \subseteq Threads
  BY <1>2, <1>3 DEF Main, Threads, AllThreads
<1>5. AllThreads \subseteq Nat \X Nat
  <2>1. \A r \in Ids : <<r, 0>> \in Nat \X Nat
    BY <1>1
  <2>2. Ids \X (1 .. NodeSize - 1) \subseteq Nat \X Nat
    BY <1>1, <1>3
  <2>3. Main \in Nat \X Nat
    BY <1>1 DEF Main
  <2>4. NodeCores \subseteq Nat \X Nat
    BY ONLY <1>2, <2>1, Zenon
  <2>5. CoreCores \subseteq Nat \X Nat
    BY ONLY <1>2, <2>2, Zenon
  <2>. QED  BY ONLY <2>3, <2>4, <2>5, Zenon DEF AllThreads, Threads
<1>6. \A r \in Ids : NodeCore(r) \in NodeCores /\ NodeCore(r) \notin CoreCores
  BY <1>2, <1>3 DEF NodeCore
<1>7. \A t \in NodeCores : \E r \in Ids : t = NodeCore(r)
  BY <1>2 DEF NodeCore
<1>. QED  BY <1>1, <1>4, <1>5, <1>6, <1>7 DEF Threads

(* Two replicas run on two cores. *)
LEMMA NodeCoreInjective ==
  ASSUME NEW q, NEW r, NodeCore(q) = NodeCore(r)
  PROVE  q = r
BY DEF NodeCore

(* What the command line and the build may say. *)
LEMMA SetupFacts ==
  ASSUME setup \in Setups
  PROVE  /\ setup.algo \in {"1PAXOS", "TPC", "BROAD", "CHAIN", "RAFT"}
         /\ setup.below \in {"SHM", "NONE"}
         /\ setup.smlt \in BOOLEAN /\ setup.kvs \in BOOLEAN
         /\ setup.numa \in Ids /\ setup.timely \in BOOLEAN
BY SetupsAssumption DEF SetupType, Ids

(* The arguments that main fills in, and those nobody fills in. *)
LEMMA NodeArgsFacts ==
  ASSUME setup \in Setups, NEW r \in Ids
  PROVE  /\ NodeArgs(r) \in ArgsType /\ Zero \in ArgsType
         /\ NodeArgs(r).id = r /\ NodeArgs(r).num_replicas = N
         /\ NodeArgs(r).algo = setup.algo /\ NodeArgs(r).alg_below = setup.below
         /\ NodeArgs(r).level = "NODE" /\ NodeArgs(r).cores = node_cores(r)
         /\ Zero.cores = << >> /\ Zero.alg_below = "1PAXOS" /\ Zero.algo = "1PAXOS"
<1>1. NodeCore(r) \in Nat \X Nat /\ <<0, 0>> \in Nat \X Nat /\ r \in Nat /\ N \in Nat
  BY ThreadFacts
<1>2. NodeArgs(r) \in ArgsType
  <2>1. node_cores(r) \in {<< >>} \cup {node_cores(i) : i \in Ids}
    OBVIOUS
  <2>. QED  BY <1>1, <2>1, SetupFacts DEF NodeArgs, Args, ArgsType, Protocols
<1>3. Zero \in ArgsType
  BY <1>1 DEF Zero, Args, ArgsType, Protocols
<1>. QED  BY <1>2, <1>3 DEF NodeArgs, Zero, Args

(* The cores of a node, when an algorithm runs below. *)
LEMMA NodeCoresFacts ==
  ASSUME setup \in Setups, setup.below = "SHM", NEW r \in Ids
  PROVE  /\ Len(node_cores(r)) = NodeSize - 1 /\ node_cores(r) # << >>
         /\ \A j \in 1 .. NodeSize - 1 : node_cores(r)[j] = <<r, j>>
<1>1. node_cores(r) = [j \in 1 .. NodeSize - 1 |-> <<r, j>>]
  BY DEF node_cores
<1>2. NodeSize - 1 \in Nat /\ NodeSize - 1 >= 1
  BY ThreadFacts
<1>3. Len(node_cores(r)) = NodeSize - 1
  BY <1>1, <1>2
<1>4. node_cores(r) # << >>
  BY <1>2, <1>3
<1>. QED  BY <1>1, <1>3, <1>4

(* Where an algorithm runs below, a replica starts the others of its node. *)
LEMMA CoreArgsFacts ==
  ASSUME setup \in Setups, setup.below = "SHM", NEW r \in Ids,
         NEW i \in Nat, i + 1 \in 1 .. NodeSize - 1
  PROVE  /\ i \in Slots /\ Len(NodeArgs(r).cores) = NodeSize - 1
         /\ NodeArgs(r).cores[i + 1] \in CoreCores
         /\ NodeArgs(r).cores[i + 1] \in Threads
         /\ NodeArgs(r).cores[i + 1] # NodeCore(r)
         /\ CoreArgs(NodeArgs(r), i) \in ArgsType
<1>1. /\ NodeArgs(r).cores = node_cores(r) /\ NodeArgs(r).alg_below = "SHM"
      /\ Len(node_cores(r)) = NodeSize - 1 /\ node_cores(r)[i + 1] = <<r, i + 1>>
  BY NodeArgsFacts, NodeCoresFacts
<1>2. <<r, i + 1>> \in CoreCores
  BY DEF CoreCores, Ids
<1>3. <<r, i + 1>> \in Threads /\ <<r, i + 1>> # NodeCore(r) /\ <<r, i + 1>> \in Nat \X Nat
  BY <1>2, ThreadFacts
<1>4. i \in 0 .. NodeSize - 2 /\ NodeSize - 1 \in Nat
  BY ThreadFacts
<1>5. CoreArgs(NodeArgs(r), i) \in ArgsType
  BY <1>1, <1>3, <1>4 DEF CoreArgs, Args, ArgsType, Protocols
<1>. QED  BY <1>1, <1>2, <1>3, <1>4, <1>5, ThreadFacts

(* An init function makes a role of the arguments, and keeps them. *)
LEMMA InitStateFacts ==
  ASSUME NEW a \in ArgsType
  PROVE  init_state(a) \in RoleType /\ init_state(a).args = a
<1>1. ASSUME NEW p \in BOOLEAN, NEW q \in BOOLEAN, NEW s \in BOOLEAN
      PROVE  Role(a, p, q, s) \in RoleType /\ Role(a, p, q, s).args = a
  BY DEF Role, RoleType
<1>2. \E p, q, s \in BOOLEAN : init_state(a) = Role(a, p, q, s)
  <2>1. CASE a.algo = "TPC"
    <3>. DEFINE s == (a.id = 0 /\ a.level = "NODE")
    <3>1. init_state(a) = Role(a, a.id = 0, a.id = 0, s)
      BY <2>1 DEF init_state, init_replica_tpc
    <3>2. (a.id = 0) \in BOOLEAN /\ s \in BOOLEAN
      OBVIOUS
    <3>. QED  BY <3>1, <3>2, Zenon
  <2>2. CASE a.algo = "1PAXOS"
    <3>. DEFINE leader == current_leader(setup.smlt)
                learners == (0 .. N - 1) \ {leader, current_acceptor(setup.smlt)}
                q == IF setup.kvs THEN a.id \in learners ELSE a.id = leader
                s == (a.id = 0 /\ a.level = "NODE")
    <3>1. init_state(a) = Role(a, a.id = leader, q, s)
      BY <2>2 DEF init_state, init_replica_onepaxos
    <3>2. (a.id = leader) \in BOOLEAN /\ s \in BOOLEAN
      OBVIOUS
    <3>3. q \in BOOLEAN
      <4>1. CASE setup.kvs
        BY <4>1
      <4>2. CASE ~setup.kvs
        BY <4>2
      <4>. QED  BY <4>1, <4>2
    <3>. QED  BY <3>1, <3>2, <3>3, Zenon
  <2>3. CASE a.algo = "BROAD"
    BY <2>3 DEF init_state, init_replica_broadcast
  <2>4. CASE a.algo = "CHAIN"
    BY <2>4 DEF init_state, init_replica_chain
  <2>5. CASE a.algo = "RAFT"
    BY <2>5 DEF init_state, init_replica_raft
  <2>6. CASE a.algo = "SHM"
    BY <2>6 DEF init_state, init_shm_reader
  <2>7. a.algo \in Protocols
    BY DEF ArgsType
  <2>. QED  BY <2>1, <2>2, <2>3, <2>4, <2>5, <2>6, <2>7 DEF Protocols
<1>. QED  BY <1>1, <1>2

------------------------------------------------------------------------------
(* The start *)

(* A replica of a node reads what main wrote for it, a core reads zeros. *)
LEMMA ReadFacts ==
  ASSUME StartupTypeOK, NodeHasItsArgs, CoresFindZero,
         NEW t \in Threads, rpc[t] # "off"
  PROVE  /\ Read(t) \in ArgsType
         /\ t \in CoreCores => Read(t) = Zero
         /\ \A r \in Ids : t = NodeCore(r) => Read(t) = NodeArgs(r)
<1>. USE DEF StartupTypeOK
<1>1. CASE t \in CoreCores
  <2>1. PICK p : p = arg[t]
    OBVIOUS
  <2>2. p.array = "thr_args" /\ p.of \in Threads /\ p.i \in Slots
    BY <1>1, <2>1 DEF CoresFindZero, PointerType
  <2>3. thr_args[p.of][p.i] = Zero
    BY <2>2 DEF CoresFindZero
  <2>4. Read(t) = Zero
    BY <2>1, <2>2, <2>3 DEF Read
  <2>5. \A r \in Ids : t # NodeCore(r)
    BY <1>1, ThreadFacts
  <2>. QED  BY <2>4, <2>5, NodeArgsFacts, ThreadFacts
<1>2. ASSUME NEW r \in Ids, t = NodeCore(r)
      PROVE  Read(t) = NodeArgs(r) /\ Read(t) \in ArgsType
  <2>1. /\ arg[t] = [array |-> "thr_args", of |-> Main, i |-> r]
        /\ thr_args[Main][r] = NodeArgs(r)
    BY <1>2 DEF NodeHasItsArgs
  <2>2. Read(t) = NodeArgs(r)
    BY <2>1 DEF Read
  <2>. QED  BY <2>2, NodeArgsFacts
<1>. QED  BY <1>1, <1>2, ThreadFacts

(* Only a replica of a node gets to start others. *)
LEMMA StarterFacts ==
  ASSUME StartupTypeOK, NodeHasItsRole, CoresFindZero, ~crash,
         NEW t \in Threads, rpc[t] = "below"
  PROVE  \E r \in Ids : /\ t = NodeCore(r) /\ replica[t].args = NodeArgs(r)
                        /\ setup.below = "SHM" /\ next[t] + 1 \in 1 .. NodeSize - 1
<1>1. PICK r \in Ids : t = NodeCore(r)
  BY ThreadFacts DEF CoresFindZero
<1>2. /\ replica[t] = init_state(NodeArgs(r))
      /\ setup.below = "SHM" /\ next[t] + 1 \in 1 .. NodeSize - 1
  BY <1>1 DEF NodeHasItsRole
<1>3. init_state(NodeArgs(r)).args = NodeArgs(r)
  BY NodeArgsFacts, InitStateFacts DEF StartupTypeOK
<1>. QED  BY <1>1, <1>2, <1>3

(* The initial states. *)
LEMMA StartupInit == Init => StartupTypeOK /\ StartupInv
<1>. SUFFICES ASSUME Init PROVE StartupTypeOK /\ StartupInv
  OBVIOUS
<1>1. setup \in Setups /\ Zero \in ArgsType
  BY ThreadFacts, NodeArgsFacts DEF Init
<1>2. NoPointer \in PointerType /\ Off \in RoleType
  BY <1>1, ThreadFacts DEF NoPointer, PointerType, Off, RoleType
<1>3. [leader |-> Main, recv_from |-> Main] \in [leader : Nat \X Nat, recv_from : Nat \X Nat]
  BY ThreadFacts
<1>4. StartupTypeOK
  BY <1>1, <1>2, <1>3
     DEF Init, StartupTypeOK, AllThreads, Ids, ThreadPCs, ClientPCs, Before
<1>5. MainCounts
  BY ThreadFacts DEF Init, MainCounts, AllThreads
<1>6. \A t \in Threads : rpc[t] = "off" /\ thr_args[t] = [i \in Slots |-> Zero]
  BY DEF Init
<1>. QED  BY <1>4, <1>5, <1>6, ThreadFacts
          DEF Init, StartupInv, NodeHasItsArgs, NodeHasItsRole, CoresFindZero, ClientHasItsArgs

(* What follows from the setup does not change, as it does not. *)
LEMMA SetupFrame ==
  ASSUME UNCHANGED setup
  PROVE  /\ ArgsType' = ArgsType /\ RoleType' = RoleType
         /\ \A r : NodeArgs(r)' = NodeArgs(r)
         /\ \A a : init_state(a)' = init_state(a)
         /\ client_leader(setup)' = client_leader(setup)
         /\ client_recv_from(setup)' = client_recv_from(setup)
         /\ CountPlaces' = CountPlaces
<1>1. \A r : node_cores(r)' = node_cores(r)
  BY DEF node_cores
<1>2. ArgsType' = ArgsType
  BY <1>1 DEF ArgsType
<1>3. RoleType' = RoleType
  BY <1>2 DEF RoleType
<1>4. \A r : NodeArgs(r)' = NodeArgs(r)
  BY <1>1 DEF NodeArgs
<1>5. \A a : init_replica_onepaxos(a)' = init_replica_onepaxos(a)
  BY DEF init_replica_onepaxos
<1>6. \A a : init_state(a)' = init_state(a)
  BY <1>5 DEF init_state
<1>. QED  BY <1>2, <1>3, <1>4, <1>6 DEF client_leader, client_recv_from, CountPlaces

(* What main has not written and no replica has read is as it was. *)
LEMMA SameForNodes ==
  ASSUME StartupInv, UNCHANGED <<setup, next, thr_args, arg, rpc, replica>>, crash => crash'
  PROVE  NodeHasItsArgs' /\ NodeHasItsRole' /\ CoresFindZero'
<1>1. NodeHasItsArgs' /\ NodeHasItsRole'
  BY SetupFrame DEF StartupInv, NodeHasItsArgs, NodeHasItsRole
<1>. QED  BY <1>1 DEF StartupInv, CoresFindZero

(* Nor has the client been started anew. *)
LEMMA SameForClient ==
  ASSUME StartupInv, UNCHANGED <<setup, args>>, cpc' # "off" => cpc # "off"
  PROVE  ClientHasItsArgs'
BY SetupFrame DEF StartupInv, ClientHasItsArgs

(* main has not started anything yet. *)
LEMMA MainStart ==
  ASSUME StartupTypeOK, StartupInv, main_start
  PROVE  StartupTypeOK' /\ StartupInv'
<1>. USE SetupFrame DEF main_start
<1>1. StartupTypeOK'
  BY DEF StartupTypeOK
<1>2. MainCounts'
  BY DEF MainCounts, StartupInv
<1>. QED  BY <1>1, <1>2, SameForNodes, SameForClient DEF StartupInv

(* main starts replica i with a struct of its own. *)
LEMMA NodeStart ==
  ASSUME StartupTypeOK, StartupInv, init_protocol_node
  PROVE  StartupTypeOK' /\ StartupInv'
<1>. DEFINE i == next[Main]
            p == [array |-> "thr_args", of |-> Main, i |-> i]
<1>1. /\ i \in Ids /\ i + 1 \in Nat /\ i \in Slots /\ NodeCore(i) \in Threads
      /\ Main \in AllThreads /\ NodeArgs(i) \in ArgsType /\ p \in PointerType
  <2>1. i \in Ids
    BY DEF init_protocol_node, StartupInv, MainCounts
  <2>2. i \in Nat /\ i \in Slots /\ Main \in AllThreads
    BY <2>1, ThreadFacts
  <2>3. NodeArgs(i) \in ArgsType
    BY <2>1, NodeArgsFacts DEF StartupTypeOK
  <2>4. p \in PointerType
    BY <2>2 DEF PointerType
  <2>. QED  BY <2>1, <2>2, <2>3, <2>4, ThreadFacts
<1>2. /\ mpc = "nodes" /\ mpc' = IF i = N - 1 THEN "clients" ELSE "nodes"
      /\ thr_args' = [thr_args EXCEPT ![Main][i] = NodeArgs(i)]
      /\ arg' = [arg EXCEPT ![NodeCore(i)] = p]
      /\ rpc' = [rpc EXCEPT ![NodeCore(i)] = "started"]
      /\ next' = [next EXCEPT ![Main] = i + 1]
      /\ UNCHANGED <<setup, thr_args2, replica, kvs_memory, crash, args, cpc>>
  BY DEF init_protocol_node, Start, NodeSlot
<1>. HIDE DEF i, p
<1>3. /\ thr_args' \in [AllThreads -> [Slots -> ArgsType]]
      /\ \A t \in Threads : thr_args'[t] = thr_args[t]
      /\ thr_args'[Main][i] = NodeArgs(i)
      /\ \A r \in Ids : r # i => thr_args'[Main][r] = thr_args[Main][r]
  BY <1>1, <1>2, ThreadFacts DEF StartupTypeOK
<1>4. /\ arg' \in [Threads -> PointerType] /\ arg'[NodeCore(i)] = p
      /\ \A t \in Threads : t # NodeCore(i) => arg'[t] = arg[t]
  BY <1>1, <1>2 DEF StartupTypeOK
<1>5. /\ rpc' \in [Threads -> ThreadPCs] /\ rpc'[NodeCore(i)] = "started"
      /\ \A t \in Threads : t # NodeCore(i) => rpc'[t] = rpc[t]
  BY <1>1, <1>2 DEF StartupTypeOK, ThreadPCs
<1>6. /\ next' \in [AllThreads -> Nat] /\ next'[Main] = i + 1
      /\ \A t \in Threads : next'[t] = next[t]
  BY <1>1, <1>2, ThreadFacts DEF StartupTypeOK
<1>7. StartupTypeOK'
  BY <1>2, <1>3, <1>4, <1>5, <1>6, SetupFrame DEF StartupTypeOK
<1>8. MainCounts'
  <2>1. cpc = "off"
    BY <1>2 DEF StartupInv, MainCounts
  <2>2. i # N - 1 => i + 1 \in Ids
    BY <1>1, ThreadFacts DEF Ids
  <2>. QED  BY <1>2, <1>6, <2>1, <2>2 DEF MainCounts
<1>9. NodeHasItsArgs'
  <2>. SUFFICES ASSUME NEW r \in Ids, rpc'[NodeCore(r)] # "off"
                PROVE  /\ arg'[NodeCore(r)] = [array |-> "thr_args", of |-> Main, i |-> r]
                       /\ thr_args'[Main][r] = NodeArgs(r)
    BY <1>2, SetupFrame DEF NodeHasItsArgs
  <2>1. CASE r = i
    BY <1>3, <1>4, <2>1 DEF p
  <2>2. CASE r # i
    <3>1. NodeCore(r) # NodeCore(i) /\ NodeCore(r) \in Threads
      BY <2>2, NodeCoreInjective, ThreadFacts
    <3>2. rpc[NodeCore(r)] # "off"
      BY <1>5, <3>1
    <3>3. /\ arg[NodeCore(r)] = [array |-> "thr_args", of |-> Main, i |-> r]
          /\ thr_args[Main][r] = NodeArgs(r)
      BY <3>2 DEF StartupInv, NodeHasItsArgs
    <3>. QED  BY <1>3, <1>4, <2>2, <3>1, <3>3
  <2>. QED  BY <2>1, <2>2
<1>10. NodeHasItsRole'
  <2>1. \A r \in Ids : /\ next'[NodeCore(r)] = next[NodeCore(r)]
                       /\ rpc'[NodeCore(r)] \in {"below", "loop"} =>
                            rpc'[NodeCore(r)] = rpc[NodeCore(r)]
    BY <1>5, <1>6, ThreadFacts
  <2>. QED  BY <1>2, <2>1, SetupFrame DEF StartupInv, NodeHasItsRole
<1>11. CoresFindZero'
  <2>1. \A t \in CoreCores : rpc'[t] = rpc[t] /\ arg'[t] = arg[t]
    BY <1>1, <1>4, <1>5, ThreadFacts
  <2>2. CoresFindZero
    BY DEF StartupInv
  <2>3. \A t \in Threads : thr_args'[t] = [j \in Slots |-> Zero]
    BY ONLY <1>3, <2>2, Zenon DEF CoresFindZero
  <2>4. crash' = crash
    BY <1>2
  <2>5. \A t \in CoreCores :
          /\ rpc'[t] # "off" => arg'[t].array = "thr_args" /\ arg'[t].of \in Threads
          /\ rpc'[t] # "loop"
          /\ rpc'[t] = "below" => crash'
    BY ONLY <2>1, <2>2, <2>4, Zenon DEF CoresFindZero
  <2>. QED  BY ONLY <2>3, <2>5, Zenon DEF CoresFindZero
<1>. QED  BY <1>2, <1>7, <1>8, <1>9, <1>10, <1>11, SameForClient DEF StartupInv

(* main starts the client. *)
LEMMA ClientsStart ==
  ASSUME StartupTypeOK, StartupInv, consensus_bench_clients_init
  PROVE  StartupTypeOK' /\ StartupInv'
<1>. USE SetupFrame DEF consensus_bench_clients_init
<1>1. \A n \in Nat : NodeCore(n) \in Nat \X Nat
  BY DEF NodeCore
<1>2. client_leader(setup) \in Nat /\ client_recv_from(setup) \in Nat
  BY SetupFacts, ThreadFacts DEF StartupTypeOK, client_leader, client_recv_from
<1>3. args' \in [leader : Nat \X Nat, recv_from : Nat \X Nat]
  BY <1>1, <1>2
<1>4. StartupTypeOK'
  BY <1>3 DEF StartupTypeOK, ClientPCs, Before
<1>5. MainCounts' /\ ClientHasItsArgs'
  BY DEF MainCounts, ClientHasItsArgs
<1>. QED  BY <1>4, <1>5, SameForNodes DEF StartupInv

(* A replica allocates its table. *)
LEMMA KvsStart ==
  ASSUME StartupTypeOK, StartupInv, NEW t \in Threads, init_kvs_replica(t)
  PROVE  StartupTypeOK' /\ StartupInv'
<1>1. /\ rpc[t] = "started" /\ rpc' = [rpc EXCEPT ![t] = "init"]
      /\ UNCHANGED <<setup, mpc, next, thr_args, thr_args2, arg, replica, crash, args, cpc>>
  BY DEF init_kvs_replica
<1>2. kvs_memory' \in [Ids -> BOOLEAN]
  BY DEF StartupTypeOK, init_kvs_replica
<1>3. /\ rpc' \in [Threads -> ThreadPCs] /\ rpc'[t] = "init"
      /\ \A u \in Threads : u # t => rpc'[u] = rpc[u]
  BY <1>1 DEF StartupTypeOK, ThreadPCs
<1>4. StartupTypeOK'
  BY <1>1, <1>2, <1>3, SetupFrame DEF StartupTypeOK
<1>5. MainCounts'
  BY <1>1 DEF StartupInv, MainCounts
<1>6. \A u \in Threads : /\ rpc'[u] # "off" => rpc[u] # "off"
                         /\ rpc'[u] \in {"below", "loop"} => rpc'[u] = rpc[u]
  BY <1>1, <1>3
<1>7. NodeHasItsArgs' /\ NodeHasItsRole'
  BY <1>1, <1>6, ThreadFacts, SetupFrame DEF StartupInv, NodeHasItsArgs, NodeHasItsRole
<1>8. CoresFindZero'
  BY <1>1, <1>6, ThreadFacts DEF StartupInv, CoresFindZero
<1>. QED  BY <1>1, <1>4, <1>5, <1>7, <1>8, SameForClient DEF StartupInv

(***************************************************************************)
(* A replica reads its arguments: one of a node finds its own, and starts  *)
(* with the first core; any other finds zeros, and follows a null pointer. *)
(***************************************************************************)
LEMMA ReplicaInitialised ==
  ASSUME StartupTypeOK, StartupInv, ~crash, NEW t \in Threads, init_replica(t)
  PROVE  StartupTypeOK' /\ StartupInv'
<1>. DEFINE a == Read(t)
            place == IF StartsBelow(a) THEN "below" ELSE "loop"
            first == IF Len(a.cores) > 1 THEN 1 ELSE 0
<1>1. rpc[t] \in {"started", "init"} /\ rpc[t] # "off"
  BY DEF init_replica
<1>2. /\ a \in ArgsType
      /\ t \in CoreCores => a = Zero
      /\ \A r \in Ids : t = NodeCore(r) => a = NodeArgs(r)
  BY <1>1, ReadFacts DEF StartupInv
<1>3. /\ replica' = [replica EXCEPT ![t] = init_state(a)]
      /\ rpc' = [rpc EXCEPT ![t] = place]
      /\ next' = [next EXCEPT ![t] = first]
      /\ crash' = (StartsBelow(a) /\ a.cores = << >>)
      /\ UNCHANGED <<setup, mpc, thr_args, thr_args2, arg, kvs_memory, args, cpc>>
  BY DEF init_replica
<1>4. place \in {"below", "loop"} /\ first \in {0, 1}
  OBVIOUS
<1>5. init_state(a) \in RoleType
  BY <1>2, InitStateFacts
<1>6. /\ t \in CoreCores => place = "below" /\ crash'
      /\ \A r \in Ids : t = NodeCore(r) /\ place = "below" =>
           setup.below = "SHM" /\ first + 1 \in 1 .. NodeSize - 1
  <2>1. StartsBelow(Zero) /\ Zero.cores = << >>
    BY NodeArgsFacts, ThreadFacts DEF StartsBelow, StartupTypeOK
  <2>2. ASSUME NEW r \in Ids, t = NodeCore(r), place = "below"
        PROVE  setup.below = "SHM" /\ first + 1 \in 1 .. NodeSize - 1
    <3>1. a = NodeArgs(r) /\ setup.below = "SHM"
      BY <1>2, <2>2, NodeArgsFacts, SetupFacts DEF StartsBelow, StartupTypeOK
    <3>2. Len(a.cores) = NodeSize - 1
      BY <3>1, NodeArgsFacts, NodeCoresFacts DEF StartupTypeOK
    <3>. QED  BY <3>1, <3>2, ThreadFacts
  <2>. QED  BY <1>2, <1>3, <2>1, <2>2
<1>. HIDE DEF place, first, a
<1>7. /\ replica' \in [Threads -> RoleType] /\ replica'[t] = init_state(a)
      /\ \A u \in Threads : u # t => replica'[u] = replica[u]
  BY <1>3, <1>5 DEF StartupTypeOK
<1>8. /\ rpc' \in [Threads -> ThreadPCs] /\ rpc'[t] = place
      /\ \A u \in Threads : u # t => rpc'[u] = rpc[u]
  BY <1>3, <1>4 DEF StartupTypeOK, ThreadPCs
<1>9. /\ next' \in [AllThreads -> Nat] /\ next'[t] = first /\ next'[Main] = next[Main]
      /\ \A u \in Threads : u # t => next'[u] = next[u]
  <2>1. /\ next \in [AllThreads -> Nat] /\ t \in AllThreads
        /\ Main \in AllThreads /\ Main # t
        /\ \A u \in Threads : u \in AllThreads
    BY ThreadFacts DEF StartupTypeOK
  <2>2. first \in Nat /\ next' = [next EXCEPT ![t] = first]
    BY <1>3, <1>4
  <2>3. /\ next' \in [AllThreads -> Nat] /\ next'[t] = first
        /\ \A u \in AllThreads : u # t => next'[u] = next[u]
    BY ONLY <2>1, <2>2, PointUpdate, Zenon
  <2>. QED  BY ONLY <2>1, <2>3, Zenon
<1>10. StartupTypeOK'
  BY <1>3, <1>7, <1>8, <1>9, SetupFrame DEF StartupTypeOK
<1>11. MainCounts'
  BY <1>3, <1>9 DEF StartupInv, MainCounts
<1>12. NodeHasItsArgs'
  <2>1. \A r \in Ids : rpc'[NodeCore(r)] # "off" => rpc[NodeCore(r)] # "off"
    BY <1>1, <1>8, ThreadFacts
  <2>. QED  BY <1>3, <2>1, SetupFrame DEF StartupInv, NodeHasItsArgs
<1>13. NodeHasItsRole'
  <2>1. ASSUME NEW r \in Ids
        PROVE  LET u == NodeCore(r)
               IN  /\ rpc'[u] \in {"below", "loop"} => replica'[u] = init_state(NodeArgs(r))
                   /\ rpc'[u] = "below" => setup.below = "SHM"
                                           /\ next'[u] + 1 \in 1 .. NodeSize - 1
    <3>1. CASE NodeCore(r) = t
      BY <1>2, <1>6, <1>7, <1>8, <1>9, <3>1
    <3>2. CASE NodeCore(r) # t
      BY <1>7, <1>8, <1>9, <3>2, ThreadFacts DEF StartupInv, NodeHasItsRole
    <3>. QED  BY <3>1, <3>2
  <2>. QED  BY <1>3, <2>1, SetupFrame DEF NodeHasItsRole
<1>14. CoresFindZero'
  <2>1. ASSUME NEW u \in CoreCores
        PROVE  /\ rpc'[u] # "off" => rpc[u] # "off"
               /\ rpc'[u] # "loop" /\ (rpc'[u] = "below" => crash')
    <3>1. CASE u = t
      BY <1>1, <1>6, <1>8, <3>1
    <3>2. CASE u # t
      <4>1. rpc'[u] = rpc[u] /\ rpc[u] # "loop" /\ rpc[u] # "below"
        BY <1>8, <3>2, ThreadFacts DEF StartupInv, CoresFindZero
      <4>. QED  BY <4>1
    <3>. QED  BY <3>1, <3>2
  <2>. QED  BY <1>3, <2>1 DEF StartupInv, CoresFindZero
<1>. QED  BY <1>3, <1>10, <1>11, <1>12, <1>13, <1>14, SameForClient DEF StartupInv

(* A replica of a node starts a core of its node, with a pointer to zeros. *)
LEMMA CoreStart ==
  ASSUME StartupTypeOK, StartupInv, ~crash, NEW t \in Threads, init_protocol_core(t)
  PROVE  StartupTypeOK' /\ StartupInv'
<1>. DEFINE a == replica[t].args
            i == next[t]
            core == a.cores[i + 1]
            place == IF i = 0 THEN "loop" ELSE "below"
            after == IF i = Len(a.cores) - 1 THEN 0 ELSE i + 1
            p == CorePointer(t, i)
<1>1. rpc[t] = "below"
  BY DEF init_protocol_core
<1>2. PICK r \in Ids : /\ t = NodeCore(r) /\ a = NodeArgs(r)
                       /\ setup.below = "SHM" /\ i + 1 \in 1 .. NodeSize - 1
  BY <1>1, StarterFacts DEF StartupInv
<1>3. i \in Nat /\ t \in AllThreads
  BY ThreadFacts DEF StartupTypeOK
<1>4. /\ i \in Slots /\ Len(a.cores) = NodeSize - 1
      /\ core \in CoreCores /\ core \in Threads /\ core # t
      /\ CoreArgs(a, i) \in ArgsType
  BY <1>2, <1>3, CoreArgsFacts DEF StartupTypeOK
<1>5. /\ after \in Nat /\ after + 1 \in 1 .. NodeSize - 1 /\ place \in {"loop", "below"}
  <2>1. i \in Nat /\ i + 1 <= NodeSize - 1 /\ NodeSize \in Nat /\ NodeSize >= 2
    BY <1>2, <1>3, ThreadFacts
  <2>2. after = IF i = (NodeSize - 1) - 1 THEN 0 ELSE i + 1
    BY <1>4
  <2>. HIDE DEF i, after
  <2>3. after \in Nat /\ after + 1 \in 1 .. NodeSize - 1
    BY <2>1, <2>2
  <2>. QED  BY <2>3
<1>6. p \in PointerType /\ p.array = "thr_args" /\ p.of \in Threads
  BY <1>3, <1>4 DEF CorePointer, PointerType
<1>7. /\ thr_args2' = [thr_args2 EXCEPT ![t][i] = CoreArgs(a, i)]
      /\ arg' = [arg EXCEPT ![core] = p]
      /\ rpc' = [rpc EXCEPT ![core] = "started", ![t] = place]
      /\ next' = [next EXCEPT ![t] = after]
      /\ UNCHANGED <<setup, mpc, thr_args, replica, kvs_memory, crash, args, cpc>>
  BY DEF init_protocol_core
<1>. HIDE DEF a, i, core, place, after, p
<1>8. thr_args2' \in [AllThreads -> [Slots -> ArgsType]]
  BY <1>3, <1>4, <1>7 DEF StartupTypeOK
<1>9. /\ arg' \in [Threads -> PointerType] /\ arg'[core] = p
      /\ \A u \in Threads : u # core => arg'[u] = arg[u]
  BY <1>4, <1>6, <1>7 DEF StartupTypeOK
<1>10. /\ rpc' \in [Threads -> ThreadPCs] /\ rpc'[core] = "started" /\ rpc'[t] = place
       /\ \A u \in Threads : u # core /\ u # t => rpc'[u] = rpc[u]
  BY <1>4, <1>5, <1>7 DEF StartupTypeOK, ThreadPCs
<1>11. /\ next' \in [AllThreads -> Nat] /\ next'[t] = after /\ next'[Main] = next[Main]
       /\ \A u \in Threads : u # t => next'[u] = next[u]
  BY <1>3, <1>5, <1>7, ThreadFacts DEF StartupTypeOK
<1>12. StartupTypeOK'
  BY <1>7, <1>8, <1>9, <1>10, <1>11, SetupFrame DEF StartupTypeOK
<1>13. MainCounts'
  BY <1>7, <1>11 DEF StartupInv, MainCounts
<1>14. \A q \in Ids : NodeCore(q) \in Threads /\ NodeCore(q) # core
  BY <1>4, ThreadFacts
<1>15. NodeHasItsArgs'
  <2>1. \A q \in Ids : /\ rpc'[NodeCore(q)] # "off" => rpc[NodeCore(q)] # "off"
                       /\ arg'[NodeCore(q)] = arg[NodeCore(q)]
    BY <1>1, <1>9, <1>10, <1>14
  <2>. QED  BY <1>7, <2>1, SetupFrame DEF StartupInv, NodeHasItsArgs
<1>16. NodeHasItsRole'
  <2>1. ASSUME NEW q \in Ids
        PROVE  LET u == NodeCore(q)
               IN  /\ rpc'[u] \in {"below", "loop"} => replica[u] = init_state(NodeArgs(q))
                   /\ rpc'[u] = "below" => setup.below = "SHM"
                                           /\ next'[u] + 1 \in 1 .. NodeSize - 1
    <3>1. CASE NodeCore(q) = t
      BY <1>1, <1>2, <1>5, <1>11, <3>1 DEF StartupInv, NodeHasItsRole
    <3>2. CASE NodeCore(q) # t
      BY <1>10, <1>11, <1>14, <3>2 DEF StartupInv, NodeHasItsRole
    <3>. QED  BY <3>1, <3>2
  <2>. QED  BY <1>7, <2>1, SetupFrame DEF NodeHasItsRole
<1>17. CoresFindZero'
  <2>1. ASSUME NEW u \in CoreCores
        PROVE  /\ rpc'[u] # "off" => arg'[u].array = "thr_args" /\ arg'[u].of \in Threads
               /\ rpc'[u] # "loop" /\ rpc'[u] # "below"
    <3>1. CASE u = core
      BY <1>6, <1>9, <1>10, <3>1
    <3>2. CASE u # core
      <4>1. u \in Threads /\ u # t
        BY <1>2, ThreadFacts
      <4>2. rpc'[u] = rpc[u] /\ arg'[u] = arg[u]
        BY <1>9, <1>10, <3>2, <4>1
      <4>. QED  BY <4>2 DEF StartupInv, CoresFindZero
    <3>. QED  BY <3>1, <3>2
  <2>. QED  BY <1>7, <2>1 DEF StartupInv, CoresFindZero
<1>. QED  BY <1>7, <1>12, <1>13, <1>15, <1>16, <1>17, SameForClient DEF StartupInv

(* A step of the client alone, which it takes once it is started, or none. *)
LEMMA ClientAlone ==
  ASSUME StartupTypeOK, StartupInv, cpc' \in ClientPCs, cpc' # "off" => cpc # "off",
         crash' \in BOOLEAN, crash => crash',
         UNCHANGED <<setup, mpc, next, thr_args, thr_args2, arg, rpc, replica,
                     kvs_memory, args>>
  PROVE  StartupTypeOK' /\ StartupInv'
<1>1. StartupTypeOK'
  BY SetupFrame DEF StartupTypeOK
<1>2. MainCounts'
  BY DEF StartupInv, MainCounts
<1>. QED  BY <1>1, <1>2, SameForNodes, SameForClient DEF StartupInv

(* The steps of the start of the program keep its invariant. *)
LEMMA StartupStepInv ==
  ASSUME StartupTypeOK, StartupInv, ~crash, Starting
  PROVE  StartupTypeOK' /\ StartupInv'
<1>1. CASE MainStep
  BY <1>1, MainStart, NodeStart, ClientsStart DEF MainStep
<1>2. ASSUME NEW t \in Threads, ReplicaStart(t)
      PROVE  StartupTypeOK' /\ StartupInv'
  BY <1>2, KvsStart, ReplicaInitialised, CoreStart DEF ReplicaStart
<1>3. CASE init_consensus_client
  <2>1. crash' \in BOOLEAN
    BY <1>3, SetupFacts DEF init_consensus_client, StartupTypeOK
  <2>. QED  BY <1>3, <2>1, ClientAlone DEF init_consensus_client, ClientPCs, Before
<1>4. CASE handle_setup
  BY <1>4, ClientAlone DEF handle_setup, ClientPCs, Before, StartupTypeOK
<1>. QED  BY <1>1, <1>2, <1>3, <1>4 DEF Starting, ClientStart

(***************************************************************************)
(* A replica in its loop has the arguments that the configuration gives    *)
(* it, and the roles that it works out from them are those the client was  *)
(* told: by cases of the protocol, and of the build for 1Paxos.            *)
(***************************************************************************)
LEMMA RolesFromArgs == StartupTypeOK /\ StartupInv => RolesAgree
<1>. SUFFICES ASSUME StartupTypeOK, StartupInv, NEW r \in Ids, rpc[NodeCore(r)] = "loop"
              PROVE  LET t == NodeCore(r)
                     IN  /\ replica[t].args = NodeArgs(r)
                         /\ cpc # "off" =>
                              /\ args.leader = t <=> replica[t].polls
                              /\ args.recv_from = t => replica[t].answers
                              /\ replica[t].answers => args.recv_from = t \/ setup.kvs
  BY DEF RolesAgree, Ids
<1>. DEFINE a == NodeArgs(r)
<1>1. /\ replica[NodeCore(r)] = init_state(a)
      /\ cpc # "off" => args.leader = NodeCore(client_leader(setup))
                        /\ args.recv_from = NodeCore(client_recv_from(setup))
  BY DEF StartupInv, NodeHasItsRole, ClientHasItsArgs
<1>2. /\ a \in ArgsType /\ a.id = r /\ a.num_replicas = N /\ a.algo = setup.algo
  BY NodeArgsFacts DEF StartupTypeOK
<1>3. init_state(a).args = a
  BY <1>2, InitStateFacts
<1>4. /\ client_leader(setup) = r <=> init_state(a).polls
      /\ client_recv_from(setup) = r => init_state(a).answers
      /\ init_state(a).answers => client_recv_from(setup) = r \/ setup.kvs
  <2>1. /\ setup.algo \in {"1PAXOS", "TPC", "BROAD", "CHAIN", "RAFT"}
        /\ setup.smlt \in BOOLEAN /\ setup.kvs \in BOOLEAN /\ setup.numa \in Ids
    BY SetupFacts DEF StartupTypeOK
  <2>. HIDE DEF a
  <2>2. CASE setup.algo = "TPC"
    BY <1>2, <2>2 DEF init_state, init_replica_tpc, Role, client_leader, client_recv_from
  <2>3. CASE setup.algo = "BROAD"
    BY <1>2, <2>3 DEF init_state, init_replica_broadcast, Role, client_leader, client_recv_from
  <2>4. CASE setup.algo = "CHAIN"
    BY <1>2, <2>4 DEF init_state, init_replica_chain, Role, client_leader, client_recv_from
  <2>5. CASE setup.algo = "RAFT"
    BY <1>2, <2>5 DEF init_state, init_replica_raft, Role, client_leader, client_recv_from
  <2>6. CASE setup.algo = "1PAXOS"
    <3>. DEFINE leader == current_leader(setup.smlt)
                learners == (0 .. N - 1) \ {leader, current_acceptor(setup.smlt)}
    <3>1. /\ init_state(a).polls = (r = leader)
          /\ init_state(a).answers = IF setup.kvs THEN r \in learners ELSE r = leader
      BY <1>2, <2>6 DEF init_state, init_replica_onepaxos, Role
    <3>2. client_leader(setup) = leader
      BY <2>1, <2>6 DEF client_leader, current_leader
    <3>3. CASE ~setup.kvs
      BY <2>6, <3>1, <3>2, <3>3 DEF client_recv_from
    <3>4. CASE setup.kvs
      <4>1. {leader, current_acceptor(setup.smlt)} = {0, 1}
        BY <2>1 DEF current_leader, current_acceptor
      <4>2. r \in learners <=> r # 0 /\ r # 1
        BY <4>1 DEF Ids
      <4>3. client_recv_from(setup) # 0 /\ client_recv_from(setup) # 1
        BY <2>1, <2>6, <3>4, ThreadFacts DEF client_recv_from
      <4>. QED  BY <3>1, <3>2, <3>4, <4>2, <4>3
    <3>. QED  BY <3>3, <3>4
  <2>. QED  BY <2>1, <2>2, <2>3, <2>4, <2>5, <2>6
<1>5. \A q : NodeCore(q) = NodeCore(r) <=> q = r
  BY NodeCoreInjective
<1>. QED  BY <1>1, <1>3, <1>4, <1>5

------------------------------------------------------------------------------
(* The counters *)

(* There is a window for each run, and the first is number 0. *)
LEMMA WindowFacts ==
  /\ Runs \in Nat /\ Runs >= 1 /\ Windows \subseteq Nat
  /\ 0 \in Windows /\ Runs + 1 \in Windows
  /\ \A w \in Windows : w <= Runs => w + 1 \in Windows
  /\ \A w \in Windows : w > Runs => w = Runs + 1
BY BenchmarkAssumption DEF Windows

(* Nobody has counted anything in the beginning. *)
LEMMA CountersInit == BenchmarkInit => CountersInv
<1>. SUFFICES ASSUME BenchmarkInit PROVE CountersInv
  OBVIOUS
<1>. USE DEF BenchmarkInit
<1>1. MeasureTypeOK
  BY WindowFacts DEF MeasureTypeOK, Windows
<1>2. cpc = "off"
  BY DEF Init
<1>3. CountersBounded
  BY <1>1 DEF CountersBounded, Windows, MeasureTypeOK
<1>. QED  BY <1>1, <1>2, <1>3
          DEF CountersInv, ServerBehind, ClientBehind, MeasureCounts

(* The start of the program counts nothing. *)
LEMMA CountersStartup ==
  ASSUME CountersInv, StartupInv, StartupStep
  PROVE  CountersInv'
<1>1. UNCHANGED <<setup, req, srv, num_reqs, sreg, executed, rpl, runs, run_res, mt,
                  current_run, exit, rt, idx, reg, sent, taken>>
  BY DEF StartupStep, Starting, MainStep, ReplicaStart, ClientStart, main_start,
         init_protocol_node, consensus_bench_clients_init, init_kvs_replica, init_replica,
         init_protocol_core, init_consensus_client, handle_setup, benchVars, serverVars,
         resultsVars, measureVars, clientVars
<1>2. \/ cpc' = cpc
      \/ mpc = "clients" /\ cpc' = "started"
      \/ cpc \in {"started", "joining"} /\ cpc' \in {"joining", "joined"}
  BY DEF StartupStep, Starting, MainStep, ReplicaStart, ClientStart, main_start,
         init_protocol_node, consensus_bench_clients_init, init_kvs_replica, init_replica,
         init_protocol_core, init_consensus_client, handle_setup
<1>3. /\ cpc' \in Before <=> cpc \in Before
      /\ cpc' \in {"load", "store", "print", "done"} => cpc' = cpc
  <2>1. CASE cpc' = cpc
    BY <2>1
  <2>2. CASE mpc = "clients" /\ cpc' = "started"
    BY <2>2 DEF StartupInv, MainCounts, Before
  <2>3. CASE cpc \in {"started", "joining"} /\ cpc' \in {"joining", "joined"}
    BY <2>3 DEF Before
  <2>. QED  BY <1>2, <2>1, <2>2, <2>3
<1>4. MeasureTypeOK' /\ CountersBounded'
  BY <1>1 DEF CountersInv, MeasureTypeOK, CountersBounded
<1>5. ServerBehind'
  BY <1>1, SetupFrame DEF CountersInv, ServerBehind
<1>6. ClientBehind' /\ MeasureCounts'
  BY <1>1, <1>3 DEF CountersInv, ClientBehind, MeasureCounts
<1>. QED  BY <1>4, <1>5, <1>6 DEF CountersInv

(* The steps of the server. *)
LEMMA CountersServer ==
  ASSUME CountersInv, ServerStep
  PROVE  CountersInv'
<1>1. UNCHANGED <<startupVars, rpl, runs, run_res, mt, current_run, exit, rt, idx, reg,
                  sent, taken>>
  BY DEF ServerStep, handle_request, respond, num_reqs_load, num_reqs_store,
         resultsVars, measureVars, clientVars
<1>2. UNCHANGED <<setup, cpc>> /\ CountPlaces' = CountPlaces
  BY <1>1, SetupFrame DEF startupVars
<1>3. /\ num_reqs \in Nat /\ sreg \in Nat /\ executed \in Nat /\ num_reqs <= executed
      /\ run_res \in [Windows -> Nat]
      /\ \A w \in Windows : run_res[w] \in Nat /\ run_res[w] <= executed
  BY DEF CountersInv, MeasureTypeOK, CountersBounded, Windows
<1>4. ClientBehind' /\ MeasureCounts'
  BY <1>1, <1>2 DEF CountersInv, ClientBehind, MeasureCounts
<1>5. /\ executed' \in Nat /\ executed <= executed'
      /\ num_reqs' \in Nat /\ sreg' \in Nat /\ num_reqs' <= executed'
      /\ req' \in {"none", "sent", "taken", "answered"}
      /\ srv' \in {"poll", "answer", "load", "store"}
      /\ ServerBehind'
  <2>0. /\ req \in {"none", "sent", "taken", "answered"}
        /\ CountPlaces = {"request"} \/ CountPlaces = {"answer"}
    BY DEF CountersInv, MeasureTypeOK, CountPlaces
  <2>1. CASE handle_request
    BY <1>2, <1>3, <2>0, <2>1 DEF handle_request, ServerBehind
  <2>2. CASE respond
    BY <1>2, <1>3, <2>0, <2>2 DEF respond, ServerBehind, CountersInv
  <2>3. CASE num_reqs_load
    BY <1>2, <1>3, <2>0, <2>3 DEF num_reqs_load, ServerBehind, CountersInv
  <2>4. CASE num_reqs_store
    BY <1>2, <1>3, <2>0, <2>4 DEF num_reqs_store, ServerBehind, CountersInv
  <2>. QED  BY <2>1, <2>2, <2>3, <2>4 DEF ServerStep
<1>6. MeasureTypeOK'
  BY <1>1, <1>5 DEF CountersInv, MeasureTypeOK
<1>7. CountersBounded'
  <2>1. \A w \in Windows : run_res[w] <= executed'
    BY <1>3, <1>5
  <2>. QED  BY <1>1, <1>5, <2>1 DEF CountersInv, CountersBounded, Windows
<1>. QED  BY <1>4, <1>5, <1>6, <1>7 DEF CountersInv

(* The steps of the results thread: a sample is no more, a reset is less. *)
LEMMA CountersResults ==
  ASSUME CountersInv, ResultsStep
  PROVE  CountersInv'
<1>1. UNCHANGED <<startupVars, req, srv, sreg, executed, mt, current_run, exit, rt, idx,
                  reg, sent, taken>>
  BY DEF ResultsStep, results_sample, results_reset, serverVars, measureVars, clientVars
<1>2. UNCHANGED <<setup, cpc>> /\ CountPlaces' = CountPlaces
  BY <1>1, SetupFrame DEF startupVars
<1>3. /\ num_reqs \in Nat /\ executed \in Nat /\ num_reqs <= executed
      /\ run_res \in [Windows -> Nat] /\ runs \in Nat
      /\ \A w \in Windows : run_res[w] <= executed
  BY DEF CountersInv, MeasureTypeOK, CountersBounded, Windows
<1>4. ClientBehind' /\ MeasureCounts'
  BY <1>1, <1>2 DEF CountersInv, ClientBehind, MeasureCounts
<1>5. /\ num_reqs' \in Nat /\ num_reqs' <= num_reqs
      /\ rpl' \in {"sample", "reset", "over"} /\ runs' \in Nat
      /\ run_res' \in [Windows -> Nat]
      /\ \A w \in Windows : run_res'[w] <= executed
  <2>1. CASE results_sample
    <3>1. /\ run_res' = [run_res EXCEPT ![runs] = num_reqs] /\ rpl' = "reset"
          /\ UNCHANGED <<num_reqs, runs>>
      BY <2>1 DEF results_sample, serverVars
    <3>2. \A w \in Windows : run_res'[w] = num_reqs \/ run_res'[w] = run_res[w]
      BY <1>3, <3>1
    <3>3. run_res' \in [Windows -> Nat]
      BY <1>3, <3>1
    <3>. QED  BY <1>3, <3>1, <3>2, <3>3
  <2>2. CASE results_reset
    BY <1>3, <2>2 DEF results_reset
  <2>. QED  BY <2>1, <2>2 DEF ResultsStep
<1>6. MeasureTypeOK'
  BY <1>1, <1>5 DEF CountersInv, MeasureTypeOK
<1>7. CountersBounded'
  <2>1. num_reqs' <= executed
    BY <1>3, <1>5
  <2>. QED  BY <1>1, <1>5, <2>1 DEF CountersInv, CountersBounded, Windows
<1>8. ServerBehind'
  <2>1. num_reqs < executed => num_reqs' < executed
    BY <1>3, <1>5
  <2>. QED  BY <1>1, <1>2, <2>1 DEF CountersInv, ServerBehind
<1>. QED  BY <1>4, <1>6, <1>7, <1>8 DEF CountersInv

(* The steps of measure_thread, which may reset what the client adds to. *)
LEMMA CountersMeasure ==
  ASSUME CountersInv, MeasureStep
  PROVE  CountersInv'
<1>1. UNCHANGED <<startupVars, req, srv, num_reqs, sreg, executed, rpl, runs, run_res,
                  idx, reg, sent, taken>>
  BY DEF MeasureStep, measure_thread, measure_thread_run, serverVars, resultsVars, clientVars
<1>2. UNCHANGED <<setup, cpc>> /\ CountPlaces' = CountPlaces
  BY <1>1, SetupFrame DEF startupVars
<1>3. ServerBehind'
  BY <1>1, <1>2 DEF CountersInv, ServerBehind
<1>4. /\ rt \in [Windows -> Nat] /\ taken \in [Windows -> Nat] /\ idx \in Windows
      /\ \A w \in Windows : rt[w] \in Nat /\ taken[w] \in Nat /\ rt[w] <= taken[w]
      /\ current_run \in Windows /\ current_run \in Nat
  BY WindowFacts DEF CountersInv, MeasureTypeOK, CountersBounded, Windows
<1>5. /\ rt' \in [Windows -> Nat]
      /\ \A w \in Windows : rt'[w] \in Nat /\ rt'[w] <= rt[w]
  <2>1. rt' = rt \/ rt' = [rt EXCEPT ![current_run] = 0]
    BY DEF MeasureStep, measure_thread, measure_thread_run, clientVars
  <2>. QED  BY <1>4, <2>1
<1>6. /\ mt' \in {"off", "report", "sleep", "over"} /\ current_run' \in Windows
      /\ exit' \in BOOLEAN
      /\ mt # "off" /\ mt' # "off"
      /\ mt' = "sleep" => current_run' <= Runs
      /\ exit' => mt' = "over" /\ current_run' = Runs + 1
      /\ exit => exit'
  <2>1. /\ mt = "sleep" => current_run <= Runs
        /\ exit => mt = "over"
        /\ exit \in BOOLEAN
    BY DEF CountersInv, MeasureTypeOK, MeasureCounts
  <2>2. CASE measure_thread
    <3>1. /\ mt = "report" /\ current_run' = current_run
          /\ \/ current_run > Runs /\ mt' = "over" /\ exit' = TRUE
             \/ ~(current_run > Runs) /\ mt' = "sleep" /\ exit' = exit
      BY <2>2 DEF measure_thread
    <3>2. CASE current_run > Runs
      BY <1>4, <2>1, <3>1, <3>2, WindowFacts
    <3>3. CASE ~(current_run > Runs)
      BY <1>4, <2>1, <3>1, <3>3, WindowFacts
    <3>. QED  BY <3>2, <3>3
  <2>3. CASE measure_thread_run
    <3>1. mt = "sleep" /\ mt' = "report" /\ current_run' = current_run + 1 /\ exit' = exit
      BY <2>3 DEF measure_thread_run
    <3>. QED  BY <1>4, <2>1, <3>1, WindowFacts
  <2>. QED  BY <2>2, <2>3 DEF MeasureStep
<1>7. MeasureTypeOK'
  BY <1>1, <1>5, <1>6 DEF CountersInv, MeasureTypeOK
<1>8. \A w \in Windows : /\ rt'[w] <= taken[w]
                         /\ rt[w] < taken[w] => rt'[w] < taken[w]
  BY <1>4, <1>5
<1>9. CountersBounded'
  BY <1>1, <1>8 DEF CountersInv, CountersBounded, Windows
<1>10. ClientBehind'
  BY <1>1, <1>2, <1>4, <1>8 DEF CountersInv, ClientBehind
<1>11. MeasureCounts'
  BY <1>2, <1>6 DEF CountersInv, MeasureCounts
<1>. QED  BY <1>3, <1>7, <1>9, <1>10, <1>11 DEF CountersInv

(* The steps of the client: it adds where the answer came, once per answer. *)
LEMMA CountersClient ==
  ASSUME CountersInv, StartupTypeOK, ClientStep
  PROVE  CountersInv' /\ cpc' \in ClientPCs /\ cpc # "off" /\ cpc' # "off"
<1>1. /\ UNCHANGED <<setup, mpc, next, thr_args, thr_args2, arg, rpc, replica,
                     kvs_memory, crash, args>>
      /\ UNCHANGED <<srv, num_reqs, sreg, executed, rpl, runs, run_res, current_run, exit>>
  BY DEF ClientStep, At, init_benchmark_client, consensus_send_request,
         consensus_send_request_recv, add_load, add_store, print_results_file,
         serverVars, resultsVars, measureVars
<1>2. CountPlaces' = CountPlaces
  BY <1>1, SetupFrame
<1>3. /\ rt \in [Windows -> Nat] /\ taken \in [Windows -> Nat] /\ idx \in Windows
      /\ \A w \in Windows : rt[w] \in Nat /\ taken[w] \in Nat /\ rt[w] <= taken[w]
      /\ current_run \in Windows /\ reg \in Nat /\ sent \in Nat /\ 0 \in Windows
  BY WindowFacts DEF CountersInv, MeasureTypeOK, CountersBounded, Windows
<1>4. \/ cpc = "joined" /\ cpc' = "idle"
      \/ cpc = "idle" /\ cpc' = "waiting"
      \/ cpc = "waiting" /\ cpc' \in {"idle", "load"}
      \/ cpc = "load" /\ cpc' = "store"
      \/ cpc = "store" /\ cpc' = "idle"
      \/ cpc = "idle" /\ cpc' = "print" /\ exit
      \/ cpc = "print" /\ cpc' = "done"
  BY DEF ClientStep, At, init_benchmark_client, consensus_send_request,
         consensus_send_request_recv, add_load, add_store, print_results_file
<1>5. req' # "taken" \/ req' = req
  BY DEF ClientStep, init_benchmark_client, consensus_send_request,
         consensus_send_request_recv, add_load, add_store, print_results_file
<1>6. ServerBehind'
  BY <1>1, <1>2, <1>5 DEF CountersInv, ServerBehind
<1>7. /\ mt' = mt \/ (cpc = "joined" /\ mt' = "report")
      /\ cpc = "joined" => mt' = "report"
  BY DEF ClientStep, At, init_benchmark_client, consensus_send_request,
         consensus_send_request_recv, add_load, add_store, print_results_file,
         measureVars
<1>8. MeasureCounts'
  <2>1. CASE cpc = "joined"
    <3>1. mt = "off" /\ ~exit
      BY <2>1 DEF CountersInv, MeasureCounts, Before
    <3>. QED  BY <1>1, <1>4, <1>7, <2>1, <3>1 DEF MeasureCounts, Before
  <2>2. CASE cpc # "joined"
    <3>1. mt' = mt /\ cpc' \notin Before
      BY <1>4, <1>7, <2>2 DEF Before
    <3>2. cpc' \in {"print", "done"} => exit
      BY <1>4, <2>2 DEF CountersInv, MeasureCounts
    <3>. QED  BY <1>1, <3>1, <3>2 DEF CountersInv, MeasureCounts
  <2>. QED  BY <2>1, <2>2
<1>9. /\ rt' \in [Windows -> Nat] /\ taken' \in [Windows -> Nat]
      /\ idx' \in Windows /\ reg' \in Nat /\ sent' \in Nat
      /\ req' \in {"none", "sent", "taken", "answered"}
      /\ \A w \in Windows : rt'[w] <= taken'[w]
      /\ ClientBehind'
  <2>1. req \in {"none", "sent", "taken", "answered"} /\ ClientBehind
    BY DEF CountersInv, MeasureTypeOK
  <2>2. CASE init_benchmark_client \/ consensus_send_request \/ print_results_file
    <3>1. UNCHANGED <<rt, taken, idx, reg>> /\ cpc' \notin {"load", "store"}
      BY <2>2 DEF At, init_benchmark_client, consensus_send_request, print_results_file,
                  clientVars
    <3>2. sent' \in Nat /\ req' \in {"none", "sent", "taken", "answered"}
      BY <1>3, <2>1, <2>2
         DEF init_benchmark_client, consensus_send_request, print_results_file, clientVars
    <3>. QED  BY <1>3, <3>1, <3>2 DEF ClientBehind
  <2>3. CASE consensus_send_request_recv
    <3>1. UNCHANGED <<rt, reg, sent>> /\ req' = "none"
      BY <2>3 DEF consensus_send_request_recv
    <3>2. CASE cpc' = "idle" /\ UNCHANGED <<idx, taken>>
      BY <1>3, <3>1, <3>2 DEF ClientBehind
    <3>3. CASE cpc' = "load" /\ idx' = current_run
               /\ taken' = [taken EXCEPT ![current_run] = @ + 1]
      <4>1. /\ taken' \in [Windows -> Nat] /\ taken'[current_run] = taken[current_run] + 1
            /\ \A w \in Windows : w # current_run => taken'[w] = taken[w]
        BY <1>3, <3>3
      <4>2. \A w \in Windows : rt[w] <= taken'[w]
        BY <1>3, <4>1
      <4>3. rt[current_run] < taken'[current_run]
        BY <1>3, <4>1
      <4>. QED  BY <1>3, <3>1, <3>3, <4>1, <4>2, <4>3 DEF ClientBehind
    <3>. QED  BY <2>3, <3>2, <3>3 DEF consensus_send_request_recv, At
  <2>4. CASE add_load
    <3>1. /\ UNCHANGED <<req, rt, idx, sent, taken>>
          /\ cpc = "load" /\ cpc' = "store" /\ reg' = rt[idx]
      BY <2>4 DEF add_load, At
    <3>. QED  BY <1>3, <2>1, <3>1 DEF ClientBehind
  <2>5. CASE add_store
    <3>1. /\ UNCHANGED <<req, sent, taken>> /\ idx' = 0 /\ reg' = 0
          /\ cpc = "store" /\ cpc' = "idle" /\ rt' = [rt EXCEPT ![idx] = reg + 1]
      BY <2>5 DEF add_store, At
    <3>2. reg + 1 \in Nat /\ reg + 1 <= taken[idx]
      BY <1>3, <2>1, <3>1 DEF ClientBehind
    <3>3. rt' \in [Windows -> Nat] /\ \A w \in Windows : rt'[w] <= taken[w]
      BY <1>3, <3>1, <3>2
    <3>. QED  BY <1>3, <2>1, <3>1, <3>3 DEF ClientBehind
  <2>. QED  BY <2>2, <2>3, <2>4, <2>5 DEF ClientStep
<1>10. MeasureTypeOK'
  BY <1>1, <1>7, <1>9 DEF CountersInv, MeasureTypeOK
<1>11. CountersBounded'
  BY <1>1, <1>9 DEF CountersInv, CountersBounded, Windows
<1>. QED  BY <1>4, <1>6, <1>8, <1>9, <1>10, <1>11 DEF CountersInv, ClientPCs, Before

------------------------------------------------------------------------------
(* The invariant, and what follows from it *)

(* Every step keeps the invariant. *)
LEMMA InvStep == IInv /\ [Next]_vars => IInv'
<1>. SUFFICES ASSUME IInv, [Next]_vars PROVE IInv'
  OBVIOUS
<1>. USE DEF IInv
<1>1. CASE UNCHANGED startupVars
  <2>1. StartupTypeOK' /\ StartupInv'
    BY <1>1, ClientAlone DEF startupVars, StartupTypeOK
  <2>2. CASE ServerStep \/ ResultsStep \/ MeasureStep
    BY <2>1, <2>2, CountersServer, CountersResults, CountersMeasure
  <2>3. CASE UNCHANGED vars
    <3>1. UNCHANGED <<setup, cpc, req, srv, num_reqs, sreg, executed, rpl, runs, run_res, mt,
                      current_run, exit, rt, idx, reg, sent, taken>>
      BY <2>3 DEF vars, startupVars, serverVars, resultsVars, measureVars, clientVars
    <3>2. CountersInv'
      BY <3>1, SetupFrame
         DEF CountersInv, MeasureTypeOK, ServerBehind, ClientBehind, MeasureCounts,
             CountersBounded
    <3>. QED  BY <2>1, <3>2
  <2>. QED  BY <2>1, <2>2, <2>3, CountersStartup, CountersClient DEF Next
<1>2. CASE Running /\ StartupStep
  BY <1>2, StartupStepInv, CountersStartup DEF Running, StartupStep
<1>3. CASE ClientStep
  <2>1. UNCHANGED <<setup, mpc, next, thr_args, thr_args2, arg, rpc, replica,
                    kvs_memory, crash, args>>
    BY <1>3 DEF ClientStep, At, init_benchmark_client, consensus_send_request,
         consensus_send_request_recv, add_load, add_store, print_results_file
  <2>. QED  BY <1>3, <2>1, CountersClient, ClientAlone DEF StartupTypeOK
<1>4. ServerStep \/ ResultsStep \/ MeasureStep => UNCHANGED startupVars
  BY DEF ServerStep, handle_request, respond, num_reqs_load, num_reqs_store, ResultsStep,
         results_sample, results_reset, MeasureStep, measure_thread, measure_thread_run
<1>. QED  BY <1>1, <1>2, <1>3, <1>4 DEF Next, vars

(***************************************************************************)
(* The invariant: main has handed each replica a struct of its own, which  *)
(* nobody writes again; and whoever is about to add to a counter has an    *)
(* event that the counter does not show yet.                               *)
(***************************************************************************)
THEOREM InductiveInvariant == Spec => []IInv
<1>1. BenchmarkInit => IInv
  BY StartupInit, CountersInit DEF IInv, BenchmarkInit
<1>. QED  BY <1>1, InvStep, PTL DEF Spec

(***************************************************************************)
(* In every setup, whatever the sleeps are worth: the replica that the     *)
(* client sends to is the one that polls it, and the one it listens to     *)
(* answers (com_layer.c, main.c and the init functions of the replicas).   *)
(***************************************************************************)
THEOREM RolesAgreeCorrect == Spec => []RolesAgree
<1>1. IInv => RolesAgree
  BY RolesFromArgs DEF IInv
<1>. QED  BY <1>1, InductiveInvariant, PTL

(***************************************************************************)
(* No window shows more than was counted, although the increments and the  *)
(* resets of num_reqs and of the statistics race.                          *)
(***************************************************************************)
THEOREM CountersBoundedCorrect == Spec => []CountersBounded
<1>1. IInv => CountersBounded
  BY DEF IInv, CountersInv
<1>. QED  BY <1>1, InductiveInvariant, PTL

(***************************************************************************)
(* Once the client prints, its runs are over and their results are final:  *)
(* measure_thread sets exit only when it touches them no more.             *)
(***************************************************************************)
THEOREM PrintedResultsFinalCorrect == Spec => PrintedResultsFinal
<1>. DEFINE Final == (cpc \in {"print", "done"}) => (current_run = Runs + 1 /\ rt' = rt)
<1>1. IInv /\ [Next]_vars => [Final]_vars
  <2>. SUFFICES ASSUME IInv, Next, cpc \in {"print", "done"}
                PROVE  current_run = Runs + 1 /\ rt' = rt
    BY DEF vars
  <2>1. mt = "over" /\ current_run = Runs + 1
    BY DEF IInv, CountersInv, MeasureCounts
  <2>2. rt' = rt
    BY <2>1 DEF Next, StartupStep, benchVars, ServerStep, handle_request, respond,
         num_reqs_load, num_reqs_store, ResultsStep, results_sample, results_reset,
         MeasureStep, measure_thread, measure_thread_run, ClientStep, At,
         init_benchmark_client, consensus_send_request, consensus_send_request_recv,
         add_load, add_store, print_results_file, clientVars
  <2>. QED  BY <2>1, <2>2
<1>. QED  BY <1>1, InductiveInvariant, PTL DEF Spec, PrintedResultsFinal
==============================================================================
