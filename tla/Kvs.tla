--------------------------------- MODULE Kvs ----------------------------------
(***************************************************************************)
(* kvs_replica.c and kvs_client.c: a table per NUMA node, kept by the      *)
(* 1Paxos replica of that node in the build with KVS.  A client writes     *)
(* through the protocol, and waits for the answer of a learner; it reads   *)
(* the memory of its own node's replica directly.                          *)
(*                                                                         *)
(* A value is two words.  The replica stores and the client loads one word *)
(* after the other without synchronisation.  All clients use one key here: *)
(* the words of another key are other memory.  Both words of a value stand *)
(* for the command that wrote it.                                          *)
(***************************************************************************)
EXTENDS OnePaxos

CONSTANTS
  Local,   \* per client, the replica on its NUMA node
  MaxGets  \* reads after two writes: 8 in the code

(* recv_from: leader and acceptor do not answer, so others do for their nodes. *)
AnsweredBy(c) == IF Local[c] < 2 THEN Local[c] + 2 ELSE Local[c]

ASSUME LocalAssumption ==
  \A c \in Clients : Local[c] \in Replicas /\ (KVS => AnsweredBy(c) = RecvFrom)
ASSUME GetsAssumption == MaxGets \in Nat \ {0}

VARIABLES
  kvs_memory, \* per replica, the two words of the key
  storing,    \* per replica, whether it is between the two stores of exec_fn
  val,        \* per client, the words it has read
  reading,    \* per client, whether it is between the two loads of kvs_get
  gets        \* per client, how often it has read since its last write

readVars == <<val, reading, gets>>
storeVars == <<kvs_memory, storing>>
kvsVars == <<vars, storeVars, readVars>>

(* numa_alloc_local returns zeroed pages. *)
Unwritten == [v1 |-> << >>, v2 |-> << >>]

KvsInit ==
  /\ Init
  /\ kvs_memory = [r \in Replicas |-> Unwritten]
  /\ storing = [r \in Replicas |-> FALSE]
  /\ val = [c \in Clients |-> Unwritten]
  /\ reading = [c \in Clients |-> FALSE]
  /\ gets = [c \in Clients |-> 0]

------------------------------------------------------------------------------
(* The replicas. *)

(* In a step in which replica r executes a command, exec_fn stores one word. *)
exec_fn(r) ==
  /\ storing' = [storing EXCEPT ![r] = applied'[r] # applied[r]]
  /\ kvs_memory' = IF applied'[r] = applied[r] THEN kvs_memory
       ELSE [kvs_memory EXCEPT ![r].v1 = applied'[r][Len(applied'[r])]]
  /\ UNCHANGED readVars

(* Then it stores the other, and only then the replica goes on. *)
exec_fn_return(r) ==
  /\ storing[r]
  /\ storing' = [storing EXCEPT ![r] = FALSE]
  /\ kvs_memory' = [kvs_memory EXCEPT ![r].v2 = kvs_memory[r].v1]
  /\ UNCHANGED <<vars, readVars>>

KvsLeaderReceive(c) == ~storing[Leader] /\ LeaderReceive(c) /\ exec_fn(Leader)

KvsLearn(r) == ~storing[r] /\ LearnerStep(r) /\ exec_fn(r)

KvsLeaderContinue ==
  ~storing[Leader] /\ (handle_setup_send \/ handle_request_send) /\ exec_fn(Leader)

KvsAcceptorStep == ~storing[Acceptor] /\ AcceptorStep /\ exec_fn(Acceptor)

------------------------------------------------------------------------------
(* A client. *)

(* The loop of init_benchmark_kvs_client: two writes, then the reads. *)
Reads(c) ==
  /\ cpc[c] = "idle"
  /\ request_count[c] > 0 /\ request_count[c] % 2 = 0
  /\ gets[c] < MaxGets

(* kvs_set, and what comes before the loop. *)
kvs_set(c) ==
  /\ ~Reads(c)
  /\ ClientMoves(c)
  /\ gets' = [gets EXCEPT ![c] = 0]
  /\ UNCHANGED <<storeVars, val, reading>>

local_mem_leader(c) == kvs_memory[Leader]

local_mem(c) == kvs_memory[Local[c]]

(* kvs_get, up to the first word. *)
kvs_get(c) ==
  /\ Reads(c) /\ ~reading[c]
  /\ val' = [val EXCEPT ![c].v1 = local_mem(c).v1]
  /\ reading' = [reading EXCEPT ![c] = TRUE]
  /\ UNCHANGED <<vars, storeVars, gets>>

kvs_get_return(c) ==
  /\ reading[c]
  /\ val' = [val EXCEPT ![c].v2 = local_mem(c).v2]
  /\ reading' = [reading EXCEPT ![c] = FALSE]
  /\ gets' = [gets EXCEPT ![c] = @ + 1]
  /\ UNCHANGED <<vars, storeVars>>

KvsClientStep(c) == kvs_set(c) \/ kvs_get(c) \/ kvs_get_return(c)

------------------------------------------------------------------------------

KvsTerminated ==
  /\ Quiescent
  /\ \A r \in Replicas : ~storing[r]
  /\ \A c \in Clients : ~Reads(c)
  /\ UNCHANGED kvsVars

KvsNext ==
  \/ \E c \in Clients : KvsClientStep(c) \/ KvsLeaderReceive(c)
  \/ KvsLeaderContinue
  \/ KvsAcceptorStep
  \/ \E r \in Replicas \ {Acceptor} : KvsLearn(r)
  \/ \E r \in Replicas : exec_fn_return(r)
  \/ KvsTerminated

KvsSpec == KvsInit /\ [][KvsNext]_kvsVars

------------------------------------------------------------------------------
(* Correctness *)

(* Replica r has executed cmd, and word w is of cmd or of a later command. *)
NotBefore(r, cmd, w) ==
  \E i, j \in 1 .. Len(applied[r]) :
    i <= j /\ applied[r][i] = cmd /\ applied[r][j] = w

(***************************************************************************)
(* A client that reads the memory of the replica that answers it finds     *)
(* what it wrote last, or what was written later; though the read takes no *)
(* part in the protocol, and its two words may be of two commands.         *)
(***************************************************************************)
ReadsOwnWrites ==
  \A c \in Clients : Local[c] = RecvFrom /\ gets[c] > 0 =>
    LET own == <<c, request_count[c] - 1>>
    IN  NotBefore(RecvFrom, own, val[c].v1) /\ NotBefore(RecvFrom, own, val[c].v2)

(***************************************************************************)
(* On nodes 0 and 1 a client reads another replica than the one that       *)
(* answers, and may read old values.  But what is answered is on its way   *)
(* to the replica it reads: executed, in the channel, or in its hands.     *)
(***************************************************************************)
WritesReachLocal ==
  \A c \in Clients : \A k \in 0 .. request_count[c] - 1 :
    LET r == Local[c]
        learns == net[Acceptor][r]
    IN  \/ \E i \in 1 .. Len(applied[r]) : applied[r][i] = <<c, k>>
        \/ \E i \in 1 .. Len(learns) : Command(learns[i]) = <<c, k>>
        \/ r = Acceptor /\ pc[r] \in {"learn", "execute"} /\ Command(msg[r]) = <<c, k>>
==============================================================================
