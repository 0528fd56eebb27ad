------------------------------ MODULE OnePaxos -------------------------------
(***************************************************************************)
(* one_replica.c, at the node level and without an algorithm below, in the *)
(* build that sends point to point.                                        *)
(*                                                                         *)
(* The leader (id 0) passes each request to the acceptor (id 1).  The      *)
(* acceptor gives it its index and sends LEARN to all others, one after    *)
(* the other, before it executes the command itself.  The leader answers   *)
(* the client when it learns; with KVS defined it does not, and the        *)
(* learner does whose core the client has put into the request.            *)
(*                                                                         *)
(* The periodic checks that would start a change of leader or acceptor are *)
(* commented out: proposal numbers stay 0 and the acceptor accepts all.    *)
(***************************************************************************)
EXTENDS Replica, Integers

CONSTANTS
  KVS,     \* whether the build defines KVS
  RidMod   \* a request id is a uint32_t: 2^32

Acceptor == 1
Learners == Replicas \ {Leader, Acceptor}

ASSUME KVSAssumption    == KVS \in BOOLEAN
ASSUME AnswerAssumption == IF KVS THEN RecvFrom \in Learners ELSE RecvFrom = Leader
ASSUME RidModAssumption == RidMod \in Nat \ {0}

VARIABLES
  dst,               \* acceptor: loop variable i of the loop over the replicas
  index,             \* per replica
  proposal_index,    \* leader
  entry_queue,       \* leader: size of its queue; all entries point to one buffer
  last_executed_rid  \* per replica and client

onepaxosVars == <<dst, index, proposal_index, entry_queue, last_executed_rid>>
replicaVars == <<pc, msg, log, applied, onepaxosVars>>
vars == <<clientVars, replicaVars>>

NoRid_zero == 0

(* The initial -1, which no request id equals. *)
NoRid == -1

Init ==
  /\ ClientInit
  /\ ReplicaInit
  /\ dst = Leader
  /\ index = [r \in Replicas |-> 0]
  /\ proposal_index = 0
  /\ entry_queue = 0
  /\ last_executed_rid = [r \in Replicas |-> [c \in Clients |-> NoRid]]

get_request_id(m) == m.rid % RidMod

(* The client's last request again, or an older one. *)
IsDuplicate(r, m) == last_executed_rid[r][m.cid] >= get_request_id(m)

(* execute: a duplicate is not run. *)
execute(r, m) ==
  IF IsDuplicate(r, m)
  THEN UNCHANGED <<applied, last_executed_rid>>
  ELSE /\ update_value(r, m)
       /\ last_executed_rid' = [last_executed_rid EXCEPT ![r][m.cid] = get_request_id(m)]

------------------------------------------------------------------------------
(* The leader. *)

handle_setup(src) ==
  /\ Takes(Leader, src, "SETUP")
  /\ Enters(Leader, "setup", Head(net[src][Leader]))
  /\ UNCHANGED <<cpc, request_count, log, applied, onepaxosVars>>

handle_setup_send ==
  /\ Sends(Leader, "setup", msg[Leader].cid)
  /\ Returns(Leader)
  /\ UNCHANGED <<cpc, request_count, log, applied, onepaxosVars>>

handle_request_early(src) ==
  /\ Takes(Leader, src, "REQ")
  /\ Enters(Leader, "accept", [Head(net[src][Leader]) EXCEPT !.tag = "ACC"])
  /\ entry_queue' = entry_queue + 1
  /\ execute(Leader, Head(net[src][Leader]))
  /\ UNCHANGED <<cpc, request_count, log, dst, index, proposal_index>>

handle_request(src) ==
  /\ Takes(Leader, src, "REQ")
  /\ Enters(Leader, "accept", [Head(net[src][Leader]) EXCEPT !.tag = "ACC"])
  /\ entry_queue' = entry_queue + 1
  /\ UNCHANGED <<cpc, request_count, log, applied, dst, index, proposal_index,
                 last_executed_rid>>

handle_request_send ==
  /\ Sends(Leader, "accept", Acceptor)
  /\ Returns(Leader)
  /\ proposal_index' = proposal_index + 1
  /\ UNCHANGED <<cpc, request_count, log, applied, dst, index, entry_queue,
                 last_executed_rid>>

------------------------------------------------------------------------------
(* The acceptor. *)

(* A LEARN: the request with the index in data[1]. *)
Learn(m, i) == [tag |-> "LEARN", cid |-> m.cid, rid |-> m.rid, idx |-> m.idx, index |-> i]

handle_accept_early ==
  /\ Takes(Acceptor, Leader, "ACC")
  /\ LET m == Head(net[Leader][Acceptor])
     IN  /\ Enters(Acceptor, "learn", Learn(m, index[Leader]))
         /\ log' = Append(log, Command(m))
  /\ dst' = Leader
  /\ UNCHANGED <<cpc, request_count, applied, index, proposal_index, entry_queue,
                 last_executed_rid>>

(* The order in which the acceptor takes them up is the order of the log. *)
handle_accept ==
  /\ Takes(Acceptor, Leader, "ACC")
  /\ LET m == Head(net[Leader][Acceptor])
     IN  /\ Enters(Acceptor, "learn", Learn(m, index[Acceptor]))
         /\ log' = Append(log, Command(m))
  /\ dst' = Leader
  /\ UNCHANGED <<cpc, request_count, applied, index, proposal_index, entry_queue,
                 last_executed_rid>>

(* The loop over all replicas passes over the acceptor. *)
NextDst(i) == IF i = Leader THEN Acceptor + 1 ELSE i + 1

handle_accept_send ==
  /\ Sends(Acceptor, "learn", dst)
  /\ IF NextDst(dst) >= N
     THEN dst' = Leader /\ pc' = [pc EXCEPT ![Acceptor] = "execute"]
     ELSE dst' = NextDst(dst) /\ UNCHANGED pc
  /\ UNCHANGED <<cpc, request_count, msg, log, applied, index, proposal_index,
                 entry_queue, last_executed_rid>>

handle_accept_execute_skip ==
  /\ pc[Acceptor] = "execute"
  /\ index' = [index EXCEPT ![Acceptor] = msg[Acceptor].index + 1]
  /\ Returns(Acceptor)
  /\ UNCHANGED <<clientVars, log, applied, dst, proposal_index, entry_queue,
                 last_executed_rid>>

handle_accept_execute ==
  /\ pc[Acceptor] = "execute"
  /\ execute(Acceptor, msg[Acceptor])
  /\ index' = [index EXCEPT ![Acceptor] = msg[Acceptor].index + 1]
  /\ Returns(Acceptor)
  /\ UNCHANGED <<clientVars, log, dst, proposal_index, entry_queue>>

------------------------------------------------------------------------------
(* The leader and the learners. *)

dequeues_never(i) == FALSE

(* "entry_queue.size > (proposal_index - index) + 1", unsigned; index is i. *)
dequeues(i) == entry_queue > (proposal_index - i) + 1

(* Whether replica r answers: the leader if it executed, a learner if asked to. *)
Answers(r, m) ==
  IF r = Leader THEN ~KVS /\ ~IsDuplicate(r, m) ELSE KVS /\ m.idx = r

handle_learn_noexec(r) ==
  /\ Takes(r, Acceptor, "LEARN")
  /\ LET m == Head(net[Acceptor][r])
     IN  /\ index' = [index EXCEPT ![r] = m.index + 1]
         /\ entry_queue' = IF r = Leader /\ dequeues(m.index + 1)
                           THEN entry_queue - 1 ELSE entry_queue
         /\ IF Answers(r, m)
            THEN Enters(r, "respond", [m EXCEPT !.tag = "RESP"])
            ELSE UNCHANGED <<pc, msg>>
  /\ UNCHANGED <<cpc, request_count, log, dst, proposal_index, applied,
                 last_executed_rid>>

handle_learn(r) ==
  /\ Takes(r, Acceptor, "LEARN")
  /\ LET m == Head(net[Acceptor][r])
     IN  /\ execute(r, m)
         /\ index' = [index EXCEPT ![r] = m.index + 1]
         /\ entry_queue' = IF r = Leader /\ dequeues(m.index + 1)
                           THEN entry_queue - 1 ELSE entry_queue
         /\ IF Answers(r, m)
            THEN Enters(r, "respond", [m EXCEPT !.tag = "RESP"])
            ELSE UNCHANGED <<pc, msg>>
  /\ UNCHANGED <<cpc, request_count, log, dst, proposal_index>>

handle_learn_respond_lost(r) ==
  /\ pc[r] = "respond"
  /\ Returns(r)
  /\ UNCHANGED <<clientVars, log, applied, onepaxosVars>>

handle_learn_respond(r) ==
  /\ Sends(r, "respond", msg[r].cid)
  /\ Returns(r)
  /\ UNCHANGED <<cpc, request_count, log, applied, onepaxosVars>>

------------------------------------------------------------------------------

(* message_handler_onepaxos, for a message of a client at the leader. *)
LeaderReceive(src) == handle_setup(src) \/ handle_request(src)

LeaderContinue ==
  \/ handle_setup_send
  \/ handle_request_send
  \/ handle_learn_respond(Leader)

AcceptorStep == handle_accept \/ handle_accept_send \/ handle_accept_execute

LearnerStep(r) == handle_learn(r) \/ handle_learn_respond(r)

ClientMoves(c) == ClientStep(c) /\ UNCHANGED replicaVars

Terminated == Quiescent /\ UNCHANGED vars

Next ==
  \/ \E c \in Clients : ClientMoves(c) \/ LeaderReceive(c)
  \/ handle_learn(Leader) \/ LeaderContinue
  \/ AcceptorStep
  \/ \E r \in Learners : LearnerStep(r)
  \/ Terminated

Spec == Init /\ [][Next]_vars

(***************************************************************************)
(* Every thread keeps running, and the leader's loop visits the clients    *)
(* and the acceptor in turn (j++, modulo the number of cores).             *)
(***************************************************************************)
Fairness ==
  /\ \A c \in Clients : WF_vars(ClientMoves(c)) /\ SF_vars(LeaderReceive(c))
  /\ SF_vars(handle_learn(Leader))
  /\ WF_vars(LeaderContinue)
  /\ WF_vars(AcceptorStep)
  /\ \A r \in Learners : WF_vars(LearnerStep(r))

FairSpec == Spec /\ Fairness

------------------------------------------------------------------------------
(* Correctness *)

(* The number of LEARNs sent to r: the acceptor's loop has reached r, or not. *)
LearnsSent(r) ==
  IF pc[Acceptor] = "learn" /\ dst <= r THEN Len(log) - 1 ELSE Len(log)

(***************************************************************************)
(* A replica that learns takes over the index of the message whatever its  *)
(* own is, and then executes: so its channel must hold the indices from    *)
(* its own on, each once and in order, up to what the acceptor has sent.   *)
(***************************************************************************)
LearnsInTransit ==
  \A r \in Replicas \ {Acceptor} :
    LET s == net[Acceptor][r]
    IN  /\ index[r] + Len(s) = LearnsSent(r)
        /\ \A k \in 1 .. Len(s) :
             s[k].index = index[r] + k - 1 /\ Command(s[k]) = log[index[r] + k]

(***************************************************************************)
(* "was no duplica i.e. not yet replied to": a replica that passes over a  *)
(* command as a duplicate has executed that command before.                *)
(***************************************************************************)
OnlyDuplicatesDropped ==
  \A r \in Replicas : \A i \in 1 .. index[r] :
    \E j \in 1 .. Len(applied[r]) : applied[r][j] = log[i]

(***************************************************************************)
(* The queue of the leader, which nothing empties but the comparison of    *)
(* sizes in handle_learn, holds no more than the requests under way and    *)
(* one, and the unsigned difference never wraps.                           *)
(***************************************************************************)
EntryQueueBounded ==
  LET proposing == IF pc[Leader] = "accept" THEN 1 ELSE 0
  IN  /\ proposal_index >= index[Leader]
      /\ entry_queue <= (proposal_index - index[Leader]) + 1 + proposing
      /\ entry_queue >= (proposal_index - index[Leader]) + proposing

(***************************************************************************)
(* A client takes any message for its answer: so what is on its way to it  *)
(* belongs to its request, and whoever answers has executed the command.   *)
(* With KVS the client then reads the memory of that replica, which so     *)
(* holds all that the client has written.                                  *)
(***************************************************************************)
AnswersExecutedLocally ==
  \A c \in Clients :
    LET Executed(k) == \E i \in 1 .. Len(applied[RecvFrom]) :
                         applied[RecvFrom][i] = <<c, k>>
    IN  /\ \A k \in 0 .. request_count[c] - 1 : Executed(k)
        /\ cpc[c] = "waiting" =>
             \A i \in 1 .. Len(net[RecvFrom][c]) :
               /\ Command(net[RecvFrom][c][i]) = <<c, request_count[c]>>
               /\ Executed(request_count[c])

(***************************************************************************)
(* Leader and acceptor send to each other from inside of handlers: each    *)
(* waiting for room towards the other, they would wait forever.  That      *)
(* takes Cap + 1 requests one way, the leader's hands included, and as     *)
(* many LEARNs the other way.  Those are of other clients if the leader    *)
(* answers; with KVS a learner has answered all but the last of them and   *)
(* their clients may be waiting again.  It is impossible up to SafeClients *)
(* clients, and TLC finds it for one client more.                          *)
(***************************************************************************)
SafeClients == IF KVS THEN Cap + 1 ELSE 2 * Cap + 1

NoCircularWait ==
  ~ /\ pc[Leader] = "accept" /\ ~CanSend(net, Leader, Acceptor)
    /\ pc[Acceptor] = "learn" /\ dst = Leader /\ ~CanSend(net, Acceptor, Leader)
==============================================================================
