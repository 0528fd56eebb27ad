--------------------------------- MODULE TPC ---------------------------------
(***************************************************************************)
(* tpc_replica.c, the two-phase commit replica, at the node level and      *)
(* without an algorithm below, in the build that sends point to point.     *)
(*                                                                         *)
(* The leader (id 0) polls the channels of all other cores one after the   *)
(* other and runs one message handler at a time; a follower polls only the *)
(* channel of the leader.                                                  *)
(***************************************************************************)
EXTENDS Replica

ASSUME AnswersFromLeader == RecvFrom = Leader

VARIABLES
  dst,            \* leader: loop variable i of the loops over the replicas
  ready_counter,  \* leader: RDY messages counted, per client
  index,          \* leader: number of commands ordered so far
  votes           \* history: <<command, follower>> for every RDY received

replicaVars == <<pc, msg, dst, ready_counter, index, log, applied, votes>>
vars == <<clientVars, replicaVars>>

Tags == {"SETUP", "REQ", "RESP", "PREP", "RDY", "COM"}

Messages == [tag : Tags, cid : Clients, rid : Nat, idx : Nat]

LeaderPCs   == {"poll", "setup", "prepare", "commit", "execute", "respond"}
FollowerPCs == {"poll", "ready"}

TypeOK ==
  /\ net \in [Nodes -> [Nodes -> Seq(Messages)]]
  /\ cpc \in [Clients -> {"new", "joining", "idle", "waiting"}]
  /\ request_count \in [Clients -> Nat]
  /\ pc \in [Replicas -> LeaderPCs \cup FollowerPCs]
  /\ pc[Leader] \in LeaderPCs /\ \A r \in Followers : pc[r] \in FollowerPCs
  /\ msg \in [Replicas -> Messages \cup {NoMsg}]
  /\ \A r \in Replicas : pc[r] # "poll" => msg[r] \in Messages
  /\ dst \in Replicas
  /\ ready_counter \in [Clients -> Nat]
  /\ index \in Nat
  /\ log \in Seq(Commands)
  /\ applied \in [Replicas -> Seq(Commands)]
  /\ votes \subseteq Commands \X Nodes

Init ==
  /\ ClientInit
  /\ ReplicaInit
  /\ dst = Leader
  /\ ready_counter = [c \in Clients |-> 0]
  /\ index = 0
  /\ votes = {}

------------------------------------------------------------------------------
(* One turn of "for (i = 1; i < num_replicas; i++) smlt_send(replicas[i])". *)
SendsInLoop(where) ==
  /\ Sends(Leader, where, dst)
  /\ dst' = IF dst = N - 1 THEN Leader ELSE dst + 1

LoopEnds == dst = N - 1

------------------------------------------------------------------------------
(* The leader. *)

handle_setup(src) ==
  /\ Takes(Leader, src, "SETUP")
  /\ Enters(Leader, "setup", Head(net[src][Leader]))
  /\ UNCHANGED <<cpc, request_count, dst, ready_counter, index, log, applied, votes>>

handle_setup_send ==
  /\ Sends(Leader, "setup", msg[Leader].cid)
  /\ Returns(Leader)
  /\ UNCHANGED <<cpc, request_count, dst, ready_counter, index, log, applied, votes>>

ResetCounter_mut(c) == ready_counter

ResetCounter(c) == [ready_counter EXCEPT ![c] = 0]

(* A request starts phase one: its counter is reset, PREP goes to everyone. *)
handle_request(src) ==
  /\ Takes(Leader, src, "REQ")
  /\ LET m == Head(net[src][Leader])
     IN  /\ ready_counter' = ResetCounter(m.cid)
         /\ Enters(Leader, "prepare", [m EXCEPT !.tag = "PREP"])
  /\ dst' = 1
  /\ UNCHANGED <<cpc, request_count, index, log, applied, votes>>

handle_request_send ==
  /\ SendsInLoop("prepare")
  /\ IF LoopEnds THEN Returns(Leader) ELSE UNCHANGED <<pc, msg>>
  /\ UNCHANGED <<cpc, request_count, ready_counter, index, log, applied, votes>>

AllReady_short(n) == n >= N

(* The test on the counter after a RDY: all other replicas are ready. *)
AllReady(n) == n >= N - 1

CommitMessage_mut(m) == Message("COM", m.cid, m.rid, index)

CommitMessage(m) == Message("COM", m.cid, m.rid, index + 1)

(* A RDY is counted; the last one orders the command and starts phase two. *)
handle_ready(src) ==
  /\ Takes(Leader, src, "RDY")
  /\ LET m == Head(net[src][Leader])
         c == m.cid
     IN  /\ ready_counter' = [ready_counter EXCEPT ![c] = @ + 1]
         /\ votes' = votes \cup {<<Command(m), src>>}
         /\ IF AllReady(ready_counter[c] + 1)
            THEN /\ index' = index + 1
                 /\ log' = Append(log, Command(m))
                 /\ Enters(Leader, "commit", CommitMessage(m))
                 /\ dst' = 1
            ELSE UNCHANGED <<index, log, pc, msg, dst>>
  /\ UNCHANGED <<cpc, request_count, applied>>

handle_ready_send ==
  /\ SendsInLoop("commit")
  /\ pc' = IF LoopEnds THEN [pc EXCEPT ![Leader] = "execute"] ELSE pc
  /\ UNCHANGED <<cpc, request_count, msg, ready_counter, index, log, applied, votes>>

handle_ready_execute_skip ==
  /\ pc[Leader] = "execute"
  /\ Enters(Leader, "respond", [msg[Leader] EXCEPT !.tag = "RESP"])
  /\ UNCHANGED <<clientVars, dst, ready_counter, index, log, applied, votes>>

handle_ready_execute_free ==
  /\ pc[Leader] = "execute"
  /\ update_value(Leader, msg[Leader])
  /\ Enters(Leader, "respond", NoMsg)
  /\ UNCHANGED <<clientVars, dst, ready_counter, index, log, votes>>

handle_ready_execute ==
  /\ pc[Leader] = "execute"
  /\ update_value(Leader, msg[Leader])
  /\ Enters(Leader, "respond", [msg[Leader] EXCEPT !.tag = "RESP"])
  /\ UNCHANGED <<clientVars, dst, ready_counter, index, log, votes>>

handle_ready_respond ==
  /\ Sends(Leader, "respond", msg[Leader].cid)
  /\ Returns(Leader)
  /\ UNCHANGED <<cpc, request_count, dst, ready_counter, index, log, applied, votes>>

------------------------------------------------------------------------------
(* A follower. *)

handle_prepare_early(r) ==
  /\ Takes(r, Leader, "PREP")
  /\ Enters(r, "ready", [Head(net[Leader][r]) EXCEPT !.tag = "RDY"])
  /\ update_value(r, Head(net[Leader][r]))
  /\ UNCHANGED <<cpc, request_count, dst, ready_counter, index, log, votes>>

handle_prepare(r) ==
  /\ Takes(r, Leader, "PREP")
  /\ Enters(r, "ready", [Head(net[Leader][r]) EXCEPT !.tag = "RDY"])
  /\ UNCHANGED <<cpc, request_count, dst, ready_counter, index, log, applied, votes>>

handle_prepare_send(r) ==
  /\ Sends(r, "ready", Leader)
  /\ Returns(r)
  /\ UNCHANGED <<cpc, request_count, dst, ready_counter, index, log, applied, votes>>

handle_commit(r) ==
  /\ Takes(r, Leader, "COM")
  /\ update_value(r, Head(net[Leader][r]))
  /\ UNCHANGED <<cpc, request_count, pc, msg, dst, ready_counter, index, log, votes>>

------------------------------------------------------------------------------

(* message_handler_tpc, for a message of core src at the leader. *)
LeaderReceive(src) == handle_setup(src) \/ handle_request(src) \/ handle_ready(src)

LeaderContinue ==
  \/ handle_setup_send
  \/ handle_request_send
  \/ handle_ready_send
  \/ handle_ready_execute
  \/ handle_ready_respond

FollowerStep(r) == handle_prepare(r) \/ handle_prepare_send(r) \/ handle_commit(r)

ClientMoves(c) == ClientStep(c) /\ UNCHANGED replicaVars

Terminated == Quiescent /\ UNCHANGED vars

Next ==
  \/ \E c \in Clients : ClientMoves(c)
  \/ \E src \in Nodes \ {Leader} : LeaderReceive(src)
  \/ LeaderContinue
  \/ \E r \in Followers : FollowerStep(r)
  \/ Terminated

Spec == Init /\ [][Next]_vars

(***************************************************************************)
(* Every thread keeps running.  The leader's loop visits every channel in  *)
(* turn (j++, modulo the number of cores), so a channel that holds a       *)
(* message whenever the leader is back at polling is not passed over for   *)
(* ever: strong fairness of each source.                                   *)
(***************************************************************************)
Fairness ==
  /\ \A c \in Clients : WF_vars(ClientMoves(c))
  /\ \A src \in Nodes \ {Leader} : SF_vars(LeaderReceive(src))
  /\ WF_vars(LeaderContinue)
  /\ \A r \in Followers : WF_vars(FollowerStep(r))

FairSpec == Spec /\ Fairness

------------------------------------------------------------------------------
(* Correctness *)

(***************************************************************************)
(* With a the number of commands a follower has executed and n the number  *)
(* of COMs the leader has sent to it, the channel s holds the COMs of the  *)
(* indices a + 1 .. n of the log lg, each one once and in that order.      *)
(***************************************************************************)
InTransit(s, a, n, lg) ==
  LET Coms == {k \in 1 .. Len(s) : s[k].tag = "COM"}
  IN  /\ a <= n
      /\ \A k \in Coms : s[k].idx \in a + 1 .. n /\ Command(s[k]) = lg[s[k].idx]
      /\ \A i \in a + 1 .. n : \E k \in Coms : s[k].idx = i
      /\ \A j, k \in Coms : j < k => s[j].idx < s[k].idx

(* The number of COMs sent to r: the loop has reached r, or not. *)
CommitsSent(r) ==
  IF pc[Leader] = "commit" /\ dst <= r THEN Len(log) - 1 ELSE Len(log)

(***************************************************************************)
(* A follower executes COMs as they arrive and never reads their index:    *)
(* so what is in its channel must be exactly what it has not yet executed. *)
(***************************************************************************)
CommitsInTransit ==
  \A r \in Followers :
    InTransit(net[Leader][r], Len(applied[r]), CommitsSent(r), log)

(***************************************************************************)
(* A command is ordered only after every follower has answered RDY to it,  *)
(* although the leader keeps just a number per client: RDYs of an earlier  *)
(* request, or two of one follower, must not make up the count.            *)
(***************************************************************************)
CommitNeedsAllVotes ==
  \A i \in 1 .. Len(log), r \in Followers : <<log[i], r>> \in votes

(***************************************************************************)
(* consensus_send_request takes any message for its reply: so whatever is  *)
(* on its way to a waiting client must be the answer to the request it is  *)
(* waiting for, and the leader must have executed that request.            *)
(***************************************************************************)
AnswerMatchesRequest ==
  \A c \in Clients :
    cpc[c] = "waiting" =>
      \A k \in 1 .. Len(net[RecvFrom][c]) :
        LET m == net[RecvFrom][c][k]
            cmd == <<c, request_count[c]>>
        IN  /\ m.tag = "RESP" /\ Command(m) = cmd
            /\ \E i \in 1 .. Len(applied[Leader]) : applied[Leader][i] = cmd

(***************************************************************************)
(* How many clients may share the channels.  While the leader waits in     *)
(* smlt_send for room towards a follower it receives nothing; if that      *)
(* follower waits for room towards the leader, both wait forever (Progress *)
(* fails).  Nothing in the code bounds the number of requests in progress  *)
(* but the number of clients.  The wait needs Cap + 1 clients whose RDYs   *)
(* fill the channel back and the follower's hands, and Cap + 1 messages    *)
(* the other way, of which two (the COM of its last request and the PREP   *)
(* of its next) can be of one client: it is impossible up to SafeClients   *)
(* clients, and TLC finds it for one client more.                          *)
(***************************************************************************)
SafeClients == Cap + (Cap + 2) \div 2
==============================================================================
