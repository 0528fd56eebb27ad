------------------------------ MODULE Broadcast ------------------------------
(***************************************************************************)
(* broadcast_replica.c, at the node level and without an algorithm below,  *)
(* in the build that sends point to point.                                 *)
(*                                                                         *)
(* The leader (id 0) polls the clients and sends each request to every     *)
(* follower, one after the other, before it executes and answers it.  No   *)
(* follower acknowledges anything.                                         *)
(***************************************************************************)
EXTENDS Replica

ASSUME AnswersFromLeader == RecvFrom = Leader

VARIABLE dst    \* leader: loop variable i of the loop over the replicas

replicaVars == <<pc, msg, dst, log, applied>>
vars == <<clientVars, replicaVars>>

Init ==
  /\ ClientInit
  /\ ReplicaInit
  /\ dst = Leader

handle_setup(src) ==
  /\ Takes(Leader, src, "SETUP")
  /\ Enters(Leader, "setup", Head(net[src][Leader]))
  /\ UNCHANGED <<cpc, request_count, dst, log, applied>>

handle_setup_send ==
  /\ Sends(Leader, "setup", msg[Leader].cid)
  /\ Returns(Leader)
  /\ UNCHANGED <<cpc, request_count, dst, log, applied>>

(* The order in which requests are taken up is the order of the log. *)
handle_request(src) ==
  /\ Takes(Leader, src, "REQ")
  /\ LET m == Head(net[src][Leader])
     IN  /\ Enters(Leader, "commit", [m EXCEPT !.tag = "COMMIT"])
         /\ log' = Append(log, Command(m))
  /\ dst' = 1
  /\ UNCHANGED <<cpc, request_count, applied>>

handle_request_send_short ==
  /\ Sends(Leader, "commit", dst)
  /\ IF dst >= N - 2
     THEN dst' = Leader /\ pc' = [pc EXCEPT ![Leader] = "execute"]
     ELSE dst' = dst + 1 /\ UNCHANGED pc
  /\ UNCHANGED <<cpc, request_count, msg, log, applied>>

(* One turn of "for (i = 1; i < num_replicas; i++) smlt_send(replicas[i])". *)
handle_request_send ==
  /\ Sends(Leader, "commit", dst)
  /\ IF dst = N - 1
     THEN dst' = Leader /\ pc' = [pc EXCEPT ![Leader] = "execute"]
     ELSE dst' = dst + 1 /\ UNCHANGED pc
  /\ UNCHANGED <<cpc, request_count, msg, log, applied>>

handle_request_execute ==
  /\ pc[Leader] = "execute"
  /\ update_value(Leader, msg[Leader])
  /\ pc' = [pc EXCEPT ![Leader] = "respond"]
  /\ UNCHANGED <<clientVars, msg, dst, log>>

handle_request_respond_lost ==
  /\ pc[Leader] = "respond"
  /\ Returns(Leader)
  /\ UNCHANGED <<clientVars, dst, log, applied>>

(* The answer keeps the tag BROAD_COMMIT. *)
handle_request_respond ==
  /\ Sends(Leader, "respond", msg[Leader].cid)
  /\ Returns(Leader)
  /\ UNCHANGED <<cpc, request_count, dst, log, applied>>

handle_commit_twice(r) ==
  /\ Takes(r, Leader, "COMMIT")
  /\ applied' = [applied EXCEPT ![r] = @ \o << Command(Head(net[Leader][r])),
                                               Command(Head(net[Leader][r])) >>]
  /\ UNCHANGED <<cpc, request_count, pc, msg, dst, log>>

handle_commit_skip(r) ==
  /\ Takes(r, Leader, "COMMIT")
  /\ UNCHANGED <<cpc, request_count, replicaVars>>

handle_commit(r) ==
  /\ Takes(r, Leader, "COMMIT")
  /\ update_value(r, Head(net[Leader][r]))
  /\ UNCHANGED <<cpc, request_count, pc, msg, dst, log>>

------------------------------------------------------------------------------

(* message_handler_broadcast, for a message of a client at the leader. *)
LeaderReceive(src) == handle_setup(src) \/ handle_request(src)

LeaderContinue ==
  \/ handle_setup_send
  \/ handle_request_send
  \/ handle_request_execute
  \/ handle_request_respond

ClientMoves(c) == ClientStep(c) /\ UNCHANGED replicaVars

Terminated == Quiescent /\ UNCHANGED vars

Next ==
  \/ \E c \in Clients : ClientMoves(c) \/ LeaderReceive(c)
  \/ LeaderContinue
  \/ \E r \in Followers : handle_commit(r)
  \/ Terminated

Spec == Init /\ [][Next]_vars

(***************************************************************************)
(* Every thread keeps running, and the leader's loop visits the clients in *)
(* turn (j++, modulo num_clients): strong fairness of each client.         *)
(***************************************************************************)
Fairness ==
  /\ \A c \in Clients : WF_vars(ClientMoves(c)) /\ SF_vars(LeaderReceive(c))
  /\ WF_vars(LeaderContinue)
  /\ \A r \in Followers : WF_vars(handle_commit(r))

FairSpec == Spec /\ Fairness

------------------------------------------------------------------------------
(* Correctness *)

(* The number of commands sent to r: the loop has reached r, or not. *)
CommitsSent(r) ==
  IF pc[Leader] = "commit" /\ dst <= r THEN Len(log) - 1 ELSE Len(log)

(***************************************************************************)
(* Nobody acknowledges and nobody compares positions: so the channel to a  *)
(* follower must hold exactly the commands it has not executed, in order.  *)
(***************************************************************************)
CommitsInTransit ==
  \A r \in Followers :
    LET s == net[Leader][r]
        a == Len(applied[r])
    IN  /\ a + Len(s) = CommitsSent(r)
        /\ \A k \in 1 .. Len(s) : s[k].tag = "COMMIT" /\ Command(s[k]) = log[a + k]

(***************************************************************************)
(* "send reply that broadcast is finished": a client gets the answer to    *)
(* its own request, after the leader has executed it and every follower    *)
(* has it in its channel or behind it.                                     *)
(***************************************************************************)
AnswerAfterBroadcast ==
  \A c \in Clients : cpc[c] = "waiting" =>
    \A k \in 1 .. Len(net[Leader][c]) :
      LET cmd == <<c, request_count[c]>>
      IN  /\ Command(net[Leader][c][k]) = cmd
          /\ \E i \in 1 .. Len(applied[Leader]) :
               /\ applied[Leader][i] = cmd
               /\ \A r \in Followers : i <= Len(applied[r]) + Len(net[Leader][r])
==============================================================================
