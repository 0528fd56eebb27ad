-------------------------------- MODULE Chain --------------------------------
(***************************************************************************)
(* chain_replica.c, at the node level and without an algorithm below.      *)
(*                                                                         *)
(* The head (id 0) polls the clients, every other replica its left         *)
(* neighbour.  A command travels down the chain; each replica passes it on *)
(* before it executes it, and the tail answers the client before it        *)
(* executes it.  The clients receive from the tail.                        *)
(***************************************************************************)
EXTENDS Replica

Last == N - 1   \* is_tail

ASSUME AnswersFromTail == RecvFrom = Last

replicaVars == <<pc, msg, log, applied>>
vars == <<clientVars, replicaVars>>

Init == ClientInit /\ ReplicaInit

------------------------------------------------------------------------------
(* The head. *)

handle_setup(src) ==
  /\ Takes(Leader, src, "SETUP")
  /\ Enters(Leader, "setup", Head(net[src][Leader]))
  /\ UNCHANGED <<cpc, request_count, log, applied>>

handle_setup_send ==
  /\ Sends(Leader, "setup", msg[Leader].cid)
  /\ Returns(Leader)
  /\ UNCHANGED <<cpc, request_count, log, applied>>

(* The order in which requests are taken up is the order of the log. *)
handle_request(src) ==
  /\ Takes(Leader, src, "REQ")
  /\ LET m == Head(net[src][Leader])
     IN  /\ Enters(Leader, "forward", [m EXCEPT !.tag = "COMMIT"])
         /\ log' = Append(log, Command(m))
  /\ UNCHANGED <<cpc, request_count, applied>>

------------------------------------------------------------------------------
(* Any replica. *)

(* A command passed on is executed next, and then the handler returns. *)
forward(r) ==
  /\ Sends(r, "forward", r + 1)
  /\ pc' = [pc EXCEPT ![r] = "execute"]
  /\ UNCHANGED <<cpc, request_count, msg, log, applied>>

execute_skip(r) ==
  /\ pc[r] = "execute"
  /\ Returns(r)
  /\ UNCHANGED <<clientVars, log, applied>>

execute(r) ==
  /\ pc[r] = "execute"
  /\ update_value(r, msg[r])
  /\ Returns(r)
  /\ UNCHANGED <<clientVars, log>>

handle_commit_early(r) ==
  /\ Takes(r, r - 1, "COMMIT")
  /\ LET m == Head(net[r - 1][r])
     IN  IF r # Last
         THEN Enters(r, "forward", m) /\ UNCHANGED applied
         ELSE Enters(r, "respond", [m EXCEPT !.tag = "RESP"]) /\ update_value(r, m)
  /\ UNCHANGED <<cpc, request_count, log>>

(* A command from the left neighbour: the tail answers, others pass it on. *)
handle_commit(r) ==
  /\ Takes(r, r - 1, "COMMIT")
  /\ LET m == Head(net[r - 1][r])
     IN  IF r # Last
         THEN Enters(r, "forward", m)
         ELSE Enters(r, "respond", [m EXCEPT !.tag = "RESP"])
  /\ UNCHANGED <<cpc, request_count, log, applied>>

handle_commit_respond_lost ==
  /\ pc[Last] = "respond"
  /\ pc' = [pc EXCEPT ![Last] = "execute"]
  /\ UNCHANGED <<clientVars, msg, log, applied>>

handle_commit_respond ==
  /\ Sends(Last, "respond", msg[Last].cid)
  /\ pc' = [pc EXCEPT ![Last] = "execute"]
  /\ UNCHANGED <<cpc, request_count, msg, log, applied>>

------------------------------------------------------------------------------

(* message_handler_chain, for a message of a client at the head. *)
HeadReceive(src) == handle_setup(src) \/ handle_request(src)

HeadContinue == handle_setup_send \/ forward(Leader) \/ execute(Leader)

FollowerStep(r) ==
  \/ handle_commit(r)
  \/ r # Last /\ forward(r)
  \/ r = Last /\ handle_commit_respond
  \/ execute(r)

ClientMoves(c) == ClientStep(c) /\ UNCHANGED replicaVars

Terminated == Quiescent /\ UNCHANGED vars

Next ==
  \/ \E c \in Clients : ClientMoves(c) \/ HeadReceive(c)
  \/ HeadContinue
  \/ \E r \in Followers : FollowerStep(r)
  \/ Terminated

Spec == Init /\ [][Next]_vars

(***************************************************************************)
(* Every thread keeps running, and the head's loop visits the clients in   *)
(* turn (j++, modulo num_clients): strong fairness of each client.         *)
(***************************************************************************)
Fairness ==
  /\ \A c \in Clients : WF_vars(ClientMoves(c)) /\ SF_vars(HeadReceive(c))
  /\ WF_vars(HeadContinue)
  /\ \A r \in Followers : WF_vars(FollowerStep(r))

FairSpec == Spec /\ Fairness

------------------------------------------------------------------------------
(* Correctness *)

(* The commands replica r has passed to its right neighbour. *)
Forwarded(r) == Len(applied[r]) + IF pc[r] = "execute" THEN 1 ELSE 0

(* The commands replica r has taken from its left neighbour. *)
Accepted(r) ==
  Len(applied[r]) + IF pc[r] \in {"forward", "respond", "execute"} THEN 1 ELSE 0

(***************************************************************************)
(* Between two neighbours the channel holds exactly the commands that one  *)
(* has passed on and the other has not taken, in the order of the log.     *)
(***************************************************************************)
LinksHoldLog ==
  \A r \in Followers :
    LET s == net[r - 1][r]
    IN  /\ Accepted(r) + Len(s) = Forwarded(r - 1)
        /\ \A k \in 1 .. Len(s) : Command(s[k]) = log[Accepted(r) + k]

(* Replica r has executed cmd, or holds it in its hands to execute it next. *)
HasOrHolds(r, cmd) ==
  \/ \E i \in 1 .. Len(applied[r]) : applied[r][i] = cmd
  \/ pc[r] = "execute" /\ Command(msg[r]) = cmd

(***************************************************************************)
(* The tail answers before it executes: still an answer is the one to the  *)
(* client's own request, and no replica can execute another command before *)
(* the one that is answered.                                               *)
(***************************************************************************)
AnswerHeldByAll ==
  \A c \in Clients :
    /\ cpc[c] = "waiting" =>
         \A k \in 1 .. Len(net[Last][c]) :
           /\ Command(net[Last][c][k]) = <<c, request_count[c]>>
           /\ \A r \in Replicas : HasOrHolds(r, <<c, request_count[c]>>)
    /\ \A k \in 0 .. request_count[c] - 1, r \in Replicas : HasOrHolds(r, <<c, k>>)
==============================================================================
