--------------------------------- MODULE Raft ---------------------------------
(***************************************************************************)
(* raft_replica.c, at the node level and without an algorithm below.       *)
(*                                                                         *)
(* Replica 0 leads for good: heartbeats, elections and timeouts are        *)
(* commented out of the code.  For each request the leader appends an      *)
(* entry, sends APP to every follower, and then, still inside of           *)
(* handle_request, waits for the response of one follower after the other. *)
(* It executes and answers as soon as the commit index reaches the entry;  *)
(* a follower learns the commit index with the next APP.                   *)
(*                                                                         *)
(* A log is a linked list that both sides prune, so that most of the code  *)
(* rests on an entry still being there when it is looked up: the result of *)
(* queue_contains is dereferenced without a test.                          *)
(***************************************************************************)
EXTENDS Replica, FiniteSetsExt

(* The leader answers. *)
ASSUME AnswersFromLeader == RecvFrom = Leader

VARIABLES
  dst,             \* leader: loop variable i of the two loops of handle_request
  queue,           \* per replica, the entries in its list
  last_log_index,  \* per replica
  commit_index,    \* per replica
  match_index      \* leader: what each replica is known to hold; 0 for itself

raftVars == <<queue, last_log_index, commit_index, match_index>>
replicaVars == <<pc, msg, dst, log, applied, raftVars>>
vars == <<clientVars, replicaVars>>

(* applied is the history of last_applied. *)
last_applied(r) == Len(applied[r])

Entry(i, cmd) == [index |-> i, cmd |-> cmd, exec_count |-> 0]

queue_contains(q, i) == \E e \in q : e.index = i

(* What queue_contains returns, for an index that is in the list. *)
Lookup(q, i) == CHOOSE e \in q : e.index = i

remove_entry(q, i) == {e \in q : e.index # i}

(* "ele->exec_count++" on entry i. *)
Counted(q, i) ==
  {IF e.index = i THEN [e EXCEPT !.exec_count = @ + 1] ELSE e : e \in q}

cleanup_queue_early(q, commit) ==
  {e \in q : ~(e.exec_count > N \div 2 /\ e.index <= commit)}

cleanup_queue_never(q, commit) == q

(* commit is at least 1 here: the subtraction does not wrap. *)
cleanup_queue(q, commit) ==
  {e \in q : ~(e.exec_count = N /\ e.index < commit - 1)}

(* The code counts the followers only: the leader is the one that is missing. *)
majority == (N - 1) \div 2

HeldByMajority(match, i) == Cardinality({j \in Replicas : match[j] >= i}) >= majority

(* The loop over match_index raises the commit index to the largest such index. *)
update_commit_index_leader(match, commit) ==
  Max({commit} \cup {match[i] : i \in {j \in Replicas : HeldByMajority(match, match[j])}})

(* data[2] is an index, data[3] the leader's commit index or the sender's id. *)
RaftMessage(tag, m, index, idx) ==
  [tag |-> tag, cid |-> m.cid, rid |-> m.rid, index |-> index, idx |-> idx]

(* Entry 0 is there from the start and carries no command. *)
Init ==
  /\ ClientInit
  /\ ReplicaInit
  /\ dst = Leader
  /\ queue = [r \in Replicas |-> {Entry(0, << >>)}]
  /\ last_log_index = [r \in Replicas |-> 0]
  /\ commit_index = [r \in Replicas |-> 0]
  /\ match_index = [r \in Replicas |-> 0]

------------------------------------------------------------------------------
(* The leader. *)

handle_setup(src) ==
  /\ Takes(Leader, src, "SETUP")
  /\ Enters(Leader, "setup", Head(net[src][Leader]))
  /\ UNCHANGED <<cpc, request_count, dst, log, applied, raftVars>>

handle_setup_send ==
  /\ Sends(Leader, "setup", msg[Leader].cid)
  /\ Returns(Leader)
  /\ UNCHANGED <<cpc, request_count, dst, log, applied, raftVars>>

(* The order in which requests are taken up is the order of the log. *)
handle_request(src) ==
  /\ Takes(Leader, src, "REQ")
  /\ LET m == Head(net[src][Leader])
         i == last_log_index[Leader] + 1
     IN  /\ last_log_index' = [last_log_index EXCEPT ![Leader] = i]
         /\ queue' = [queue EXCEPT ![Leader] = @ \cup {Entry(i, Command(m))}]
         /\ Enters(Leader, "append", RaftMessage("APP", m, i - 1, commit_index[Leader]))
         /\ log' = Append(log, Command(m))
  /\ dst' = 1
  /\ UNCHANGED <<cpc, request_count, applied, commit_index, match_index>>

(* One turn of the loop that sends APP to the followers. *)
handle_request_send ==
  /\ Sends(Leader, "append", dst)
  /\ IF dst = N - 1
     THEN dst' = 1 /\ pc' = [pc EXCEPT ![Leader] = "collect"]
     ELSE dst' = dst + 1 /\ UNCHANGED pc
  /\ UNCHANGED <<cpc, request_count, msg, log, applied, raftVars>>

(***************************************************************************)
(* One turn of the loop that receives into buf and handles the response.   *)
(* All responses are successes and none is behind: see RoundsMatch.        *)
(***************************************************************************)
handle_append_response ==
  /\ pc[Leader] = "collect"
  /\ CanRecv(net, dst, Leader)
  /\ net' = Received(net, dst, Leader)
  /\ LET m == Head(net[dst][Leader])
     IN  /\ match_index' = [match_index EXCEPT ![m.idx] = m.index]
         /\ queue' = [queue EXCEPT ![Leader] = Counted(@, m.index)]
         /\ commit_index' = [commit_index EXCEPT
              ![Leader] = update_commit_index_leader(match_index', @)]
         /\ Enters(Leader, "apply", m)
  /\ UNCHANGED <<cpc, request_count, dst, log, applied, last_log_index>>

NextEntry_mut(r) == Lookup(queue[r], last_applied(r))

(* The entry that update_applied_entries of replica r executes next. *)
NextEntry(r) == Lookup(queue[r], last_applied(r) + 1)

update_applied_entries_leader ==
  /\ pc[Leader] = "apply"
  /\ last_applied(Leader) < commit_index[Leader]
  /\ applied' = [applied EXCEPT ![Leader] = Append(@, NextEntry(Leader).cmd)]
  /\ pc' = [pc EXCEPT ![Leader] = "respond"]
  /\ UNCHANGED <<clientVars, msg, dst, log, raftVars>>

update_applied_entries_respond_prev ==
  LET i == last_applied(Leader)
  IN  /\ Sends(Leader, "respond", Lookup(queue[Leader], Max({1, i - 1})).cmd[1])
      /\ queue' = [queue EXCEPT
           ![Leader] = cleanup_queue(Counted(@, i), commit_index[Leader])]
      /\ pc' = [pc EXCEPT ![Leader] = "apply"]
      /\ UNCHANGED <<cpc, request_count, msg, dst, log, applied, last_log_index,
                     commit_index, match_index>>

update_applied_entries_respond_lost ==
  /\ pc[Leader] = "respond"
  /\ pc' = [pc EXCEPT ![Leader] = "apply"]
  /\ UNCHANGED <<clientVars, msg, dst, log, applied, raftVars>>

(* The client is the one of the entry; what it gets is whatever is in buf. *)
update_applied_entries_respond ==
  LET i == last_applied(Leader)
  IN  /\ Sends(Leader, "respond", Lookup(queue[Leader], i).cmd[1])
      /\ queue' = [queue EXCEPT
           ![Leader] = cleanup_queue(Counted(@, i), commit_index[Leader])]
      /\ pc' = [pc EXCEPT ![Leader] = "apply"]
      /\ UNCHANGED <<cpc, request_count, msg, dst, log, applied, last_log_index,
                     commit_index, match_index>>

handle_append_response_return_early ==
  /\ pc[Leader] = "apply"
  /\ last_applied(Leader) = commit_index[Leader]
  /\ IF last_applied(Leader) = last_log_index[Leader]
     THEN dst' = Leader /\ Returns(Leader)
     ELSE dst' = dst + 1 /\ pc' = [pc EXCEPT ![Leader] = "collect"] /\ UNCHANGED msg
  /\ UNCHANGED <<clientVars, log, applied, raftVars>>

(* Back in the loop of handle_request, or at its end. *)
handle_append_response_return ==
  /\ pc[Leader] = "apply"
  /\ last_applied(Leader) = commit_index[Leader]
  /\ IF dst = N - 1
     THEN dst' = Leader /\ Returns(Leader)
     ELSE dst' = dst + 1 /\ pc' = [pc EXCEPT ![Leader] = "collect"] /\ UNCHANGED msg
  /\ UNCHANGED <<clientVars, log, applied, raftVars>>

------------------------------------------------------------------------------
(* A follower. *)

handle_append_eager(r) ==
  /\ Takes(r, Leader, "APP")
  /\ LET m == Head(net[Leader][r])
         i == m.index + 1
     IN  /\ queue' = [queue EXCEPT ![r] = @ \cup {Entry(i, Command(m))}]
         /\ last_log_index' = [last_log_index EXCEPT ![r] = i]
         /\ commit_index' = [commit_index EXCEPT ![r] = i]
         /\ Enters(r, "reply", RaftMessage("APPR", m, i, r))
  /\ UNCHANGED <<cpc, request_count, dst, log, applied, match_index>>

handle_append_noinc(r) ==
  /\ Takes(r, Leader, "APP")
  /\ LET m == Head(net[Leader][r])
         i == Max({1, m.index})
     IN  /\ queue' = [queue EXCEPT ![r] = @ \cup {Entry(i, Command(m))}]
         /\ last_log_index' = [last_log_index EXCEPT ![r] = i]
         /\ commit_index' = [commit_index EXCEPT ![r] = Max({@, Min({m.idx, i})})]
         /\ Enters(r, "reply", RaftMessage("APPR", m, i, r))
  /\ UNCHANGED <<cpc, request_count, dst, log, applied, match_index>>

(***************************************************************************)
(* The terms are equal, the entry before is there and the entry itself is  *)
(* not: see EntriesPresent.  The branches for the other cases are left out.*)
(***************************************************************************)
handle_append(r) ==
  /\ Takes(r, Leader, "APP")
  /\ LET m == Head(net[Leader][r])
         i == m.index + 1
     IN  /\ queue' = [queue EXCEPT ![r] = @ \cup {Entry(i, Command(m))}]
         /\ last_log_index' = [last_log_index EXCEPT ![r] = i]
         /\ commit_index' = [commit_index EXCEPT ![r] = Max({@, Min({m.idx, i})})]
         /\ Enters(r, "reply", RaftMessage("APPR", m, i, r))
  /\ UNCHANGED <<cpc, request_count, dst, log, applied, match_index>>

handle_append_send(r) ==
  /\ Sends(r, "reply", Leader)
  /\ pc' = [pc EXCEPT ![r] = "apply"]
  /\ UNCHANGED <<cpc, request_count, msg, dst, log, applied, raftVars>>

(* One turn of the loop: execute an entry, free the one two places before it. *)
update_applied_entries(r) ==
  /\ pc[r] = "apply"
  /\ last_applied(r) < commit_index[r]
  /\ LET i == last_applied(r) + 1
     IN  /\ applied' = [applied EXCEPT ![r] = Append(@, NextEntry(r).cmd)]
         /\ queue' = [queue EXCEPT ![r] = IF i > 2 THEN remove_entry(@, i - 2) ELSE @]
  /\ UNCHANGED <<clientVars, pc, msg, dst, log, last_log_index, commit_index,
                 match_index>>

handle_append_return(r) ==
  /\ pc[r] = "apply"
  /\ last_applied(r) = commit_index[r]
  /\ Returns(r)
  /\ UNCHANGED <<clientVars, dst, log, applied, raftVars>>

------------------------------------------------------------------------------

(* message_handler_raft, for a message of a client at the leader. *)
LeaderReceive(src) == handle_setup(src) \/ handle_request(src)

LeaderContinue ==
  \/ handle_setup_send
  \/ handle_request_send
  \/ handle_append_response
  \/ update_applied_entries_leader
  \/ update_applied_entries_respond
  \/ handle_append_response_return

FollowerStep(r) ==
  \/ handle_append(r)
  \/ handle_append_send(r)
  \/ update_applied_entries(r)
  \/ handle_append_return(r)

ClientMoves(c) == ClientStep(c) /\ UNCHANGED replicaVars

Terminated == Quiescent /\ UNCHANGED vars

Next ==
  \/ \E c \in Clients : ClientMoves(c) \/ LeaderReceive(c)
  \/ LeaderContinue
  \/ \E r \in Followers : FollowerStep(r)
  \/ Terminated

Spec == Init /\ [][Next]_vars

(***************************************************************************)
(* Every thread keeps running, and the leader's loop visits the clients in *)
(* turn (j++, modulo num_replicas + num_clients): strong fairness of each. *)
(***************************************************************************)
Fairness ==
  /\ \A c \in Clients : WF_vars(ClientMoves(c)) /\ SF_vars(LeaderReceive(c))
  /\ WF_vars(LeaderContinue)
  /\ \A r \in Followers : WF_vars(FollowerStep(r))

FairSpec == Spec /\ Fairness

------------------------------------------------------------------------------
(* Correctness *)

(***************************************************************************)
(* Every entry that the next step looks up, and dereferences untested, is  *)
(* in the list: pruning on either side never overtakes the protocol.  And  *)
(* a follower finds the entry before the one it gets, and not that one.    *)
(***************************************************************************)
EntriesPresent ==
  /\ \A r \in Replicas : pc[r] = "apply" =>
       \A i \in last_applied(r) + 1 .. commit_index[r] : queue_contains(queue[r], i)
  /\ pc[Leader] = "respond" => queue_contains(queue[Leader], last_applied(Leader))
  /\ \A r \in Followers :
       /\ CanRecv(net, r, Leader) =>
            queue_contains(queue[Leader], Head(net[r][Leader]).index)
       /\ CanRecv(net, Leader, r) =>
            LET prev == Head(net[Leader][r]).index
            IN  queue_contains(queue[r], prev) /\ ~queue_contains(queue[r], prev + 1)

(***************************************************************************)
(* The pruning keeps up: besides entry 0, a list never holds more than the *)
(* last four entries.                                                      *)
(***************************************************************************)
ListsBounded ==
  \A r \in Replicas : \A e \in queue[r] :
    e.index > 0 => e.index + 4 > last_log_index[r]

(***************************************************************************)
(* Log matching: entry i is the same command in every list, although a     *)
(* follower compares nothing but the index of the entry before.            *)
(***************************************************************************)
LogMatching ==
  \A r \in Replicas : \A e \in queue[r] :
    e.index > 0 => e.index <= Len(log) /\ e.cmd = log[e.index]

(***************************************************************************)
(* The leader's loop also polls the followers, but a response is only      *)
(* understood inside of handle_request: it answers the client with the     *)
(* global buf.  So whenever the leader polls, every response is collected, *)
(* and every response it collects is about the entry it just appended.     *)
(***************************************************************************)
RoundsMatch ==
  \A r \in Followers :
    /\ pc[Leader] = "poll" =>
         /\ ~CanRecv(net, r, Leader)
         /\ ~CanRecv(net, Leader, r)
         /\ match_index[r] = last_log_index[Leader]
    /\ CanRecv(net, r, Leader) => Head(net[r][Leader]).index = last_log_index[Leader]

(* More than half of all replicas have entry i in their log. *)
Majority(i) == 2 * Cardinality({r \in Replicas : last_log_index[r] >= i}) > N

(***************************************************************************)
(* "Find N such that ... a majority of replica.match_index[] >= N": what   *)
(* any replica takes for committed, executes or answers is in the logs of  *)
(* more than half of the replicas.                                         *)
(***************************************************************************)
CommittedByMajority == \A r \in Replicas : Majority(commit_index[r])

(***************************************************************************)
(* An answer is the one to the client's own request, though what is sent   *)
(* is whatever response lies in buf.                                       *)
(***************************************************************************)
AnswerMatchesRequest ==
  \A c \in Clients : cpc[c] = "waiting" =>
    \A k \in 1 .. Len(net[Leader][c]) :
      LET cmd == <<c, request_count[c]>>
      IN  /\ Command(net[Leader][c][k]) = cmd
          /\ \E i \in 1 .. last_applied(Leader) : applied[Leader][i] = cmd

(* Without heartbeats a follower executes an entry when the next one comes. *)
FollowersOneBehind ==
  \A r \in Followers, n \in 1 .. Cardinality(Clients) * MaxReq - 1 :
    Len(log) > n ~> last_applied(r) >= n

(***************************************************************************)
(* Requests are answered; but of the commands, the followers execute the   *)
(* last one only if there is another: the heartbeat is commented out.      *)
(***************************************************************************)
ProgressOneBehind == EveryRequestAnswered /\ FollowersOneBehind
==============================================================================
