------------------------------- MODULE Replica -------------------------------
(***************************************************************************)
(* What the replicas of all protocols have in common: a thread that polls  *)
(* channels and runs one message handler at a time, on one message buffer. *)
(*                                                                         *)
(* smlt_send may block in the middle of a handler, so a handler is split   *)
(* at each of its sends: its first action receives the message and does    *)
(* what comes before the first send, and pc and msg hold the place in the  *)
(* handler and the buffer, which the handler rewrites as it goes.          *)
(***************************************************************************)
EXTENDS Client

VARIABLES
  pc,      \* per replica: "poll", or its place in the handler it is inside of
  msg,     \* per replica: the message buffer while it is in a handler
  log,     \* history: the commands, in the order the leader gave them
  applied  \* history: what each replica has executed (update_value)

(* The buffer between two messages: smlt_recv overwrites it before any read. *)
NoMsg == [tag |-> "none"]

ReplicaInit ==
  /\ pc = [r \in Replicas |-> "poll"]
  /\ msg = [r \in Replicas |-> NoMsg]
  /\ log = << >>
  /\ applied = [r \in Replicas |-> << >>]

(* Replica r, polling, takes a message with tag t from src off its channel. *)
Takes(r, src, t) ==
  /\ pc[r] = "poll"
  /\ CanRecv(net, src, r)
  /\ Head(net[src][r]).tag = t
  /\ net' = Received(net, src, r)

(* Replica r goes on inside its handler with message m in the buffer. *)
Enters(r, where, m) ==
  /\ pc' = [pc EXCEPT ![r] = where]
  /\ msg' = [msg EXCEPT ![r] = m]

(* Replica r returns from its handler to the polling loop. *)
Returns(r) ==
  /\ pc' = [pc EXCEPT ![r] = "poll"]
  /\ msg' = [msg EXCEPT ![r] = NoMsg]

(* Replica r, at place where of its handler, sends its buffer to node d. *)
Sends(r, where, d) ==
  /\ pc[r] = where
  /\ CanSend(net, r, d)
  /\ net' = Sent(net, r, d, msg[r])

(* exec_fn on the command in the buffer. *)
update_value(r, m) == applied' = [applied EXCEPT ![r] = Append(@, Command(m))]

(* All requests are served: only the bound MaxReq stops the system. *)
Quiescent ==
  /\ ClientsDone
  /\ NetEmpty
  /\ \A r \in Replicas : pc[r] = "poll"

(***************************************************************************)
(* Every replica has executed a prefix of the one log: no handler compares *)
(* the place of a command in the log with what the replica has executed,   *)
(* so this rests on every command reaching every replica, in order, once.  *)
(***************************************************************************)
Agreement ==
  \A r \in Replicas :
    /\ Len(applied[r]) <= Len(log)
    /\ \A i \in 1 .. Len(applied[r]) : applied[r][i] = log[i]

(* Every request is answered. *)
EveryRequestAnswered ==
  \A c \in Clients : cpc[c] = "waiting" ~> cpc[c] = "idle"

(* Every command that is ordered is executed by every replica. *)
EveryCommandApplied ==
  \A r \in Replicas, n \in 1 .. Cardinality(Clients) * MaxReq :
    Len(log) >= n ~> Len(applied[r]) >= n

(***************************************************************************)
(* Nothing waits forever, although the leader polls one channel at a time  *)
(* and every send may block: requests are answered, commands executed.     *)
(***************************************************************************)
Progress == EveryRequestAnswered /\ EveryCommandApplied

(* The promise of the protocols to the clients. *)
Abstract == INSTANCE ReplicatedLog WITH
  issued   <- [c \in Clients |-> request_count[c] + IF cpc[c] = "waiting" THEN 1 ELSE 0],
  answered <- request_count

(* The protocol implements the replicated log. *)
ImplementsReplicatedLog == Abstract!Spec
==============================================================================
