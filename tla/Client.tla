------------------------------- MODULE Client --------------------------------
(***************************************************************************)
(* client.c: a client registers with the leader (init_consensus_client),   *)
(* then issues requests one at a time (consensus_send_request): it sends   *)
(* to its current_leader and blocks in smlt_recv on its recv_from core.    *)
(* It takes whatever message arrives there for the reply: neither the tag, *)
(* nor the client id, nor the request id is looked at.                     *)
(*                                                                         *)
(* The leader's array clients[] is a bijection between the clients' cores  *)
(* and their ids, so one name stands for both here.                        *)
(***************************************************************************)
EXTENDS Smelt

CONSTANTS
  N,          \* num_replicas; replica 0 is current_leader of every client
  Clients,    \* the clients
  RecvFrom,   \* recv_from: the replica that answers the clients
  MaxReq      \* bound: requests a client issues

Replicas  == 0 .. N - 1
Leader    == 0
Followers == Replicas \ {Leader}
Nodes     == Replicas \cup Clients

ASSUME ReplicasAssumption == N \in Nat /\ N >= 2
ASSUME ClientsAssumption  == Clients \cap Nat = {}
ASSUME RecvFromAssumption == RecvFrom \in Replicas
ASSUME MaxReqAssumption   == MaxReq \in Nat

VARIABLES
  net,          \* the channels
  cpc,          \* where each client is: "new", "joining", "idle" or "waiting"
  request_count \* per client, the id of its current or next request

clientVars == <<net, cpc, request_count>>

(***************************************************************************)
(* A message is its header (tag, client id, request id) and idx, the word  *)
(* data[3]: recv_from in a request, and then what the protocol puts there  *)
(* (the place of the command in the log, with two-phase commit).  The      *)
(* payload, data[4..6], is a function of the client and the request.       *)
(***************************************************************************)
Command(m) == <<m.cid, m.rid>>

Commands == Clients \X Nat

Message(tag, c, rid, idx) == [tag |-> tag, cid |-> c, rid |-> rid, idx |-> idx]

ClientInit ==
  /\ net = EmptyNet(Nodes)
  /\ cpc = [c \in Clients |-> "new"]
  /\ request_count = [c \in Clients |-> 0]

(* init_consensus_client up to its smlt_send of the SETUP message. *)
init_consensus_client(c) ==
  /\ cpc[c] = "new"
  /\ CanSend(net, c, Leader)
  /\ net' = Sent(net, c, Leader, Message("SETUP", c, 0, 0))
  /\ cpc' = [cpc EXCEPT ![c] = "joining"]
  /\ UNCHANGED request_count

(* Its smlt_recv from the leader: the client has its id. *)
init_consensus_client_recv(c) ==
  /\ cpc[c] = "joining"
  /\ CanRecv(net, Leader, c)
  /\ net' = Received(net, Leader, c)
  /\ cpc' = [cpc EXCEPT ![c] = "idle"]
  /\ UNCHANGED request_count

consensus_send_request_nowait(c) ==
  /\ cpc[c] = "idle"
  /\ request_count[c] < MaxReq
  /\ CanSend(net, c, Leader)
  /\ net' = Sent(net, c, Leader, Message("REQ", c, request_count[c], RecvFrom))
  /\ request_count' = [request_count EXCEPT ![c] = @ + 1]
  /\ UNCHANGED cpc

(* consensus_send_request up to its smlt_send of the request. *)
consensus_send_request(c) ==
  /\ cpc[c] = "idle"
  /\ request_count[c] < MaxReq
  /\ CanSend(net, c, Leader)
  /\ net' = Sent(net, c, Leader, Message("REQ", c, request_count[c], RecvFrom))
  /\ cpc' = [cpc EXCEPT ![c] = "waiting"]
  /\ UNCHANGED request_count

(* Its smlt_recv of any message from recv_from, and request_count++. *)
consensus_send_request_recv(c) ==
  /\ cpc[c] = "waiting"
  /\ CanRecv(net, RecvFrom, c)
  /\ net' = Received(net, RecvFrom, c)
  /\ cpc' = [cpc EXCEPT ![c] = "idle"]
  /\ request_count' = [request_count EXCEPT ![c] = @ + 1]

ClientStep(c) ==
  \/ init_consensus_client(c)
  \/ init_consensus_client_recv(c)
  \/ consensus_send_request(c)
  \/ consensus_send_request_recv(c)

ClientsDone == \A c \in Clients : cpc[c] = "idle" /\ request_count[c] = MaxReq

NetEmpty == \A from, to \in Nodes : ~CanRecv(net, from, to)
==============================================================================
