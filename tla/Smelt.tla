-------------------------------- MODULE Smelt --------------------------------
(***************************************************************************)
(* The channels of the Smelt library as the replicas and clients use them: *)
(* one FIFO per ordered pair of cores, holding at most Cap messages.       *)
(* smlt_send blocks while the channel is full, smlt_recv while it is       *)
(* empty, smlt_can_recv polls.  Nothing is lost, duplicated or reordered,  *)
(* and every caller ignores the returned error value ("TODO").             *)
(*                                                                         *)
(* A module that uses the channels keeps them in a variable that maps a    *)
(* sender and a receiver to the sequence of messages in flight.            *)
(***************************************************************************)
EXTENDS Naturals, Sequences, FiniteSets

CONSTANT Cap    \* slots of one channel

ASSUME CapAssumption == Cap \in Nat \ {0}

(* smlt_can_recv(from), called on core to. *)
CanRecv(net, from, to) == net[from][to] # << >>

(* The condition under which smlt_send(to, _), called on core from, returns. *)
CanSend(net, from, to) == Len(net[from][to]) < Cap

(* The channels after core from has sent m to core to. *)
Sent(net, from, to, m) == [net EXCEPT ![from][to] = Append(@, m)]

(* The channels after core to has received the oldest message of from. *)
Received(net, from, to) == [net EXCEPT ![from][to] = Tail(@)]

EmptyNet(cores) == [from \in cores |-> [to \in cores |-> << >>]]
==============================================================================
