---------------------------- MODULE ReplicatedLog ----------------------------
(***************************************************************************)
(* What every agreement protocol of this library promises its caller: the  *)
(* requests of the clients are put in one order, every replica executes    *)
(* them in that order without gaps or repetitions, and a client is         *)
(* answered only for a request that has its place in the order.            *)
(*                                                                         *)
(* A client numbers its requests 0, 1, 2, ... and has at most one that is  *)
(* not answered; request k of client c is the command <<c, k>>.            *)
(***************************************************************************)
EXTENDS Naturals, Sequences

CONSTANTS Replicas, Clients

VARIABLES
  issued,   \* per client, how many requests it has issued
  answered, \* per client, how many of them are answered
  log,      \* the commands, in the agreed order
  applied   \* per replica, the commands it has executed, in order

vars == <<issued, answered, log, applied>>

InLog(cmd) == \E i \in 1 .. Len(log) : log[i] = cmd

Init ==
  /\ issued   = [c \in Clients |-> 0]
  /\ answered = [c \in Clients |-> 0]
  /\ log      = << >>
  /\ applied  = [r \in Replicas |-> << >>]

Issue(c) ==
  /\ answered[c] = issued[c]
  /\ issued' = [issued EXCEPT ![c] = @ + 1]
  /\ UNCHANGED <<answered, log, applied>>

Decide(c) ==
  /\ answered[c] < issued[c]
  /\ ~InLog(<<c, answered[c]>>)
  /\ log' = Append(log, <<c, answered[c]>>)
  /\ UNCHANGED <<issued, answered, applied>>

Apply(r) ==
  /\ Len(applied[r]) < Len(log)
  /\ applied' = [applied EXCEPT ![r] = Append(@, log[Len(@) + 1])]
  /\ UNCHANGED <<issued, answered, log>>

Answer(c) ==
  /\ answered[c] < issued[c]
  /\ InLog(<<c, answered[c]>>)
  /\ answered' = [answered EXCEPT ![c] = @ + 1]
  /\ UNCHANGED <<issued, log, applied>>

Next ==
  \/ \E c \in Clients : Issue(c) \/ Decide(c) \/ Answer(c)
  \/ \E r \in Replicas : Apply(r)

Spec == Init /\ [][Next]_vars
==============================================================================
