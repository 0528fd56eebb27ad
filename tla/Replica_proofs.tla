--------------------------- MODULE Replica_proofs ----------------------------
(***************************************************************************)
(* What the proofs about the protocols share: lemmas about the channels,   *)
(* about the steps of a client, and about the steps of the replicated log  *)
(* that the steps of clients and replicas implement.  M is the set of the  *)
(* messages of a protocol.                                                 *)
(***************************************************************************)
EXTENDS Replica, TLAPS, SequenceTheorems

Channels(M) == [Nodes -> [Nodes -> Seq(M)]]

ClientPCs == {"new", "joining", "idle", "waiting"}

ClientType ==
  /\ cpc \in [Clients -> ClientPCs]
  /\ request_count \in [Clients -> Nat]

HistoryType ==
  /\ log \in Seq(Commands)
  /\ applied \in [Replicas -> Seq(Commands)]

SetupMessage(c) == Message("SETUP", c, 0, 0)

RequestMessage(c) == Message("REQ", c, request_count[c], RecvFrom)

(* The command of the request that client c waits for, or sends next. *)
Current(c) == <<c, request_count[c]>>

(* The cores that send and receive are nodes, the leader among them. *)
LEMMA NodeFacts ==
  /\ Leader \in Replicas /\ Followers \subseteq Replicas
  /\ Replicas \subseteq Nodes /\ Clients \subseteq Nodes
  /\ Leader \in Nodes /\ Leader \notin Clients /\ RecvFrom \in Nodes
  /\ 1 \in Followers /\ N - 1 \in Followers
  /\ \A i \in Replicas : i # N - 1 => i + 1 \in Followers
  /\ Replicas \subseteq Nat
BY ReplicasAssumption, ClientsAssumption, RecvFromAssumption
   DEF Leader, Replicas, Followers, Nodes

(* No client is a replica. *)
LEMMA ClientNodes ==
  /\ RecvFrom \in Replicas /\ Clients \cap Replicas = {}
  /\ Leader \notin Followers
  /\ \A r \in Replicas : r # Leader => r \in Followers
BY ReplicasAssumption, ClientsAssumption, RecvFromAssumption
   DEF Leader, Replicas, Followers

(* The numbers of the followers. *)
LEMMA FollowerNumbers ==
  /\ N \in Nat /\ N - 1 \in Nat /\ N - 1 >= 1
  /\ \A r \in Followers : r \in Nat /\ r >= 1 /\ r <= N - 1
BY ReplicasAssumption DEF Leader, Replicas, Followers

------------------------------------------------------------------------------
(* Channels *)

(* What a send does to every channel, and that it keeps their type. *)
LEMMA SentFacts ==
  ASSUME NEW M, NEW n \in Channels(M), NEW a \in Nodes, NEW b \in Nodes, NEW m \in M
  PROVE  /\ Sent(n, a, b, m) \in Channels(M)
         /\ \A x, y \in Nodes : Sent(n, a, b, m)[x][y] =
              IF x = a /\ y = b THEN Append(n[a][b], m) ELSE n[x][y]
<1>1. n[a] \in [Nodes -> Seq(M)] /\ n[a][b] \in Seq(M)
  BY DEF Channels
<1>2. Append(n[a][b], m) \in Seq(M)
  BY <1>1, AppendProperties
<1>. DEFINE na == [n[a] EXCEPT ![b] = Append(n[a][b], m)]
<1>3. na \in [Nodes -> Seq(M)]
  BY <1>1, <1>2
<1>4. Sent(n, a, b, m) = [n EXCEPT ![a] = na]
  BY DEF Sent
<1>. HIDE DEF na
<1>5. Sent(n, a, b, m) \in Channels(M)
  BY <1>3, <1>4 DEF Channels
<1>6. ASSUME NEW x \in Nodes, NEW y \in Nodes
      PROVE  Sent(n, a, b, m)[x][y] = IF x = a /\ y = b THEN Append(n[a][b], m) ELSE n[x][y]
  <2>1. Sent(n, a, b, m)[x] = IF x = a THEN na ELSE n[x]
    BY <1>4 DEF Channels
  <2>2. na[y] = IF y = b THEN Append(n[a][b], m) ELSE n[a][y]
    BY <1>1 DEF na
  <2>. QED  BY <2>1, <2>2
<1>. QED  BY <1>5, <1>6

(* What a receive does to every channel, and that it keeps their type. *)
LEMMA ReceivedFacts ==
  ASSUME NEW M, NEW n \in Channels(M), NEW a \in Nodes, NEW b \in Nodes, n[a][b] # << >>
  PROVE  /\ Received(n, a, b) \in Channels(M)
         /\ Head(n[a][b]) \in M
         /\ \A x, y \in Nodes : Received(n, a, b)[x][y] =
              IF x = a /\ y = b THEN Tail(n[a][b]) ELSE n[x][y]
<1>1. n[a] \in [Nodes -> Seq(M)] /\ n[a][b] \in Seq(M)
  BY DEF Channels
<1>2. Tail(n[a][b]) \in Seq(M) /\ Head(n[a][b]) \in M
  BY <1>1, HeadTailProperties
<1>. DEFINE na == [n[a] EXCEPT ![b] = Tail(n[a][b])]
<1>3. na \in [Nodes -> Seq(M)]
  BY <1>1, <1>2
<1>4. Received(n, a, b) = [n EXCEPT ![a] = na]
  BY DEF Received
<1>. HIDE DEF na
<1>5. Received(n, a, b) \in Channels(M)
  BY <1>3, <1>4 DEF Channels
<1>6. ASSUME NEW x \in Nodes, NEW y \in Nodes
      PROVE  Received(n, a, b)[x][y] = IF x = a /\ y = b THEN Tail(n[a][b]) ELSE n[x][y]
  <2>1. Received(n, a, b)[x] = IF x = a THEN na ELSE n[x]
    BY <1>4 DEF Channels
  <2>2. na[y] = IF y = b THEN Tail(n[a][b]) ELSE n[a][y]
    BY <1>1 DEF na
  <2>. QED  BY <2>1, <2>2
<1>. QED  BY <1>2, <1>5, <1>6

(* What a replica gets when it takes a message. *)
LEMMA TakesFacts ==
  ASSUME NEW M, net \in Channels(M), NEW r \in Replicas, NEW src \in Nodes, NEW t,
         Takes(r, src, t)
  PROVE  /\ net' \in Channels(M)
         /\ pc[r] = "poll"
         /\ net[src][r] # << >>
         /\ Head(net[src][r]) \in M
         /\ Head(net[src][r]).tag = t
         /\ net'[src][r] = Tail(net[src][r])
         /\ \A x, y \in Nodes : x # src \/ y # r => net'[x][y] = net[x][y]
<1>1. net[src][r] # << >> /\ r \in Nodes /\ net' = Received(net, src, r)
  BY NodeFacts DEF Takes, CanRecv
<1>2. /\ Received(net, src, r) \in Channels(M)
      /\ Head(net[src][r]) \in M
      /\ \A x, y \in Nodes : Received(net, src, r)[x][y] =
           IF x = src /\ y = r THEN Tail(net[src][r]) ELSE net[x][y]
  BY <1>1, ReceivedFacts
<1>. QED  BY <1>1, <1>2 DEF Takes

(* What a replica does to the channels when it sends its buffer. *)
LEMMA SendsFacts ==
  ASSUME NEW M, net \in Channels(M), NEW r \in Replicas, NEW where, NEW d \in Nodes,
         Sends(r, where, d), msg[r] \in M
  PROVE  /\ net' \in Channels(M)
         /\ pc[r] = where
         /\ net'[r][d] = Append(net[r][d], msg[r])
         /\ \A x, y \in Nodes : x # r \/ y # d => net'[x][y] = net[x][y]
<1>1. net' = Sent(net, r, d, msg[r]) /\ pc[r] = where /\ r \in Nodes
  BY NodeFacts DEF Sends
<1>. PICK n, b : n = net /\ b = msg[r]
  OBVIOUS
<1>2. n \in Channels(M) /\ b \in M
  OBVIOUS
<1>3. Sent(n, r, d, b) \in Channels(M)
  BY <1>1, <1>2, SentFacts
<1>4. \A x, y \in Nodes : Sent(n, r, d, b)[x][y] =
        IF x = r /\ y = d THEN Append(n[r][d], b) ELSE n[x][y]
  BY <1>1, <1>2, SentFacts
<1>. QED  BY <1>1, <1>3, <1>4

(* What replacing one value of a function comes to. *)
LEMMA PointUpdate ==
  ASSUME NEW S, NEW T, NEW f \in [S -> T], NEW x \in S, NEW v \in T, NEW g,
         g = [f EXCEPT ![x] = v]
  PROVE  /\ g \in [S -> T] /\ g[x] = v
         /\ \A y \in S : y # x => g[y] = f[y]
OBVIOUS

(* One message in a channel: appended to an empty one, or taken off. *)
LEMMA SingleMessage ==
  ASSUME NEW m
  PROVE  /\ Append(<< >>, m) = <<m>>
         /\ Tail(<<m>>) = << >>
         /\ Head(<<m>>) = m
         /\ <<m>> # << >>
         /\ Len(<<m>>) = 1 /\ <<m>>[1] = m
OBVIOUS

------------------------------------------------------------------------------
(* The client *)

(* Client c has sent m to the leader; no other channel has changed. *)
ClientSent(c, m) ==
  /\ net'[c][Leader] = Append(net[c][Leader], m)
  /\ \A x, y \in Nodes : x # c \/ y # Leader => net'[x][y] = net[x][y]

(* Client c has taken a message of replica r; no other channel has changed. *)
ClientGot(c, r) ==
  /\ net[r][c] # << >>
  /\ net'[r][c] = Tail(net[r][c])
  /\ \A x, y \in Nodes : x # r \/ y # c => net'[x][y] = net[x][y]

(* What a step of client c comes to. *)
ClientEffect(c) ==
  \/ /\ cpc[c] = "new" /\ cpc'[c] = "joining"
     /\ request_count'[c] = request_count[c]
     /\ ClientSent(c, SetupMessage(c))
  \/ /\ cpc[c] = "joining" /\ cpc'[c] = "idle"
     /\ request_count'[c] = request_count[c]
     /\ ClientGot(c, Leader)
  \/ /\ cpc[c] = "idle" /\ cpc'[c] = "waiting"
     /\ request_count'[c] = request_count[c]
     /\ ClientSent(c, RequestMessage(c))
  \/ /\ cpc[c] = "waiting" /\ cpc'[c] = "idle"
     /\ request_count'[c] = request_count[c] + 1
     /\ ClientGot(c, RecvFrom)

(* A send of a client, in terms of ClientSent. *)
LEMMA ClientSentFacts ==
  ASSUME NEW M, net \in Channels(M), NEW c \in Clients, NEW m \in M,
         net' = Sent(net, c, Leader, m)
  PROVE  net' \in Channels(M) /\ ClientSent(c, m)
<1>. PICK n : n = net
  OBVIOUS
<1>1. n \in Channels(M) /\ c \in Nodes /\ Leader \in Nodes
  BY NodeFacts
<1>2. Sent(n, c, Leader, m) \in Channels(M)
  BY <1>1, SentFacts
<1>3. \A x, y \in Nodes : Sent(n, c, Leader, m)[x][y] =
        IF x = c /\ y = Leader THEN Append(n[c][Leader], m) ELSE n[x][y]
  BY <1>1, SentFacts
<1>4. net' = Sent(n, c, Leader, m)
  OBVIOUS
<1>5. \A x, y \in Nodes : net'[x][y] =
        IF x = c /\ y = Leader THEN Append(n[c][Leader], m) ELSE n[x][y]
  BY ONLY <1>3, <1>4, Zenon
<1>6. net'[c][Leader] = Append(n[c][Leader], m)
  BY ONLY <1>1, <1>5, Zenon
<1>7. \A x, y \in Nodes : x # c \/ y # Leader => net'[x][y] = n[x][y]
  BY ONLY <1>5, Zenon
<1>8. n = net
  OBVIOUS
<1>. QED  BY ONLY <1>2, <1>4, <1>6, <1>7, <1>8, Zenon DEF ClientSent

(***************************************************************************)
(* What the client has sent to the leader is alone between the two, if     *)
(* nothing was there before.                                               *)
(***************************************************************************)
LEMMA SentAlone ==
  ASSUME NEW c, NEW m, c \in Nodes, Leader \in Nodes, c # Leader, ClientSent(c, m),
         net[c][Leader] = << >>, net[Leader][c] = << >>
  PROVE  net'[c][Leader] = <<m>> /\ net'[Leader][c] = << >>
<1>1. net'[c][Leader] = Append(<< >>, m)
  BY DEF ClientSent
<1>2. net'[Leader][c] = net[Leader][c]
  BY Zenon DEF ClientSent
<1>. QED  BY ONLY <1>1, <1>2, net[Leader][c] = << >>, SingleMessage

(* A receive of a client, in terms of ClientGot. *)
LEMMA ClientGotFacts ==
  ASSUME NEW M, net \in Channels(M), NEW c \in Clients, NEW r \in Replicas,
         CanRecv(net, r, c), net' = Received(net, r, c)
  PROVE  net' \in Channels(M) /\ ClientGot(c, r)
<1>. PICK n : n = net
  OBVIOUS
<1>1. n \in Channels(M) /\ c \in Nodes /\ r \in Nodes /\ n[r][c] # << >>
  BY NodeFacts DEF CanRecv
<1>2. Received(n, r, c) \in Channels(M)
  BY <1>1, ReceivedFacts
<1>3. \A x, y \in Nodes : Received(n, r, c)[x][y] =
        IF x = r /\ y = c THEN Tail(n[r][c]) ELSE n[x][y]
  BY <1>1, ReceivedFacts
<1>. QED  BY <1>1, <1>2, <1>3 DEF ClientGot

(* What a step of a client keeps, and what it changes. *)
LEMMA ClientStepFacts ==
  ASSUME NEW M, net \in Channels(M), ClientType, NEW c \in Clients, ClientStep(c),
         SetupMessage(c) \in M, RequestMessage(c) \in M
  PROVE  /\ net' \in Channels(M) /\ ClientType'
         /\ ClientEffect(c)
         /\ \A d \in Clients : d # c => /\ cpc'[d] = cpc[d]
                                        /\ request_count'[d] = request_count[d]
<1>1. Leader \in Replicas /\ RecvFrom \in Replicas
  BY NodeFacts, ClientNodes
<1>2. CASE init_consensus_client(c)
  <2>1. net' \in Channels(M) /\ ClientSent(c, SetupMessage(c))
    BY <1>2, ClientSentFacts DEF init_consensus_client, SetupMessage
  <2>. QED  BY <1>2, <2>1 DEF init_consensus_client, ClientType, ClientPCs, ClientEffect
<1>3. CASE init_consensus_client_recv(c)
  <2>1. net' \in Channels(M) /\ ClientGot(c, Leader)
    BY <1>1, <1>3, ClientGotFacts DEF init_consensus_client_recv
  <2>. QED  BY <1>3, <2>1 DEF init_consensus_client_recv, ClientType, ClientPCs, ClientEffect
<1>4. CASE consensus_send_request(c)
  <2>1. net' \in Channels(M) /\ ClientSent(c, RequestMessage(c))
    BY <1>4, ClientSentFacts DEF consensus_send_request, RequestMessage
  <2>. QED  BY <1>4, <2>1 DEF consensus_send_request, ClientType, ClientPCs, ClientEffect
<1>5. CASE consensus_send_request_recv(c)
  <2>1. net' \in Channels(M) /\ ClientGot(c, RecvFrom)
    BY <1>1, <1>5, ClientGotFacts DEF consensus_send_request_recv
  <2>. QED  BY <1>5, <2>1 DEF consensus_send_request_recv, ClientType, ClientPCs, ClientEffect
<1>. QED  BY <1>2, <1>3, <1>4, <1>5 DEF ClientStep

(* What its steps leave alone: the channels that do not end at the client. *)
LEMMA ClientFrame ==
  ASSUME NEW c \in Clients, ClientEffect(c)
  PROVE  \A x, y \in Nodes : x # c /\ y # c => net'[x][y] = net[x][y]
BY DEF ClientEffect, ClientSent, ClientGot

------------------------------------------------------------------------------
(* The replicated log *)

InLog(cmd) == \E i \in 1 .. Len(log) : log[i] = cmd

(* The initial states of clients and replicas are those of the log. *)
LEMMA InitRefines == ClientInit /\ ReplicaInit => Abstract!Init
BY DEF ClientInit, ReplicaInit, Abstract!Init

(* A client issues a request and takes an answer, or only joins. *)
LEMMA ClientRefines ==
  ASSUME ClientType, NEW c \in Clients, ClientStep(c), UNCHANGED <<log, applied>>,
         cpc[c] = "waiting" /\ net[RecvFrom][c] # << >> => InLog(Current(c))
  PROVE  [Abstract!Next]_(Abstract!vars)
<1>. DEFINE issued == [d \in Clients |-> request_count[d] + IF cpc[d] = "waiting" THEN 1 ELSE 0]
<1>1. CASE init_consensus_client(c) \/ init_consensus_client_recv(c)
  <2>1. issued' = issued /\ request_count' = request_count
    BY <1>1 DEF init_consensus_client, init_consensus_client_recv, ClientType
  <2>. QED  BY <2>1 DEF Abstract!vars
<1>2. CASE consensus_send_request(c)
  <2>1. /\ cpc[c] = "idle" /\ request_count' = request_count
        /\ \A d \in Clients : cpc'[d] = IF d = c THEN "waiting" ELSE cpc[d]
    BY <1>2 DEF consensus_send_request, ClientType
  <2>2. request_count[c] = issued[c] /\ request_count[c] \in Nat
    BY <2>1 DEF ClientType
  <2>3. issued' = [d \in Clients |-> IF d = c THEN issued[d] + 1 ELSE issued[d]]
    BY <2>1, <2>2
  <2>4. issued' = [issued EXCEPT ![c] = @ + 1]
    BY <2>3
  <2>5. Abstract!Issue(c)
    BY <2>1, <2>2, <2>4 DEF Abstract!Issue
  <2>. QED  BY <2>5 DEF Abstract!Next
<1>3. CASE consensus_send_request_recv(c)
  <2>1. /\ request_count[c] < issued[c] /\ issued' = issued
        /\ request_count' = [request_count EXCEPT ![c] = @ + 1]
    BY <1>3 DEF consensus_send_request_recv, ClientType
  <2>2. InLog(Current(c))
    BY <1>3 DEF consensus_send_request_recv, CanRecv
  <2>3. Abstract!Answer(c)
    BY <2>1, <2>2 DEF Abstract!Answer, Abstract!InLog, InLog, Current
  <2>. QED  BY <2>3 DEF Abstract!Next
<1>. QED  BY <1>1, <1>2, <1>3 DEF ClientStep

(* A step that orders the request a client waits for. *)
LEMMA DecideRefines ==
  ASSUME ClientType, NEW c \in Clients, cpc[c] = "waiting", ~InLog(Current(c)),
         log' = Append(log, Current(c)), UNCHANGED <<cpc, request_count, applied>>
  PROVE  [Abstract!Next]_(Abstract!vars)
<1>. DEFINE issued == [d \in Clients |-> request_count[d] + IF cpc[d] = "waiting" THEN 1 ELSE 0]
<1>1. request_count[c] < issued[c] /\ issued' = issued
  BY DEF ClientType
<1>2. Abstract!Decide(c)
  BY <1>1 DEF Abstract!Decide, Abstract!InLog, InLog, Current
<1>. QED  BY <1>2 DEF Abstract!Next

(* A step that executes the next command of the log. *)
LEMMA ApplyRefines ==
  ASSUME NEW r \in Replicas, Len(applied[r]) < Len(log),
         NEW cmd, cmd = log[Len(applied[r]) + 1],
         applied' = [applied EXCEPT ![r] = Append(@, cmd)],
         UNCHANGED <<cpc, request_count, log>>
  PROVE  [Abstract!Next]_(Abstract!vars)
<1>. DEFINE issued == [d \in Clients |-> request_count[d] + IF cpc[d] = "waiting" THEN 1 ELSE 0]
<1>1. issued' = issued
  OBVIOUS
<1>2. Abstract!Apply(r)
  BY <1>1 DEF Abstract!Apply
<1>. QED  BY <1>2 DEF Abstract!Next

(* A step that changes none of what the log is about. *)
LEMMA StutterRefines ==
  ASSUME UNCHANGED <<cpc, request_count, log, applied>>
  PROVE  [Abstract!Next]_(Abstract!vars)
BY DEF Abstract!vars

------------------------------------------------------------------------------
(* Commands on their way, and agreement *)

(* The channel s holds the commands of log lg that follow the first a. *)
InOrder(s, a, lg) == \A k \in 1 .. Len(s) : Command(s[k]) = lg[a + k]

(* Sending the next command. *)
LEMMA InOrderAppend ==
  ASSUME NEW M, NEW s \in Seq(M), NEW a \in Nat, NEW lg, InOrder(s, a, lg),
         NEW m \in M, Command(m) = lg[a + Len(s) + 1]
  PROVE  InOrder(Append(s, m), a, lg)
<1>1. /\ Len(Append(s, m)) = Len(s) + 1 /\ Len(s) \in Nat
      /\ \A k \in 1 .. Len(s) : Append(s, m)[k] = s[k]
      /\ Append(s, m)[Len(s) + 1] = m
  BY AppendProperties, LenProperties
<1>2. ASSUME NEW k \in 1 .. Len(Append(s, m))
      PROVE  Command(Append(s, m)[k]) = lg[a + k]
  <2>1. CASE k \in 1 .. Len(s)
    BY <1>1, <2>1 DEF InOrder
  <2>2. CASE k = Len(s) + 1
    <3>1. a + k = a + Len(s) + 1
      BY <1>1, <2>2
    <3>. QED  BY <1>1, <2>2, <3>1
  <2>. QED  BY <1>1, <2>1, <2>2
<1>. QED  BY <1>2 DEF InOrder

(* Receiving a command: it is the next one. *)
LEMMA InOrderTail ==
  ASSUME NEW M, NEW s \in Seq(M), NEW a \in Nat, NEW lg, InOrder(s, a, lg), s # << >>
  PROVE  /\ Len(s) > 0 /\ Len(Tail(s)) = Len(s) - 1
         /\ Head(s) = s[1] /\ Command(Head(s)) = lg[a + 1]
         /\ InOrder(Tail(s), a + 1, lg)
<1>1. /\ Len(Tail(s)) = Len(s) - 1 /\ Len(s) \in Nat \ {0}
      /\ \A k \in 1 .. Len(Tail(s)) : Tail(s)[k] = s[k + 1]
      /\ Head(s) = s[1]
  BY HeadTailProperties, LenProperties, EmptySeq
<1>2. ASSUME NEW k \in 1 .. Len(Tail(s))
      PROVE  Command(Tail(s)[k]) = lg[(a + 1) + k]
  <2>1. k + 1 \in 1 .. Len(s) /\ a + (k + 1) = (a + 1) + k
    BY <1>1
  <2>2. Command(s[k + 1]) = lg[a + (k + 1)]
    BY <2>1 DEF InOrder
  <2>. QED  BY <1>1, <2>1, <2>2
<1>. QED  BY <1>1, <1>2 DEF InOrder

(* Ordering one more command. *)
LEMMA InOrderLog ==
  ASSUME NEW M, NEW s \in Seq(M), NEW a \in Nat, NEW C, NEW lg \in Seq(C), NEW c \in C,
         a + Len(s) <= Len(lg), InOrder(s, a, lg)
  PROVE  InOrder(s, a, Append(lg, c))
<1>1. \A i \in 1 .. Len(lg) : Append(lg, c)[i] = lg[i]
  BY AppendProperties
<1>2. \A k \in 1 .. Len(s) : a + k \in 1 .. Len(lg)
  BY LenProperties
<1>. QED  BY <1>1, <1>2 DEF InOrder

(* A channel with one message in it is empty after that. *)
LEMMA LastTaken ==
  ASSUME NEW M, NEW s \in Seq(M), Len(s) = 1
  PROVE  Tail(s) = << >> /\ s # << >>
<1>1. s # << >>
  <2>. SUFFICES ASSUME s = << >> PROVE FALSE
    OBVIOUS
  <2>1. Len(s) = 0
    BY EmptySeq
  <2>. QED  BY <2>1
<1>2. Tail(s) \in Seq(M) /\ Len(Tail(s)) = 0
  BY <1>1, HeadTailProperties
<1>. QED  BY <1>1, <1>2, EmptySeq, LenProperties

(* Ordering a command: what was ordered before keeps its place. *)
LEMMA LogAppend ==
  ASSUME HistoryType, NEW c \in Commands, log' = Append(log, c)
  PROVE  /\ Len(log) \in Nat /\ Len(log') = Len(log) + 1
         /\ log'[Len(log) + 1] = c
         /\ \A i \in 1 .. Len(log) : log'[i] = log[i]
         /\ \A i \in 1 .. Len(log') : i \in 1 .. Len(log) \/ i = Len(log) + 1
<1>. PICK l : l = log
  OBVIOUS
<1>1. l \in Seq(Commands) /\ log' = Append(l, c)
  BY DEF HistoryType
<1>2. /\ Len(Append(l, c)) = Len(l) + 1 /\ Append(l, c)[Len(l) + 1] = c
      /\ \A i \in 1 .. Len(l) : Append(l, c)[i] = l[i]
      /\ Len(l) \in Nat
  BY <1>1, AppendProperties, LenProperties
<1>. QED  BY <1>1, <1>2

(* Executing a command: what was executed before keeps its place. *)
LEMMA AppliedAppend ==
  ASSUME HistoryType, NEW r \in Replicas, NEW c \in Commands,
         applied' = [applied EXCEPT ![r] = Append(@, c)]
  PROVE  /\ Len(applied[r]) \in Nat /\ Len(applied'[r]) = Len(applied[r]) + 1
         /\ applied'[r][Len(applied[r]) + 1] = c
         /\ \A i \in 1 .. Len(applied[r]) : applied'[r][i] = applied[r][i]
         /\ \A q \in Replicas : q # r => applied'[q] = applied[q]
<1>1. applied[r] \in Seq(Commands) /\ applied'[r] = Append(applied[r], c)
  BY DEF HistoryType
<1>2. /\ Len(Append(applied[r], c)) = Len(applied[r]) + 1
      /\ Append(applied[r], c)[Len(applied[r]) + 1] = c
      /\ \A i \in 1 .. Len(applied[r]) : Append(applied[r], c)[i] = applied[r][i]
      /\ Len(applied[r]) \in Nat
  BY <1>1, AppendProperties, LenProperties
<1>. QED  BY <1>1, <1>2 DEF HistoryType

(* Ordering a command disturbs no agreement. *)
LEMMA AgreementOrdered ==
  ASSUME HistoryType, Agreement, NEW c \in Commands, log' = Append(log, c),
         applied' = applied
  PROVE  Agreement'
<1>1. \A r \in Replicas : Len(applied[r]) \in Nat
  BY LenProperties DEF HistoryType
<1>. QED  BY <1>1, LogAppend DEF Agreement

(* Executing the command that is next in the log keeps agreement. *)
LEMMA AgreementApplied ==
  ASSUME HistoryType, Agreement, NEW r \in Replicas, Len(applied[r]) < Len(log),
         NEW c \in Commands, c = log[Len(applied[r]) + 1],
         applied' = [applied EXCEPT ![r] = Append(@, c)], log' = log
  PROVE  Agreement'
<1>1. Len(log) \in Nat
  BY LenProperties DEF HistoryType
<1>. SUFFICES ASSUME NEW q \in Replicas
              PROVE  /\ Len(applied'[q]) <= Len(log)
                     /\ \A i \in 1 .. Len(applied'[q]) : applied'[q][i] = log[i]
  BY DEF Agreement
<1>2. CASE q = r
  BY <1>1, <1>2, AppliedAppend DEF Agreement
<1>3. CASE q # r
  BY <1>3, AppliedAppend DEF Agreement
<1>. QED  BY <1>2, <1>3

------------------------------------------------------------------------------
(* What the replicated log comes to, in terms of clients and replicas *)

(* The requests of each client are in the log once, in the order in which  *)
(* it issued them, none before it issued it and all that are answered.     *)
InIssueOrder ==
  \A i, j \in 1 .. Len(log) : i < j /\ log[i][1] = log[j][1] => log[i][2] < log[j][2]

OnlyRequested ==
  \A i \in 1 .. Len(log) :
    LET c == log[i][1]
    IN  \/ log[i][2] < request_count[c]
        \/ log[i][2] = request_count[c] /\ cpc[c] = "waiting"

AnsweredOrdered ==
  \A c \in Clients : \A k \in 0 .. request_count[c] - 1 : InLog(<<c, k>>)

OneOrder == InIssueOrder /\ OnlyRequested /\ AnsweredOrdered /\ Agreement

(* The log only grows, by one command at a time: what is ordered after a   *)
(* request is answered comes after that request. *)
LogGrows == \E cmd \in Commands : log' = Append(log, cmd)

Promise == []OneOrder /\ [][LogGrows]_log

(* A client has as many requests issued as answered, or one more. *)
IssuedRequests == [c \in Clients |-> request_count[c] + IF cpc[c] = "waiting" THEN 1 ELSE 0]

OneOrderInv ==
  /\ HistoryType /\ request_count \in [Clients -> Nat]
  /\ OneOrder

LEMMA RequestedFacts ==
  ASSUME OneOrderInv, NEW i \in 1 .. Len(log)
  PROVE  /\ log[i][1] \in Clients /\ log[i][2] \in Nat /\ log[i] = <<log[i][1], log[i][2]>>
         /\ log[i][2] <= request_count[log[i][1]]
         /\ log[i][2] < IssuedRequests[log[i][1]]
<1>1. log[i] \in Commands
  BY ElementOfSeq DEF OneOrderInv, HistoryType
<1>2. PICK c \in Clients, k \in Nat : log[i] = <<c, k>>
  BY <1>1 DEF Commands
<1>3. request_count[c] \in Nat
  BY DEF OneOrderInv
<1>4. k < request_count[c] \/ (k = request_count[c] /\ cpc[c] = "waiting")
  BY <1>2 DEF OneOrderInv, OneOrder, OnlyRequested
<1>5. IssuedRequests[c] = request_count[c] + IF cpc[c] = "waiting" THEN 1 ELSE 0
  BY DEF IssuedRequests
<1>6. k <= request_count[c] /\ k < IssuedRequests[c]
  BY <1>3, <1>4, <1>5
<1>. QED  BY <1>2, <1>6

(* Each step of the replicated log keeps the one order. *)
LEMMA OneOrderStep ==
  ASSUME OneOrderInv, [Abstract!Next]_(Abstract!vars)
  PROVE  OneOrderInv' /\ [LogGrows]_log
<1>. DEFINE issued == IssuedRequests
<1>0. /\ HistoryType /\ request_count \in [Clients -> Nat] /\ InIssueOrder /\ OnlyRequested
      /\ AnsweredOrdered /\ Agreement
  BY DEF OneOrderInv, OneOrder
<1>1. \A c \in Clients : issued[c] = request_count[c] + IF cpc[c] = "waiting" THEN 1 ELSE 0
  BY DEF IssuedRequests
<1>2. \A c \in Clients : issued'[c] = request_count'[c] + IF cpc'[c] = "waiting" THEN 1 ELSE 0
  BY DEF IssuedRequests
<1>3. ASSUME request_count' \in [Clients -> Nat],
             \A i \in 1 .. Len(log') : log'[i][1] \in Clients /\ log'[i][2] \in Nat
                                       /\ log'[i][2] < issued'[log'[i][1]]
      PROVE  OnlyRequested'
  <2>1. ASSUME NEW i \in 1 .. Len(log')
        PROVE  \/ log'[i][2] < request_count'[log'[i][1]]
               \/ log'[i][2] = request_count'[log'[i][1]] /\ cpc'[log'[i][1]] = "waiting"
    <3>1. PICK c \in Clients, k \in Nat : c = log'[i][1] /\ k = log'[i][2] /\ k < issued'[c]
      BY <1>3
    <3>2. request_count'[c] \in Nat
      BY <1>3
    <3>3. k < request_count'[c] \/ (k = request_count'[c] /\ cpc'[c] = "waiting")
      <4>1. CASE cpc'[c] = "waiting"
        BY <1>2, <3>1, <3>2, <4>1
      <4>2. CASE cpc'[c] # "waiting"
        BY <1>2, <3>1, <3>2, <4>2
      <4>. QED  BY <4>1, <4>2
    <3>. QED  BY <3>1, <3>3
  <2>. QED  BY <2>1 DEF OnlyRequested
<1>. HIDE DEF issued
<1>4. \A i \in 1 .. Len(log) : log[i][1] \in Clients /\ log[i][2] \in Nat
                               /\ log[i][2] < issued[log[i][1]]
  BY RequestedFacts DEF issued
<1>5. CASE UNCHANGED Abstract!vars
  <2>1. UNCHANGED <<issued, request_count, log, applied>>
    BY <1>5 DEF Abstract!vars, issued, IssuedRequests
  <2>2. OnlyRequested'
    BY <1>0, <1>3, <1>4, <2>1
  <2>. QED  BY <1>0, <2>1, <2>2
            DEF OneOrderInv, OneOrder, HistoryType, InIssueOrder, AnsweredOrdered, InLog, Agreement
<1>6. ASSUME NEW c \in Clients, Abstract!Issue(c)
      PROVE  OneOrderInv' /\ [LogGrows]_log
  <2>1. issued' = [issued EXCEPT ![c] = @ + 1] /\ UNCHANGED <<request_count, log, applied>>
    BY <1>6 DEF Abstract!Issue, issued, IssuedRequests
  <2>2. \A d \in Clients : issued[d] \in Int /\ issued[d] <= issued'[d]
    <3>1. ASSUME NEW d \in Clients PROVE issued[d] \in Int
      BY <1>0, <1>1
    <3>2. issued = [d \in Clients |-> issued[d]]
      BY DEF issued, IssuedRequests
    <3>3. ASSUME NEW d \in Clients
          PROVE  issued'[d] = IF d = c THEN issued[d] + 1 ELSE issued[d]
      BY <2>1, <3>2
    <3>. QED  BY <3>1, <3>3
  <2>3. OnlyRequested'
    <3>1. ASSUME NEW i \in 1 .. Len(log')
          PROVE  log'[i][1] \in Clients /\ log'[i][2] \in Nat /\ log'[i][2] < issued'[log'[i][1]]
      <4>1. PICK d \in Clients, k \in Nat : d = log[i][1] /\ k = log[i][2] /\ k < issued[d]
        BY <1>4, <2>1
      <4>2. issued'[d] \in Int
        BY <1>0, <1>2, <2>1
      <4>3. k < issued'[d]
        BY <2>2, <4>1, <4>2
      <4>. QED  BY <2>1, <4>1, <4>3
    <3>. QED  BY <1>0, <1>3, <2>1, <3>1
  <2>. QED  BY <1>0, <2>1, <2>3
            DEF OneOrderInv, OneOrder, HistoryType, InIssueOrder, AnsweredOrdered, InLog, Agreement
<1>7. ASSUME NEW c \in Clients, Abstract!Decide(c)
      PROVE  OneOrderInv' /\ [LogGrows]_log
  <2>. DEFINE k == request_count[c]
              n == Len(log)
              cmd == <<c, k>>
  <2>1. /\ k < issued[c] /\ ~InLog(cmd) /\ log' = Append(log, cmd)
        /\ UNCHANGED <<issued, request_count, applied>>
    BY <1>7 DEF Abstract!Decide, Abstract!InLog, InLog, issued, IssuedRequests
  <2>2. k \in Nat /\ cmd \in Commands /\ cmd[1] = c /\ cmd[2] = k
    BY <1>0 DEF Commands
  <2>. HIDE DEF cmd
  <2>3. /\ n \in Nat /\ Len(log') = n + 1 /\ log'[n + 1] = cmd
        /\ \A i \in 1 .. n : log'[i] = log[i]
        /\ \A i \in 1 .. Len(log') : i \in 1 .. n \/ i = n + 1
    BY <1>0, <2>1, <2>2, LogAppend
  <2>4. HistoryType'
    BY <1>0, <2>1, <2>2, AppendProperties DEF HistoryType
  <2>5. InIssueOrder'
    <3>1. ASSUME NEW i \in 1 .. n, log[i][1] = c PROVE log[i][2] < k
      <4>1. /\ log[i] = <<log[i][1], log[i][2]>> /\ log[i][2] \in Nat
            /\ log[i][2] <= request_count[log[i][1]]
        BY RequestedFacts
      <4>2. log[i][2] # k
        BY <2>1, <3>1, <4>1 DEF InLog, cmd
      <4>. QED  BY <2>2, <3>1, <4>1, <4>2
    <3>2. ASSUME NEW i \in 1 .. Len(log'), NEW j \in 1 .. Len(log'), i < j,
                 log'[i][1] = log'[j][1]
          PROVE  log'[i][2] < log'[j][2]
      <4>1. i \in 1 .. n
        BY <2>3, <3>2
      <4>2. CASE j \in 1 .. n
        BY <1>0, <2>3, <3>2, <4>1, <4>2 DEF InIssueOrder
      <4>3. CASE j = n + 1
        BY <2>2, <2>3, <3>1, <3>2, <4>1, <4>3
      <4>. QED  BY <2>3, <4>2, <4>3
    <3>. QED  BY <3>2 DEF InIssueOrder
  <2>6. OnlyRequested'
    <3>1. ASSUME NEW i \in 1 .. Len(log')
          PROVE  log'[i][1] \in Clients /\ log'[i][2] \in Nat /\ log'[i][2] < issued'[log'[i][1]]
      <4>1. CASE i \in 1 .. n
        BY <1>4, <2>1, <2>3, <4>1
      <4>2. CASE i = n + 1
        BY <2>1, <2>2, <2>3, <4>2
      <4>. QED  BY <2>3, <4>1, <4>2
    <3>. QED  BY <1>0, <1>3, <2>1, <3>1
  <2>7. AnsweredOrdered'
    <3>1. ASSUME NEW x, InLog(x) PROVE InLog(x)'
      BY <2>3, <3>1 DEF InLog
    <3>2. ASSUME NEW d \in Clients, NEW m \in 0 .. request_count'[d] - 1 PROVE InLog(<<d, m>>)'
      <4>. PICK x : x = <<d, m>>
        OBVIOUS
      <4>1. InLog(x)
        BY <1>0, <2>1 DEF AnsweredOrdered
      <4>2. InLog(x)'
        BY <3>1, <4>1
      <4>. QED  BY <4>2
    <3>. QED  BY <3>2 DEF AnsweredOrdered
  <2>8. Agreement'
    BY <1>0, <2>1, <2>2, AgreementOrdered
  <2>9. LogGrows
    BY <2>1, <2>2 DEF LogGrows
  <2>. QED  BY <1>0, <2>1, <2>4, <2>5, <2>6, <2>7, <2>8, <2>9 DEF OneOrderInv, OneOrder
<1>8. ASSUME NEW c \in Clients, Abstract!Answer(c)
      PROVE  OneOrderInv' /\ [LogGrows]_log
  <2>. DEFINE k == request_count[c]
  <2>1. /\ InLog(<<c, k>>) /\ request_count' = [request_count EXCEPT ![c] = @ + 1]
        /\ UNCHANGED <<issued, log, applied>>
    BY <1>8 DEF Abstract!Answer, Abstract!InLog, InLog, issued, IssuedRequests
  <2>2. /\ request_count' \in [Clients -> Nat] /\ k \in Nat /\ request_count'[c] = k + 1
        /\ \A d \in Clients : d # c => request_count'[d] = request_count[d]
    BY <1>0, <2>1
  <2>3. OnlyRequested'
    BY <1>3, <1>4, <2>1, <2>2
  <2>4. AnsweredOrdered'
    <3>1. ASSUME NEW d \in Clients, NEW m \in 0 .. request_count'[d] - 1 PROVE InLog(<<d, m>>)
      <4>1. CASE d = c
        <5>1. m \in 0 .. k - 1 \/ m = k
          BY <2>2, <4>1
        <5>. QED  BY <1>0, <2>1, <4>1, <5>1 DEF AnsweredOrdered
      <4>2. CASE d # c
        BY <1>0, <2>2, <4>2 DEF AnsweredOrdered
      <4>. QED  BY <4>1, <4>2
    <3>. QED  BY <2>1, <3>1 DEF AnsweredOrdered, InLog
  <2>. QED  BY <1>0, <2>1, <2>2, <2>3, <2>4
            DEF OneOrderInv, OneOrder, HistoryType, InIssueOrder, Agreement
<1>9. ASSUME NEW r \in Replicas, Abstract!Apply(r)
      PROVE  OneOrderInv' /\ [LogGrows]_log
  <2>. DEFINE cmd == log[Len(applied[r]) + 1]
  <2>1. /\ Len(applied[r]) < Len(log) /\ applied' = [applied EXCEPT ![r] = Append(@, cmd)]
        /\ UNCHANGED <<issued, request_count, log>>
    BY <1>9 DEF Abstract!Apply, issued, IssuedRequests
  <2>2. cmd \in Commands
    <3>1. Len(applied[r]) \in Nat /\ Len(log) \in Nat
      BY <1>0, LenProperties DEF HistoryType
    <3>2. Len(applied[r]) + 1 \in 1 .. Len(log)
      BY <2>1, <3>1
    <3>. QED  BY <1>0, <3>2, ElementOfSeq DEF HistoryType
  <2>. HIDE DEF cmd
  <2>3. HistoryType'
    <3>1. Append(applied[r], cmd) \in Seq(Commands)
      BY <1>0, <2>2, AppendProperties DEF HistoryType
    <3>. QED  BY <1>0, <2>1, <3>1 DEF HistoryType
  <2>4. Agreement'
    BY <1>0, <2>1, <2>2, AgreementApplied DEF cmd
  <2>5. OnlyRequested'
    BY <1>0, <1>3, <1>4, <2>1
  <2>. QED  BY <1>0, <2>1, <2>3, <2>4, <2>5
            DEF OneOrderInv, OneOrder, InIssueOrder, AnsweredOrdered, InLog
<1>. QED  BY <1>5, <1>6, <1>7, <1>8, <1>9 DEF Abstract!Next

(***************************************************************************)
(* A system that implements the replicated log orders every request that   *)
(* it answers, each once and in the order in which its client issued it,   *)
(* and all replicas execute that one order; a request that is issued after *)
(* another was answered comes after it.                                    *)
(***************************************************************************)
THEOREM LogPromise == Abstract!Spec => Promise
<1>1. Abstract!Init => OneOrderInv
  BY EmptySeq
     DEF Abstract!Init, OneOrderInv, OneOrder, HistoryType, InIssueOrder, OnlyRequested,
         AnsweredOrdered, Agreement
<1>2. OneOrderInv /\ [Abstract!Next]_(Abstract!vars) => OneOrderInv' /\ [LogGrows]_log
  BY OneOrderStep
<1>3. OneOrderInv => OneOrder
  BY DEF OneOrderInv
<1>. QED  BY <1>1, <1>2, <1>3, PTL DEF Abstract!Spec, Promise
==============================================================================
