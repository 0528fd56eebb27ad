----------------------------- MODULE TPC_proofs ------------------------------
(***************************************************************************)
(* Theorems about TPC for every number of replicas, set of clients,        *)
(* channel capacity and bound on requests.                                 *)
(***************************************************************************)
EXTENDS TPC, Replica_proofs, FiniteSetTheorems

(* What the leader holds in its hands between two steps of a handler. *)
CommitInHand ==
  /\ index = Len(log)
  /\ pc[Leader] \in {"prepare", "commit"} => dst \in Followers
  /\ pc[Leader] = "prepare" => msg[Leader].tag = "PREP"
  /\ pc[Leader] = "commit" => msg[Leader].tag = "COM" /\ msg[Leader].idx = Len(log)
  /\ IF pc[Leader] \in {"commit", "execute"}
     THEN /\ Len(log) = Len(applied[Leader]) + 1
          /\ Command(msg[Leader]) = log[Len(log)]
     ELSE Len(log) = Len(applied[Leader])

(* What the agreement of the replicas rests on. *)
AgreementInv == TypeOK /\ CommitInHand /\ CommitsInTransit /\ Agreement

(* A message holds a command, and rewriting its tag leaves a message. *)
LEMMA MessageFacts ==
  ASSUME NEW m \in Messages
  PROVE  /\ m.cid \in Clients /\ m.rid \in Nat /\ m.idx \in Nat
         /\ Command(m) \in Commands
         /\ \A t \in Tags : /\ [m EXCEPT !.tag = t] \in Messages
                            /\ [m EXCEPT !.tag = t].tag = t
                            /\ [m EXCEPT !.tag = t].cid = m.cid
                            /\ [m EXCEPT !.tag = t].rid = m.rid
                            /\ [m EXCEPT !.tag = t].idx = m.idx
                            /\ Command([m EXCEPT !.tag = t]) = Command(m)
BY DEF Messages, Command, Commands

(* A message put together from its fields. *)
LEMMA NewMessage ==
  ASSUME NEW t \in Tags, NEW c \in Clients, NEW k \in Nat, NEW i \in Nat
  PROVE  /\ Message(t, c, k, i) \in Messages
         /\ Message(t, c, k, i).tag = t
         /\ Message(t, c, k, i).idx = i
         /\ Command(Message(t, c, k, i)) = <<c, k>>
BY DEF Message, Messages, Command

(* The messages of a client are messages of the protocol. *)
LEMMA ClientMessages ==
  ASSUME TypeOK, NEW c \in Clients
  PROVE  SetupMessage(c) \in Messages /\ RequestMessage(c) \in Messages
<1>1. request_count[c] \in Nat /\ RecvFrom \in Nat
  BY RecvFromAssumption, ReplicasAssumption DEF Replicas, TypeOK
<1>. QED  BY <1>1, NewMessage DEF SetupMessage, RequestMessage, Tags

------------------------------------------------------------------------------
(* Type correctness *)

(* What a replica gets when it takes a message. *)
LEMMA TakesMessage ==
  ASSUME TypeOK, NEW r \in Replicas, NEW src \in Nodes, NEW t, Takes(r, src, t)
  PROVE  /\ net' \in Channels(Messages)
         /\ net[src][r] # << >>
         /\ Head(net[src][r]) \in Messages
         /\ Head(net[src][r]).tag = t
         /\ \A x, y \in Nodes : net'[x][y] =
              IF x = src /\ y = r THEN Tail(net[src][r]) ELSE net[x][y]
<1>1. net \in Channels(Messages)
  BY DEF TypeOK, Channels
<1>2. /\ net' \in Channels(Messages)
      /\ net[src][r] # << >>
      /\ Head(net[src][r]) \in Messages
      /\ Head(net[src][r]).tag = t
      /\ net'[src][r] = Tail(net[src][r])
      /\ \A x, y \in Nodes : x # src \/ y # r => net'[x][y] = net[x][y]
  BY <1>1, TakesFacts
<1>. QED  BY <1>2

(* What a send inside a handler does to the channels, and what was sent. *)
LEMMA SendsMessage ==
  ASSUME TypeOK, NEW r \in Replicas, NEW where, where # "poll", NEW d \in Nodes,
         Sends(r, where, d)
  PROVE  /\ net' \in Channels(Messages)
         /\ pc[r] = where
         /\ msg[r] \in Messages
         /\ net'[r][d] = Append(net[r][d], msg[r])
         /\ \A x, y \in Nodes : x # r \/ y # d => net'[x][y] = net[x][y]
<1>1. net \in Channels(Messages) /\ msg[r] \in Messages
  BY DEF TypeOK, Channels, Sends
<1>. QED  BY <1>1, SendsFacts

(* The client's steps keep the types. *)
LEMMA ClientTypes ==
  ASSUME TypeOK, NEW c \in Clients, ClientMoves(c)
  PROVE  TypeOK' /\ ClientEffect(c)
<1>1. net \in Channels(Messages) /\ ClientType
  BY DEF TypeOK, Channels, ClientType, ClientPCs
<1>2. net' \in Channels(Messages) /\ ClientType' /\ ClientEffect(c)
  BY <1>1, ClientStepFacts, ClientMessages DEF ClientMoves
<1>. QED  BY <1>2 DEF ClientMoves, replicaVars, TypeOK, Channels, ClientType, ClientPCs

(* The type of the control state, and the two ways a handler changes it. *)
ControlType ==
  /\ pc \in [Replicas -> LeaderPCs \cup FollowerPCs]
  /\ pc[Leader] \in LeaderPCs /\ \A r \in Followers : pc[r] \in FollowerPCs
  /\ msg \in [Replicas -> Messages \cup {NoMsg}]
  /\ \A r \in Replicas : pc[r] # "poll" => msg[r] \in Messages

(* A handler that goes on keeps pc and the message buffer typed. *)
LEMMA EntersTypes ==
  ASSUME ControlType, NEW r \in Replicas, NEW where, NEW m \in Messages,
         Enters(r, where, m),
         where \in IF r = Leader THEN LeaderPCs ELSE FollowerPCs
  PROVE  ControlType'
BY NodeFacts DEF ControlType, Enters, Followers

(* A handler that returns to the loop keeps pc and the buffer typed. *)
LEMMA ReturnsTypes ==
  ASSUME ControlType, NEW r \in Replicas, Returns(r)
  PROVE  ControlType'
BY NodeFacts DEF ControlType, Returns, Followers, LeaderPCs, FollowerPCs

(* The leader's receiving steps keep the types. *)
LEMMA LeaderReceiveTypes ==
  ASSUME TypeOK, NEW src \in Nodes \ {Leader}, LeaderReceive(src)
  PROVE  TypeOK'
<1>1. Leader \in Replicas /\ 1 \in Replicas /\ ControlType
  BY NodeFacts DEF TypeOK, ControlType, Followers
<1>2. PICK m : m = Head(net[src][Leader])
  OBVIOUS
<1>3. CASE handle_setup(src)
  <2>1. net' \in Channels(Messages) /\ m \in Messages
    BY <1>1, <1>2, <1>3, TakesMessage DEF handle_setup
  <2>2. ControlType'
    BY <1>1, <1>2, <1>3, <2>1, EntersTypes DEF handle_setup, LeaderPCs
  <2>. QED  BY <1>3, <2>1, <2>2 DEF handle_setup, TypeOK, Channels, ControlType
<1>4. CASE handle_request(src)
  <2>1. net' \in Channels(Messages) /\ m \in Messages
    BY <1>1, <1>2, <1>4, TakesMessage DEF handle_request
  <2>2. m.cid \in Clients /\ [m EXCEPT !.tag = "PREP"] \in Messages
    BY <2>1, MessageFacts DEF Tags
  <2>3. ready_counter' \in [Clients -> Nat] /\ dst' \in Replicas
    BY <1>1, <1>2, <1>4, <2>2 DEF handle_request, ResetCounter, TypeOK
  <2>4. ControlType'
    BY <1>1, <1>2, <1>4, <2>2, EntersTypes DEF handle_request, LeaderPCs
  <2>. QED  BY <1>4, <2>1, <2>3, <2>4 DEF handle_request, TypeOK, Channels, ControlType
<1>5. CASE handle_ready(src)
  <2>1. net' \in Channels(Messages) /\ m \in Messages
    BY <1>1, <1>2, <1>5, TakesMessage DEF handle_ready
  <2>2. m.cid \in Clients /\ m.rid \in Nat /\ Command(m) \in Commands
    BY <2>1, MessageFacts
  <2>3. index \in Nat /\ index + 1 \in Nat
    BY DEF TypeOK
  <2>4. CommitMessage(m) \in Messages
    BY <2>2, <2>3, NewMessage DEF Tags, CommitMessage
  <2>5. ready_counter' \in [Clients -> Nat]
    <3>1. ready_counter' = [ready_counter EXCEPT ![m.cid] = ready_counter[m.cid] + 1]
      BY <1>2, <1>5 DEF handle_ready
    <3>. QED  BY <2>2, <3>1 DEF TypeOK
  <2>6. votes' \subseteq Commands \X Nodes
    BY <1>2, <1>5, <2>2 DEF handle_ready, TypeOK
  <2>7. CASE AllReady(ready_counter[m.cid] + 1)
    <3>1. /\ index' = index + 1 /\ log' = Append(log, Command(m))
          /\ Enters(Leader, "commit", CommitMessage(m))
          /\ dst' = 1
      BY <1>2, <1>5, <2>7 DEF handle_ready
    <3>2. log' \in Seq(Commands)
      BY <3>1, <2>2, AppendProperties DEF TypeOK
    <3>3. ControlType'
      BY <1>1, <2>4, <3>1, EntersTypes DEF LeaderPCs
    <3>. QED  BY <1>1, <1>5, <2>1, <2>3, <2>5, <2>6, <3>1, <3>2, <3>3
              DEF handle_ready, TypeOK, Channels, ControlType
  <2>8. CASE ~(AllReady(ready_counter[m.cid] + 1))
    <3>1. UNCHANGED <<index, log, pc, msg, dst>>
      BY <1>2, <1>5, <2>8 DEF handle_ready
    <3>. QED  BY <1>5, <2>1, <2>5, <2>6, <3>1 DEF handle_ready, TypeOK, Channels
  <2>. QED  BY <2>7, <2>8
<1>. QED  BY <1>3, <1>4, <1>5 DEF LeaderReceive

(* The rest of the leader's handlers keeps the types. *)
LEMMA LeaderContinueTypes ==
  ASSUME TypeOK, LeaderContinue
  PROVE  TypeOK'
<1>1. Leader \in Replicas /\ ControlType /\ dst \in Nodes
  BY NodeFacts DEF TypeOK, ControlType
<1>2. CASE handle_setup_send
  <2>1. net' \in Channels(Messages)
    BY <1>1, <1>2, SendsMessage, MessageFacts, NodeFacts
       DEF handle_setup_send, TypeOK, Sends
  <2>2. ControlType'
    BY <1>1, <1>2, ReturnsTypes DEF handle_setup_send
  <2>. QED  BY <1>2, <2>1, <2>2 DEF handle_setup_send, TypeOK, Channels, ControlType
<1>3. CASE handle_request_send
  <2>1. net' \in Channels(Messages)
    BY <1>1, <1>3, SendsMessage DEF handle_request_send, SendsInLoop
  <2>2. ControlType'
    BY <1>1, <1>3, ReturnsTypes DEF handle_request_send, ControlType
  <2>3. dst' \in Replicas
    BY <1>1, <1>3, NodeFacts DEF handle_request_send, SendsInLoop, TypeOK, Followers
  <2>. QED  BY <1>3, <2>1, <2>2, <2>3 DEF handle_request_send, TypeOK, Channels, ControlType
<1>4. CASE handle_ready_send
  <2>1. net' \in Channels(Messages) /\ msg[Leader] \in Messages
    BY <1>1, <1>4, SendsMessage DEF handle_ready_send, SendsInLoop
  <2>2. ControlType'
    BY <1>1, <1>4, <2>1, NodeFacts DEF handle_ready_send, ControlType, LeaderPCs, Followers
  <2>3. dst' \in Replicas
    BY <1>1, <1>4, NodeFacts DEF handle_ready_send, SendsInLoop, TypeOK, Followers
  <2>. QED  BY <1>4, <2>1, <2>2, <2>3 DEF handle_ready_send, TypeOK, Channels, ControlType
<1>5. CASE handle_ready_execute
  <2>1. msg[Leader] \in Messages
    BY <1>1, <1>5 DEF handle_ready_execute, ControlType
  <2>2. /\ Command(msg[Leader]) \in Commands
        /\ [msg[Leader] EXCEPT !.tag = "RESP"] \in Messages
    BY <2>1, MessageFacts DEF Tags
  <2>3. ControlType'
    BY <1>1, <1>5, <2>2, EntersTypes DEF handle_ready_execute, LeaderPCs
  <2>4. Append(applied[Leader], Command(msg[Leader])) \in Seq(Commands)
    BY <1>1, <2>2, AppendProperties DEF TypeOK
  <2>5. applied' \in [Replicas -> Seq(Commands)]
    BY <1>1, <1>5, <2>4 DEF handle_ready_execute, update_value, TypeOK
  <2>. QED  BY <1>5, <2>3, <2>5 DEF handle_ready_execute, clientVars, TypeOK, ControlType
<1>6. CASE handle_ready_respond
  <2>1. net' \in Channels(Messages)
    BY <1>1, <1>6, SendsMessage, MessageFacts, NodeFacts
       DEF handle_ready_respond, TypeOK, Sends
  <2>2. ControlType'
    BY <1>1, <1>6, ReturnsTypes DEF handle_ready_respond
  <2>. QED  BY <1>6, <2>1, <2>2 DEF handle_ready_respond, TypeOK, Channels, ControlType
<1>. QED  BY <1>2, <1>3, <1>4, <1>5, <1>6 DEF LeaderContinue

(* A follower's steps keep the types. *)
LEMMA FollowerTypes ==
  ASSUME TypeOK, NEW r \in Followers, FollowerStep(r)
  PROVE  TypeOK'
<1>1. r \in Replicas /\ r # Leader /\ Leader \in Nodes /\ ControlType
  BY NodeFacts DEF TypeOK, ControlType, Followers
<1>2. PICK m : m = Head(net[Leader][r])
  OBVIOUS
<1>3. CASE handle_prepare(r)
  <2>1. net' \in Channels(Messages) /\ m \in Messages
    BY <1>1, <1>2, <1>3, TakesMessage DEF handle_prepare
  <2>2. [m EXCEPT !.tag = "RDY"] \in Messages
    BY <2>1, MessageFacts DEF Tags
  <2>3. ControlType'
    BY <1>1, <1>2, <1>3, <2>2, EntersTypes DEF handle_prepare, FollowerPCs
  <2>. QED  BY <1>3, <2>1, <2>3 DEF handle_prepare, TypeOK, Channels, ControlType
<1>4. CASE handle_prepare_send(r)
  <2>1. net' \in Channels(Messages)
    BY <1>1, <1>4, SendsMessage DEF handle_prepare_send
  <2>2. ControlType'
    BY <1>1, <1>4, ReturnsTypes DEF handle_prepare_send
  <2>. QED  BY <1>4, <2>1, <2>2 DEF handle_prepare_send, TypeOK, Channels, ControlType
<1>5. CASE handle_commit(r)
  <2>1. net' \in Channels(Messages) /\ m \in Messages
    BY <1>1, <1>2, <1>5, TakesMessage DEF handle_commit
  <2>2. Append(applied[r], Command(m)) \in Seq(Commands)
    BY <1>1, <2>1, MessageFacts, AppendProperties DEF TypeOK
  <2>3. applied' \in [Replicas -> Seq(Commands)]
    BY <1>1, <1>2, <1>5, <2>2 DEF handle_commit, update_value, TypeOK
  <2>. QED  BY <1>5, <2>1, <2>3 DEF handle_commit, TypeOK, Channels
<1>. QED  BY <1>3, <1>4, <1>5 DEF FollowerStep

(* init_replica_tpc sets up values of the types. *)
LEMMA InitType == Init => TypeOK
<1>. SUFFICES ASSUME Init PROVE TypeOK
  OBVIOUS
<1>1. << >> \in Seq(Messages) /\ << >> \in Seq(Commands)
  BY EmptySeq
<1>2. net \in [Nodes -> [Nodes -> Seq(Messages)]]
  BY <1>1 DEF Init, ReplicaInit, ClientInit, EmptyNet
<1>. QED  BY <1>1, <1>2, NodeFacts
          DEF Init, ReplicaInit, ClientInit, TypeOK, LeaderPCs, FollowerPCs

(* Every step of clients and replicas keeps the types. *)
LEMMA TypeStep == TypeOK /\ [Next]_vars => TypeOK'
<1>. SUFFICES ASSUME TypeOK, [Next]_vars PROVE TypeOK'
  OBVIOUS
<1>1. CASE UNCHANGED vars
  BY <1>1 DEF vars, clientVars, replicaVars, TypeOK
<1>. QED  BY <1>1, ClientTypes, LeaderReceiveTypes, LeaderContinueTypes, FollowerTypes
          DEF Next, Terminated

(***************************************************************************)
(* Every variable keeps its type: in particular a replica inside a handler *)
(* always has a message in its buffer, so no handler reads a stale one.    *)
(***************************************************************************)
THEOREM TypeCorrect == Spec => []TypeOK
<1>. QED  BY InitType, TypeStep, PTL DEF Spec

------------------------------------------------------------------------------
(***************************************************************************)
(* Agreement.  The followers execute COMs blindly, so the invariant says   *)
(* what is in every channel (CommitsInTransit); the first lemmas say how   *)
(* sending, receiving and ordering change that.                            *)
(***************************************************************************)

(* Sending a message that is no COM. *)
LEMMA TransitAppendOther ==
  ASSUME NEW s \in Seq(Messages), NEW a \in Nat, NEW n \in Nat, NEW lg,
         InTransit(s, a, n, lg), NEW m \in Messages, m.tag # "COM"
  PROVE  InTransit(Append(s, m), a, n, lg)
<1>1. /\ Len(Append(s, m)) = Len(s) + 1 /\ Len(s) \in Nat
      /\ \A k \in 1 .. Len(s) : Append(s, m)[k] = s[k]
      /\ Append(s, m)[Len(s) + 1] = m
  BY AppendProperties, LenProperties
<1>2. {k \in 1 .. Len(Append(s, m)) : Append(s, m)[k].tag = "COM"}
        = {k \in 1 .. Len(s) : s[k].tag = "COM"}
  <2>1. ASSUME NEW k \in 1 .. Len(Append(s, m)), Append(s, m)[k].tag = "COM"
        PROVE  k \in 1 .. Len(s) /\ s[k].tag = "COM"
    <3>1. k # Len(s) + 1
      <4>1. CASE k = Len(s) + 1
        <5>1. Append(s, m)[k] = m
          BY ONLY <1>1, <4>1
        <5>. QED  BY ONLY <2>1, <5>1, m.tag # "COM"
      <4>. QED  BY ONLY <4>1
    <3>2. k \in 1 .. Len(s)
      BY ONLY <1>1, <3>1, k \in 1 .. Len(Append(s, m))
    <3>. QED  BY ONLY <1>1, <2>1, <3>2
  <2>2. ASSUME NEW k \in 1 .. Len(s), s[k].tag = "COM"
        PROVE  k \in 1 .. Len(Append(s, m)) /\ Append(s, m)[k].tag = "COM"
    <3>1. k \in 1 .. Len(Append(s, m))
      BY ONLY <1>1, k \in 1 .. Len(s)
    <3>. QED  BY ONLY <1>1, <2>2, <3>1
  <2>. QED  BY ONLY <2>1, <2>2, Zenon
<1>. QED  BY <1>1, <1>2 DEF InTransit

(* Sending the COM of the next index. *)
LEMMA TransitAppendCom ==
  ASSUME NEW s \in Seq(Messages), NEW a \in Nat, NEW n \in Nat, NEW lg,
         InTransit(s, a, n, lg), NEW m \in Messages,
         m.tag = "COM", m.idx = n + 1, Command(m) = lg[n + 1]
  PROVE  InTransit(Append(s, m), a, n + 1, lg)
<1>. PICK t : t = Append(s, m)
  OBVIOUS
<1>. DEFINE C == {k \in 1 .. Len(s) : s[k].tag = "COM"}
            D == {k \in 1 .. Len(t) : t[k].tag = "COM"}
            e == Len(s) + 1
<1>1. /\ Len(t) = Len(s) + 1 /\ Len(s) \in Nat
      /\ \A k \in 1 .. Len(s) : t[k] = s[k]
      /\ t[e] = m
  BY AppendProperties, LenProperties
<1>2. D = C \cup {e} /\ (\A k \in C : k < e) /\ C \subseteq Nat
  BY <1>1
<1>3. \A k \in C : t[k] = s[k]
  BY <1>1
<1>4. /\ a <= n
      /\ \A k \in C : s[k].idx \in a + 1 .. n /\ Command(s[k]) = lg[s[k].idx]
      /\ \A i \in a + 1 .. n : \E k \in C : s[k].idx = i
      /\ \A j, k \in C : j < k => s[j].idx < s[k].idx
  BY DEF InTransit
<1>5. e \in Nat /\ t[e].idx = n + 1 /\ Command(t[e]) = lg[n + 1]
  BY <1>1
<1>. HIDE DEF C, D, e
<1>6. \A k \in C : t[k].idx \in a + 1 .. n /\ Command(t[k]) = lg[t[k].idx]
  BY <1>3, <1>4
<1>7. ASSUME NEW k \in D
      PROVE  t[k].idx \in a + 1 .. n + 1 /\ Command(t[k]) = lg[t[k].idx]
  <2>1. CASE k \in C
    <3>1. a + 1 .. n \subseteq a + 1 .. n + 1
      OBVIOUS
    <3>. QED  BY <1>6, <2>1, <3>1, Zenon
  <2>2. CASE k = e
    <3>1. n + 1 \in a + 1 .. n + 1
      BY <1>4
    <3>. QED  BY <1>5, <2>2, <3>1, Zenon
  <2>. QED  BY <1>2, <2>1, <2>2
<1>8. \A i \in a + 1 .. n + 1 : \E k \in D : t[k].idx = i
  <2>. SUFFICES ASSUME NEW i \in a + 1 .. n + 1
                PROVE  \E k \in D : t[k].idx = i
    OBVIOUS
  <2>1. CASE i = n + 1
    BY <1>2, <1>5, <2>1
  <2>2. CASE i # n + 1
    <3>1. PICK k \in C : s[k].idx = i
      BY <1>4, <2>2
    <3>. QED  BY <1>2, <1>3, <3>1
  <2>. QED  BY <2>1, <2>2
<1>9. ASSUME NEW j \in D, NEW k \in D, j < k
      PROVE  t[j].idx < t[k].idx
  <2>1. j \in C
    BY <1>2, <1>5, <1>9
  <2>2. CASE k \in C
    <3>1. s[j].idx < s[k].idx
      BY <1>4, <1>9, <2>1, <2>2
    <3>. QED  BY <1>3, <2>1, <2>2, <3>1
  <2>3. CASE k = e
    <3>1. \A i \in a + 1 .. n : i < n + 1
      OBVIOUS
    <3>2. t[j].idx < n + 1
      BY <1>6, <2>1, <3>1, Zenon
    <3>. QED  BY <1>5, <2>3, <3>2, Zenon
  <2>. QED  BY <1>2, <2>2, <2>3
<1>10. a <= n + 1
  BY <1>4
<1>. QED  BY <1>7, <1>8, <1>9, <1>10 DEF InTransit, D

(* Receiving a message: positions move down by one. *)
LEMMA TailShift ==
  ASSUME NEW s \in Seq(Messages), s # << >>, NEW t, t = Tail(s),
         NEW C, C = {k \in 1 .. Len(s) : s[k].tag = "COM"},
         NEW D, D = {k \in 1 .. Len(t) : t[k].tag = "COM"}
  PROVE  /\ Head(s) = s[1]
         /\ 1 \in C <=> Head(s).tag = "COM"
         /\ C \subseteq Nat /\ D \subseteq Nat
         /\ \A k \in C : k # 1 => 1 < k /\ k - 1 \in D /\ t[k - 1] = s[k]
         /\ \A k \in D : k + 1 \in C /\ 1 < k + 1 /\ t[k] = s[k + 1]
<1>1. /\ Len(t) = Len(s) - 1 /\ Len(s) \in Nat \ {0}
      /\ \A k \in 1 .. Len(t) : t[k] = s[k + 1]
      /\ Head(s) = s[1]
  BY HeadTailProperties, LenProperties, EmptySeq
<1>. QED  BY <1>1

(* Receiving a message that is no COM. *)
LEMMA TransitTailOther ==
  ASSUME NEW s \in Seq(Messages), NEW a \in Nat, NEW n \in Nat, NEW lg,
         InTransit(s, a, n, lg), s # << >>, Head(s).tag # "COM"
  PROVE  InTransit(Tail(s), a, n, lg)
<1>. PICK t : t = Tail(s)
  OBVIOUS
<1>. DEFINE C == {k \in 1 .. Len(s) : s[k].tag = "COM"}
            D == {k \in 1 .. Len(t) : t[k].tag = "COM"}
<1>1. /\ a <= n
      /\ \A k \in C : s[k].idx \in a + 1 .. n /\ Command(s[k]) = lg[s[k].idx]
      /\ \A i \in a + 1 .. n : \E k \in C : s[k].idx = i
      /\ \A j, k \in C : j < k => s[j].idx < s[k].idx
  BY DEF InTransit
<1>2. /\ 1 \notin C /\ D \subseteq Nat
      /\ \A k \in C : k # 1 => k - 1 \in D /\ t[k - 1] = s[k]
      /\ \A k \in D : k + 1 \in C /\ t[k] = s[k + 1]
  BY TailShift
<1>. HIDE DEF C, D
<1>3. ASSUME NEW k \in D
      PROVE  t[k].idx \in a + 1 .. n /\ Command(t[k]) = lg[t[k].idx]
  <2>1. k + 1 \in C /\ t[k] = s[k + 1]
    BY ONLY <1>2, <1>3, Zenon
  <2>2. s[k + 1].idx \in a + 1 .. n /\ Command(s[k + 1]) = lg[s[k + 1].idx]
    BY ONLY <1>1, <2>1, Zenon
  <2>. QED  BY ONLY <2>1, <2>2, Zenon
<1>4. ASSUME NEW i \in a + 1 .. n
      PROVE  \E k \in D : t[k].idx = i
  <2>1. PICK k \in C : s[k].idx = i
    BY ONLY <1>1, <1>4, Zenon
  <2>2. k - 1 \in D /\ t[k - 1] = s[k]
    BY ONLY <1>2, <2>1, Zenon
  <2>. QED  BY ONLY <2>1, <2>2, Zenon
<1>5. ASSUME NEW j \in D, NEW k \in D, j < k
      PROVE  t[j].idx < t[k].idx
  <2>1. j + 1 < k + 1
    BY <1>2, <1>5
  <2>2. s[j + 1].idx < s[k + 1].idx
    BY <1>1, <1>2, <2>1
  <2>. QED  BY <1>2, <2>2
<1>. QED  BY <1>1, <1>3, <1>4, <1>5 DEF InTransit, D

(* Receiving a COM: it is the next one, and is out of the channel then. *)
LEMMA TransitTailCom ==
  ASSUME NEW s \in Seq(Messages), NEW a \in Nat, NEW n \in Nat, NEW lg,
         InTransit(s, a, n, lg), s # << >>, Head(s).tag = "COM"
  PROVE  /\ a + 1 <= n
         /\ Command(Head(s)) = lg[a + 1]
         /\ InTransit(Tail(s), a + 1, n, lg)
<1>. PICK t : t = Tail(s)
  OBVIOUS
<1>. DEFINE C == {k \in 1 .. Len(s) : s[k].tag = "COM"}
            D == {k \in 1 .. Len(t) : t[k].tag = "COM"}
<1>1. /\ a <= n
      /\ \A k \in C : s[k].idx \in a + 1 .. n /\ Command(s[k]) = lg[s[k].idx]
      /\ \A i \in a + 1 .. n : \E k \in C : s[k].idx = i
      /\ \A j, k \in C : j < k => s[j].idx < s[k].idx
  BY DEF InTransit
<1>2. /\ Head(s) = s[1] /\ 1 \in C /\ C \subseteq Nat /\ D \subseteq Nat
      /\ \A k \in C : k # 1 => 1 < k /\ k - 1 \in D /\ t[k - 1] = s[k]
      /\ \A k \in D : k + 1 \in C /\ 1 < k + 1 /\ t[k] = s[k + 1]
  BY TailShift
<1>. HIDE DEF C, D
<1>3. a + 1 <= n /\ s[1].idx \in a + 1 .. n
  BY <1>1, <1>2
<1>4. s[1].idx = a + 1
  <2>1. PICK k \in C : s[k].idx = a + 1
    BY <1>1, <1>3
  <2>2. k # 1 => s[1].idx < a + 1
    BY <1>1, <1>2, <2>1
  <2>. QED  BY <1>3, <2>1, <2>2
<1>5. ASSUME NEW k \in D
      PROVE  t[k].idx \in a + 2 .. n /\ Command(t[k]) = lg[t[k].idx]
  <2>1. s[1].idx < s[k + 1].idx /\ s[k + 1].idx \in a + 1 .. n
    BY <1>1, <1>2
  <2>2. s[k + 1].idx \in a + 2 .. n
    BY <1>4, <2>1
  <2>3. Command(s[k + 1]) = lg[s[k + 1].idx] /\ t[k] = s[k + 1]
    BY <1>1, <1>2
  <2>. QED  BY <2>2, <2>3
<1>6. \A i \in a + 2 .. n : \E k \in D : t[k].idx = i
  <2>. SUFFICES ASSUME NEW i \in a + 2 .. n
                PROVE  \E k \in D : t[k].idx = i
    OBVIOUS
  <2>1. PICK k \in C : s[k].idx = i
    BY <1>1
  <2>2. k # 1
    BY <1>4, <2>1
  <2>. QED  BY <1>2, <2>1, <2>2
<1>7. ASSUME NEW j \in D, NEW k \in D, j < k
      PROVE  t[j].idx < t[k].idx
  <2>1. j + 1 < k + 1
    BY <1>2, <1>7
  <2>2. s[j + 1].idx < s[k + 1].idx
    BY <1>1, <1>2, <2>1
  <2>. QED  BY <1>2, <2>2
<1>8. (a + 1) + 1 = a + 2
  OBVIOUS
<1>9. InTransit(t, a + 1, n, lg)
  BY <1>3, <1>5, <1>6, <1>7, <1>8 DEF InTransit, D
<1>. QED  BY <1>1, <1>2, <1>3, <1>4, <1>9

(* Ordering one more command. *)
LEMMA TransitLogAppend ==
  ASSUME NEW s \in Seq(Messages), NEW a \in Nat, NEW n \in Nat,
         NEW lg \in Seq(Commands), n <= Len(lg), NEW c \in Commands,
         InTransit(s, a, n, lg)
  PROVE  InTransit(s, a, n, Append(lg, c))
<1>1. \A i \in a + 1 .. n : Append(lg, c)[i] = lg[i]
  BY AppendProperties, LenProperties
<1>. QED  BY <1>1 DEF InTransit

------------------------------------------------------------------------------
(* The steps *)

ToFollowersUnchanged == \A r \in Followers : net'[Leader][r] = net[Leader][r]

(* A step that leaves the channels to the followers and the log alone. *)
LEMMA Frame ==
  ASSUME AgreementInv, UNCHANGED <<log, applied>>, ToFollowersUnchanged,
         pc'[Leader] = "commit" <=> pc[Leader] = "commit",
         pc[Leader] = "commit" => dst' = dst
  PROVE  CommitsInTransit' /\ Agreement'
<1>1. \A r \in Followers : CommitsSent(r)' = CommitsSent(r)
  BY DEF CommitsSent
<1>2. CommitsInTransit'
  BY <1>1 DEF AgreementInv, CommitsInTransit, ToFollowersUnchanged
<1>. QED  BY <1>2 DEF AgreementInv, Agreement

(* Types and bounds of the quantities the lemmas on channels speak of. *)
LEMMA TransitTypes ==
  ASSUME AgreementInv, NEW r \in Followers
  PROVE  /\ r \in Replicas /\ r \in Nodes /\ r \in Nat /\ r # Leader
         /\ net[Leader][r] \in Seq(Messages)
         /\ applied[r] \in Seq(Commands) /\ Len(applied[r]) \in Nat
         /\ log \in Seq(Commands) /\ Len(log) \in Nat
         /\ CommitsSent(r) \in Nat /\ CommitsSent(r) <= Len(log)
         /\ InTransit(net[Leader][r], Len(applied[r]), CommitsSent(r), log)
<1>1. /\ r \in Replicas /\ r \in Nodes /\ r \in Nat /\ r # Leader /\ Leader \in Nodes
      /\ Leader \in Replicas
  BY NodeFacts DEF Followers
<1>2. /\ net[Leader][r] \in Seq(Messages)
      /\ applied[r] \in Seq(Commands) /\ applied[Leader] \in Seq(Commands)
      /\ log \in Seq(Commands)
  BY <1>1 DEF AgreementInv, TypeOK
<1>3. Len(applied[r]) \in Nat /\ Len(applied[Leader]) \in Nat /\ Len(log) \in Nat
  BY <1>2, LenProperties
<1>4. CommitsSent(r) \in Nat /\ CommitsSent(r) <= Len(log)
  BY <1>3 DEF AgreementInv, CommitInHand, CommitsSent
<1>. QED  BY <1>1, <1>2, <1>3, <1>4 DEF AgreementInv, CommitsInTransit

(* A client's send or receive disturbs no COM in transit. *)
LEMMA ClientAgreement ==
  ASSUME AgreementInv, NEW c \in Clients, ClientMoves(c)
  PROVE  CommitInHand' /\ CommitsInTransit' /\ Agreement'
<1>1. \A x, y \in Nodes : x # c /\ y # c => net'[x][y] = net[x][y]
  BY ClientTypes, ClientFrame DEF AgreementInv
<1>2. ToFollowersUnchanged
  BY <1>1, NodeFacts, ClientNodes DEF ToFollowersUnchanged
<1>3. UNCHANGED replicaVars
  BY DEF ClientMoves
<1>. QED  BY <1>2, <1>3, Frame DEF replicaVars, AgreementInv, CommitInHand

(* The leader takes a message; the last RDY orders a command. *)
LEMMA LeaderReceiveAgreement ==
  ASSUME AgreementInv, NEW src \in Nodes \ {Leader}, LeaderReceive(src)
  PROVE  CommitInHand' /\ CommitsInTransit' /\ Agreement'
<1>1. /\ Leader \in Replicas /\ Leader \in Nodes /\ 1 \in Followers /\ TypeOK
      /\ Followers \subseteq Nodes
  BY NodeFacts DEF AgreementInv
<1>2. pc \in [Replicas -> LeaderPCs \cup FollowerPCs] /\ msg \in [Replicas -> Messages \cup {NoMsg}]
  BY <1>1 DEF TypeOK
<1>3. PICK m : m = Head(net[src][Leader])
  OBVIOUS
<1>4. CASE handle_setup(src)
  <2>1. ToFollowersUnchanged
    BY <1>1, <1>4, TakesMessage DEF handle_setup, ToFollowersUnchanged
  <2>2. pc[Leader] = "poll" /\ pc'[Leader] = "setup"
    BY <1>1, <1>2, <1>4 DEF handle_setup, Takes, Enters
  <2>. QED  BY <1>4, <2>1, <2>2, Frame DEF handle_setup, AgreementInv, CommitInHand
<1>5. CASE handle_request(src)
  <2>1. ToFollowersUnchanged /\ m \in Messages
    BY <1>1, <1>3, <1>5, TakesMessage DEF handle_request, ToFollowersUnchanged
  <2>2. [m EXCEPT !.tag = "PREP"].tag = "PREP"
    BY <2>1, MessageFacts DEF Tags
  <2>3. /\ pc[Leader] = "poll" /\ pc'[Leader] = "prepare"
        /\ msg'[Leader].tag = "PREP" /\ dst' = 1
    BY <1>1, <1>2, <1>3, <1>5, <2>2 DEF handle_request, Takes, Enters
  <2>. QED  BY <1>1, <1>5, <2>1, <2>3, Frame DEF handle_request, AgreementInv, CommitInHand
<1>6. CASE handle_ready(src)
  <2>1. ToFollowersUnchanged /\ m \in Messages
    BY <1>1, <1>3, <1>6, TakesMessage DEF handle_ready, ToFollowersUnchanged
  <2>2. pc[Leader] = "poll"
    BY <1>6 DEF handle_ready, Takes
  <2>3. CASE AllReady(ready_counter[m.cid] + 1)
    <3>1. PICK n : n = CommitMessage(m) /\ n = Message("COM", m.cid, m.rid, index + 1)
      BY DEF CommitMessage
    <3>2. m.cid \in Clients /\ m.rid \in Nat /\ Command(m) \in Commands
      BY <2>1, MessageFacts
    <3>3. index = Len(log) /\ index \in Nat /\ log \in Seq(Commands)
      BY <1>1 DEF AgreementInv, CommitInHand, TypeOK
    <3>4. n \in Messages /\ n.tag = "COM" /\ n.idx = index + 1 /\ Command(n) = Command(m)
      <4>1. "COM" \in Tags /\ index + 1 \in Nat
        BY <3>3 DEF Tags
      <4>2. /\ Message("COM", m.cid, m.rid, index + 1) \in Messages
            /\ Message("COM", m.cid, m.rid, index + 1).tag = "COM"
            /\ Message("COM", m.cid, m.rid, index + 1).idx = index + 1
            /\ Command(Message("COM", m.cid, m.rid, index + 1)) = <<m.cid, m.rid>>
        BY ONLY <3>2, <4>1, NewMessage
      <4>3. Command(m) = <<m.cid, m.rid>>
        BY DEF Command
      <4>. QED  BY ONLY <3>1, <4>2, <4>3
    <3>5. /\ index' = index + 1 /\ log' = Append(log, Command(m))
          /\ Enters(Leader, "commit", n) /\ dst' = 1 /\ applied' = applied
      BY <1>3, <1>6, <2>3, <3>1 DEF handle_ready
    <3>6. pc'[Leader] = "commit" /\ msg'[Leader] = n
      BY <1>1, <1>2, <3>5 DEF Enters
    <3>7. /\ Len(log') = Len(log) + 1 /\ log'[Len(log) + 1] = Command(m)
          /\ \A i \in 1 .. Len(log) : log'[i] = log[i]
      BY <3>2, <3>3, <3>5, AppendProperties
    <3>8. Len(log) = Len(applied[Leader])
      BY <2>2 DEF AgreementInv, CommitInHand
    <3>9. CommitInHand'
      BY <1>1, <3>3, <3>4, <3>5, <3>6, <3>7, <3>8 DEF CommitInHand
    <3>10. CommitsInTransit'
      <4>. SUFFICES ASSUME NEW r \in Followers
                    PROVE  InTransit(net'[Leader][r], Len(applied[r]), CommitsSent(r)', log')
        BY <3>5 DEF CommitsInTransit
      <4>1. CommitsSent(r) = Len(log) /\ r \in Nat \ {0}
        BY <2>2, TransitTypes DEF CommitsSent, Leader
      <4>2. CommitsSent(r)' = Len(log)
        BY <3>3, <3>5, <3>6, <3>7, <4>1 DEF CommitsSent
      <4>. QED  BY <2>1, <3>2, <3>3, <3>5, <4>1, <4>2, TransitTypes, TransitLogAppend
                DEF ToFollowersUnchanged
    <3>11. Agreement'
      <4>. SUFFICES ASSUME NEW r \in Replicas
                    PROVE  /\ Len(applied[r]) <= Len(log')
                           /\ \A i \in 1 .. Len(applied[r]) : applied[r][i] = log'[i]
        BY <3>5 DEF Agreement
      <4>1. Len(applied[r]) \in Nat
        BY <1>1, LenProperties DEF TypeOK
      <4>2. /\ Len(applied[r]) <= Len(log)
            /\ \A i \in 1 .. Len(applied[r]) : applied[r][i] = log[i]
        BY DEF AgreementInv, Agreement
      <4>. QED  BY <3>3, <3>7, <4>1, <4>2
    <3>. QED  BY <3>9, <3>10, <3>11
  <2>4. CASE ~(AllReady(ready_counter[m.cid] + 1))
    <3>1. UNCHANGED <<index, log, pc, msg, dst, applied>>
      BY <1>3, <1>6, <2>4 DEF handle_ready
    <3>. QED  BY <2>1, <2>2, <3>1, Frame DEF AgreementInv, CommitInHand
  <2>. QED  BY <2>3, <2>4
<1>. QED  BY <1>4, <1>5, <1>6 DEF LeaderReceive

(* The leader goes on in a handler: it sends COMs and executes. *)
LEMMA LeaderContinueAgreement ==
  ASSUME AgreementInv, LeaderContinue
  PROVE  CommitInHand' /\ CommitsInTransit' /\ Agreement'
<1>1. /\ Leader \in Replicas /\ Leader \in Nodes /\ TypeOK
      /\ Followers \subseteq Nodes /\ Followers \subseteq Replicas
      /\ \A c \in Clients : c \in Nodes /\ c \notin Followers
  BY NodeFacts, ClientsAssumption DEF AgreementInv, Followers, Replicas
<1>2. pc \in [Replicas -> LeaderPCs \cup FollowerPCs] /\ msg \in [Replicas -> Messages \cup {NoMsg}]
  BY <1>1 DEF TypeOK
<1>3. CASE handle_setup_send
  <2>1. pc[Leader] = "setup" /\ pc'[Leader] = "poll"
    BY <1>1, <1>2, <1>3 DEF handle_setup_send, Sends, Returns
  <2>2. msg[Leader].cid \in Clients
    BY <1>1, <2>1, MessageFacts DEF TypeOK
  <2>3. ToFollowersUnchanged
    <3>. PICK c \in Clients : c = msg[Leader].cid
      BY <2>2
    <3>1. Sends(Leader, pc[Leader], c) /\ pc[Leader] # "poll" /\ c \in Nodes
      BY <1>1, <1>3, <2>1 DEF handle_setup_send
    <3>2. \A x, y \in Nodes : x # Leader \/ y # c => net'[x][y] = net[x][y]
      BY ONLY <1>1, <3>1, SendsMessage, Zenon
    <3>. QED  BY <1>1, <3>2 DEF ToFollowersUnchanged
  <2>. QED  BY <1>3, <2>1, <2>3, Frame DEF handle_setup_send, AgreementInv, CommitInHand
<1>4. CASE handle_request_send
  <2>1. pc[Leader] = "prepare" /\ dst \in Followers /\ msg[Leader].tag = "PREP"
    BY <1>4 DEF handle_request_send, SendsInLoop, Sends, AgreementInv, CommitInHand
  <2>2. /\ msg[Leader] \in Messages
        /\ net'[Leader][dst] = Append(net[Leader][dst], msg[Leader])
        /\ \A y \in Nodes : y # dst => net'[Leader][y] = net[Leader][y]
    <3>1. PICK d \in Nodes : d = dst
      BY <1>1, <2>1
    <3>2. Sends(Leader, pc[Leader], d) /\ pc[Leader] # "poll"
      BY <1>4, <2>1, <3>1 DEF handle_request_send, SendsInLoop
    <3>3. msg[Leader] \in Messages
      BY <1>1, <3>2, SendsMessage
    <3>6. \A x, y \in Nodes : x # Leader \/ y # d => net'[x][y] = net[x][y]
      BY ONLY <1>1, <3>2, SendsMessage, Zenon
    <3>4. \A y \in Nodes : y # d => net'[Leader][y] = net[Leader][y]
      BY <1>1, <3>6
    <3>5. net'[Leader][d] = Append(net[Leader][d], msg[Leader])
      BY ONLY <1>1, <3>2, SendsMessage, Zenon
    <3>. QED  BY <3>1, <3>3, <3>4, <3>5
  <2>3. \/ pc'[Leader] = "poll"
        \/ /\ pc'[Leader] = "prepare" /\ msg' = msg
           /\ dst # N - 1 /\ dst' = dst + 1
    BY <1>1, <1>2, <1>4, <2>1 DEF handle_request_send, SendsInLoop, LoopEnds, Returns
  <2>4. CommitInHand'
    BY <1>1, <1>4, <2>1, <2>3, NodeFacts DEF handle_request_send, AgreementInv, CommitInHand
  <2>5. CommitsInTransit'
    <3>. SUFFICES ASSUME NEW r \in Followers
                  PROVE  InTransit(net'[Leader][r], Len(applied[r]), CommitsSent(r)', log)
      BY <1>4 DEF CommitsInTransit, handle_request_send
    <3>1. CommitsSent(r)' = CommitsSent(r)
      BY <1>4, <2>1, <2>3 DEF CommitsSent, handle_request_send
    <3>2. CASE r = dst
      <4>1. net'[Leader][r] = Append(net[Leader][r], msg[Leader])
        BY <1>1, <2>2, <3>2
      <4>. QED  BY <2>1, <2>2, <3>1, <4>1, TransitTypes, TransitAppendOther
    <3>3. CASE r # dst
      <4>1. net'[Leader][r] = net[Leader][r]
        BY <1>1, <2>2, <3>3
      <4>. QED  BY <3>1, <4>1, TransitTypes
    <3>. QED  BY <3>2, <3>3
  <2>6. Agreement'
    BY <1>4 DEF handle_request_send, AgreementInv, Agreement
  <2>. QED  BY <2>4, <2>5, <2>6
<1>5. CASE handle_ready_send
  <2>1. /\ pc[Leader] = "commit" /\ dst \in Followers
        /\ msg[Leader].tag = "COM" /\ msg[Leader].idx = Len(log)
        /\ Command(msg[Leader]) = log[Len(log)]
        /\ Len(log) = Len(applied[Leader]) + 1 /\ index = Len(log)
    BY <1>5 DEF handle_ready_send, SendsInLoop, Sends, AgreementInv, CommitInHand
  <2>2. /\ msg[Leader] \in Messages
        /\ net'[Leader][dst] = Append(net[Leader][dst], msg[Leader])
        /\ \A y \in Nodes : y # dst => net'[Leader][y] = net[Leader][y]
    <3>1. PICK d \in Nodes : d = dst
      BY <1>1, <2>1
    <3>2. Sends(Leader, pc[Leader], d) /\ pc[Leader] # "poll"
      BY <1>5, <2>1, <3>1 DEF handle_ready_send, SendsInLoop
    <3>3. msg[Leader] \in Messages
      BY <1>1, <3>2, SendsMessage
    <3>6. \A x, y \in Nodes : x # Leader \/ y # d => net'[x][y] = net[x][y]
      BY ONLY <1>1, <3>2, SendsMessage, Zenon
    <3>4. \A y \in Nodes : y # d => net'[Leader][y] = net[Leader][y]
      BY <1>1, <3>6
    <3>5. net'[Leader][d] = Append(net[Leader][d], msg[Leader])
      BY ONLY <1>1, <3>2, SendsMessage, Zenon
    <3>. QED  BY <3>1, <3>3, <3>4, <3>5
  <2>3. \/ pc'[Leader] = "execute" /\ dst = N - 1
        \/ pc'[Leader] = "commit" /\ dst # N - 1 /\ dst' = dst + 1
    BY <1>1, <1>2, <1>5, <2>1 DEF handle_ready_send, SendsInLoop, LoopEnds
  <2>4. UNCHANGED <<msg, index, log, applied>>
    BY <1>5 DEF handle_ready_send
  <2>5. CommitInHand'
    BY <1>1, <2>1, <2>3, <2>4, NodeFacts DEF CommitInHand
  <2>6. CommitsInTransit'
    <3>. SUFFICES ASSUME NEW r \in Followers
                  PROVE  InTransit(net'[Leader][r], Len(applied[r]), CommitsSent(r)', log)
      BY <2>4 DEF CommitsInTransit
    <3>1. r \in 1 .. N - 1 /\ dst \in 1 .. N - 1 /\ N \in Nat /\ Len(log) \in Nat
      BY <2>1, TransitTypes, ReplicasAssumption DEF Followers, Replicas, Leader
    <3>2. CASE r = dst
      <4>1. net'[Leader][r] = Append(net[Leader][r], msg[Leader])
        BY <1>1, <2>2, <3>2
      <4>2. CommitsSent(r) = Len(log) - 1 /\ CommitsSent(r)' = Len(log)
        BY <2>1, <2>3, <2>4, <3>1, <3>2 DEF CommitsSent
      <4>3. Len(log) = CommitsSent(r) + 1
        BY <3>1, <4>2
      <4>4. InTransit(Append(net[Leader][r], msg[Leader]), Len(applied[r]), CommitsSent(r) + 1, log)
        BY <2>1, <2>2, <4>3, TransitTypes, TransitAppendCom
      <4>. QED  BY <4>1, <4>2, <4>3, <4>4
    <3>3. CASE r # dst
      <4>1. net'[Leader][r] = net[Leader][r]
        BY <1>1, <2>2, <3>3
      <4>2. CommitsSent(r)' = CommitsSent(r)
        BY <2>1, <2>3, <2>4, <3>1, <3>3 DEF CommitsSent
      <4>. QED  BY <4>1, <4>2, TransitTypes
    <3>. QED  BY <3>2, <3>3
  <2>7. Agreement'
    BY <2>4 DEF AgreementInv, Agreement
  <2>. QED  BY <2>5, <2>6, <2>7
<1>6. CASE handle_ready_execute
  <2>1. /\ pc[Leader] = "execute" /\ pc'[Leader] = "respond"
        /\ net' = net /\ log' = log /\ index' = index
        /\ applied' = [applied EXCEPT ![Leader] = Append(@, Command(msg[Leader]))]
    BY <1>1, <1>2, <1>6 DEF handle_ready_execute, clientVars, Enters, update_value
  <2>2. /\ Len(log) = Len(applied[Leader]) + 1 /\ index = Len(log)
        /\ Command(msg[Leader]) = log[Len(log)]
    BY <2>1 DEF AgreementInv, CommitInHand
  <2>3. applied \in [Replicas -> Seq(Commands)] /\ Command(msg[Leader]) \in Commands
    BY <1>1, <2>1, MessageFacts DEF TypeOK
  <2>4. /\ Len(applied'[Leader]) = Len(applied[Leader]) + 1
        /\ applied'[Leader][Len(log)] = log[Len(log)]
        /\ \A i \in 1 .. Len(applied[Leader]) : applied'[Leader][i] = applied[Leader][i]
        /\ \A r \in Followers : applied'[r] = applied[r]
    BY <1>1, <2>1, <2>2, <2>3, AppendProperties DEF Followers
  <2>5. CommitInHand'
    BY <2>1, <2>2, <2>4 DEF CommitInHand
  <2>6. CommitsInTransit'
    <3>1. \A r \in Followers : CommitsSent(r)' = CommitsSent(r)
      BY <2>1 DEF CommitsSent
    <3>. QED  BY <2>1, <2>4, <3>1 DEF CommitsInTransit, AgreementInv
  <2>7. Agreement'
    <3>. SUFFICES ASSUME NEW r \in Replicas
                  PROVE  /\ Len(applied'[r]) <= Len(log)
                         /\ \A i \in 1 .. Len(applied'[r]) : applied'[r][i] = log[i]
      BY <2>1 DEF Agreement
    <3>1. /\ Len(applied[r]) <= Len(log)
          /\ \A i \in 1 .. Len(applied[r]) : applied[r][i] = log[i]
      BY DEF AgreementInv, Agreement
    <3>2. CASE r = Leader
      <4>1. Len(applied[Leader]) \in Nat
        BY <1>1, <2>3, LenProperties
      <4>. QED  BY <2>2, <2>4, <3>1, <3>2, <4>1
    <3>3. CASE r # Leader
      BY <2>4, <3>1, <3>3 DEF Followers
    <3>. QED  BY <3>2, <3>3
  <2>. QED  BY <2>5, <2>6, <2>7
<1>7. CASE handle_ready_respond
  <2>1. pc[Leader] = "respond" /\ pc'[Leader] = "poll"
    BY <1>1, <1>2, <1>7 DEF handle_ready_respond, Sends, Returns
  <2>2. msg[Leader].cid \in Clients
    BY <1>1, <2>1, MessageFacts DEF TypeOK
  <2>3. ToFollowersUnchanged
    <3>. PICK c \in Clients : c = msg[Leader].cid
      BY <2>2
    <3>1. Sends(Leader, pc[Leader], c) /\ pc[Leader] # "poll" /\ c \in Nodes
      BY <1>1, <1>7, <2>1 DEF handle_ready_respond
    <3>2. \A x, y \in Nodes : x # Leader \/ y # c => net'[x][y] = net[x][y]
      BY ONLY <1>1, <3>1, SendsMessage, Zenon
    <3>. QED  BY <1>1, <3>2 DEF ToFollowersUnchanged
  <2>. QED  BY <1>7, <2>1, <2>3, Frame DEF handle_ready_respond, AgreementInv, CommitInHand
<1>. QED  BY <1>3, <1>4, <1>5, <1>6, <1>7 DEF LeaderContinue

(* A follower answers a PREP, or executes the command of a COM. *)
LEMMA FollowerAgreement ==
  ASSUME AgreementInv, NEW f \in Followers, FollowerStep(f)
  PROVE  CommitInHand' /\ CommitsInTransit' /\ Agreement'
<1>1. /\ Leader \in Replicas /\ Leader \in Nodes /\ TypeOK
      /\ Followers \subseteq Nodes /\ Followers \subseteq Replicas /\ Leader \notin Followers
  BY NodeFacts DEF AgreementInv, Followers
<1>2. pc \in [Replicas -> LeaderPCs \cup FollowerPCs] /\ msg \in [Replicas -> Messages \cup {NoMsg}]
  BY <1>1 DEF TypeOK
<1>3. PICK m : m = Head(net[Leader][f])
  OBVIOUS
<1>4. CASE handle_prepare(f)
  <2>1. /\ pc'[Leader] = pc[Leader] /\ msg'[Leader] = msg[Leader]
        /\ UNCHANGED <<dst, index, log, applied>>
    BY <1>1, <1>2, <1>4 DEF handle_prepare, Enters
  <2>2. /\ net[Leader][f] # << >> /\ Head(net[Leader][f]).tag = "PREP"
        /\ \A x, y \in Nodes : net'[x][y] =
             IF x = Leader /\ y = f THEN Tail(net[Leader][f]) ELSE net[x][y]
    BY <1>1, <1>4, TakesMessage DEF handle_prepare
  <2>3. CommitInHand'
    BY <2>1 DEF AgreementInv, CommitInHand
  <2>4. CommitsInTransit'
    <3>. SUFFICES ASSUME NEW r \in Followers
                  PROVE  InTransit(net'[Leader][r], Len(applied[r]), CommitsSent(r), log)
      BY <2>1 DEF CommitsInTransit, CommitsSent
    <3>1. CASE r = f
      <4>1. net'[Leader][r] = Tail(net[Leader][r])
        BY <1>1, <2>2, <3>1
      <4>. QED  BY <2>2, <3>1, <4>1, TransitTypes, TransitTailOther
    <3>2. CASE r # f
      BY <1>1, <2>2, <3>2, TransitTypes
    <3>. QED  BY <3>1, <3>2
  <2>5. Agreement'
    BY <2>1 DEF AgreementInv, Agreement
  <2>. QED  BY <2>3, <2>4, <2>5
<1>5. CASE handle_prepare_send(f)
  <2>1. /\ pc'[Leader] = pc[Leader] /\ msg'[Leader] = msg[Leader]
        /\ UNCHANGED <<dst, index, log, applied>>
    BY <1>1, <1>2, <1>5 DEF handle_prepare_send, Returns
  <2>2. ToFollowersUnchanged
    <3>1. Sends(f, pc[f], Leader) /\ pc[f] # "poll" /\ f # Leader /\ f \in Replicas
      BY <1>1, <1>5 DEF handle_prepare_send, Sends
    <3>2. \A x, y \in Nodes : x # f \/ y # Leader => net'[x][y] = net[x][y]
      BY ONLY <1>1, <3>1, SendsMessage, Zenon
    <3>. QED  BY <1>1, <3>1, <3>2 DEF ToFollowersUnchanged
  <2>. QED  BY <2>1, <2>2, Frame DEF AgreementInv, CommitInHand
<1>6. CASE handle_commit(f)
  <2>1. /\ UNCHANGED <<pc, msg, dst, index, log>>
        /\ applied' = [applied EXCEPT ![f] = Append(@, Command(m))]
    BY <1>3, <1>6 DEF handle_commit, update_value
  <2>2. /\ net[Leader][f] # << >> /\ m.tag = "COM" /\ m \in Messages
        /\ \A x, y \in Nodes : net'[x][y] =
             IF x = Leader /\ y = f THEN Tail(net[Leader][f]) ELSE net[x][y]
    BY <1>1, <1>3, <1>6, TakesMessage DEF handle_commit
  <2>3. applied \in [Replicas -> Seq(Commands)] /\ Command(m) \in Commands
    BY <1>1, <2>2, MessageFacts DEF TypeOK
  <2>4. /\ Len(applied[f]) + 1 <= CommitsSent(f)
        /\ Command(m) = log[Len(applied[f]) + 1]
        /\ InTransit(Tail(net[Leader][f]), Len(applied[f]) + 1, CommitsSent(f), log)
    BY <1>3, <2>2, TransitTypes, TransitTailCom
  <2>5. /\ Len(applied'[f]) = Len(applied[f]) + 1
        /\ applied'[f][Len(applied[f]) + 1] = Command(m)
        /\ \A i \in 1 .. Len(applied[f]) : applied'[f][i] = applied[f][i]
        /\ \A r \in Replicas : r # f => applied'[r] = applied[r]
    BY <1>1, <2>1, <2>3, AppendProperties
  <2>6. CommitInHand'
    BY <1>1, <2>1, <2>5 DEF AgreementInv, CommitInHand
  <2>7. CommitsInTransit'
    <3>. SUFFICES ASSUME NEW r \in Followers
                  PROVE  InTransit(net'[Leader][r], Len(applied'[r]), CommitsSent(r), log)
      BY <2>1 DEF CommitsInTransit, CommitsSent
    <3>1. CASE r = f
      <4>1. net'[Leader][r] = Tail(net[Leader][r])
        BY <1>1, <2>2, <3>1
      <4>. QED  BY <2>4, <2>5, <3>1, <4>1
    <3>2. CASE r # f
      BY <1>1, <2>2, <2>5, <3>2, TransitTypes
    <3>. QED  BY <3>1, <3>2
  <2>8. Agreement'
    <3>. SUFFICES ASSUME NEW r \in Replicas
                  PROVE  /\ Len(applied'[r]) <= Len(log)
                         /\ \A i \in 1 .. Len(applied'[r]) : applied'[r][i] = log[i]
      BY <2>1 DEF Agreement
    <3>1. /\ Len(applied[r]) <= Len(log)
          /\ \A i \in 1 .. Len(applied[r]) : applied[r][i] = log[i]
      BY DEF AgreementInv, Agreement
    <3>2. CASE r = f
      <4>1. /\ Len(applied[f]) \in Nat /\ Len(log) \in Nat /\ CommitsSent(f) \in Nat
            /\ CommitsSent(f) <= Len(log)
        BY TransitTypes
      <4>. QED  BY <2>4, <2>5, <3>1, <3>2, <4>1
    <3>3. CASE r # f
      BY <2>5, <3>1, <3>3
    <3>. QED  BY <3>2, <3>3
  <2>. QED  BY <2>6, <2>7, <2>8
<1>. QED  BY <1>4, <1>5, <1>6 DEF FollowerStep

(* Its first states. *)
LEMMA AgreementInit == Init => AgreementInv
<1>. SUFFICES ASSUME Init PROVE AgreementInv
  OBVIOUS
<1>1. TypeOK
  BY InitType
<1>2. /\ pc[Leader] = "poll" /\ log = << >> /\ index = 0
      /\ \A r \in Replicas : applied[r] = << >>
      /\ \A r \in Followers : net[Leader][r] = << >>
      /\ Leader \in Replicas /\ Followers \subseteq Replicas
  BY NodeFacts DEF Init, ReplicaInit, ClientInit, EmptyNet
<1>3. CommitInHand
  BY <1>2 DEF CommitInHand
<1>4. CommitsInTransit
  BY <1>2 DEF CommitsInTransit, CommitsSent, InTransit
<1>5. Agreement
  BY <1>2 DEF Agreement
<1>. QED  BY <1>1, <1>3, <1>4, <1>5 DEF AgreementInv

(* Every step keeps it. *)
LEMMA AgreementStep == AgreementInv /\ [Next]_vars => AgreementInv'
<1>. SUFFICES ASSUME AgreementInv, [Next]_vars PROVE AgreementInv'
  OBVIOUS
<1>1. TypeOK'
  BY TypeStep DEF AgreementInv
<1>2. CASE UNCHANGED vars
  <2>1. UNCHANGED <<net, pc, msg, dst, index, log, applied>>
    BY <1>2 DEF vars, clientVars, replicaVars
  <2>2. \A r \in Followers : CommitsSent(r)' = CommitsSent(r)
    BY <2>1 DEF CommitsSent
  <2>. QED  BY <1>1, <2>1, <2>2
            DEF AgreementInv, CommitInHand, CommitsInTransit, Agreement
<1>3. CASE Terminated
  BY <1>2, <1>3 DEF Terminated
<1>4. CASE Next /\ ~Terminated
  <2>1. CommitInHand' /\ CommitsInTransit' /\ Agreement'
    BY <1>4, ClientAgreement, LeaderReceiveAgreement, LeaderContinueAgreement,
       FollowerAgreement DEF Next
  <2>. QED  BY <1>1, <2>1 DEF AgreementInv
<1>. QED  BY <1>2, <1>3, <1>4

(***************************************************************************)
(* AgreementInv is inductive.                                              *)
(***************************************************************************)
THEOREM AgreementInductive == Spec => []AgreementInv
BY AgreementInit, AgreementStep, PTL DEF Spec

(***************************************************************************)
(* What a follower has not yet executed is what its channel holds, in the  *)
(* order of the log: handle_commit may execute without a look at the index.*)
(***************************************************************************)
THEOREM CommitsInTransitCorrect == Spec => []CommitsInTransit
<1>1. AgreementInv => CommitsInTransit
  BY DEF AgreementInv
<1>. QED  BY <1>1, AgreementInductive, PTL

(***************************************************************************)
(* All replicas execute prefixes of one and the same sequence of commands. *)
(***************************************************************************)
THEOREM AgreementCorrect == Spec => []Agreement
<1>1. AgreementInv => Agreement
  BY DEF AgreementInv
<1>. QED  BY <1>1, AgreementInductive, PTL

------------------------------------------------------------------------------
(***************************************************************************)
(* Votes and answers.  The leader's counter says nothing of whose RDYs it  *)
(* counts, and a client takes any message for its answer.  So the          *)
(* invariant follows the vote of each follower on each request, from the   *)
(* PREP that asks for it to the RDY that is counted, and the one message   *)
(* that each client has on its way.                                        *)
(***************************************************************************)

(* The leader's handler is about client c. *)
InHand(c) == pc[Leader] # "poll" /\ msg[Leader].cid = c

(* The leader has executed command cmd. *)
Executed(cmd) == \E i \in 1 .. Len(applied[Leader]) : applied[Leader][i] = cmd

(* The request of c has left its channel and is not ordered yet. *)
Voting(c) == cpc[c] = "waiting" /\ net[c][Leader] = << >> /\ ~InLog(Current(c))

(***************************************************************************)
(* Where the one message is that belongs to client c while it waits: in    *)
(* its channel to the leader, in the leader's hands, or in the channel     *)
(* back.                                                                   *)
(***************************************************************************)
OneMessage(c) ==
  LET asked  == net[c][Leader]
      answer == net[Leader][c]
  IN  /\ asked # << >> => /\ \/ cpc[c] = "joining" /\ asked = <<SetupMessage(c)>>
                             \/ cpc[c] = "waiting" /\ asked = <<RequestMessage(c)>>
                          /\ ~InHand(c) /\ answer = << >>
      /\ InHand(c) =>
           /\ answer = << >>
           /\ \/ cpc[c] = "joining" /\ pc[Leader] = "setup"
              \/ /\ cpc[c] = "waiting" /\ pc[Leader] # "setup"
                 /\ Command(msg[Leader]) = Current(c)
                 /\ InLog(Current(c)) <=> pc[Leader] # "prepare"
                 /\ pc[Leader] = "respond" => msg[Leader].tag = "RESP" /\ Executed(Current(c))
      /\ answer # << >> =>
           /\ Len(answer) = 1
           /\ \/ cpc[c] = "joining"
              \/ /\ cpc[c] = "waiting" /\ answer[1].tag = "RESP"
                 /\ Command(answer[1]) = Current(c) /\ Executed(Current(c))

(* Of c, no request is ordered or voted on that it has not yet issued, or  *)
(* that has not left its channel.                                          *)
Issued(c, cmd) ==
  cmd[1] = c => \/ cmd[2] < request_count[c]
                \/ cmd = Current(c) /\ cpc[c] = "waiting" /\ net[c][Leader] = << >>

OnlyIssued(c) ==
  /\ \A i \in 1 .. Len(log) : Issued(c, log[i])
  /\ \A v \in votes : Issued(c, v[1])

(* Channel s holds a message with tag t for client c. *)
Has(s, t, c) == \E k \in 1 .. Len(s) : s[k].tag = t /\ s[k].cid = c

(* It holds one of them at most, and it is about command cmd. *)
HasOnly(s, t, c, cmd) ==
  /\ \A k \in 1 .. Len(s) : s[k].tag = t /\ s[k].cid = c => Command(s[k]) = cmd
  /\ \A j, k \in 1 .. Len(s) :
       s[j].tag = t /\ s[j].cid = c /\ s[k].tag = t /\ s[k].cid = c => j = k

(* The places of the vote of follower f on the request of client c. *)
Coming(c, f) == pc[Leader] = "prepare" /\ msg[Leader].cid = c /\ dst <= f
Asked(c, f)  == Has(net[Leader][f], "PREP", c)
Held(c, f)   == pc[f] = "ready" /\ msg[f].cid = c
Back(c, f)   == Has(net[f][Leader], "RDY", c)
Voted(c, f)  == <<Current(c), f>> \in votes

(* The vote is in one place at most, and there is none but on that request.*)
OneVote(c, f) ==
  /\ HasOnly(net[Leader][f], "PREP", c, Current(c))
  /\ HasOnly(net[f][Leader], "RDY", c, Current(c))
  /\ Held(c, f) => Command(msg[f]) = Current(c)
  /\ Coming(c, f) => ~Asked(c, f) /\ ~Held(c, f) /\ ~Back(c, f) /\ ~Voted(c, f)
  /\ Asked(c, f) => ~Held(c, f) /\ ~Back(c, f) /\ ~Voted(c, f)
  /\ Held(c, f) => ~Back(c, f) /\ ~Voted(c, f)
  /\ Back(c, f) => ~Voted(c, f)
  /\ Asked(c, f) \/ Held(c, f) \/ Back(c, f) => Voting(c)

Voters(c) == {f \in Followers : Voted(c, f)}

(* The counter of c counts the votes on its request. *)
CountsVotes(c) == Voting(c) => ready_counter[c] = Cardinality(Voters(c))

(* Followers send RDYs only. *)
FollowersAnswer ==
  \A f \in Followers :
    /\ \A k \in 1 .. Len(net[f][Leader]) : net[f][Leader][k].tag = "RDY"
    /\ pc[f] = "ready" => msg[f].tag = "RDY"

ClientInv(c) ==
  /\ OneMessage(c) /\ OnlyIssued(c) /\ CountsVotes(c)
  /\ \A f \in Followers : OneVote(c, f)

(* What the votes and the answers rest on. *)
VotesInv == FollowersAnswer /\ CommitNeedsAllVotes /\ \A c \in Clients : ClientInv(c)

(* The inductive invariant. *)
IInv == AgreementInv /\ VotesInv

(* A channel that one more message is put into. *)
LEMMA HasAppend ==
  ASSUME NEW s \in Seq(Messages), NEW m \in Messages, NEW t, NEW c, NEW cmd
  PROVE  /\ Has(Append(s, m), t, c) <=> Has(s, t, c) \/ (m.tag = t /\ m.cid = c)
         /\ HasOnly(s, t, c, cmd) /\ ~(m.tag = t /\ m.cid = c) =>
              HasOnly(Append(s, m), t, c, cmd)
         /\ ~Has(s, t, c) /\ Command(m) = cmd => HasOnly(Append(s, m), t, c, cmd)
<1>. PICK a : a = Append(s, m)
  OBVIOUS
<1>1. /\ Len(a) = Len(s) + 1 /\ Len(s) \in Nat
      /\ \A k \in 1 .. Len(s) : a[k] = s[k]
      /\ a[Len(s) + 1] = m
  BY AppendProperties, LenProperties
<1>2. \A k \in 1 .. Len(a) : \/ k \in 1 .. Len(s) /\ a[k] = s[k]
                             \/ k = Len(s) + 1 /\ a[k] = m
  BY <1>1
<1>3. \A k \in 1 .. Len(s) : k \in 1 .. Len(a) /\ a[k] = s[k]
  BY <1>1
<1>4. Len(s) + 1 \in 1 .. Len(a) /\ a[Len(s) + 1] = m
  BY <1>1
<1>5. Has(a, t, c) <=> Has(s, t, c) \/ (m.tag = t /\ m.cid = c)
  BY <1>2, <1>3, <1>4, Zenon DEF Has
<1>6. ASSUME HasOnly(s, t, c, cmd), ~(m.tag = t /\ m.cid = c)
      PROVE  HasOnly(a, t, c, cmd)
  <2>1. \A k \in 1 .. Len(a) : a[k].tag = t /\ a[k].cid = c => k \in 1 .. Len(s) /\ a[k] = s[k]
    BY <1>2, <1>6
  <2>. QED  BY <1>6, <2>1 DEF HasOnly
<1>7. ASSUME ~Has(s, t, c), Command(m) = cmd
      PROVE  HasOnly(a, t, c, cmd)
  <2>1. \A k \in 1 .. Len(a) : a[k].tag = t /\ a[k].cid = c => k = Len(s) + 1 /\ a[k] = m
    BY <1>2, <1>7 DEF Has
  <2>. QED  BY <1>7, <2>1 DEF HasOnly
<1>. QED  BY <1>5, <1>6, <1>7

(* A channel that its first message is taken from. *)
LEMMA HasTail ==
  ASSUME NEW s \in Seq(Messages), s # << >>, NEW t, NEW c, NEW cmd
  PROVE  /\ Has(s, t, c) <=> Has(Tail(s), t, c) \/ (Head(s).tag = t /\ Head(s).cid = c)
         /\ HasOnly(s, t, c, cmd) => HasOnly(Tail(s), t, c, cmd)
         /\ HasOnly(s, t, c, cmd) /\ Head(s).tag = t /\ Head(s).cid = c =>
              ~Has(Tail(s), t, c) /\ Command(Head(s)) = cmd
<1>. PICK a : a = Tail(s)
  OBVIOUS
<1>1. /\ Len(a) = Len(s) - 1 /\ Len(s) \in Nat \ {0}
      /\ \A k \in 1 .. Len(a) : a[k] = s[k + 1]
      /\ Head(s) = s[1]
  BY HeadTailProperties, LenProperties, EmptySeq
<1>2. \A k \in 1 .. Len(a) : k + 1 \in 1 .. Len(s) /\ k + 1 # 1 /\ a[k] = s[k + 1]
  BY <1>1
<1>3. \A k \in 1 .. Len(s) : k = 1 \/ (k - 1 \in 1 .. Len(a) /\ a[k - 1] = s[k])
  BY <1>1
<1>4. 1 \in 1 .. Len(s) /\ Head(s) = s[1]
  BY <1>1
<1>5. Has(s, t, c) <=> Has(a, t, c) \/ (Head(s).tag = t /\ Head(s).cid = c)
  <2>1. Has(s, t, c) => Has(a, t, c) \/ (Head(s).tag = t /\ Head(s).cid = c)
    BY <1>3, <1>4, Zenon DEF Has
  <2>2. Has(a, t, c) => Has(s, t, c)
    BY <1>2, Zenon DEF Has
  <2>3. Head(s).tag = t /\ Head(s).cid = c => Has(s, t, c)
    BY <1>4, Zenon DEF Has
  <2>. QED  BY <2>1, <2>2, <2>3
<1>6. ASSUME HasOnly(s, t, c, cmd)
      PROVE  HasOnly(a, t, c, cmd)
  <2>1. \A k \in 1 .. Len(a) : a[k].tag = t /\ a[k].cid = c => Command(a[k]) = cmd
    BY <1>2, <1>6 DEF HasOnly
  <2>2. ASSUME NEW j \in 1 .. Len(a), NEW k \in 1 .. Len(a),
               a[j].tag = t /\ a[j].cid = c /\ a[k].tag = t /\ a[k].cid = c
        PROVE  j = k
    <3>1. j + 1 = k + 1
      BY <1>2, <1>6, <2>2 DEF HasOnly
    <3>. QED  BY <3>1
  <2>. QED  BY <2>1, <2>2 DEF HasOnly
<1>7. ASSUME HasOnly(s, t, c, cmd), Head(s).tag = t, Head(s).cid = c
      PROVE  ~Has(a, t, c) /\ Command(Head(s)) = cmd
  BY <1>2, <1>4, <1>7 DEF HasOnly, Has
<1>. QED  BY <1>5, <1>6, <1>7

(* A channel without such a message. *)
LEMMA HasNone ==
  ASSUME NEW s, NEW t, NEW c, NEW cmd, ~Has(s, t, c)
  PROVE  HasOnly(s, t, c, cmd)
BY DEF Has, HasOnly

(* Facts about the state that most steps need. *)
LEMMA StateFacts ==
  ASSUME IInv
  PROVE  /\ TypeOK /\ AgreementInv /\ CommitInHand /\ Agreement
         /\ FollowersAnswer /\ CommitNeedsAllVotes
         /\ net \in Channels(Messages) /\ ClientType /\ HistoryType
         /\ \A x, y \in Nodes : net[x][y] \in Seq(Messages)
         /\ \A c \in Clients : /\ OneMessage(c) /\ OnlyIssued(c) /\ CountsVotes(c)
                               /\ \A f \in Followers : OneVote(c, f)
<1>1. /\ TypeOK /\ AgreementInv /\ CommitInHand /\ Agreement
      /\ FollowersAnswer /\ CommitNeedsAllVotes
  BY DEF IInv, AgreementInv, VotesInv
<1>2. net \in Channels(Messages) /\ ClientType /\ HistoryType
  BY <1>1 DEF TypeOK, Channels, ClientType, ClientPCs, HistoryType
<1>3. \A x, y \in Nodes : net[x][y] \in Seq(Messages)
  BY <1>2 DEF Channels
<1>4. \A c \in Clients : /\ OneMessage(c) /\ OnlyIssued(c) /\ CountsVotes(c)
                         /\ \A f \in Followers : OneVote(c, f)
  BY DEF IInv, VotesInv, ClientInv
<1>. QED  BY <1>1, <1>2, <1>3, <1>4

(* A step that asks follower f for no vote on the request of c, and takes  *)
(* no further the one that it has asked for.                               *)
LEMMA VoteFrame ==
  ASSUME NEW c \in Clients, NEW f \in Followers, OneVote(c, f),
         NEW cmd, cmd = Current(c), Current(c)' = cmd,
         HasOnly(net'[Leader][f], "PREP", c, cmd), HasOnly(net'[f][Leader], "RDY", c, cmd),
         Held(c, f)' => Held(c, f) /\ Command(msg'[f]) = Command(msg[f]),
         Coming(c, f)' => Coming(c, f), Asked(c, f)' => Asked(c, f),
         Back(c, f)' => Back(c, f), Voted(c, f)' => Voted(c, f),
         Voting(c) => Voting(c)'
  PROVE  OneVote(c, f)'
<1>1. (HasOnly(net[Leader][f], "PREP", c, Current(c)))'
  BY DEF HasOnly
<1>2. (HasOnly(net[f][Leader], "RDY", c, Current(c)))'
  BY DEF HasOnly
<1>3. Held(c, f)' => Command(msg'[f]) = Current(c)'
  BY DEF OneVote
<1>4. /\ Coming(c, f) => ~Asked(c, f) /\ ~Held(c, f) /\ ~Back(c, f) /\ ~Voted(c, f)
      /\ Asked(c, f) => ~Held(c, f) /\ ~Back(c, f) /\ ~Voted(c, f)
      /\ Held(c, f) => ~Back(c, f) /\ ~Voted(c, f)
      /\ Back(c, f) => ~Voted(c, f)
      /\ Asked(c, f) \/ Held(c, f) \/ Back(c, f) => Voting(c)
  BY DEF OneVote
<1>5. /\ Coming(c, f)' => ~Asked(c, f)' /\ ~Held(c, f)' /\ ~Back(c, f)' /\ ~Voted(c, f)'
      /\ Asked(c, f)' => ~Held(c, f)' /\ ~Back(c, f)' /\ ~Voted(c, f)'
      /\ Held(c, f)' => ~Back(c, f)' /\ ~Voted(c, f)'
      /\ Back(c, f)' => ~Voted(c, f)'
      /\ Asked(c, f)' \/ Held(c, f)' \/ Back(c, f)' => Voting(c)'
  BY <1>4
<1>. QED  BY <1>1, <1>2, <1>3, <1>5 DEF OneVote

(* A step that leaves c, its channels and its votes alone. *)
LEMMA OtherClient ==
  ASSUME IInv, NEW c \in Clients, cpc'[c] = cpc[c], request_count'[c] = request_count[c],
         net'[c][Leader] = net[c][Leader], net'[Leader][c] = net[Leader][c],
         \/ pc'[Leader] = pc[Leader] /\ msg'[Leader] = msg[Leader]
         \/ ~InHand(c)'
         \/ OneMessage(c)',
         ready_counter'[c] = ready_counter[c],
         \A cmd : cmd[1] = c => (InLog(cmd)' <=> InLog(cmd)),
         \A v : v[1][1] = c => (v \in votes' <=> v \in votes),
         \A cmd : Executed(cmd) => Executed(cmd)'
  PROVE  /\ OneMessage(c)' /\ OnlyIssued(c)' /\ CountsVotes(c)'
         /\ Current(c)' = Current(c)
         /\ Voting(c)' <=> Voting(c)
         /\ \A f \in Followers : Voted(c, f)' <=> Voted(c, f)
<1>1. /\ RequestMessage(c)' = RequestMessage(c) /\ SetupMessage(c)' = SetupMessage(c)
      /\ Current(c)' = Current(c) /\ Current(c) \in Commands /\ Current(c)[1] = c
  BY StateFacts DEF RequestMessage, SetupMessage, Current, ClientType, Commands
<1>2. InLog(Current(c))' <=> InLog(Current(c))
  <2>1. InLog(Current(c))' <=> \E i \in 1 .. Len(log') : log'[i] = Current(c)
    BY <1>1 DEF InLog
  <2>. QED  BY <1>1, <2>1 DEF InLog
<1>3. Executed(Current(c)) => Executed(Current(c))'
  BY <1>1 DEF Executed
<1>4. OneMessage(c) /\ OnlyIssued(c) /\ CountsVotes(c)
  BY StateFacts
<1>5. OneMessage(c)'
  <2>1. CASE pc'[Leader] = pc[Leader] /\ msg'[Leader] = msg[Leader]
    <3>1. InHand(c)' <=> InHand(c)
      BY <2>1 DEF InHand
    <3>. QED  BY <1>1, <1>2, <1>3, <1>4, <2>1, <3>1 DEF OneMessage
  <2>2. CASE ~InHand(c)'
    BY <1>1, <1>3, <1>4, <2>2 DEF OneMessage
  <2>3. CASE OneMessage(c)'
    BY <2>3
  <2>. QED  BY <2>1, <2>2, <2>3
<1>6. Voting(c)' <=> Voting(c)
  BY <1>2 DEF Voting
<1>7. \A f \in Followers : Voted(c, f)' <=> Voted(c, f)
  BY <1>1 DEF Voted
<1>8. CountsVotes(c)'
  <2>1. Voters(c)' = Voters(c)
    BY <1>7 DEF Voters
  <2>. QED  BY <1>4, <1>6, <2>1 DEF CountsVotes
<1>9. OnlyIssued(c)'
  <2>1. ASSUME NEW cmd, Issued(c, cmd)
        PROVE  Issued(c, cmd)'
    BY <1>1, <2>1 DEF Issued
  <2>2. ASSUME NEW cmd, InLog(cmd)'
        PROVE  Issued(c, cmd)
    <3>1. CASE cmd[1] = c
      BY <1>4, <2>2, <3>1 DEF InLog, OnlyIssued
    <3>2. CASE cmd[1] # c
      BY <3>2 DEF Issued
    <3>. QED  BY <3>1, <3>2
  <2>3. ASSUME NEW v \in votes'
        PROVE  Issued(c, v[1])
    BY <1>4 DEF Issued, OnlyIssued
  <2>4. ASSUME NEW i \in 1 .. Len(log')
        PROVE  Issued(c, log[i])'
    <3>. PICK cmd : cmd = log'[i]
      OBVIOUS
    <3>1. InLog(cmd)'
      BY DEF InLog
    <3>2. Issued(c, cmd)'
      BY <2>1, <2>2, <3>1
    <3>. QED  BY <3>2 DEF Issued
  <2>5. ASSUME NEW v \in votes'
        PROVE  Issued(c, v[1])'
    BY <2>1, <2>3
  <2>. QED  BY <2>4, <2>5 DEF OnlyIssued
<1>. QED  BY <1>1, <1>5, <1>6, <1>7, <1>8, <1>9

(* A step that leaves follower f, its channels and its votes alone. *)
LEMMA VoteStays ==
  ASSUME IInv, NEW c \in Clients, NEW f \in Followers,
         net'[Leader][f] = net[Leader][f], net'[f][Leader] = net[f][Leader],
         pc'[f] = pc[f], msg'[f] = msg[f],
         Coming(c, f)' => Coming(c, f), Voted(c, f)' => Voted(c, f),
         Current(c)' = Current(c), Voting(c) => Voting(c)'
  PROVE  OneVote(c, f)'
<1>. PICK cmd : cmd = Current(c) /\ cmd = Current(c)'
  OBVIOUS
<1>1. OneVote(c, f)
  BY StateFacts
<1>2. /\ HasOnly(net'[Leader][f], "PREP", c, cmd) /\ HasOnly(net'[f][Leader], "RDY", c, cmd)
      /\ Asked(c, f)' => Asked(c, f)
      /\ Back(c, f)' => Back(c, f)
      /\ Held(c, f)' => Held(c, f) /\ Command(msg'[f]) = Command(msg[f])
  BY <1>1 DEF OneVote, Asked, Back, Held, Has
<1>. QED  BY <1>1, <1>2, VoteFrame

(* Where no vote is asked for, none is out of place. *)
LEMMA NoVote ==
  ASSUME NEW c \in Clients, NEW f \in Followers,
         ~Coming(c, f)', ~Asked(c, f)', ~Held(c, f)', ~Back(c, f)'
  PROVE  OneVote(c, f)'
<1>1. (HasOnly(net[Leader][f], "PREP", c, Current(c)))'
  BY DEF HasOnly, Asked, Has
<1>2. (HasOnly(net[f][Leader], "RDY", c, Current(c)))'
  BY DEF HasOnly, Back, Has
<1>. QED  BY <1>1, <1>2 DEF OneVote

(* Nothing is ordered or voted on, and what is issued stays so. *)
LEMMA IssuedFrame ==
  ASSUME IInv, NEW c \in Clients, UNCHANGED <<log, votes>>,
         \A cmd \in Commands : Issued(c, cmd) => Issued(c, cmd)'
  PROVE  OnlyIssued(c)'
<1>1. OnlyIssued(c)
  BY StateFacts
<1>2. ASSUME NEW i \in 1 .. Len(log')
      PROVE  Issued(c, log[i])'
  <2>. PICK cmd : cmd = log[i]
    OBVIOUS
  <2>1. cmd \in Commands
    BY StateFacts DEF HistoryType
  <2>2. Issued(c, cmd)'
    BY <1>1, <2>1 DEF OnlyIssued
  <2>. QED  BY <2>2 DEF Issued
<1>3. ASSUME NEW v \in votes
      PROVE  Issued(c, v[1])'
  <2>1. v \in Commands \X Nodes
    BY StateFacts DEF TypeOK
  <2>2. v[1] \in Commands
    BY <2>1
  <2>. QED  BY <1>1, <2>2 DEF OnlyIssued
<1>. QED  BY <1>2, <1>3 DEF OnlyIssued

(* What the leader has executed is in the log. *)
LEMMA ExecutedInLog ==
  ASSUME IInv, NEW cmd, Executed(cmd)
  PROVE  InLog(cmd)
<1>1. PICK i \in 1 .. Len(applied[Leader]) : applied[Leader][i] = cmd
  BY DEF Executed
<1>2. Len(applied[Leader]) <= Len(log) /\ log[i] = cmd
  BY <1>1, StateFacts, NodeFacts DEF Agreement
<1>3. Len(applied[Leader]) \in Nat /\ Len(log) \in Nat
  BY StateFacts, NodeFacts, LenProperties DEF HistoryType
<1>4. i \in 1 .. Len(log)
  BY <1>2, <1>3
<1>. QED  BY <1>2, <1>4 DEF InLog

(* Where the channels of a client and of the followers are. *)
LEMMA ChannelFacts ==
  /\ Leader \in Replicas /\ Leader \in Nodes /\ RecvFrom = Leader
  /\ \A f \in Followers : f \in Replicas /\ f \in Nodes /\ f # Leader /\ f \notin Clients
  /\ \A c \in Clients : c \in Nodes /\ c # Leader /\ c \notin Replicas
BY NodeFacts, ClientNodes, AnswersFromLeader

(* The followers, N - 1 of them. *)
LEMMA FollowersFinite ==
  IsFiniteSet(Followers) /\ Cardinality(Followers) = N - 1
<1>1. Followers = 1 .. N - 1 /\ N \in Nat /\ N >= 2
  BY ReplicasAssumption DEF Followers, Replicas, Leader
<1>2. 1 \in Int /\ N - 1 \in Int /\ ~(1 > N - 1) /\ (N - 1) - 1 + 1 = N - 1
  BY <1>1
<1>. QED  BY <1>1, <1>2, FS_Interval

(* A step that a follower takes no part in. *)
FollowersIdle ==
  /\ \A f \in Followers : /\ net'[Leader][f] = net[Leader][f] /\ net'[f][Leader] = net[f][Leader]
                          /\ pc'[f] = pc[f] /\ msg'[f] = msg[f]
  /\ UNCHANGED <<log, votes>>

(* It leaves alone what the followers send, and the votes on commands. *)
LEMMA FollowersIdleFacts ==
  ASSUME IInv, FollowersIdle
  PROVE  FollowersAnswer' /\ CommitNeedsAllVotes'
BY StateFacts DEF FollowersIdle, FollowersAnswer, CommitNeedsAllVotes

(* It leaves the votes of a client alone that it leaves alone itself. *)
LEMMA IdleOther ==
  ASSUME IInv, FollowersIdle, NEW d \in Clients,
         cpc'[d] = cpc[d], request_count'[d] = request_count[d],
         net'[d][Leader] = net[d][Leader], net'[Leader][d] = net[Leader][d],
         \/ pc'[Leader] = pc[Leader] /\ msg'[Leader] = msg[Leader] /\ dst' = dst
         \/ ~InHand(d)',
         ready_counter'[d] = ready_counter[d],
         applied'[Leader] = applied[Leader]
  PROVE  ClientInv(d)'
<1>1. \A cmd : Executed(cmd)' <=> Executed(cmd)
  BY DEF Executed
<1>2. /\ \A cmd : InLog(cmd)' <=> InLog(cmd)
      /\ votes' = votes
  BY DEF FollowersIdle, InLog
<1>3. /\ OneMessage(d)' /\ OnlyIssued(d)' /\ CountsVotes(d)'
      /\ Current(d)' = Current(d)
      /\ Voting(d)' <=> Voting(d)
      /\ \A f \in Followers : Voted(d, f)' <=> Voted(d, f)
  BY <1>1, <1>2, OtherClient
<1>4. ASSUME NEW f \in Followers
      PROVE  OneVote(d, f)'
  <2>1. Coming(d, f)' => Coming(d, f)
    BY DEF Coming, InHand
  <2>2. /\ net'[Leader][f] = net[Leader][f] /\ net'[f][Leader] = net[f][Leader]
        /\ pc'[f] = pc[f] /\ msg'[f] = msg[f]
    BY DEF FollowersIdle
  <2>3. Voted(d, f)' => Voted(d, f)
    BY <1>3
  <2>4. Current(d)' = Current(d) /\ (Voting(d) => Voting(d)')
    BY <1>3
  <2>. QED  BY <2>1, <2>2, <2>3, <2>4, VoteStays
<1>. QED  BY <1>3, <1>4 DEF ClientInv

(* It starts no vote of a client whose request nobody votes on. *)
LEMMA IdleNoVote ==
  ASSUME IInv, FollowersIdle, NEW c \in Clients, ~Voting(c),
         \A f \in Followers : ~Coming(c, f)'
  PROVE  \A f \in Followers : OneVote(c, f)'
<1>. SUFFICES ASSUME NEW f \in Followers PROVE OneVote(c, f)'
  OBVIOUS
<1>1. ~Asked(c, f) /\ ~Held(c, f) /\ ~Back(c, f)
  BY StateFacts DEF OneVote
<1>2. ~Asked(c, f)' /\ ~Held(c, f)' /\ ~Back(c, f)'
  BY <1>1 DEF FollowersIdle, Asked, Held, Back
<1>. QED  BY <1>2, NoVote

(* A client sends or receives. *)
LEMMA ClientVotes ==
  ASSUME IInv, NEW c \in Clients, ClientMoves(c)
  PROVE  VotesInv'
<1>1. UNCHANGED <<pc, msg, dst, ready_counter, log, applied, votes>> /\ ClientEffect(c)
  BY StateFacts, ClientTypes DEF ClientMoves, replicaVars
<1>2. \A x, y \in Nodes : x # c /\ y # c => net'[x][y] = net[x][y]
  BY <1>1, ClientFrame
<1>3. FollowersIdle
  BY <1>1, <1>2, ChannelFacts DEF FollowersIdle
<1>4. \A d \in Clients : d # c => cpc'[d] = cpc[d] /\ request_count'[d] = request_count[d]
  BY StateFacts, ClientStepFacts, ClientMessages DEF ClientMoves
<1>5. ASSUME NEW d \in Clients, d # c
      PROVE  ClientInv(d)'
  <2>1. net'[d][Leader] = net[d][Leader] /\ net'[Leader][d] = net[Leader][d]
    BY <1>2, <1>5, ChannelFacts
  <2>. QED  BY <1>1, <1>3, <1>4, <1>5, <2>1, IdleOther
<1>6. ClientInv(c)'
  <2>1. PICK asked, answer : asked = net[c][Leader] /\ answer = net[Leader][c]
    OBVIOUS
  <2>2. OneMessage(c) /\ request_count[c] \in Nat
    BY StateFacts DEF ClientType
  <2>3. answer \in Seq(Messages)
    BY <2>1, StateFacts, ChannelFacts
  <2>4. SetupMessage(c)' = SetupMessage(c) /\ (InHand(c)' <=> InHand(c))
    BY <1>1 DEF SetupMessage, InHand
  <2>5. CASE cpc[c] = "new"
    <3>1. asked = << >> /\ answer = << >> /\ ~InHand(c) /\ ~Voting(c)
      BY <2>1, <2>2, <2>5 DEF OneMessage, Voting
    <3>2. /\ cpc'[c] = "joining" /\ request_count'[c] = request_count[c]
          /\ net'[c][Leader] = <<SetupMessage(c)>> /\ net'[Leader][c] = << >>
      <4>1. /\ cpc'[c] = "joining" /\ request_count'[c] = request_count[c]
            /\ ClientSent(c, SetupMessage(c))
        BY <1>1, <2>5 DEF ClientEffect
      <4>2. /\ net[c][Leader] = << >> /\ net[Leader][c] = << >>
            /\ c \in Nodes /\ Leader \in Nodes /\ c # Leader
        BY <2>1, <3>1, ChannelFacts
      <4>3. net'[c][Leader] = <<SetupMessage(c)>> /\ net'[Leader][c] = << >>
        BY ONLY <4>1, <4>2, SentAlone, Zenon
      <4>. QED  BY ONLY <4>1, <4>3
    <3>3. OneMessage(c)'
      BY <2>4, <3>1, <3>2 DEF OneMessage
    <3>4. OnlyIssued(c)'
      <4>1. \A cmd \in Commands : Issued(c, cmd) => Issued(c, cmd)'
        BY <2>5, <3>2 DEF Issued
      <4>. QED  BY <1>1, <4>1, IssuedFrame
    <3>5. CountsVotes(c)' /\ \A f \in Followers : ~Coming(c, f)'
      BY <1>1, <2>4, <3>1, <3>2 DEF CountsVotes, Voting, Coming, InHand
    <3>. QED  BY <1>3, <3>1, <3>3, <3>4, <3>5, IdleNoVote DEF ClientInv
  <2>6. CASE cpc[c] = "joining"
    <3>1. /\ cpc'[c] = "idle" /\ request_count'[c] = request_count[c]
          /\ answer # << >> /\ net'[Leader][c] = Tail(answer) /\ net'[c][Leader] = asked
      BY <1>1, <2>1, <2>6, ChannelFacts DEF ClientEffect, ClientGot
    <3>2. asked = << >> /\ ~InHand(c) /\ Len(answer) = 1 /\ ~Voting(c)
      BY <2>1, <2>2, <2>6, <3>1 DEF OneMessage, Voting
    <3>3. net'[Leader][c] = << >>
      BY <2>3, <3>1, <3>2, LastTaken
    <3>4. OneMessage(c)'
      BY <2>4, <3>1, <3>2, <3>3 DEF OneMessage
    <3>5. OnlyIssued(c)'
      <4>1. \A cmd \in Commands : Issued(c, cmd) => Issued(c, cmd)'
        BY <2>6, <3>1 DEF Issued
      <4>. QED  BY <1>1, <4>1, IssuedFrame
    <3>6. CountsVotes(c)' /\ \A f \in Followers : ~Coming(c, f)'
      BY <1>1, <2>4, <3>1, <3>2 DEF CountsVotes, Voting, Coming, InHand
    <3>. QED  BY <1>3, <3>2, <3>4, <3>5, <3>6, IdleNoVote DEF ClientInv
  <2>7. CASE cpc[c] = "idle"
    <3>1. asked = << >> /\ answer = << >> /\ ~InHand(c) /\ ~Voting(c)
      BY <2>1, <2>2, <2>7 DEF OneMessage, Voting
    <3>2. /\ cpc'[c] = "waiting" /\ request_count'[c] = request_count[c]
          /\ net'[c][Leader] = <<RequestMessage(c)>> /\ net'[Leader][c] = << >>
      <4>1. /\ cpc'[c] = "waiting" /\ request_count'[c] = request_count[c]
            /\ ClientSent(c, RequestMessage(c))
        BY <1>1, <2>7 DEF ClientEffect
      <4>2. /\ net[c][Leader] = << >> /\ net[Leader][c] = << >>
            /\ c \in Nodes /\ Leader \in Nodes /\ c # Leader
        BY <2>1, <3>1, ChannelFacts
      <4>3. net'[c][Leader] = <<RequestMessage(c)>> /\ net'[Leader][c] = << >>
        BY ONLY <4>1, <4>2, SentAlone, Zenon
      <4>. QED  BY ONLY <4>1, <4>3
    <3>3. RequestMessage(c)' = RequestMessage(c)
      BY <3>2 DEF RequestMessage
    <3>4. OneMessage(c)'
      BY <2>4, <3>1, <3>2, <3>3 DEF OneMessage
    <3>5. OnlyIssued(c)'
      <4>1. \A cmd \in Commands : Issued(c, cmd) => Issued(c, cmd)'
        BY <2>7, <3>2 DEF Issued
      <4>. QED  BY <1>1, <4>1, IssuedFrame
    <3>6. CountsVotes(c)' /\ \A f \in Followers : ~Coming(c, f)'
      <4>1. <<RequestMessage(c)>> # << >>
        BY SingleMessage
      <4>2. ~Voting(c)'
        BY <3>2, <4>1 DEF Voting
      <4>. QED  BY <1>1, <2>4, <3>1, <4>2 DEF CountsVotes, Coming, InHand
    <3>. QED  BY <1>3, <3>1, <3>4, <3>5, <3>6, IdleNoVote DEF ClientInv
  <2>8. CASE cpc[c] = "waiting"
    <3>1. /\ cpc'[c] = "idle" /\ request_count'[c] = request_count[c] + 1
          /\ answer # << >> /\ net'[Leader][c] = Tail(answer) /\ net'[c][Leader] = asked
      BY <1>1, <2>1, <2>8, ChannelFacts DEF ClientEffect, ClientGot
    <3>2. asked = << >> /\ ~InHand(c) /\ Len(answer) = 1 /\ Executed(Current(c))
      BY <2>1, <2>2, <2>8, <3>1 DEF OneMessage
    <3>3. ~Voting(c)
      BY <3>2, ExecutedInLog DEF Voting
    <3>4. net'[Leader][c] = << >>
      BY <2>3, <3>1, <3>2, LastTaken
    <3>5. OneMessage(c)'
      BY <2>4, <3>1, <3>2, <3>4 DEF OneMessage
    <3>6. OnlyIssued(c)'
      <4>1. ASSUME NEW cmd \in Commands, Issued(c, cmd)
            PROVE  Issued(c, cmd)'
        <5>1. cmd[2] \in Nat
          BY DEF Commands
        <5>2. CASE cmd[1] = c
          <6>1. cmd[2] < request_count[c] \/ cmd[2] = request_count[c]
            BY <4>1, <5>2 DEF Issued, Current
          <6>2. cmd[2] < request_count'[c]
            BY <2>2, <3>1, <5>1, <6>1
          <6>. QED  BY <6>2 DEF Issued
        <5>3. CASE cmd[1] # c
          BY <5>3 DEF Issued
        <5>. QED  BY <5>2, <5>3
      <4>. QED  BY <1>1, <4>1, IssuedFrame
    <3>7. CountsVotes(c)' /\ \A f \in Followers : ~Coming(c, f)'
      BY <1>1, <2>4, <3>1, <3>2 DEF CountsVotes, Voting, Coming, InHand
    <3>. QED  BY <1>3, <3>3, <3>5, <3>6, <3>7, IdleNoVote DEF ClientInv
  <2>. QED  BY <1>1, <2>5, <2>6, <2>7, <2>8 DEF ClientEffect
<1>. QED  BY <1>3, <1>5, <1>6, FollowersIdleFacts DEF VotesInv

(* The leader takes the one message of client src. *)
LEMMA LeaderTakes ==
  ASSUME IInv, NEW src \in Nodes \ {Leader}, NEW t \in {"SETUP", "REQ"}, Takes(Leader, src, t)
  PROVE  LET m == Head(net[src][Leader])
         IN  /\ src \in Clients /\ m \in Messages /\ m.cid = src /\ pc[Leader] = "poll"
             /\ net[src][Leader] # << >> /\ net'[src][Leader] = << >>
             /\ net[Leader][src] = << >> /\ ~Voting(src)
             /\ \A x, y \in Nodes : x # src \/ y # Leader => net'[x][y] = net[x][y]
             /\ t = "SETUP" => cpc[src] = "joining"
             /\ t = "REQ" => cpc[src] = "waiting" /\ Command(m) = Current(src)
<1>1. Leader \in Replicas /\ net \in Channels(Messages)
  BY StateFacts, ChannelFacts
<1>2. /\ pc[Leader] = "poll" /\ net[src][Leader] # << >>
      /\ Head(net[src][Leader]) \in Messages /\ Head(net[src][Leader]).tag = t
      /\ net'[src][Leader] = Tail(net[src][Leader])
      /\ \A x, y \in Nodes : x # src \/ y # Leader => net'[x][y] = net[x][y]
  BY <1>1, TakesFacts
<1>3. src \in Clients
  <2>. SUFFICES ASSUME src \in Followers PROVE FALSE
    BY ClientNodes DEF Nodes
  <2>1. \A k \in 1 .. Len(net[src][Leader]) : net[src][Leader][k].tag = "RDY"
    BY StateFacts DEF FollowersAnswer
  <2>2. net[src][Leader] \in Seq(Messages)
    BY <1>1, StateFacts, ChannelFacts
  <2>3. Len(net[src][Leader]) \in Nat \ {0} /\ Head(net[src][Leader]) = net[src][Leader][1]
    BY <1>2, <2>2, HeadTailProperties, LenProperties, EmptySeq
  <2>. QED  BY <1>2, <2>1, <2>3
<1>4. OneMessage(src)
  BY <1>3, StateFacts
<1>5. /\ net[Leader][src] = << >>
      /\ \/ cpc[src] = "joining" /\ net[src][Leader] = <<SetupMessage(src)>>
         \/ cpc[src] = "waiting" /\ net[src][Leader] = <<RequestMessage(src)>>
  BY <1>2, <1>4 DEF OneMessage
<1>6. CASE cpc[src] = "joining" /\ net[src][Leader] = <<SetupMessage(src)>>
  <2>1. Head(net[src][Leader]) = SetupMessage(src) /\ net'[src][Leader] = << >>
    BY <1>2, <1>6, SingleMessage
  <2>2. SetupMessage(src).tag = "SETUP" /\ SetupMessage(src).cid = src
    BY DEF SetupMessage, Message
  <2>3. ~Voting(src)
    BY <1>2 DEF Voting
  <2>. QED  BY <1>2, <1>3, <1>5, <1>6, <2>1, <2>2, <2>3
<1>7. CASE cpc[src] = "waiting" /\ net[src][Leader] = <<RequestMessage(src)>>
  <2>1. Head(net[src][Leader]) = RequestMessage(src) /\ net'[src][Leader] = << >>
    BY <1>2, <1>7, SingleMessage
  <2>2. /\ RequestMessage(src).tag = "REQ" /\ RequestMessage(src).cid = src
        /\ Command(RequestMessage(src)) = Current(src)
    BY DEF RequestMessage, Message, Command, Current
  <2>3. ~Voting(src)
    BY <1>2 DEF Voting
  <2>. QED  BY <1>2, <1>3, <1>5, <1>7, <2>1, <2>2, <2>3
<1>. QED  BY <1>5, <1>6, <1>7

(* The leader takes up a setup message. *)
LEMMA SetupVotes ==
  ASSUME IInv, NEW src \in Nodes \ {Leader}, handle_setup(src)
  PROVE  VotesInv'
<1>1. PICK m : m = Head(net[src][Leader])
  OBVIOUS
<1>2. /\ Takes(Leader, src, "SETUP") /\ Enters(Leader, "setup", m)
      /\ UNCHANGED <<cpc, request_count, dst, ready_counter, index, log, applied, votes>>
  BY <1>1 DEF handle_setup
<1>3. /\ src \in Clients /\ m \in Messages /\ m.cid = src /\ pc[Leader] = "poll"
      /\ net[src][Leader] # << >> /\ net'[src][Leader] = << >> /\ net[Leader][src] = << >>
      /\ cpc[src] = "joining" /\ ~Voting(src)
      /\ \A x, y \in Nodes : x # src \/ y # Leader => net'[x][y] = net[x][y]
  BY <1>1, <1>2, LeaderTakes
<1>4. /\ pc'[Leader] = "setup" /\ msg'[Leader] = m
      /\ \A q \in Replicas : q # Leader => pc'[q] = pc[q] /\ msg'[q] = msg[q]
  BY <1>2, StateFacts, ChannelFacts DEF Enters, TypeOK
<1>5. FollowersIdle
  BY <1>2, <1>3, <1>4, ChannelFacts DEF FollowersIdle
<1>6. ASSUME NEW d \in Clients, d # src
      PROVE  ClientInv(d)'
  <2>1. net'[d][Leader] = net[d][Leader] /\ net'[Leader][d] = net[Leader][d]
    BY <1>3, <1>6, ChannelFacts
  <2>2. ~InHand(d) /\ ~InHand(d)'
    BY <1>3, <1>4, <1>6 DEF InHand
  <2>. QED  BY <1>2, <1>5, <2>1, <2>2, IdleOther
<1>7. ClientInv(src)'
  <2>1. net'[Leader][src] = << >>
    BY <1>3, ChannelFacts
  <2>2. OneMessage(src)'
    BY <1>2, <1>3, <1>4, <2>1 DEF OneMessage
  <2>3. OnlyIssued(src)'
    <3>1. \A cmd \in Commands : Issued(src, cmd) => Issued(src, cmd)'
      BY <1>2, <1>3 DEF Issued
    <3>. QED  BY <1>2, <1>3, <3>1, IssuedFrame
  <2>4. CountsVotes(src)' /\ \A f \in Followers : ~Coming(src, f)'
    BY <1>2, <1>3, <1>4 DEF CountsVotes, Voting, Coming
  <2>. QED  BY <1>3, <1>5, <2>2, <2>3, <2>4, IdleNoVote DEF ClientInv
<1>. QED  BY <1>5, <1>6, <1>7, FollowersIdleFacts DEF VotesInv

(* Of a request in its channel to the leader, nobody has seen anything. *)
LEMMA RequestUnseen ==
  ASSUME IInv, NEW c \in Clients, net[c][Leader] # << >>
  PROVE  /\ ~InLog(Current(c))
         /\ \A v \in votes : v[1] # Current(c)
<1>1. request_count[c] \in Nat /\ Current(c) = <<c, request_count[c]>>
  BY StateFacts DEF ClientType, Current
<1>2. ~Issued(c, Current(c))
  BY <1>1 DEF Issued
<1>. QED  BY <1>2, StateFacts DEF OnlyIssued, InLog

(* The leader takes up a request: the vote on it begins. *)
LEMMA RequestVotes ==
  ASSUME IInv, NEW src \in Nodes \ {Leader}, handle_request(src)
  PROVE  VotesInv'
<1>1. PICK m, p : m = Head(net[src][Leader]) /\ p = [m EXCEPT !.tag = "PREP"]
  OBVIOUS
<1>2. /\ Takes(Leader, src, "REQ") /\ Enters(Leader, "prepare", p)
      /\ ready_counter' = ResetCounter(m.cid)
      /\ UNCHANGED <<cpc, request_count, index, log, applied, votes>>
  BY <1>1 DEF handle_request
<1>3. /\ src \in Clients /\ m \in Messages /\ m.cid = src /\ pc[Leader] = "poll"
      /\ net[src][Leader] # << >> /\ net'[src][Leader] = << >> /\ net[Leader][src] = << >>
      /\ cpc[src] = "waiting" /\ Command(m) = Current(src) /\ ~Voting(src)
      /\ \A x, y \in Nodes : x # src \/ y # Leader => net'[x][y] = net[x][y]
  BY <1>1, <1>2, LeaderTakes
<1>4. p.cid = src /\ Command(p) = Current(src)
  BY <1>1, <1>3, MessageFacts DEF Tags
<1>5. /\ pc'[Leader] = "prepare" /\ msg'[Leader] = p
      /\ \A q \in Replicas : q # Leader => pc'[q] = pc[q] /\ msg'[q] = msg[q]
      /\ \A d \in Clients : ready_counter'[d] = IF d = src THEN 0 ELSE ready_counter[d]
  BY <1>2, <1>3, StateFacts, ChannelFacts DEF Enters, ResetCounter, TypeOK
<1>6. FollowersIdle
  BY <1>2, <1>3, <1>5, ChannelFacts DEF FollowersIdle
<1>7. ASSUME NEW d \in Clients, d # src
      PROVE  ClientInv(d)'
  <2>1. net'[d][Leader] = net[d][Leader] /\ net'[Leader][d] = net[Leader][d]
    BY <1>3, <1>7, ChannelFacts
  <2>2. ~InHand(d) /\ ~InHand(d)'
    BY <1>3, <1>4, <1>5, <1>7 DEF InHand
  <2>. QED  BY <1>2, <1>5, <1>6, <1>7, <2>1, <2>2, IdleOther
<1>8. ClientInv(src)'
  <2>1. net'[Leader][src] = << >> /\ Current(src)' = Current(src)
    BY <1>2, <1>3, ChannelFacts DEF Current
  <2>2. ~InLog(Current(src)) /\ \A v \in votes : v[1] # Current(src)
    BY <1>3, RequestUnseen
  <2>3. ~InLog(Current(src))'
    BY <1>2, <2>1, <2>2 DEF InLog
  <2>4. OneMessage(src)'
    BY <1>2, <1>3, <1>4, <1>5, <2>1, <2>3 DEF OneMessage
  <2>5. OnlyIssued(src)'
    <3>1. \A cmd \in Commands : Issued(src, cmd) => Issued(src, cmd)'
      BY <1>2, <1>3 DEF Issued
    <3>. QED  BY <1>2, <1>3, <3>1, IssuedFrame
  <2>6. \A f \in Followers : ~Voted(src, f)'
    BY <1>2, <2>1, <2>2 DEF Voted
  <2>7. CountsVotes(src)'
    <3>1. Voters(src)' = {}
      BY <2>6 DEF Voters
    <3>. QED  BY <1>3, <1>5, <3>1, FS_EmptySet DEF CountsVotes
  <2>8. ASSUME NEW f \in Followers
        PROVE  OneVote(src, f)'
    <3>1. ~Asked(src, f) /\ ~Held(src, f) /\ ~Back(src, f)
      BY <1>3, StateFacts DEF OneVote
    <3>2. ~Asked(src, f)' /\ ~Held(src, f)' /\ ~Back(src, f)'
      BY <1>6, <3>1 DEF FollowersIdle, Asked, Held, Back
    <3>3. (HasOnly(net[Leader][f], "PREP", src, Current(src)))'
      BY <3>2 DEF HasOnly, Asked, Has
    <3>4. (HasOnly(net[f][Leader], "RDY", src, Current(src)))'
      BY <3>2 DEF HasOnly, Back, Has
    <3>. QED  BY <2>6, <3>2, <3>3, <3>4 DEF OneVote
  <2>. QED  BY <2>4, <2>5, <2>7, <2>8 DEF ClientInv
<1>. QED  BY <1>6, <1>7, <1>8, FollowersIdleFacts DEF VotesInv

(* A step that orders, counts and executes nothing at the leader. *)
LEMMA QuietOther ==
  ASSUME IInv, NEW d \in Clients,
         UNCHANGED <<cpc, request_count, ready_counter, log, votes>>,
         applied'[Leader] = applied[Leader],
         net'[d][Leader] = net[d][Leader], net'[Leader][d] = net[Leader][d],
         \/ pc'[Leader] = pc[Leader] /\ msg'[Leader] = msg[Leader]
         \/ ~InHand(d)'
         \/ OneMessage(d)'
  PROVE  /\ OneMessage(d)' /\ OnlyIssued(d)' /\ CountsVotes(d)'
         /\ Current(d)' = Current(d)
         /\ Voting(d)' <=> Voting(d)
         /\ \A f \in Followers : Voted(d, f)' <=> Voted(d, f)
<1>1. \A cmd : Executed(cmd)' <=> Executed(cmd)
  BY DEF Executed
<1>2. \A cmd : InLog(cmd)' <=> InLog(cmd)
  BY DEF InLog
<1>. QED  BY <1>1, <1>2, OtherClient

(* The leader sends its buffer, and no more of the state changes. *)
LEMMA LeaderSends ==
  ASSUME IInv, NEW where, where # "poll", NEW d \in Nodes, Sends(Leader, where, d)
  PROVE  /\ msg[Leader] \in Messages /\ pc[Leader] = where
         /\ net'[Leader][d] = Append(net[Leader][d], msg[Leader])
         /\ \A x, y \in Nodes : x # Leader \/ y # d => net'[x][y] = net[x][y]
<1>1. TypeOK /\ Leader \in Replicas
  BY StateFacts, ChannelFacts
<1>2. pc[Leader] = where
  BY DEF Sends
<1>3. net \in Channels(Messages) /\ msg[Leader] \in Messages
  BY <1>1, SendsMessage, StateFacts
<1>4. /\ net'[Leader][d] = Append(net[Leader][d], msg[Leader])
      /\ \A x, y \in Nodes : x # Leader \/ y # d => net'[x][y] = net[x][y]
  BY <1>1, <1>3, SendsFacts
<1>. QED  BY <1>2, <1>3, <1>4

(* The leader answers a setup message. *)
LEMMA SetupSendVotes ==
  ASSUME IInv, handle_setup_send
  PROVE  VotesInv'
<1>1. PICK m, c : m = msg[Leader] /\ c = m.cid
  OBVIOUS
<1>2. /\ Sends(Leader, "setup", c) /\ Returns(Leader)
      /\ UNCHANGED <<cpc, request_count, dst, ready_counter, index, log, applied, votes>>
  BY <1>1 DEF handle_setup_send
<1>3. pc[Leader] = "setup" /\ m \in Messages
  BY <1>1, <1>2, StateFacts, ChannelFacts DEF Sends, TypeOK
<1>4. c \in Clients /\ c \in Nodes
  BY <1>1, <1>3, ChannelFacts, MessageFacts
<1>5. /\ net'[Leader][c] = Append(net[Leader][c], m)
      /\ \A x, y \in Nodes : x # Leader \/ y # c => net'[x][y] = net[x][y]
  BY <1>1, <1>2, <1>3, <1>4, LeaderSends
<1>6. /\ pc'[Leader] = "poll"
      /\ \A q \in Replicas : q # Leader => pc'[q] = pc[q] /\ msg'[q] = msg[q]
  BY <1>2, StateFacts, ChannelFacts DEF Returns, TypeOK
<1>7. FollowersIdle
  BY <1>2, <1>4, <1>5, <1>6, ChannelFacts DEF FollowersIdle
<1>8. ASSUME NEW d \in Clients, d # c
      PROVE  ClientInv(d)'
  <2>1. net'[d][Leader] = net[d][Leader] /\ net'[Leader][d] = net[Leader][d]
    BY <1>4, <1>5, <1>8, ChannelFacts
  <2>2. ~InHand(d)'
    BY <1>6 DEF InHand
  <2>. QED  BY <1>2, <1>7, <2>1, <2>2, IdleOther
<1>9. ClientInv(c)'
  <2>1. InHand(c) /\ OneMessage(c)
    BY <1>1, <1>3, <1>4, StateFacts DEF InHand
  <2>2. cpc[c] = "joining" /\ net[Leader][c] = << >> /\ net[c][Leader] = << >> /\ ~Voting(c)
    BY <1>3, <2>1 DEF OneMessage, Voting
  <2>3. net'[c][Leader] = << >> /\ net'[Leader][c] = <<m>>
    BY <1>4, <1>5, <2>2, ChannelFacts, SingleMessage
  <2>4. Len(net'[Leader][c]) = 1
    BY <2>3, SingleMessage
  <2>5. OneMessage(c)'
    BY <1>2, <1>6, <2>2, <2>3, <2>4 DEF OneMessage, InHand
  <2>6. OnlyIssued(c)'
    <3>1. \A cmd \in Commands : Issued(c, cmd) => Issued(c, cmd)'
      BY <1>2, <2>2, <2>3 DEF Issued
    <3>. QED  BY <1>2, <1>4, <3>1, IssuedFrame
  <2>7. CountsVotes(c)' /\ \A f \in Followers : ~Coming(c, f)'
    BY <1>2, <1>6, <2>2 DEF CountsVotes, Voting, Coming
  <2>. QED  BY <1>4, <1>7, <2>2, <2>5, <2>6, <2>7, IdleNoVote DEF ClientInv
<1>. QED  BY <1>7, <1>8, <1>9, FollowersIdleFacts DEF VotesInv

(* The leader asks the next follower for its vote. *)
LEMMA RequestSendVotes ==
  ASSUME IInv, handle_request_send
  PROVE  VotesInv'
<1>1. PICK m, c, g : m = msg[Leader] /\ c = m.cid /\ g = dst
  OBVIOUS
<1>2. /\ Sends(Leader, "prepare", g)
      /\ UNCHANGED <<cpc, request_count, ready_counter, index, log, applied, votes>>
  BY <1>1 DEF handle_request_send, SendsInLoop
<1>3. pc[Leader] = "prepare" /\ m \in Messages /\ m.tag = "PREP" /\ g \in Followers
  BY <1>1, <1>2, StateFacts, ChannelFacts DEF Sends, TypeOK, CommitInHand
<1>4. c \in Clients /\ g \in Nodes
  BY <1>1, <1>3, ChannelFacts, MessageFacts
<1>5. /\ net'[Leader][g] = Append(net[Leader][g], m)
      /\ \A x, y \in Nodes : x # Leader \/ y # g => net'[x][y] = net[x][y]
  BY <1>1, <1>2, <1>3, <1>4, LeaderSends
<1>6. /\ \/ pc'[Leader] = "poll"
         \/ pc'[Leader] = "prepare" /\ msg'[Leader] = m /\ dst' = g + 1
      /\ \A q \in Replicas : q # Leader => pc'[q] = pc[q] /\ msg'[q] = msg[q]
  BY <1>1, <1>3, StateFacts, ChannelFacts
     DEF handle_request_send, SendsInLoop, LoopEnds, Returns, TypeOK
<1>7. /\ InHand(c) /\ Voting(c) /\ Command(m) = Current(c)
      /\ \A d \in Clients : d # c => ~InHand(d)
  <2>1. InHand(c) /\ OneMessage(c)
    BY <1>1, <1>3, <1>4, StateFacts DEF InHand
  <2>2. Voting(c) /\ Command(m) = Current(c)
    BY <1>1, <1>3, <2>1 DEF OneMessage, Voting
  <2>. QED  BY <1>1, <2>1, <2>2 DEF InHand
<1>8. FollowersAnswer' /\ CommitNeedsAllVotes'
  <2>1. \A f \in Followers : /\ net'[f][Leader] = net[f][Leader]
                             /\ pc'[f] = pc[f] /\ msg'[f] = msg[f]
    BY <1>3, <1>5, <1>6, ChannelFacts
  <2>2. FollowersAnswer'
    BY <2>1, StateFacts DEF FollowersAnswer
  <2>. QED  BY <1>2, <2>2, StateFacts DEF CommitNeedsAllVotes
<1>9. ASSUME NEW d \in Clients
      PROVE  /\ OneMessage(d)' /\ OnlyIssued(d)' /\ CountsVotes(d)'
             /\ Current(d)' = Current(d)
             /\ Voting(d)' <=> Voting(d)
             /\ \A f \in Followers : Voted(d, f)' <=> Voted(d, f)
  <2>1. net'[d][Leader] = net[d][Leader] /\ net'[Leader][d] = net[Leader][d]
    BY <1>3, <1>5, ChannelFacts
  <2>2. \/ pc'[Leader] = pc[Leader] /\ msg'[Leader] = msg[Leader]
        \/ ~InHand(d)'
    BY <1>1, <1>3, <1>6 DEF InHand
  <2>. QED  BY <1>2, <2>1, <2>2, QuietOther
<1>10. ASSUME NEW d \in Clients, NEW f \in Followers
       PROVE  OneVote(d, f)'
  <2>1. f \in Nat /\ g \in Nat
    BY <1>3, FollowerNumbers
  <2>2. Coming(d, f)' => Coming(d, f) /\ f # g
    <3>1. g + 1 <= f => g <= f /\ f # g
      BY <2>1
    <3>. QED  BY <1>1, <1>3, <1>6, <3>1 DEF Coming
  <2>3. net'[f][Leader] = net[f][Leader] /\ pc'[f] = pc[f] /\ msg'[f] = msg[f]
    BY <1>3, <1>5, <1>6, ChannelFacts
  <2>4. CASE f # g
    <3>1. net'[Leader][f] = net[Leader][f]
      BY <1>5, <2>4, ChannelFacts
    <3>. QED  BY <1>9, <2>2, <2>3, <3>1, VoteStays
  <2>5. CASE f = g
    <3>. PICK s, cmd : s = net[Leader][f] /\ cmd = Current(d)
      OBVIOUS
    <3>1. /\ s \in Seq(Messages) /\ net'[Leader][f] = Append(s, m) /\ OneVote(d, f)
          /\ Current(d)' = cmd
      BY <1>5, <1>9, <2>5, StateFacts, ChannelFacts
    <3>2. HasOnly(net'[f][Leader], "RDY", d, cmd)
      BY <2>3, <3>1 DEF OneVote
    <3>3. /\ Held(d, f)' => Held(d, f) /\ Command(msg'[f]) = Command(msg[f])
          /\ Back(d, f)' <=> Back(d, f)
          /\ Held(d, f)' <=> Held(d, f)
      BY <2>3 DEF Held, Back, Has
    <3>4. CASE d # c
      <4>1. /\ Has(Append(s, m), "PREP", d) => Has(s, "PREP", d)
            /\ HasOnly(s, "PREP", d, cmd) => HasOnly(Append(s, m), "PREP", d, cmd)
        BY <1>1, <1>3, <3>1, <3>4, HasAppend
      <4>2. HasOnly(net'[Leader][f], "PREP", d, cmd) /\ (Asked(d, f)' => Asked(d, f))
        BY <3>1, <4>1 DEF OneVote, Asked
      <4>. QED  BY <1>9, <2>2, <3>1, <3>2, <3>3, <4>2, VoteFrame
    <3>5. CASE d = c
      <4>1. Coming(c, f)
        BY <1>1, <1>3, <2>1, <2>5 DEF Coming
      <4>2. ~Asked(c, f) /\ ~Held(c, f) /\ ~Back(c, f) /\ ~Voted(c, f)
        BY <3>1, <3>5, <4>1 DEF OneVote
      <4>3. HasOnly(Append(s, m), "PREP", c, cmd)
        BY <1>3, <1>7, <3>1, <3>5, <4>2, HasAppend DEF Asked
      <4>4. (HasOnly(net[Leader][f], "PREP", c, Current(c)))'
        BY <3>1, <3>5, <4>3 DEF HasOnly
      <4>5. (HasOnly(net[f][Leader], "RDY", c, Current(c)))'
        BY <3>1, <3>2, <3>5 DEF HasOnly
      <4>6. ~Coming(c, f)' /\ ~Held(c, f)' /\ ~Back(c, f)' /\ ~Voted(c, f)' /\ Voting(c)'
        BY <1>7, <1>9, <2>2, <2>5, <3>3, <3>5, <4>2
      <4>. QED  BY <3>5, <4>4, <4>5, <4>6 DEF OneVote
    <3>. QED  BY <3>4, <3>5
  <2>. QED  BY <2>4, <2>5
<1>. QED  BY <1>8, <1>9, <1>10 DEF VotesInv, ClientInv

------------------------------------------------------------------------------
(* The vote that arrives *)

(* What the leader gets when it takes a RDY: a vote on a request that is   *)
(* voted on, of a follower that has not voted on it before.                *)
LEMMA ReadyFacts ==
  ASSUME IInv, NEW src \in Nodes \ {Leader}, Takes(Leader, src, "RDY"),
         NEW m, m = Head(net[src][Leader]), NEW c, c = m.cid
  PROVE  /\ src \in Followers /\ m \in Messages /\ c \in Clients
         /\ pc[Leader] = "poll" /\ Back(c, src) /\ Voting(c) /\ ~Voted(c, src)
         /\ Command(m) = Current(c) /\ Current(c) \in Commands /\ Current(c)[1] = c
         /\ ~Has(net'[src][Leader], "RDY", c)
         /\ \A k \in 1 .. Len(net'[src][Leader]) : net'[src][Leader][k].tag = "RDY"
         /\ \A x, y \in Nodes : x # src \/ y # Leader => net'[x][y] = net[x][y]
         /\ \A d \in Clients : \A cmd :
              /\ HasOnly(net[src][Leader], "RDY", d, cmd) => HasOnly(net'[src][Leader], "RDY", d, cmd)
              /\ Has(net'[src][Leader], "RDY", d) => Has(net[src][Leader], "RDY", d)
<1>1. Leader \in Replicas /\ net \in Channels(Messages)
  BY StateFacts, ChannelFacts
<1>2. /\ pc[Leader] = "poll" /\ net[src][Leader] # << >> /\ m \in Messages /\ m.tag = "RDY"
      /\ net'[src][Leader] = Tail(net[src][Leader])
      /\ \A x, y \in Nodes : x # src \/ y # Leader => net'[x][y] = net[x][y]
  BY <1>1, TakesFacts
<1>3. PICK s : s = net[src][Leader] /\ s \in Seq(Messages) /\ s # << >> /\ m = Head(s)
  BY <1>1, <1>2, StateFacts, ChannelFacts
<1>4. c \in Clients
  BY <1>2, MessageFacts
<1>5. src \in Followers
  <2>. SUFFICES ASSUME src \in Clients PROVE FALSE
    BY ClientNodes DEF Nodes
  <2>1. OneMessage(src)
    BY StateFacts
  <2>2. s = <<SetupMessage(src)>> \/ s = <<RequestMessage(src)>>
    BY <1>2, <1>3, <2>1 DEF OneMessage
  <2>3. m = SetupMessage(src) \/ m = RequestMessage(src)
    BY <1>3, <2>2, SingleMessage
  <2>. QED  BY <1>2, <2>3 DEF SetupMessage, RequestMessage, Message
<1>6. OneVote(c, src)
  BY <1>4, <1>5, StateFacts
<1>7. /\ Has(s, "RDY", c) /\ ~Has(Tail(s), "RDY", c) /\ Command(m) = Current(c)
  <2>1. HasOnly(s, "RDY", c, Current(c))
    BY <1>3, <1>6 DEF OneVote
  <2>. QED  BY <1>2, <1>3, <2>1, HasTail
<1>8. Back(c, src) /\ Voting(c) /\ ~Voted(c, src)
  BY <1>3, <1>6, <1>7 DEF Back, OneVote
<1>9. Current(c) \in Commands /\ Current(c)[1] = c
  BY <1>4, StateFacts DEF Current, Commands, ClientType
<1>10. \A k \in 1 .. Len(Tail(s)) : Tail(s)[k].tag = "RDY"
  <2>1. /\ Len(Tail(s)) = Len(s) - 1 /\ Len(s) \in Nat
        /\ \A k \in 1 .. Len(Tail(s)) : Tail(s)[k] = s[k + 1]
    BY <1>3, HeadTailProperties, LenProperties
  <2>2. \A k \in 1 .. Len(Tail(s)) : k + 1 \in 1 .. Len(s)
    BY <2>1
  <2>3. \A k \in 1 .. Len(s) : s[k].tag = "RDY"
    BY <1>3, <1>5, StateFacts DEF FollowersAnswer
  <2>. QED  BY <2>1, <2>2, <2>3
<1>11. \A d \in Clients : \A cmd :
         /\ HasOnly(s, "RDY", d, cmd) => HasOnly(Tail(s), "RDY", d, cmd)
         /\ Has(Tail(s), "RDY", d) => Has(s, "RDY", d)
  BY <1>3, HasTail
<1>. QED  BY <1>2, <1>3, <1>4, <1>5, <1>7, <1>8, <1>9, <1>10, <1>11

(* The vote is one more in the count. *)
LEMMA VoteCounts ==
  ASSUME IInv, NEW c \in Clients, NEW f \in Followers, Voting(c), ~Voted(c, f),
         votes' = votes \cup {<<Current(c), f>>}, Current(c)' = Current(c)
  PROVE  /\ Voters(c)' = Voters(c) \cup {f}
         /\ Cardinality(Voters(c)') = ready_counter[c] + 1
         /\ \A g \in Followers : Voted(c, g)' <=> Voted(c, g) \/ g = f
<1>1. \A g \in Followers : Voted(c, g)' <=> Voted(c, g) \/ g = f
  BY DEF Voted
<1>2. Voters(c)' = Voters(c) \cup {f} /\ f \notin Voters(c)
  BY <1>1 DEF Voters
<1>3. IsFiniteSet(Voters(c))
  <2>1. IsFiniteSet(Followers)
    BY FollowersFinite
  <2>. QED  BY <2>1, FS_Subset DEF Voters
<1>4. Cardinality(Voters(c) \cup {f}) = Cardinality(Voters(c)) + 1
  BY <1>2, <1>3, FS_AddElement
<1>. QED  BY <1>1, <1>2, <1>4, StateFacts DEF CountsVotes

(* A vote that is not the last. *)
LEMMA ReadyVotes ==
  ASSUME IInv, NEW src \in Nodes \ {Leader}, handle_ready(src),
         UNCHANGED <<index, log, pc, msg, dst>>
  PROVE  VotesInv'
<1>1. PICK m, c : m = Head(net[src][Leader]) /\ c = m.cid
  OBVIOUS
<1>2. /\ Takes(Leader, src, "RDY") /\ UNCHANGED <<cpc, request_count, applied>>
      /\ ready_counter' = [ready_counter EXCEPT ![c] = @ + 1]
      /\ votes' = votes \cup {<<Command(m), src>>}
  BY <1>1 DEF handle_ready
<1>3. /\ src \in Followers /\ c \in Clients
      /\ pc[Leader] = "poll" /\ Back(c, src) /\ Voting(c) /\ ~Voted(c, src)
      /\ Command(m) = Current(c) /\ Current(c)[1] = c
      /\ ~Has(net'[src][Leader], "RDY", c)
  BY <1>1, <1>2, ReadyFacts
<1>4. \A k \in 1 .. Len(net'[src][Leader]) : net'[src][Leader][k].tag = "RDY"
  BY <1>1, <1>2, ReadyFacts
<1>5. \A x, y \in Nodes : x # src \/ y # Leader => net'[x][y] = net[x][y]
  BY <1>1, <1>2, ReadyFacts
<1>6. \A d \in Clients : \A cmd :
        /\ HasOnly(net[src][Leader], "RDY", d, cmd) => HasOnly(net'[src][Leader], "RDY", d, cmd)
        /\ Has(net'[src][Leader], "RDY", d) => Has(net[src][Leader], "RDY", d)
  BY <1>1, <1>2, ReadyFacts
<1>7. FollowersAnswer'
  <2>. SUFFICES ASSUME NEW f \in Followers
                PROVE  /\ \A k \in 1 .. Len(net'[f][Leader]) : net'[f][Leader][k].tag = "RDY"
                       /\ pc[f] = "ready" => msg[f].tag = "RDY"
    BY DEF FollowersAnswer
  <2>1. CASE f = src
    BY <1>4, <2>1, StateFacts DEF FollowersAnswer
  <2>2. CASE f # src
    <3>1. net'[f][Leader] = net[f][Leader]
      BY <1>5, <2>2, ChannelFacts
    <3>. QED  BY <3>1, StateFacts DEF FollowersAnswer
  <2>. QED  BY <2>1, <2>2
<1>8. CommitNeedsAllVotes'
  BY <1>2, StateFacts DEF CommitNeedsAllVotes
<1>9. ASSUME NEW d \in Clients
      PROVE  /\ net'[d][Leader] = net[d][Leader] /\ net'[Leader][d] = net[Leader][d]
             /\ Current(d)' = Current(d)
             /\ Voting(d)' <=> Voting(d)
             /\ OneMessage(d)'
  <2>1. net'[d][Leader] = net[d][Leader] /\ net'[Leader][d] = net[Leader][d]
    BY <1>3, <1>5, ChannelFacts
  <2>2. Current(d)' = Current(d) /\ SetupMessage(d)' = SetupMessage(d)
        /\ RequestMessage(d)' = RequestMessage(d)
    BY <1>2 DEF Current, SetupMessage, RequestMessage
  <2>3. InLog(Current(d))' <=> InLog(Current(d))
    BY <2>2 DEF InLog
  <2>4. Executed(Current(d))' <=> Executed(Current(d))
    BY <1>2, <2>2 DEF Executed
  <2>5. InHand(d)' <=> InHand(d)
    BY DEF InHand
  <2>6. Voting(d)' <=> Voting(d)
    BY <1>2, <2>1, <2>3 DEF Voting
  <2>7. OneMessage(d)'
    BY <1>2, <2>1, <2>2, <2>3, <2>4, <2>5, StateFacts DEF OneMessage
  <2>. QED  BY <2>1, <2>2, <2>6, <2>7
<1>10. ASSUME NEW d \in Clients
       PROVE  OnlyIssued(d)'
  <2>1. ASSUME NEW cmd, Issued(d, cmd)
        PROVE  Issued(d, cmd)'
    BY <1>2, <1>9, <2>1 DEF Issued
  <2>2. \A i \in 1 .. Len(log) : Issued(d, log[i])
    BY StateFacts DEF OnlyIssued
  <2>3. ASSUME NEW i \in 1 .. Len(log)
        PROVE  Issued(d, log[i])'
    BY <1>2, <1>9, <2>2 DEF Issued
  <2>4. ASSUME NEW v \in votes'
        PROVE  Issued(d, v[1])'
    <3>1. CASE v \in votes
      BY <2>1, <3>1, StateFacts DEF OnlyIssued
    <3>2. CASE v = <<Current(c), src>>
      <4>1. v[1] = Current(c) /\ v[1][1] = c
        BY <1>3, <3>2
      <4>2. d = c => Issued(d, v[1])
        BY <1>3, <4>1 DEF Issued, Voting
      <4>3. d # c => Issued(d, v[1])
        BY <4>1 DEF Issued
      <4>. QED  BY <2>1, <4>2, <4>3
    <3>. QED  BY <1>2, <1>3, <3>1, <3>2
  <2>. QED  BY <2>3, <2>4 DEF OnlyIssued
<1>11. /\ Voters(c)' = Voters(c) \cup {src}
       /\ Cardinality(Voters(c)') = ready_counter[c] + 1
       /\ \A g \in Followers : Voted(c, g)' <=> Voted(c, g) \/ g = src
  BY <1>2, <1>3, <1>9, VoteCounts
<1>12. ASSUME NEW d \in Clients, d # c
       PROVE  /\ \A g \in Followers : Voted(d, g)' <=> Voted(d, g)
              /\ Voters(d)' = Voters(d)
  <2>1. Current(d) # Current(c)
    BY <1>12 DEF Current
  <2>2. \A g \in Followers : Voted(d, g)' <=> Voted(d, g)
    BY <1>2, <1>3, <1>9, <2>1 DEF Voted
  <2>. QED  BY <2>2 DEF Voters
<1>13. ASSUME NEW d \in Clients
       PROVE  CountsVotes(d)'
  <2>1. ready_counter'[d] = IF d = c THEN ready_counter[d] + 1 ELSE ready_counter[d]
    BY <1>2, StateFacts DEF TypeOK
  <2>2. CASE d = c
    BY <1>11, <2>1, <2>2 DEF CountsVotes
  <2>3. CASE d # c
    BY <1>9, <1>12, <2>1, <2>3, StateFacts DEF CountsVotes
  <2>. QED  BY <2>2, <2>3
<1>14. ASSUME NEW d \in Clients, NEW f \in Followers
       PROVE  OneVote(d, f)'
  <2>. PICK cmd : cmd = Current(d)
    OBVIOUS
  <2>1. net'[Leader][f] = net[Leader][f] /\ OneVote(d, f) /\ Current(d)' = cmd
    BY <1>5, <1>9, StateFacts, ChannelFacts
  <2>2. ~Coming(d, f)' /\ (Held(d, f)' <=> Held(d, f)) /\ (Asked(d, f)' <=> Asked(d, f))
    BY <1>3, <2>1 DEF Coming, Held, Asked, Has
  <2>3. HasOnly(net'[Leader][f], "PREP", d, cmd)
    BY <2>1 DEF OneVote
  <2>4. HasOnly(net'[f][Leader], "RDY", d, cmd) /\ (Back(d, f)' => Back(d, f))
    <3>1. CASE f = src
      BY <1>6, <2>1, <3>1 DEF OneVote, Back
    <3>2. CASE f # src
      <4>1. net'[f][Leader] = net[f][Leader]
        BY <1>5, <3>2, ChannelFacts
      <4>. QED  BY <2>1, <4>1 DEF OneVote, Back
    <3>. QED  BY <3>1, <3>2
  <2>5. CASE d = c /\ f = src
    <3>1. ~Asked(d, f) /\ ~Held(d, f)
      BY <1>3, <2>1, <2>5 DEF OneVote
    <3>2. ~Back(d, f)'
      BY <1>3, <2>5 DEF Back
    <3>. QED  BY <2>2, <3>1, <3>2, NoVote
  <2>6. CASE d # c \/ f # src
    <3>1. Voted(d, f)' => Voted(d, f)
      BY <1>11, <1>12, <2>6
    <3>. QED  BY <1>9, <2>1, <2>2, <2>3, <2>4, <3>1, VoteFrame
  <2>. QED  BY <2>5, <2>6
<1>. QED  BY <1>7, <1>8, <1>9, <1>10, <1>13, <1>14 DEF VotesInv, ClientInv

(* The last vote: the request is ordered, and nobody votes on it any more. *)
LEMMA LastReadyVotes ==
  ASSUME IInv, NEW src \in Nodes \ {Leader}, handle_ready(src),
         NEW m, m = Head(net[src][Leader]), AllReady(ready_counter[m.cid] + 1)
  PROVE  /\ VotesInv'
         /\ m.cid \in Clients /\ cpc[m.cid] = "waiting" /\ ~InLog(Current(m.cid))
         /\ Command(m) = Current(m.cid)
<1>1. PICK c, n : c = m.cid /\ n = CommitMessage(m)
  OBVIOUS
<1>2. /\ Takes(Leader, src, "RDY") /\ UNCHANGED <<cpc, request_count, applied>>
      /\ ready_counter' = [ready_counter EXCEPT ![c] = @ + 1]
      /\ votes' = votes \cup {<<Command(m), src>>}
      /\ log' = Append(log, Command(m)) /\ Enters(Leader, "commit", n)
  <2>1. /\ Takes(Leader, src, "RDY") /\ UNCHANGED <<cpc, request_count, applied>>
        /\ ready_counter' = [ready_counter EXCEPT ![m.cid] = @ + 1]
        /\ votes' = votes \cup {<<Command(m), src>>}
        /\ AllReady(ready_counter[m.cid] + 1) =>
             log' = Append(log, Command(m)) /\ Enters(Leader, "commit", CommitMessage(m))
    BY Zenon DEF handle_ready
  <2>. QED  BY ONLY <1>1, <2>1, AllReady(ready_counter[m.cid] + 1)
<1>3. /\ src \in Followers /\ c \in Clients /\ m \in Messages
      /\ pc[Leader] = "poll" /\ Voting(c) /\ ~Voted(c, src)
      /\ Command(m) = Current(c) /\ Current(c) \in Commands /\ Current(c)[1] = c
      /\ ~Has(net'[src][Leader], "RDY", c)
  <2>1. IInv /\ src \in Nodes \ {Leader} /\ Takes(Leader, src, "RDY") /\ m = Head(net[src][Leader])
    BY <1>2
  <2>. QED  BY ONLY <1>1, <2>1, ReadyFacts
<1>4. \A k \in 1 .. Len(net'[src][Leader]) : net'[src][Leader][k].tag = "RDY"
  BY <1>2, ReadyFacts
<1>5. \A x, y \in Nodes : x # src \/ y # Leader => net'[x][y] = net[x][y]
  BY <1>2, ReadyFacts
<1>6. \A d \in Clients : \A cmd :
        /\ HasOnly(net[src][Leader], "RDY", d, cmd) => HasOnly(net'[src][Leader], "RDY", d, cmd)
        /\ Has(net'[src][Leader], "RDY", d) => Has(net[src][Leader], "RDY", d)
  BY <1>2, ReadyFacts
<1>7. n.cid = c /\ Command(n) = Current(c)
  BY <1>1, <1>3 DEF CommitMessage, Message, Command
<1>8. /\ pc'[Leader] = "commit" /\ msg'[Leader] = n
      /\ \A q \in Replicas : q # Leader => pc'[q] = pc[q] /\ msg'[q] = msg[q]
  BY <1>2, StateFacts, ChannelFacts DEF Enters, TypeOK
<1>9. /\ Len(log) \in Nat /\ Len(log') = Len(log) + 1
      /\ log'[Len(log) + 1] = Current(c)
      /\ \A i \in 1 .. Len(log) : log'[i] = log[i]
      /\ \A i \in 1 .. Len(log') : i \in 1 .. Len(log) \/ i = Len(log) + 1
  BY <1>2, <1>3, StateFacts, LogAppend
<1>10. \A cmd : InLog(cmd)' <=> InLog(cmd) \/ cmd = Current(c)
  <2>1. \A i \in 1 .. Len(log) : i \in 1 .. Len(log') /\ log'[i] = log[i]
    BY <1>9
  <2>2. Len(log) + 1 \in 1 .. Len(log') /\ log'[Len(log) + 1] = Current(c)
    BY <1>9
  <2>3. \A i \in 1 .. Len(log') : \/ i \in 1 .. Len(log) /\ log'[i] = log[i]
                                  \/ log'[i] = Current(c)
    BY <1>9
  <2>. QED  BY <2>1, <2>2, <2>3, Zenon DEF InLog
<1>11. Current(c)' = Current(c)
  BY <1>2 DEF Current
<1>12. /\ Voters(c)' = Voters(c) \cup {src}
       /\ Cardinality(Voters(c)') = ready_counter[c] + 1
       /\ \A g \in Followers : Voted(c, g)' <=> Voted(c, g) \/ g = src
  BY <1>2, <1>3, <1>11, VoteCounts
<1>13. \A g \in Followers : <<Current(c), g>> \in votes' /\ (g = src \/ Voted(c, g))
  <2>. PICK V : V = Voters(c)'
    OBVIOUS
  <2>1. V \subseteq Followers
    BY DEF Voters
  <2>2. IsFiniteSet(V) /\ Cardinality(V) <= Cardinality(Followers)
    BY <2>1, FollowersFinite, FS_Subset
  <2>3. Cardinality(V) >= N - 1
    BY <1>1, <1>12 DEF AllReady
  <2>4. Cardinality(V) = Cardinality(Followers)
    <3>1. Cardinality(V) \in Nat /\ N \in Nat /\ N - 1 \in Nat
      BY <2>2, FS_CardinalityType, FollowerNumbers
    <3>. QED  BY <2>2, <2>3, <3>1, FollowersFinite
  <2>5. V = Followers
    BY <2>1, <2>4, FollowersFinite, FS_Subset
  <2>6. \A g \in Followers : Voted(c, g)'
    BY <2>5 DEF Voters
  <2>. QED  BY <1>11, <1>12, <2>6 DEF Voted
<1>14. CommitNeedsAllVotes'
  <2>. SUFFICES ASSUME NEW i \in 1 .. Len(log'), NEW g \in Followers
                PROVE  <<log'[i], g>> \in votes'
    BY DEF CommitNeedsAllVotes
  <2>1. CASE i \in 1 .. Len(log)
    BY <1>2, <1>9, <2>1, StateFacts DEF CommitNeedsAllVotes
  <2>2. CASE i = Len(log) + 1
    BY <1>9, <1>13, <2>2
  <2>. QED  BY <1>9, <2>1, <2>2
<1>15. FollowersAnswer'
  <2>. SUFFICES ASSUME NEW f \in Followers
                PROVE  /\ \A k \in 1 .. Len(net'[f][Leader]) : net'[f][Leader][k].tag = "RDY"
                       /\ pc'[f] = "ready" => msg'[f].tag = "RDY"
    BY DEF FollowersAnswer
  <2>1. pc'[f] = pc[f] /\ msg'[f] = msg[f]
    BY <1>8, ChannelFacts
  <2>2. CASE f = src
    BY <1>4, <2>1, <2>2, StateFacts DEF FollowersAnswer
  <2>3. CASE f # src
    <3>1. net'[f][Leader] = net[f][Leader]
      BY <1>5, <2>3, ChannelFacts
    <3>. QED  BY <2>1, <3>1, StateFacts DEF FollowersAnswer
  <2>. QED  BY <2>2, <2>3
<1>16. ASSUME NEW d \in Clients
       PROVE  net'[d][Leader] = net[d][Leader] /\ net'[Leader][d] = net[Leader][d]
  BY <1>3, <1>5, ChannelFacts
<1>17. ASSUME NEW d \in Clients, d # c
       PROVE  ClientInv(d)'
  <2>1. \A cmd : Executed(cmd)' <=> Executed(cmd)
    BY <1>2 DEF Executed
  <2>2. ~InHand(d)'
    BY <1>7, <1>8, <1>17 DEF InHand
  <2>3. ready_counter'[d] = ready_counter[d]
    BY <1>2, <1>3, <1>17, StateFacts DEF TypeOK
  <2>4. \A v : v[1][1] = d => (v \in votes' <=> v \in votes)
    <3>1. <<Command(m), src>>[1][1] = c
      BY <1>3
    <3>. QED  BY <1>2, <1>17, <3>1
  <2>5. \A cmd : cmd[1] = d => (InLog(cmd)' <=> InLog(cmd))
    BY <1>3, <1>10, <1>17
  <2>6. /\ OneMessage(d)' /\ OnlyIssued(d)' /\ CountsVotes(d)'
        /\ Current(d)' = Current(d)
        /\ Voting(d)' <=> Voting(d)
        /\ \A f \in Followers : Voted(d, f)' <=> Voted(d, f)
    BY <1>2, <1>16, <2>1, <2>2, <2>3, <2>4, <2>5, OtherClient
  <2>7. ASSUME NEW f \in Followers
        PROVE  OneVote(d, f)'
    <3>. PICK cmd : cmd = Current(d)
      OBVIOUS
    <3>1. /\ net'[Leader][f] = net[Leader][f] /\ OneVote(d, f) /\ Current(d)' = cmd
          /\ pc'[f] = pc[f] /\ msg'[f] = msg[f]
      BY <1>5, <1>8, <2>6, StateFacts, ChannelFacts
    <3>2. /\ ~Coming(d, f)' /\ (Asked(d, f)' <=> Asked(d, f))
          /\ Held(d, f)' => Held(d, f) /\ Command(msg'[f]) = Command(msg[f])
      BY <1>8, <3>1 DEF Coming, Held, Asked, Has
    <3>3. HasOnly(net'[Leader][f], "PREP", d, cmd)
      BY <3>1 DEF OneVote
    <3>4. HasOnly(net'[f][Leader], "RDY", d, cmd) /\ (Back(d, f)' => Back(d, f))
      <4>1. CASE f = src
        BY <1>6, <3>1, <4>1 DEF OneVote, Back
      <4>2. CASE f # src
        <5>1. net'[f][Leader] = net[f][Leader]
          BY <1>5, <4>2, ChannelFacts
        <5>. QED  BY <3>1, <5>1 DEF OneVote, Back
      <4>. QED  BY <4>1, <4>2
    <3>. QED  BY <2>6, <3>1, <3>2, <3>3, <3>4, VoteFrame
  <2>. QED  BY <2>6, <2>7 DEF ClientInv
<1>18. /\ OneMessage(c) /\ cpc[c] = "waiting" /\ net[c][Leader] = << >> /\ ~InLog(Current(c))
       /\ net[Leader][c] = << >>
  <2>1. OneMessage(c) /\ cpc[c] = "waiting" /\ net[c][Leader] = << >> /\ ~InLog(Current(c))
    BY <1>3, StateFacts DEF Voting
  <2>2. ~Executed(Current(c))
    BY <2>1, ExecutedInLog
  <2>. QED  BY <2>1, <2>2 DEF OneMessage
<1>19. ClientInv(c)'
  <2>1. InLog(Current(c))'
    <3>1. log'[Len(log) + 1] = Current(c)' /\ Len(log) + 1 \in 1 .. Len(log')
      BY <1>9, <1>11
    <3>. QED  BY <3>1 DEF InLog
  <2>2. OneMessage(c)'
    BY <1>2, <1>3, <1>7, <1>8, <1>11, <1>16, <1>18, <2>1 DEF OneMessage
  <2>3. CountsVotes(c)'
    BY <2>1 DEF CountsVotes, Voting
  <2>4. OnlyIssued(c)'
    <3>1. ASSUME NEW cmd, Issued(c, cmd)
          PROVE  Issued(c, cmd)'
      BY <1>2, <1>3, <1>11, <1>16, <3>1 DEF Issued
    <3>2. Issued(c, Current(c)) /\ OnlyIssued(c)
      BY <1>3, <1>18, StateFacts DEF Issued
    <3>3. ASSUME NEW i \in 1 .. Len(log')
          PROVE  Issued(c, log[i])'
      <4>. PICK cmd : cmd = log'[i]
        OBVIOUS
      <4>1. Issued(c, cmd)
        BY <1>9, <3>2 DEF OnlyIssued
      <4>2. Issued(c, cmd)'
        BY <3>1, <4>1
      <4>. QED  BY <4>2 DEF Issued
    <3>4. ASSUME NEW v \in votes'
          PROVE  Issued(c, v[1])'
      <4>1. v \in votes \/ v = <<Current(c), src>>
        BY <1>2, <1>3
      <4>2. Issued(c, v[1])
        BY <3>2, <4>1 DEF OnlyIssued
      <4>. QED  BY <3>1, <4>2
    <3>. QED  BY <3>3, <3>4 DEF OnlyIssued
  <2>5. ASSUME NEW f \in Followers
        PROVE  OneVote(c, f)'
    <3>1. OneVote(c, f) /\ net'[Leader][f] = net[Leader][f] /\ pc'[f] = pc[f] /\ msg'[f] = msg[f]
      BY <1>3, <1>5, <1>8, StateFacts, ChannelFacts
    <3>2. ~Asked(c, f) /\ ~Held(c, f) /\ ~Back(c, f)'
      <4>1. CASE f = src
        <5>1. Back(c, f)
          BY <1>1, <1>2, <4>1, ReadyFacts
        <5>. QED  BY <1>3, <3>1, <4>1, <5>1 DEF OneVote, Back
      <4>2. CASE f # src
        <5>1. Voted(c, f) /\ net'[f][Leader] = net[f][Leader]
          BY <1>5, <1>13, <4>2, ChannelFacts
        <5>. QED  BY <3>1, <5>1 DEF OneVote, Back
      <4>. QED  BY <4>1, <4>2
    <3>3. ~Asked(c, f)' /\ ~Held(c, f)' /\ ~Coming(c, f)'
      BY <1>8, <3>1, <3>2 DEF Asked, Held, Coming
    <3>. QED  BY <1>3, <3>2, <3>3, NoVote
  <2>. QED  BY <2>2, <2>3, <2>4, <2>5 DEF ClientInv
<1>20. VotesInv'
  BY <1>14, <1>15, <1>17, <1>19 DEF VotesInv
<1>. QED  BY <1>1, <1>3, <1>18, <1>20

------------------------------------------------------------------------------
(* The command that is ordered *)

(* The leader tells the next follower to execute the command. *)
LEMMA ReadySendVotes ==
  ASSUME IInv, handle_ready_send
  PROVE  VotesInv'
<1>1. PICK m, c, g : m = msg[Leader] /\ c = m.cid /\ g = dst
  OBVIOUS
<1>2. /\ Sends(Leader, "commit", g)
      /\ UNCHANGED <<cpc, request_count, msg, ready_counter, index, log, applied, votes>>
  BY <1>1 DEF handle_ready_send, SendsInLoop
<1>3. pc[Leader] = "commit" /\ m \in Messages /\ m.tag = "COM" /\ g \in Followers
  BY <1>1, <1>2, StateFacts, ChannelFacts DEF Sends, TypeOK, CommitInHand
<1>4. c \in Clients /\ g \in Nodes
  BY <1>1, <1>3, ChannelFacts, MessageFacts
<1>5. /\ net'[Leader][g] = Append(net[Leader][g], m)
      /\ \A x, y \in Nodes : x # Leader \/ y # g => net'[x][y] = net[x][y]
  BY <1>1, <1>2, <1>3, <1>4, LeaderSends
<1>6. /\ pc'[Leader] = "commit" \/ pc'[Leader] = "execute"
      /\ \A q \in Replicas : q # Leader => pc'[q] = pc[q]
  BY <1>3, StateFacts, ChannelFacts DEF handle_ready_send, TypeOK
<1>7. ASSUME NEW f \in Followers
      PROVE  net'[f][Leader] = net[f][Leader] /\ pc'[f] = pc[f] /\ msg'[f] = msg[f]
  BY <1>2, <1>3, <1>5, <1>6, ChannelFacts
<1>8. FollowersAnswer' /\ CommitNeedsAllVotes'
  <2>1. FollowersAnswer'
    BY <1>7, StateFacts DEF FollowersAnswer
  <2>. QED  BY <1>2, <2>1, StateFacts DEF CommitNeedsAllVotes
<1>9. ASSUME NEW d \in Clients
      PROVE  /\ OneMessage(d)' /\ OnlyIssued(d)' /\ CountsVotes(d)'
             /\ Current(d)' = Current(d)
             /\ Voting(d)' <=> Voting(d)
             /\ \A f \in Followers : Voted(d, f)' <=> Voted(d, f)
  <2>1. net'[d][Leader] = net[d][Leader] /\ net'[Leader][d] = net[Leader][d]
    BY <1>3, <1>5, ChannelFacts
  <2>2. OneMessage(d)'
    <3>1. /\ SetupMessage(d)' = SetupMessage(d) /\ RequestMessage(d)' = RequestMessage(d)
          /\ Current(d)' = Current(d)
      BY <1>2 DEF SetupMessage, RequestMessage, Current
    <3>2. InHand(d)' <=> InHand(d)
      BY <1>2, <1>3, <1>6 DEF InHand
    <3>3. /\ InLog(Current(d))' <=> InLog(Current(d))
          /\ Executed(Current(d))' <=> Executed(Current(d))
      BY <1>2, <3>1 DEF InLog, Executed
    <3>. QED  BY <1>2, <1>3, <1>6, <2>1, <3>1, <3>2, <3>3, StateFacts DEF OneMessage
  <2>. QED  BY <1>2, <2>1, <2>2, QuietOther
<1>10. ASSUME NEW d \in Clients, NEW f \in Followers
       PROVE  OneVote(d, f)'
  <2>1. ~Coming(d, f)'
    BY <1>6 DEF Coming
  <2>2. CASE f # g
    <3>1. net'[Leader][f] = net[Leader][f]
      BY <1>5, <2>2, ChannelFacts
    <3>. QED  BY <1>7, <1>9, <2>1, <3>1, VoteStays
  <2>3. CASE f = g
    <3>. PICK s, cmd : s = net[Leader][f] /\ cmd = Current(d)
      OBVIOUS
    <3>1. /\ s \in Seq(Messages) /\ net'[Leader][f] = Append(s, m) /\ OneVote(d, f)
          /\ Current(d)' = cmd
      BY <1>5, <1>9, <2>3, StateFacts, ChannelFacts
    <3>2. HasOnly(net'[f][Leader], "RDY", d, cmd)
      BY <1>7, <3>1 DEF OneVote
    <3>3. /\ Held(d, f)' => Held(d, f) /\ Command(msg'[f]) = Command(msg[f])
          /\ Back(d, f)' <=> Back(d, f)
      BY <1>7 DEF Held, Back, Has
    <3>4. /\ Has(Append(s, m), "PREP", d) => Has(s, "PREP", d)
          /\ HasOnly(s, "PREP", d, cmd) => HasOnly(Append(s, m), "PREP", d, cmd)
      BY <1>3, <3>1, HasAppend
    <3>5. HasOnly(net'[Leader][f], "PREP", d, cmd) /\ (Asked(d, f)' => Asked(d, f))
      BY <3>1, <3>4 DEF OneVote, Asked
    <3>. QED  BY <1>9, <2>1, <3>1, <3>2, <3>3, <3>5, VoteFrame
  <2>. QED  BY <2>2, <2>3
<1>. QED  BY <1>8, <1>9, <1>10 DEF VotesInv, ClientInv

(* The leader executes the command it has ordered. *)
LEMMA ReadyExecuteVotes ==
  ASSUME IInv, handle_ready_execute
  PROVE  VotesInv'
<1>1. PICK m, c, cmd : m = msg[Leader] /\ c = m.cid /\ cmd = Command(m)
  OBVIOUS
<1>2. /\ pc[Leader] = "execute"
      /\ applied' = [applied EXCEPT ![Leader] = Append(@, cmd)]
      /\ Enters(Leader, "respond", [m EXCEPT !.tag = "RESP"])
      /\ UNCHANGED <<net, cpc, request_count, dst, ready_counter, index, log, votes>>
  BY <1>1 DEF handle_ready_execute, update_value, clientVars
<1>3. m \in Messages /\ c \in Clients /\ cmd \in Commands
  <2>1. m \in Messages
    BY <1>1, <1>2, StateFacts, ChannelFacts DEF TypeOK
  <2>. QED  BY <1>1, <2>1, MessageFacts
<1>4. /\ pc'[Leader] = "respond" /\ msg'[Leader] = [m EXCEPT !.tag = "RESP"]
      /\ \A q \in Replicas : q # Leader => pc'[q] = pc[q] /\ msg'[q] = msg[q]
  BY <1>2, StateFacts, ChannelFacts DEF Enters, TypeOK
<1>5. /\ msg'[Leader].tag = "RESP" /\ msg'[Leader].cid = c
      /\ Command(msg'[Leader]) = cmd
  BY <1>1, <1>3, <1>4 DEF Messages, Tags, Command
<1>6. Executed(cmd)' /\ \A e : Executed(e) => Executed(e)'
  <2>1. /\ Len(applied[Leader]) \in Nat /\ Len(applied'[Leader]) = Len(applied[Leader]) + 1
        /\ applied'[Leader][Len(applied[Leader]) + 1] = cmd
        /\ \A i \in 1 .. Len(applied[Leader]) : applied'[Leader][i] = applied[Leader][i]
    BY <1>2, <1>3, StateFacts, ChannelFacts, AppliedAppend
  <2>2. /\ Len(applied[Leader]) + 1 \in 1 .. Len(applied'[Leader])
        /\ \A i \in 1 .. Len(applied[Leader]) : i \in 1 .. Len(applied'[Leader])
    BY <2>1
  <2>. QED  BY <2>1, <2>2, Zenon DEF Executed
<1>7. ASSUME NEW f \in Followers
      PROVE  pc'[f] = pc[f] /\ msg'[f] = msg[f]
  BY <1>4, ChannelFacts
<1>8. FollowersAnswer' /\ CommitNeedsAllVotes'
  <2>1. FollowersAnswer'
    BY <1>2, <1>7, StateFacts DEF FollowersAnswer
  <2>. QED  BY <1>2, <2>1, StateFacts DEF CommitNeedsAllVotes
<1>9. ASSUME NEW d \in Clients
      PROVE  /\ OneMessage(d)' /\ OnlyIssued(d)' /\ CountsVotes(d)'
             /\ Current(d)' = Current(d)
             /\ Voting(d)' <=> Voting(d)
             /\ \A f \in Followers : Voted(d, f)' <=> Voted(d, f)
  <2>1. InHand(d)' <=> d = c
    BY <1>4, <1>5 DEF InHand
  <2>2. CASE d # c
    <3>1. \A e : InLog(e)' <=> InLog(e)
      BY <1>2 DEF InLog
    <3>. QED  BY <1>2, <1>6, <2>1, <2>2, <3>1, OtherClient
  <2>3. CASE d = c
    <3>1. InHand(d) /\ OneMessage(d)
      BY <1>1, <1>2, <2>3, StateFacts DEF InHand
    <3>2. /\ cpc[d] = "waiting" /\ cmd = Current(d) /\ InLog(Current(d))
          /\ net[d][Leader] = << >> /\ net[Leader][d] = << >>
      BY <1>1, <1>2, <3>1 DEF OneMessage
    <3>3. Current(d)' = Current(d)
      BY <1>2 DEF Current
    <3>4. InLog(Current(d))' /\ Executed(Current(d))'
      <4>1. InLog(Current(d))'
        BY <1>2, <3>2, <3>3 DEF InLog
      <4>2. \E i \in 1 .. Len(applied'[Leader]) : applied'[Leader][i] = Current(d)'
        BY <1>6, <3>2, <3>3 DEF Executed
      <4>. QED  BY <4>1, <4>2 DEF Executed
    <3>5. OneMessage(d)'
      BY <1>2, <1>4, <1>5, <3>2, <3>3, <3>4 DEF OneMessage
    <3>6. \A e : InLog(e)' <=> InLog(e)
      BY <1>2 DEF InLog
    <3>. QED  BY <1>2, <1>6, <3>5, <3>6, OtherClient
  <2>. QED  BY <2>2, <2>3
<1>10. ASSUME NEW d \in Clients, NEW f \in Followers
       PROVE  OneVote(d, f)'
  <2>1. ~Coming(d, f)'
    BY <1>4 DEF Coming
  <2>. QED  BY <1>2, <1>7, <1>9, <2>1, VoteStays
<1>. QED  BY <1>8, <1>9, <1>10 DEF VotesInv, ClientInv

(* The leader answers the client. *)
LEMMA ReadyRespondVotes ==
  ASSUME IInv, handle_ready_respond
  PROVE  VotesInv'
<1>1. PICK m, c : m = msg[Leader] /\ c = m.cid
  OBVIOUS
<1>2. /\ Sends(Leader, "respond", c) /\ Returns(Leader)
      /\ UNCHANGED <<cpc, request_count, dst, ready_counter, index, log, applied, votes>>
  BY <1>1 DEF handle_ready_respond
<1>3. pc[Leader] = "respond" /\ m \in Messages
  BY <1>1, <1>2, StateFacts, ChannelFacts DEF Sends, TypeOK
<1>4. c \in Clients /\ c \in Nodes
  BY <1>1, <1>3, ChannelFacts, MessageFacts
<1>5. /\ net'[Leader][c] = Append(net[Leader][c], m)
      /\ \A x, y \in Nodes : x # Leader \/ y # c => net'[x][y] = net[x][y]
  BY <1>1, <1>2, <1>3, <1>4, LeaderSends
<1>6. /\ pc'[Leader] = "poll"
      /\ \A q \in Replicas : q # Leader => pc'[q] = pc[q] /\ msg'[q] = msg[q]
  BY <1>2, StateFacts, ChannelFacts DEF Returns, TypeOK
<1>7. FollowersIdle
  BY <1>2, <1>4, <1>5, <1>6, ChannelFacts DEF FollowersIdle
<1>8. ASSUME NEW d \in Clients, d # c
      PROVE  ClientInv(d)'
  <2>1. net'[d][Leader] = net[d][Leader] /\ net'[Leader][d] = net[Leader][d]
    BY <1>4, <1>5, <1>8, ChannelFacts
  <2>2. ~InHand(d)'
    BY <1>6 DEF InHand
  <2>. QED  BY <1>2, <1>7, <2>1, <2>2, IdleOther
<1>9. ClientInv(c)'
  <2>1. InHand(c) /\ OneMessage(c)
    BY <1>1, <1>3, <1>4, StateFacts DEF InHand
  <2>2. /\ cpc[c] = "waiting" /\ net[Leader][c] = << >> /\ net[c][Leader] = << >>
        /\ m.tag = "RESP" /\ Command(m) = Current(c)
        /\ InLog(Current(c)) /\ Executed(Current(c))
    BY <1>1, <1>3, <2>1 DEF OneMessage
  <2>3. net'[c][Leader] = << >> /\ net'[Leader][c] = <<m>> /\ Current(c)' = Current(c)
    BY <1>2, <1>4, <1>5, <2>2, ChannelFacts, SingleMessage DEF Current
  <2>4. Len(net'[Leader][c]) = 1 /\ net'[Leader][c][1] = m
    BY <2>3, SingleMessage
  <2>5. InLog(Current(c))' /\ Executed(Current(c))'
    BY <1>2, <2>2, <2>3 DEF InLog, Executed
  <2>6. OneMessage(c)'
    BY <1>2, <1>6, <2>2, <2>3, <2>4, <2>5 DEF OneMessage, InHand
  <2>7. OnlyIssued(c)'
    <3>1. \A cmd \in Commands : Issued(c, cmd) => Issued(c, cmd)'
      BY <1>2, <2>2, <2>3 DEF Issued
    <3>. QED  BY <1>2, <1>4, <3>1, IssuedFrame
  <2>8. CountsVotes(c)' /\ ~Voting(c) /\ \A f \in Followers : ~Coming(c, f)'
    BY <1>6, <2>2, <2>5 DEF CountsVotes, Voting, Coming
  <2>. QED  BY <1>4, <1>7, <2>6, <2>7, <2>8, IdleNoVote DEF ClientInv
<1>. QED  BY <1>7, <1>8, <1>9, FollowersIdleFacts DEF VotesInv

------------------------------------------------------------------------------
(* The followers *)

(* A step of follower f: what it leaves alone. *)
FollowerMoves(f) ==
  /\ UNCHANGED <<cpc, request_count, dst, ready_counter, index, log, votes>>
  /\ \A q \in Replicas : q # f => /\ pc'[q] = pc[q] /\ msg'[q] = msg[q]
                                  /\ applied'[q] = applied[q]
  /\ \A x, y \in Nodes :
       (x # Leader \/ y # f) /\ (x # f \/ y # Leader) => net'[x][y] = net[x][y]

(* It disturbs no vote of another follower, and nothing of the clients. *)
LEMMA FollowerMovesFacts ==
  ASSUME IInv, NEW f \in Followers, FollowerMoves(f)
  PROVE  /\ CommitNeedsAllVotes'
         /\ \A d \in Clients :
              /\ OneMessage(d)' /\ OnlyIssued(d)' /\ CountsVotes(d)'
              /\ Current(d)' = Current(d)
              /\ Voting(d)' <=> Voting(d)
              /\ \A g \in Followers : Voted(d, g)' <=> Voted(d, g)
              /\ \A g \in Followers : Coming(d, g)' <=> Coming(d, g)
         /\ \A d \in Clients, g \in Followers : g # f => OneVote(d, g)'
         /\ \A g \in Followers : g # f => /\ net'[g][Leader] = net[g][Leader]
                                          /\ pc'[g] = pc[g] /\ msg'[g] = msg[g]
<1>1. /\ UNCHANGED <<cpc, request_count, dst, ready_counter, index, log, votes>>
      /\ pc'[Leader] = pc[Leader] /\ msg'[Leader] = msg[Leader]
      /\ applied'[Leader] = applied[Leader]
  BY ChannelFacts DEF FollowerMoves
<1>2. CommitNeedsAllVotes'
  BY <1>1, StateFacts DEF CommitNeedsAllVotes
<1>3. ASSUME NEW d \in Clients
      PROVE  /\ OneMessage(d)' /\ OnlyIssued(d)' /\ CountsVotes(d)'
             /\ Current(d)' = Current(d)
             /\ Voting(d)' <=> Voting(d)
             /\ \A g \in Followers : Voted(d, g)' <=> Voted(d, g)
  <2>1. net'[d][Leader] = net[d][Leader] /\ net'[Leader][d] = net[Leader][d]
    BY ChannelFacts DEF FollowerMoves
  <2>. QED  BY <1>1, <2>1, QuietOther
<1>4. ASSUME NEW d \in Clients, NEW g \in Followers
      PROVE  Coming(d, g)' <=> Coming(d, g)
  BY <1>1 DEF Coming
<1>5. ASSUME NEW g \in Followers, g # f
      PROVE  /\ net'[g][Leader] = net[g][Leader] /\ net'[Leader][g] = net[Leader][g]
             /\ pc'[g] = pc[g] /\ msg'[g] = msg[g]
  BY <1>5, ChannelFacts DEF FollowerMoves
<1>6. ASSUME NEW d \in Clients, NEW g \in Followers, g # f
      PROVE  OneVote(d, g)'
  BY <1>3, <1>4, <1>5, <1>6, VoteStays
<1>. QED  BY <1>2, <1>3, <1>4, <1>5, <1>6

(* A follower takes a message of the leader. *)
LEMMA FollowerTakes ==
  ASSUME IInv, NEW f \in Followers, NEW t, Takes(f, Leader, t)
  PROVE  LET s == net[Leader][f]
         IN  /\ s \in Seq(Messages) /\ s # << >> /\ Head(s) \in Messages /\ Head(s).tag = t
             /\ Head(s).cid \in Clients /\ pc[f] = "poll" /\ net'[Leader][f] = Tail(s)
             /\ \A x, y \in Nodes : x # Leader \/ y # f => net'[x][y] = net[x][y]
<1>1. Leader \in Nodes /\ f \in Replicas /\ net \in Channels(Messages) /\ f \in Nodes
  BY StateFacts, ChannelFacts
<1>2. /\ pc[f] = "poll" /\ net[Leader][f] # << >>
      /\ Head(net[Leader][f]) \in Messages /\ Head(net[Leader][f]).tag = t
      /\ net'[Leader][f] = Tail(net[Leader][f])
      /\ \A x, y \in Nodes : x # Leader \/ y # f => net'[x][y] = net[x][y]
  BY <1>1, TakesFacts
<1>. QED  BY <1>1, <1>2, MessageFacts, StateFacts

(* A follower takes up a PREP. *)
LEMMA PrepareVotes ==
  ASSUME IInv, NEW f \in Followers, handle_prepare(f)
  PROVE  VotesInv'
<1>1. PICK s, m : s = net[Leader][f] /\ m = Head(s)
  OBVIOUS
<1>2. /\ Takes(f, Leader, "PREP") /\ Enters(f, "ready", [m EXCEPT !.tag = "RDY"])
      /\ UNCHANGED <<cpc, request_count, dst, ready_counter, index, log, applied, votes>>
  BY <1>1 DEF handle_prepare
<1>3. /\ s \in Seq(Messages) /\ s # << >> /\ m \in Messages /\ m.tag = "PREP"
      /\ m.cid \in Clients /\ pc[f] = "poll" /\ net'[Leader][f] = Tail(s)
      /\ \A x, y \in Nodes : x # Leader \/ y # f => net'[x][y] = net[x][y]
  BY <1>1, <1>2, FollowerTakes
<1>4. /\ pc'[f] = "ready" /\ msg'[f] = [m EXCEPT !.tag = "RDY"]
      /\ \A q \in Replicas : q # f => pc'[q] = pc[q] /\ msg'[q] = msg[q]
  BY <1>2, StateFacts, ChannelFacts DEF Enters, TypeOK
<1>5. msg'[f].tag = "RDY" /\ msg'[f].cid = m.cid /\ Command(msg'[f]) = Command(m)
  BY <1>3, <1>4 DEF Messages, Tags, Command
<1>6. FollowerMoves(f) /\ net'[f][Leader] = net[f][Leader]
  BY <1>2, <1>3, <1>4, ChannelFacts DEF FollowerMoves
<1>7. FollowersAnswer'
  <2>1. \A g \in Followers : net'[g][Leader] = net[g][Leader]
    BY <1>6, FollowerMovesFacts
  <2>2. \A g \in Followers : pc'[g] = "ready" => msg'[g].tag = "RDY"
    BY <1>5, <1>6, FollowerMovesFacts, StateFacts DEF FollowersAnswer
  <2>. QED  BY <2>1, <2>2, StateFacts DEF FollowersAnswer
<1>8. ASSUME NEW d \in Clients
      PROVE  OneVote(d, f)'
  <2>. PICK cmd : cmd = Current(d)
    OBVIOUS
  <2>1. /\ OneVote(d, f) /\ Current(d)' = cmd /\ (Voting(d)' <=> Voting(d))
        /\ Voted(d, f)' <=> Voted(d, f)
        /\ Coming(d, f)' <=> Coming(d, f)
    BY <1>6, FollowerMovesFacts, StateFacts
  <2>2. HasOnly(net'[f][Leader], "RDY", d, cmd) /\ (Back(d, f)' <=> Back(d, f))
    BY <1>6, <2>1 DEF OneVote, Back
  <2>3. HasOnly(s, "PREP", d, cmd)
    BY <1>1, <2>1 DEF OneVote
  <2>4. HasOnly(Tail(s), "PREP", d, cmd)
    BY <1>3, <2>3, HasTail
  <2>5. Has(s, "PREP", d) <=> Has(Tail(s), "PREP", d) \/ m.cid = d
    <3>1. s \in Seq(Messages) /\ s # << >> /\ Head(s) = m /\ Head(s).tag = "PREP"
      BY <1>1, <1>3
    <3>2. Has(s, "PREP", d) <=> Has(Tail(s), "PREP", d) \/ (Head(s).tag = "PREP" /\ Head(s).cid = d)
      BY ONLY <3>1, HasTail, Zenon
    <3>. QED  BY ONLY <3>1, <3>2, Zenon
  <2>6. CASE m.cid # d
    <3>1. ~Held(d, f)'
      BY <1>5, <2>6 DEF Held
    <3>2. Asked(d, f)' => Asked(d, f)
      BY <1>1, <1>3, <2>5 DEF Asked
    <3>. QED  BY <1>3, <2>1, <2>2, <2>4, <3>1, <3>2, VoteFrame
  <2>7. CASE m.cid = d
    <3>1. Asked(d, f)
      BY <1>1, <2>5, <2>7 DEF Asked
    <3>2. ~Has(Tail(s), "PREP", d) /\ Command(m) = cmd
      BY <1>1, <1>3, <2>3, <2>7, HasTail
    <3>3. ~Asked(d, f)'
      BY <1>3, <3>2 DEF Asked
    <3>4. ~Coming(d, f)' /\ ~Back(d, f)' /\ ~Voted(d, f)' /\ Voting(d)'
      BY <2>1, <2>2, <3>1 DEF OneVote
    <3>5. Command(msg'[f]) = Current(d)'
      BY <1>5, <2>1, <3>2
    <3>6. (HasOnly(net[Leader][f], "PREP", d, Current(d)))'
      BY <1>3, <2>1, <2>4 DEF HasOnly
    <3>7. (HasOnly(net[f][Leader], "RDY", d, Current(d)))'
      BY <2>1, <2>2 DEF HasOnly
    <3>. QED  BY <3>3, <3>4, <3>5, <3>6, <3>7 DEF OneVote
  <2>. QED  BY <2>6, <2>7
<1>. QED  BY <1>6, <1>7, <1>8, FollowerMovesFacts DEF VotesInv, ClientInv

(* A follower votes. *)
LEMMA PrepareSendVotes ==
  ASSUME IInv, NEW f \in Followers, handle_prepare_send(f)
  PROVE  VotesInv'
<1>1. PICK s, m : s = net[f][Leader] /\ m = msg[f]
  OBVIOUS
<1>2. /\ Sends(f, "ready", Leader) /\ Returns(f)
      /\ UNCHANGED <<cpc, request_count, dst, ready_counter, index, log, applied, votes>>
  BY <1>1 DEF handle_prepare_send
<1>3. /\ pc[f] = "ready" /\ m \in Messages /\ net'[f][Leader] = Append(s, m)
      /\ \A x, y \in Nodes : x # f \/ y # Leader => net'[x][y] = net[x][y]
  <2>1. pc[f] = "ready" /\ msg[f] \in Messages
    BY <1>2, StateFacts, ChannelFacts DEF Sends, TypeOK
  <2>2. net \in Channels(Messages) /\ f \in Replicas /\ Leader \in Nodes
    BY StateFacts, ChannelFacts
  <2>3. /\ net'[f][Leader] = Append(net[f][Leader], msg[f])
        /\ \A x, y \in Nodes : x # f \/ y # Leader => net'[x][y] = net[x][y]
    BY <1>2, <2>1, <2>2, SendsFacts
  <2>. QED  BY <1>1, <2>1, <2>3
<1>4. m.tag = "RDY" /\ s \in Seq(Messages)
  BY <1>1, <1>3, StateFacts, ChannelFacts DEF FollowersAnswer
<1>5. /\ pc'[f] = "poll"
      /\ \A q \in Replicas : q # f => pc'[q] = pc[q] /\ msg'[q] = msg[q]
  BY <1>2, StateFacts, ChannelFacts DEF Returns, TypeOK
<1>6. FollowerMoves(f) /\ net'[Leader][f] = net[Leader][f]
  BY <1>2, <1>3, <1>5, ChannelFacts DEF FollowerMoves
<1>7. FollowersAnswer'
  <2>. SUFFICES ASSUME NEW g \in Followers
                PROVE  /\ \A k \in 1 .. Len(net'[g][Leader]) : net'[g][Leader][k].tag = "RDY"
                       /\ pc'[g] = "ready" => msg'[g].tag = "RDY"
    BY DEF FollowersAnswer
  <2>1. CASE g = f
    <3>1. /\ Len(Append(s, m)) = Len(s) + 1 /\ Append(s, m)[Len(s) + 1] = m
          /\ Len(s) \in Nat
          /\ \A k \in 1 .. Len(s) : Append(s, m)[k] = s[k]
      BY <1>3, <1>4, AppendProperties, LenProperties
    <3>2. \A k \in 1 .. Len(Append(s, m)) : k \in 1 .. Len(s) \/ k = Len(s) + 1
      BY <3>1
    <3>3. \A k \in 1 .. Len(s) : s[k].tag = "RDY"
      BY <1>1, StateFacts DEF FollowersAnswer
    <3>4. \A k \in 1 .. Len(Append(s, m)) : Append(s, m)[k].tag = "RDY"
      BY <1>4, <3>1, <3>2, <3>3
    <3>. QED  BY <1>3, <1>5, <2>1, <3>4
  <2>2. CASE g # f
    BY <1>6, <2>2, FollowerMovesFacts, StateFacts DEF FollowersAnswer
  <2>. QED  BY <2>1, <2>2
<1>8. ASSUME NEW d \in Clients
      PROVE  OneVote(d, f)'
  <2>. PICK cmd : cmd = Current(d)
    OBVIOUS
  <2>1. /\ OneVote(d, f) /\ Current(d)' = cmd /\ (Voting(d)' <=> Voting(d))
        /\ Voted(d, f)' <=> Voted(d, f)
        /\ Coming(d, f)' <=> Coming(d, f)
    BY <1>6, FollowerMovesFacts, StateFacts
  <2>2. HasOnly(net'[Leader][f], "PREP", d, cmd) /\ (Asked(d, f)' <=> Asked(d, f))
    BY <1>6, <2>1 DEF OneVote, Asked
  <2>3. ~Held(d, f)'
    BY <1>5 DEF Held
  <2>4. HasOnly(s, "RDY", d, cmd)
    BY <1>1, <2>1 DEF OneVote
  <2>5. CASE m.cid # d
    <3>1. Has(Append(s, m), "RDY", d) => Has(s, "RDY", d)
      BY <1>3, <1>4, <2>5, HasAppend
    <3>2. HasOnly(Append(s, m), "RDY", d, cmd)
      BY <1>3, <1>4, <2>4, <2>5, HasAppend
    <3>3. HasOnly(net'[f][Leader], "RDY", d, cmd) /\ (Back(d, f)' => Back(d, f))
      BY <1>1, <1>3, <3>1, <3>2 DEF Back
    <3>. QED  BY <2>1, <2>2, <2>3, <3>3, VoteFrame
  <2>6. CASE m.cid = d
    <3>1. Held(d, f)
      BY <1>1, <1>3, <2>6 DEF Held
    <3>2. /\ ~Coming(d, f) /\ ~Asked(d, f) /\ ~Back(d, f) /\ ~Voted(d, f) /\ Voting(d)
          /\ Command(m) = cmd
      BY <1>1, <2>1, <3>1 DEF OneVote
    <3>3. HasOnly(Append(s, m), "RDY", d, cmd)
      BY <1>1, <1>3, <1>4, <3>2, HasAppend DEF Back
    <3>4. (HasOnly(net[Leader][f], "PREP", d, Current(d)))'
      BY <2>1, <2>2 DEF HasOnly
    <3>5. (HasOnly(net[f][Leader], "RDY", d, Current(d)))'
      BY <1>3, <2>1, <3>3 DEF HasOnly
    <3>6. ~Coming(d, f)' /\ ~Asked(d, f)' /\ ~Voted(d, f)' /\ Voting(d)'
      BY <2>1, <2>2, <3>2
    <3>. QED  BY <2>3, <3>4, <3>5, <3>6 DEF OneVote
  <2>. QED  BY <2>5, <2>6
<1>. QED  BY <1>6, <1>7, <1>8, FollowerMovesFacts DEF VotesInv, ClientInv

(* A follower executes the command of a COM. *)
LEMMA CommitVotes ==
  ASSUME IInv, NEW f \in Followers, handle_commit(f)
  PROVE  VotesInv'
<1>1. PICK s, m : s = net[Leader][f] /\ m = Head(s)
  OBVIOUS
<1>2. /\ Takes(f, Leader, "COM") /\ applied' = [applied EXCEPT ![f] = Append(@, Command(m))]
      /\ UNCHANGED <<cpc, request_count, pc, msg, dst, ready_counter, index, log, votes>>
  BY <1>1 DEF handle_commit, update_value
<1>3. /\ s \in Seq(Messages) /\ s # << >> /\ m.tag = "COM"
      /\ net'[Leader][f] = Tail(s)
      /\ \A x, y \in Nodes : x # Leader \/ y # f => net'[x][y] = net[x][y]
  BY <1>1, <1>2, FollowerTakes
<1>4. FollowerMoves(f) /\ net'[f][Leader] = net[f][Leader]
  <2>1. \A q \in Replicas : q # f => applied'[q] = applied[q]
    BY <1>2, StateFacts DEF HistoryType
  <2>. QED  BY <1>2, <1>3, <2>1, ChannelFacts DEF FollowerMoves
<1>5. FollowersAnswer'
  <2>1. \A g \in Followers : net'[g][Leader] = net[g][Leader]
    BY <1>4, FollowerMovesFacts
  <2>. QED  BY <1>2, <2>1, StateFacts DEF FollowersAnswer
<1>6. ASSUME NEW d \in Clients
      PROVE  OneVote(d, f)'
  <2>. PICK cmd : cmd = Current(d)
    OBVIOUS
  <2>1. /\ OneVote(d, f) /\ Current(d)' = cmd /\ (Voting(d)' <=> Voting(d))
        /\ Voted(d, f)' <=> Voted(d, f)
        /\ Coming(d, f)' <=> Coming(d, f)
    BY <1>4, FollowerMovesFacts, StateFacts
  <2>2. HasOnly(net'[f][Leader], "RDY", d, cmd) /\ (Back(d, f)' <=> Back(d, f))
    BY <1>4, <2>1 DEF OneVote, Back
  <2>3. HasOnly(s, "PREP", d, cmd)
    BY <1>1, <2>1 DEF OneVote
  <2>4. HasOnly(Tail(s), "PREP", d, cmd) /\ (Has(Tail(s), "PREP", d) => Has(s, "PREP", d))
    BY <1>3, <2>3, HasTail
  <2>5. HasOnly(net'[Leader][f], "PREP", d, cmd) /\ (Asked(d, f)' => Asked(d, f))
    BY <1>1, <1>3, <2>4 DEF Asked
  <2>6. Held(d, f)' => Held(d, f) /\ Command(msg'[f]) = Command(msg[f])
    BY <1>2 DEF Held
  <2>. QED  BY <2>1, <2>2, <2>5, <2>6, VoteFrame
<1>. QED  BY <1>4, <1>5, <1>6, FollowerMovesFacts DEF VotesInv, ClientInv

------------------------------------------------------------------------------
(* The invariant, and what follows from it *)

(* The first states: nobody has sent, voted or executed anything. *)
LEMMA VotesInit == Init => VotesInv
<1>. SUFFICES ASSUME Init PROVE VotesInv
  OBVIOUS
<1>1. /\ log = << >> /\ votes = {} /\ \A r \in Replicas : pc[r] = "poll"
      /\ \A x, y \in Nodes : net[x][y] = << >>
      /\ \A c \in Clients : cpc[c] = "new"
  BY DEF Init, ReplicaInit, ClientInit, EmptyNet
<1>2. FollowersAnswer /\ CommitNeedsAllVotes
  BY <1>1, ChannelFacts DEF FollowersAnswer, CommitNeedsAllVotes
<1>3. ASSUME NEW c \in Clients
      PROVE  ClientInv(c)
  <2>1. OneMessage(c) /\ OnlyIssued(c) /\ CountsVotes(c)
    BY <1>1, ChannelFacts DEF OneMessage, InHand, OnlyIssued, CountsVotes, Voting
  <2>2. ASSUME NEW f \in Followers
        PROVE  OneVote(c, f)
    <3>1. net[Leader][f] = << >> /\ net[f][Leader] = << >> /\ pc[f] = "poll" /\ pc[Leader] = "poll"
      BY <1>1, ChannelFacts
    <3>. QED  BY <3>1 DEF OneVote, HasOnly, Has, Coming, Asked, Held, Back
  <2>. QED  BY <2>1, <2>2 DEF ClientInv
<1>. QED  BY <1>2, <1>3 DEF VotesInv

(* A step in which nothing happens. *)
LEMMA StutterVotes ==
  ASSUME VotesInv, UNCHANGED vars
  PROVE  VotesInv'
<1>1. UNCHANGED <<net, cpc, request_count, pc, msg, dst, ready_counter, log, applied, votes>>
  BY DEF vars, clientVars, replicaVars
<1>2. FollowersAnswer' /\ CommitNeedsAllVotes'
  BY <1>1 DEF VotesInv, FollowersAnswer, CommitNeedsAllVotes
<1>3. ASSUME NEW c \in Clients
      PROVE  ClientInv(c)'
  <2>1. ClientInv(c)
    BY DEF VotesInv
  <2>2. OneMessage(c)'
    BY <1>1, <2>1 DEF ClientInv, OneMessage, InHand, InLog, Executed, Current,
       SetupMessage, RequestMessage
  <2>3. OnlyIssued(c)'
    BY <1>1, <2>1 DEF ClientInv, OnlyIssued, Issued, Current
  <2>4. CountsVotes(c)'
    BY <1>1, <2>1 DEF ClientInv, CountsVotes, Voting, Voters, Voted, InLog, Current
  <2>5. ASSUME NEW f \in Followers
        PROVE  OneVote(c, f)'
    <3>1. OneVote(c, f)
      BY <2>1 DEF ClientInv
    <3>2. Current(c)' = Current(c) /\ (Voting(c)' <=> Voting(c)) /\ (Voted(c, f)' <=> Voted(c, f))
      BY ONLY <1>1 DEF Current, Voting, Voted, InLog
    <3>3. (Coming(c, f)' <=> Coming(c, f)) /\ (Held(c, f)' <=> Held(c, f))
      BY ONLY <1>1 DEF Coming, Held
    <3>4. (Asked(c, f)' <=> Asked(c, f)) /\ (Back(c, f)' <=> Back(c, f))
      BY ONLY <1>1 DEF Asked, Back, Has
    <3>5. /\ HasOnly(net[Leader][f], "PREP", c, Current(c))'
          /\ HasOnly(net[f][Leader], "RDY", c, Current(c))'
      BY ONLY <1>1, <3>1, <3>2 DEF OneVote, HasOnly
    <3>. QED  BY ONLY <1>1, <3>1, <3>2, <3>3, <3>4, <3>5 DEF OneVote
  <2>. QED  BY <2>2, <2>3, <2>4, <2>5 DEF ClientInv
<1>. QED  BY <1>2, <1>3 DEF VotesInv

(***************************************************************************)
(* The inductive invariant: it holds at first, and every step keeps it.    *)
(***************************************************************************)
THEOREM InductiveInvariant == Spec => []IInv
<1>1. Init => IInv
  BY AgreementInit, VotesInit DEF IInv
<1>2. IInv /\ [Next]_vars => IInv'
  <2>. SUFFICES ASSUME IInv, [Next]_vars PROVE IInv'
    OBVIOUS
  <2>1. AgreementInv'
    BY AgreementStep DEF IInv
  <2>2. CASE UNCHANGED vars
    BY <2>1, <2>2, StutterVotes DEF IInv
  <2>3. ASSUME NEW c \in Clients, ClientMoves(c)
        PROVE  VotesInv'
    BY <2>3, ClientVotes
  <2>4. ASSUME NEW src \in Nodes \ {Leader}, LeaderReceive(src)
        PROVE  VotesInv'
    <3>1. CASE handle_ready(src)
      <4>1. PICK m : m = Head(net[src][Leader])
        OBVIOUS
      <4>2. CASE AllReady(ready_counter[m.cid] + 1)
        BY <3>1, <4>1, <4>2, LastReadyVotes
      <4>3. CASE ~AllReady(ready_counter[m.cid] + 1)
        <5>1. UNCHANGED <<index, log, pc, msg, dst>>
          BY <3>1, <4>1, <4>3 DEF handle_ready
        <5>. QED  BY <3>1, <5>1, ReadyVotes
      <4>. QED  BY <4>2, <4>3
    <3>. QED  BY <2>4, <3>1, SetupVotes, RequestVotes DEF LeaderReceive
  <2>5. CASE LeaderContinue
    <3>1. CASE handle_setup_send
      BY <2>1, <3>1, SetupSendVotes DEF IInv
    <3>2. CASE handle_request_send
      BY <2>1, <3>2, RequestSendVotes DEF IInv
    <3>3. CASE handle_ready_send
      BY <2>1, <3>3, ReadySendVotes DEF IInv
    <3>4. CASE handle_ready_execute
      BY <2>1, <3>4, ReadyExecuteVotes DEF IInv
    <3>5. CASE handle_ready_respond
      BY <2>1, <3>5, ReadyRespondVotes DEF IInv
    <3>. QED  BY <2>5, <3>1, <3>2, <3>3, <3>4, <3>5 DEF LeaderContinue
  <2>6. ASSUME NEW f \in Followers, FollowerStep(f)
        PROVE  VotesInv'
    BY <2>6, PrepareVotes, PrepareSendVotes, CommitVotes DEF FollowerStep
  <2>7. CASE Terminated
    BY <2>2, <2>7 DEF Terminated
  <2>. QED  BY <2>1, <2>2, <2>3, <2>4, <2>5, <2>6, <2>7 DEF Next, IInv
<1>. QED  BY <1>1, <1>2, PTL DEF Spec

(***************************************************************************)
(* The number that the leader keeps per client is enough: no command is    *)
(* ordered before every follower has answered RDY to it.                   *)
(***************************************************************************)
THEOREM CommitNeedsAllVotesCorrect == Spec => []CommitNeedsAllVotes
<1>1. IInv => CommitNeedsAllVotes
  BY DEF IInv, VotesInv
<1>. QED  BY <1>1, InductiveInvariant, PTL

(***************************************************************************)
(* A waiting client that takes the first message for its answer, without a *)
(* look at it, gets the answer to its request, which has been executed.    *)
(***************************************************************************)
THEOREM AnswerMatchesRequestCorrect == Spec => []AnswerMatchesRequest
<1>1. IInv => AnswerMatchesRequest
  <2>. SUFFICES ASSUME IInv, NEW c \in Clients, cpc[c] = "waiting",
                       NEW k \in 1 .. Len(net[RecvFrom][c])
                PROVE  LET m == net[RecvFrom][c][k]
                           cmd == <<c, request_count[c]>>
                       IN  /\ m.tag = "RESP" /\ Command(m) = cmd
                           /\ \E i \in 1 .. Len(applied[Leader]) : applied[Leader][i] = cmd
    BY DEF AnswerMatchesRequest
  <2>1. PICK s : s = net[RecvFrom][c] /\ s = net[Leader][c] /\ s \in Seq(Messages)
    BY StateFacts, ChannelFacts
  <2>2. s # << >>
    <3>. SUFFICES ASSUME s = << >> PROVE FALSE
      OBVIOUS
    <3>1. Len(s) = 0
      BY EmptySeq
    <3>. QED  BY <2>1, <3>1
  <2>3. /\ Len(s) = 1 /\ s[1].tag = "RESP" /\ Command(s[1]) = Current(c)
        /\ Executed(Current(c))
    BY <2>1, <2>2, StateFacts DEF OneMessage
  <2>4. k = 1
    BY <2>1, <2>3
  <2>. QED  BY <2>1, <2>3, <2>4 DEF Executed, Current
<1>. QED  BY <1>1, InductiveInvariant, PTL

------------------------------------------------------------------------------
(* The replicated log *)

(* Every step is a step of the replicated log, or changes none of it. *)
LEMMA StepRefines == IInv /\ [Next]_vars => [Abstract!Next]_(Abstract!vars)
<1>. SUFFICES ASSUME IInv, [Next]_vars PROVE [Abstract!Next]_(Abstract!vars)
  OBVIOUS
<1>1. ASSUME NEW c \in Clients, ClientMoves(c)
      PROVE  [Abstract!Next]_(Abstract!vars)
  <2>1. cpc[c] = "waiting" /\ net[RecvFrom][c] # << >> => InLog(Current(c))
    <3>. SUFFICES ASSUME cpc[c] = "waiting", net[Leader][c] # << >>
                  PROVE  InLog(Current(c))
      BY ChannelFacts
    <3>1. Executed(Current(c))
      BY StateFacts DEF OneMessage
    <3>. QED  BY <3>1, ExecutedInLog
  <2>. QED  BY <1>1, <2>1, ClientRefines, StateFacts DEF ClientMoves, replicaVars
<1>2. ASSUME UNCHANGED <<cpc, request_count, log, applied>>
      PROVE  [Abstract!Next]_(Abstract!vars)
  BY <1>2, StutterRefines
<1>3. ASSUME NEW src \in Nodes \ {Leader}, handle_ready(src)
      PROVE  [Abstract!Next]_(Abstract!vars)
  <2>1. PICK m : m = Head(net[src][Leader])
    OBVIOUS
  <2>2. CASE AllReady(ready_counter[m.cid] + 1)
    <3>1. /\ m.cid \in Clients /\ cpc[m.cid] = "waiting" /\ ~InLog(Current(m.cid))
          /\ Command(m) = Current(m.cid)
      BY <1>3, <2>1, <2>2, LastReadyVotes
    <3>2. log' = Append(log, Command(m)) /\ UNCHANGED <<cpc, request_count, applied>>
      BY <1>3, <2>1, <2>2 DEF handle_ready
    <3>. QED  BY <3>1, <3>2, StateFacts, DecideRefines
  <2>3. CASE ~AllReady(ready_counter[m.cid] + 1)
    BY <1>2, <1>3, <2>1, <2>3 DEF handle_ready
  <2>. QED  BY <2>2, <2>3
<1>4. CASE handle_ready_execute
  <2>1. PICK cmd : cmd = Command(msg[Leader])
    OBVIOUS
  <2>2. /\ pc[Leader] = "execute" /\ applied' = [applied EXCEPT ![Leader] = Append(@, cmd)]
        /\ UNCHANGED <<cpc, request_count, log>>
    BY <1>4, <2>1 DEF handle_ready_execute, update_value, clientVars
  <2>3. /\ Len(log) = Len(applied[Leader]) + 1 /\ cmd = log[Len(log)]
        /\ Len(applied[Leader]) \in Nat
    BY <2>1, <2>2, StateFacts, ChannelFacts, LenProperties DEF CommitInHand, HistoryType
  <2>4. Len(applied[Leader]) < Len(log) /\ cmd = log[Len(applied[Leader]) + 1]
    BY <2>3
  <2>. QED  BY <2>2, <2>4, ChannelFacts, ApplyRefines
<1>5. ASSUME NEW f \in Followers, handle_commit(f)
      PROVE  [Abstract!Next]_(Abstract!vars)
  <2>1. PICK cmd : cmd = Command(Head(net[Leader][f]))
    OBVIOUS
  <2>2. /\ Takes(f, Leader, "COM") /\ applied' = [applied EXCEPT ![f] = Append(@, cmd)]
        /\ UNCHANGED <<cpc, request_count, log>>
    BY <1>5, <2>1 DEF handle_commit, update_value
  <2>3. net[Leader][f] # << >> /\ Head(net[Leader][f]).tag = "COM"
    BY <2>2, FollowerTakes
  <2>4. /\ Len(applied[f]) \in Nat /\ CommitsSent(f) \in Nat /\ Len(log) \in Nat
        /\ CommitsSent(f) <= Len(log) /\ f \in Replicas
    BY StateFacts, TransitTypes
  <2>5. Len(applied[f]) + 1 <= CommitsSent(f) /\ cmd = log[Len(applied[f]) + 1]
    BY <2>1, <2>3, StateFacts, TransitTypes, TransitTailCom
  <2>6. Len(applied[f]) < Len(log)
    BY <2>4, <2>5
  <2>. QED  BY <2>2, <2>4, <2>5, <2>6, ApplyRefines
<1>6. CASE UNCHANGED vars \/ Terminated
  BY <1>2, <1>6 DEF Terminated, vars, clientVars, replicaVars
<1>7. ASSUME NEW src \in Nodes \ {Leader}, LeaderReceive(src)
      PROVE  [Abstract!Next]_(Abstract!vars)
  BY <1>2, <1>3, <1>7 DEF LeaderReceive, handle_setup, handle_request
<1>8. CASE LeaderContinue
  BY <1>2, <1>4, <1>8 DEF LeaderContinue, handle_setup_send, handle_request_send,
     handle_ready_send, handle_ready_respond
<1>9. ASSUME NEW f \in Followers, FollowerStep(f)
      PROVE  [Abstract!Next]_(Abstract!vars)
  BY <1>2, <1>5, <1>9 DEF FollowerStep, handle_prepare, handle_prepare_send
<1>. QED  BY <1>1, <1>6, <1>7, <1>8, <1>9 DEF Next

(***************************************************************************)
(* Two-phase commit implements the replicated log: one order of the        *)
(* requests, each in it at most once, executed by every replica without    *)
(* gaps, and no answer to a request that has no place in the order.        *)
(***************************************************************************)
THEOREM Refinement == Spec => ImplementsReplicatedLog
<1>1. Init => Abstract!Init
  BY InitRefines DEF Init
<1>. QED  BY <1>1, StepRefines, InductiveInvariant, PTL
          DEF Spec, ImplementsReplicatedLog, Abstract!Spec

(***************************************************************************)
(* So two-phase commit orders every request that it answers, once and in the*)
(* order of its client, every replica executes that order, and a request   *)
(* issued after an answer comes after what was answered.                   *)
(***************************************************************************)
THEOREM PromiseKept == Spec => Promise
BY Refinement, LogPromise, PTL DEF ImplementsReplicatedLog
==============================================================================
