-------------------------- MODULE Broadcast_proofs ---------------------------
(***************************************************************************)
(* Theorems about Broadcast for every number of replicas, set of clients,  *)
(* channel capacity and bound on requests.                                 *)
(***************************************************************************)
EXTENDS Broadcast, Replica_proofs

Messages == [tag : {"SETUP", "REQ", "COMMIT"}, cid : Clients, rid : Nat, idx : Nat]

LeaderPCs == {"poll", "setup", "commit", "execute", "respond"}

TypeOK ==
  /\ net \in Channels(Messages)
  /\ ClientType
  /\ HistoryType
  /\ pc \in [Replicas -> LeaderPCs] /\ \A r \in Followers : pc[r] = "poll"
  /\ msg \in [Replicas -> Messages \cup {NoMsg}]
  /\ pc[Leader] # "poll" => msg[Leader] \in Messages
  /\ dst \in Replicas

(* What the leader holds in its hands between two steps of a handler. *)
CommitInHand ==
  /\ pc[Leader] = "commit" => dst \in Followers /\ msg[Leader].tag = "COMMIT"
  /\ pc[Leader] \in {"commit", "execute", "respond"} =>
       Len(log) > 0 /\ Command(msg[Leader]) = log[Len(log)]
  /\ Len(log) = Len(applied[Leader]) + IF pc[Leader] \in {"commit", "execute"} THEN 1 ELSE 0

(* The leader's handler is about client c. *)
InHand(c) == pc[Leader] # "poll" /\ msg[Leader].cid = c

(* How many commands follower r has executed or has in its channel. *)
Reach(r) == Len(applied[r]) + Len(net[Leader][r])

(* The request of c is executed, and every follower has it in reach. *)
BroadcastDone(c) ==
  \E i \in 1 .. Len(applied[Leader]) :
    /\ applied[Leader][i] = Current(c)
    /\ \A r \in Followers : i <= Reach(r)

(***************************************************************************)
(* Where the one message is that belongs to client c while it waits: in    *)
(* its channel to the leader, in the leader's hands, or in the channel     *)
(* back.  Of a client that does not wait there is none.                    *)
(***************************************************************************)
OneMessage(c) ==
  LET asked == net[c][Leader]
      answer == net[Leader][c]
  IN  /\ asked # << >> => /\ \/ cpc[c] = "joining" /\ asked = <<SetupMessage(c)>>
                             \/ cpc[c] = "waiting" /\ asked = <<RequestMessage(c)>>
                          /\ ~InHand(c) /\ answer = << >>
      /\ InHand(c) => /\ answer = << >>
                      /\ \/ cpc[c] = "joining" /\ pc[Leader] = "setup"
                         \/ /\ cpc[c] = "waiting" /\ pc[Leader] # "setup"
                            /\ Command(msg[Leader]) = Current(c)
      /\ answer # << >> => /\ Len(answer) = 1
                           /\ \/ cpc[c] = "joining"
                              \/ /\ cpc[c] = "waiting"
                                 /\ Command(answer[1]) = Current(c)
                                 /\ BroadcastDone(c)

(* Only requests that have left the channel to the leader are ordered. *)
OrderedIssued(c) ==
  \A i \in 1 .. Len(log) : log[i][1] = c =>
    \/ log[i][2] < request_count[c]
    \/ log[i] = Current(c) /\ cpc[c] = "waiting" /\ net[c][Leader] = << >>

ClientsServed == \A c \in Clients : OneMessage(c) /\ OrderedIssued(c)

(* The inductive invariant. *)
IInv ==
  /\ TypeOK
  /\ CommitInHand
  /\ CommitsInTransit
  /\ Agreement
  /\ ClientsServed

------------------------------------------------------------------------------
(* Type correctness *)

(* A message holds a command, and rewriting its tag leaves a message. *)
LEMMA MessageFacts ==
  ASSUME NEW m \in Messages
  PROVE  /\ m.cid \in Clients /\ Command(m) \in Commands /\ Command(m)[1] = m.cid
         /\ [m EXCEPT !.tag = "COMMIT"] \in Messages
         /\ [m EXCEPT !.tag = "COMMIT"].tag = "COMMIT"
         /\ [m EXCEPT !.tag = "COMMIT"].cid = m.cid
         /\ Command([m EXCEPT !.tag = "COMMIT"]) = Command(m)
BY DEF Messages, Command, Commands

(* The two messages of a client. *)
LEMMA ClientMessages ==
  ASSUME ClientType, NEW c \in Clients
  PROVE  /\ SetupMessage(c) \in Messages /\ RequestMessage(c) \in Messages
         /\ SetupMessage(c).tag = "SETUP" /\ SetupMessage(c).cid = c
         /\ RequestMessage(c).tag = "REQ" /\ RequestMessage(c).cid = c
         /\ Command(RequestMessage(c)) = Current(c)
<1>1. RecvFrom \in Nat /\ request_count[c] \in Nat
  BY ClientNodes, NodeFacts DEF ClientType
<1>. QED  BY <1>1 DEF SetupMessage, RequestMessage, Message, Messages, Command, Current

(* The sizes of what the lemmas below count. *)
LEMMA Sizes ==
  ASSUME TypeOK
  PROVE  /\ log \in Seq(Commands) /\ Len(log) \in Nat
         /\ \A r \in Replicas : applied[r] \in Seq(Commands) /\ Len(applied[r]) \in Nat
         /\ \A x, y \in Nodes : net[x][y] \in Seq(Messages) /\ Len(net[x][y]) \in Nat
BY LenProperties DEF TypeOK, HistoryType, Channels

(* The client's steps keep the types. *)
LEMMA ClientTypes ==
  ASSUME TypeOK, NEW c \in Clients, ClientMoves(c)
  PROVE  TypeOK' /\ ClientEffect(c)
<1>1. net' \in Channels(Messages) /\ ClientType' /\ ClientEffect(c)
  BY ClientStepFacts, ClientMessages DEF TypeOK, ClientMoves
<1>. QED  BY <1>1 DEF ClientMoves, replicaVars, TypeOK, HistoryType

(* The leader's steps keep the types. *)
LEMMA LeaderTypes ==
  ASSUME TypeOK, (\E src \in Clients : LeaderReceive(src)) \/ LeaderContinue
  PROVE  TypeOK'
<1>1. /\ Leader \in Replicas /\ Followers \subseteq Replicas /\ Leader \notin Followers
      /\ 1 \in Replicas
  BY NodeFacts, ClientNodes
<1>2. ASSUME NEW src \in Clients, handle_setup(src)
      PROVE  TypeOK'
  <2>1. net' \in Channels(Messages) /\ Head(net[src][Leader]) \in Messages
    BY <1>1, <1>2, TakesFacts, NodeFacts DEF handle_setup, TypeOK
  <2>. QED  BY <1>1, <1>2, <2>1
            DEF handle_setup, Enters, TypeOK, LeaderPCs, ClientType, HistoryType
<1>3. ASSUME NEW src \in Clients, handle_request(src)
      PROVE  TypeOK'
  <2>. PICK m : m = Head(net[src][Leader])
    OBVIOUS
  <2>1. net' \in Channels(Messages) /\ m \in Messages
    BY <1>1, <1>3, TakesFacts, NodeFacts DEF handle_request, TypeOK
  <2>2. log' = Append(log, Command(m)) /\ Enters(Leader, "commit", [m EXCEPT !.tag = "COMMIT"])
    BY <1>3 DEF handle_request
  <2>3. log' \in Seq(Commands) /\ [m EXCEPT !.tag = "COMMIT"] \in Messages
    BY <2>1, <2>2, MessageFacts, AppendProperties DEF TypeOK, HistoryType
  <2>. QED  BY <1>1, <1>3, <2>1, <2>2, <2>3
            DEF handle_request, Enters, TypeOK, LeaderPCs, ClientType, HistoryType
<1>4. CASE handle_setup_send
  <2>1. msg[Leader] \in Messages /\ pc[Leader] = "setup"
    BY <1>4 DEF handle_setup_send, Sends, TypeOK
  <2>2. net' \in Channels(Messages)
    BY <1>1, <1>4, <2>1, SendsFacts, MessageFacts, NodeFacts DEF handle_setup_send, TypeOK
  <2>. QED  BY <1>1, <1>4, <2>2
            DEF handle_setup_send, Returns, TypeOK, LeaderPCs, ClientType, HistoryType
<1>5. CASE handle_request_send
  <2>1. msg[Leader] \in Messages /\ dst \in Nodes
    BY <1>5, NodeFacts DEF handle_request_send, Sends, TypeOK
  <2>2. net' \in Channels(Messages)
    BY <1>1, <1>5, <2>1, SendsFacts DEF handle_request_send, TypeOK
  <2>3. dst' \in Replicas
    BY <1>1, <1>5, NodeFacts DEF handle_request_send, TypeOK
  <2>. QED  BY <1>1, <1>5, <2>1, <2>2, <2>3
            DEF handle_request_send, TypeOK, LeaderPCs, ClientType, HistoryType
<1>6. CASE handle_request_execute
  <2>1. msg[Leader] \in Messages
    BY <1>6 DEF handle_request_execute, TypeOK
  <2>2. Append(applied[Leader], Command(msg[Leader])) \in Seq(Commands)
    BY <1>1, <2>1, MessageFacts, AppendProperties DEF TypeOK, HistoryType
  <2>3. applied' \in [Replicas -> Seq(Commands)]
    BY <1>1, <1>6, <2>2 DEF handle_request_execute, update_value, TypeOK, HistoryType
  <2>. QED  BY <1>1, <1>6, <2>1, <2>3
            DEF handle_request_execute, clientVars, TypeOK, LeaderPCs, ClientType, HistoryType
<1>7. CASE handle_request_respond
  <2>1. msg[Leader] \in Messages
    BY <1>7 DEF handle_request_respond, Sends, TypeOK
  <2>2. net' \in Channels(Messages)
    BY <1>1, <1>7, <2>1, SendsFacts, MessageFacts, NodeFacts DEF handle_request_respond, TypeOK
  <2>. QED  BY <1>1, <1>7, <2>2
            DEF handle_request_respond, Returns, TypeOK, LeaderPCs, ClientType, HistoryType
<1>. QED  BY <1>2, <1>3, <1>4, <1>5, <1>6, <1>7 DEF LeaderReceive, LeaderContinue

(* A follower's step keeps the types. *)
LEMMA FollowerTypes ==
  ASSUME TypeOK, NEW r \in Followers, handle_commit(r)
  PROVE  TypeOK'
<1>. PICK m : m = Head(net[Leader][r])
  OBVIOUS
<1>1. r \in Replicas /\ Leader \in Nodes
  BY NodeFacts
<1>2. net' \in Channels(Messages) /\ m \in Messages
  BY <1>1, TakesFacts DEF handle_commit, TypeOK
<1>3. Append(applied[r], Command(m)) \in Seq(Commands)
  BY <1>1, <1>2, MessageFacts, AppendProperties DEF TypeOK, HistoryType
<1>4. applied' \in [Replicas -> Seq(Commands)]
  BY <1>1, <1>3 DEF handle_commit, update_value, TypeOK, HistoryType
<1>. QED  BY <1>2, <1>4 DEF handle_commit, TypeOK, ClientType, HistoryType

(* The initial values are of the types. *)
LEMMA InitType == Init => TypeOK
<1>. SUFFICES ASSUME Init PROVE TypeOK
  OBVIOUS
<1>1. << >> \in Seq(Messages) /\ << >> \in Seq(Commands)
  BY EmptySeq
<1>2. net \in Channels(Messages)
  BY <1>1 DEF Init, ReplicaInit, ClientInit, EmptyNet, Channels
<1>. QED  BY <1>1, <1>2, NodeFacts
          DEF Init, ReplicaInit, ClientInit, TypeOK, ClientType, ClientPCs, HistoryType, LeaderPCs

(* Every step of clients and replicas keeps the types. *)
LEMMA TypeStep == TypeOK /\ [Next]_vars => TypeOK'
<1>. SUFFICES ASSUME TypeOK, [Next]_vars PROVE TypeOK'
  OBVIOUS
<1>1. CASE UNCHANGED vars
  BY <1>1 DEF vars, clientVars, replicaVars, TypeOK, ClientType, HistoryType
<1>. QED  BY <1>1, ClientTypes, LeaderTypes, FollowerTypes DEF Next, Terminated

------------------------------------------------------------------------------
(* Commands on their way *)

(* One follower's part of CommitsInTransit, with the order as InOrder. *)
LEMMA TransitParts ==
  CommitsInTransit <=>
    \A r \in Followers :
      /\ Len(applied[r]) + Len(net[Leader][r]) = CommitsSent(r)
      /\ \A k \in 1 .. Len(net[Leader][r]) : net[Leader][r][k].tag = "COMMIT"
      /\ InOrder(net[Leader][r], Len(applied[r]), log)
<1>. DEFINE Holds(r) == /\ Len(applied[r]) + Len(net[Leader][r]) = CommitsSent(r)
                       /\ \A k \in 1 .. Len(net[Leader][r]) :
                            /\ net[Leader][r][k].tag = "COMMIT"
                            /\ Command(net[Leader][r][k]) = log[Len(applied[r]) + k]
            Part(r) == /\ Len(applied[r]) + Len(net[Leader][r]) = CommitsSent(r)
                       /\ \A k \in 1 .. Len(net[Leader][r]) : net[Leader][r][k].tag = "COMMIT"
                       /\ InOrder(net[Leader][r], Len(applied[r]), log)
<1>1. CommitsInTransit <=> \A r \in Followers : Holds(r)
  BY Zenon DEF CommitsInTransit
<1>2. ASSUME NEW r \in Followers
      PROVE  Holds(r) <=> Part(r)
  BY Zenon DEF InOrder
<1>. HIDE DEF Holds, Part
<1>3. CommitsInTransit <=> \A r \in Followers : Part(r)
  BY ONLY <1>1, <1>2
<1>. QED  BY ONLY <1>3, Zenon DEF Part

(* A step that touches no channel to a follower, nor log nor loop. *)
LEMMA TransitFrame ==
  ASSUME CommitsInTransit, log' = log,
         \A r \in Followers : /\ net'[Leader][r] = net[Leader][r]
                              /\ applied'[r] = applied[r]
                              /\ CommitsSent(r)' = CommitsSent(r)
  PROVE  CommitsInTransit'
<1>1. ASSUME NEW r \in Followers
      PROVE  /\ Len(applied'[r]) + Len(net'[Leader][r]) = CommitsSent(r)'
             /\ \A k \in 1 .. Len(net'[Leader][r]) :
                  /\ net'[Leader][r][k].tag = "COMMIT"
                  /\ Command(net'[Leader][r][k]) = log'[Len(applied'[r]) + k]
  <2>1. /\ Len(applied[r]) + Len(net[Leader][r]) = CommitsSent(r)
        /\ \A k \in 1 .. Len(net[Leader][r]) :
             /\ net[Leader][r][k].tag = "COMMIT"
             /\ Command(net[Leader][r][k]) = log[Len(applied[r]) + k]
    BY <1>1, Zenon DEF CommitsInTransit
  <2>2. /\ net'[Leader][r] = net[Leader][r] /\ applied'[r] = applied[r]
        /\ CommitsSent(r)' = CommitsSent(r) /\ log' = log
    BY <1>1
  <2>. QED  BY ONLY <2>1, <2>2
<1>. QED  BY ONLY <1>1, Zenon DEF CommitsInTransit

(* Once done, always done: what a follower has in reach only grows. *)
LEMMA DoneStays ==
  ASSUME TypeOK, TypeOK', NEW c \in Clients, BroadcastDone(c),
         request_count'[c] = request_count[c],
         Len(applied'[Leader]) >= Len(applied[Leader]),
         \A i \in 1 .. Len(applied[Leader]) : applied'[Leader][i] = applied[Leader][i],
         \A r \in Followers : Reach(r) <= Reach(r)'
  PROVE  BroadcastDone(c)'
<1>1. PICK i : /\ i \in 1 .. Len(applied[Leader]) /\ applied[Leader][i] = Current(c)
               /\ \A r \in Followers : i <= Reach(r)
  BY DEF BroadcastDone
<1>2. /\ Len(applied[Leader]) \in Nat /\ Len(applied'[Leader]) \in Nat
      /\ \A r \in Followers : Reach(r) \in Int
      /\ \A r \in Followers : Reach(r)' \in Int
  BY Sizes, NodeFacts DEF Reach
<1>3. i \in 1 .. Len(applied'[Leader]) /\ applied'[Leader][i] = Current(c)'
  BY <1>1, <1>2 DEF Current
<1>4. ASSUME NEW r \in Followers
      PROVE  i <= Reach(r)'
  <2>1. i \in Int
    BY <1>1, <1>2
  <2>2. Reach(r) \in Int /\ Reach(r)' \in Int
    BY <1>2, Zenon
  <2>3. i <= Reach(r) /\ Reach(r) <= Reach(r)'
    BY <1>1, Zenon
  <2>. QED  BY <2>1, <2>2, <2>3
<1>. QED  BY <1>3, <1>4 DEF BroadcastDone

(* A step that has nothing to do with client c. *)
LEMMA OneMessageFrame ==
  ASSUME NEW c \in Clients, OneMessage(c), OrderedIssued(c),
         cpc'[c] = cpc[c], request_count'[c] = request_count[c],
         net'[c][Leader] = net[c][Leader], net'[Leader][c] = net[Leader][c],
         InHand(c)' <=> InHand(c),
         InHand(c) => /\ pc'[Leader] = "setup" <=> pc[Leader] = "setup"
                      /\ Command(msg'[Leader]) = Command(msg[Leader]),
         BroadcastDone(c) => BroadcastDone(c)',
         \A i \in 1 .. Len(log') : log'[i][1] = c => i \in 1 .. Len(log) /\ log'[i] = log[i]
  PROVE  OneMessage(c)' /\ OrderedIssued(c)'
<1>1. RequestMessage(c)' = RequestMessage(c) /\ Current(c)' = Current(c)
  BY DEF RequestMessage, Current
<1>2. OneMessage(c)'
  BY <1>1 DEF OneMessage
<1>3. OrderedIssued(c)'
  BY <1>1 DEF OrderedIssued
<1>. QED  BY <1>2, <1>3

------------------------------------------------------------------------------
(* The steps *)

(* Facts about the state that most steps need. *)
LEMMA StateFacts ==
  ASSUME IInv
  PROVE  /\ TypeOK /\ CommitInHand /\ CommitsInTransit /\ Agreement
         /\ net \in Channels(Messages) /\ ClientType /\ HistoryType
         /\ pc \in [Replicas -> LeaderPCs] /\ msg \in [Replicas -> Messages \cup {NoMsg}]
         /\ \A c \in Clients : OneMessage(c) /\ OrderedIssued(c)
         /\ Leader \in Replicas /\ Leader \in Nodes /\ RecvFrom = Leader
         /\ \A c \in Clients : c \in Nodes /\ c # Leader /\ c \notin Followers
         /\ \A r \in Followers : r \in Replicas /\ r \in Nodes /\ r # Leader
BY NodeFacts, ClientNodes, AnswersFromLeader DEF IInv, ClientsServed, TypeOK

(* What holds of a follower and of its channel. *)
LEMMA FollowerFacts ==
  ASSUME IInv, NEW r \in Followers
  PROVE  /\ r \in Replicas /\ r \in Nodes
         /\ net[Leader][r] \in Seq(Messages) /\ Len(net[Leader][r]) \in Nat
         /\ Len(applied[r]) \in Nat /\ log \in Seq(Commands) /\ Len(log) \in Nat
         /\ Len(applied[r]) + Len(net[Leader][r]) = CommitsSent(r)
         /\ Reach(r) = CommitsSent(r)
         /\ CommitsSent(r) \in Nat /\ CommitsSent(r) <= Len(log)
         /\ \A k \in 1 .. Len(net[Leader][r]) : net[Leader][r][k].tag = "COMMIT"
         /\ InOrder(net[Leader][r], Len(applied[r]), log)
<1>1. r \in Replicas /\ r \in Nodes /\ Leader \in Nodes
  BY StateFacts
<1>2. /\ net[Leader][r] \in Seq(Messages) /\ Len(net[Leader][r]) \in Nat
      /\ Len(applied[r]) \in Nat /\ log \in Seq(Commands) /\ Len(log) \in Nat
  BY <1>1, StateFacts, Sizes
<1>3. Len(applied[r]) + Len(net[Leader][r]) = CommitsSent(r)
  BY StateFacts, TransitParts
<1>4. /\ \A k \in 1 .. Len(net[Leader][r]) : net[Leader][r][k].tag = "COMMIT"
      /\ InOrder(net[Leader][r], Len(applied[r]), log)
  BY StateFacts, TransitParts
<1>5. pc[Leader] = "commit" => Len(log) > 0
  BY StateFacts DEF CommitInHand
<1>6. CommitsSent(r) \in Nat /\ CommitsSent(r) <= Len(log)
  BY <1>2, <1>5 DEF CommitsSent
<1>. QED  BY <1>1, <1>2, <1>3, <1>4, <1>6 DEF Reach

(* A client sends or receives. *)
LEMMA ClientInv ==
  ASSUME IInv, TypeOK', NEW c \in Clients, ClientMoves(c)
  PROVE  CommitInHand' /\ CommitsInTransit' /\ Agreement' /\ ClientsServed'
<1>1. UNCHANGED <<pc, msg, dst, log, applied>> /\ ClientEffect(c)
  BY StateFacts, ClientTypes DEF ClientMoves, replicaVars
<1>2. \A x, y \in Nodes : x # c /\ y # c => net'[x][y] = net[x][y]
  BY <1>1, ClientFrame
<1>3. \A r \in Followers : net'[Leader][r] = net[Leader][r]
  BY <1>2, StateFacts
<1>4. \A d \in Clients : d # c => cpc'[d] = cpc[d] /\ request_count'[d] = request_count[d]
  BY StateFacts, ClientStepFacts, ClientMessages DEF ClientMoves
<1>5. CommitInHand' /\ Agreement'
  BY <1>1, StateFacts DEF CommitInHand, Agreement
<1>6. CommitsInTransit'
  BY <1>1, <1>3, StateFacts, TransitFrame DEF CommitsSent
<1>7. ASSUME NEW d \in Clients, d # c
      PROVE  OneMessage(d)' /\ OrderedIssued(d)'
  <2>1. net'[d][Leader] = net[d][Leader] /\ net'[Leader][d] = net[Leader][d]
    BY <1>2, <1>7, StateFacts
  <2>2. BroadcastDone(d) => BroadcastDone(d)'
    BY <1>1, <1>3, <1>4, <1>7 DEF BroadcastDone, Reach, Current
  <2>. QED  BY <1>1, <1>4, <1>7, <2>1, <2>2, StateFacts, OneMessageFrame DEF InHand
<1>8. OneMessage(c)' /\ OrderedIssued(c)'
  <2>1. OneMessage(c) /\ OrderedIssued(c) /\ c \in Nodes /\ Leader \in Nodes /\ c # Leader
    BY StateFacts
  <2>. PICK asked, answer : asked = net[c][Leader] /\ answer = net[Leader][c]
    OBVIOUS
  <2>2. asked \in Seq(Messages) /\ answer \in Seq(Messages)
    BY <2>1, StateFacts DEF Channels
  <2>3. InHand(c)' <=> InHand(c)
    BY <1>1 DEF InHand
  <2>4. CASE cpc[c] = "new"
    <3>1. asked = << >> /\ ~InHand(c) /\ answer = << >>
      BY <2>1, <2>4 DEF OneMessage
    <3>2. /\ cpc'[c] = "joining" /\ request_count'[c] = request_count[c]
          /\ net'[c][Leader] = <<SetupMessage(c)>> /\ net'[Leader][c] = << >>
      <4>1. /\ cpc'[c] = "joining" /\ request_count'[c] = request_count[c]
            /\ ClientSent(c, SetupMessage(c))
        BY <1>1, <2>4 DEF ClientEffect
      <4>2. ClientSent(c, SetupMessage(c)) /\ net[c][Leader] = << >> /\ net[Leader][c] = << >>
        BY <3>1, <4>1
      <4>3. net'[c][Leader] = <<SetupMessage(c)>> /\ net'[Leader][c] = << >>
        BY ONLY <2>1, <4>2, SentAlone, Zenon
      <4>. QED  BY ONLY <4>1, <4>3
    <3>3. SetupMessage(c)' = SetupMessage(c)
      BY DEF SetupMessage
    <3>4. OneMessage(c)'
      BY <2>3, <3>1, <3>2, <3>3 DEF OneMessage
    <3>. QED  BY <1>1, <2>1, <2>4, <3>2, <3>4 DEF OrderedIssued
  <2>5. CASE cpc[c] = "joining"
    <3>1. /\ cpc'[c] = "idle" /\ request_count'[c] = request_count[c]
          /\ answer # << >> /\ net'[Leader][c] = Tail(answer) /\ net'[c][Leader] = asked
      BY <1>1, <2>1, <2>5 DEF ClientEffect, ClientGot
    <3>2. asked = << >> /\ ~InHand(c) /\ Len(answer) = 1
      BY <2>1, <3>1 DEF OneMessage
    <3>3. net'[Leader][c] = << >>
      BY <2>2, <3>1, <3>2, LastTaken
    <3>4. OneMessage(c)'
      BY <2>3, <3>1, <3>2, <3>3 DEF OneMessage
    <3>. QED  BY <1>1, <2>1, <2>5, <3>1, <3>4 DEF OrderedIssued
  <2>6. CASE cpc[c] = "idle"
    <3>1. asked = << >> /\ ~InHand(c) /\ answer = << >>
      BY <2>1, <2>6 DEF OneMessage
    <3>2. /\ cpc'[c] = "waiting" /\ request_count'[c] = request_count[c]
          /\ net'[c][Leader] = <<RequestMessage(c)>> /\ net'[Leader][c] = << >>
      <4>1. /\ cpc'[c] = "waiting" /\ request_count'[c] = request_count[c]
            /\ ClientSent(c, RequestMessage(c))
        BY <1>1, <2>6 DEF ClientEffect
      <4>2. ClientSent(c, RequestMessage(c)) /\ net[c][Leader] = << >> /\ net[Leader][c] = << >>
        BY <3>1, <4>1
      <4>3. net'[c][Leader] = <<RequestMessage(c)>> /\ net'[Leader][c] = << >>
        BY ONLY <2>1, <4>2, SentAlone, Zenon
      <4>. QED  BY ONLY <4>1, <4>3
    <3>3. RequestMessage(c)' = RequestMessage(c)
      BY <3>2 DEF RequestMessage
    <3>4. OneMessage(c)'
      BY <2>3, <3>1, <3>2, <3>3 DEF OneMessage
    <3>. QED  BY <1>1, <2>1, <2>6, <3>2, <3>4 DEF OrderedIssued
  <2>7. CASE cpc[c] = "waiting"
    <3>1. /\ cpc'[c] = "idle" /\ request_count'[c] = request_count[c] + 1
          /\ answer # << >> /\ net'[Leader][c] = Tail(answer) /\ net'[c][Leader] = asked
      BY <1>1, <2>1, <2>7, StateFacts DEF ClientEffect, ClientGot
    <3>2. asked = << >> /\ ~InHand(c) /\ Len(answer) = 1
      BY <2>1, <3>1 DEF OneMessage
    <3>3. net'[Leader][c] = << >>
      BY <2>2, <3>1, <3>2, LastTaken
    <3>4. OneMessage(c)'
      BY <2>3, <3>1, <3>2, <3>3 DEF OneMessage
    <3>5. request_count[c] \in Nat
      BY StateFacts DEF ClientType
    <3>6. ASSUME NEW i \in 1 .. Len(log), log[i][1] = c
          PROVE  log[i][2] < request_count'[c]
      <4>1. log[i] \in Commands
        BY StateFacts, LenProperties DEF HistoryType
      <4>2. log[i][2] \in Nat
        BY <4>1 DEF Commands
      <4>3. log[i][2] < request_count[c] \/ log[i] = Current(c)
        BY <2>1, <3>6 DEF OrderedIssued
      <4>. QED  BY <3>1, <3>5, <4>2, <4>3 DEF Current
    <3>7. OrderedIssued(c)'
      BY <1>1, <3>6 DEF OrderedIssued
    <3>. QED  BY <3>4, <3>7
  <2>. QED  BY <1>1, <2>4, <2>5, <2>6, <2>7 DEF ClientEffect
<1>9. ClientsServed'
  BY <1>7, <1>8 DEF ClientsServed
<1>. QED  BY <1>5, <1>6, <1>9

(* The leader takes the one message of client src. *)
LEMMA LeaderTakes ==
  ASSUME IInv, NEW src \in Clients, NEW t \in {"SETUP", "REQ"}, Takes(Leader, src, t)
  PROVE  LET m == Head(net[src][Leader])
         IN  /\ m \in Messages /\ m.cid = src /\ pc[Leader] = "poll"
             /\ net[Leader][src] = << >> /\ net'[src][Leader] = << >>
             /\ \A x, y \in Nodes : x # src \/ y # Leader => net'[x][y] = net[x][y]
             /\ t = "SETUP" => cpc[src] = "joining"
             /\ t = "REQ" => /\ cpc[src] = "waiting" /\ Command(m) = Current(src)
                             /\ RequestMessage(src) = m
<1>1. OneMessage(src) /\ src \in Nodes /\ Leader \in Replicas
  BY StateFacts
<1>2. /\ pc[Leader] = "poll" /\ net[src][Leader] # << >>
      /\ Head(net[src][Leader]) \in Messages /\ Head(net[src][Leader]).tag = t
      /\ net'[src][Leader] = Tail(net[src][Leader])
      /\ \A x, y \in Nodes : x # src \/ y # Leader => net'[x][y] = net[x][y]
  BY <1>1, StateFacts, TakesFacts
<1>3. /\ net[Leader][src] = << >>
      /\ \/ cpc[src] = "joining" /\ net[src][Leader] = <<SetupMessage(src)>>
         \/ cpc[src] = "waiting" /\ net[src][Leader] = <<RequestMessage(src)>>
  BY <1>1, <1>2 DEF OneMessage
<1>4. CASE cpc[src] = "joining" /\ net[src][Leader] = <<SetupMessage(src)>>
  <2>1. Head(net[src][Leader]) = SetupMessage(src) /\ net'[src][Leader] = << >>
    BY <1>2, <1>4, SingleMessage
  <2>. QED  BY <1>2, <1>3, <1>4, <2>1, StateFacts, ClientMessages
<1>5. CASE cpc[src] = "waiting" /\ net[src][Leader] = <<RequestMessage(src)>>
  <2>1. Head(net[src][Leader]) = RequestMessage(src) /\ net'[src][Leader] = << >>
    BY <1>2, <1>5, SingleMessage
  <2>. QED  BY <1>2, <1>3, <1>5, <2>1, StateFacts, ClientMessages
<1>. QED  BY <1>3, <1>4, <1>5

(* The leader takes up a setup message. *)
LEMMA SetupInv ==
  ASSUME IInv, TypeOK', NEW src \in Clients, handle_setup(src)
  PROVE  CommitInHand' /\ CommitsInTransit' /\ Agreement' /\ ClientsServed'
<1>. PICK m : m = Head(net[src][Leader])
  OBVIOUS
<1>1. /\ Takes(Leader, src, "SETUP") /\ Enters(Leader, "setup", m)
      /\ UNCHANGED <<cpc, request_count, dst, log, applied>>
  BY DEF handle_setup
<1>2. /\ m \in Messages /\ m.cid = src /\ pc[Leader] = "poll"
      /\ net[Leader][src] = << >> /\ net'[src][Leader] = << >>
      /\ cpc[src] = "joining"
      /\ \A x, y \in Nodes : x # src \/ y # Leader => net'[x][y] = net[x][y]
  BY <1>1, LeaderTakes
<1>3. pc'[Leader] = "setup" /\ msg'[Leader] = m
  BY <1>1, StateFacts DEF Enters
<1>4. CommitInHand' /\ Agreement'
  BY <1>1, <1>2, <1>3, StateFacts DEF CommitInHand, Agreement
<1>5. \A r \in Followers : net'[Leader][r] = net[Leader][r] /\ CommitsSent(r)' = CommitsSent(r)
  BY <1>1, <1>2, <1>3, StateFacts DEF CommitsSent
<1>6. CommitsInTransit'
  BY <1>1, <1>5, StateFacts, TransitFrame
<1>7. ASSUME NEW d \in Clients, d # src
      PROVE  OneMessage(d)' /\ OrderedIssued(d)'
  <2>1. net'[d][Leader] = net[d][Leader] /\ net'[Leader][d] = net[Leader][d]
    BY <1>2, <1>7, StateFacts
  <2>2. BroadcastDone(d) => BroadcastDone(d)'
    BY <1>1, <1>5 DEF BroadcastDone, Reach, Current
  <2>3. ~InHand(d) /\ ~InHand(d)'
    BY <1>2, <1>3, <1>7 DEF InHand
  <2>. QED  BY <1>1, <2>1, <2>2, <2>3, StateFacts, OneMessageFrame
<1>8. OneMessage(src)'
  <2>1. net'[Leader][src] = << >>
    BY <1>2, StateFacts
  <2>. QED  BY <1>1, <1>2, <1>3, <2>1 DEF OneMessage
<1>9. OrderedIssued(src)'
  BY <1>1, <1>2, StateFacts DEF OrderedIssued, Current
<1>. QED  BY <1>4, <1>6, <1>7, <1>8, <1>9 DEF ClientsServed

(* The leader answers a setup message. *)
LEMMA SetupSendInv ==
  ASSUME IInv, TypeOK', handle_setup_send
  PROVE  CommitInHand' /\ CommitsInTransit' /\ Agreement' /\ ClientsServed'
<1>. PICK m, c : m = msg[Leader] /\ c = m.cid
  OBVIOUS
<1>1. /\ Sends(Leader, "setup", c) /\ Returns(Leader)
      /\ UNCHANGED <<cpc, request_count, dst, log, applied>>
  BY DEF handle_setup_send
<1>2. pc[Leader] = "setup" /\ m \in Messages
  BY <1>1, StateFacts DEF Sends, TypeOK
<1>3. c \in Clients /\ c \in Nodes
  BY <1>2, StateFacts, MessageFacts
<1>4. /\ net'[Leader][c] = Append(net[Leader][c], m)
      /\ \A x, y \in Nodes : x # Leader \/ y # c => net'[x][y] = net[x][y]
  BY <1>1, <1>2, <1>3, StateFacts, SendsFacts
<1>5. pc'[Leader] = "poll"
  BY <1>1, StateFacts DEF Returns
<1>6. OneMessage(c) /\ OrderedIssued(c) /\ InHand(c)
  BY <1>2, <1>3, StateFacts DEF InHand
<1>7. cpc[c] = "joining" /\ net[Leader][c] = << >> /\ net[c][Leader] = << >>
  BY <1>2, <1>6 DEF OneMessage
<1>8. CommitInHand' /\ Agreement'
  BY <1>1, <1>2, <1>5, StateFacts DEF CommitInHand, Agreement
<1>9. \A r \in Followers : net'[Leader][r] = net[Leader][r] /\ CommitsSent(r)' = CommitsSent(r)
  BY <1>1, <1>2, <1>3, <1>4, <1>5, StateFacts DEF CommitsSent
<1>10. CommitsInTransit'
  BY <1>1, <1>9, StateFacts, TransitFrame
<1>11. ASSUME NEW d \in Clients, d # c
       PROVE  OneMessage(d)' /\ OrderedIssued(d)'
  <2>1. net'[d][Leader] = net[d][Leader] /\ net'[Leader][d] = net[Leader][d]
    BY <1>3, <1>4, <1>11, StateFacts
  <2>2. BroadcastDone(d) => BroadcastDone(d)'
    BY <1>1, <1>9 DEF BroadcastDone, Reach, Current
  <2>3. ~InHand(d) /\ ~InHand(d)'
    BY <1>5, <1>11 DEF InHand
  <2>. QED  BY <1>1, <2>1, <2>2, <2>3, StateFacts, OneMessageFrame
<1>12. OneMessage(c)'
  <2>1. net'[c][Leader] = << >> /\ net'[Leader][c] = <<m>>
    BY <1>3, <1>4, <1>7, StateFacts, SingleMessage
  <2>2. Len(net'[Leader][c]) = 1 /\ ~InHand(c)'
    BY <1>5, <2>1, SingleMessage DEF InHand
  <2>. QED  BY <1>1, <1>7, <2>1, <2>2 DEF OneMessage
<1>13. OrderedIssued(c)'
  BY <1>1, <1>6, <1>7, StateFacts DEF OrderedIssued, Current
<1>. QED  BY <1>8, <1>10, <1>11, <1>12, <1>13 DEF ClientsServed

(* The leader takes up a request and gives it its place in the order. *)
LEMMA RequestInv ==
  ASSUME IInv, TypeOK', NEW src \in Clients, handle_request(src)
  PROVE  CommitInHand' /\ CommitsInTransit' /\ Agreement' /\ ClientsServed'
<1>. PICK m : m = Head(net[src][Leader])
  OBVIOUS
<1>1. /\ Takes(Leader, src, "REQ") /\ Enters(Leader, "commit", [m EXCEPT !.tag = "COMMIT"])
      /\ log' = Append(log, Command(m)) /\ dst' = 1
      /\ UNCHANGED <<cpc, request_count, applied>>
  BY DEF handle_request
<1>2. /\ m \in Messages /\ m.cid = src /\ pc[Leader] = "poll"
      /\ net[Leader][src] = << >> /\ net'[src][Leader] = << >>
      /\ cpc[src] = "waiting" /\ Command(m) = Current(src)
      /\ \A x, y \in Nodes : x # src \/ y # Leader => net'[x][y] = net[x][y]
  BY <1>1, LeaderTakes
<1>3. /\ pc'[Leader] = "commit" /\ msg'[Leader].tag = "COMMIT"
      /\ msg'[Leader].cid = src /\ Command(msg'[Leader]) = Command(m)
  BY <1>1, <1>2, StateFacts, MessageFacts DEF Enters
<1>4. Command(m) \in Commands /\ Command(m)[1] = src
  BY <1>2, MessageFacts
<1>5. /\ Len(log) \in Nat /\ Len(log') = Len(log) + 1 /\ log'[Len(log) + 1] = Command(m)
      /\ \A i \in 1 .. Len(log) : log'[i] = log[i]
      /\ \A i \in 1 .. Len(log') : i \in 1 .. Len(log) \/ i = Len(log) + 1
  BY <1>1, <1>4, StateFacts, LogAppend
<1>6. CommitInHand'
  BY <1>1, <1>2, <1>3, <1>5, StateFacts, NodeFacts DEF CommitInHand
<1>7. Agreement'
  BY <1>1, <1>4, StateFacts, AgreementOrdered
<1>8. CommitsInTransit'
  <2>1. ASSUME NEW r \in Followers
        PROVE  /\ Len(applied'[r]) + Len(net'[Leader][r]) = CommitsSent(r)'
               /\ \A k \in 1 .. Len(net'[Leader][r]) : net'[Leader][r][k].tag = "COMMIT"
               /\ InOrder(net'[Leader][r], Len(applied'[r]), log')
    <3>1. net'[Leader][r] = net[Leader][r] /\ applied' = applied
      BY <1>1, <1>2, StateFacts
    <3>2. CommitsSent(r) = Len(log) /\ CommitsSent(r)' = Len(log)
      BY <1>1, <1>2, <1>3, <1>5, FollowerNumbers DEF CommitsSent
    <3>. PICK s, a, lg : s = net[Leader][r] /\ a = Len(applied[r]) /\ lg = log
      OBVIOUS
    <3>3. /\ s \in Seq(Messages) /\ a \in Nat /\ lg \in Seq(Commands)
          /\ a + Len(s) = CommitsSent(r) /\ CommitsSent(r) <= Len(lg)
          /\ \A k \in 1 .. Len(s) : s[k].tag = "COMMIT"
          /\ InOrder(s, a, lg)
      BY FollowerFacts
    <3>4. a + Len(s) <= Len(lg)
      BY <3>3
    <3>5. InOrder(s, a, Append(lg, Command(m)))
      BY <1>4, <3>3, <3>4, InOrderLog
    <3>. QED  BY <1>1, <3>1, <3>2, <3>3, <3>5
  <2>. QED  BY <2>1 DEF CommitsInTransit, InOrder
<1>9. ASSUME NEW d \in Clients, d # src
      PROVE  OneMessage(d)' /\ OrderedIssued(d)'
  <2>1. net'[d][Leader] = net[d][Leader] /\ net'[Leader][d] = net[Leader][d]
    BY <1>2, <1>9, StateFacts
  <2>2. BroadcastDone(d) => BroadcastDone(d)'
    BY <1>1, <1>2, StateFacts DEF BroadcastDone, Reach, Current
  <2>3. ~InHand(d) /\ ~InHand(d)'
    BY <1>2, <1>3, <1>9 DEF InHand
  <2>4. \A i \in 1 .. Len(log') : log'[i][1] = d => i \in 1 .. Len(log) /\ log'[i] = log[i]
    BY <1>4, <1>5, <1>9
  <2>. QED  BY <1>1, <2>1, <2>2, <2>3, <2>4, StateFacts, OneMessageFrame
<1>10. OneMessage(src)'
  <2>1. net'[Leader][src] = << >>
    BY <1>2, StateFacts
  <2>. QED  BY <1>1, <1>2, <1>3, <2>1 DEF OneMessage, Current
<1>11. OrderedIssued(src)'
  BY <1>1, <1>2, <1>5, StateFacts DEF OrderedIssued, Current
<1>. QED  BY <1>6, <1>7, <1>8, <1>9, <1>10, <1>11 DEF ClientsServed

(* The leader sends the commit to one follower. *)
LEMMA RequestSendInv ==
  ASSUME IInv, TypeOK', handle_request_send
  PROVE  CommitInHand' /\ CommitsInTransit' /\ Agreement' /\ ClientsServed'
<1>. PICK m, f : m = msg[Leader] /\ f = dst
  OBVIOUS
<1>1. /\ Sends(Leader, "commit", f)
      /\ IF f = N - 1 THEN dst' = Leader /\ pc' = [pc EXCEPT ![Leader] = "execute"]
                      ELSE dst' = f + 1 /\ UNCHANGED pc
      /\ UNCHANGED <<cpc, request_count, msg, log, applied>>
  BY DEF handle_request_send
<1>2. pc[Leader] = "commit" /\ m \in Messages /\ f \in Followers
  BY <1>1, StateFacts DEF Sends, TypeOK, CommitInHand
<1>3. f \in Nodes /\ f \in Replicas
  BY <1>2, NodeFacts
<1>4. /\ net'[Leader][f] = Append(net[Leader][f], m)
      /\ \A x, y \in Nodes : x # Leader \/ y # f => net'[x][y] = net[x][y]
  BY <1>1, <1>2, <1>3, StateFacts, SendsFacts
<1>5. pc'[Leader] = IF f = N - 1 THEN "execute" ELSE "commit"
  BY <1>1, <1>2, StateFacts
<1>6. /\ m.tag = "COMMIT" /\ Len(log) > 0 /\ Command(m) = log[Len(log)]
      /\ Len(log) = Len(applied[Leader]) + 1
  BY <1>2, StateFacts DEF CommitInHand
<1>7. CommitInHand'
  <2>1. f # N - 1 => f + 1 \in Followers
    BY <1>3, NodeFacts
  <2>. QED  BY <1>1, <1>5, <1>6, <2>1 DEF CommitInHand
<1>8. Agreement'
  BY <1>1, StateFacts DEF Agreement
<1>9. N \in Nat /\ \A r \in Followers : r \in Nat /\ r <= N - 1
  BY FollowerNumbers
<1>10. ASSUME NEW r \in Followers
       PROVE  CommitsSent(r)' = IF r = f THEN CommitsSent(r) + 1 ELSE CommitsSent(r)
  BY <1>1, <1>2, <1>3, <1>5, <1>9, StateFacts, Sizes DEF CommitsSent
<1>11. ASSUME NEW r \in Followers
       PROVE  /\ Len(applied'[r]) + Len(net'[Leader][r]) = CommitsSent(r)'
              /\ \A k \in 1 .. Len(net'[Leader][r]) : net'[Leader][r][k].tag = "COMMIT"
              /\ InOrder(net'[Leader][r], Len(applied'[r]), log')
  <2>1. PICK s, a, lg : s = net[Leader][r] /\ a = Len(applied[r]) /\ lg = log
    OBVIOUS
  <2>2. s \in Seq(Messages) /\ a \in Nat /\ lg \in Seq(Commands) /\ Len(s) \in Nat /\ Len(lg) \in Nat
    BY <2>1, FollowerFacts
  <2>3. a + Len(s) = CommitsSent(r)
    BY <2>1, FollowerFacts
  <2>4. (\A k \in 1 .. Len(s) : s[k].tag = "COMMIT") /\ InOrder(s, a, lg)
    BY <2>1, FollowerFacts
  <2>5. CASE r # f
    BY <1>1, <1>4, <1>10, <2>1, <2>3, <2>4, <2>5, StateFacts
  <2>6. CASE r = f
    <3>1. CommitsSent(r) = Len(lg) - 1
      BY <1>2, <1>9, <2>1, <2>6 DEF CommitsSent
    <3>2. a + Len(s) + 1 = Len(lg)
      BY <2>2, <2>3, <3>1
    <3>3. Command(m) = lg[a + Len(s) + 1]
      BY <1>6, <2>1, <3>2
    <3>4. InOrder(Append(s, m), a, lg)
      BY <1>2, <2>2, <2>4, <3>3, InOrderAppend
    <3>5. /\ Len(Append(s, m)) = Len(s) + 1
          /\ \A k \in 1 .. Len(Append(s, m)) : Append(s, m)[k].tag = "COMMIT"
      BY <1>2, <1>6, <2>2, <2>4, AppendProperties
    <3>6. a + Len(Append(s, m)) = CommitsSent(r) + 1
      BY <2>2, <2>3, <3>5
    <3>7. net'[Leader][r] = Append(s, m) /\ Len(applied'[r]) = a /\ log' = lg
      BY <1>1, <1>4, <2>1, <2>6
    <3>8. CommitsSent(r)' = CommitsSent(r) + 1
      BY <1>10, <2>6
    <3>. QED  BY <3>4, <3>5, <3>6, <3>7, <3>8
  <2>. QED  BY <2>5, <2>6
<1>12. CommitsInTransit'
  BY <1>11 DEF CommitsInTransit, InOrder
<1>13. ASSUME NEW d \in Clients
       PROVE  OneMessage(d)' /\ OrderedIssued(d)'
  <2>1. net'[d][Leader] = net[d][Leader] /\ net'[Leader][d] = net[Leader][d]
    BY <1>2, <1>4, StateFacts
  <2>2. \A r \in Followers : Reach(r) <= Reach(r)'
    <3>1. \A r \in Followers : Reach(r) = CommitsSent(r) /\ CommitsSent(r) \in Nat
      BY FollowerFacts
    <3>2. \A r \in Followers : Reach(r)' = CommitsSent(r)'
      BY <1>11 DEF Reach
    <3>. QED  BY <1>10, <3>1, <3>2
  <2>3. Len(applied'[Leader]) >= Len(applied[Leader])
    BY <1>1, StateFacts, Sizes
  <2>4. BroadcastDone(d) => BroadcastDone(d)'
    BY <1>1, <2>2, <2>3, StateFacts, DoneStays
  <2>5. InHand(d) <=> InHand(d)'
    BY <1>1, <1>2, <1>5 DEF InHand
  <2>6. pc[Leader] # "setup" /\ pc'[Leader] # "setup"
    BY <1>2, <1>5
  <2>. QED  BY <1>1, <2>1, <2>4, <2>5, <2>6, StateFacts, OneMessageFrame
<1>. QED  BY <1>7, <1>8, <1>12, <1>13 DEF ClientsServed

(* The leader executes the request in its hands. *)
LEMMA RequestExecuteInv ==
  ASSUME IInv, TypeOK', handle_request_execute
  PROVE  CommitInHand' /\ CommitsInTransit' /\ Agreement' /\ ClientsServed'
<1>1. PICK c : c = Command(msg[Leader])
  OBVIOUS
<1>2. /\ pc[Leader] = "execute" /\ msg[Leader] \in Messages /\ Leader \in Replicas
      /\ Len(log) > 0 /\ c = log[Len(log)] /\ Len(log) = Len(applied[Leader]) + 1
  BY <1>1, StateFacts DEF handle_request_execute, TypeOK, CommitInHand
<1>3. /\ applied' = [applied EXCEPT ![Leader] = Append(@, c)]
      /\ pc'[Leader] = "respond"
      /\ UNCHANGED <<net, cpc, request_count, msg, dst, log>>
  BY <1>1, StateFacts DEF handle_request_execute, update_value, clientVars
<1>4. c \in Commands
  BY <1>1, <1>2, MessageFacts
<1>5. /\ Len(applied[Leader]) \in Nat /\ Len(applied'[Leader]) = Len(applied[Leader]) + 1
      /\ \A i \in 1 .. Len(applied[Leader]) : applied'[Leader][i] = applied[Leader][i]
      /\ \A q \in Replicas : q # Leader => applied'[q] = applied[q]
  BY <1>2, <1>3, <1>4, StateFacts, AppliedAppend
<1>6. CommitInHand'
  <2>1. Len(log') = Len(applied'[Leader]) /\ Len(log') \in Nat
    BY <1>2, <1>3, <1>5
  <2>2. Len(log') = Len(applied'[Leader]) + 0
    BY <2>1
  <2>3. Len(log') > 0 /\ Command(msg'[Leader]) = log'[Len(log')]
    BY <1>1, <1>2, <1>3
  <2>. QED  BY <1>3, <2>2, <2>3 DEF CommitInHand
<1>7. Agreement'
  <2>1. Len(applied[Leader]) < Len(log) /\ c = log[Len(applied[Leader]) + 1]
    BY <1>2, <1>5
  <2>. QED  BY <1>2, <1>3, <1>4, <2>1, StateFacts, AgreementApplied
<1>8. \A r \in Followers : /\ net'[Leader][r] = net[Leader][r] /\ applied'[r] = applied[r]
                           /\ CommitsSent(r)' = CommitsSent(r)
  BY <1>2, <1>3, <1>5, StateFacts DEF CommitsSent
<1>9. CommitsInTransit'
  BY <1>3, <1>8, StateFacts, TransitFrame
<1>10. ASSUME NEW d \in Clients
       PROVE  OneMessage(d)' /\ OrderedIssued(d)'
  <2>1. \A r \in Followers : Reach(r) \in Nat /\ Reach(r)' = Reach(r)
    BY <1>8, FollowerFacts DEF Reach
  <2>2. Len(applied'[Leader]) >= Len(applied[Leader])
    BY <1>5
  <2>3. \A r \in Followers : Reach(r) <= Reach(r)'
    BY <2>1
  <2>4. BroadcastDone(d) => BroadcastDone(d)'
    BY <1>3, <1>5, <2>2, <2>3, StateFacts, DoneStays
  <2>5. InHand(d) <=> InHand(d)'
    BY <1>2, <1>3 DEF InHand
  <2>6. pc[Leader] # "setup" /\ pc'[Leader] # "setup"
    BY <1>2, <1>3
  <2>. QED  BY <1>3, <2>4, <2>5, <2>6, StateFacts, OneMessageFrame
<1>. QED  BY <1>6, <1>7, <1>9, <1>10 DEF ClientsServed

(* The leader answers a request. *)
LEMMA RequestRespondInv ==
  ASSUME IInv, TypeOK', handle_request_respond
  PROVE  CommitInHand' /\ CommitsInTransit' /\ Agreement' /\ ClientsServed'
<1>. PICK m, c : m = msg[Leader] /\ c = m.cid
  OBVIOUS
<1>1. /\ Sends(Leader, "respond", c) /\ Returns(Leader)
      /\ UNCHANGED <<cpc, request_count, dst, log, applied>>
  BY DEF handle_request_respond
<1>2. pc[Leader] = "respond" /\ m \in Messages
  BY <1>1, StateFacts DEF Sends, TypeOK
<1>3. c \in Clients /\ c \in Nodes
  BY <1>2, StateFacts, MessageFacts
<1>4. /\ net'[Leader][c] = Append(net[Leader][c], m)
      /\ \A x, y \in Nodes : x # Leader \/ y # c => net'[x][y] = net[x][y]
  BY <1>1, <1>2, <1>3, StateFacts, SendsFacts
<1>5. pc'[Leader] = "poll"
  BY <1>1, StateFacts DEF Returns
<1>6. OneMessage(c) /\ OrderedIssued(c) /\ InHand(c)
  BY <1>2, <1>3, StateFacts DEF InHand
<1>7. /\ cpc[c] = "waiting" /\ Command(m) = Current(c)
      /\ net[Leader][c] = << >> /\ net[c][Leader] = << >>
  BY <1>2, <1>6 DEF OneMessage
<1>8. CommitInHand' /\ Agreement'
  BY <1>1, <1>2, <1>5, StateFacts DEF CommitInHand, Agreement
<1>9. \A r \in Followers : net'[Leader][r] = net[Leader][r] /\ CommitsSent(r)' = CommitsSent(r)
  BY <1>1, <1>2, <1>3, <1>4, <1>5, StateFacts DEF CommitsSent
<1>10. CommitsInTransit'
  BY <1>1, <1>9, StateFacts, TransitFrame
<1>11. \A d \in Clients : BroadcastDone(d) => BroadcastDone(d)'
  BY <1>1, <1>9 DEF BroadcastDone, Reach, Current
<1>12. BroadcastDone(c)
  <2>1. Len(log) = Len(applied[Leader]) /\ Len(log) > 0 /\ Command(m) = log[Len(log)]
    BY <1>2, StateFacts DEF CommitInHand
  <2>2. Len(log) \in Nat
    BY StateFacts, Sizes
  <2>3. Len(log) \in 1 .. Len(applied[Leader])
    BY <2>1, <2>2
  <2>4. applied[Leader][Len(log)] = Current(c)
    BY <1>7, <2>1, <2>3, StateFacts DEF Agreement
  <2>5. \A r \in Followers : CommitsSent(r) = Len(log)
    BY <1>2 DEF CommitsSent
  <2>6. \A r \in Followers : Len(log) <= Reach(r)
    BY <2>2, <2>5, FollowerFacts
  <2>. QED  BY <2>3, <2>4, <2>6 DEF BroadcastDone
<1>13. ASSUME NEW d \in Clients, d # c
       PROVE  OneMessage(d)' /\ OrderedIssued(d)'
  <2>1. net'[d][Leader] = net[d][Leader] /\ net'[Leader][d] = net[Leader][d]
    BY <1>3, <1>4, <1>13, StateFacts
  <2>2. ~InHand(d) /\ ~InHand(d)'
    BY <1>5, <1>13 DEF InHand
  <2>. QED  BY <1>1, <1>11, <2>1, <2>2, StateFacts, OneMessageFrame
<1>14. OneMessage(c)'
  <2>1. net'[c][Leader] = << >> /\ net'[Leader][c] = <<m>>
    BY <1>3, <1>4, <1>7, StateFacts, SingleMessage
  <2>2. Len(net'[Leader][c]) = 1 /\ net'[Leader][c][1] = m /\ ~InHand(c)'
    BY <1>5, <2>1, SingleMessage DEF InHand
  <2>3. Current(c)' = Current(c)
    BY <1>1 DEF Current
  <2>. QED  BY <1>1, <1>3, <1>7, <1>11, <1>12, <2>1, <2>2, <2>3 DEF OneMessage
<1>15. OrderedIssued(c)'
  <2>1. net'[c][Leader] = net[c][Leader]
    BY <1>3, <1>4, StateFacts
  <2>. QED  BY <1>1, <1>6, <2>1 DEF OrderedIssued, Current
<1>. QED  BY <1>8, <1>10, <1>13, <1>14, <1>15 DEF ClientsServed

(* What a follower takes is the next command of the log. *)
LEMMA CommitFacts ==
  ASSUME IInv, NEW r \in Followers, handle_commit(r)
  PROVE  LET c == Command(Head(net[Leader][r]))
         IN  /\ c \in Commands /\ Len(applied[r]) < Len(log)
             /\ c = log[Len(applied[r]) + 1]
             /\ applied' = [applied EXCEPT ![r] = Append(@, c)]
             /\ Len(net'[Leader][r]) = Len(net[Leader][r]) - 1
             /\ \A k \in 1 .. Len(net'[Leader][r]) : net'[Leader][r][k].tag = "COMMIT"
             /\ InOrder(net'[Leader][r], Len(applied[r]) + 1, log)
             /\ \A x, y \in Nodes : x # Leader \/ y # r => net'[x][y] = net[x][y]
             /\ UNCHANGED <<cpc, request_count, pc, msg, dst, log>>
<1>1. PICK s, a, lg : s = net[Leader][r] /\ a = Len(applied[r]) /\ lg = log
  OBVIOUS
<1>2. /\ Takes(r, Leader, "COMMIT") /\ UNCHANGED <<cpc, request_count, pc, msg, dst, log>>
      /\ applied' = [applied EXCEPT ![r] = Append(@, Command(Head(s)))]
  BY <1>1 DEF handle_commit, update_value
<1>3. r \in Replicas /\ s \in Seq(Messages) /\ Len(s) \in Nat /\ a \in Nat /\ Len(lg) \in Nat
  BY <1>1, FollowerFacts
<1>4. /\ s # << >> /\ Head(s) \in Messages /\ net'[Leader][r] = Tail(s)
      /\ \A x, y \in Nodes : x # Leader \/ y # r => net'[x][y] = net[x][y]
  BY <1>1, <1>2, <1>3, StateFacts, TakesFacts
<1>5. InOrder(s, a, lg) /\ \A k \in 1 .. Len(s) : s[k].tag = "COMMIT"
  BY <1>1, FollowerFacts
<1>6. /\ Len(s) > 0 /\ Len(Tail(s)) = Len(s) - 1
      /\ Command(Head(s)) = lg[a + 1] /\ InOrder(Tail(s), a + 1, lg)
  BY <1>3, <1>4, <1>5, InOrderTail
<1>7. \A k \in 1 .. Len(Tail(s)) : Tail(s)[k].tag = "COMMIT"
  BY <1>3, <1>4, <1>5, HeadTailProperties
<1>8. a < Len(lg)
  <2>1. a + Len(s) <= Len(lg)
    BY <1>1, FollowerFacts
  <2>. QED  BY <1>3, <1>6, <2>1
<1>9. Command(Head(s)) \in Commands
  BY <1>4, MessageFacts
<1>. QED  BY <1>1, <1>2, <1>4, <1>6, <1>7, <1>8, <1>9

(* A follower takes a commit and executes it. *)
LEMMA CommitInv ==
  ASSUME IInv, TypeOK', NEW r \in Followers, handle_commit(r)
  PROVE  CommitInHand' /\ CommitsInTransit' /\ Agreement' /\ ClientsServed'
<1>1. PICK c : c = Command(Head(net[Leader][r]))
  OBVIOUS
<1>2. /\ c \in Commands /\ Len(applied[r]) < Len(log) /\ c = log[Len(applied[r]) + 1]
      /\ applied' = [applied EXCEPT ![r] = Append(@, c)]
      /\ UNCHANGED <<cpc, request_count, pc, msg, dst, log>>
  BY <1>1, CommitFacts
<1>3. /\ Len(net'[Leader][r]) = Len(net[Leader][r]) - 1
      /\ \A k \in 1 .. Len(net'[Leader][r]) : net'[Leader][r][k].tag = "COMMIT"
      /\ InOrder(net'[Leader][r], Len(applied[r]) + 1, log)
      /\ \A x, y \in Nodes : x # Leader \/ y # r => net'[x][y] = net[x][y]
  BY CommitFacts
<1>4. r \in Replicas /\ r # Leader
  BY StateFacts
<1>5. /\ Len(applied'[r]) = Len(applied[r]) + 1
      /\ \A q \in Replicas : q # r => applied'[q] = applied[q]
  BY <1>2, <1>4, StateFacts, AppliedAppend
<1>6. CommitInHand'
  BY <1>2, <1>4, <1>5, StateFacts DEF CommitInHand
<1>7. Agreement'
  BY <1>2, <1>4, StateFacts, AgreementApplied
<1>8. ASSUME NEW q \in Followers
      PROVE  CommitsSent(q)' = CommitsSent(q)
  BY <1>2 DEF CommitsSent
<1>9. ASSUME NEW q \in Followers, q # r
      PROVE  applied'[q] = applied[q] /\ net'[Leader][q] = net[Leader][q]
  BY <1>3, <1>5, <1>9, StateFacts
<1>10. Len(applied'[r]) + Len(net'[Leader][r]) = Len(applied[r]) + Len(net[Leader][r])
  <2>1. PICK a, s : a = Len(applied[r]) /\ s = Len(net[Leader][r])
    OBVIOUS
  <2>2. a \in Nat /\ s \in Nat
    BY <2>1, FollowerFacts
  <2>3. (a + 1) + (s - 1) = a + s
    BY <2>2
  <2>. QED  BY <1>3, <1>5, <2>1, <2>3
<1>11. ASSUME NEW q \in Followers
       PROVE  /\ Len(applied'[q]) + Len(net'[Leader][q]) = CommitsSent(q)'
              /\ \A k \in 1 .. Len(net'[Leader][q]) : net'[Leader][q][k].tag = "COMMIT"
              /\ InOrder(net'[Leader][q], Len(applied'[q]), log')
  <2>1. CASE q = r
    <3>1. Len(applied[r]) + Len(net[Leader][r]) = CommitsSent(r)
      BY FollowerFacts
    <3>2. CommitsSent(r)' = CommitsSent(r)
      BY <1>8
    <3>. QED  BY <1>2, <1>3, <1>5, <1>10, <2>1, <3>1, <3>2
  <2>2. CASE q # r
    <3>1. /\ applied'[q] = applied[q] /\ net'[Leader][q] = net[Leader][q] /\ log' = log
          /\ CommitsSent(q)' = CommitsSent(q)
      BY <1>2, <1>8, <1>9, <2>2
    <3>. QED  BY <3>1, FollowerFacts
  <2>. QED  BY <2>1, <2>2
<1>12. CommitsInTransit'
  BY <1>11 DEF CommitsInTransit, InOrder
<1>13. ASSUME NEW d \in Clients
       PROVE  OneMessage(d)' /\ OrderedIssued(d)'
  <2>1. net'[d][Leader] = net[d][Leader] /\ net'[Leader][d] = net[Leader][d]
    BY <1>3, StateFacts
  <2>2. \A q \in Followers : Reach(q)' = Reach(q)
    BY <1>9, <1>10 DEF Reach
  <2>3. applied'[Leader] = applied[Leader]
    BY <1>4, <1>5, StateFacts
  <2>4. BroadcastDone(d) => BroadcastDone(d)'
    BY <1>2, <2>2, <2>3 DEF BroadcastDone, Current
  <2>. QED  BY <1>2, <2>1, <2>4, StateFacts, OneMessageFrame DEF InHand
<1>. QED  BY <1>6, <1>7, <1>12, <1>13 DEF ClientsServed

------------------------------------------------------------------------------
(* The invariant, and what follows from it *)

(* The initial states satisfy the invariant. *)
LEMMA InitInv == Init => IInv
<1>. SUFFICES ASSUME Init PROVE IInv
  OBVIOUS
<1>1. TypeOK
  BY InitType
<1>2. /\ \A x, y \in Nodes : net[x][y] = << >>
      /\ \A r \in Replicas : applied[r] = << >>
      /\ pc[Leader] = "poll" /\ log = << >> /\ Len(<< >>) = 0
  BY NodeFacts DEF Init, ClientInit, ReplicaInit, EmptyNet
<1>3. CommitInHand
  BY <1>2, NodeFacts DEF CommitInHand
<1>4. CommitsInTransit
  <2>. SUFFICES ASSUME NEW r \in Followers
                PROVE  /\ Len(applied[r]) + Len(net[Leader][r]) = CommitsSent(r)
                       /\ \A k \in 1 .. Len(net[Leader][r]) : FALSE
    BY DEF CommitsInTransit
  <2>1. applied[r] = << >> /\ net[Leader][r] = << >>
    BY <1>2, NodeFacts
  <2>2. CommitsSent(r) = 0
    BY <1>2 DEF CommitsSent
  <2>. QED  BY <1>2, <2>1, <2>2
<1>5. Agreement
  BY <1>2 DEF Agreement
<1>6. ClientsServed
  BY <1>2, NodeFacts DEF ClientsServed, OneMessage, OrderedIssued, InHand
<1>. QED  BY <1>1, <1>3, <1>4, <1>5, <1>6 DEF IInv

(* Every step keeps the invariant. *)
LEMMA InvStep == IInv /\ [Next]_vars => IInv'
<1>. SUFFICES ASSUME IInv, [Next]_vars PROVE IInv'
  OBVIOUS
<1>1. TypeOK'
  BY TypeStep DEF IInv
<1>2. ASSUME NEW c \in Clients, ClientMoves(c)
      PROVE  IInv'
  BY <1>1, <1>2, ClientInv DEF IInv
<1>3. ASSUME NEW c \in Clients, handle_setup(c)
      PROVE  IInv'
  BY <1>1, <1>3, SetupInv DEF IInv
<1>4. ASSUME NEW c \in Clients, handle_request(c)
      PROVE  IInv'
  BY <1>1, <1>4, RequestInv DEF IInv
<1>5. CASE handle_setup_send
  BY <1>1, <1>5, SetupSendInv DEF IInv
<1>6. CASE handle_request_send
  BY <1>1, <1>6, RequestSendInv DEF IInv
<1>7. CASE handle_request_execute
  BY <1>1, <1>7, RequestExecuteInv DEF IInv
<1>8. CASE handle_request_respond
  BY <1>1, <1>8, RequestRespondInv DEF IInv
<1>9. ASSUME NEW r \in Followers, handle_commit(r)
      PROVE  IInv'
  BY <1>1, <1>9, CommitInv DEF IInv
<1>10. CASE UNCHANGED vars
  <2>1. UNCHANGED <<net, cpc, request_count, pc, msg, dst, log, applied>>
    BY <1>10 DEF vars, clientVars, replicaVars
  <2>2. CommitInHand' /\ Agreement' /\ CommitsInTransit'
    BY <2>1 DEF IInv, CommitInHand, Agreement, CommitsInTransit, CommitsSent
  <2>3. ASSUME NEW c \in Clients
        PROVE  OneMessage(c)' /\ OrderedIssued(c)'
    <3>1. InHand(c)' <=> InHand(c)
      BY <2>1 DEF InHand
    <3>2. BroadcastDone(c) => BroadcastDone(c)'
      BY <2>1 DEF BroadcastDone, Reach, Current
    <3>. QED  BY <2>1, <3>1, <3>2, StateFacts, OneMessageFrame
  <2>. QED  BY <1>1, <2>2, <2>3 DEF IInv, ClientsServed
<1>. QED  BY <1>2, <1>3, <1>4, <1>5, <1>6, <1>7, <1>8, <1>9, <1>10
          DEF Next, LeaderReceive, LeaderContinue, Terminated

(* In every run, the channels hold only what belongs in them: one message  *)
(* of a client at a time, commits in the order of the log to the followers. *)
THEOREM InductiveInvariant == Spec => []IInv
<1>. QED  BY InitInv, InvStep, PTL DEF Spec

(***************************************************************************)
(* The channel to a follower holds exactly the commands it has not         *)
(* executed, in the order of the log (handle_commit compares nothing).     *)
(***************************************************************************)
THEOREM CommitsInTransitCorrect == Spec => []CommitsInTransit
<1>1. IInv => CommitsInTransit
  BY DEF IInv
<1>. QED  BY <1>1, InductiveInvariant, PTL

(* Every replica has executed a prefix of the order the leader gave. *)
THEOREM AgreementCorrect == Spec => []Agreement
<1>1. IInv => Agreement
  BY DEF IInv
<1>. QED  BY <1>1, InductiveInvariant, PTL

(***************************************************************************)
(* A client that waits gets the answer to its own request, and gets it     *)
(* only when the leader has executed the request and every follower has    *)
(* it behind it or in its channel (handle_request answers last).           *)
(***************************************************************************)
THEOREM AnswerAfterBroadcastCorrect == Spec => []AnswerAfterBroadcast
<1>1. IInv => AnswerAfterBroadcast
  <2>. SUFFICES ASSUME IInv, NEW c \in Clients, cpc[c] = "waiting",
                       NEW k \in 1 .. Len(net[Leader][c])
                PROVE  /\ Command(net[Leader][c][k]) = <<c, request_count[c]>>
                       /\ \E i \in 1 .. Len(applied[Leader]) :
                            /\ applied[Leader][i] = <<c, request_count[c]>>
                            /\ \A r \in Followers : i <= Len(applied[r]) + Len(net[Leader][r])
    BY DEF AnswerAfterBroadcast
  <2>1. OneMessage(c) /\ Len(net[Leader][c]) \in Nat
    BY StateFacts, Sizes
  <2>2. net[Leader][c] # << >>
    <3>. SUFFICES ASSUME net[Leader][c] = << >> PROVE FALSE
      OBVIOUS
    <3>. QED  BY EmptySeq
  <2>3. /\ Len(net[Leader][c]) = 1 /\ Command(net[Leader][c][1]) = Current(c)
        /\ BroadcastDone(c)
    BY <2>1, <2>2 DEF OneMessage
  <2>4. k = 1
    BY <2>3
  <2>. QED  BY <2>3, <2>4 DEF BroadcastDone, Reach, Current
<1>. QED  BY <1>1, InductiveInvariant, PTL

(* Every step is a step of the replicated log, or none. *)
LEMMA StepRefines == IInv /\ [Next]_vars => [Abstract!Next]_(Abstract!vars)
<1>. SUFFICES ASSUME IInv, [Next]_vars PROVE [Abstract!Next]_(Abstract!vars)
  OBVIOUS
<1>1. ASSUME NEW c \in Clients, ClientMoves(c)
      PROVE  [Abstract!Next]_(Abstract!vars)
  <2>1. cpc[c] = "waiting" /\ net[RecvFrom][c] # << >> => InLog(Current(c))
    <3>. SUFFICES ASSUME cpc[c] = "waiting", net[Leader][c] # << >>
                  PROVE  InLog(Current(c))
      BY StateFacts
    <3>1. BroadcastDone(c)
      BY StateFacts DEF OneMessage
    <3>2. Agreement /\ Leader \in Replicas /\ HistoryType
      BY StateFacts
    <3>3. PICK i \in 1 .. Len(applied[Leader]) : applied[Leader][i] = Current(c)
      BY <3>1 DEF BroadcastDone
    <3>4. Len(applied[Leader]) \in Nat /\ Len(log) \in Nat /\ Len(applied[Leader]) <= Len(log)
      BY <3>2, LenProperties DEF Agreement, HistoryType
    <3>5. i \in 1 .. Len(log) /\ log[i] = Current(c)
      BY <3>2, <3>3, <3>4 DEF Agreement
    <3>. QED  BY <3>5 DEF InLog
  <2>. QED  BY <1>1, <2>1, ClientRefines, StateFacts DEF ClientMoves, replicaVars
<1>2. ASSUME NEW src \in Clients, handle_request(src)
      PROVE  [Abstract!Next]_(Abstract!vars)
  <2>1. /\ cpc[src] = "waiting" /\ log' = Append(log, Current(src))
        /\ UNCHANGED <<cpc, request_count, applied>>
        /\ net[src][Leader] # << >>
    BY <1>2, LeaderTakes DEF handle_request, Takes, CanRecv
  <2>2. ~InLog(Current(src))
    <3>. SUFFICES ASSUME NEW i \in 1 .. Len(log), log[i] = Current(src)
                  PROVE  FALSE
      BY DEF InLog
    <3>1. log[i][1] = src /\ log[i][2] = request_count[src] /\ request_count[src] \in Nat
      BY StateFacts DEF Current, ClientType
    <3>2. OrderedIssued(src)
      BY StateFacts
    <3>3. log[i][2] < request_count[src]
      BY <2>1, <3>1, <3>2 DEF OrderedIssued
    <3>. QED  BY <3>1, <3>3
  <2>. QED  BY <2>1, <2>2, StateFacts, DecideRefines
<1>3. CASE handle_request_execute
  <2>1. PICK c : c = Command(msg[Leader])
    OBVIOUS
  <2>2. /\ pc[Leader] = "execute" /\ applied' = [applied EXCEPT ![Leader] = Append(@, c)]
        /\ UNCHANGED <<cpc, request_count, log>>
    BY <1>3, <2>1 DEF handle_request_execute, update_value, clientVars
  <2>3. Len(log) = Len(applied[Leader]) + 1 /\ c = log[Len(log)]
    BY <2>1, <2>2, StateFacts DEF CommitInHand
  <2>4. Len(applied[Leader]) \in Nat
    BY StateFacts, Sizes
  <2>5. Len(applied[Leader]) < Len(log) /\ c = log[Len(applied[Leader]) + 1]
    BY <2>3, <2>4
  <2>. QED  BY <2>2, <2>5, StateFacts, ApplyRefines
<1>4. ASSUME NEW r \in Followers, handle_commit(r)
      PROVE  [Abstract!Next]_(Abstract!vars)
  <2>1. PICK c : c = Command(Head(net[Leader][r]))
    OBVIOUS
  <2>2. /\ Len(applied[r]) < Len(log) /\ c = log[Len(applied[r]) + 1]
        /\ applied' = [applied EXCEPT ![r] = Append(@, c)]
        /\ UNCHANGED <<cpc, request_count, log>>
    BY <1>4, <2>1, CommitFacts
  <2>. QED  BY <2>2, StateFacts, ApplyRefines
<1>5. CASE \/ \E src \in Clients : handle_setup(src)
           \/ handle_setup_send \/ handle_request_send \/ handle_request_respond
           \/ UNCHANGED vars
  BY <1>5, StutterRefines
     DEF handle_setup, handle_setup_send, handle_request_send, handle_request_respond,
         vars, clientVars, replicaVars
<1>. QED  BY <1>1, <1>2, <1>3, <1>4, <1>5
          DEF Next, LeaderReceive, LeaderContinue, Terminated

(***************************************************************************)
(* Broadcast implements the replicated log: one order of the requests,     *)
(* each in it at most once, executed by every replica without gaps, and    *)
(* no answer to a request that has no place in the order.                  *)
(***************************************************************************)
THEOREM Refinement == Spec => ImplementsReplicatedLog
<1>1. Init => Abstract!Init
  BY InitRefines DEF Init
<1>. QED  BY <1>1, StepRefines, InductiveInvariant, PTL
          DEF Spec, ImplementsReplicatedLog, Abstract!Spec

(***************************************************************************)
(* So the broadcast replica orders every request that it answers, once and in the*)
(* order of its client, every replica executes that order, and a request   *)
(* issued after an answer comes after what was answered.                   *)
(***************************************************************************)
THEOREM PromiseKept == Spec => Promise
BY Refinement, LogPromise, PTL DEF ImplementsReplicatedLog
==============================================================================
