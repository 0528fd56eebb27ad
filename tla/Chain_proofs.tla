---------------------------- MODULE Chain_proofs -----------------------------
(***************************************************************************)
(* Theorems about Chain for every length of the chain, set of clients,     *)
(* channel capacity and bound on requests.                                 *)
(***************************************************************************)
EXTENDS Chain, Replica_proofs

Messages == [tag : {"SETUP", "REQ", "COMMIT", "RESP"}, cid : Clients, rid : Nat, idx : Nat]

PCs == {"poll", "setup", "forward", "respond", "execute"}

(* With a command in its hands, a replica is in one of these places. *)
InHand == {"forward", "respond", "execute"}

TypeOK ==
  /\ net \in Channels(Messages)
  /\ ClientType
  /\ HistoryType
  /\ pc \in [Replicas -> PCs]
  /\ msg \in [Replicas -> Messages \cup {NoMsg}]
  /\ \A r \in Replicas :
       /\ pc[r] # "poll" => msg[r] \in Messages
       /\ pc[r] = "setup" => r = Leader
       /\ pc[r] = "respond" => r = Last
       /\ pc[r] = "forward" => r # Last

(* The command in a replica's hands is the one that it executes next. *)
HeldIsNext ==
  \A r \in Replicas :
    /\ pc[r] \in InHand => /\ Len(applied[r]) < Len(log)
                           /\ Command(msg[r]) = log[Len(applied[r]) + 1]
    /\ pc[r] = "forward" => msg[r].tag = "COMMIT"

(* The head has taken up every command of the log. *)
HeadHasAll == Accepted(Leader) = Len(log)

(* Nobody has taken a command that a replica on its left has not passed on. *)
ChainOrder ==
  \A q, r \in Replicas : q < r => Accepted(r) <= Forwarded(q)

(* Followers are sent commits only. *)
OnlyCommits ==
  \A r \in Followers : \A k \in 1 .. Len(net[r - 1][r]) : net[r - 1][r][k].tag = "COMMIT"

(* What holds of the chain, whatever the clients do. *)
ChainInv ==
  HeldIsNext /\ HeadHasAll /\ ChainOrder /\ OnlyCommits /\ LinksHoldLog /\ Agreement

(* The log up to what the tail has answered. *)
Answered(cmd) == \E i \in 1 .. Forwarded(Last) : log[i] = cmd

(* The head's handler is about the setup of client c. *)
InSetup(c) == pc[Leader] = "setup" /\ msg[Leader].cid = c

(***************************************************************************)
(* What the channels of client c hold: at most one message altogether, as  *)
(* long as its request is not in the log.                                  *)
(***************************************************************************)
OneMessage(c) ==
  LET asked   == net[c][Leader]
      welcome == net[Leader][c]
      answer  == net[Last][c]
  IN  /\ asked # << >> =>
           \/ cpc[c] = "joining" /\ asked = <<SetupMessage(c)>> /\ welcome = << >> /\ ~InSetup(c)
           \/ cpc[c] = "waiting" /\ asked = <<RequestMessage(c)>> /\ answer = << >>
      /\ InSetup(c) => cpc[c] = "joining" /\ welcome = << >>
      /\ welcome # << >> => cpc[c] = "joining" /\ Len(welcome) = 1
      /\ answer # << >> => /\ cpc[c] = "waiting" /\ Len(answer) = 1
                           /\ Command(answer[1]) = Current(c) /\ Answered(Current(c))

(***************************************************************************)
(* The requests of c in the log: those of the past, which the tail has     *)
(* answered, and the one c waits for, not in its channel to the head any   *)
(* more, and not in its channel from the tail as long as it is not         *)
(* answered.                                                               *)
(***************************************************************************)
RequestsInLog(c) ==
  /\ \A i \in 1 .. Len(log) : log[i][1] = c =>
       \/ log[i][2] < request_count[c] /\ i <= Forwarded(Last)
       \/ /\ log[i] = Current(c) /\ cpc[c] = "waiting" /\ net[c][Leader] = << >>
          /\ i <= Forwarded(Last) \/ net[Last][c] = << >>
  /\ \A k \in 0 .. request_count[c] - 1 : Answered(<<c, k>>)

ClientsServed == \A c \in Clients : OneMessage(c) /\ RequestsInLog(c)

(* No request has two places in the log. *)
NoRepeats == \A i, j \in 1 .. Len(log) : log[i] = log[j] => i = j

(* The inductive invariant. *)
IInv == TypeOK /\ ChainInv /\ ClientsServed /\ NoRepeats

------------------------------------------------------------------------------
(* Type correctness *)

(* The neighbours in the chain. *)
LEMMA LinkFacts ==
  /\ Last \in Followers /\ Last \in Replicas /\ Last \in Nodes /\ RecvFrom = Last
  /\ Leader \in Replicas /\ Leader \in Nodes /\ Leader # Last
  /\ \A r \in Followers : /\ r \in Replicas /\ r \in Nodes /\ r # Leader
                          /\ r - 1 \in Replicas /\ r - 1 \in Nodes
                          /\ r - 1 # Last /\ r - 1 # r /\ r - 1 < r
  /\ \A r \in Replicas : /\ r \in Nodes
                         /\ r # Leader => r \in Followers
                         /\ r # Last => r + 1 \in Followers /\ (r + 1) - 1 = r
  /\ \A q, r \in Replicas : q < r => r \in Followers /\ (q = r - 1 \/ q < r - 1)
  /\ \A q \in Replicas : q # Last => q < Last
  /\ \A c \in Clients : c \in Nodes /\ c \notin Replicas /\ c # Leader /\ c # Last
BY ReplicasAssumption, ClientsAssumption, AnswersFromTail
   DEF Last, Leader, Replicas, Followers, Nodes

(* A message holds a command, and rewriting its tag leaves a message. *)
LEMMA MessageFacts ==
  ASSUME NEW m \in Messages, NEW t \in {"COMMIT", "RESP"}
  PROVE  /\ m.cid \in Clients /\ Command(m) \in Commands /\ Command(m)[1] = m.cid
         /\ [m EXCEPT !.tag = t] \in Messages
         /\ [m EXCEPT !.tag = t].tag = t
         /\ [m EXCEPT !.tag = t].cid = m.cid
         /\ Command([m EXCEPT !.tag = t]) = Command(m)
BY DEF Messages, Command, Commands

(* The two messages of a client. *)
LEMMA ClientMessages ==
  ASSUME ClientType, NEW c \in Clients
  PROVE  /\ SetupMessage(c) \in Messages /\ RequestMessage(c) \in Messages
         /\ SetupMessage(c).tag = "SETUP" /\ SetupMessage(c).cid = c
         /\ RequestMessage(c).tag = "REQ" /\ RequestMessage(c).cid = c
         /\ Command(RequestMessage(c)) = Current(c)
<1>1. RecvFrom \in Nat /\ request_count[c] \in Nat
  BY ClientNodes, NodeFacts DEF ClientType
<1>. QED  BY <1>1 DEF SetupMessage, RequestMessage, Message, Messages, Command, Current

(* The client's steps keep the types. *)
LEMMA ClientTypes ==
  ASSUME TypeOK, NEW c \in Clients, ClientMoves(c)
  PROVE  TypeOK' /\ ClientEffect(c)
<1>1. net' \in Channels(Messages) /\ ClientType' /\ ClientEffect(c)
  BY ClientStepFacts, ClientMessages DEF TypeOK, ClientMoves
<1>. QED  BY <1>1 DEF ClientMoves, replicaVars, TypeOK, HistoryType

(* The types of a replica that goes on inside its handler, or returns. *)
LEMMA HandlerTypes ==
  ASSUME TypeOK, net' \in Channels(Messages), UNCHANGED <<cpc, request_count>>, HistoryType',
         NEW r \in Replicas,
         \/ Returns(r)
         \/ \E w \in PCs \ {"poll"}, m \in Messages :
              /\ Enters(r, w, m)
              /\ w = "setup" => r = Leader
              /\ w = "respond" => r = Last
              /\ w = "forward" => r # Last
  PROVE  TypeOK'
BY DEF Returns, Enters, TypeOK, PCs, ClientType

(* The head takes a message of a client. *)
LEMMA HeadReceiveTypes ==
  ASSUME TypeOK, NEW src \in Clients, HeadReceive(src)
  PROVE  TypeOK'
<1>1. PICK m : m = Head(net[src][Leader])
  OBVIOUS
<1>2. net' \in Channels(Messages) /\ m \in Messages
  BY <1>1, TakesFacts, LinkFacts DEF HeadReceive, handle_setup, handle_request, TypeOK
<1>3. CASE handle_setup(src)
  <2>1. Enters(Leader, "setup", m) /\ UNCHANGED <<cpc, request_count, log, applied>>
    BY <1>1, <1>3 DEF handle_setup
  <2>2. HistoryType'
    BY <2>1 DEF TypeOK, HistoryType
  <2>. QED  BY <1>2, <2>1, <2>2, LinkFacts, HandlerTypes DEF PCs
<1>4. CASE handle_request(src)
  <2>1. /\ Enters(Leader, "forward", [m EXCEPT !.tag = "COMMIT"])
        /\ log' = Append(log, Command(m)) /\ UNCHANGED <<cpc, request_count, applied>>
    BY <1>1, <1>4 DEF handle_request
  <2>2. [m EXCEPT !.tag = "COMMIT"] \in Messages /\ Command(m) \in Commands
    BY <1>2, MessageFacts
  <2>3. HistoryType'
    BY <2>1, <2>2, AppendProperties DEF TypeOK, HistoryType
  <2>. QED  BY <1>2, <2>1, <2>2, <2>3, LinkFacts, HandlerTypes DEF PCs
<1>. QED  BY <1>3, <1>4 DEF HeadReceive

(* The steps of the handlers that follow the receipt of a message. *)
LEMMA ContinueTypes ==
  ASSUME TypeOK, NEW r \in Replicas,
         \/ r = Leader /\ handle_setup_send
         \/ r = Last /\ handle_commit_respond
         \/ r # Last /\ forward(r)
         \/ execute(r)
  PROVE  TypeOK'
<1>1. CASE r = Leader /\ handle_setup_send
  <2>1. msg[Leader] \in Messages /\ Returns(Leader) /\ UNCHANGED <<cpc, request_count, log, applied>>
    BY <1>1 DEF handle_setup_send, Sends, TypeOK
  <2>2. net' \in Channels(Messages)
    BY <1>1, <2>1, SendsFacts, MessageFacts, LinkFacts DEF handle_setup_send, TypeOK
  <2>3. HistoryType'
    BY <2>1 DEF TypeOK, HistoryType
  <2>. QED  BY <2>1, <2>2, <2>3, HandlerTypes, LinkFacts
<1>2. CASE r = Last /\ handle_commit_respond
  <2>1. /\ msg[r] \in Messages /\ UNCHANGED <<cpc, request_count, msg, log, applied>>
        /\ pc' = [pc EXCEPT ![r] = "execute"]
    BY <1>2 DEF handle_commit_respond, Sends, TypeOK
  <2>2. net' \in Channels(Messages)
    BY <1>2, <2>1, SendsFacts, MessageFacts, LinkFacts DEF handle_commit_respond, TypeOK
  <2>. QED  BY <2>1, <2>2 DEF TypeOK, PCs, ClientType, HistoryType
<1>3. CASE r # Last /\ forward(r)
  <2>1. /\ msg[r] \in Messages /\ UNCHANGED <<cpc, request_count, msg, log, applied>>
        /\ pc' = [pc EXCEPT ![r] = "execute"]
    BY <1>3 DEF forward, Sends, TypeOK
  <2>2. net' \in Channels(Messages)
    BY <1>3, <2>1, SendsFacts, LinkFacts DEF forward, TypeOK
  <2>. QED  BY <2>1, <2>2 DEF TypeOK, PCs, ClientType, HistoryType
<1>4. CASE execute(r)
  <2>1. /\ msg[r] \in Messages /\ UNCHANGED <<clientVars, log>> /\ Returns(r)
        /\ applied' = [applied EXCEPT ![r] = Append(@, Command(msg[r]))]
    BY <1>4 DEF execute, update_value, TypeOK
  <2>2. Append(applied[r], Command(msg[r])) \in Seq(Commands)
    BY <2>1, MessageFacts, AppendProperties DEF TypeOK, HistoryType
  <2>3. HistoryType'
    BY <2>1, <2>2 DEF TypeOK, HistoryType
  <2>4. net' \in Channels(Messages) /\ UNCHANGED <<cpc, request_count>>
    BY <2>1 DEF TypeOK, clientVars
  <2>. QED  BY <2>1, <2>3, <2>4, HandlerTypes
<1>. QED  BY <1>1, <1>2, <1>3, <1>4

(* A replica takes a command of its left neighbour. *)
LEMMA CommitTypes ==
  ASSUME TypeOK, NEW r \in Followers, handle_commit(r)
  PROVE  TypeOK'
<1>1. PICK m : m = Head(net[r - 1][r])
  OBVIOUS
<1>2. r \in Replicas /\ r - 1 \in Nodes
  BY LinkFacts
<1>3. net' \in Channels(Messages) /\ m \in Messages
  BY <1>1, <1>2, TakesFacts DEF handle_commit, TypeOK
<1>4. /\ \/ r # Last /\ Enters(r, "forward", m)
         \/ r = Last /\ Enters(r, "respond", [m EXCEPT !.tag = "RESP"])
      /\ UNCHANGED <<cpc, request_count, log, applied>>
  BY <1>1 DEF handle_commit
<1>5. HistoryType'
  BY <1>4 DEF TypeOK, HistoryType
<1>6. [m EXCEPT !.tag = "RESP"] \in Messages
  BY <1>3, MessageFacts
<1>7. CASE r # Last /\ Enters(r, "forward", m)
  BY <1>2, <1>3, <1>4, <1>5, <1>7, HandlerTypes, LinkFacts DEF PCs
<1>8. CASE r = Last /\ Enters(r, "respond", [m EXCEPT !.tag = "RESP"])
  BY <1>2, <1>3, <1>4, <1>5, <1>6, <1>8, HandlerTypes, LinkFacts DEF PCs
<1>. QED  BY <1>4, <1>7, <1>8

(* The initial values are of the types. *)
LEMMA InitType == Init => TypeOK
<1>. SUFFICES ASSUME Init PROVE TypeOK
  OBVIOUS
<1>1. << >> \in Seq(Messages) /\ << >> \in Seq(Commands)
  BY EmptySeq
<1>2. net \in Channels(Messages)
  BY <1>1 DEF Init, ReplicaInit, ClientInit, EmptyNet, Channels
<1>. QED  BY <1>1, <1>2
          DEF Init, ReplicaInit, ClientInit, TypeOK, ClientType, ClientPCs, HistoryType, PCs

(* Every step of clients and replicas keeps the types. *)
LEMMA TypeStep == TypeOK /\ [Next]_vars => TypeOK'
<1>. SUFFICES ASSUME TypeOK, [Next]_vars PROVE TypeOK'
  OBVIOUS
<1>1. CASE UNCHANGED vars
  BY <1>1 DEF vars, clientVars, replicaVars, TypeOK, ClientType, HistoryType
<1>2. CASE HeadContinue
  BY <1>2, ContinueTypes, LinkFacts DEF HeadContinue
<1>3. ASSUME NEW r \in Followers, FollowerStep(r)
      PROVE  TypeOK'
  BY <1>3, ContinueTypes, CommitTypes, LinkFacts DEF FollowerStep
<1>. QED  BY <1>1, <1>2, <1>3, ClientTypes, HeadReceiveTypes DEF Next, Terminated

------------------------------------------------------------------------------
(* Commands on their way down the chain *)

(* The counts of a replica, by its place in its handler. *)
LEMMA CountFacts ==
  ASSUME TypeOK, NEW r \in Replicas
  PROVE  /\ Len(applied[r]) \in Nat /\ Forwarded(r) \in Nat /\ Accepted(r) \in Nat
         /\ Forwarded(r) <= Accepted(r)
         /\ pc[r] \in {"poll", "setup"} => /\ Forwarded(r) = Len(applied[r])
                                          /\ Accepted(r) = Len(applied[r])
         /\ pc[r] \in {"forward", "respond"} => /\ Forwarded(r) = Len(applied[r])
                                               /\ Accepted(r) = Len(applied[r]) + 1
         /\ pc[r] = "execute" => /\ Forwarded(r) = Len(applied[r]) + 1
                                 /\ Accepted(r) = Len(applied[r]) + 1
<1>1. Len(applied[r]) \in Nat
  BY LenProperties DEF TypeOK, HistoryType
<1>2. CASE pc[r] = "execute"
  <2>1. Forwarded(r) = Len(applied[r]) + 1 /\ Accepted(r) = Len(applied[r]) + 1
    BY <1>2 DEF Forwarded, Accepted
  <2>. QED  BY <1>1, <1>2, <2>1
<1>3. CASE pc[r] \in {"forward", "respond"}
  <2>1. Forwarded(r) = Len(applied[r]) + 0 /\ Accepted(r) = Len(applied[r]) + 1
    BY <1>3 DEF Forwarded, Accepted
  <2>2. Forwarded(r) = Len(applied[r])
    BY <1>1, <2>1
  <2>. QED  BY <1>1, <1>3, <2>1, <2>2
<1>4. CASE pc[r] \notin InHand
  <2>1. Forwarded(r) = Len(applied[r]) + 0 /\ Accepted(r) = Len(applied[r]) + 0
    BY <1>4 DEF Forwarded, Accepted, InHand
  <2>2. Forwarded(r) = Len(applied[r]) /\ Accepted(r) = Len(applied[r])
    BY <1>1, <2>1
  <2>. QED  BY <1>1, <1>4, <2>2 DEF InHand
<1>. QED  BY <1>2, <1>3, <1>4 DEF InHand

(* The link from r's left neighbour. *)
Link(r) ==
  /\ Accepted(r) + Len(net[r - 1][r]) = Forwarded(r - 1)
  /\ \A k \in 1 .. Len(net[r - 1][r]) : net[r - 1][r][k].tag = "COMMIT"
  /\ InOrder(net[r - 1][r], Accepted(r), log)

(* LinksHoldLog and OnlyCommits, link by link. *)
LEMMA LinkParts ==
  ASSUME ChainInv, NEW r \in Followers
  PROVE  Link(r)
<1>1. /\ Accepted(r) + Len(net[r - 1][r]) = Forwarded(r - 1)
      /\ \A k \in 1 .. Len(net[r - 1][r]) : Command(net[r - 1][r][k]) = log[Accepted(r) + k]
  BY Zenon DEF ChainInv, LinksHoldLog
<1>2. \A k \in 1 .. Len(net[r - 1][r]) : net[r - 1][r][k].tag = "COMMIT"
  BY Zenon DEF ChainInv, OnlyCommits
<1>. QED  BY <1>1, <1>2, Zenon DEF Link, InOrder

(* The same for the next state, the other way round. *)
LEMMA LinksMade ==
  ASSUME \A r \in Followers : Link(r)'
  PROVE  LinksHoldLog' /\ OnlyCommits'
BY Zenon DEF LinksHoldLog, OnlyCommits, Link, InOrder

(* A step that neither passes a command on nor executes one. *)
LEMMA ChainFrame ==
  ASSUME ChainInv, log' = log, applied' = applied,
         \A r \in Followers : net'[r - 1][r] = net[r - 1][r],
         \A r \in Replicas : r # Last => Forwarded(r)' = Forwarded(r),
         \A r \in Replicas :
           /\ Accepted(r)' = Accepted(r)
           /\ pc'[r] \in InHand => pc[r] \in InHand /\ Command(msg'[r]) = Command(msg[r])
           /\ pc'[r] = "forward" => pc[r] = "forward" /\ msg'[r].tag = msg[r].tag
  PROVE  ChainInv'
<1>1. HeldIsNext'
  BY DEF ChainInv, HeldIsNext
<1>2. HeadHasAll'
  BY LinkFacts DEF ChainInv, HeadHasAll
<1>3. ChainOrder'
  <2>. SUFFICES ASSUME NEW q \in Replicas, NEW r \in Replicas, q < r
                PROVE  Accepted(r)' <= Forwarded(q)'
    BY DEF ChainOrder
  <2>1. r \in Followers /\ q # Last
    BY LinkFacts, FollowerNumbers DEF Last
  <2>2. Accepted(r) <= Forwarded(q)
    BY DEF ChainInv, ChainOrder
  <2>3. Accepted(r)' = Accepted(r) /\ Forwarded(q)' = Forwarded(q)
    BY <2>1
  <2>. QED  BY <2>2, <2>3
<1>4. OnlyCommits' /\ LinksHoldLog'
  <2>1. ASSUME NEW r \in Followers
        PROVE  Link(r)'
    <3>1. r \in Replicas /\ r - 1 \in Replicas /\ r - 1 # Last
      BY LinkFacts
    <3>2. /\ Accepted(r)' = Accepted(r) /\ Forwarded(r - 1)' = Forwarded(r - 1)
          /\ net'[r - 1][r] = net[r - 1][r]
      BY <3>1
    <3>3. Link(r)
      BY LinkParts
    <3>. QED  BY <3>2, <3>3 DEF Link
  <2>. QED  BY <2>1, LinksMade
<1>5. Agreement'
  BY DEF ChainInv, Agreement
<1>. QED  BY <1>1, <1>2, <1>3, <1>4, <1>5 DEF ChainInv

(* Nobody has taken more than there is. *)
LEMMA LogBound ==
  ASSUME TypeOK, ChainInv, NEW r \in Replicas
  PROVE  Accepted(r) <= Len(log) /\ Forwarded(r) <= Len(log) /\ Len(log) \in Nat
<1>1. Len(log) \in Nat /\ Leader \in Replicas /\ r \in Nat
  BY NodeFacts, LenProperties DEF TypeOK, HistoryType
<1>2. Accepted(Leader) = Len(log)
  BY DEF ChainInv, HeadHasAll
<1>3. /\ Forwarded(r) \in Nat /\ Accepted(r) \in Nat /\ Forwarded(r) <= Accepted(r)
      /\ Forwarded(Leader) \in Nat /\ Forwarded(Leader) <= Accepted(Leader)
  BY <1>1, CountFacts
<1>4. CASE r = Leader
  BY <1>1, <1>2, <1>3, <1>4
<1>5. CASE r # Leader
  <2>1. Leader < r
    BY <1>1, <1>5 DEF Leader
  <2>2. Accepted(r) <= Forwarded(Leader)
    BY <1>1, <2>1 DEF ChainInv, ChainOrder
  <2>. QED  BY <1>1, <1>2, <1>3, <2>2
<1>. QED  BY <1>4, <1>5

(* A replica passes a command on. *)
LEMMA ForwardChain ==
  ASSUME TypeOK, TypeOK', ChainInv, NEW r \in Replicas, r # Last, forward(r)
  PROVE  ChainInv'
<1>1. PICK m, f : m = msg[r] /\ f = r + 1
  OBVIOUS
<1>2. /\ Sends(r, "forward", f) /\ pc' = [pc EXCEPT ![r] = "execute"]
      /\ UNCHANGED <<cpc, request_count, msg, log, applied>>
  BY <1>1 DEF forward
<1>3. f \in Followers /\ f \in Nodes /\ f \in Replicas /\ f - 1 = r /\ r \in Nodes
  BY <1>1, LinkFacts
<1>4. pc[r] = "forward" /\ m \in Messages /\ m.tag = "COMMIT" /\ Command(m) = log[Len(applied[r]) + 1]
  BY <1>1, <1>2 DEF Sends, TypeOK, ChainInv, HeldIsNext, InHand
<1>5. /\ net'[r][f] = Append(net[r][f], m)
      /\ \A x, y \in Nodes : x # r \/ y # f => net'[x][y] = net[x][y]
  BY <1>1, <1>2, <1>3, <1>4, SendsFacts DEF TypeOK
<1>6. pc'[r] = "execute" /\ \A q \in Replicas : q # r => pc'[q] = pc[q]
  BY <1>2 DEF TypeOK
<1>7. /\ Forwarded(r) = Len(applied[r]) /\ Forwarded(r)' = Forwarded(r) + 1
      /\ Accepted(r)' = Accepted(r)
  BY <1>2, <1>4, <1>6, CountFacts DEF Forwarded, Accepted
<1>8. ASSUME NEW q \in Replicas, q # r
      PROVE  Forwarded(q)' = Forwarded(q) /\ Accepted(q)' = Accepted(q)
  BY <1>2, <1>6, <1>8 DEF Forwarded, Accepted
<1>9. HeldIsNext'
  BY <1>2, <1>4, <1>6 DEF ChainInv, HeldIsNext, InHand
<1>10. HeadHasAll'
  BY <1>2, <1>7, <1>8, LinkFacts DEF ChainInv, HeadHasAll
<1>11. ChainOrder'
  <2>. SUFFICES ASSUME NEW q \in Replicas, NEW g \in Replicas, q < g
                PROVE  Accepted(g)' <= Forwarded(q)'
    BY DEF ChainOrder
  <2>1. Accepted(g) <= Forwarded(q) /\ Accepted(g) \in Nat /\ Forwarded(q) \in Nat
    BY CountFacts DEF ChainInv, ChainOrder
  <2>2. Accepted(g)' = Accepted(g)
    BY <1>7, <1>8
  <2>3. Forwarded(q)' = Forwarded(q) \/ Forwarded(q)' = Forwarded(q) + 1
    BY <1>7, <1>8
  <2>. QED  BY <2>1, <2>2, <2>3
<1>12. ASSUME NEW g \in Followers
       PROVE  Link(g)'
  <2>1. Link(g) /\ g \in Replicas /\ g - 1 \in Replicas /\ g \in Nodes /\ g - 1 \in Nodes
    BY LinkParts, LinkFacts
  <2>2. Accepted(g)' = Accepted(g)
    BY <1>7, <1>8, <2>1
  <2>3. CASE g # f
    <3>1. g - 1 # r
      BY <1>1, <2>1, <2>3, FollowerNumbers, NodeFacts
    <3>2. Forwarded(g - 1)' = Forwarded(g - 1) /\ net'[g - 1][g] = net[g - 1][g]
      BY <1>5, <1>8, <2>1, <3>1
    <3>. QED  BY <1>2, <2>1, <2>2, <3>2 DEF Link
  <2>4. CASE g = f
    <3>1. PICK s, a, lg : s = net[r][f] /\ a = Accepted(f) /\ lg = log
      OBVIOUS
    <3>2. s \in Seq(Messages) /\ Len(s) \in Nat /\ a \in Nat
      BY <1>3, <3>1, CountFacts, LenProperties DEF TypeOK, Channels
    <3>3. a + Len(s) = Forwarded(r) /\ InOrder(s, a, lg)
      BY <1>3, <2>1, <2>4, <3>1 DEF Link
    <3>4. \A k \in 1 .. Len(s) : s[k].tag = "COMMIT"
      BY <1>3, <2>1, <2>4, <3>1 DEF Link
    <3>5. Command(m) = lg[a + Len(s) + 1]
      BY <1>4, <1>7, <3>1, <3>3
    <3>6. InOrder(Append(s, m), a, lg)
      BY <1>4, <3>2, <3>3, <3>5, InOrderAppend
    <3>7. /\ Len(Append(s, m)) = Len(s) + 1
          /\ \A k \in 1 .. Len(Append(s, m)) : Append(s, m)[k].tag = "COMMIT"
      BY <1>4, <3>2, <3>4, AppendProperties
    <3>8. a + Len(Append(s, m)) = Forwarded(r) + 1
      <4>1. a + (Len(s) + 1) = (a + Len(s)) + 1
        BY <3>2
      <4>. QED  BY <3>3, <3>7, <4>1
    <3>9. /\ net'[g - 1][g] = Append(s, m) /\ Accepted(g)' = a /\ log' = lg
          /\ Forwarded(g - 1)' = Forwarded(r) + 1
      BY <1>2, <1>3, <1>5, <1>7, <2>2, <2>4, <3>1
    <3>. QED  BY <3>6, <3>7, <3>8, <3>9 DEF Link
  <2>. QED  BY <2>3, <2>4
<1>13. OnlyCommits' /\ LinksHoldLog'
  BY <1>12, LinksMade
<1>14. Agreement'
  BY <1>2 DEF ChainInv, Agreement
<1>. QED  BY <1>9, <1>10, <1>11, <1>13, <1>14 DEF ChainInv

(* A replica executes the command in its hands. *)
LEMMA ExecuteChain ==
  ASSUME TypeOK, TypeOK', ChainInv, NEW r \in Replicas, execute(r)
  PROVE  /\ ChainInv'
         /\ \A q \in Replicas : Forwarded(q)' = Forwarded(q)
<1>1. PICK c : c = Command(msg[r])
  OBVIOUS
<1>2. /\ pc[r] = "execute" /\ pc' = [pc EXCEPT ![r] = "poll"] /\ msg' = [msg EXCEPT ![r] = NoMsg]
      /\ applied' = [applied EXCEPT ![r] = Append(@, c)]
      /\ UNCHANGED <<net, cpc, request_count, log>>
  BY <1>1 DEF execute, update_value, Returns, clientVars
<1>3. c \in Commands /\ Len(applied[r]) < Len(log) /\ c = log[Len(applied[r]) + 1]
  BY <1>1, <1>2, MessageFacts DEF TypeOK, ChainInv, HeldIsNext, InHand
<1>4. /\ Len(applied[r]) \in Nat /\ Len(applied'[r]) = Len(applied[r]) + 1
      /\ \A q \in Replicas : q # r => applied'[q] = applied[q]
  BY <1>2, <1>3, AppliedAppend DEF TypeOK
<1>5. /\ pc'[r] = "poll"
      /\ \A q \in Replicas : q # r => pc'[q] = pc[q] /\ msg'[q] = msg[q]
  BY <1>2 DEF TypeOK
<1>6. Forwarded(r)' = Forwarded(r) /\ Accepted(r)' = Accepted(r)
  <2>1. Forwarded(r) = Len(applied[r]) + 1 /\ Accepted(r) = Len(applied[r]) + 1
    BY <1>2 DEF Forwarded, Accepted
  <2>2. Forwarded(r)' = Len(applied'[r]) + 0 /\ Accepted(r)' = Len(applied'[r]) + 0
    BY <1>5 DEF Forwarded, Accepted
  <2>. QED  BY <1>4, <2>1, <2>2
<1>7. ASSUME NEW q \in Replicas
      PROVE  Forwarded(q)' = Forwarded(q) /\ Accepted(q)' = Accepted(q)
  BY <1>4, <1>5, <1>6 DEF Forwarded, Accepted
<1>8. HeldIsNext'
  BY <1>2, <1>4, <1>5 DEF ChainInv, HeldIsNext, InHand
<1>9. HeadHasAll' /\ ChainOrder'
  BY <1>2, <1>7, LinkFacts DEF ChainInv, HeadHasAll, ChainOrder
<1>10. ASSUME NEW g \in Followers
       PROVE  Link(g)'
  BY <1>2, <1>7, LinkParts, LinkFacts DEF Link
<1>11. OnlyCommits' /\ LinksHoldLog'
  BY <1>10, LinksMade
<1>12. Agreement'
  BY <1>2, <1>3, AgreementApplied DEF TypeOK, ChainInv
<1>. QED  BY <1>7, <1>8, <1>9, <1>11, <1>12 DEF ChainInv

(* A replica takes a command of its left neighbour. *)
LEMMA TakeChain ==
  ASSUME TypeOK, TypeOK', ChainInv, NEW r \in Followers, handle_commit(r)
  PROVE  /\ ChainInv'
         /\ \A q \in Replicas : Forwarded(q)' = Forwarded(q)
         /\ \A x, y \in Nodes : x # r - 1 \/ y # r => net'[x][y] = net[x][y]
<1>1. PICK s, a, lg : s = net[r - 1][r] /\ a = Accepted(r) /\ lg = log
  OBVIOUS
<1>2. /\ r \in Replicas /\ r \in Nodes /\ r - 1 \in Replicas /\ r - 1 \in Nodes
      /\ r - 1 # r /\ r # Leader
  BY LinkFacts
<1>3. /\ Takes(r, r - 1, "COMMIT") /\ UNCHANGED <<cpc, request_count, log, applied>>
      /\ \/ r # Last /\ Enters(r, "forward", Head(s))
         \/ r = Last /\ Enters(r, "respond", [Head(s) EXCEPT !.tag = "RESP"])
  BY <1>1 DEF handle_commit
<1>4. /\ pc[r] = "poll" /\ s # << >> /\ Head(s) \in Messages /\ Head(s).tag = "COMMIT"
      /\ net'[r - 1][r] = Tail(s)
      /\ \A x, y \in Nodes : x # r - 1 \/ y # r => net'[x][y] = net[x][y]
  BY <1>1, <1>2, <1>3, TakesFacts DEF TypeOK
<1>5. s \in Seq(Messages) /\ Len(s) \in Nat /\ a \in Nat
  BY <1>1, <1>2, CountFacts, LenProperties DEF TypeOK, Channels
<1>6. Link(r)
  BY LinkParts
<1>7. a + Len(s) = Forwarded(r - 1) /\ InOrder(s, a, lg)
  BY <1>1, <1>6 DEF Link
<1>8. \A k \in 1 .. Len(s) : s[k].tag = "COMMIT"
  BY <1>1, <1>6 DEF Link
<1>9. /\ Len(s) > 0 /\ Len(Tail(s)) = Len(s) - 1
      /\ Command(Head(s)) = lg[a + 1] /\ InOrder(Tail(s), a + 1, lg)
  BY <1>4, <1>5, <1>7, InOrderTail
<1>10. \A k \in 1 .. Len(Tail(s)) : Tail(s)[k].tag = "COMMIT"
  BY <1>4, <1>5, <1>8, HeadTailProperties
<1>11. /\ pc'[r] = IF r = Last THEN "respond" ELSE "forward"
       /\ Command(msg'[r]) = Command(Head(s))
       /\ r # Last => msg'[r].tag = "COMMIT"
       /\ \A q \in Replicas : q # r => pc'[q] = pc[q] /\ msg'[q] = msg[q]
  <2>1. /\ pc \in [Replicas -> PCs] /\ msg \in [Replicas -> Messages \cup {NoMsg}]
    BY DEF TypeOK
  <2>2. Command([Head(s) EXCEPT !.tag = "RESP"]) = Command(Head(s))
    BY <1>4, MessageFacts
  <2>3. CASE r # Last /\ Enters(r, "forward", Head(s))
    BY ONLY <1>2, <1>4, <2>1, <2>3 DEF Enters
  <2>4. CASE r = Last /\ Enters(r, "respond", [Head(s) EXCEPT !.tag = "RESP"])
    BY ONLY <1>2, <2>1, <2>2, <2>4 DEF Enters
  <2>. QED  BY <1>3, <2>3, <2>4
<1>12. Forwarded(r)' = Forwarded(r)
  BY <1>3, <1>4, <1>11 DEF Forwarded
<1>13. a = Len(applied[r]) /\ Accepted(r)' = a + 1
  <2>1. a = Len(applied[r])
    BY <1>1, <1>2, <1>4, CountFacts
  <2>2. Accepted(r)' = Len(applied'[r]) + 1
    BY <1>11 DEF Accepted
  <2>. QED  BY <1>3, <2>1, <2>2
<1>14. ASSUME NEW q \in Replicas, q # r
       PROVE  Forwarded(q)' = Forwarded(q) /\ Accepted(q)' = Accepted(q)
  BY <1>3, <1>11, <1>14 DEF Forwarded, Accepted
<1>15. a + 1 <= Forwarded(r - 1) /\ Forwarded(r - 1) \in Nat
  <2>1. Forwarded(r - 1) \in Nat
    BY <1>2, CountFacts
  <2>. QED  BY <1>5, <1>7, <1>9, <2>1
<1>16. HeldIsNext'
  <2>1. a < Len(log) /\ Command(msg'[r]) = log[a + 1]
    <3>1. Forwarded(r - 1) <= Len(log) /\ Len(log) \in Nat
      BY <1>2, LogBound
    <3>2. a < Len(log)
      BY <1>5, <1>15, <3>1
    <3>3. Command(msg'[r]) = log[a + 1]
      <4>1. Command(msg'[r]) = Command(Head(s))
        BY <1>11
      <4>2. Command(Head(s)) = log[a + 1]
        BY <1>1, <1>9
      <4>. QED  BY <4>1, <4>2
    <3>. QED  BY <3>2, <3>3
  <2>2. Len(applied'[r]) = a /\ log' = log
    BY <1>3, <1>13
  <2>4. pc'[r] = "forward" => msg'[r].tag = "COMMIT"
    BY <1>11
  <2>3. ASSUME NEW q \in Replicas, q # r
        PROVE  pc'[q] = pc[q] /\ msg'[q] = msg[q] /\ applied'[q] = applied[q]
    BY <1>3, <1>11, <2>3
  <2>. QED  BY <2>1, <2>2, <2>3, <2>4 DEF ChainInv, HeldIsNext
<1>17. HeadHasAll'
  BY <1>2, <1>3, <1>14, LinkFacts DEF ChainInv, HeadHasAll
<1>18. ChainOrder'
  <2>. SUFFICES ASSUME NEW q \in Replicas, NEW g \in Replicas, q < g
                PROVE  Accepted(g)' <= Forwarded(q)'
    BY DEF ChainOrder
  <2>1. Accepted(g) <= Forwarded(q) /\ Forwarded(q)' = Forwarded(q)
    BY <1>12, <1>14 DEF ChainInv, ChainOrder
  <2>2. CASE g # r
    BY <1>14, <2>1, <2>2
  <2>3. CASE g = r /\ q = r - 1
    BY <1>13, <1>15, <2>1, <2>3
  <2>4. CASE g = r /\ q < r - 1
    <3>1. Accepted(r - 1) <= Forwarded(q)
      BY <1>2, <2>4 DEF ChainInv, ChainOrder
    <3>2. /\ Forwarded(r - 1) <= Accepted(r - 1) /\ Accepted(r - 1) \in Nat
          /\ Forwarded(q) \in Nat
      BY <1>2, CountFacts
    <3>3. a + 1 <= Forwarded(q)
      BY <1>5, <1>15, <3>1, <3>2
    <3>. QED  BY <1>13, <2>1, <2>4, <3>3
  <2>. QED  BY <2>2, <2>3, <2>4, LinkFacts
<1>19. ASSUME NEW g \in Followers
       PROVE  Link(g)'
  <2>1. Link(g) /\ g \in Replicas /\ g - 1 \in Replicas /\ g \in Nodes /\ g - 1 \in Nodes
    BY LinkParts, LinkFacts
  <2>2. Forwarded(g - 1)' = Forwarded(g - 1)
    BY <1>12, <1>14, <2>1
  <2>3. CASE g # r
    <3>1. net'[g - 1][g] = net[g - 1][g] /\ Accepted(g)' = Accepted(g)
      BY <1>4, <1>14, <2>1, <2>3
    <3>. QED  BY <1>3, <2>1, <2>2, <3>1 DEF Link
  <2>4. CASE g = r
    <3>1. (a + 1) + Len(Tail(s)) = Forwarded(r - 1)
      <4>1. (a + 1) + (Len(s) - 1) = a + Len(s)
        BY <1>5
      <4>. QED  BY <1>7, <1>9, <4>1
    <3>2. /\ net'[g - 1][g] = Tail(s) /\ Accepted(g)' = a + 1 /\ log' = lg
          /\ Forwarded(g - 1)' = Forwarded(r - 1)
      BY <1>1, <1>3, <1>4, <1>13, <2>2, <2>4
    <3>. QED  BY <1>9, <1>10, <3>1, <3>2 DEF Link
  <2>. QED  BY <2>3, <2>4
<1>20. OnlyCommits' /\ LinksHoldLog'
  BY <1>19, LinksMade
<1>21. Agreement'
  BY <1>3 DEF ChainInv, Agreement
<1>. QED  BY <1>4, <1>12, <1>14, <1>16, <1>17, <1>18, <1>20, <1>21 DEF ChainInv

(* The head takes up a request. *)
LEMMA RequestChain ==
  ASSUME TypeOK, TypeOK', ChainInv, NEW src \in Clients, handle_request(src)
  PROVE  /\ ChainInv'
         /\ \A q \in Replicas : Forwarded(q)' = Forwarded(q)
         /\ Len(log) \in Nat /\ Len(log') = Len(log) + 1
         /\ log'[Len(log) + 1] = Command(Head(net[src][Leader]))
         /\ \A i \in 1 .. Len(log) : log'[i] = log[i]
<1>1. PICK m : m = Head(net[src][Leader])
  OBVIOUS
<1>2. /\ Takes(Leader, src, "REQ") /\ UNCHANGED <<cpc, request_count, applied>>
      /\ Enters(Leader, "forward", [m EXCEPT !.tag = "COMMIT"])
      /\ log' = Append(log, Command(m))
  BY <1>1 DEF handle_request
<1>3. /\ pc[Leader] = "poll" /\ m \in Messages
      /\ \A x, y \in Nodes : x # src \/ y # Leader => net'[x][y] = net[x][y]
  BY <1>1, <1>2, TakesFacts, LinkFacts DEF TypeOK
<1>4. Command(m) \in Commands
  BY <1>3, MessageFacts
<1>5. /\ Len(log) \in Nat /\ Len(log') = Len(log) + 1 /\ log'[Len(log) + 1] = Command(m)
      /\ \A i \in 1 .. Len(log) : log'[i] = log[i]
  BY <1>2, <1>4, LogAppend DEF TypeOK
<1>6. /\ pc'[Leader] = "forward" /\ msg'[Leader].tag = "COMMIT"
      /\ Command(msg'[Leader]) = Command(m)
      /\ \A q \in Replicas : q # Leader => pc'[q] = pc[q] /\ msg'[q] = msg[q]
  <2>1. [m EXCEPT !.tag = "COMMIT"].tag = "COMMIT" /\ Command([m EXCEPT !.tag = "COMMIT"]) = Command(m)
    BY <1>3, MessageFacts
  <2>. QED  BY <1>2, <2>1, LinkFacts DEF Enters, TypeOK
<1>7. /\ Len(applied[Leader]) = Len(log) /\ Accepted(Leader) = Len(applied[Leader])
  BY <1>3, CountFacts, LinkFacts DEF ChainInv, HeadHasAll
<1>8. Accepted(Leader)' = Len(log')
  <2>1. Accepted(Leader)' = Len(applied[Leader]) + 1
    BY <1>2, <1>6 DEF Accepted
  <2>. QED  BY <1>5, <1>7, <2>1
<1>9. ASSUME NEW q \in Replicas
      PROVE  /\ Forwarded(q)' = Forwarded(q)
             /\ q # Leader => Accepted(q)' = Accepted(q)
  BY <1>2, <1>3, <1>6 DEF Forwarded, Accepted
<1>10. HeldIsNext'
  <2>. SUFFICES ASSUME NEW q \in Replicas
                PROVE  /\ pc'[q] \in InHand => /\ Len(applied'[q]) < Len(log')
                                               /\ Command(msg'[q]) = log'[Len(applied'[q]) + 1]
                       /\ pc'[q] = "forward" => msg'[q].tag = "COMMIT"
    BY DEF HeldIsNext
  <2>1. CASE q = Leader
    BY <1>2, <1>5, <1>6, <1>7, <2>1
  <2>2. CASE q # Leader
    <3>1. /\ pc'[q] = pc[q] /\ msg'[q] = msg[q] /\ applied'[q] = applied[q]
          /\ Len(applied[q]) \in Nat
      BY <1>2, <1>6, <2>2, CountFacts
    <3>2. /\ pc[q] \in InHand => /\ Len(applied[q]) < Len(log)
                                 /\ Command(msg[q]) = log[Len(applied[q]) + 1]
          /\ pc[q] = "forward" => msg[q].tag = "COMMIT"
      BY DEF ChainInv, HeldIsNext
    <3>. QED  BY <1>5, <3>1, <3>2
  <2>. QED  BY <2>1, <2>2
<1>11. HeadHasAll'
  BY <1>8 DEF HeadHasAll
<1>12. ChainOrder'
  <2>. SUFFICES ASSUME NEW q \in Replicas, NEW g \in Replicas, q < g
                PROVE  Accepted(g)' <= Forwarded(q)'
    BY DEF ChainOrder
  <2>1. g # Leader
    BY LinkFacts
  <2>. QED  BY <1>9, <2>1 DEF ChainInv, ChainOrder
<1>13. ASSUME NEW g \in Followers
       PROVE  Link(g)'
  <2>1. /\ Link(g) /\ g \in Replicas /\ g - 1 \in Replicas /\ g \in Nodes /\ g - 1 \in Nodes
        /\ g # Leader /\ g # src
    BY LinkParts, LinkFacts
  <2>2. /\ net'[g - 1][g] = net[g - 1][g] /\ Accepted(g)' = Accepted(g)
        /\ Forwarded(g - 1)' = Forwarded(g - 1)
    BY <1>3, <1>9, <2>1
  <2>3. PICK s, a, lg : s = net[g - 1][g] /\ a = Accepted(g) /\ lg = log
    OBVIOUS
  <2>4. s \in Seq(Messages) /\ a \in Nat /\ lg \in Seq(Commands)
    BY <2>1, <2>3, CountFacts DEF TypeOK, Channels, HistoryType
  <2>5. a + Len(s) <= Len(lg)
    BY <2>1, <2>3, LogBound DEF Link
  <2>6. InOrder(s, a, lg)
    BY <2>1, <2>3 DEF Link
  <2>7. InOrder(s, a, Append(lg, Command(m)))
    BY <1>4, <2>4, <2>5, <2>6, InOrderLog
  <2>. QED  BY <1>2, <2>1, <2>2, <2>3, <2>7 DEF Link
<1>14. OnlyCommits' /\ LinksHoldLog'
  BY <1>13, LinksMade
<1>15. Agreement'
  BY <1>2, <1>4, AgreementOrdered DEF TypeOK, ChainInv
<1>. QED  BY <1>1, <1>5, <1>9, <1>10, <1>11, <1>12, <1>14, <1>15 DEF ChainInv

------------------------------------------------------------------------------
(* Requests and answers *)

(* Facts about the state that most steps need. *)
LEMMA StateFacts ==
  ASSUME IInv
  PROVE  /\ TypeOK /\ ChainInv /\ NoRepeats
         /\ net \in Channels(Messages) /\ ClientType /\ HistoryType
         /\ \A c \in Clients : OneMessage(c) /\ RequestsInLog(c)
         /\ \A x, y \in Nodes : net[x][y] \in Seq(Messages)
         /\ Len(log) \in Nat /\ Forwarded(Last) \in Nat /\ Forwarded(Last) <= Len(log)
<1>1. TypeOK /\ ChainInv /\ NoRepeats /\ \A c \in Clients : OneMessage(c) /\ RequestsInLog(c)
  BY DEF IInv, ClientsServed
<1>2. net \in Channels(Messages) /\ ClientType /\ HistoryType
  BY <1>1 DEF TypeOK
<1>3. \A x, y \in Nodes : net[x][y] \in Seq(Messages)
  BY <1>2 DEF Channels
<1>4. Len(log) \in Nat /\ Forwarded(Last) \in Nat /\ Forwarded(Last) <= Len(log)
  BY <1>1, LogBound, LinkFacts, CountFacts
<1>. QED  BY <1>1, <1>2, <1>3, <1>4

(* Once answered, always answered. *)
LEMMA AnsweredStays ==
  ASSUME NEW b \in Nat, NEW e \in Nat, b <= e, b = Forwarded(Last), e = Forwarded(Last)',
         b <= Len(log), Len(log) \in Nat, \A i \in 1 .. Len(log) : log'[i] = log[i],
         NEW cmd, Answered(cmd)
  PROVE  Answered(cmd)'
<1>1. PICK i : i \in 1 .. Forwarded(Last) /\ log[i] = cmd
  BY DEF Answered
<1>2. i \in 1 .. b
  BY <1>1
<1>3. i \in 1 .. e /\ i \in 1 .. Len(log)
  BY <1>2
<1>. QED  BY <1>1, <1>3 DEF Answered

(* A step that has nothing to do with client c. *)
LEMMA ServedFrame ==
  ASSUME NEW c \in Clients, OneMessage(c), RequestsInLog(c),
         cpc'[c] = cpc[c], request_count'[c] = request_count[c],
         net'[c][Leader] = net[c][Leader], net'[Leader][c] = net[Leader][c],
         net'[Last][c] = net[Last][c],
         InSetup(c)' <=> InSetup(c),
         \A cmd : Answered(cmd) => Answered(cmd)',
         \A i \in 1 .. Len(log') : log'[i][1] = c => i \in 1 .. Len(log) /\ log'[i] = log[i],
         NEW b \in Nat, NEW e \in Nat, b <= e, b = Forwarded(Last), e = Forwarded(Last)'
  PROVE  OneMessage(c)' /\ RequestsInLog(c)'
<1>1. RequestMessage(c)' = RequestMessage(c) /\ Current(c)' = Current(c)
  BY DEF RequestMessage, Current
<1>2. OneMessage(c)'
  BY <1>1 DEF OneMessage
<1>3. ASSUME NEW i \in 1 .. Len(log'), log'[i][1] = c
      PROVE  \/ log'[i][2] < request_count'[c] /\ i <= Forwarded(Last)'
             \/ /\ log'[i] = Current(c)' /\ cpc'[c] = "waiting" /\ net'[c][Leader] = << >>
                /\ i <= Forwarded(Last)' \/ net'[Last][c] = << >>
  <2>1. i \in 1 .. Len(log) /\ log'[i] = log[i]
    BY <1>3
  <2>2. i <= b => i <= e
    BY <2>1
  <2>3. \/ log[i][2] < request_count[c] /\ i <= b
        \/ /\ log[i] = Current(c) /\ cpc[c] = "waiting" /\ net[c][Leader] = << >>
           /\ i <= b \/ net[Last][c] = << >>
    BY <1>3, <2>1 DEF RequestsInLog
  <2>. QED  BY <1>1, <2>1, <2>2, <2>3
<1>4. \A k \in 0 .. request_count'[c] - 1 : Answered(<<c, k>>)'
  BY DEF RequestsInLog
<1>5. RequestsInLog(c)'
  BY <1>3, <1>4, Zenon DEF RequestsInLog
<1>. QED  BY <1>2, <1>5

(* A step that changes neither the log nor what the tail has answered. *)
LEMMA QuietFrame ==
  ASSUME IInv, NEW c \in Clients,
         cpc'[c] = cpc[c], request_count'[c] = request_count[c], log' = log,
         net'[c][Leader] = net[c][Leader], net'[Leader][c] = net[Leader][c],
         net'[Last][c] = net[Last][c],
         InSetup(c)' <=> InSetup(c), Forwarded(Last)' = Forwarded(Last)
  PROVE  OneMessage(c)' /\ RequestsInLog(c)'
<1>1. PICK b : b = Forwarded(Last)
  OBVIOUS
<1>2. b \in Nat /\ b <= Len(log) /\ Len(log) \in Nat /\ OneMessage(c) /\ RequestsInLog(c)
  BY <1>1, StateFacts
<1>3. \A cmd : Answered(cmd) => Answered(cmd)'
  BY DEF Answered
<1>4. \A i \in 1 .. Len(log') : i \in 1 .. Len(log) /\ log'[i] = log[i]
  OBVIOUS
<1>5. b <= b /\ b = Forwarded(Last)'
  BY <1>1, <1>2
<1>. QED  BY <1>1, <1>2, <1>3, <1>4, <1>5, ServedFrame

(* A client sends or receives. *)
LEMMA ClientServed ==
  ASSUME IInv, TypeOK', NEW c \in Clients, ClientMoves(c)
  PROVE  ChainInv' /\ ClientsServed' /\ NoRepeats'
<1>1. UNCHANGED <<pc, msg, log, applied>> /\ ClientEffect(c)
  BY StateFacts, ClientTypes DEF ClientMoves, replicaVars
<1>2. \A x, y \in Nodes : x # c /\ y # c => net'[x][y] = net[x][y]
  BY <1>1, ClientFrame
<1>3. \A r \in Replicas : Forwarded(r)' = Forwarded(r) /\ Accepted(r)' = Accepted(r)
  BY <1>1 DEF Forwarded, Accepted
<1>4. ChainInv'
  <2>1. \A r \in Followers : net'[r - 1][r] = net[r - 1][r]
    BY <1>2, LinkFacts
  <2>. QED  BY <1>1, <1>3, <2>1, ChainFrame, StateFacts
<1>5. NoRepeats'
  BY <1>1, StateFacts DEF NoRepeats
<1>6. \A d \in Clients : d # c => cpc'[d] = cpc[d] /\ request_count'[d] = request_count[d]
  BY StateFacts, ClientStepFacts, ClientMessages DEF ClientMoves
<1>7. ASSUME NEW d \in Clients
      PROVE  InSetup(d)' <=> InSetup(d)
  BY <1>1 DEF InSetup
<1>8. ASSUME NEW d \in Clients, d # c
      PROVE  OneMessage(d)' /\ RequestsInLog(d)'
  <2>1. /\ net'[d][Leader] = net[d][Leader] /\ net'[Leader][d] = net[Leader][d]
        /\ net'[Last][d] = net[Last][d]
    BY <1>2, <1>8, LinkFacts
  <2>. QED  BY <1>1, <1>3, <1>6, <1>7, <1>8, <2>1, QuietFrame, LinkFacts
<1>9. OneMessage(c)' /\ RequestsInLog(c)'
  <2>1. PICK asked, welcome, answer :
          asked = net[c][Leader] /\ welcome = net[Leader][c] /\ answer = net[Last][c]
    OBVIOUS
  <2>2. OneMessage(c) /\ RequestsInLog(c) /\ request_count[c] \in Nat
    BY StateFacts DEF ClientType
  <2>3. welcome \in Seq(Messages) /\ answer \in Seq(Messages)
    BY <2>1, StateFacts, LinkFacts
  <2>4. \A cmd : Answered(cmd)' <=> Answered(cmd)
    BY <1>1, <1>3, LinkFacts DEF Answered
  <2>5. SetupMessage(c)' = SetupMessage(c)
    BY DEF SetupMessage
  <2>6. CASE cpc[c] = "new"
    <3>1. asked = << >> /\ welcome = << >> /\ answer = << >> /\ ~InSetup(c)
      BY <2>1, <2>2, <2>6 DEF OneMessage
    <3>2. /\ cpc'[c] = "joining" /\ request_count'[c] = request_count[c]
          /\ net'[c][Leader] = <<SetupMessage(c)>> /\ net'[Leader][c] = << >>
          /\ net'[Last][c] = << >>
      <4>1. /\ cpc'[c] = "joining" /\ request_count'[c] = request_count[c]
            /\ ClientSent(c, SetupMessage(c))
        BY <1>1, <2>6 DEF ClientEffect
      <4>2. net'[c][Leader] = <<SetupMessage(c)>>
        BY <2>1, <3>1, <4>1, SingleMessage DEF ClientSent
      <4>3. net'[Leader][c] = << >> /\ net'[Last][c] = << >>
        BY <2>1, <3>1, <4>1, LinkFacts DEF ClientSent
      <4>. QED  BY <4>1, <4>2, <4>3
    <3>3. OneMessage(c)'
      BY <1>7, <2>5, <3>1, <3>2 DEF OneMessage
    <3>4. RequestsInLog(c)'
      BY <1>1, <1>3, <2>2, <2>4, <2>6, <3>2, LinkFacts DEF RequestsInLog
    <3>. QED  BY <3>3, <3>4
  <2>7. CASE cpc[c] = "joining"
    <3>1. /\ cpc'[c] = "idle" /\ request_count'[c] = request_count[c]
          /\ welcome # << >> /\ net'[Leader][c] = Tail(welcome) /\ net'[c][Leader] = asked
          /\ net'[Last][c] = answer
      BY <1>1, <2>1, <2>7, LinkFacts DEF ClientEffect, ClientGot
    <3>2. asked = << >> /\ answer = << >> /\ ~InSetup(c) /\ Len(welcome) = 1
      BY <2>1, <2>2, <2>7, <3>1 DEF OneMessage
    <3>3. net'[Leader][c] = << >>
      BY <2>3, <3>1, <3>2, LastTaken
    <3>4. OneMessage(c)'
      BY <1>7, <3>1, <3>2, <3>3 DEF OneMessage
    <3>5. RequestsInLog(c)'
      BY <1>1, <1>3, <2>2, <2>4, <2>7, <3>1, LinkFacts DEF RequestsInLog
    <3>. QED  BY <3>4, <3>5
  <2>8. CASE cpc[c] = "idle"
    <3>1. asked = << >> /\ welcome = << >> /\ answer = << >> /\ ~InSetup(c)
      BY <2>1, <2>2, <2>8 DEF OneMessage
    <3>2. /\ cpc'[c] = "waiting" /\ request_count'[c] = request_count[c]
          /\ net'[c][Leader] = <<RequestMessage(c)>> /\ net'[Leader][c] = << >>
          /\ net'[Last][c] = << >>
      <4>1. /\ cpc'[c] = "waiting" /\ request_count'[c] = request_count[c]
            /\ ClientSent(c, RequestMessage(c))
        BY <1>1, <2>8 DEF ClientEffect
      <4>2. net'[c][Leader] = <<RequestMessage(c)>>
        BY <2>1, <3>1, <4>1, SingleMessage DEF ClientSent
      <4>3. net'[Leader][c] = << >> /\ net'[Last][c] = << >>
        BY <2>1, <3>1, <4>1, LinkFacts DEF ClientSent
      <4>. QED  BY <4>1, <4>2, <4>3
    <3>3. RequestMessage(c)' = RequestMessage(c)
      BY <3>2 DEF RequestMessage
    <3>4. OneMessage(c)'
      BY <1>7, <3>1, <3>2, <3>3 DEF OneMessage
    <3>5. RequestsInLog(c)'
      BY <1>1, <1>3, <2>2, <2>4, <2>8, <3>2, LinkFacts DEF RequestsInLog
    <3>. QED  BY <3>4, <3>5
  <2>9. CASE cpc[c] = "waiting"
    <3>1. /\ cpc'[c] = "idle" /\ request_count'[c] = request_count[c] + 1
          /\ answer # << >> /\ net'[Last][c] = Tail(answer) /\ net'[c][Leader] = asked
          /\ net'[Leader][c] = welcome
      BY <1>1, <2>1, <2>9, LinkFacts DEF ClientEffect, ClientGot
    <3>2. /\ asked = << >> /\ welcome = << >> /\ ~InSetup(c) /\ Len(answer) = 1
          /\ Answered(Current(c))
      BY <2>1, <2>2, <2>9, <3>1 DEF OneMessage
    <3>3. net'[Last][c] = << >>
      BY <2>3, <3>1, <3>2, LastTaken
    <3>4. OneMessage(c)'
      BY <1>7, <3>1, <3>2, <3>3 DEF OneMessage
    <3>5. ASSUME NEW i \in 1 .. Len(log), log[i][1] = c
          PROVE  log[i][2] < request_count'[c] /\ i <= Forwarded(Last)'
      <4>1. \/ log[i][2] < request_count[c] /\ i <= Forwarded(Last)
            \/ log[i] = Current(c) /\ i <= Forwarded(Last)
        BY <2>1, <2>2, <3>1, <3>5 DEF RequestsInLog
      <4>2. log[i] \in Commands
        BY StateFacts DEF HistoryType
      <4>3. log[i][2] \in Nat
        BY <4>2 DEF Commands
      <4>4. i <= Forwarded(Last)'
        BY <1>3, <4>1, LinkFacts
      <4>5. log[i][2] < request_count'[c]
        BY <2>2, <3>1, <4>1, <4>3 DEF Current
      <4>. QED  BY <4>4, <4>5
    <3>6. ASSUME NEW k \in 0 .. request_count'[c] - 1
          PROVE  Answered(<<c, k>>)'
      <4>1. CASE k = request_count[c]
        BY <2>4, <3>2, <4>1 DEF Current
      <4>2. CASE k # request_count[c]
        <5>1. k \in 0 .. request_count[c] - 1
          BY <2>2, <3>1, <4>2
        <5>. QED  BY <2>2, <2>4, <5>1 DEF RequestsInLog
      <4>. QED  BY <4>1, <4>2
    <3>7. RequestsInLog(c)'
      BY <1>1, <3>5, <3>6 DEF RequestsInLog
    <3>. QED  BY <3>4, <3>7
  <2>. QED  BY <1>1, <2>6, <2>7, <2>8, <2>9 DEF ClientEffect
<1>. QED  BY <1>4, <1>5, <1>8, <1>9 DEF ClientsServed

(* The head takes the one message of client src. *)
LEMMA HeadTakes ==
  ASSUME IInv, NEW src \in Clients, NEW t \in {"SETUP", "REQ"}, Takes(Leader, src, t)
  PROVE  LET m == Head(net[src][Leader])
         IN  /\ m \in Messages /\ m.cid = src /\ pc[Leader] = "poll"
             /\ net[src][Leader] # << >> /\ net'[src][Leader] = << >>
             /\ \A x, y \in Nodes : x # src \/ y # Leader => net'[x][y] = net[x][y]
             /\ t = "SETUP" => cpc[src] = "joining" /\ net[Leader][src] = << >>
             /\ t = "REQ" => /\ cpc[src] = "waiting" /\ Command(m) = Current(src)
                             /\ net[Last][src] = << >>
<1>1. OneMessage(src) /\ src \in Nodes /\ Leader \in Replicas
  BY StateFacts, LinkFacts
<1>2. /\ pc[Leader] = "poll" /\ net[src][Leader] # << >>
      /\ Head(net[src][Leader]) \in Messages /\ Head(net[src][Leader]).tag = t
      /\ net'[src][Leader] = Tail(net[src][Leader])
      /\ \A x, y \in Nodes : x # src \/ y # Leader => net'[x][y] = net[x][y]
  BY <1>1, StateFacts, TakesFacts
<1>3. \/ /\ cpc[src] = "joining" /\ net[src][Leader] = <<SetupMessage(src)>>
         /\ net[Leader][src] = << >>
      \/ /\ cpc[src] = "waiting" /\ net[src][Leader] = <<RequestMessage(src)>>
         /\ net[Last][src] = << >>
  BY <1>1, <1>2 DEF OneMessage
<1>4. CASE /\ cpc[src] = "joining" /\ net[src][Leader] = <<SetupMessage(src)>>
           /\ net[Leader][src] = << >>
  <2>1. Head(net[src][Leader]) = SetupMessage(src) /\ net'[src][Leader] = << >>
    BY <1>2, <1>4, SingleMessage
  <2>. QED  BY <1>2, <1>4, <2>1, StateFacts, ClientMessages
<1>5. CASE /\ cpc[src] = "waiting" /\ net[src][Leader] = <<RequestMessage(src)>>
           /\ net[Last][src] = << >>
  <2>1. Head(net[src][Leader]) = RequestMessage(src) /\ net'[src][Leader] = << >>
    BY <1>2, <1>5, SingleMessage
  <2>. QED  BY <1>2, <1>5, <2>1, StateFacts, ClientMessages
<1>. QED  BY <1>3, <1>4, <1>5

(* The head takes up a setup message. *)
LEMMA SetupServed ==
  ASSUME IInv, TypeOK', NEW src \in Clients, handle_setup(src)
  PROVE  ChainInv' /\ ClientsServed' /\ NoRepeats'
<1>1. PICK m : m = Head(net[src][Leader])
  OBVIOUS
<1>2. /\ Takes(Leader, src, "SETUP") /\ Enters(Leader, "setup", m)
      /\ UNCHANGED <<cpc, request_count, log, applied>>
  BY <1>1 DEF handle_setup
<1>3. /\ m \in Messages /\ m.cid = src /\ pc[Leader] = "poll"
      /\ net[src][Leader] # << >> /\ net'[src][Leader] = << >>
      /\ cpc[src] = "joining" /\ net[Leader][src] = << >>
      /\ \A x, y \in Nodes : x # src \/ y # Leader => net'[x][y] = net[x][y]
  BY <1>1, <1>2, HeadTakes
<1>4. /\ pc'[Leader] = "setup" /\ msg'[Leader] = m
      /\ \A q \in Replicas : q # Leader => pc'[q] = pc[q] /\ msg'[q] = msg[q]
  BY <1>2, StateFacts, LinkFacts DEF Enters, TypeOK
<1>5. ASSUME NEW q \in Replicas
      PROVE  Forwarded(q)' = Forwarded(q) /\ Accepted(q)' = Accepted(q)
  BY <1>2, <1>3, <1>4 DEF Forwarded, Accepted
<1>6. ChainInv'
  <2>1. \A r \in Followers : net'[r - 1][r] = net[r - 1][r]
    BY <1>3, LinkFacts
  <2>2. \A q \in Replicas :
          /\ pc'[q] \in InHand => pc[q] \in InHand /\ Command(msg'[q]) = Command(msg[q])
          /\ pc'[q] = "forward" => pc[q] = "forward" /\ msg'[q].tag = msg[q].tag
    BY <1>4 DEF InHand
  <2>. QED  BY <1>2, <1>5, <2>1, <2>2, ChainFrame, StateFacts
<1>7. NoRepeats'
  BY <1>2, StateFacts DEF NoRepeats
<1>8. ASSUME NEW d \in Clients, d # src
      PROVE  OneMessage(d)' /\ RequestsInLog(d)'
  <2>1. /\ net'[d][Leader] = net[d][Leader] /\ net'[Leader][d] = net[Leader][d]
        /\ net'[Last][d] = net[Last][d]
    BY <1>3, <1>8, LinkFacts
  <2>2. InSetup(d)' <=> InSetup(d)
    BY <1>3, <1>4, <1>8 DEF InSetup
  <2>. QED  BY <1>2, <1>5, <2>1, <2>2, QuietFrame, LinkFacts
<1>9. OneMessage(src)'
  <2>1. /\ net'[Leader][src] = << >> /\ net'[Last][src] = net[Last][src]
        /\ OneMessage(src)
    BY <1>3, LinkFacts, StateFacts
  <2>. QED  BY <1>2, <1>3, <2>1 DEF OneMessage
<1>10. RequestsInLog(src)'
  <2>1. \A cmd : Answered(cmd)' <=> Answered(cmd)
    BY <1>2, <1>5, LinkFacts DEF Answered
  <2>. QED  BY <1>2, <1>3, <1>5, <2>1, LinkFacts, StateFacts DEF RequestsInLog
<1>. QED  BY <1>6, <1>7, <1>8, <1>9, <1>10 DEF ClientsServed

(* The head answers a setup message. *)
LEMMA SetupSendServed ==
  ASSUME IInv, TypeOK', handle_setup_send
  PROVE  ChainInv' /\ ClientsServed' /\ NoRepeats'
<1>1. PICK m, c : m = msg[Leader] /\ c = m.cid
  OBVIOUS
<1>2. /\ Sends(Leader, "setup", c) /\ Returns(Leader)
      /\ UNCHANGED <<cpc, request_count, log, applied>>
  BY <1>1 DEF handle_setup_send
<1>3. pc[Leader] = "setup" /\ m \in Messages
  BY <1>1, <1>2, StateFacts, LinkFacts DEF Sends, TypeOK
<1>4. c \in Clients /\ c \in Nodes
  BY <1>1, <1>3, LinkFacts, MessageFacts
<1>5. /\ net'[Leader][c] = Append(net[Leader][c], m)
      /\ \A x, y \in Nodes : x # Leader \/ y # c => net'[x][y] = net[x][y]
  <2>1. net \in Channels(Messages) /\ Leader \in Replicas /\ msg[Leader] = m /\ msg[Leader] \in Messages
    BY <1>1, <1>3, StateFacts, LinkFacts
  <2>. QED  BY <1>2, <1>4, <2>1, SendsFacts
<1>6. /\ pc'[Leader] = "poll"
      /\ \A q \in Replicas : q # Leader => pc'[q] = pc[q] /\ msg'[q] = msg[q]
  BY <1>2, StateFacts, LinkFacts DEF Returns, TypeOK
<1>7. ASSUME NEW q \in Replicas
      PROVE  Forwarded(q)' = Forwarded(q) /\ Accepted(q)' = Accepted(q)
  BY <1>2, <1>3, <1>6 DEF Forwarded, Accepted
<1>8. ChainInv'
  <2>1. \A r \in Followers : net'[r - 1][r] = net[r - 1][r]
    BY <1>4, <1>5, LinkFacts
  <2>2. \A q \in Replicas :
          /\ pc'[q] \in InHand => pc[q] \in InHand /\ Command(msg'[q]) = Command(msg[q])
          /\ pc'[q] = "forward" => pc[q] = "forward" /\ msg'[q].tag = msg[q].tag
    BY <1>6 DEF InHand
  <2>. QED  BY <1>2, <1>7, <2>1, <2>2, ChainFrame, StateFacts
<1>9. NoRepeats'
  BY <1>2, StateFacts DEF NoRepeats
<1>10. ASSUME NEW d \in Clients, d # c
       PROVE  OneMessage(d)' /\ RequestsInLog(d)'
  <2>1. /\ net'[d][Leader] = net[d][Leader] /\ net'[Leader][d] = net[Leader][d]
        /\ net'[Last][d] = net[Last][d]
    BY <1>4, <1>5, <1>10, LinkFacts
  <2>2. InSetup(d)' <=> InSetup(d)
    BY <1>1, <1>6, <1>10 DEF InSetup
  <2>. QED  BY <1>2, <1>7, <2>1, <2>2, QuietFrame, LinkFacts
<1>11. InSetup(c) /\ ~InSetup(c)' /\ OneMessage(c) /\ RequestsInLog(c)
  BY <1>1, <1>3, <1>4, <1>6, StateFacts DEF InSetup
<1>12. /\ cpc[c] = "joining" /\ net[Leader][c] = << >> /\ net[c][Leader] = << >>
       /\ net[Last][c] = << >>
  BY <1>11 DEF OneMessage
<1>13. OneMessage(c)'
  <2>1. net'[c][Leader] = << >> /\ net'[Leader][c] = <<m>> /\ net'[Last][c] = << >>
    BY <1>4, <1>5, <1>12, LinkFacts, SingleMessage
  <2>2. Len(net'[Leader][c]) = 1
    BY <2>1, SingleMessage
  <2>. QED  BY <1>2, <1>11, <1>12, <2>1, <2>2 DEF OneMessage
<1>14. RequestsInLog(c)'
  <2>1. \A cmd : Answered(cmd)' <=> Answered(cmd)
    BY <1>2, <1>7, LinkFacts DEF Answered
  <2>. QED  BY <1>2, <1>7, <1>11, <1>12, <2>1, LinkFacts DEF RequestsInLog
<1>. QED  BY <1>8, <1>9, <1>10, <1>13, <1>14 DEF ClientsServed

(* A request that the head takes up has no place in the log yet. *)
LEMMA RequestNew ==
  ASSUME IInv, NEW src \in Clients, handle_request(src)
  PROVE  /\ cpc[src] = "waiting" /\ Command(Head(net[src][Leader])) = Current(src)
         /\ ~InLog(Current(src))
         /\ \A i \in 1 .. Len(log) : log[i][1] = src =>
              log[i][2] < request_count[src] /\ i <= Forwarded(Last)
<1>1. /\ cpc[src] = "waiting" /\ Command(Head(net[src][Leader])) = Current(src)
      /\ net[src][Leader] # << >>
  BY HeadTakes DEF handle_request
<1>2. \A i \in 1 .. Len(log) : log[i][1] = src =>
        log[i][2] < request_count[src] /\ i <= Forwarded(Last)
  BY <1>1, StateFacts DEF RequestsInLog
<1>3. ~InLog(Current(src))
  <2>. SUFFICES ASSUME NEW i \in 1 .. Len(log), log[i] = Current(src)
                PROVE  FALSE
    BY DEF InLog
  <2>1. log[i][1] = src /\ log[i][2] = request_count[src] /\ request_count[src] \in Nat
    BY StateFacts DEF Current, ClientType
  <2>. QED  BY <1>2, <2>1
<1>. QED  BY <1>1, <1>2, <1>3

(* The head takes up a request and gives it its place in the order. *)
LEMMA RequestServed ==
  ASSUME IInv, TypeOK', NEW src \in Clients, handle_request(src)
  PROVE  ChainInv' /\ ClientsServed' /\ NoRepeats'
<1>1. PICK m, b : m = Head(net[src][Leader]) /\ b = Forwarded(Last)
  OBVIOUS
<1>2. /\ Takes(Leader, src, "REQ") /\ UNCHANGED <<cpc, request_count, applied>>
      /\ Enters(Leader, "forward", [m EXCEPT !.tag = "COMMIT"])
  BY <1>1 DEF handle_request
<1>3. /\ m \in Messages /\ m.cid = src /\ pc[Leader] = "poll"
      /\ net'[src][Leader] = << >> /\ net[Last][src] = << >>
      /\ \A x, y \in Nodes : x # src \/ y # Leader => net'[x][y] = net[x][y]
  BY <1>1, <1>2, HeadTakes
<1>4. pc'[Leader] = "forward"
  BY <1>2, StateFacts, LinkFacts DEF Enters, TypeOK
<1>5. /\ ChainInv' /\ \A q \in Replicas : Forwarded(q)' = Forwarded(q)
      /\ Len(log) \in Nat /\ Len(log') = Len(log) + 1 /\ log'[Len(log) + 1] = Command(m)
      /\ \A i \in 1 .. Len(log) : log'[i] = log[i]
  BY <1>1, RequestChain, StateFacts
<1>6. /\ cpc[src] = "waiting" /\ Command(m) = Current(src) /\ ~InLog(Current(src))
      /\ \A i \in 1 .. Len(log) : log[i][1] = src =>
           log[i][2] < request_count[src] /\ i <= b
  BY <1>1, RequestNew
<1>7. b \in Nat /\ b <= Len(log) /\ b <= b /\ b = Forwarded(Last)'
  BY <1>1, <1>5, StateFacts, LinkFacts
<1>8. \A cmd : Answered(cmd) => Answered(cmd)'
  BY <1>1, <1>5, <1>7, AnsweredStays
<1>9. \A i \in 1 .. Len(log') : i \in 1 .. Len(log) \/ i = Len(log) + 1
  BY <1>5
<1>10. NoRepeats'
  <2>. SUFFICES ASSUME NEW i \in 1 .. Len(log'), NEW j \in 1 .. Len(log'), log'[i] = log'[j]
                PROVE  i = j
    BY DEF NoRepeats
  <2>1. i \in 1 .. Len(log) /\ j \in 1 .. Len(log) => i = j
    BY <1>5, StateFacts DEF NoRepeats
  <2>2. \A k \in 1 .. Len(log) : log'[k] # Current(src)
    BY <1>5, <1>6 DEF InLog
  <2>. QED  BY <1>5, <1>6, <1>9, <2>1, <2>2
<1>11. ASSUME NEW d \in Clients, d # src
       PROVE  OneMessage(d)' /\ RequestsInLog(d)'
  <2>1. /\ net'[d][Leader] = net[d][Leader] /\ net'[Leader][d] = net[Leader][d]
        /\ net'[Last][d] = net[Last][d]
    BY <1>3, <1>11, LinkFacts
  <2>2. ~InSetup(d)' /\ ~InSetup(d)
    BY <1>3, <1>4 DEF InSetup
  <2>3. Command(m)[1] = src
    BY <1>3, MessageFacts
  <2>4. \A i \in 1 .. Len(log') : log'[i][1] = d => i \in 1 .. Len(log) /\ log'[i] = log[i]
    BY <1>5, <1>9, <1>11, <2>3
  <2>5. OneMessage(d) /\ RequestsInLog(d)
    BY StateFacts
  <2>. QED  BY <1>1, <1>2, <1>7, <1>8, <2>1, <2>2, <2>4, <2>5, ServedFrame
<1>12. Current(src)' = Current(src) /\ net'[Last][src] = << >>
  BY <1>2, <1>3, LinkFacts DEF Current
<1>13. OneMessage(src)'
  <2>1. net'[Leader][src] = net[Leader][src] /\ ~InSetup(src)' /\ OneMessage(src)
    BY <1>3, <1>4, LinkFacts, StateFacts DEF InSetup
  <2>. QED  BY <1>2, <1>3, <1>6, <1>12, <2>1 DEF OneMessage
<1>14. RequestsInLog(src)'
  <2>1. ASSUME NEW i \in 1 .. Len(log'), log'[i][1] = src
        PROVE  \/ log'[i][2] < request_count'[src] /\ i <= Forwarded(Last)'
               \/ /\ log'[i] = Current(src)' /\ cpc'[src] = "waiting" /\ net'[src][Leader] = << >>
                  /\ i <= Forwarded(Last)' \/ net'[Last][src] = << >>
    <3>1. CASE i \in 1 .. Len(log)
      BY <1>2, <1>5, <1>6, <1>7, <2>1, <3>1
    <3>2. CASE i = Len(log) + 1
      BY <1>2, <1>3, <1>5, <1>6, <1>12, <3>2
    <3>. QED  BY <1>9, <3>1, <3>2
  <2>2. \A k \in 0 .. request_count'[src] - 1 : Answered(<<src, k>>)'
    BY <1>2, <1>8, StateFacts DEF RequestsInLog
  <2>. QED  BY <2>1, <2>2, Zenon DEF RequestsInLog
<1>. QED  BY <1>5, <1>10, <1>11, <1>13, <1>14 DEF ClientsServed

(* The tail answers a command. *)
LEMMA RespondServed ==
  ASSUME IInv, TypeOK', handle_commit_respond
  PROVE  ChainInv' /\ ClientsServed' /\ NoRepeats'
<1>1. PICK m, c, b : m = msg[Last] /\ c = m.cid /\ b = Forwarded(Last)
  OBVIOUS
<1>2. /\ Sends(Last, "respond", c) /\ pc' = [pc EXCEPT ![Last] = "execute"]
      /\ UNCHANGED <<cpc, request_count, msg, log, applied>>
  BY <1>1 DEF handle_commit_respond
<1>3. pc[Last] = "respond" /\ m \in Messages
  BY <1>1, <1>2, StateFacts, LinkFacts DEF Sends, TypeOK
<1>4. c \in Clients /\ c \in Nodes /\ Command(m)[1] = c
  BY <1>1, <1>3, LinkFacts, MessageFacts
<1>5. /\ net'[Last][c] = Append(net[Last][c], m)
      /\ \A x, y \in Nodes : x # Last \/ y # c => net'[x][y] = net[x][y]
  <2>1. net \in Channels(Messages) /\ Last \in Replicas /\ msg[Last] = m /\ msg[Last] \in Messages
    BY <1>1, <1>3, StateFacts, LinkFacts
  <2>. QED  BY <1>2, <1>4, <2>1, SendsFacts
<1>6. /\ pc'[Last] = "execute"
      /\ \A q \in Replicas : q # Last => pc'[q] = pc[q]
  BY <1>2, StateFacts, LinkFacts DEF TypeOK
<1>7. ASSUME NEW q \in Replicas
      PROVE  (q # Last => Forwarded(q)' = Forwarded(q)) /\ Accepted(q)' = Accepted(q)
  BY <1>2, <1>3, <1>6 DEF Forwarded, Accepted
<1>8. /\ b \in Nat /\ b < Len(log) /\ Len(log) \in Nat
      /\ b + 1 = Forwarded(Last)' /\ Command(m) = log[b + 1]
  <2>1. b = Len(applied[Last]) /\ Len(applied[Last]) \in Nat
    BY <1>1, <1>3, CountFacts, StateFacts, LinkFacts
  <2>2. Forwarded(Last)' = Len(applied[Last]) + 1
    BY <1>2, <1>6 DEF Forwarded
  <2>3. Len(applied[Last]) < Len(log) /\ Command(m) = log[Len(applied[Last]) + 1]
    BY <1>1, <1>3, StateFacts, LinkFacts DEF ChainInv, HeldIsNext, InHand
  <2>. QED  BY <2>1, <2>2, <2>3, StateFacts
<1>9. ChainInv'
  <2>1. \A r \in Followers : net'[r - 1][r] = net[r - 1][r]
    BY <1>5, LinkFacts
  <2>2. \A q \in Replicas :
          /\ pc'[q] \in InHand => pc[q] \in InHand /\ Command(msg'[q]) = Command(msg[q])
          /\ pc'[q] = "forward" => pc[q] = "forward" /\ msg'[q].tag = msg[q].tag
    BY <1>2, <1>3, <1>6 DEF InHand
  <2>. QED  BY <1>2, <1>7, <2>1, <2>2, ChainFrame, StateFacts
<1>10. NoRepeats'
  BY <1>2, StateFacts DEF NoRepeats
<1>11. b + 1 \in 1 .. Len(log) /\ b + 1 \in Nat /\ b <= b + 1 /\ b <= Len(log)
  BY <1>8
<1>12. \A cmd : Answered(cmd) => Answered(cmd)'
  BY <1>1, <1>2, <1>8, <1>11, AnsweredStays
<1>13. ASSUME NEW d \in Clients
       PROVE  InSetup(d)' <=> InSetup(d)
  BY <1>2, <1>6, LinkFacts DEF InSetup
<1>14. ASSUME NEW d \in Clients, d # c
       PROVE  OneMessage(d)' /\ RequestsInLog(d)'
  <2>1. /\ net'[d][Leader] = net[d][Leader] /\ net'[Leader][d] = net[Leader][d]
        /\ net'[Last][d] = net[Last][d]
    BY <1>4, <1>5, <1>14, LinkFacts
  <2>2. \A i \in 1 .. Len(log') : i \in 1 .. Len(log) /\ log'[i] = log[i]
    BY <1>2
  <2>3. OneMessage(d) /\ RequestsInLog(d)
    BY StateFacts
  <2>. QED  BY <1>1, <1>2, <1>8, <1>11, <1>12, <1>13, <2>1, <2>2, <2>3, ServedFrame
<1>15. OneMessage(c) /\ RequestsInLog(c)
  BY <1>4, StateFacts
<1>16. /\ log[b + 1] = Current(c) /\ cpc[c] = "waiting" /\ net[c][Leader] = << >>
       /\ net[Last][c] = << >>
  <2>1. ~(b + 1 <= Forwarded(Last))
    BY <1>1, <1>8
  <2>. QED  BY <1>4, <1>8, <1>11, <1>15, <2>1 DEF RequestsInLog
<1>17. /\ net'[c][Leader] = << >> /\ net'[Last][c] = <<m>> /\ net'[Leader][c] = net[Leader][c]
       /\ Current(c)' = Current(c)
  BY <1>2, <1>4, <1>5, <1>16, LinkFacts, SingleMessage DEF Current
<1>18. Answered(Current(c))'
  <2>1. b + 1 \in 1 .. Forwarded(Last)' /\ log'[b + 1] = Current(c)'
    BY <1>2, <1>8, <1>11, <1>16, <1>17
  <2>. QED  BY <2>1 DEF Answered
<1>19. OneMessage(c)'
  <2>1. Len(net'[Last][c]) = 1 /\ net'[Last][c][1] = m
    BY <1>17, SingleMessage
  <2>2. Command(m) = Current(c)
    BY <1>8, <1>16
  <2>. QED  BY <1>2, <1>4, <1>13, <1>15, <1>16, <1>17, <1>18, <2>1, <2>2 DEF OneMessage
<1>20. RequestsInLog(c)'
  <2>1. ASSUME NEW i \in 1 .. Len(log), log[i][1] = c
        PROVE  /\ i <= Forwarded(Last)'
               /\ log[i][2] < request_count[c] \/ log[i] = Current(c)
    <3>1. \/ log[i][2] < request_count[c] /\ i <= b
          \/ log[i] = Current(c)
      BY <1>1, <1>15, <2>1 DEF RequestsInLog
    <3>2. log[i] = Current(c) => i = b + 1
      BY <1>11, <1>16, StateFacts DEF NoRepeats
    <3>. QED  BY <1>8, <3>1, <3>2
  <2>2. \A k \in 0 .. request_count'[c] - 1 : Answered(<<c, k>>)'
    BY <1>2, <1>12, <1>15 DEF RequestsInLog
  <2>. QED  BY <1>2, <1>16, <1>17, <2>1, <2>2 DEF RequestsInLog
<1>. QED  BY <1>9, <1>10, <1>14, <1>19, <1>20 DEF ClientsServed

(* A step between two replicas does not concern the clients. *)
LEMMA InnerServed ==
  ASSUME IInv, UNCHANGED <<cpc, request_count, log>>, Forwarded(Last)' = Forwarded(Last),
         NEW a \in Replicas, NEW b \in Replicas,
         \A x, y \in Nodes : x # a \/ y # b => net'[x][y] = net[x][y],
         \/ pc'[Leader] = pc[Leader] /\ msg'[Leader] = msg[Leader]
         \/ pc[Leader] # "setup" /\ pc'[Leader] # "setup"
  PROVE  ClientsServed' /\ NoRepeats'
<1>1. NoRepeats'
  BY StateFacts DEF NoRepeats
<1>2. ASSUME NEW d \in Clients
      PROVE  OneMessage(d)' /\ RequestsInLog(d)'
  <2>1. /\ net'[d][Leader] = net[d][Leader] /\ net'[Leader][d] = net[Leader][d]
        /\ net'[Last][d] = net[Last][d]
    BY LinkFacts
  <2>2. InSetup(d)' <=> InSetup(d)
    BY DEF InSetup
  <2>. QED  BY <2>1, <2>2, QuietFrame
<1>. QED  BY <1>1, <1>2 DEF ClientsServed

(* A replica passes a command on. *)
LEMMA ForwardServed ==
  ASSUME IInv, TypeOK', NEW r \in Replicas, r # Last, forward(r)
  PROVE  ChainInv' /\ ClientsServed' /\ NoRepeats'
<1>1. ChainInv'
  BY ForwardChain, StateFacts
<1>2. /\ Sends(r, "forward", r + 1) /\ pc' = [pc EXCEPT ![r] = "execute"]
      /\ UNCHANGED <<cpc, request_count, msg, log, applied>>
  BY DEF forward
<1>3. pc[r] = "forward" /\ msg[r] \in Messages /\ r + 1 \in Replicas /\ r + 1 \in Nodes
  BY <1>2, StateFacts, LinkFacts DEF Sends, TypeOK
<1>4. \A x, y \in Nodes : x # r \/ y # r + 1 => net'[x][y] = net[x][y]
  BY <1>2, <1>3, StateFacts, SendsFacts
<1>5. pc'[r] = "execute" /\ \A q \in Replicas : q # r => pc'[q] = pc[q]
  BY <1>2, StateFacts DEF TypeOK
<1>6. Forwarded(Last)' = Forwarded(Last)
  BY <1>2, <1>5, LinkFacts DEF Forwarded
<1>7. \/ pc'[Leader] = pc[Leader] /\ msg'[Leader] = msg[Leader]
      \/ pc[Leader] # "setup" /\ pc'[Leader] # "setup"
  BY <1>2, <1>3, <1>5, LinkFacts
<1>. QED  BY <1>1, <1>2, <1>3, <1>4, <1>6, <1>7, InnerServed

(* A replica executes the command in its hands. *)
LEMMA ExecuteServed ==
  ASSUME IInv, TypeOK', NEW r \in Replicas, execute(r)
  PROVE  ChainInv' /\ ClientsServed' /\ NoRepeats'
<1>1. ChainInv' /\ Forwarded(Last)' = Forwarded(Last)
  BY ExecuteChain, StateFacts, LinkFacts
<1>2. /\ pc[r] = "execute" /\ pc' = [pc EXCEPT ![r] = "poll"] /\ msg' = [msg EXCEPT ![r] = NoMsg]
      /\ UNCHANGED <<net, cpc, request_count, log>>
  BY DEF execute, Returns, clientVars
<1>3. \/ pc'[Leader] = pc[Leader] /\ msg'[Leader] = msg[Leader]
      \/ pc[Leader] # "setup" /\ pc'[Leader] # "setup"
  BY <1>2, StateFacts, LinkFacts DEF TypeOK
<1>. QED  BY <1>1, <1>2, <1>3, InnerServed

(* A replica takes a command of its left neighbour. *)
LEMMA TakeServed ==
  ASSUME IInv, TypeOK', NEW r \in Followers, handle_commit(r)
  PROVE  ChainInv' /\ ClientsServed' /\ NoRepeats'
<1>1. /\ ChainInv' /\ Forwarded(Last)' = Forwarded(Last)
      /\ \A x, y \in Nodes : x # r - 1 \/ y # r => net'[x][y] = net[x][y]
  BY TakeChain, StateFacts, LinkFacts
<1>2. /\ UNCHANGED <<cpc, request_count, log>>
      /\ \E w, m : Enters(r, w, m)
  BY DEF handle_commit
<1>3. pc'[Leader] = pc[Leader] /\ msg'[Leader] = msg[Leader]
  BY <1>2, StateFacts, LinkFacts DEF Enters, TypeOK
<1>4. r \in Replicas /\ r - 1 \in Replicas
  BY LinkFacts
<1>. QED  BY <1>1, <1>2, <1>3, <1>4, InnerServed

------------------------------------------------------------------------------
(* The invariant, and what follows from it *)

(* The initial states satisfy the invariant. *)
LEMMA InitInv == Init => IInv
<1>. SUFFICES ASSUME Init PROVE IInv
  OBVIOUS
<1>1. TypeOK
  BY InitType
<1>2. /\ \A x, y \in Nodes : net[x][y] = << >>
      /\ \A r \in Replicas : applied[r] = << >> /\ pc[r] = "poll"
      /\ log = << >> /\ Len(<< >>) = 0
      /\ \A c \in Clients : request_count[c] = 0
  BY DEF Init, ClientInit, ReplicaInit, EmptyNet
<1>3. \A r \in Replicas : Forwarded(r) = 0 /\ Accepted(r) = 0
  BY <1>1, <1>2, CountFacts
<1>4. HeldIsNext /\ HeadHasAll /\ ChainOrder
  BY <1>2, <1>3, LinkFacts DEF HeldIsNext, HeadHasAll, ChainOrder, InHand
<1>5. \A r \in Followers : /\ Accepted(r) = 0 /\ Forwarded(r - 1) = 0
                          /\ net[r - 1][r] = << >>
  BY <1>2, <1>3, LinkFacts
<1>6. LinksHoldLog
  <2>. SUFFICES ASSUME NEW r \in Followers
                PROVE  /\ Accepted(r) + Len(net[r - 1][r]) = Forwarded(r - 1)
                       /\ \A k \in 1 .. Len(net[r - 1][r]) : FALSE
    BY DEF LinksHoldLog
  <2>. QED  BY <1>2, <1>5
<1>7. OnlyCommits
  BY <1>2, <1>5 DEF OnlyCommits
<1>8. Agreement
  BY <1>2 DEF Agreement
<1>9. ClientsServed
  BY <1>2, LinkFacts DEF ClientsServed, OneMessage, RequestsInLog, InSetup
<1>10. NoRepeats
  BY <1>2 DEF NoRepeats
<1>. QED  BY <1>1, <1>4, <1>6, <1>7, <1>8, <1>9, <1>10 DEF IInv, ChainInv

(* Every step keeps the invariant. *)
LEMMA InvStep == IInv /\ [Next]_vars => IInv'
<1>. SUFFICES ASSUME IInv, [Next]_vars PROVE IInv'
  OBVIOUS
<1>1. TypeOK'
  BY TypeStep DEF IInv
<1>2. ASSUME NEW c \in Clients, ClientMoves(c)
      PROVE  IInv'
  BY <1>1, <1>2, ClientServed DEF IInv
<1>3. ASSUME NEW c \in Clients, handle_setup(c)
      PROVE  IInv'
  BY <1>1, <1>3, SetupServed DEF IInv
<1>4. ASSUME NEW c \in Clients, handle_request(c)
      PROVE  IInv'
  BY <1>1, <1>4, RequestServed DEF IInv
<1>5. CASE handle_setup_send
  BY <1>1, <1>5, SetupSendServed DEF IInv
<1>6. CASE handle_commit_respond
  BY <1>1, <1>6, RespondServed DEF IInv
<1>7. ASSUME NEW r \in Replicas, r # Last, forward(r)
      PROVE  IInv'
  BY <1>1, <1>7, ForwardServed DEF IInv
<1>8. ASSUME NEW r \in Replicas, execute(r)
      PROVE  IInv'
  BY <1>1, <1>8, ExecuteServed DEF IInv
<1>9. ASSUME NEW r \in Followers, handle_commit(r)
      PROVE  IInv'
  BY <1>1, <1>9, TakeServed DEF IInv
<1>10. CASE UNCHANGED vars
  <2>1. UNCHANGED <<net, cpc, request_count, pc, msg, log, applied>>
    BY <1>10 DEF vars, clientVars, replicaVars
  <2>2. \A r \in Replicas : Forwarded(r)' = Forwarded(r) /\ Accepted(r)' = Accepted(r)
    BY <2>1 DEF Forwarded, Accepted
  <2>3. ChainInv'
    BY <2>1, <2>2, ChainFrame, StateFacts
  <2>4. ClientsServed' /\ NoRepeats'
    BY <2>1, <2>2, InnerServed, LinkFacts
  <2>. QED  BY <1>1, <2>3, <2>4 DEF IInv
<1>11. CASE HeadContinue
  BY <1>5, <1>7, <1>8, <1>11, LinkFacts DEF HeadContinue
<1>12. ASSUME NEW r \in Followers, FollowerStep(r)
       PROVE  IInv'
  BY <1>6, <1>7, <1>8, <1>9, <1>12, LinkFacts DEF FollowerStep
<1>. QED  BY <1>2, <1>3, <1>4, <1>10, <1>11, <1>12 DEF Next, HeadReceive, Terminated

(* What is kept in every run: the links, the order, the clients' messages. *)
THEOREM InductiveInvariant == Spec => []IInv
<1>. QED  BY InitInv, InvStep, PTL DEF Spec

(***************************************************************************)
(* Between neighbours the channel holds exactly the commands that one has  *)
(* passed on and the other has not taken, in the order of the log:         *)
(* handle_commit compares no positions.                                    *)
(***************************************************************************)
THEOREM LinksHoldLogCorrect == Spec => []LinksHoldLog
<1>1. IInv => LinksHoldLog
  BY DEF IInv, ChainInv
<1>. QED  BY <1>1, InductiveInvariant, PTL

(* Every replica has executed a prefix of the order the head gave. *)
THEOREM AgreementCorrect == Spec => []Agreement
<1>1. IInv => Agreement
  BY DEF IInv, ChainInv
<1>. QED  BY <1>1, InductiveInvariant, PTL

(* What the tail has answered, every replica has executed or executes next. *)
LEMMA HeldByAll ==
  ASSUME IInv, NEW cmd, Answered(cmd), NEW r \in Replicas
  PROVE  HasOrHolds(r, cmd)
<1>1. PICK i : i \in 1 .. Forwarded(Last) /\ log[i] = cmd
  BY DEF Answered
<1>2. PICK b, f, n : b = Forwarded(Last) /\ f = Forwarded(r) /\ n = Len(applied[r])
  OBVIOUS
<1>3. b \in Nat /\ f \in Nat /\ n \in Nat
  BY <1>2, StateFacts, CountFacts
<1>4. b <= f
  <2>1. CASE r = Last
    BY <1>2, <1>3, <2>1
  <2>2. CASE r # Last
    <3>1. Accepted(Last) <= f /\ b <= Accepted(Last) /\ Accepted(Last) \in Nat
      BY <1>2, <2>2, LinkFacts, StateFacts, CountFacts DEF ChainInv, ChainOrder
    <3>. QED  BY <1>3, <3>1
  <2>. QED  BY <2>1, <2>2
<1>5. i \in 1 .. f
  BY <1>1, <1>2, <1>3, <1>4
<1>6. CASE i \in 1 .. n
  BY <1>1, <1>2, <1>6, StateFacts DEF ChainInv, Agreement, HasOrHolds
<1>7. CASE i \notin 1 .. n
  <2>1. f # n
    BY <1>5, <1>7
  <2>2. pc[r] = "execute" /\ f = n + 1
    BY <1>2, <1>3, <2>1, StateFacts, CountFacts, ZenonT(20) DEF TypeOK, PCs
  <2>3. i = n + 1
    BY <1>3, <1>5, <1>7, <2>2
  <2>4. Command(msg[r]) = log[n + 1]
    BY <1>2, <2>2, StateFacts DEF ChainInv, HeldIsNext, InHand
  <2>. QED  BY <1>1, <2>2, <2>3, <2>4 DEF HasOrHolds
<1>. QED  BY <1>6, <1>7

(***************************************************************************)
(* A client gets the answer to its own request, and at that moment every   *)
(* replica has executed the request or holds it to execute it next,        *)
(* although the tail answers before it executes (handle_commit).           *)
(***************************************************************************)
THEOREM AnswerHeldByAllCorrect == Spec => []AnswerHeldByAll
<1>1. IInv => AnswerHeldByAll
  <2>. SUFFICES ASSUME IInv PROVE AnswerHeldByAll
    OBVIOUS
  <2>1. ASSUME NEW c \in Clients, cpc[c] = "waiting", NEW k \in 1 .. Len(net[Last][c])
        PROVE  /\ Command(net[Last][c][k]) = <<c, request_count[c]>>
               /\ \A r \in Replicas : HasOrHolds(r, <<c, request_count[c]>>)
    <3>1. OneMessage(c) /\ net[Last][c] \in Seq(Messages)
      BY StateFacts, LinkFacts
    <3>2. Len(net[Last][c]) \in Nat
      BY <3>1, LenProperties
    <3>3. net[Last][c] # << >>
      <4>. SUFFICES ASSUME net[Last][c] = << >> PROVE FALSE
        OBVIOUS
      <4>1. k \in 1 .. Len(<< >>)
        BY <2>1
      <4>. QED  BY <4>1, EmptySeq
    <3>4. /\ Len(net[Last][c]) = 1 /\ Command(net[Last][c][1]) = Current(c)
          /\ Answered(Current(c))
      BY <3>1, <3>3 DEF OneMessage
    <3>5. k = 1
      BY <2>1, <3>4
    <3>. QED  BY <3>4, <3>5, HeldByAll DEF Current
  <2>2. ASSUME NEW c \in Clients, NEW k \in 0 .. request_count[c] - 1, NEW r \in Replicas
        PROVE  HasOrHolds(r, <<c, k>>)
    <3>1. Answered(<<c, k>>)
      BY StateFacts DEF RequestsInLog
    <3>. QED  BY <3>1, HeldByAll
  <2>. QED  BY <2>1, <2>2 DEF AnswerHeldByAll
<1>. QED  BY <1>1, InductiveInvariant, PTL

(* Every step is a step of the replicated log, or none. *)
LEMMA StepRefines == IInv /\ [Next]_vars => [Abstract!Next]_(Abstract!vars)
<1>. SUFFICES ASSUME IInv, [Next]_vars PROVE [Abstract!Next]_(Abstract!vars)
  OBVIOUS
<1>1. ASSUME NEW c \in Clients, ClientMoves(c)
      PROVE  [Abstract!Next]_(Abstract!vars)
  <2>1. cpc[c] = "waiting" /\ net[RecvFrom][c] # << >> => InLog(Current(c))
    <3>. SUFFICES ASSUME cpc[c] = "waiting", net[Last][c] # << >>
                  PROVE  InLog(Current(c))
      BY LinkFacts
    <3>1. Answered(Current(c))
      BY StateFacts DEF OneMessage
    <3>2. PICK i : i \in 1 .. Forwarded(Last) /\ log[i] = Current(c)
      BY <3>1 DEF Answered
    <3>3. i \in 1 .. Len(log)
      BY <3>2, StateFacts
    <3>. QED  BY <3>2, <3>3 DEF InLog
  <2>. QED  BY <1>1, <2>1, ClientRefines, StateFacts DEF ClientMoves, replicaVars
<1>2. ASSUME NEW src \in Clients, handle_request(src)
      PROVE  [Abstract!Next]_(Abstract!vars)
  <2>1. /\ cpc[src] = "waiting" /\ ~InLog(Current(src)) /\ log' = Append(log, Current(src))
        /\ UNCHANGED <<cpc, request_count, applied>>
    BY <1>2, RequestNew DEF handle_request
  <2>. QED  BY <2>1, StateFacts, DecideRefines
<1>3. ASSUME NEW r \in Replicas, execute(r)
      PROVE  [Abstract!Next]_(Abstract!vars)
  <2>1. PICK c : c = Command(msg[r])
    OBVIOUS
  <2>2. /\ pc[r] = "execute" /\ applied' = [applied EXCEPT ![r] = Append(@, c)]
        /\ UNCHANGED <<cpc, request_count, log>>
    BY <1>3, <2>1 DEF execute, update_value, clientVars
  <2>3. Len(applied[r]) < Len(log) /\ c = log[Len(applied[r]) + 1]
    BY <2>1, <2>2, StateFacts DEF ChainInv, HeldIsNext, InHand
  <2>. QED  BY <2>2, <2>3, ApplyRefines
<1>4. ASSUME UNCHANGED <<cpc, request_count, log, applied>>
      PROVE  [Abstract!Next]_(Abstract!vars)
  BY <1>4, StutterRefines
<1>5. CASE UNCHANGED vars
  BY <1>4, <1>5 DEF vars, clientVars, replicaVars
<1>6. ASSUME NEW src \in Clients, handle_setup(src)
      PROVE  [Abstract!Next]_(Abstract!vars)
  BY <1>4, <1>6 DEF handle_setup
<1>7. CASE HeadContinue
  BY <1>3, <1>4, <1>7, LinkFacts DEF HeadContinue, handle_setup_send, forward
<1>8. ASSUME NEW r \in Followers, FollowerStep(r)
      PROVE  [Abstract!Next]_(Abstract!vars)
  BY <1>3, <1>4, <1>8, LinkFacts DEF FollowerStep, forward, handle_commit, handle_commit_respond
<1>. QED  BY <1>1, <1>2, <1>5, <1>6, <1>7, <1>8 DEF Next, HeadReceive, Terminated

(***************************************************************************)
(* Chain replication implements the replicated log: one order of the       *)
(* requests, each in it at most once, executed by every replica without    *)
(* gaps, and no answer to a request that has no place in the order.        *)
(***************************************************************************)
THEOREM Refinement == Spec => ImplementsReplicatedLog
<1>1. Init => Abstract!Init
  BY InitRefines DEF Init
<1>. QED  BY <1>1, StepRefines, InductiveInvariant, PTL
          DEF Spec, ImplementsReplicatedLog, Abstract!Spec

(***************************************************************************)
(* So the chain orders every request that it answers, once and in the      *)
(* order of its client, every replica executes that order, and a request   *)
(* issued after an answer comes after what was answered.                   *)
(***************************************************************************)
THEOREM PromiseKept == Spec => Promise
BY Refinement, LogPromise, PTL DEF ImplementsReplicatedLog
==============================================================================
