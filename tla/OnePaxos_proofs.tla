--------------------------- MODULE OnePaxos_proofs ---------------------------
(***************************************************************************)
(* Theorems about OnePaxos for every number of replicas, set of clients,   *)
(* channel capacity and bound on requests, with and without KVS, and about *)
(* Kvs, the store on top of it.                                            *)
(***************************************************************************)
EXTENDS Kvs, Replica_proofs, FiniteSetTheorems

(* No client issues more requests than there are request ids. *)
RidsSuffice == MaxReq <= RidMod

(* The messages without and with an index in data[1]. *)
Plain  == [tag : {"SETUP", "REQ", "ACC"}, cid : Clients, rid : Nat, idx : Nat]
Learns == [tag : {"LEARN", "RESP"}, cid : Clients, rid : Nat, idx : Nat, index : Nat]

Messages == Plain \cup Learns

LeaderPCs   == {"poll", "setup", "accept", "respond"}
AcceptorPCs == {"poll", "learn", "execute"}
LearnerPCs  == {"poll", "respond"}

TypeOK ==
  /\ net \in Channels(Messages)
  /\ ClientType
  /\ HistoryType
  /\ pc \in [Replicas -> LeaderPCs \cup AcceptorPCs]
  /\ pc[Leader] \in LeaderPCs /\ pc[Acceptor] \in AcceptorPCs
  /\ \A r \in Learners : pc[r] \in LearnerPCs
  /\ pc[Leader] = "respond" => RecvFrom = Leader
  /\ msg \in [Replicas -> Messages \cup {NoMsg}]
  /\ \A r \in Replicas : pc[r] # "poll" => msg[r] \in Messages
  /\ pc[Acceptor] # "poll" => msg[Acceptor] \in Learns
  /\ dst \in Replicas \ {Acceptor}
  /\ index \in [Replicas -> Nat]
  /\ proposal_index \in Nat /\ entry_queue \in Int
  /\ last_executed_rid \in [Replicas -> [Clients -> Int]]

(* The command that the acceptor works on is the last of the log, the one  *)
(* it executes next; the leader has proposed what is ordered or on its way.*)
AcceptorHolds ==
  /\ pc[Acceptor] = "poll" => Len(log) = index[Acceptor]
  /\ pc[Acceptor] # "poll" => /\ Len(log) = index[Acceptor] + 1
                              /\ msg[Acceptor].index = index[Acceptor]
                              /\ Command(msg[Acceptor]) = log[Len(log)]
  /\ proposal_index = Len(log) + Len(net[Leader][Acceptor])

(* What holds whether or not a request id is used twice. *)
OrderInv == TypeOK /\ AcceptorHolds /\ LearnsInTransit /\ EntryQueueBounded

------------------------------------------------------------------------------
(* Each replica has executed the log up to its index. *)
ExecutesLog ==
  \A r \in Replicas :
    /\ Len(applied[r]) = index[r]
    /\ \A i \in 1 .. index[r] : applied[r][i] = log[i]

(* The last request id that it keeps of a client is that of such a command.*)
LastExecuted ==
  \A r \in Replicas, c \in Clients :
    \/ last_executed_rid[r][c] = NoRid
    \/ \E i \in 1 .. index[r] : log[i] = <<c, last_executed_rid[r][c]>>

(* The requests of a client are in the log in the order of their ids. *)
LogSorted ==
  \A i, j \in 1 .. Len(log) : i < j /\ log[i][1] = log[j][1] => log[i][2] < log[j][2]

(* Channel s holds a message of client c, or only one, about command cmd. *)
Has(s, c) == \E k \in 1 .. Len(s) : s[k].cid = c

HasOnly(s, c, cmd) ==
  /\ \A k \in 1 .. Len(s) : s[k].cid = c => Command(s[k]) = cmd
  /\ \A j, k \in 1 .. Len(s) : s[j].cid = c /\ s[k].cid = c => j = k

(* The places of the message of client c before its request is ordered, *)
InSetup(c)   == pc[Leader] = "setup" /\ msg[Leader].cid = c
Proposing(c) == pc[Leader] = "accept" /\ msg[Leader].cid = c
Proposed(c)  == Has(net[Leader][Acceptor], c)

(* and when the replica that answers has learnt it. *)
Answering(c) == pc[RecvFrom] = "respond" /\ msg[RecvFrom].cid = c

(* The replica that answers has executed command cmd. *)
Executed(cmd) == \E i \in 1 .. Len(applied[RecvFrom]) : applied[RecvFrom][i] = cmd

(***************************************************************************)
(* Where the one message is that belongs to client c.  The leader welcomes *)
(* it, and the replica it receives from answers its requests.              *)
(***************************************************************************)
OneMessage(c) ==
  LET asked   == net[c][Leader]
      welcome == net[Leader][c]
      answer  == net[RecvFrom][c]
  IN  /\ asked # << >> => /\ ~InSetup(c) /\ ~Proposing(c) /\ ~Proposed(c)
                          /\ \/ cpc[c] = "joining" /\ asked = <<SetupMessage(c)>> /\ welcome = << >>
                             \/ cpc[c] = "waiting" /\ asked = <<RequestMessage(c)>>
      /\ InSetup(c) => cpc[c] = "joining" /\ welcome = << >>
      /\ Proposing(c) => /\ cpc[c] = "waiting" /\ Command(msg[Leader]) = Current(c)
                         /\ ~InLog(Current(c)) /\ ~Proposed(c)
      /\ Proposed(c) => cpc[c] = "waiting" /\ ~InLog(Current(c))
      /\ HasOnly(net[Leader][Acceptor], c, Current(c))
      /\ Answering(c) => /\ cpc[c] = "waiting" /\ Command(msg[RecvFrom]) = Current(c)
                         /\ Executed(Current(c)) /\ answer = << >>
      /\ welcome # << >> => Len(welcome) = 1 /\ (cpc[c] = "joining" \/ RecvFrom = Leader)
      /\ answer # << >> =>
           /\ Len(answer) = 1
           /\ \/ cpc[c] = "joining" /\ RecvFrom = Leader
              \/ /\ cpc[c] = "waiting" /\ Command(answer[1]) = Current(c)
                 /\ Executed(Current(c)) /\ ~Answering(c)

(* Of c, nothing is ordered that it has not issued, or that has not left   *)
(* its channel; all that it has an answer to is executed.                  *)
Issued(c, cmd) ==
  cmd[1] = c => \/ cmd[2] < request_count[c]
                \/ cmd = Current(c) /\ cpc[c] = "waiting" /\ net[c][Leader] = << >>

OnlyIssued(c) == \A i \in 1 .. Len(log) : Issued(c, log[i])

PastExecuted(c) == \A k \in 0 .. request_count[c] - 1 : Executed(<<c, k>>)

CountBounded(c) ==
  request_count[c] <= MaxReq /\ (cpc[c] = "waiting" => request_count[c] < MaxReq)

ClientInv(c) == OneMessage(c) /\ OnlyIssued(c) /\ PastExecuted(c) /\ CountBounded(c)

(* What the answers rest on. *)
AnswersInv == ExecutesLog /\ LastExecuted /\ LogSorted /\ \A c \in Clients : ClientInv(c)

(* The inductive invariant. *)
IInv == OrderInv /\ AnswersInv

------------------------------------------------------------------------------
(* Type correctness *)

(* Who is who. *)
LEMMA RoleFacts ==
  /\ Leader \in Replicas /\ Acceptor \in Replicas /\ RecvFrom \in Replicas
  /\ Leader # Acceptor /\ RecvFrom # Acceptor
  /\ RecvFrom = Leader \/ RecvFrom \in Learners
  /\ KVS \in BOOLEAN /\ (KVS <=> RecvFrom # Leader)
  /\ \A r \in Learners : r \in Replicas /\ r # Leader /\ r # Acceptor
  /\ \A r \in Replicas : r = Leader \/ r = Acceptor \/ r \in Learners
  /\ \A r \in Replicas : r \in Nodes /\ r \in Nat /\ r \notin Clients
  /\ \A c \in Clients : c \in Nodes /\ c \notin Replicas /\ c # Leader /\ c # Acceptor /\ c # RecvFrom
BY ReplicasAssumption, ClientsAssumption, KVSAssumption, AnswerAssumption
   DEF Leader, Acceptor, Learners, Replicas, Nodes

(* The loop of the acceptor reaches every other replica. *)
LEMMA LoopFacts ==
  ASSUME NEW d \in Replicas \ {Acceptor}
  PROVE  /\ NextDst(d) < N => NextDst(d) \in Replicas \ {Acceptor}
         /\ ~(NextDst(d) <= d)
         /\ \A r \in Replicas \ {Acceptor} :
              /\ r # d => (d <= r <=> NextDst(d) <= r)
              /\ NextDst(d) >= N /\ r # d => ~(d <= r)
              /\ Leader <= r
BY ReplicasAssumption DEF Leader, Acceptor, Replicas, NextDst

(* What a message holds, and what becomes of it on its way. *)
LEMMA MessageFacts ==
  ASSUME NEW m \in Messages
  PROVE  /\ m.cid \in Clients /\ m.rid \in Nat /\ m.idx \in Nat
         /\ Command(m) \in Commands /\ Command(m) = <<m.cid, m.rid>>
         /\ m.tag = "REQ" => LET a == [m EXCEPT !.tag = "ACC"]
                             IN  a \in Messages /\ a.cid = m.cid /\ Command(a) = Command(m)
         /\ m.tag = "LEARN" => LET a == [m EXCEPT !.tag = "RESP"]
                               IN  /\ a \in Messages /\ a.cid = m.cid /\ Command(a) = Command(m)
                                   /\ m.index \in Nat
         /\ \A i \in Nat : LET a == Learn(m, i)
                           IN  /\ a \in Messages /\ a \in Learns /\ a.index = i
                               /\ a.cid = m.cid /\ Command(a) = Command(m)
<1>1. /\ m.cid \in Clients /\ m.rid \in Nat /\ m.idx \in Nat
      /\ Command(m) \in Commands /\ Command(m) = <<m.cid, m.rid>>
  BY DEF Messages, Plain, Learns, Command, Commands
<1>2. ASSUME m.tag = "REQ"
      PROVE  LET a == [m EXCEPT !.tag = "ACC"]
             IN  a \in Messages /\ a.cid = m.cid /\ Command(a) = Command(m)
  <2>1. m \in Plain
    BY <1>2 DEF Messages, Learns
  <2>. QED  BY <2>1 DEF Messages, Plain, Command
<1>3. ASSUME m.tag = "LEARN"
      PROVE  LET a == [m EXCEPT !.tag = "RESP"]
             IN  /\ a \in Messages /\ a.cid = m.cid /\ Command(a) = Command(m)
                 /\ m.index \in Nat
  <2>1. m \in Learns
    BY <1>3 DEF Messages, Plain
  <2>. QED  BY <2>1 DEF Messages, Learns, Command
<1>4. ASSUME NEW i \in Nat
      PROVE  LET a == Learn(m, i)
             IN  /\ a \in Messages /\ a \in Learns /\ a.index = i
                 /\ a.cid = m.cid /\ Command(a) = Command(m)
  BY <1>1 DEF Learn, Messages, Learns, Command
<1>. QED  BY <1>1, <1>2, <1>3, <1>4

(* The messages of a client are messages of the protocol. *)
LEMMA ClientMessages ==
  ASSUME ClientType, NEW c \in Clients
  PROVE  SetupMessage(c) \in Messages /\ RequestMessage(c) \in Messages
<1>1. request_count[c] \in Nat /\ RecvFrom \in Nat
  BY RoleFacts DEF ClientType
<1>. QED  BY <1>1 DEF SetupMessage, RequestMessage, Message, Messages, Plain

(* What a replica gets when it takes a message. *)
LEMMA TakesMessage ==
  ASSUME TypeOK, NEW r \in Replicas, NEW src \in Nodes, NEW t, Takes(r, src, t)
  PROVE  /\ net' \in Channels(Messages)
         /\ pc[r] = "poll"
         /\ net[src][r] # << >> /\ net[src][r] \in Seq(Messages)
         /\ Head(net[src][r]) \in Messages
         /\ Head(net[src][r]).tag = t
         /\ net'[src][r] = Tail(net[src][r])
         /\ \A x, y \in Nodes : x # src \/ y # r => net'[x][y] = net[x][y]
<1>1. net \in Channels(Messages) /\ r \in Nodes
  BY RoleFacts DEF TypeOK
<1>2. net[src][r] \in Seq(Messages)
  BY <1>1 DEF Channels
<1>. QED  BY <1>1, <1>2, TakesFacts

(* What it does to the channels when it sends its buffer. *)
LEMMA SendsMessage ==
  ASSUME TypeOK, NEW r \in Replicas, NEW d \in Nodes, pc[r] # "poll",
         net' = Sent(net, r, d, msg[r])
  PROVE  /\ net' \in Channels(Messages)
         /\ msg[r] \in Messages
         /\ net[r][d] \in Seq(Messages)
         /\ net'[r][d] = Append(net[r][d], msg[r])
         /\ \A x, y \in Nodes : x # r \/ y # d => net'[x][y] = net[x][y]
<1>. PICK n, m : n = net /\ m = msg[r]
  OBVIOUS
<1>1. n \in Channels(Messages) /\ m \in Messages /\ r \in Nodes
  BY RoleFacts DEF TypeOK
<1>2. n[r][d] \in Seq(Messages)
  BY <1>1 DEF Channels
<1>3. Sent(n, r, d, m) \in Channels(Messages)
  BY <1>1, SentFacts
<1>4. \A x, y \in Nodes : Sent(n, r, d, m)[x][y] =
        IF x = r /\ y = d THEN Append(n[r][d], m) ELSE n[x][y]
  BY <1>1, SentFacts
<1>. QED  BY <1>1, <1>2, <1>3, <1>4

(* A replica that enters a place in a handler with a message in its buffer.*)
LEMMA EntersType ==
  ASSUME TypeOK, NEW r \in Replicas, NEW where, NEW m \in Messages, Enters(r, where, m),
         where \in LeaderPCs \cup AcceptorPCs,
         r = Leader => where \in LeaderPCs /\ (where = "respond" => RecvFrom = Leader),
         r = Acceptor => where \in AcceptorPCs /\ m \in Learns,
         r \in Learners => where \in LearnerPCs
  PROVE  /\ pc' \in [Replicas -> LeaderPCs \cup AcceptorPCs]
         /\ pc'[Leader] \in LeaderPCs /\ pc'[Acceptor] \in AcceptorPCs
         /\ \A q \in Learners : pc'[q] \in LearnerPCs
         /\ pc'[Leader] = "respond" => RecvFrom = Leader
         /\ msg' \in [Replicas -> Messages \cup {NoMsg}]
         /\ \A q \in Replicas : pc'[q] # "poll" => msg'[q] \in Messages
         /\ pc'[Acceptor] # "poll" => msg'[Acceptor] \in Learns
         /\ pc'[r] = where /\ msg'[r] = m
         /\ \A q \in Replicas : q # r => pc'[q] = pc[q] /\ msg'[q] = msg[q]
<1>1. /\ pc \in [Replicas -> LeaderPCs \cup AcceptorPCs]
      /\ pc[Leader] \in LeaderPCs /\ pc[Acceptor] \in AcceptorPCs
      /\ \A q \in Learners : pc[q] \in LearnerPCs
      /\ pc[Leader] = "respond" => RecvFrom = Leader
      /\ msg \in [Replicas -> Messages \cup {NoMsg}]
      /\ \A q \in Replicas : pc[q] # "poll" => msg[q] \in Messages
      /\ pc[Acceptor] # "poll" => msg[Acceptor] \in Learns
      /\ pc' = [pc EXCEPT ![r] = where] /\ msg' = [msg EXCEPT ![r] = m]
  BY DEF TypeOK, Enters
<1>2. /\ pc' \in [Replicas -> LeaderPCs \cup AcceptorPCs]
      /\ msg' \in [Replicas -> Messages \cup {NoMsg}]
  BY <1>1
<1>3. /\ pc'[r] = where /\ msg'[r] = m
      /\ \A q \in Replicas : q # r => pc'[q] = pc[q] /\ msg'[q] = msg[q]
  BY <1>1
<1>. QED  BY <1>1, <1>2, <1>3, RoleFacts

(* A replica that returns to its loop. *)
LEMMA ReturnsType ==
  ASSUME TypeOK, NEW r \in Replicas, Returns(r)
  PROVE  /\ pc' \in [Replicas -> LeaderPCs \cup AcceptorPCs]
         /\ pc'[Leader] \in LeaderPCs /\ pc'[Acceptor] \in AcceptorPCs
         /\ \A q \in Learners : pc'[q] \in LearnerPCs
         /\ pc'[Leader] = "respond" => RecvFrom = Leader
         /\ msg' \in [Replicas -> Messages \cup {NoMsg}]
         /\ \A q \in Replicas : pc'[q] # "poll" => msg'[q] \in Messages
         /\ pc'[Acceptor] # "poll" => msg'[Acceptor] \in Learns
         /\ pc'[r] = "poll"
         /\ \A q \in Replicas : q # r => pc'[q] = pc[q] /\ msg'[q] = msg[q]
<1>1. /\ pc \in [Replicas -> LeaderPCs \cup AcceptorPCs]
      /\ pc[Leader] \in LeaderPCs /\ pc[Acceptor] \in AcceptorPCs
      /\ \A q \in Learners : pc[q] \in LearnerPCs
      /\ pc[Leader] = "respond" => RecvFrom = Leader
      /\ msg \in [Replicas -> Messages \cup {NoMsg}]
      /\ \A q \in Replicas : pc[q] # "poll" => msg[q] \in Messages
      /\ pc[Acceptor] # "poll" => msg[Acceptor] \in Learns
      /\ pc' = [pc EXCEPT ![r] = "poll"] /\ msg' = [msg EXCEPT ![r] = NoMsg]
  BY DEF TypeOK, Returns
<1>2. /\ pc' \in [Replicas -> LeaderPCs \cup AcceptorPCs]
      /\ msg' \in [Replicas -> Messages \cup {NoMsg}]
  BY <1>1 DEF LeaderPCs
<1>3. /\ pc'[r] = "poll"
      /\ \A q \in Replicas : q # r => pc'[q] = pc[q] /\ msg'[q] = msg[q]
  BY <1>1
<1>. QED  BY <1>1, <1>2, <1>3, RoleFacts DEF LeaderPCs, AcceptorPCs, LearnerPCs

(* The id of a request, cut to its width. *)
LEMMA RidType ==
  ASSUME NEW m \in Messages
  PROVE  get_request_id(m) \in Nat
<1>1. PICK k \in Nat : k = m.rid
  BY MessageFacts
<1>2. k % RidMod \in Nat
  BY RidModAssumption
<1>. QED  BY <1>1, <1>2 DEF get_request_id

(* Executing, or passing over, a command keeps the types. *)
LEMMA ExecuteType ==
  ASSUME TypeOK, NEW r \in Replicas, NEW m \in Messages, execute(r, m)
  PROVE  /\ applied' \in [Replicas -> Seq(Commands)]
         /\ last_executed_rid' \in [Replicas -> [Clients -> Int]]
<1>1. /\ applied \in [Replicas -> Seq(Commands)]
      /\ last_executed_rid \in [Replicas -> [Clients -> Int]]
      /\ m.cid \in Clients /\ Command(m) \in Commands
  BY MessageFacts DEF TypeOK, HistoryType
<1>2. CASE IsDuplicate(r, m)
  BY <1>1, <1>2 DEF execute
<1>3. CASE ~IsDuplicate(r, m)
  <2>1. /\ applied' = [applied EXCEPT ![r] = Append(@, Command(m))]
        /\ last_executed_rid' = [last_executed_rid EXCEPT ![r][m.cid] = get_request_id(m)]
    BY <1>3 DEF execute, update_value
  <2>2. Append(applied[r], Command(m)) \in Seq(Commands)
    BY <1>1, AppendProperties
  <2>3. get_request_id(m) \in Int
    BY RidType
  <2>. QED  BY <1>1, <2>1, <2>2, <2>3
<1>. QED  BY <1>2, <1>3

(* The initial states. *)
LEMMA InitType == Init => TypeOK
<1>. SUFFICES ASSUME Init PROVE TypeOK
  OBVIOUS
<1>1. ClientInit /\ ReplicaInit
  BY DEF Init
<1>2. net \in Channels(Messages)
  BY <1>1, EmptySeq DEF ClientInit, EmptyNet, Channels
<1>3. ClientType /\ HistoryType
  BY <1>1, EmptySeq DEF ClientInit, ReplicaInit, ClientType, ClientPCs, HistoryType
<1>4. /\ pc = [r \in Replicas |-> "poll"] /\ msg = [r \in Replicas |-> NoMsg]
  BY <1>1 DEF ReplicaInit
<1>5. /\ dst \in Replicas \ {Acceptor} /\ index \in [Replicas -> Nat]
      /\ proposal_index \in Nat /\ entry_queue \in Int
      /\ last_executed_rid \in [Replicas -> [Clients -> Int]]
  BY RoleFacts DEF Init, NoRid
<1>6. /\ pc \in [Replicas -> LeaderPCs \cup AcceptorPCs]
      /\ msg \in [Replicas -> Messages \cup {NoMsg}]
  BY <1>4 DEF LeaderPCs
<1>7. \A r \in Replicas : pc[r] = "poll"
  BY <1>4
<1>8. pc[Leader] = "poll" /\ pc[Acceptor] = "poll" /\ \A r \in Learners : pc[r] = "poll"
  BY <1>7, RoleFacts
<1>. QED  BY <1>2, <1>3, <1>5, <1>6, <1>7, <1>8
          DEF TypeOK, LeaderPCs, AcceptorPCs, LearnerPCs

(* Every step keeps the types. *)
LEMMA TypeStep == TypeOK /\ [Next]_vars => TypeOK'
<1>. SUFFICES ASSUME TypeOK, [Next]_vars PROVE TypeOK'
  OBVIOUS
<1>1. CASE UNCHANGED vars
  BY <1>1 DEF vars, clientVars, replicaVars, onepaxosVars, TypeOK, ClientType, HistoryType
<1>2. ASSUME NEW c \in Clients, ClientMoves(c)
      PROVE  TypeOK'
  <2>1. UNCHANGED <<pc, msg, log, applied, dst, index, proposal_index, entry_queue,
                    last_executed_rid>>
    BY <1>2 DEF ClientMoves, replicaVars, onepaxosVars
  <2>2. net' \in Channels(Messages) /\ ClientType'
    BY <1>2, ClientMessages, ClientStepFacts DEF ClientMoves, TypeOK
  <2>. QED  BY <2>1, <2>2 DEF TypeOK, HistoryType
<1>3. ASSUME NEW c \in Clients, handle_setup(c)
      PROVE  TypeOK'
  <2>1. PICK m : m = Head(net[c][Leader])
    OBVIOUS
  <2>2. /\ Takes(Leader, c, "SETUP") /\ Enters(Leader, "setup", m)
        /\ UNCHANGED <<cpc, request_count, log, applied, dst, index, proposal_index,
                       entry_queue, last_executed_rid>>
    BY <1>3, <2>1 DEF handle_setup, onepaxosVars
  <2>3. net' \in Channels(Messages) /\ m \in Messages
    BY <2>1, <2>2, RoleFacts, TakesMessage
  <2>. QED  BY <2>2, <2>3, RoleFacts, EntersType
            DEF TypeOK, ClientType, HistoryType, LeaderPCs, AcceptorPCs
<1>4. CASE handle_setup_send
  <2>1. PICK d : d = msg[Leader].cid
    OBVIOUS
  <2>2. /\ Sends(Leader, "setup", d) /\ Returns(Leader)
        /\ UNCHANGED <<cpc, request_count, log, applied, dst, index, proposal_index,
                       entry_queue, last_executed_rid>>
    BY <1>4, <2>1 DEF handle_setup_send, onepaxosVars
  <2>3. pc[Leader] = "setup" /\ msg[Leader] \in Messages
    BY <2>2, RoleFacts DEF Sends, TypeOK
  <2>4. d \in Nodes
    BY <2>1, <2>3, MessageFacts, RoleFacts
  <2>5. net' \in Channels(Messages)
    BY <2>2, <2>4, RoleFacts, SendsMessage DEF Sends
  <2>. QED  BY <2>2, <2>5, RoleFacts, ReturnsType DEF TypeOK, ClientType, HistoryType
<1>5. ASSUME NEW c \in Clients, handle_request(c)
      PROVE  TypeOK'
  <2>1. PICK m : m = Head(net[c][Leader])
    OBVIOUS
  <2>2. /\ Takes(Leader, c, "REQ") /\ Enters(Leader, "accept", [m EXCEPT !.tag = "ACC"])
        /\ entry_queue' = entry_queue + 1
        /\ UNCHANGED <<cpc, request_count, log, applied, dst, index, proposal_index,
                       last_executed_rid>>
    BY <1>5, <2>1 DEF handle_request
  <2>3. net' \in Channels(Messages) /\ [m EXCEPT !.tag = "ACC"] \in Messages
    <3>1. net' \in Channels(Messages) /\ m \in Messages /\ m.tag = "REQ"
      BY <2>1, <2>2, RoleFacts, TakesMessage
    <3>. QED  BY <3>1, MessageFacts, Zenon
  <2>4. entry_queue' \in Int
    BY <2>2 DEF TypeOK
  <2>. QED  BY <2>2, <2>3, <2>4, RoleFacts, EntersType
            DEF TypeOK, ClientType, HistoryType, LeaderPCs, AcceptorPCs
<1>6. CASE handle_request_send
  <2>1. /\ Sends(Leader, "accept", Acceptor) /\ Returns(Leader)
        /\ proposal_index' = proposal_index + 1
        /\ UNCHANGED <<cpc, request_count, log, applied, dst, index, entry_queue,
                       last_executed_rid>>
    BY <1>6 DEF handle_request_send
  <2>2. net' \in Channels(Messages)
    BY <2>1, RoleFacts, SendsMessage DEF Sends
  <2>3. proposal_index' \in Nat
    BY <2>1 DEF TypeOK
  <2>. QED  BY <2>1, <2>2, <2>3, RoleFacts, ReturnsType DEF TypeOK, ClientType, HistoryType
<1>7. CASE handle_accept
  <2>1. PICK m : m = Head(net[Leader][Acceptor])
    OBVIOUS
  <2>2. /\ Takes(Acceptor, Leader, "ACC")
        /\ Enters(Acceptor, "learn", Learn(m, index[Acceptor]))
        /\ log' = Append(log, Command(m)) /\ dst' = Leader
        /\ UNCHANGED <<cpc, request_count, applied, index, proposal_index, entry_queue,
                       last_executed_rid>>
    BY <1>7, <2>1 DEF handle_accept
  <2>3. net' \in Channels(Messages) /\ m \in Messages
    BY <2>1, <2>2, RoleFacts, TakesMessage
  <2>4. index[Acceptor] \in Nat
    BY RoleFacts DEF TypeOK
  <2>5. Learn(m, index[Acceptor]) \in Messages /\ Learn(m, index[Acceptor]) \in Learns
    BY <2>3, <2>4, MessageFacts
  <2>6. log' \in Seq(Commands)
    BY <2>2, <2>3, MessageFacts, AppendProperties DEF TypeOK, HistoryType
  <2>7. /\ pc' \in [Replicas -> LeaderPCs \cup AcceptorPCs]
        /\ pc'[Leader] \in LeaderPCs /\ pc'[Acceptor] \in AcceptorPCs
        /\ \A q \in Learners : pc'[q] \in LearnerPCs
        /\ pc'[Leader] = "respond" => RecvFrom = Leader
        /\ msg' \in [Replicas -> Messages \cup {NoMsg}]
        /\ \A q \in Replicas : pc'[q] # "poll" => msg'[q] \in Messages
        /\ pc'[Acceptor] # "poll" => msg'[Acceptor] \in Learns
    BY <2>2, <2>5, RoleFacts, EntersType DEF LeaderPCs, AcceptorPCs
  <2>8. dst' \in Replicas \ {Acceptor}
    BY <2>2, RoleFacts
  <2>. QED  BY <2>2, <2>3, <2>6, <2>7, <2>8 DEF TypeOK, ClientType, HistoryType
<1>8. CASE handle_accept_send
  <2>1. /\ Sends(Acceptor, "learn", dst)
        /\ UNCHANGED <<cpc, request_count, msg, log, applied, index, proposal_index,
                       entry_queue, last_executed_rid>>
        /\ \/ dst' = Leader /\ pc' = [pc EXCEPT ![Acceptor] = "execute"]
           \/ NextDst(dst) < N /\ dst' = NextDst(dst) /\ pc' = pc
    <3>1. NextDst(dst) \in Nat /\ N \in Nat
      BY ReplicasAssumption DEF TypeOK, Replicas, NextDst, Leader, Acceptor
    <3>. QED  BY <1>8, <3>1 DEF handle_accept_send
  <2>2. pc[Acceptor] = "learn" /\ dst \in Nodes
    BY <2>1, RoleFacts DEF Sends, TypeOK
  <2>3. net' \in Channels(Messages)
    BY <2>1, <2>2, RoleFacts, SendsMessage DEF Sends
  <2>4. dst' \in Replicas \ {Acceptor}
    BY <2>1, LoopFacts, RoleFacts DEF TypeOK
  <2>5. /\ pc' \in [Replicas -> LeaderPCs \cup AcceptorPCs]
        /\ pc'[Acceptor] \in AcceptorPCs
        /\ \A q \in Replicas : q # Acceptor => pc'[q] = pc[q]
    BY <2>1, RoleFacts DEF TypeOK, AcceptorPCs
  <2>6. /\ \A q \in Replicas : pc'[q] # "poll" => msg[q] \in Messages
        /\ msg[Acceptor] \in Learns
    BY <2>2, <2>5 DEF TypeOK
  <2>. QED  BY <2>1, <2>3, <2>4, <2>5, <2>6, RoleFacts DEF TypeOK, ClientType, HistoryType
<1>9. CASE handle_accept_execute
  <2>1. /\ pc[Acceptor] = "execute" /\ execute(Acceptor, msg[Acceptor]) /\ Returns(Acceptor)
        /\ index' = [index EXCEPT ![Acceptor] = msg[Acceptor].index + 1]
        /\ UNCHANGED <<net, cpc, request_count, log, dst, proposal_index, entry_queue>>
    BY <1>9 DEF handle_accept_execute, clientVars
  <2>2. msg[Acceptor] \in Messages /\ msg[Acceptor].index \in Nat
    BY <2>1, RoleFacts DEF TypeOK, Learns
  <2>3. index' \in [Replicas -> Nat]
    <3>1. PICK i \in Nat : i = msg[Acceptor].index + 1
      BY <2>2
    <3>. QED  BY <2>1, <3>1 DEF TypeOK
  <2>. QED  BY <2>1, <2>2, <2>3, RoleFacts, ExecuteType, ReturnsType
            DEF TypeOK, ClientType, HistoryType
<1>10. ASSUME NEW r \in Replicas, r # Acceptor, handle_learn(r)
       PROVE  TypeOK'
  <2>1. PICK m : m = Head(net[Acceptor][r])
    OBVIOUS
  <2>2. /\ Takes(r, Acceptor, "LEARN") /\ execute(r, m)
        /\ index' = [index EXCEPT ![r] = m.index + 1]
        /\ entry_queue' = entry_queue - 1 \/ entry_queue' = entry_queue
        /\ \/ Answers(r, m) /\ Enters(r, "respond", [m EXCEPT !.tag = "RESP"])
           \/ UNCHANGED <<pc, msg>>
        /\ UNCHANGED <<cpc, request_count, log, dst, proposal_index>>
    BY <1>10, <2>1 DEF handle_learn
  <2>3. net' \in Channels(Messages) /\ m \in Messages /\ m.tag = "LEARN"
    BY <2>1, <2>2, RoleFacts, TakesMessage
  <2>4. [m EXCEPT !.tag = "RESP"] \in Messages /\ m.index \in Nat
    BY <2>3, MessageFacts
  <2>5. index' \in [Replicas -> Nat] /\ entry_queue' \in Int
    BY <2>2, <2>4 DEF TypeOK
  <2>6. /\ applied' \in [Replicas -> Seq(Commands)]
        /\ last_executed_rid' \in [Replicas -> [Clients -> Int]]
    BY <2>2, <2>3, ExecuteType
  <2>7. CASE Answers(r, m) /\ Enters(r, "respond", [m EXCEPT !.tag = "RESP"])
    <3>1. r = Leader => RecvFrom = Leader
      BY <2>7, RoleFacts DEF Answers
    <3>2. /\ pc' \in [Replicas -> LeaderPCs \cup AcceptorPCs]
          /\ pc'[Leader] \in LeaderPCs /\ pc'[Acceptor] \in AcceptorPCs
          /\ \A q \in Learners : pc'[q] \in LearnerPCs
          /\ pc'[Leader] = "respond" => RecvFrom = Leader
          /\ msg' \in [Replicas -> Messages \cup {NoMsg}]
          /\ \A q \in Replicas : pc'[q] # "poll" => msg'[q] \in Messages
          /\ pc'[Acceptor] # "poll" => msg'[Acceptor] \in Learns
      BY <1>10, <2>4, <2>7, <3>1, RoleFacts, EntersType DEF LeaderPCs, AcceptorPCs, LearnerPCs
    <3>. QED  BY <2>2, <2>3, <2>5, <2>6, <3>2 DEF TypeOK, ClientType, HistoryType
  <2>8. CASE UNCHANGED <<pc, msg>>
    BY <2>2, <2>3, <2>5, <2>6, <2>8 DEF TypeOK, ClientType, HistoryType
  <2>. QED  BY <2>2, <2>7, <2>8
<1>11. ASSUME NEW r \in Replicas, handle_learn_respond(r)
       PROVE  TypeOK'
  <2>1. PICK d : d = msg[r].cid
    OBVIOUS
  <2>2. /\ Sends(r, "respond", d) /\ Returns(r)
        /\ UNCHANGED <<cpc, request_count, log, applied, dst, index, proposal_index,
                       entry_queue, last_executed_rid>>
    BY <1>11, <2>1 DEF handle_learn_respond, onepaxosVars
  <2>3. pc[r] = "respond" /\ msg[r] \in Messages
    BY <2>2 DEF Sends, TypeOK
  <2>4. d \in Nodes
    BY <2>1, <2>3, MessageFacts, RoleFacts
  <2>5. net' \in Channels(Messages)
    BY <2>2, <2>4, SendsMessage DEF Sends
  <2>. QED  BY <2>2, <2>5, ReturnsType DEF TypeOK, ClientType, HistoryType
<1>. QED  BY <1>1, <1>2, <1>3, <1>4, <1>5, <1>6, <1>7, <1>8, <1>9, <1>10, <1>11, RoleFacts
          DEF Next, LeaderReceive, LeaderContinue, AcceptorStep, LearnerStep, Terminated

(***************************************************************************)
(* The types, for every way the constants can be chosen.                   *)
(***************************************************************************)
THEOREM TypeCorrect == Spec => []TypeOK
BY InitType, TypeStep, PTL DEF Spec


------------------------------------------------------------------------------
(* The order of the commands *)

(* What the acceptor holds, when a step changes nothing of it. *)
LEMMA AcceptorFrame ==
  ASSUME AcceptorHolds, log' = log, index'[Acceptor] = index[Acceptor],
         proposal_index' = proposal_index,
         pc'[Acceptor] = pc[Acceptor], msg'[Acceptor] = msg[Acceptor],
         net'[Leader][Acceptor] = net[Leader][Acceptor]
  PROVE  AcceptorHolds'
BY DEF AcceptorHolds, Command, Acceptor, Leader

(* The LEARNs in transit, likewise. *)
LEMMA LearnsFrame ==
  ASSUME LearnsInTransit, log' = log, pc'[Acceptor] = pc[Acceptor], dst' = dst,
         \A r \in Replicas \ {Acceptor} : /\ index'[r] = index[r]
                                          /\ net'[Acceptor][r] = net[Acceptor][r]
  PROVE  LearnsInTransit'
<1>. SUFFICES ASSUME NEW r \in Replicas \ {Acceptor}
              PROVE  /\ index'[r] + Len(net'[Acceptor][r]) = LearnsSent(r)'
                     /\ \A k \in 1 .. Len(net'[Acceptor][r]) :
                          /\ net'[Acceptor][r][k].index = index'[r] + k - 1
                          /\ Command(net'[Acceptor][r][k]) = log'[index'[r] + k]
  BY DEF LearnsInTransit, Acceptor, Command
<1>1. LearnsSent(r)' = LearnsSent(r)
  BY DEF LearnsSent, Acceptor
<1>. QED  BY <1>1 DEF LearnsInTransit

(* The queue of the leader, likewise. *)
LEMMA QueueFrame ==
  ASSUME EntryQueueBounded, index'[Leader] = index[Leader],
         proposal_index' = proposal_index, entry_queue' = entry_queue,
         (pc'[Leader] = "accept") <=> (pc[Leader] = "accept")
  PROVE  EntryQueueBounded'
BY DEF EntryQueueBounded, Leader

(* What the acceptor has sent is ordered, and no more. *)
LEMMA SentBounds ==
  ASSUME TypeOK, AcceptorHolds, NEW r \in Replicas \ {Acceptor}
  PROVE  /\ Len(log) \in Nat /\ LearnsSent(r) <= Len(log) /\ LearnsSent(r) \in Int
         /\ Len(log) <= proposal_index /\ proposal_index \in Nat
         /\ Len(net[Leader][Acceptor]) \in Nat
<1>1. /\ Len(log) \in Nat /\ proposal_index \in Nat
      /\ Len(net[Leader][Acceptor]) \in Nat
  BY RoleFacts, LenProperties DEF TypeOK, HistoryType, Channels
<1>2. proposal_index = Len(log) + Len(net[Leader][Acceptor])
  BY DEF AcceptorHolds
<1>3. LearnsSent(r) <= Len(log) /\ LearnsSent(r) \in Int
  BY <1>1 DEF LearnsSent
<1>. QED  BY <1>1, <1>2, <1>3

(* The initial states. *)
LEMMA InitOrder == Init => OrderInv
<1>. SUFFICES ASSUME Init PROVE OrderInv
  OBVIOUS
<1>1. /\ log = << >> /\ index = [r \in Replicas |-> 0] /\ proposal_index = 0
      /\ entry_queue = 0
      /\ \A r \in Replicas : pc[r] = "poll"
      /\ \A x, y \in Nodes : net[x][y] = << >>
  BY DEF Init, ClientInit, ReplicaInit, EmptyNet
<1>2. Len(log) = 0 /\ \A x, y \in Nodes : Len(net[x][y]) = 0
  BY <1>1, EmptySeq
<1>3. pc[Leader] = "poll" /\ pc[Acceptor] = "poll" /\ index[Leader] = 0 /\ index[Acceptor] = 0
  BY <1>1, RoleFacts
<1>4. AcceptorHolds
  BY <1>1, <1>2, <1>3, RoleFacts DEF AcceptorHolds
<1>5. LearnsInTransit
  BY <1>1, <1>2, <1>3, RoleFacts DEF LearnsInTransit, LearnsSent
<1>6. EntryQueueBounded
  BY <1>1, <1>3 DEF EntryQueueBounded
<1>. QED  BY <1>4, <1>5, <1>6, InitType DEF OrderInv

(* The leader takes a request: its queue grows with what it holds. *)
LEMMA OrderRequest ==
  ASSUME OrderInv, NEW c \in Clients, handle_request(c)
  PROVE  AcceptorHolds' /\ LearnsInTransit' /\ EntryQueueBounded'
<1>. USE DEF OrderInv
<1>1. PICK m : m = [Head(net[c][Leader]) EXCEPT !.tag = "ACC"]
  OBVIOUS
<1>2. /\ Takes(Leader, c, "REQ") /\ Enters(Leader, "accept", m)
      /\ entry_queue' = entry_queue + 1
      /\ UNCHANGED <<log, dst, index, proposal_index>>
  BY <1>1 DEF handle_request
<1>3. /\ pc[Leader] = "poll"
      /\ \A x, y \in Nodes : x # c \/ y # Leader => net'[x][y] = net[x][y]
  BY <1>2, RoleFacts, TakesMessage
<1>4. /\ pc'[Leader] = "accept"
      /\ pc'[Acceptor] = pc[Acceptor] /\ msg'[Acceptor] = msg[Acceptor]
  BY <1>2, RoleFacts DEF TypeOK, Enters
<1>5. /\ net'[Leader][Acceptor] = net[Leader][Acceptor]
      /\ \A r \in Replicas : net'[Acceptor][r] = net[Acceptor][r]
  BY <1>3, RoleFacts
<1>6. AcceptorHolds' /\ LearnsInTransit'
  BY <1>2, <1>4, <1>5, AcceptorFrame, LearnsFrame
<1>7. /\ proposal_index >= index[Leader]
      /\ entry_queue <= (proposal_index - index[Leader]) + 1
      /\ entry_queue >= proposal_index - index[Leader]
      /\ entry_queue \in Int /\ proposal_index \in Nat /\ index[Leader] \in Nat
  BY <1>3, RoleFacts DEF EntryQueueBounded, TypeOK
<1>8. EntryQueueBounded'
  BY <1>2, <1>4, <1>7 DEF EntryQueueBounded, Leader
<1>. QED  BY <1>6, <1>8

(* The leader proposes the request. *)
LEMMA OrderPropose ==
  ASSUME OrderInv, handle_request_send
  PROVE  AcceptorHolds' /\ LearnsInTransit' /\ EntryQueueBounded'
<1>. USE DEF OrderInv
<1>1. /\ Sends(Leader, "accept", Acceptor) /\ Returns(Leader)
      /\ proposal_index' = proposal_index + 1
      /\ UNCHANGED <<log, dst, index, entry_queue>>
  BY DEF handle_request_send
<1>2. /\ pc[Leader] = "accept"
      /\ net[Leader][Acceptor] \in Seq(Messages) /\ msg[Leader] \in Messages
      /\ net'[Leader][Acceptor] = Append(net[Leader][Acceptor], msg[Leader])
      /\ \A x, y \in Nodes : x # Leader \/ y # Acceptor => net'[x][y] = net[x][y]
  <2>1. "accept" # "poll" /\ Sends(Leader, "accept", Acceptor)
    BY <1>1
  <2>. QED  BY <2>1, RoleFacts, SendsMessage DEF Sends
<1>3. /\ pc'[Leader] = "poll"
      /\ pc'[Acceptor] = pc[Acceptor] /\ msg'[Acceptor] = msg[Acceptor]
  BY <1>1, RoleFacts DEF TypeOK, Returns
<1>4. /\ Len(net'[Leader][Acceptor]) = Len(net[Leader][Acceptor]) + 1
      /\ Len(net[Leader][Acceptor]) \in Nat /\ Len(log) \in Nat
  BY <1>2, AppendProperties, LenProperties DEF TypeOK, HistoryType
<1>5. AcceptorHolds'
  <2>1. proposal_index' = Len(log') + Len(net'[Leader][Acceptor])
    BY <1>1, <1>4 DEF AcceptorHolds, TypeOK
  <2>. QED  BY <1>1, <1>3, <2>1 DEF AcceptorHolds, Command, Acceptor, Leader
<1>6. LearnsInTransit'
  BY <1>1, <1>2, <1>3, RoleFacts, LearnsFrame
<1>7. /\ proposal_index >= index[Leader]
      /\ entry_queue <= (proposal_index - index[Leader]) + 2
      /\ entry_queue >= (proposal_index - index[Leader]) + 1
      /\ entry_queue \in Int /\ proposal_index \in Nat /\ index[Leader] \in Nat
  BY <1>2, RoleFacts DEF EntryQueueBounded, TypeOK
<1>8. EntryQueueBounded'
  BY <1>1, <1>3, <1>7 DEF EntryQueueBounded, Leader
<1>. QED  BY <1>5, <1>6, <1>8

(* The acceptor orders a request, and has sent no LEARN for it. *)
LEMMA OrderAccept ==
  ASSUME OrderInv, handle_accept
  PROVE  AcceptorHolds' /\ LearnsInTransit' /\ EntryQueueBounded'
<1>. USE DEF OrderInv
<1>1. PICK m : m = Head(net[Leader][Acceptor])
  OBVIOUS
<1>2. /\ Takes(Acceptor, Leader, "ACC")
      /\ Enters(Acceptor, "learn", Learn(m, index[Acceptor]))
      /\ log' = Append(log, Command(m)) /\ dst' = Leader
      /\ UNCHANGED <<index, proposal_index, entry_queue>>
  BY <1>1 DEF handle_accept
<1>3. /\ pc[Acceptor] = "poll" /\ m \in Messages
      /\ net[Leader][Acceptor] # << >> /\ net[Leader][Acceptor] \in Seq(Messages)
      /\ net'[Leader][Acceptor] = Tail(net[Leader][Acceptor])
      /\ \A x, y \in Nodes : x # Leader \/ y # Acceptor => net'[x][y] = net[x][y]
  BY <1>1, <1>2, RoleFacts, TakesMessage
<1>4. /\ pc'[Acceptor] = "learn" /\ pc'[Leader] = pc[Leader]
      /\ msg'[Acceptor] = Learn(m, index[Acceptor])
  BY <1>2, RoleFacts DEF TypeOK, Enters
<1>5. /\ Len(net'[Leader][Acceptor]) = Len(net[Leader][Acceptor]) - 1
      /\ Len(net[Leader][Acceptor]) \in Nat
  BY <1>3, HeadTailProperties, LenProperties
<1>6. /\ Len(log) \in Nat /\ Len(log') = Len(log) + 1 /\ log'[Len(log) + 1] = Command(m)
      /\ \A i \in 1 .. Len(log) : log'[i] = log[i]
  BY <1>2, <1>3, MessageFacts, LogAppend DEF TypeOK
<1>7. Len(log) = index[Acceptor] /\ index[Acceptor] \in Nat
  BY <1>3, RoleFacts DEF AcceptorHolds, TypeOK
<1>8. AcceptorHolds'
  <2>1. proposal_index' = Len(log') + Len(net'[Leader][Acceptor])
    <3>1. PICK l, s \in Nat : l = Len(log) /\ s = Len(net[Leader][Acceptor])
      BY <1>5, <1>6
    <3>2. proposal_index' = l + s
      BY <1>2, <3>1 DEF AcceptorHolds
    <3>3. Len(log') = l + 1 /\ Len(net'[Leader][Acceptor]) = s - 1
      BY <1>5, <1>6, <3>1
    <3>4. l + s = (l + 1) + (s - 1)
      OBVIOUS
    <3>. QED  BY <3>2, <3>3, <3>4
  <2>2. Learn(m, index[Acceptor]).index = index[Acceptor]
    BY DEF Learn
  <2>3. Command(Learn(m, index[Acceptor])) = Command(m)
    BY DEF Learn, Command
  <2>4. Len(log') = index'[Acceptor] + 1 /\ log'[Len(log')] = Command(m)
    BY <1>2, <1>6, <1>7
  <2>. QED  BY <1>2, <1>4, <2>1, <2>2, <2>3, <2>4 DEF AcceptorHolds, Acceptor, Leader, Command
<1>9. LearnsInTransit'
  <2>. SUFFICES ASSUME NEW r \in Replicas \ {Acceptor}
                PROVE  /\ index'[r] + Len(net'[Acceptor][r]) = LearnsSent(r)'
                       /\ \A k \in 1 .. Len(net'[Acceptor][r]) :
                            /\ net'[Acceptor][r][k].index = index'[r] + k - 1
                            /\ Command(net'[Acceptor][r][k]) = log'[index'[r] + k]
    BY DEF LearnsInTransit, Acceptor, Command
  <2>1. net'[Acceptor][r] = net[Acceptor][r] /\ index'[r] = index[r]
    BY <1>2, <1>3, RoleFacts
  <2>2. Leader <= r
    BY LoopFacts DEF TypeOK
  <2>3. LearnsSent(r) = Len(log) /\ LearnsSent(r)' = Len(log)
    BY <1>2, <1>3, <1>4, <1>6, <2>2 DEF LearnsSent, Acceptor
  <2>4. index[r] \in Nat /\ Len(net[Acceptor][r]) \in Nat
    BY RoleFacts, LenProperties DEF TypeOK, Channels
  <2>5. /\ index[r] + Len(net[Acceptor][r]) = Len(log)
        /\ \A k \in 1 .. Len(net[Acceptor][r]) :
             /\ net[Acceptor][r][k].index = index[r] + k - 1
             /\ Command(net[Acceptor][r][k]) = log[index[r] + k]
    BY <2>3 DEF LearnsInTransit
  <2>6. \A k \in 1 .. Len(net[Acceptor][r]) : log'[index[r] + k] = log[index[r] + k]
    BY <1>6, <2>4, <2>5
  <2>. QED  BY <2>1, <2>3, <2>5, <2>6
<1>10. EntryQueueBounded'
  BY <1>2, <1>4, QueueFrame
<1>. QED  BY <1>8, <1>9, <1>10

(* The acceptor sends a LEARN, to the replica that its loop has reached. *)
LEMMA OrderLearn ==
  ASSUME OrderInv, handle_accept_send
  PROVE  AcceptorHolds' /\ LearnsInTransit' /\ EntryQueueBounded'
<1>. USE DEF OrderInv
<1>1. /\ Sends(Acceptor, "learn", dst)
      /\ UNCHANGED <<msg, log, index, proposal_index, entry_queue>>
      /\ \/ NextDst(dst) >= N /\ dst' = Leader /\ pc' = [pc EXCEPT ![Acceptor] = "execute"]
         \/ ~(NextDst(dst) >= N) /\ dst' = NextDst(dst) /\ pc' = pc
  BY DEF handle_accept_send
<1>2. dst \in Replicas \ {Acceptor} /\ dst \in Nodes
  BY RoleFacts DEF TypeOK
<1>3. /\ pc[Acceptor] = "learn"
      /\ net[Acceptor][dst] \in Seq(Messages) /\ msg[Acceptor] \in Messages
      /\ net'[Acceptor][dst] = Append(net[Acceptor][dst], msg[Acceptor])
      /\ \A x, y \in Nodes : x # Acceptor \/ y # dst => net'[x][y] = net[x][y]
  <2>1. "learn" # "poll" /\ Sends(Acceptor, "learn", dst)
    BY <1>1
  <2>. QED  BY <1>2, <2>1, RoleFacts, SendsMessage DEF Sends
<1>4. /\ pc'[Acceptor] \in {"learn", "execute"} /\ pc'[Leader] = pc[Leader]
  BY <1>1, <1>3, RoleFacts DEF TypeOK
<1>5. /\ Len(log) = index[Acceptor] + 1 /\ msg[Acceptor].index = index[Acceptor]
      /\ Command(msg[Acceptor]) = log[Len(log)]
      /\ index[Acceptor] \in Nat /\ Len(log) \in Nat
  BY <1>3, RoleFacts, LenProperties DEF AcceptorHolds, TypeOK, HistoryType
<1>6. AcceptorHolds'
  <2>1. net'[Leader][Acceptor] = net[Leader][Acceptor]
    BY <1>3, RoleFacts
  <2>2. proposal_index' = Len(log') + Len(net'[Leader][Acceptor])
    BY <1>1, <2>1 DEF AcceptorHolds
  <2>. QED  BY <1>1, <1>4, <1>5, <2>2 DEF AcceptorHolds, Acceptor, Leader, Command
<1>7. LearnsInTransit'
  <2>. SUFFICES ASSUME NEW r \in Replicas \ {Acceptor}
                PROVE  /\ index'[r] + Len(net'[Acceptor][r]) = LearnsSent(r)'
                       /\ \A k \in 1 .. Len(net'[Acceptor][r]) :
                            /\ net'[Acceptor][r][k].index = index'[r] + k - 1
                            /\ Command(net'[Acceptor][r][k]) = log'[index'[r] + k]
    BY DEF LearnsInTransit, Acceptor, Command
  <2>1. index[r] \in Nat /\ net[Acceptor][r] \in Seq(Messages) /\ Len(net[Acceptor][r]) \in Nat
    BY RoleFacts, LenProperties DEF TypeOK, Channels
  <2>2. /\ index[r] + Len(net[Acceptor][r]) = LearnsSent(r)
        /\ \A k \in 1 .. Len(net[Acceptor][r]) :
             /\ net[Acceptor][r][k].index = index[r] + k - 1
             /\ Command(net[Acceptor][r][k]) = log[index[r] + k]
    BY DEF LearnsInTransit
  <2>3. CASE r # dst
    <3>1. net'[Acceptor][r] = net[Acceptor][r]
      BY <1>3, <2>3, RoleFacts
    <3>2. LearnsSent(r)' = LearnsSent(r)
      <4>1. CASE NextDst(dst) >= N /\ dst' = Leader /\ pc' = [pc EXCEPT ![Acceptor] = "execute"]
        <5>1. ~(dst <= r)
          BY <1>2, <2>3, <4>1, LoopFacts
        <5>2. pc'[Acceptor] = "execute"
          BY <4>1, RoleFacts DEF TypeOK
        <5>. QED  BY <1>1, <5>1, <5>2 DEF LearnsSent, Acceptor
      <4>2. CASE dst' = NextDst(dst) /\ pc' = pc
        <5>1. dst <= r <=> NextDst(dst) <= r
          BY <1>2, <2>3, LoopFacts
        <5>. QED  BY <1>1, <4>2, <5>1 DEF LearnsSent, Acceptor
      <4>. QED  BY <1>1, <4>1, <4>2
    <3>. QED  BY <1>1, <2>2, <3>1, <3>2
  <2>4. CASE r = dst
    <3>1. LearnsSent(r) = Len(log) - 1
      <4>1. dst <= dst
        BY <1>2 DEF Replicas
      <4>. QED  BY <1>3, <2>4, <4>1 DEF LearnsSent
    <3>2. LearnsSent(r)' = Len(log)
      <4>1. CASE NextDst(dst) >= N /\ dst' = Leader /\ pc' = [pc EXCEPT ![Acceptor] = "execute"]
        <5>1. pc'[Acceptor] = "execute"
          BY <4>1, RoleFacts DEF TypeOK
        <5>. QED  BY <1>1, <5>1 DEF LearnsSent, Acceptor
      <4>2. CASE dst' = NextDst(dst) /\ pc' = pc
        <5>1. ~(dst' <= r)
          BY <1>2, <2>4, <4>2, LoopFacts
        <5>. QED  BY <1>1, <5>1 DEF LearnsSent, Acceptor
      <4>. QED  BY <1>1, <4>1, <4>2
    <3>3. /\ Len(net'[Acceptor][r]) = Len(net[Acceptor][r]) + 1
          /\ \A k \in 1 .. Len(net[Acceptor][r]) : net'[Acceptor][r][k] = net[Acceptor][r][k]
          /\ net'[Acceptor][r][Len(net[Acceptor][r]) + 1] = msg[Acceptor]
      BY <1>3, <2>4, AppendProperties
    <3>4. index[r] + Len(net[Acceptor][r]) = Len(log) - 1
      BY <2>2, <3>1
    <3>5. index'[r] + Len(net'[Acceptor][r]) = LearnsSent(r)'
      BY <1>1, <1>5, <2>1, <3>2, <3>3, <3>4
    <3>6. ASSUME NEW k \in 1 .. Len(net'[Acceptor][r])
          PROVE  /\ net'[Acceptor][r][k].index = index'[r] + k - 1
                 /\ Command(net'[Acceptor][r][k]) = log'[index'[r] + k]
      <4>1. CASE k \in 1 .. Len(net[Acceptor][r])
        BY <1>1, <2>2, <3>3, <4>1
      <4>2. CASE k = Len(net[Acceptor][r]) + 1
        <5>1. index[r] + k - 1 = index[Acceptor] /\ index[r] + k = Len(log)
          BY <1>5, <2>1, <3>4, <4>2
        <5>2. net'[Acceptor][r][k] = msg[Acceptor]
          BY <3>3, <4>2
        <5>3. index'[r] + k - 1 = index[Acceptor] /\ index'[r] + k = Len(log) /\ log' = log
          BY <1>1, <5>1
        <5>4. msg[Acceptor].index = index[Acceptor] /\ Command(msg[Acceptor]) = log[Len(log)]
          BY <1>5
        <5>. QED  BY ONLY <5>2, <5>3, <5>4
      <4>. QED  BY <2>1, <3>3, <4>1, <4>2
    <3>. QED  BY <3>5, <3>6
  <2>. QED  BY <2>3, <2>4
<1>8. EntryQueueBounded'
  BY <1>1, <1>4, QueueFrame
<1>. QED  BY <1>6, <1>7, <1>8

(* The acceptor is done with the command. *)
LEMMA OrderExecute ==
  ASSUME OrderInv, handle_accept_execute
  PROVE  AcceptorHolds' /\ LearnsInTransit' /\ EntryQueueBounded'
<1>. USE DEF OrderInv
<1>1. /\ pc[Acceptor] = "execute" /\ Returns(Acceptor)
      /\ index' = [index EXCEPT ![Acceptor] = msg[Acceptor].index + 1]
      /\ UNCHANGED <<net, log, dst, proposal_index, entry_queue>>
  BY DEF handle_accept_execute, clientVars
<1>2. pc'[Acceptor] = "poll" /\ pc'[Leader] = pc[Leader]
  BY <1>1, RoleFacts DEF TypeOK, Returns
<1>3. index'[Acceptor] = msg[Acceptor].index + 1 /\ \A r \in Replicas \ {Acceptor} : index'[r] = index[r]
  BY <1>1, RoleFacts DEF TypeOK
<1>4. Len(log) = index[Acceptor] + 1 /\ msg[Acceptor].index = index[Acceptor]
  BY <1>1 DEF AcceptorHolds
<1>5. AcceptorHolds'
  BY <1>1, <1>2, <1>3, <1>4 DEF AcceptorHolds, Acceptor, Leader, Command
<1>6. LearnsInTransit'
  <2>. SUFFICES ASSUME NEW r \in Replicas \ {Acceptor}
                PROVE  /\ index'[r] + Len(net'[Acceptor][r]) = LearnsSent(r)'
                       /\ \A k \in 1 .. Len(net'[Acceptor][r]) :
                            /\ net'[Acceptor][r][k].index = index'[r] + k - 1
                            /\ Command(net'[Acceptor][r][k]) = log'[index'[r] + k]
    BY DEF LearnsInTransit, Acceptor, Command
  <2>1. LearnsSent(r)' = LearnsSent(r)
    BY <1>1, <1>2 DEF LearnsSent, Acceptor
  <2>. QED  BY <1>1, <1>3, <2>1 DEF LearnsInTransit
<1>7. EntryQueueBounded'
  BY <1>1, <1>2, <1>3, RoleFacts, QueueFrame
<1>. QED  BY <1>5, <1>6, <1>7

(***************************************************************************)
(* The first LEARN in the channel of a replica is about the command after  *)
(* those that it has executed, and the acceptor has ordered that command.  *)
(***************************************************************************)
LEMMA NextLearn ==
  ASSUME OrderInv, NEW r \in Replicas \ {Acceptor}, net[Acceptor][r] # << >>
  PROVE  LET m == Head(net[Acceptor][r])
             s == Tail(net[Acceptor][r])
         IN  /\ m.index = index[r] /\ Command(m) = log[index[r] + 1]
             /\ index[r] \in Nat /\ index[r] + 1 \in 1 .. Len(log) /\ Len(log) \in Nat
             /\ index[r] + 1 <= proposal_index
             /\ index[r] + 1 + Len(s) = LearnsSent(r)
             /\ \A k \in 1 .. Len(s) : /\ s[k].index = index[r] + 1 + k - 1
                                       /\ Command(s[k]) = log[index[r] + 1 + k]
<1>. USE DEF OrderInv
<1>. PICK m, s : m = Head(net[Acceptor][r]) /\ s = Tail(net[Acceptor][r])
  OBVIOUS
<1>1. index[r] \in Nat /\ net[Acceptor][r] \in Seq(Messages)
  BY RoleFacts DEF TypeOK, Channels
<1>2. /\ Len(s) = Len(net[Acceptor][r]) - 1 /\ Len(net[Acceptor][r]) \in Nat \ {0}
      /\ \A k \in 1 .. Len(s) : s[k] = net[Acceptor][r][k + 1]
      /\ m = net[Acceptor][r][1]
  BY <1>1, HeadTailProperties, LenProperties, EmptySeq
<1>3. /\ index[r] + Len(net[Acceptor][r]) = LearnsSent(r)
      /\ \A k \in 1 .. Len(net[Acceptor][r]) :
           /\ net[Acceptor][r][k].index = index[r] + k - 1
           /\ Command(net[Acceptor][r][k]) = log[index[r] + k]
  BY DEF LearnsInTransit
<1>4. 1 \in 1 .. Len(net[Acceptor][r])
  BY <1>2
<1>5. m.index = index[r] + 1 - 1 /\ Command(m) = log[index[r] + 1]
  BY <1>2, <1>3, <1>4
<1>6. m.index = index[r]
  BY <1>1, <1>5
<1>7. /\ index[r] + 1 + Len(s) = LearnsSent(r)
      /\ index[r] + 1 \in 1 .. Len(log) /\ Len(log) \in Nat /\ index[r] + 1 <= proposal_index
  <2>1. PICK i \in Nat, n \in Nat \ {0} : i = index[r] /\ n = Len(net[Acceptor][r])
    BY <1>1, <1>2
  <2>2. PICK a, l, p : a = LearnsSent(r) /\ l = Len(log) /\ p = proposal_index
    OBVIOUS
  <2>3. l \in Nat /\ p \in Nat /\ a \in Int /\ a <= l /\ l <= p
    BY <2>2, SentBounds
  <2>4. i + n = a /\ Len(s) = n - 1
    BY <1>2, <1>3, <2>1, <2>2
  <2>5. i + 1 + (n - 1) = a /\ i + 1 \in 1 .. l /\ i + 1 <= p
    BY <2>3, <2>4
  <2>. QED  BY <2>1, <2>2, <2>3, <2>4, <2>5
<1>8. ASSUME NEW k \in 1 .. Len(s)
      PROVE  s[k].index = index[r] + 1 + k - 1 /\ Command(s[k]) = log[index[r] + 1 + k]
  <2>1. /\ k + 1 \in 1 .. Len(net[Acceptor][r]) /\ index[r] + (k + 1) = index[r] + 1 + k
        /\ index[r] + (k + 1) - 1 = index[r] + 1 + k - 1
    <3>1. PICK i \in Nat, n \in Nat \ {0} : i = index[r] /\ n = Len(net[Acceptor][r])
      BY <1>1, <1>2
    <3>2. k \in 1 .. n - 1
      BY <1>2, <3>1
    <3>3. k + 1 \in 1 .. n /\ i + (k + 1) = i + 1 + k /\ i + (k + 1) - 1 = i + 1 + k - 1
      BY <3>2
    <3>. QED  BY <3>1, <3>3
  <2>. QED  BY <1>2, <1>3, <2>1
<1>. QED  BY <1>1, <1>5, <1>6, <1>7, <1>8

(* A replica learns; the leader takes an entry off its queue, or not. *)
LEMMA OrderLearnt ==
  ASSUME OrderInv, NEW r \in Replicas \ {Acceptor}, handle_learn(r)
  PROVE  AcceptorHolds' /\ LearnsInTransit' /\ EntryQueueBounded'
<1>. USE DEF OrderInv
<1>1. PICK m : m = Head(net[Acceptor][r])
  OBVIOUS
<1>2. /\ Takes(r, Acceptor, "LEARN")
      /\ index' = [index EXCEPT ![r] = m.index + 1]
      /\ entry_queue' = IF r = Leader /\ dequeues(m.index + 1)
                        THEN entry_queue - 1 ELSE entry_queue
      /\ \/ Enters(r, "respond", [m EXCEPT !.tag = "RESP"])
         \/ UNCHANGED <<pc, msg>>
      /\ UNCHANGED <<log, dst, proposal_index>>
  BY <1>1 DEF handle_learn
<1>3. /\ pc[r] = "poll" /\ net[Acceptor][r] # << >>
      /\ net'[Acceptor][r] = Tail(net[Acceptor][r])
      /\ \A x, y \in Nodes : x # Acceptor \/ y # r => net'[x][y] = net[x][y]
  BY <1>2, RoleFacts, TakesMessage
<1>4. /\ pc'[r] \in {"poll", "respond"}
      /\ \A q \in Replicas : q # r => pc'[q] = pc[q] /\ msg'[q] = msg[q]
  BY <1>2, <1>3 DEF TypeOK, Enters
<1>5. m.index = index[r] /\ index[r] \in Nat
  BY <1>1, <1>3, NextLearn
<1>6. /\ index'[r] = index[r] + 1
      /\ \A q \in Replicas : q # r => index'[q] = index[q]
  BY <1>2, <1>5 DEF TypeOK
<1>7. AcceptorHolds'
  BY <1>2, <1>3, <1>4, <1>6, RoleFacts, AcceptorFrame
<1>8. LearnsInTransit'
  <2>. SUFFICES ASSUME NEW q \in Replicas \ {Acceptor}
                PROVE  /\ index'[q] + Len(net'[Acceptor][q]) = LearnsSent(q)'
                       /\ \A k \in 1 .. Len(net'[Acceptor][q]) :
                            /\ net'[Acceptor][q][k].index = index'[q] + k - 1
                            /\ Command(net'[Acceptor][q][k]) = log'[index'[q] + k]
    BY DEF LearnsInTransit, Acceptor, Command
  <2>1. LearnsSent(q)' = LearnsSent(q)
    BY <1>2, <1>4, RoleFacts DEF LearnsSent, Acceptor
  <2>2. CASE q # r
    BY <1>2, <1>3, <1>6, <2>1, <2>2, RoleFacts DEF LearnsInTransit
  <2>3. CASE q = r
    <3>1. PICK s : s = Tail(net[Acceptor][r])
      OBVIOUS
    <3>2. /\ index[r] + 1 + Len(s) = LearnsSent(r)
          /\ \A k \in 1 .. Len(s) : /\ s[k].index = index[r] + 1 + k - 1
                                    /\ Command(s[k]) = log[index[r] + 1 + k]
      BY <1>3, <3>1, NextLearn
    <3>3. net'[Acceptor][q] = s /\ index'[q] = index[r] + 1 /\ log' = log
      BY <1>2, <1>3, <1>6, <2>3, <3>1
    <3>. QED  BY <2>1, <2>3, <3>2, <3>3
  <2>. QED  BY <2>2, <2>3
<1>9. CASE r # Leader
  BY <1>2, <1>4, <1>6, <1>7, <1>8, <1>9, RoleFacts, QueueFrame
<1>10. CASE r = Leader
  <2>1. PICK e, p, i : e = entry_queue /\ p = proposal_index /\ i = index[Leader]
    OBVIOUS
  <2>2. /\ e \in Int /\ p \in Nat /\ i \in Nat
        /\ e <= (p - i) + 1 /\ e >= p - i
    BY <1>3, <1>10, <2>1, RoleFacts DEF TypeOK, EntryQueueBounded
  <2>3. i + 1 <= p
    BY <1>3, <1>10, <2>1, NextLearn
  <2>4. entry_queue' = IF e > (p - (i + 1)) + 1 THEN e - 1 ELSE e
    BY <1>2, <1>5, <1>10, <2>1 DEF dequeues
  <2>5. entry_queue' <= (p - (i + 1)) + 1 /\ entry_queue' >= p - (i + 1)
    BY <2>2, <2>3, <2>4
  <2>6. pc'[Leader] # "accept" /\ proposal_index' = p /\ index'[Leader] = i + 1
    BY <1>2, <1>4, <1>6, <1>10, <2>1
  <2>7. EntryQueueBounded'
    BY <2>2, <2>3, <2>5, <2>6 DEF EntryQueueBounded, Leader
  <2>. QED  BY <1>7, <1>8, <2>7
<1>. QED  BY <1>9, <1>10

(* Every step keeps the order. *)
LEMMA OrderStep == OrderInv /\ [Next]_vars => OrderInv'
<1>. SUFFICES ASSUME OrderInv, [Next]_vars
              PROVE  AcceptorHolds' /\ LearnsInTransit' /\ EntryQueueBounded'
  BY TypeStep DEF OrderInv
<1>. USE DEF OrderInv
<1>1. CASE UNCHANGED vars
  BY <1>1, AcceptorFrame, LearnsFrame, QueueFrame
     DEF vars, clientVars, replicaVars, onepaxosVars
<1>2. ASSUME NEW c \in Clients, ClientMoves(c)
      PROVE  AcceptorHolds' /\ LearnsInTransit' /\ EntryQueueBounded'
  <2>1. UNCHANGED <<pc, msg, log, dst, index, proposal_index, entry_queue>>
    BY <1>2 DEF ClientMoves, replicaVars, onepaxosVars
  <2>2. ClientEffect(c)
    BY <1>2, ClientMessages, ClientStepFacts DEF ClientMoves, TypeOK
  <2>3. \A x, y \in Replicas : net'[x][y] = net[x][y]
    BY <2>2, ClientFrame, RoleFacts
  <2>. QED  BY <2>1, <2>3, RoleFacts, AcceptorFrame, LearnsFrame, QueueFrame
<1>3. ASSUME NEW c \in Clients, handle_setup(c)
      PROVE  AcceptorHolds' /\ LearnsInTransit' /\ EntryQueueBounded'
  <2>1. PICK m : m = Head(net[c][Leader])
    OBVIOUS
  <2>2. /\ Takes(Leader, c, "SETUP") /\ Enters(Leader, "setup", m)
        /\ UNCHANGED <<log, dst, index, proposal_index, entry_queue>>
    BY <1>3, <2>1 DEF handle_setup, onepaxosVars
  <2>3. /\ pc[Leader] = "poll"
        /\ \A x, y \in Nodes : x # c \/ y # Leader => net'[x][y] = net[x][y]
    BY <2>2, RoleFacts, TakesMessage
  <2>4. /\ pc'[Leader] = "setup"
        /\ pc'[Acceptor] = pc[Acceptor] /\ msg'[Acceptor] = msg[Acceptor]
    BY <2>2, RoleFacts DEF TypeOK, Enters
  <2>5. \A x, y \in Replicas : net'[x][y] = net[x][y]
    BY <2>3, RoleFacts
  <2>. QED  BY <2>2, <2>3, <2>4, <2>5, RoleFacts, AcceptorFrame, LearnsFrame, QueueFrame
<1>4. ASSUME NEW r \in Replicas, r # Acceptor, NEW where, where \in {"setup", "respond"},
             NEW d, d = msg[r].cid, Sends(r, where, d), Returns(r),
             UNCHANGED <<log, onepaxosVars>>
      PROVE  AcceptorHolds' /\ LearnsInTransit' /\ EntryQueueBounded'
  <2>1. pc[r] = where /\ msg[r] \in Messages
    BY <1>4 DEF Sends, TypeOK
  <2>2. d \in Clients
    BY <1>4, <2>1, MessageFacts
  <2>3. \A x, y \in Nodes : x # r \/ y # d => net'[x][y] = net[x][y]
    <3>1. where # "poll" /\ d \in Nodes /\ Sends(r, where, d)
      BY <1>4, <2>2, RoleFacts
    <3>. QED  BY <3>1, SendsMessage DEF Sends
  <2>4. \A x, y \in Replicas : net'[x][y] = net[x][y]
    BY <2>2, <2>3, RoleFacts
  <2>5. /\ pc'[Acceptor] = pc[Acceptor] /\ msg'[Acceptor] = msg[Acceptor]
        /\ (pc'[Leader] = "accept") <=> (pc[Leader] = "accept")
    BY <1>4, <2>1, RoleFacts DEF TypeOK, Returns
  <2>6. UNCHANGED <<log, dst, index, proposal_index, entry_queue>>
    BY <1>4 DEF onepaxosVars
  <2>. QED  BY <2>4, <2>5, <2>6, RoleFacts, AcceptorFrame, LearnsFrame, QueueFrame
<1>5. CASE handle_setup_send
  BY <1>4, <1>5, RoleFacts DEF handle_setup_send
<1>6. ASSUME NEW r \in Replicas, handle_learn_respond(r)
      PROVE  AcceptorHolds' /\ LearnsInTransit' /\ EntryQueueBounded'
  <2>1. r # Acceptor
    BY <1>6 DEF handle_learn_respond, Sends, TypeOK, AcceptorPCs
  <2>. QED  BY <1>4, <1>6, <2>1 DEF handle_learn_respond
<1>. QED  BY <1>1, <1>2, <1>3, <1>5, <1>6, OrderRequest, OrderPropose, OrderAccept, OrderLearn,
             OrderExecute, OrderLearnt, RoleFacts
          DEF Next, LeaderReceive, LeaderContinue, AcceptorStep, LearnerStep, Terminated

(* The order of the commands, however many requests there are. *)
THEOREM OrderCorrect == Spec => []OrderInv
BY InitOrder, OrderStep, PTL DEF Spec

(***************************************************************************)
(* A replica that takes over the index of a LEARN takes over the next one: *)
(* no LEARN is lost, doubled or out of order on its way.                   *)
(***************************************************************************)
THEOREM LearnsInTransitCorrect == Spec => []LearnsInTransit
BY OrderCorrect, PTL DEF OrderInv

(***************************************************************************)
(* The queue of the leader, which handle_learn shortens by a comparison of *)
(* sizes only, is as long as the requests under way, or one longer.        *)
(***************************************************************************)
THEOREM EntryQueueBoundedCorrect == Spec => []EntryQueueBounded
BY OrderCorrect, PTL DEF OrderInv

------------------------------------------------------------------------------
(* The answers *)

(* What holds of the messages of client c, where a step changes nothing of *)
(* c's but takes it out of a place, orders other commands or executes some.*)
LEMMA MessageFrame ==
  ASSUME NEW c \in Clients, OneMessage(c),
         cpc'[c] = cpc[c], request_count'[c] = request_count[c],
         net'[c][Leader] = net[c][Leader], net'[Leader][c] = net[Leader][c],
         net'[RecvFrom][c] = net[RecvFrom][c],
         InSetup(c)' => InSetup(c),
         Proposing(c)' => Proposing(c) /\ Command(msg'[Leader]) = Command(msg[Leader]),
         Answering(c)' => Answering(c) /\ Command(msg'[RecvFrom]) = Command(msg[RecvFrom]),
         Proposed(c)' => Proposed(c),
         HasOnly(net'[Leader][Acceptor], c, Current(c)),
         InLog(Current(c))' => InLog(Current(c)),
         Executed(Current(c)) => Executed(Current(c))'
  PROVE  OneMessage(c)'
<1>. PICK asked, welcome, answer, cur :
       asked = net[c][Leader] /\ welcome = net[Leader][c] /\ answer = net[RecvFrom][c]
       /\ cur = Current(c)
  OBVIOUS
<1>1. /\ net'[c][Leader] = asked /\ net'[Leader][c] = welcome /\ net'[RecvFrom][c] = answer
      /\ Current(c)' = cur /\ SetupMessage(c)' = SetupMessage(c)
      /\ RequestMessage(c)' = RequestMessage(c)
  BY DEF Current, SetupMessage, RequestMessage
<1>2. asked # << >> =>
        /\ ~InSetup(c)' /\ ~Proposing(c)' /\ ~Proposed(c)'
        /\ \/ cpc'[c] = "joining" /\ asked = <<SetupMessage(c)>> /\ welcome = << >>
           \/ cpc'[c] = "waiting" /\ asked = <<RequestMessage(c)>>
  BY DEF OneMessage
<1>3. InSetup(c)' => cpc'[c] = "joining" /\ welcome = << >>
  BY DEF OneMessage
<1>4. Proposing(c)' => /\ cpc'[c] = "waiting" /\ Command(msg'[Leader]) = cur
                       /\ ~InLog(Current(c))' /\ ~Proposed(c)'
  BY DEF OneMessage
<1>5. Proposed(c)' => cpc'[c] = "waiting" /\ ~InLog(Current(c))'
  BY DEF OneMessage
<1>6. Answering(c)' => /\ cpc'[c] = "waiting" /\ Command(msg'[RecvFrom]) = cur
                       /\ Executed(Current(c))' /\ answer = << >>
  BY DEF OneMessage
<1>7. welcome # << >> => Len(welcome) = 1 /\ (cpc'[c] = "joining" \/ RecvFrom = Leader)
  BY DEF OneMessage
<1>8. answer # << >> =>
        /\ Len(answer) = 1
        /\ \/ cpc'[c] = "joining" /\ RecvFrom = Leader
           \/ /\ cpc'[c] = "waiting" /\ Command(answer[1]) = cur
              /\ Executed(Current(c))' /\ ~Answering(c)'
  BY DEF OneMessage
<1>. QED  BY <1>1, <1>2, <1>3, <1>4, <1>5, <1>6, <1>7, <1>8, Zenon
          DEF OneMessage, Command, Leader, Acceptor

(* What holds of the requests of c, where nothing is ordered. *)
LEMMA RestFrame ==
  ASSUME NEW c \in Clients, OnlyIssued(c), PastExecuted(c), CountBounded(c),
         cpc'[c] = cpc[c], request_count'[c] = request_count[c], log' = log,
         net[c][Leader] = << >> => net'[c][Leader] = << >>,
         \A cmd : Executed(cmd) => Executed(cmd)'
  PROVE  OnlyIssued(c)' /\ PastExecuted(c)' /\ CountBounded(c)'
<1>1. CountBounded(c)'
  BY DEF CountBounded
<1>2. ASSUME NEW i \in 1 .. Len(log') PROVE Issued(c, log[i])'
  <2>. PICK cmd : cmd = log[i]
    OBVIOUS
  <2>1. Issued(c, cmd)
    BY DEF OnlyIssued
  <2>2. cmd[1] = c => \/ cmd[2] < request_count'[c]
                      \/ /\ cmd = <<c, request_count'[c]>> /\ cpc'[c] = "waiting"
                         /\ net'[c][Leader] = << >>
    BY <2>1 DEF Issued, Current
  <2>. QED  BY <2>2 DEF Issued, Current, Leader
<1>3. ASSUME NEW k \in 0 .. request_count'[c] - 1 PROVE Executed(<<c, k>>)'
  <2>. PICK cmd : cmd = <<c, k>>
    OBVIOUS
  <2>1. Executed(cmd)
    BY DEF PastExecuted
  <2>2. Executed(cmd)'
    BY <2>1
  <2>. QED  BY <2>2
<1>. QED  BY <1>1, <1>2, <1>3 DEF OnlyIssued, PastExecuted

(* No replica has executed more than is ordered. *)
LEMMA IndexBound ==
  ASSUME OrderInv, NEW r \in Replicas
  PROVE  index[r] \in Nat /\ Len(log) \in Nat /\ index[r] <= Len(log)
<1>. USE DEF OrderInv
<1>1. index[r] \in Nat /\ Len(log) \in Nat
  BY LenProperties DEF TypeOK, HistoryType
<1>2. CASE r = Acceptor
  BY <1>1, <1>2 DEF AcceptorHolds
<1>3. CASE r # Acceptor
  <2>1. PICK a, s : a = LearnsSent(r) /\ s = Len(net[Acceptor][r])
    OBVIOUS
  <2>2. s \in Nat
    BY <2>1, RoleFacts, LenProperties DEF TypeOK, Channels
  <2>3. index[r] + s = a /\ a \in Int /\ a <= Len(log)
    BY <1>3, <2>1, SentBounds DEF LearnsInTransit
  <2>. QED  BY <1>1, <2>2, <2>3
<1>. QED  BY <1>2, <1>3

(* What is executed is ordered. *)
LEMMA ExecutedInLog ==
  ASSUME OrderInv, ExecutesLog, NEW cmd, Executed(cmd)
  PROVE  InLog(cmd)
<1>1. PICK i \in 1 .. Len(applied[RecvFrom]) : applied[RecvFrom][i] = cmd
  BY DEF Executed
<1>2. Len(applied[RecvFrom]) = index[RecvFrom] /\ index[RecvFrom] <= Len(log)
      /\ index[RecvFrom] \in Nat /\ Len(log) \in Nat
  BY RoleFacts, IndexBound DEF ExecutesLog
<1>3. log[i] = cmd
  BY <1>1, <1>2, RoleFacts DEF ExecutesLog
<1>. QED  BY <1>1, <1>2, <1>3 DEF InLog

(* A request that is still in the channel of its client is not ordered. *)
LEMMA AskedNotOrdered ==
  ASSUME TypeOK, NEW c \in Clients, OnlyIssued(c), net[c][Leader] # << >>
  PROVE  ~InLog(Current(c))
<1>. SUFFICES ASSUME InLog(Current(c)) PROVE FALSE
  OBVIOUS
<1>1. PICK i \in 1 .. Len(log) : log[i] = Current(c)
  BY DEF InLog
<1>2. Issued(c, Current(c))
  BY <1>1 DEF OnlyIssued
<1>3. Current(c)[1] = c /\ Current(c)[2] = request_count[c] /\ request_count[c] \in Nat
  BY DEF Current, TypeOK, ClientType
<1>4. ~(Current(c)[2] < request_count[c])
  BY <1>3
<1>. QED  BY <1>2, <1>3, <1>4 DEF Issued

(* What was executed stays executed, and more is. *)
LEMMA ExecutedGrows ==
  ASSUME TypeOK, NEW r \in Replicas, NEW cmd \in Commands,
         applied' = [applied EXCEPT ![r] = Append(@, cmd)]
  PROVE  /\ \A c : Executed(c) => Executed(c)'
         /\ r = RecvFrom => Executed(cmd)'
<1>1. /\ Len(applied[r]) \in Nat /\ Len(applied'[r]) = Len(applied[r]) + 1
      /\ applied'[r][Len(applied[r]) + 1] = cmd
      /\ \A i \in 1 .. Len(applied[r]) : applied'[r][i] = applied[r][i]
      /\ \A q \in Replicas : q # r => applied'[q] = applied[q]
  BY AppliedAppend DEF TypeOK
<1>2. \A i \in 1 .. Len(applied[r]) : i \in 1 .. Len(applied'[r])
  BY <1>1
<1>3. Len(applied[r]) + 1 \in 1 .. Len(applied'[r])
  BY <1>1
<1>4. r = RecvFrom => Executed(cmd)'
  BY <1>1, <1>3 DEF Executed
<1>5. ASSUME NEW c, Executed(c) PROVE Executed(c)'
  <2>1. CASE r = RecvFrom
    BY <1>1, <1>2, <1>5, <2>1 DEF Executed
  <2>2. CASE r # RecvFrom
    BY <1>1, <1>5, <2>2, RoleFacts DEF Executed
  <2>. QED  BY <2>1, <2>2
<1>. QED  BY <1>4, <1>5

(* The bound on the requests of a client is one on the ids in the log. *)
LEMMA RidBound ==
  ASSUME TypeOK, NEW c \in Clients, OnlyIssued(c), CountBounded(c),
         NEW i \in 1 .. Len(log), log[i][1] = c
  PROVE  log[i][2] < MaxReq
<1>1. request_count[c] \in Nat /\ MaxReq \in Nat
  BY MaxReqAssumption DEF TypeOK, ClientType
<1>2. log[i] \in Commands
  BY ElementOfSeq DEF TypeOK, HistoryType
<1>3. log[i][2] \in Nat
  BY <1>2 DEF Commands
<1>4. \/ log[i][2] < request_count[c]
      \/ log[i] = Current(c) /\ cpc[c] = "waiting"
  BY DEF OnlyIssued, Issued
<1>5. CASE log[i][2] < request_count[c]
  BY <1>1, <1>3, <1>5 DEF CountBounded
<1>6. CASE log[i] = Current(c) /\ cpc[c] = "waiting"
  <2>1. log[i][2] = request_count[c]
    BY <1>6 DEF Current
  <2>. QED  BY <1>1, <1>6, <2>1 DEF CountBounded
<1>. QED  BY <1>4, <1>5, <1>6

(***************************************************************************)
(* The command after those that a replica has executed is no duplicate to  *)
(* it: its request id is cut to its own value, and the client's last id is *)
(* of a command further up in the log.                                     *)
(***************************************************************************)
LEMMA NotDuplicate ==
  ASSUME RidsSuffice, IInv, NEW r \in Replicas, NEW m \in Messages,
         index[r] + 1 \in 1 .. Len(log), Command(m) = log[index[r] + 1]
  PROVE  get_request_id(m) = m.rid /\ ~IsDuplicate(r, m)
<1>. USE DEF IInv, OrderInv, AnswersInv
<1>1. m.cid \in Clients /\ m.rid \in Nat /\ Command(m) = <<m.cid, m.rid>>
  BY MessageFacts
<1>2. ClientInv(m.cid)
  BY <1>1
<1>3. log[index[r] + 1][1] = m.cid /\ log[index[r] + 1][2] = m.rid
  BY <1>1
<1>4. m.rid < MaxReq
  BY <1>1, <1>2, <1>3, RidBound DEF ClientInv
<1>5. get_request_id(m) = m.rid
  <2>1. PICK k \in Nat : k = m.rid
    BY <1>1
  <2>2. k < RidMod /\ RidMod \in Nat \ {0}
    BY <1>4, <2>1, MaxReqAssumption, RidModAssumption DEF RidsSuffice
  <2>3. k % RidMod = k
    BY <2>2
  <2>. QED  BY <2>1, <2>3 DEF get_request_id
<1>6. last_executed_rid[r][m.cid] \in Int
  BY <1>1 DEF TypeOK
<1>7. CASE last_executed_rid[r][m.cid] = NoRid
  BY <1>1, <1>5, <1>7 DEF IsDuplicate, NoRid
<1>8. CASE \E i \in 1 .. index[r] : log[i] = <<m.cid, last_executed_rid[r][m.cid]>>
  <2>1. PICK i \in 1 .. index[r] : log[i] = <<m.cid, last_executed_rid[r][m.cid]>>
    BY <1>8
  <2>2. i \in 1 .. Len(log) /\ i < index[r] + 1
    <3>1. index[r] \in Nat /\ Len(log) \in Nat /\ index[r] <= Len(log)
      BY IndexBound
    <3>. QED  BY <3>1
  <2>3. log[i][1] = m.cid /\ log[i][2] = last_executed_rid[r][m.cid]
    BY <2>1
  <2>4. last_executed_rid[r][m.cid] < m.rid
    BY <1>3, <2>2, <2>3 DEF LogSorted
  <2>. QED  BY <1>1, <1>5, <1>6, <2>4 DEF IsDuplicate
<1>9. \/ last_executed_rid[r][m.cid] = NoRid
      \/ \E i \in 1 .. index[r] : log[i] = <<m.cid, last_executed_rid[r][m.cid]>>
  BY <1>1 DEF LastExecuted
<1>. QED  BY <1>5, <1>7, <1>8, <1>9

(* Executing the next command of the log. *)
LEMMA ExecuteStep ==
  ASSUME RidsSuffice, IInv, NEW r \in Replicas, NEW m \in Messages,
         index[r] + 1 \in 1 .. Len(log), Command(m) = log[index[r] + 1],
         execute(r, m), index' = [index EXCEPT ![r] = index[r] + 1], log' = log
  PROVE  /\ ~IsDuplicate(r, m)
         /\ applied' = [applied EXCEPT ![r] = Append(@, Command(m))]
         /\ ExecutesLog' /\ LastExecuted'
<1>. USE DEF IInv, OrderInv, AnswersInv
<1>1. get_request_id(m) = m.rid /\ ~IsDuplicate(r, m)
  BY NotDuplicate
<1>2. /\ applied' = [applied EXCEPT ![r] = Append(@, Command(m))]
      /\ last_executed_rid' = [last_executed_rid EXCEPT ![r][m.cid] = m.rid]
  BY <1>1 DEF execute, update_value
<1>3. /\ m.cid \in Clients /\ m.rid \in Nat /\ Command(m) = <<m.cid, m.rid>>
      /\ Command(m) \in Commands
  BY MessageFacts
<1>4. /\ index[r] \in Nat /\ index'[r] = index[r] + 1
      /\ \A q \in Replicas : q # r => index'[q] = index[q]
  BY DEF TypeOK
<1>5. ExecutesLog'
  <2>1. /\ Len(applied'[r]) = Len(applied[r]) + 1
        /\ applied'[r][Len(applied[r]) + 1] = Command(m)
        /\ \A i \in 1 .. Len(applied[r]) : applied'[r][i] = applied[r][i]
        /\ \A q \in Replicas : q # r => applied'[q] = applied[q]
    BY <1>2, <1>3, AppliedAppend DEF TypeOK
  <2>2. Len(applied[r]) = index[r] /\ \A i \in 1 .. index[r] : applied[r][i] = log[i]
    BY DEF ExecutesLog
  <2>3. \A i \in 1 .. index[r] + 1 : i \in 1 .. index[r] \/ i = index[r] + 1
    BY <1>4
  <2>4. Len(applied'[r]) = index'[r] /\ \A i \in 1 .. index'[r] : applied'[r][i] = log'[i]
    BY <1>4, <2>1, <2>2, <2>3
  <2>. QED  BY <1>4, <2>1, <2>4 DEF ExecutesLog
<1>6. LastExecuted'
  <2>1. /\ last_executed_rid'[r][m.cid] = m.rid
        /\ \A q \in Replicas, c \in Clients :
             q # r \/ c # m.cid => last_executed_rid'[q][c] = last_executed_rid[q][c]
    BY <1>2, <1>3 DEF TypeOK
  <2>2. ASSUME NEW q \in Replicas, NEW c \in Clients
        PROVE  \/ last_executed_rid'[q][c] = NoRid
               \/ \E i \in 1 .. index'[q] : log'[i] = <<c, last_executed_rid'[q][c]>>
    <3>1. CASE q = r /\ c = m.cid
      <4>1. index[r] + 1 \in 1 .. index'[q]
        BY <1>4, <3>1
      <4>. QED  BY <1>3, <2>1, <3>1, <4>1
    <3>2. CASE q # r \/ c # m.cid
      <4>1. \/ last_executed_rid[q][c] = NoRid
            \/ \E i \in 1 .. index[q] : log[i] = <<c, last_executed_rid[q][c]>>
        BY DEF LastExecuted
      <4>2. last_executed_rid'[q][c] = last_executed_rid[q][c]
        BY <2>1, <3>2
      <4>3. \A i \in 1 .. index[q] : i \in 1 .. index'[q]
        BY <1>4 DEF TypeOK
      <4>. QED  BY <4>1, <4>2, <4>3
    <3>. QED  BY <3>1, <3>2
  <2>. QED  BY <2>2 DEF LastExecuted, NoRid
<1>. QED  BY <1>1, <1>2, <1>5, <1>6

(* The request counts a client reaches. *)
LEMMA CountStep ==
  ASSUME TypeOK, NEW c \in Clients, ClientStep(c), CountBounded(c)
  PROVE  CountBounded(c)'
<1>1. request_count[c] \in Nat /\ MaxReq \in Nat /\ cpc \in [Clients -> ClientPCs]
      /\ request_count \in [Clients -> Nat]
  BY MaxReqAssumption DEF TypeOK, ClientType
<1>2. CASE init_consensus_client(c) \/ init_consensus_client_recv(c)
  BY <1>1, <1>2 DEF init_consensus_client, init_consensus_client_recv, CountBounded
<1>3. CASE consensus_send_request(c)
  BY <1>1, <1>3 DEF consensus_send_request, CountBounded
<1>4. CASE consensus_send_request_recv(c)
  <2>1. /\ request_count'[c] = request_count[c] + 1 /\ cpc'[c] = "idle"
        /\ request_count[c] < MaxReq
    BY <1>1, <1>4 DEF consensus_send_request_recv, CountBounded
  <2>. QED  BY <1>1, <2>1 DEF CountBounded
<1>. QED  BY <1>2, <1>3, <1>4 DEF ClientStep

(* A channel in the middle, for a client with a message in it or not. *)
LEMMA HasOnlyAppend ==
  ASSUME NEW s \in Seq(Messages), NEW m \in Messages, NEW c \in Clients, NEW cmd,
         HasOnly(s, c, cmd), m.cid = c => ~Has(s, c) /\ Command(m) = cmd
  PROVE  /\ HasOnly(Append(s, m), c, cmd)
         /\ m.cid # c => (Has(Append(s, m), c) => Has(s, c))
<1>. PICK t : t = Append(s, m)
  OBVIOUS
<1>1. /\ Len(s) \in Nat /\ Len(t) = Len(s) + 1 /\ t[Len(s) + 1] = m
      /\ \A k \in 1 .. Len(s) : t[k] = s[k]
  BY AppendProperties, LenProperties
<1>2. \A k \in 1 .. Len(t) : k \in 1 .. Len(s) \/ k = Len(s) + 1
  BY <1>1
<1>3. CASE m.cid # c
  <2>1. \A k \in 1 .. Len(t) : t[k].cid = c => k \in 1 .. Len(s) /\ t[k] = s[k]
    BY <1>1, <1>2, <1>3
  <2>. QED  BY <2>1 DEF HasOnly, Has
<1>4. CASE m.cid = c
  <2>1. \A k \in 1 .. Len(t) : t[k].cid = c => k = Len(s) + 1 /\ t[k] = m
    BY <1>1, <1>2, <1>4 DEF Has
  <2>. QED  BY <1>4, <2>1 DEF HasOnly
<1>. QED  BY <1>3, <1>4

(* A message leaves the channel: it was the only one of its client. *)
LEMMA HasOnlyTail ==
  ASSUME NEW s \in Seq(Messages), s # << >>, NEW c \in Clients, NEW cmd, HasOnly(s, c, cmd)
  PROVE  /\ HasOnly(Tail(s), c, cmd)
         /\ Has(Tail(s), c) => Has(s, c)
         /\ Head(s).cid = c => Has(s, c) /\ Command(Head(s)) = cmd /\ ~Has(Tail(s), c)
<1>. PICK t, h : t = Tail(s) /\ h = Head(s)
  OBVIOUS
<1>1. /\ Len(s) \in Nat \ {0} /\ Len(t) = Len(s) - 1 /\ h = s[1]
      /\ \A k \in 1 .. Len(t) : t[k] = s[k + 1]
  BY HeadTailProperties, LenProperties, EmptySeq
<1>2. /\ 1 \in 1 .. Len(s)
      /\ \A k \in 1 .. Len(t) : k + 1 \in 1 .. Len(s) /\ k + 1 # 1
  BY <1>1
<1>3. /\ \A k \in 1 .. Len(s) : s[k].cid = c => Command(s[k]) = cmd
      /\ \A j, k \in 1 .. Len(s) : s[j].cid = c /\ s[k].cid = c => j = k
  BY DEF HasOnly
<1>4. Has(t, c) => Has(s, c)
  BY <1>1, <1>2 DEF Has
<1>5. h.cid = c => Has(s, c) /\ Command(h) = cmd /\ ~Has(t, c)
  <2>. SUFFICES ASSUME h.cid = c PROVE Has(s, c) /\ Command(h) = cmd /\ ~Has(t, c)
    OBVIOUS
  <2>1. Has(s, c) /\ Command(h) = cmd
    BY <1>1, <1>2, <1>3 DEF Has
  <2>2. ASSUME NEW k \in 1 .. Len(t), t[k].cid = c PROVE FALSE
    BY <1>1, <1>2, <1>3, <2>2
  <2>. QED  BY <2>1, <2>2 DEF Has
<1>6. HasOnly(t, c, cmd)
  <2>1. \A k \in 1 .. Len(t) : t[k].cid = c => Command(t[k]) = cmd
    BY <1>1, <1>2, <1>3
  <2>2. ASSUME NEW j \in 1 .. Len(t), NEW k \in 1 .. Len(t), t[j].cid = c, t[k].cid = c
        PROVE  j = k
    <3>1. j + 1 = k + 1
      BY <1>1, <1>2, <1>3, <2>2
    <3>. QED  BY <1>1, <3>1
  <2>. QED  BY <2>1, <2>2 DEF HasOnly
<1>. QED  BY <1>4, <1>5, <1>6

(* Where client c waits for nothing, or has its answer, nothing of its is on *)
(* its way. *)
LEMMA NothingElse ==
  ASSUME OrderInv, ExecutesLog, NEW c \in Clients, OneMessage(c), OnlyIssued(c)
  PROVE  /\ cpc[c] \notin {"joining", "waiting"} =>
              net[c][Leader] = << >> /\ net[Leader][c] = << >> /\ net[RecvFrom][c] = << >>
         /\ cpc[c] # "joining" => ~InSetup(c)
         /\ cpc[c] # "waiting" => ~Proposing(c) /\ ~Proposed(c) /\ ~Answering(c)
         /\ cpc[c] = "joining" /\ net[Leader][c] # << >> =>
              /\ net[c][Leader] = << >> /\ ~InSetup(c) /\ Len(net[Leader][c]) = 1
              /\ RecvFrom # Leader => net[RecvFrom][c] = << >>
         /\ cpc[c] = "waiting" /\ net[RecvFrom][c] # << >> =>
              /\ net[c][Leader] = << >> /\ Len(net[RecvFrom][c]) = 1
              /\ RecvFrom # Leader => net[Leader][c] = << >>
              /\ ~Proposing(c) /\ ~Proposed(c) /\ ~Answering(c)
              /\ Executed(Current(c))
<1>. PICK asked, welcome, answer :
       asked = net[c][Leader] /\ welcome = net[Leader][c] /\ answer = net[RecvFrom][c]
  OBVIOUS
<1>1. /\ asked # << >> => /\ ~InSetup(c)
                          /\ ((cpc[c] = "joining" /\ welcome = << >>) \/ cpc[c] = "waiting")
      /\ InSetup(c) => cpc[c] = "joining" /\ welcome = << >>
      /\ Proposing(c) => cpc[c] = "waiting" /\ ~InLog(Current(c))
      /\ Proposed(c) => cpc[c] = "waiting" /\ ~InLog(Current(c))
      /\ Answering(c) => cpc[c] = "waiting" /\ answer = << >>
      /\ welcome # << >> => Len(welcome) = 1 /\ (cpc[c] = "joining" \/ RecvFrom = Leader)
      /\ answer # << >> => /\ Len(answer) = 1
                           /\ \/ cpc[c] = "joining" /\ RecvFrom = Leader
                              \/ cpc[c] = "waiting" /\ Executed(Current(c))
      /\ RecvFrom = Leader => welcome = answer
  BY DEF OneMessage
<1>2. cpc[c] \notin {"joining", "waiting"} => asked = << >> /\ welcome = << >> /\ answer = << >>
  BY <1>1
<1>3. /\ cpc[c] # "joining" => ~InSetup(c)
      /\ cpc[c] # "waiting" => ~Proposing(c) /\ ~Proposed(c) /\ ~Answering(c)
  BY <1>1
<1>4. cpc[c] = "joining" /\ welcome # << >> =>
        /\ asked = << >> /\ ~InSetup(c) /\ Len(welcome) = 1
        /\ RecvFrom # Leader => answer = << >>
  BY <1>1
<1>5. ASSUME cpc[c] = "waiting", answer # << >>
      PROVE  /\ asked = << >> /\ Len(answer) = 1
             /\ RecvFrom # Leader => welcome = << >>
             /\ ~Proposing(c) /\ ~Proposed(c) /\ ~Answering(c)
             /\ Executed(Current(c))
  <2>1. Executed(Current(c)) /\ Len(answer) = 1 /\ (RecvFrom # Leader => welcome = << >>)
    BY <1>1, <1>5
  <2>2. InLog(Current(c))
    BY <2>1, ExecutedInLog
  <2>3. asked = << >>
    BY <2>2, AskedNotOrdered DEF OrderInv
  <2>. QED  BY <1>1, <1>5, <2>1, <2>2, <2>3
<1>. QED  BY <1>2, <1>3, <1>4, <1>5

(* A step of a client, for the client itself. *)
LEMMA ClientOwn ==
  ASSUME IInv, NEW c \in Clients, ClientMoves(c)
  PROVE  ClientInv(c)'
<1>. USE DEF IInv, OrderInv, AnswersInv
<1>1. OneMessage(c) /\ OnlyIssued(c) /\ PastExecuted(c) /\ CountBounded(c)
  BY DEF ClientInv
<1>2. UNCHANGED <<pc, msg, log, applied>> /\ ClientStep(c)
  BY DEF ClientMoves, replicaVars
<1>3. ClientEffect(c) /\ ClientType /\ request_count[c] \in Nat
  BY <1>2, ClientMessages, ClientStepFacts DEF TypeOK, ClientType
<1>. DEFINE asked == net[c][Leader]
            welcome == net[Leader][c]
            answer == net[RecvFrom][c]
            chan == net[Leader][Acceptor]
<1>4. /\ cpc[c] \notin {"joining", "waiting"} => asked = << >> /\ welcome = << >> /\ answer = << >>
      /\ cpc[c] # "joining" => ~InSetup(c)
      /\ cpc[c] # "waiting" => ~Proposing(c) /\ ~Proposed(c) /\ ~Answering(c)
      /\ cpc[c] = "joining" /\ welcome # << >> =>
           /\ asked = << >> /\ ~InSetup(c) /\ Len(welcome) = 1
           /\ RecvFrom # Leader => answer = << >>
      /\ cpc[c] = "waiting" /\ answer # << >> =>
           /\ asked = << >> /\ Len(answer) = 1
           /\ RecvFrom # Leader => welcome = << >>
           /\ ~Proposing(c) /\ ~Proposed(c) /\ ~Answering(c)
           /\ Executed(Current(c))
  BY <1>1, NothingElse, Zenon
<1>5. HasOnly(chan, c, Current(c))
  BY <1>1 DEF OneMessage
<1>6. /\ welcome \in Seq(Messages) /\ answer \in Seq(Messages)
      /\ RecvFrom = Leader => welcome = answer
  BY RoleFacts DEF TypeOK, Channels
<1>7. /\ chan' = chan
      /\ InSetup(c)' = InSetup(c) /\ Proposing(c)' = Proposing(c)
      /\ Answering(c)' = Answering(c) /\ Proposed(c)' = Proposed(c)
      /\ \A cmd : Executed(cmd)' = Executed(cmd)
  <2>1. chan' = chan
    BY <1>3, ClientFrame, RoleFacts DEF Leader, Acceptor
  <2>. QED  BY <1>2, <2>1 DEF InSetup, Proposing, Answering, Proposed, Executed, Leader, Acceptor
<1>. HIDE DEF asked, welcome, answer, chan
<1>8. CountBounded(c)'
  BY <1>1, <1>2, CountStep
<1>9. CASE cpc[c] \in {"new", "joining", "idle"} /\ request_count'[c] = request_count[c]
  <2>1. Current(c)' = Current(c) /\ RequestMessage(c)' = RequestMessage(c)
        /\ SetupMessage(c)' = SetupMessage(c)
    BY <1>9 DEF Current, RequestMessage, SetupMessage
  <2>2. OnlyIssued(c)'
    <3>1. ASSUME NEW i \in 1 .. Len(log) PROVE Issued(c, log[i])'
      <4>. PICK cmd : cmd = log[i]
        OBVIOUS
      <4>1. cmd[1] = c => cmd[2] < request_count[c]
        BY <1>1, <1>9, <3>1 DEF OnlyIssued, Issued
      <4>. QED  BY <1>2, <1>9, <4>1 DEF Issued
    <3>. QED  BY <1>2, <3>1 DEF OnlyIssued
  <2>3. PastExecuted(c)'
    <3>1. ASSUME NEW k \in 0 .. request_count[c] - 1 PROVE Executed(<<c, k>>)'
      <4>. PICK cmd : cmd = <<c, k>>
        OBVIOUS
      <4>1. Executed(cmd)'
        BY <1>1, <1>7 DEF PastExecuted
      <4>. QED  BY <4>1
    <3>. QED  BY <1>9, <3>1 DEF PastExecuted
  <2>4. HasOnly(chan', c, Current(c)')
    BY <1>5, <1>7, <2>1
  <2>5. ~Proposing(c)' /\ ~Proposed(c)' /\ ~Answering(c)'
    BY <1>4, <1>7, <1>9
  <2>6. CASE /\ cpc[c] = "new" /\ cpc'[c] = "joining"
             /\ ClientSent(c, SetupMessage(c))
    <3>1. /\ asked' = <<SetupMessage(c)>> /\ welcome' = << >> /\ answer' = << >>
      BY <1>4, <2>6, RoleFacts, SingleMessage DEF ClientSent, asked, welcome, answer, Leader
    <3>2. ~InSetup(c)'
      BY <1>4, <1>7, <2>6
    <3>3. OneMessage(c)'
      BY <2>1, <2>4, <2>5, <2>6, <3>1, <3>2, Zenon
         DEF OneMessage, asked, welcome, answer, chan, Leader, Acceptor
    <3>. QED  BY <1>8, <2>2, <2>3, <3>3 DEF ClientInv
  <2>7. CASE cpc[c] = "joining" /\ cpc'[c] = "idle" /\ ClientGot(c, Leader)
    <3>1. welcome # << >> /\ welcome' = Tail(welcome) /\ asked' = asked
          /\ (RecvFrom # Leader => answer' = answer) /\ (RecvFrom = Leader => answer' = welcome')
      BY <2>7, RoleFacts DEF ClientGot, asked, welcome, answer, Leader
    <3>2. welcome' = << >> /\ asked' = << >> /\ answer' = << >> /\ ~InSetup(c)'
      BY <1>4, <1>6, <1>7, <2>7, <3>1, LastTaken
    <3>3. OneMessage(c)'
      BY <2>4, <2>5, <3>2, Zenon
         DEF OneMessage, asked, welcome, answer, chan, Leader, Acceptor
    <3>. QED  BY <1>8, <2>2, <2>3, <3>3 DEF ClientInv
  <2>8. CASE /\ cpc[c] = "idle" /\ cpc'[c] = "waiting"
             /\ ClientSent(c, RequestMessage(c))
    <3>1. /\ asked' = <<RequestMessage(c)>> /\ welcome' = << >> /\ answer' = << >>
      BY <1>4, <2>8, RoleFacts, SingleMessage DEF ClientSent, asked, welcome, answer, Leader
    <3>2. ~InSetup(c)'
      BY <1>4, <1>7, <2>8
    <3>3. OneMessage(c)'
      BY <2>1, <2>4, <2>5, <2>8, <3>1, <3>2, Zenon
         DEF OneMessage, asked, welcome, answer, chan, Leader, Acceptor
    <3>. QED  BY <1>8, <2>2, <2>3, <3>3 DEF ClientInv
  <2>. QED  BY <1>3, <1>9, <2>6, <2>7, <2>8 DEF ClientEffect
<1>10. CASE /\ cpc[c] = "waiting" /\ cpc'[c] = "idle"
            /\ request_count'[c] = request_count[c] + 1
            /\ ClientGot(c, RecvFrom)
  <2>1. answer # << >> /\ answer' = Tail(answer) /\ asked' = asked
        /\ (RecvFrom # Leader => welcome' = welcome) /\ (RecvFrom = Leader => welcome' = answer')
    BY <1>10, RoleFacts DEF ClientGot, asked, welcome, answer, Leader
  <2>2. welcome' = << >> /\ asked' = << >> /\ answer' = << >>
    BY <1>4, <1>6, <1>10, <2>1, LastTaken
  <2>3. ~InSetup(c)' /\ ~Proposing(c)' /\ ~Proposed(c)' /\ ~Answering(c)'
    BY <1>4, <1>7, <1>10, <2>1
  <2>4. HasOnly(chan', c, Current(c)')
    <3>1. \A k \in 1 .. Len(chan') : chan'[k].cid # c
      BY <2>3 DEF Proposed, Has, chan, Leader, Acceptor
    <3>. QED  BY <3>1 DEF HasOnly
  <2>5. OneMessage(c)'
    BY <2>2, <2>3, <2>4, Zenon DEF OneMessage, asked, welcome, answer, chan, Leader, Acceptor
  <2>6. OnlyIssued(c)'
    <3>1. ASSUME NEW i \in 1 .. Len(log) PROVE Issued(c, log[i])'
      <4>. PICK cmd : cmd = log[i]
        OBVIOUS
      <4>1. cmd[1] = c => cmd[2] < request_count[c] \/ cmd[2] = request_count[c]
        BY <1>1, <3>1 DEF OnlyIssued, Issued, Current
      <4>2. cmd \in Commands
        BY <3>1, ElementOfSeq DEF TypeOK, HistoryType
      <4>3. cmd[2] \in Nat
        BY <4>2 DEF Commands
      <4>4. cmd[1] = c => cmd[2] < request_count'[c]
        BY <1>3, <1>10, <4>1, <4>3
      <4>. QED  BY <1>2, <4>4 DEF Issued
    <3>. QED  BY <1>2, <3>1 DEF OnlyIssued
  <2>7. PastExecuted(c)'
    <3>1. ASSUME NEW k \in 0 .. request_count[c] PROVE Executed(<<c, k>>)'
      <4>. PICK cmd : cmd = <<c, k>>
        OBVIOUS
      <4>1. CASE k \in 0 .. request_count[c] - 1
        <5>1. Executed(cmd)'
          BY <1>1, <1>7, <4>1 DEF PastExecuted
        <5>. QED  BY <5>1
      <4>2. CASE k = request_count[c]
        <5>1. Executed(cmd)'
          BY <1>4, <1>7, <1>10, <2>1, <4>2 DEF Current
        <5>. QED  BY <5>1
      <4>. QED  BY <1>3, <4>1, <4>2
    <3>2. request_count'[c] - 1 = request_count[c]
      BY <1>3, <1>10
    <3>. QED  BY <3>1, <3>2 DEF PastExecuted
  <2>. QED  BY <1>8, <2>5, <2>6, <2>7 DEF ClientInv
<1>. QED  BY <1>3, <1>9, <1>10 DEF ClientEffect

(* A step of a client, for the others. *)
LEMMA ClientOther ==
  ASSUME IInv, NEW c \in Clients, ClientMoves(c), NEW d \in Clients, d # c
  PROVE  ClientInv(d)'
<1>. USE DEF IInv, OrderInv, AnswersInv
<1>1. OneMessage(d) /\ OnlyIssued(d) /\ PastExecuted(d) /\ CountBounded(d)
  BY DEF ClientInv
<1>2. UNCHANGED <<pc, msg, log, applied>> /\ ClientStep(c)
  BY DEF ClientMoves, replicaVars
<1>3. ClientEffect(c) /\ cpc'[d] = cpc[d] /\ request_count'[d] = request_count[d]
  BY <1>2, ClientMessages, ClientStepFacts DEF TypeOK
<1>4. \A x, y \in Nodes : x # c /\ y # c => net'[x][y] = net[x][y]
  BY <1>3, ClientFrame
<1>5. /\ net'[d][Leader] = net[d][Leader] /\ net'[Leader][d] = net[Leader][d]
      /\ net'[RecvFrom][d] = net[RecvFrom][d]
      /\ net'[Leader][Acceptor] = net[Leader][Acceptor]
  BY <1>4, RoleFacts
<1>6. /\ InSetup(d)' => InSetup(d)
      /\ Proposing(d)' => Proposing(d) /\ Command(msg'[Leader]) = Command(msg[Leader])
      /\ Answering(d)' => Answering(d) /\ Command(msg'[RecvFrom]) = Command(msg[RecvFrom])
      /\ Proposed(d)' => Proposed(d)
      /\ HasOnly(net'[Leader][Acceptor], d, Current(d))
      /\ \A cmd : Executed(cmd) => Executed(cmd)'
  BY <1>1, <1>2, <1>5
     DEF InSetup, Proposing, Answering, Proposed, Executed, OneMessage, Leader, Acceptor
<1>7. InLog(Current(d))' => InLog(Current(d))
  BY <1>2, <1>3 DEF InLog, Current
<1>8. Executed(Current(d)) => Executed(Current(d))'
  BY <1>2, <1>3 DEF Executed, Current
<1>9. OneMessage(d)'
  BY <1>1, <1>3, <1>5, <1>6, <1>7, <1>8, MessageFrame
<1>10. OnlyIssued(d)' /\ PastExecuted(d)' /\ CountBounded(d)'
  BY <1>1, <1>2, <1>3, <1>5, <1>6, RestFrame
<1>. QED  BY <1>9, <1>10 DEF ClientInv

(* A step of a client. *)
LEMMA AnswersClient ==
  ASSUME IInv, NEW c \in Clients, ClientMoves(c)
  PROVE  AnswersInv'
<1>1. UNCHANGED <<log, applied, index, last_executed_rid>>
  BY DEF ClientMoves, replicaVars, onepaxosVars
<1>2. ExecutesLog' /\ LastExecuted' /\ LogSorted'
  BY <1>1 DEF IInv, AnswersInv, ExecutesLog, LastExecuted, LogSorted, NoRid
<1>3. ASSUME NEW d \in Clients PROVE ClientInv(d)'
  BY ClientOwn, ClientOther
<1>. QED  BY <1>2, <1>3 DEF AnswersInv

(* The steps that order and execute nothing: what each comes to. *)
LEMMA AnswersFrame ==
  ASSUME IInv, UNCHANGED <<cpc, request_count, log, applied, index, last_executed_rid>>,
         \A c \in Clients : net[c][Leader] = << >> => net'[c][Leader] = << >>,
         \A c \in Clients : OneMessage(c)'
  PROVE  AnswersInv'
<1>. USE DEF IInv, AnswersInv
<1>1. ExecutesLog' /\ LastExecuted' /\ LogSorted'
  BY DEF ExecutesLog, LastExecuted, LogSorted, NoRid
<1>2. \A cmd : Executed(cmd) => Executed(cmd)'
  BY DEF Executed
<1>3. ASSUME NEW c \in Clients PROVE ClientInv(c)'
  <2>1. OnlyIssued(c) /\ PastExecuted(c) /\ CountBounded(c)
    BY DEF ClientInv
  <2>2. OnlyIssued(c)' /\ PastExecuted(c)' /\ CountBounded(c)'
    BY <1>2, <2>1, RestFrame
  <2>. QED  BY <2>2 DEF ClientInv
<1>. QED  BY <1>1, <1>3

(* In these, a client whose messages are not touched. *)
LEMMA MessageSame ==
  ASSUME NEW c \in Clients, OneMessage(c),
         UNCHANGED <<cpc, request_count, log, applied>>,
         net'[c][Leader] = net[c][Leader], net'[Leader][c] = net[Leader][c],
         net'[RecvFrom][c] = net[RecvFrom][c],
         InSetup(c)' => InSetup(c),
         Proposing(c)' => Proposing(c) /\ msg'[Leader] = msg[Leader],
         Answering(c)' => Answering(c) /\ msg'[RecvFrom] = msg[RecvFrom],
         Proposed(c)' => Proposed(c),
         HasOnly(net'[Leader][Acceptor], c, Current(c))
  PROVE  OneMessage(c)'
<1>1. InLog(Current(c))' => InLog(Current(c))
  BY DEF InLog, Current
<1>2. Executed(Current(c)) => Executed(Current(c))'
  BY DEF Executed, Current
<1>. QED  BY <1>1, <1>2, MessageFrame

(* The leader takes a SETUP. *)
LEMMA AnswersSetup ==
  ASSUME IInv, NEW c \in Clients, handle_setup(c)
  PROVE  AnswersInv'
<1>. USE DEF IInv, OrderInv, AnswersInv
<1>1. PICK m : m = Head(net[c][Leader])
  OBVIOUS
<1>2. /\ Takes(Leader, c, "SETUP") /\ Enters(Leader, "setup", m)
      /\ UNCHANGED <<cpc, request_count, log, applied, index, last_executed_rid>>
  BY <1>1 DEF handle_setup, onepaxosVars
<1>3. /\ pc[Leader] = "poll" /\ net[c][Leader] # << >> /\ m.tag = "SETUP"
      /\ net'[c][Leader] = Tail(net[c][Leader])
      /\ \A x, y \in Nodes : x # c \/ y # Leader => net'[x][y] = net[x][y]
  BY <1>1, <1>2, RoleFacts, TakesMessage
<1>4. /\ pc'[Leader] = "setup" /\ msg'[Leader] = m
      /\ \A r \in Replicas : r # Leader => pc'[r] = pc[r] /\ msg'[r] = msg[r]
  BY <1>2, RoleFacts DEF TypeOK, Enters
<1>5. /\ net'[Leader][Acceptor] = net[Leader][Acceptor]
      /\ \A d \in Clients : /\ net'[Leader][d] = net[Leader][d]
                            /\ net'[RecvFrom][d] = net[RecvFrom][d]
                            /\ d # c => net'[d][Leader] = net[d][Leader]
  BY <1>3, RoleFacts
<1>6. /\ \A d \in Clients : ~Proposing(d)'
      /\ \A d \in Clients : Answering(d)' => Answering(d) /\ msg'[RecvFrom] = msg[RecvFrom]
      /\ \A d \in Clients : Proposed(d)' => Proposed(d)
      /\ \A d \in Clients : HasOnly(net'[Leader][Acceptor], d, Current(d))
  BY <1>4, <1>5, RoleFacts
     DEF Proposing, Answering, Proposed, OneMessage, ClientInv, Leader, Acceptor
<1>7. /\ cpc[c] = "joining" /\ net[c][Leader] = <<SetupMessage(c)>> /\ net[Leader][c] = << >>
  <2>1. ClientInv(c)
    OBVIOUS
  <2>2. \/ /\ cpc[c] = "joining" /\ net[c][Leader] = <<SetupMessage(c)>>
           /\ net[Leader][c] = << >>
        \/ net[c][Leader] = <<RequestMessage(c)>>
    BY <1>3, <2>1 DEF ClientInv, OneMessage
  <2>3. net[c][Leader] # <<RequestMessage(c)>>
    BY <1>1, <1>3, SingleMessage DEF RequestMessage, Message
  <2>. QED  BY <2>2, <2>3
<1>8. m.cid = c /\ net'[c][Leader] = << >>
  BY <1>1, <1>3, <1>7, SingleMessage DEF SetupMessage, Message
<1>9. ASSUME NEW d \in Clients PROVE OneMessage(d)'
  <2>1. OneMessage(d)
    BY DEF ClientInv
  <2>2. CASE d = c
    <3>. DEFINE answer == net[RecvFrom][c]
    <3>1. /\ ~Proposed(c)' /\ ~Answering(c)' /\ ~Proposing(c)'
          /\ answer # << >> => Len(answer) = 1 /\ RecvFrom = Leader
      BY <1>6, <1>7, <2>1, <2>2 DEF OneMessage
    <3>2. answer' = answer /\ net'[Leader][c] = << >> /\ cpc'[c] = "joining"
          /\ HasOnly(net'[Leader][Acceptor], c, Current(c)')
      BY <1>2, <1>5, <1>6, <1>7 DEF Current, Leader
    <3>. HIDE DEF answer
    <3>. QED  BY <1>8, <2>2, <3>1, <3>2, Zenon DEF OneMessage, answer, Leader, Acceptor
  <2>3. CASE d # c
    <3>1. ~InSetup(d)'
      BY <1>4, <1>8, <2>3 DEF InSetup, Leader
    <3>. QED  BY <1>2, <1>5, <1>6, <2>1, <2>3, <3>1, MessageSame
  <2>. QED  BY <2>2, <2>3
<1>10. \A d \in Clients : net[d][Leader] = << >> => net'[d][Leader] = << >>
  BY <1>5, <1>8
<1>. QED  BY <1>2, <1>9, <1>10, AnswersFrame

(* The leader welcomes a client. *)
LEMMA AnswersWelcome ==
  ASSUME IInv, handle_setup_send
  PROVE  AnswersInv'
<1>. USE DEF IInv, OrderInv, AnswersInv
<1>1. PICK m, c : m = msg[Leader] /\ c = m.cid
  OBVIOUS
<1>2. /\ pc[Leader] = "setup" /\ net' = Sent(net, Leader, c, m) /\ Returns(Leader)
      /\ UNCHANGED <<cpc, request_count, log, applied, index, last_executed_rid>>
  BY <1>1 DEF handle_setup_send, onepaxosVars, Sends
<1>3. m \in Messages /\ c \in Clients /\ InSetup(c)
  <2>1. m \in Messages
    BY <1>1, <1>2, RoleFacts DEF TypeOK
  <2>. QED  BY <1>1, <1>2, <2>1, MessageFacts DEF InSetup
<1>4. /\ net'[Leader][c] = Append(net[Leader][c], m)
      /\ \A x, y \in Nodes : x # Leader \/ y # c => net'[x][y] = net[x][y]
  BY <1>1, <1>2, <1>3, RoleFacts, SendsMessage
<1>5. /\ pc'[Leader] = "poll"
      /\ \A r \in Replicas : r # Leader => pc'[r] = pc[r] /\ msg'[r] = msg[r]
  BY <1>2, RoleFacts DEF TypeOK, Returns
<1>6. /\ net'[Leader][Acceptor] = net[Leader][Acceptor]
      /\ \A d \in Clients : /\ net'[d][Leader] = net[d][Leader]
                            /\ RecvFrom # Leader => net'[RecvFrom][d] = net[RecvFrom][d]
                            /\ d # c => /\ net'[Leader][d] = net[Leader][d]
                                        /\ net'[RecvFrom][d] = net[RecvFrom][d]
  BY <1>3, <1>4, RoleFacts
<1>7. /\ \A d \in Clients : ~Proposing(d)' /\ ~InSetup(d)'
      /\ \A d \in Clients : Answering(d)' => Answering(d) /\ msg'[RecvFrom] = msg[RecvFrom]
      /\ \A d \in Clients : Proposed(d)' => Proposed(d)
      /\ \A d \in Clients : HasOnly(net'[Leader][Acceptor], d, Current(d))
  BY <1>5, <1>6, RoleFacts
     DEF Proposing, InSetup, Answering, Proposed, OneMessage, ClientInv, Leader, Acceptor
<1>8. ASSUME NEW d \in Clients PROVE OneMessage(d)'
  <2>1. OneMessage(d)
    BY DEF ClientInv
  <2>2. CASE d = c
    <3>. DEFINE answer == net[RecvFrom][c]
    <3>1. /\ cpc[c] = "joining" /\ net[Leader][c] = << >> /\ net[c][Leader] = << >>
          /\ RecvFrom # Leader => answer = << >>
      BY <1>3, <2>1, <2>2 DEF OneMessage
    <3>2. net'[Leader][c] = <<m>> /\ net'[c][Leader] = << >> /\ cpc'[c] = "joining"
      BY <1>2, <1>4, <1>6, <2>2, <3>1, SingleMessage
    <3>3. /\ RecvFrom # Leader => answer' = << >>
          /\ RecvFrom = Leader => answer' = <<m>>
      BY <1>6, <2>2, <3>1, <3>2
    <3>4. ~Answering(c)' /\ ~Proposed(c)' /\ ~Proposing(c)' /\ ~InSetup(c)'
      BY <1>7, <2>1, <2>2, <3>1 DEF OneMessage
    <3>5. HasOnly(net'[Leader][Acceptor], c, Current(c)')
      BY <1>2, <1>7, <2>2 DEF Current
    <3>. HIDE DEF answer
    <3>. QED  BY <2>2, <3>2, <3>3, <3>4, <3>5, SingleMessage, Zenon
              DEF OneMessage, answer, Leader, Acceptor
  <2>3. CASE d # c
    BY <1>2, <1>6, <1>7, <2>1, <2>3, MessageSame
  <2>. QED  BY <2>2, <2>3
<1>. QED  BY <1>2, <1>6, <1>8, AnswersFrame

(* The leader takes a request. *)
LEMMA AnswersRequest ==
  ASSUME IInv, NEW c \in Clients, handle_request(c)
  PROVE  AnswersInv'
<1>. USE DEF IInv, OrderInv, AnswersInv
<1>1. PICK h, m : h = Head(net[c][Leader]) /\ m = [h EXCEPT !.tag = "ACC"]
  OBVIOUS
<1>2. /\ Takes(Leader, c, "REQ") /\ Enters(Leader, "accept", m)
      /\ UNCHANGED <<cpc, request_count, log, applied, index, last_executed_rid>>
  BY <1>1 DEF handle_request
<1>3. /\ pc[Leader] = "poll" /\ net[c][Leader] # << >> /\ h.tag = "REQ" /\ h \in Messages
      /\ net'[c][Leader] = Tail(net[c][Leader])
      /\ \A x, y \in Nodes : x # c \/ y # Leader => net'[x][y] = net[x][y]
  BY <1>1, <1>2, RoleFacts, TakesMessage
<1>4. /\ pc'[Leader] = "accept" /\ msg'[Leader] = m
      /\ \A r \in Replicas : r # Leader => pc'[r] = pc[r] /\ msg'[r] = msg[r]
  BY <1>2, RoleFacts DEF TypeOK, Enters
<1>5. /\ net'[Leader][Acceptor] = net[Leader][Acceptor]
      /\ \A d \in Clients : /\ net'[Leader][d] = net[Leader][d]
                            /\ net'[RecvFrom][d] = net[RecvFrom][d]
                            /\ d # c => net'[d][Leader] = net[d][Leader]
  BY <1>3, RoleFacts
<1>6. /\ \A d \in Clients : ~InSetup(d)'
      /\ \A d \in Clients : Answering(d)' => Answering(d) /\ msg'[RecvFrom] = msg[RecvFrom]
      /\ \A d \in Clients : Proposed(d)' => Proposed(d)
      /\ \A d \in Clients : HasOnly(net'[Leader][Acceptor], d, Current(d))
  BY <1>4, <1>5, RoleFacts
     DEF InSetup, Answering, Proposed, OneMessage, ClientInv, Leader, Acceptor
<1>7. cpc[c] = "waiting" /\ net[c][Leader] = <<RequestMessage(c)>> /\ ~Proposed(c)
  <2>1. ClientInv(c)
    OBVIOUS
  <2>2. /\ ~Proposed(c)
        /\ \/ net[c][Leader] = <<SetupMessage(c)>>
           \/ cpc[c] = "waiting" /\ net[c][Leader] = <<RequestMessage(c)>>
    BY <1>3, <2>1 DEF ClientInv, OneMessage
  <2>3. net[c][Leader] # <<SetupMessage(c)>>
    BY <1>1, <1>3, SingleMessage DEF SetupMessage, Message
  <2>. QED  BY <2>2, <2>3
<1>8. m.cid = c /\ Command(m) = Current(c) /\ net'[c][Leader] = << >>
  <2>1. h = RequestMessage(c)
    BY <1>1, <1>7, SingleMessage
  <2>2. h.cid = c /\ Command(h) = Current(c)
    BY <2>1 DEF RequestMessage, Message, Command, Current
  <2>3. m.cid = h.cid /\ Command(m) = Command(h)
    BY <1>1, <1>3, MessageFacts, Zenon
  <2>. QED  BY <1>3, <1>7, <2>2, <2>3, SingleMessage
<1>9. ~InLog(Current(c))
  BY <1>3, AskedNotOrdered DEF ClientInv
<1>10. ASSUME NEW d \in Clients PROVE OneMessage(d)'
  <2>1. OneMessage(d)
    BY DEF ClientInv
  <2>2. CASE d = c
    <3>. DEFINE answer == net[RecvFrom][c]
                welcome == net[Leader][c]
    <3>1. /\ welcome # << >> => Len(welcome) = 1 /\ (cpc[c] = "joining" \/ RecvFrom = Leader)
          /\ Answering(c) => /\ cpc[c] = "waiting" /\ Command(msg[RecvFrom]) = Current(c)
                             /\ Executed(Current(c)) /\ answer = << >>
          /\ answer # << >> => /\ Len(answer) = 1
                               /\ Command(answer[1]) = Current(c)
                               /\ Executed(Current(c)) /\ ~Answering(c)
      BY <1>7, <2>1, <2>2 DEF OneMessage
    <3>2. /\ answer' = answer /\ welcome' = welcome /\ cpc'[c] = "waiting"
          /\ Current(c)' = Current(c) /\ (Executed(Current(c))' <=> Executed(Current(c)))
          /\ (InLog(Current(c))' <=> InLog(Current(c)))
      BY <1>2, <1>5, <1>7 DEF Current, Executed, InLog, Leader
    <3>3. Command(msg[Leader])' = Current(c)
      BY <1>4, <1>8 DEF Command, Leader
    <3>4. Answering(c)' => Answering(c) /\ msg'[RecvFrom] = msg[RecvFrom]
      BY <1>6
    <3>5. HasOnly(net'[Leader][Acceptor], c, Current(c))
      BY <1>6
    <3>6. ~InSetup(c)' /\ ~Proposed(c)'
      BY <1>6, <1>7
    <3>. HIDE DEF answer, welcome
    <3>7. Answering(c)' => /\ cpc'[c] = "waiting" /\ Command(msg'[RecvFrom]) = Current(c)
                           /\ Executed(Current(c))' /\ answer' = << >>
      BY <3>1, <3>2, <3>4
    <3>8. welcome' # << >> => Len(welcome') = 1 /\ (cpc'[c] = "joining" \/ RecvFrom = Leader)
      BY <1>7, <3>1, <3>2
    <3>9. answer' # << >> => /\ Len(answer') = 1
                             /\ Command(answer'[1]) = Current(c)
                             /\ Executed(Current(c))' /\ ~Answering(c)'
      BY <3>1, <3>2, <3>4
    <3>. QED  BY <1>8, <1>9, <2>2, <3>2, <3>3, <3>5, <3>6, <3>7, <3>8, <3>9, Zenon
              DEF OneMessage, answer, welcome, Leader, Acceptor, Command
  <2>3. CASE d # c
    <3>1. ~Proposing(d)'
      BY <1>4, <1>8, <2>3 DEF Proposing, Leader
    <3>. QED  BY <1>2, <1>5, <1>6, <2>1, <2>3, <3>1, MessageSame
  <2>. QED  BY <2>2, <2>3
<1>11. \A d \in Clients : net[d][Leader] = << >> => net'[d][Leader] = << >>
  BY <1>5, <1>8
<1>. QED  BY <1>2, <1>10, <1>11, AnswersFrame

(* The leader proposes a request. *)
LEMMA AnswersPropose ==
  ASSUME IInv, handle_request_send
  PROVE  AnswersInv'
<1>. USE DEF IInv, OrderInv, AnswersInv
<1>1. PICK m, c : m = msg[Leader] /\ c = m.cid
  OBVIOUS
<1>2. /\ pc[Leader] = "accept" /\ net' = Sent(net, Leader, Acceptor, m) /\ Returns(Leader)
      /\ UNCHANGED <<cpc, request_count, log, applied, index, last_executed_rid>>
  BY <1>1 DEF handle_request_send, Sends
<1>3. m \in Messages /\ c \in Clients /\ Proposing(c)
  <2>1. m \in Messages
    BY <1>1, <1>2, RoleFacts DEF TypeOK
  <2>. QED  BY <1>1, <1>2, <2>1, MessageFacts DEF Proposing
<1>4. /\ net'[Leader][Acceptor] = Append(net[Leader][Acceptor], m)
      /\ net[Leader][Acceptor] \in Seq(Messages)
      /\ \A x, y \in Nodes : x # Leader \/ y # Acceptor => net'[x][y] = net[x][y]
  BY <1>1, <1>2, RoleFacts, SendsMessage
<1>5. /\ pc'[Leader] = "poll"
      /\ \A r \in Replicas : r # Leader => pc'[r] = pc[r] /\ msg'[r] = msg[r]
  BY <1>2, RoleFacts DEF TypeOK, Returns
<1>6. \A d \in Clients : /\ net'[d][Leader] = net[d][Leader]
                         /\ net'[Leader][d] = net[Leader][d]
                         /\ net'[RecvFrom][d] = net[RecvFrom][d]
  BY <1>4, RoleFacts
<1>7. /\ \A d \in Clients : ~InSetup(d)' /\ ~Proposing(d)'
      /\ \A d \in Clients : Answering(d)' => Answering(d) /\ msg'[RecvFrom] = msg[RecvFrom]
  BY <1>5, RoleFacts DEF InSetup, Proposing, Answering, Leader
<1>8. /\ cpc[c] = "waiting" /\ Command(m) = Current(c) /\ ~InLog(Current(c)) /\ ~Proposed(c)
      /\ net[c][Leader] = << >>
  BY <1>1, <1>3 DEF ClientInv, OneMessage
<1>9. ASSUME NEW d \in Clients PROVE OneMessage(d)'
  <2>1. OneMessage(d)
    BY DEF ClientInv
  <2>2. HasOnly(net[Leader][Acceptor], d, Current(d))
    BY <2>1 DEF OneMessage
  <2>3. m.cid = d => ~Has(net[Leader][Acceptor], d) /\ Command(m) = Current(d)
    BY <1>1, <1>8 DEF Proposed
  <2>4. /\ HasOnly(net'[Leader][Acceptor], d, Current(d))
        /\ m.cid # d => (Has(net'[Leader][Acceptor], d) => Has(net[Leader][Acceptor], d))
    BY <1>3, <1>4, <2>2, <2>3, HasOnlyAppend
  <2>5. CASE d = c
    <3>. DEFINE answer == net[RecvFrom][c]
                welcome == net[Leader][c]
    <3>1. /\ welcome # << >> => Len(welcome) = 1 /\ (cpc[c] = "joining" \/ RecvFrom = Leader)
          /\ Answering(c) => /\ Command(msg[RecvFrom]) = Current(c)
                             /\ Executed(Current(c)) /\ answer = << >>
          /\ answer # << >> => /\ Len(answer) = 1
                               /\ Command(answer[1]) = Current(c)
                               /\ Executed(Current(c)) /\ ~Answering(c)
      BY <1>8, <2>1, <2>5 DEF OneMessage
    <3>2. /\ answer' = answer /\ welcome' = welcome /\ cpc'[c] = "waiting"
          /\ net'[c][Leader] = << >>
          /\ Current(c)' = Current(c) /\ (Executed(Current(c))' <=> Executed(Current(c)))
          /\ (InLog(Current(c))' <=> InLog(Current(c)))
      BY <1>2, <1>3, <1>6, <1>8 DEF Current, Executed, InLog, Leader
    <3>3. Answering(c)' => Answering(c) /\ msg'[RecvFrom] = msg[RecvFrom]
      BY <1>3, <1>7
    <3>4. HasOnly(net'[Leader][Acceptor], c, Current(c))
      BY <2>4, <2>5
    <3>5. ~InSetup(c)' /\ ~Proposing(c)'
      BY <1>3, <1>7
    <3>. HIDE DEF answer, welcome
    <3>6. Answering(c)' => /\ cpc'[c] = "waiting" /\ Command(msg'[RecvFrom]) = Current(c)
                           /\ Executed(Current(c))' /\ answer' = << >>
      BY <3>1, <3>2, <3>3
    <3>7. welcome' # << >> => Len(welcome') = 1 /\ (cpc'[c] = "joining" \/ RecvFrom = Leader)
      BY <1>8, <3>1, <3>2
    <3>8. answer' # << >> => /\ Len(answer') = 1
                             /\ Command(answer'[1]) = Current(c)
                             /\ Executed(Current(c))' /\ ~Answering(c)'
      BY <3>1, <3>2, <3>3
    <3>. QED  BY <1>8, <2>5, <3>2, <3>4, <3>5, <3>6, <3>7, <3>8, Zenon
              DEF OneMessage, answer, welcome, Leader, Acceptor, Command
  <2>6. CASE d # c
    <3>1. Proposed(d)' => Proposed(d)
      BY <1>1, <2>4, <2>6 DEF Proposed, Leader, Acceptor
    <3>. QED  BY <1>2, <1>6, <1>7, <2>1, <2>4, <2>6, <3>1, MessageSame
  <2>. QED  BY <2>5, <2>6
<1>. QED  BY <1>2, <1>6, <1>9, AnswersFrame

(* The acceptor orders a request. *)
LEMMA AnswersAccept ==
  ASSUME IInv, handle_accept
  PROVE  AnswersInv'
<1>. USE DEF IInv, OrderInv, AnswersInv
<1>1. PICK m, c : m = Head(net[Leader][Acceptor]) /\ c = m.cid
  OBVIOUS
<1>2. /\ Takes(Acceptor, Leader, "ACC")
      /\ Enters(Acceptor, "learn", Learn(m, index[Acceptor]))
      /\ log' = Append(log, Command(m))
      /\ UNCHANGED <<cpc, request_count, applied, index, last_executed_rid>>
  BY <1>1 DEF handle_accept
<1>3. /\ m \in Messages
      /\ net[Leader][Acceptor] # << >> /\ net[Leader][Acceptor] \in Seq(Messages)
      /\ net'[Leader][Acceptor] = Tail(net[Leader][Acceptor])
      /\ \A x, y \in Nodes : x # Leader \/ y # Acceptor => net'[x][y] = net[x][y]
  BY <1>1, <1>2, RoleFacts, TakesMessage
<1>4. \A r \in Replicas : r # Acceptor => pc'[r] = pc[r] /\ msg'[r] = msg[r]
  BY <1>2, RoleFacts DEF TypeOK, Enters
<1>5. c \in Clients /\ Command(m) \in Commands
  BY <1>1, <1>3, MessageFacts
<1>6. \A d \in Clients : /\ net'[d][Leader] = net[d][Leader]
                         /\ net'[Leader][d] = net[Leader][d]
                         /\ net'[RecvFrom][d] = net[RecvFrom][d]
  BY <1>3, RoleFacts
<1>7. ASSUME NEW d \in Clients
      PROVE  /\ HasOnly(net'[Leader][Acceptor], d, Current(d))
             /\ Proposed(d)' => Proposed(d)
             /\ c = d => Proposed(d) /\ Command(m) = Current(d) /\ ~Proposed(d)'
  <2>1. HasOnly(net[Leader][Acceptor], d, Current(d))
    BY DEF ClientInv, OneMessage
  <2>2. PICK s : s = net[Leader][Acceptor]
    OBVIOUS
  <2>3. /\ HasOnly(Tail(s), d, Current(d))
        /\ Has(Tail(s), d) => Has(s, d)
        /\ Head(s).cid = d => Has(s, d) /\ Command(Head(s)) = Current(d) /\ ~Has(Tail(s), d)
    BY <1>3, <2>1, <2>2, HasOnlyTail
  <2>. QED  BY <1>1, <1>3, <2>2, <2>3 DEF Proposed, Leader, Acceptor
<1>8. /\ cpc[c] = "waiting" /\ ~InLog(Current(c)) /\ ~Proposing(c) /\ net[c][Leader] = << >>
      /\ Command(m) = Current(c)
  <2>1. Proposed(c) /\ Command(m) = Current(c) /\ OneMessage(c)
    BY <1>5, <1>7 DEF ClientInv
  <2>. QED  BY <2>1 DEF OneMessage
<1>9. /\ Len(log) \in Nat /\ Len(log') = Len(log) + 1
      /\ log'[Len(log) + 1] = Current(c)
      /\ \A i \in 1 .. Len(log) : log'[i] = log[i]
      /\ \A i \in 1 .. Len(log') : i \in 1 .. Len(log) \/ i = Len(log) + 1
  BY <1>2, <1>5, <1>8, LogAppend DEF TypeOK
<1>10. Current(c)[1] = c /\ Current(c)[2] = request_count[c] /\ request_count[c] \in Nat
  BY <1>5 DEF Current, TypeOK, ClientType
<1>11. \A d : Executed(d)' <=> Executed(d)
  BY <1>2 DEF Executed
<1>12. ASSUME NEW r \in Replicas, NEW i \in 1 .. index[r]
       PROVE  log'[i] = log[i]
  <2>1. index[r] \in Nat /\ index[r] <= Len(log)
    BY IndexBound
  <2>. QED  BY <1>9, <2>1
<1>13. ExecutesLog' /\ LastExecuted'
  <2>1. applied' = applied /\ index' = index /\ last_executed_rid' = last_executed_rid
    BY <1>2
  <2>2. ExecutesLog /\ LastExecuted
    OBVIOUS
  <2>3. ExecutesLog'
    BY ONLY <1>12, <2>1, <2>2, Zenon DEF ExecutesLog
  <2>4. ASSUME NEW r \in Replicas, NEW d \in Clients
        PROVE  \/ last_executed_rid'[r][d] = NoRid
               \/ \E i \in 1 .. index'[r] : log'[i] = <<d, last_executed_rid'[r][d]>>
    <3>1. \/ last_executed_rid[r][d] = NoRid
          \/ \E i \in 1 .. index[r] : log[i] = <<d, last_executed_rid[r][d]>>
      BY ONLY <2>2, <2>4, Zenon DEF LastExecuted
    <3>2. \A i \in 1 .. index[r] : log'[i] = log[i]
      BY ONLY <1>12, <2>4, Zenon
    <3>. QED  BY ONLY <2>1, <3>1, <3>2, Zenon
  <2>. QED  BY ONLY <2>3, <2>4, Zenon DEF LastExecuted, NoRid
<1>14. LogSorted'
  <2>. SUFFICES ASSUME NEW i \in 1 .. Len(log'), NEW j \in 1 .. Len(log'), i < j,
                       log'[i][1] = log'[j][1]
                PROVE  log'[i][2] < log'[j][2]
    BY DEF LogSorted
  <2>1. CASE j \in 1 .. Len(log)
    <3>1. i \in 1 .. Len(log)
      BY <1>9, <2>1
    <3>. QED  BY <1>9, <2>1, <3>1 DEF LogSorted
  <2>2. CASE j = Len(log) + 1
    <3>1. i \in 1 .. Len(log)
      BY <1>9, <2>2
    <3>2. log[i][1] = c /\ log'[j] = Current(c) /\ log'[i] = log[i]
      BY <1>9, <1>10, <2>2, <3>1
    <3>3. Issued(c, log[i])
      BY <1>5, <3>1 DEF ClientInv, OnlyIssued
    <3>4. log[i] # Current(c)
      BY <1>8, <3>1 DEF InLog
    <3>5. log[i][2] < request_count[c]
      BY <3>2, <3>3, <3>4 DEF Issued
    <3>. QED  BY <1>10, <3>2, <3>5
  <2>. QED  BY <1>9, <2>1, <2>2
<1>15. ASSUME NEW d \in Clients PROVE OneMessage(d)'
  <2>1. OneMessage(d)
    BY DEF ClientInv
  <2>2. /\ InSetup(d)' => InSetup(d)
        /\ Proposing(d)' => Proposing(d) /\ Command(msg'[Leader]) = Command(msg[Leader])
        /\ Answering(d)' => Answering(d) /\ Command(msg'[RecvFrom]) = Command(msg[RecvFrom])
    BY <1>4, RoleFacts DEF InSetup, Proposing, Answering, Leader
  <2>3. Executed(Current(d)) => Executed(Current(d))'
    BY <1>2 DEF Executed, Current
  <2>4. CASE d # c
    <3>1. InLog(Current(d))' => InLog(Current(d))
      <4>1. Current(d)[1] = d /\ Current(d)' = Current(d)
        BY <1>2 DEF Current
      <4>2. \A i \in 1 .. Len(log') : log'[i] = Current(d) => i \in 1 .. Len(log) /\ log[i] = Current(d)
        BY <1>9, <1>10, <2>4, <4>1
      <4>. QED  BY <4>1, <4>2 DEF InLog
    <3>. QED  BY <1>2, <1>6, <1>7, <2>1, <2>2, <2>3, <3>1, MessageFrame
  <2>5. CASE d = c
    <3>. DEFINE answer == net[RecvFrom][c]
                welcome == net[Leader][c]
    <3>1. /\ welcome # << >> => Len(welcome) = 1 /\ (cpc[c] = "joining" \/ RecvFrom = Leader)
          /\ Answering(c) => /\ Command(msg[RecvFrom]) = Current(c)
                             /\ Executed(Current(c)) /\ answer = << >>
          /\ answer # << >> => /\ Len(answer) = 1
                               /\ Command(answer[1]) = Current(c)
                               /\ Executed(Current(c)) /\ ~Answering(c)
      BY <1>8, <2>1, <2>5 DEF OneMessage
    <3>2. /\ answer' = answer /\ welcome' = welcome /\ cpc'[c] = "waiting"
          /\ net'[c][Leader] = << >>
          /\ Current(c)' = Current(c) /\ (Executed(Current(c))' <=> Executed(Current(c)))
      BY <1>2, <1>5, <1>6, <1>8 DEF Current, Executed, Leader
    <3>3. HasOnly(net'[Leader][Acceptor], c, Current(c)) /\ ~Proposed(c)' /\ ~Proposing(c)'
      BY <1>5, <1>7, <1>8, <2>2, <2>5
    <3>4. ~InSetup(c)'
      BY <1>8, <2>1, <2>2, <2>5 DEF OneMessage
    <3>. HIDE DEF answer, welcome
    <3>5. Answering(c)' => /\ cpc'[c] = "waiting" /\ Command(msg'[RecvFrom]) = Current(c)
                           /\ Executed(Current(c))' /\ answer' = << >>
      BY <2>2, <2>5, <3>1, <3>2
    <3>6. welcome' # << >> => Len(welcome') = 1 /\ (cpc'[c] = "joining" \/ RecvFrom = Leader)
      BY <1>8, <3>1, <3>2
    <3>7. answer' # << >> => /\ Len(answer') = 1
                             /\ Command(answer'[1]) = Current(c)
                             /\ Executed(Current(c))' /\ ~Answering(c)'
      BY <2>2, <2>5, <3>1, <3>2
    <3>. QED  BY <2>5, <3>2, <3>3, <3>4, <3>5, <3>6, <3>7, Zenon
              DEF OneMessage, answer, welcome, Leader, Acceptor, Command
  <2>. QED  BY <2>4, <2>5
<1>16. ASSUME NEW d \in Clients PROVE OnlyIssued(d)'
  <2>1. ASSUME NEW i \in 1 .. Len(log') PROVE Issued(d, log[i])'
    <3>. PICK cmd : cmd = log'[i]
      OBVIOUS
    <3>1. Issued(d, cmd)
      <4>1. CASE i \in 1 .. Len(log)
        BY <1>9, <4>1 DEF ClientInv, OnlyIssued
      <4>2. CASE i = Len(log) + 1
        BY <1>8, <1>9, <1>10, <4>2 DEF Issued
      <4>. QED  BY <1>9, <4>1, <4>2
    <3>2. Issued(d, cmd)'
      BY <1>2, <1>6, <3>1 DEF Issued, Current, Leader
    <3>. QED  BY <3>2 DEF Issued
  <2>. QED  BY <2>1 DEF OnlyIssued
<1>17. ASSUME NEW d \in Clients PROVE PastExecuted(d)' /\ CountBounded(d)'
  BY <1>2 DEF ClientInv, PastExecuted, CountBounded, Executed
<1>. QED  BY <1>13, <1>14, <1>15, <1>16, <1>17 DEF ClientInv

(* The acceptor sends a LEARN. *)
LEMMA AnswersLearn ==
  ASSUME IInv, handle_accept_send
  PROVE  AnswersInv'
<1>. USE DEF IInv, OrderInv, AnswersInv
<1>1. /\ pc[Acceptor] = "learn" /\ net' = Sent(net, Acceptor, dst, msg[Acceptor])
      /\ UNCHANGED <<cpc, request_count, msg, log, applied, index, last_executed_rid>>
      /\ pc' = [pc EXCEPT ![Acceptor] = "execute"] \/ pc' = pc
  BY DEF handle_accept_send, Sends
<1>2. dst \in Replicas \ {Acceptor} /\ dst \in Nodes
  BY RoleFacts DEF TypeOK
<1>3. \A x, y \in Nodes : x # Acceptor \/ y # dst => net'[x][y] = net[x][y]
  BY <1>1, <1>2, RoleFacts, SendsMessage
<1>4. \A r \in Replicas : r # Acceptor => pc'[r] = pc[r]
  BY <1>1 DEF TypeOK
<1>5. /\ net'[Leader][Acceptor] = net[Leader][Acceptor]
      /\ \A d \in Clients : /\ net'[d][Leader] = net[d][Leader]
                            /\ net'[Leader][d] = net[Leader][d]
                            /\ net'[RecvFrom][d] = net[RecvFrom][d]
  BY <1>3, RoleFacts
<1>6. ASSUME NEW d \in Clients PROVE OneMessage(d)'
  <2>1. OneMessage(d)
    BY DEF ClientInv
  <2>2. /\ InSetup(d)' => InSetup(d)
        /\ Proposing(d)' => Proposing(d) /\ msg'[Leader] = msg[Leader]
        /\ Answering(d)' => Answering(d) /\ msg'[RecvFrom] = msg[RecvFrom]
        /\ Proposed(d)' => Proposed(d)
        /\ HasOnly(net'[Leader][Acceptor], d, Current(d))
    BY <1>1, <1>4, <1>5, <2>1, RoleFacts
       DEF InSetup, Proposing, Answering, Proposed, OneMessage, Leader, Acceptor
  <2>. QED  BY <1>1, <1>5, <2>1, <2>2, MessageSame
<1>. QED  BY <1>1, <1>5, <1>6, AnswersFrame

(* A replica has executed the next command: where it does not answer, all *)
(* that belongs to the clients is as it was. *)
LEMMA AnswersExecuted ==
  ASSUME IInv, NEW r \in Replicas, NEW cmd \in Commands,
         applied' = [applied EXCEPT ![r] = Append(@, cmd)],
         ExecutesLog', LastExecuted', UNCHANGED <<cpc, request_count, log>>,
         \A c \in Clients : net'[c][Leader] = net[c][Leader],
         \A c \in Clients : OneMessage(c)'
  PROVE  AnswersInv'
<1>. USE DEF IInv, OrderInv, AnswersInv
<1>1. LogSorted'
  BY DEF LogSorted
<1>2. \A c : Executed(c) => Executed(c)'
  BY ExecutedGrows
<1>3. ASSUME NEW c \in Clients PROVE ClientInv(c)'
  <2>1. OnlyIssued(c) /\ PastExecuted(c) /\ CountBounded(c)
    BY DEF ClientInv
  <2>2. net[c][Leader] = << >> => net'[c][Leader] = << >>
    OBVIOUS
  <2>3. OnlyIssued(c)' /\ PastExecuted(c)' /\ CountBounded(c)'
    BY <1>2, <2>1, <2>2, RestFrame
  <2>. QED  BY <2>3 DEF ClientInv
<1>. QED  BY <1>1, <1>3

(* A replica executes, and the messages of client c are untouched. *)
LEMMA MessageExecuted ==
  ASSUME TypeOK, NEW c \in Clients, OneMessage(c), NEW r \in Replicas, NEW cmd \in Commands,
         applied' = [applied EXCEPT ![r] = Append(@, cmd)],
         UNCHANGED <<cpc, request_count, log>>,
         net'[c][Leader] = net[c][Leader], net'[Leader][c] = net[Leader][c],
         net'[RecvFrom][c] = net[RecvFrom][c],
         net'[Leader][Acceptor] = net[Leader][Acceptor],
         InSetup(c)' => InSetup(c),
         Proposing(c)' => Proposing(c) /\ msg'[Leader] = msg[Leader],
         Answering(c)' => Answering(c) /\ msg'[RecvFrom] = msg[RecvFrom]
  PROVE  OneMessage(c)'
<1>1. InLog(Current(c))' => InLog(Current(c))
  BY DEF InLog, Current
<1>2. Executed(Current(c)) => Executed(Current(c))'
  <2>1. PICK cur : cur = Current(c)
    OBVIOUS
  <2>2. Executed(cur) => Executed(cur)'
    BY ExecutedGrows
  <2>3. Current(c)' = cur
    BY <2>1 DEF Current
  <2>. QED  BY <2>1, <2>2, <2>3 DEF Executed
<1>3. Proposed(c)' => Proposed(c)
  BY DEF Proposed, Leader, Acceptor
<1>4. HasOnly(net'[Leader][Acceptor], c, Current(c))
  BY DEF OneMessage
<1>. QED  BY <1>1, <1>2, <1>3, <1>4, MessageFrame

(* The acceptor executes the command it has ordered. *)
LEMMA AnswersAcceptExecute ==
  ASSUME RidsSuffice, IInv, handle_accept_execute
  PROVE  /\ AnswersInv'
         /\ applied' = [applied EXCEPT ![Acceptor] = Append(@, log[index[Acceptor] + 1])]
         /\ index[Acceptor] + 1 <= Len(log)
<1>. USE DEF IInv, OrderInv, AnswersInv
<1>1. PICK m : m = msg[Acceptor]
  OBVIOUS
<1>2. /\ pc[Acceptor] = "execute" /\ execute(Acceptor, m) /\ Returns(Acceptor)
      /\ index' = [index EXCEPT ![Acceptor] = m.index + 1]
      /\ UNCHANGED <<net, cpc, request_count, log>>
  BY <1>1 DEF handle_accept_execute, clientVars
<1>3. /\ Len(log) = index[Acceptor] + 1 /\ m.index = index[Acceptor]
      /\ Command(m) = log[index[Acceptor] + 1] /\ m \in Messages /\ index[Acceptor] \in Nat
  BY <1>1, <1>2, RoleFacts DEF AcceptorHolds, TypeOK
<1>4. index[Acceptor] + 1 \in 1 .. Len(log) /\ index' = [index EXCEPT ![Acceptor] = index[Acceptor] + 1]
  BY <1>2, <1>3
<1>5. /\ applied' = [applied EXCEPT ![Acceptor] = Append(@, Command(m))]
      /\ ExecutesLog' /\ LastExecuted'
  BY <1>2, <1>3, <1>4, RoleFacts, ExecuteStep
<1>6. Command(m) \in Commands
  BY <1>3, MessageFacts
<1>7. \A r \in Replicas : r # Acceptor => pc'[r] = pc[r] /\ msg'[r] = msg[r]
  BY <1>2 DEF TypeOK, Returns
<1>8. ASSUME NEW d \in Clients PROVE OneMessage(d)'
  <2>1. OneMessage(d)
    BY DEF ClientInv
  <2>2. /\ InSetup(d)' => InSetup(d)
        /\ Proposing(d)' => Proposing(d) /\ msg'[Leader] = msg[Leader]
        /\ Answering(d)' => Answering(d) /\ msg'[RecvFrom] = msg[RecvFrom]
    BY <1>7, RoleFacts DEF InSetup, Proposing, Answering, Leader
  <2>. QED  BY <1>2, <1>5, <1>6, <2>1, <2>2, RoleFacts, MessageExecuted
<1>9. AnswersInv'
  BY <1>2, <1>5, <1>6, <1>8, RoleFacts, AnswersExecuted
<1>. QED  BY <1>3, <1>5, <1>9

(***************************************************************************)
(* A command that the replica that answers has yet to learn is of a client *)
(* that waits for it, and to which nothing is on its way: all that was     *)
(* answered the replica has executed, and the log holds nothing twice.     *)
(***************************************************************************)
LEMMA LearntIsAwaited ==
  ASSUME IInv, NEW c \in Clients, NEW cmd, cmd[1] = c,
         NEW j \in 1 .. Len(log), index[RecvFrom] < j, cmd = log[j]
  PROVE  /\ cmd = Current(c) /\ cpc[c] = "waiting"
         /\ net[c][Leader] = << >> /\ net[RecvFrom][c] = << >>
<1>. USE DEF IInv, OrderInv, AnswersInv
<1>1. cmd \in Commands /\ cmd = <<c, cmd[2]>> /\ cmd[2] \in Nat
  <2>1. cmd \in Commands
    BY ElementOfSeq DEF TypeOK, HistoryType
  <2>. QED  BY <2>1 DEF Commands
<1>2. ~Executed(cmd)
  <2>. SUFFICES ASSUME Executed(cmd) PROVE FALSE
    OBVIOUS
  <2>1. PICK i \in 1 .. Len(applied[RecvFrom]) : applied[RecvFrom][i] = cmd
    BY DEF Executed
  <2>2. /\ Len(applied[RecvFrom]) = index[RecvFrom] /\ index[RecvFrom] \in Nat
        /\ index[RecvFrom] <= Len(log) /\ Len(log) \in Nat
    BY RoleFacts, IndexBound DEF ExecutesLog
  <2>3. log[i] = cmd
    BY <2>1, <2>2, RoleFacts DEF ExecutesLog
  <2>4. i \in 1 .. Len(log) /\ i < j
    BY <2>1, <2>2
  <2>5. cmd[2] < cmd[2]
    BY <2>3, <2>4 DEF LogSorted
  <2>. QED  BY <1>1, <2>5
<1>3. ClientInv(c)
  OBVIOUS
<1>4. Issued(c, cmd)
  BY <1>3 DEF ClientInv, OnlyIssued
<1>5. ~(cmd[2] < request_count[c])
  <2>. SUFFICES ASSUME cmd[2] < request_count[c] PROVE FALSE
    OBVIOUS
  <2>1. cmd[2] \in 0 .. request_count[c] - 1
    BY <1>1 DEF TypeOK, ClientType
  <2>2. Executed(<<c, cmd[2]>>)
    BY <1>3, <2>1 DEF ClientInv, PastExecuted
  <2>. QED  BY <1>1, <1>2, <2>2
<1>6. cmd = Current(c) /\ cpc[c] = "waiting" /\ net[c][Leader] = << >>
  BY <1>4, <1>5 DEF Issued
<1>7. net[RecvFrom][c] = << >>
  BY <1>2, <1>3, <1>6 DEF ClientInv, OneMessage
<1>. QED  BY <1>6, <1>7

(* A replica learns. *)
LEMMA AnswersLearnt ==
  ASSUME RidsSuffice, IInv, NEW r \in Replicas \ {Acceptor}, handle_learn(r)
  PROVE  /\ AnswersInv'
         /\ applied' = [applied EXCEPT ![r] = Append(@, log[index[r] + 1])]
         /\ index[r] + 1 <= Len(log)
<1>. USE DEF IInv, OrderInv, AnswersInv
<1>1. PICK m, a : m = Head(net[Acceptor][r]) /\ a = [m EXCEPT !.tag = "RESP"]
  OBVIOUS
<1>2. /\ Takes(r, Acceptor, "LEARN") /\ execute(r, m)
      /\ index' = [index EXCEPT ![r] = m.index + 1]
      /\ \/ Answers(r, m) /\ Enters(r, "respond", a)
         \/ UNCHANGED <<pc, msg>>
      /\ UNCHANGED <<cpc, request_count, log>>
  BY <1>1 DEF handle_learn
<1>3. /\ pc[r] = "poll" /\ m \in Messages /\ m.tag = "LEARN" /\ net[Acceptor][r] # << >>
      /\ \A x, y \in Nodes : x # Acceptor \/ y # r => net'[x][y] = net[x][y]
  BY <1>1, <1>2, RoleFacts, TakesMessage
<1>4. /\ m.index = index[r] /\ Command(m) = log[index[r] + 1]
      /\ index[r] \in Nat /\ index[r] + 1 \in 1 .. Len(log) /\ Len(log) \in Nat
  BY <1>1, <1>3, NextLearn
<1>5. index' = [index EXCEPT ![r] = index[r] + 1]
  BY <1>2, <1>4
<1>6. /\ applied' = [applied EXCEPT ![r] = Append(@, Command(m))]
      /\ ExecutesLog' /\ LastExecuted'
  BY <1>2, <1>3, <1>4, <1>5, ExecuteStep
<1>7. /\ Command(m) \in Commands /\ m.cid \in Clients /\ Command(m) = <<m.cid, m.rid>>
      /\ a.cid = m.cid /\ Command(a) = Command(m)
  BY <1>1, <1>3, MessageFacts, Zenon
<1>8. /\ net'[Leader][Acceptor] = net[Leader][Acceptor]
      /\ \A d \in Clients : /\ net'[d][Leader] = net[d][Leader]
                            /\ net'[Leader][d] = net[Leader][d]
                            /\ net'[RecvFrom][d] = net[RecvFrom][d]
  BY <1>3, RoleFacts
<1>9. \A q \in Replicas : q # r => pc'[q] = pc[q] /\ msg'[q] = msg[q]
  BY <1>2 DEF TypeOK, Enters
<1>10. pc'[r] = "poll" \/ (pc'[r] = "respond" /\ msg'[r] = a)
  BY <1>2, <1>3 DEF TypeOK, Enters
<1>11. \A d \in Clients : /\ InSetup(d)' => InSetup(d)
                          /\ Proposing(d)' => Proposing(d) /\ msg'[Leader] = msg[Leader]
  BY <1>9, <1>10, RoleFacts DEF InSetup, Proposing, Leader
<1>12. ASSUME NEW d \in Clients PROVE OneMessage(d)'
  <2>1. OneMessage(d)
    BY DEF ClientInv
  <2>2. CASE Answering(d)' => Answering(d) /\ msg'[RecvFrom] = msg[RecvFrom]
    BY <1>2, <1>6, <1>7, <1>8, <1>11, <2>1, <2>2, RoleFacts, MessageExecuted
  <2>3. CASE ~(Answering(d)' => Answering(d) /\ msg'[RecvFrom] = msg[RecvFrom])
    <3>1. r = RecvFrom /\ pc'[r] = "respond" /\ msg'[r] = a /\ a.cid = d
      BY <1>9, <1>10, <2>3, RoleFacts DEF Answering
    <3>2. Command(m)[1] = d
      BY <1>7, <3>1
    <3>3. /\ Command(m) = Current(d) /\ cpc[d] = "waiting"
          /\ net[d][Leader] = << >> /\ net[RecvFrom][d] = << >>
      <4>1. index[r] < index[r] + 1
        BY <1>4
      <4>. QED  BY <1>4, <3>1, <3>2, <4>1, LearntIsAwaited
    <3>4. Executed(Current(d))'
      <4>1. PICK cmd : cmd = Command(m)
        OBVIOUS
      <4>2. Executed(cmd)'
        BY <1>6, <1>7, <3>1, <4>1, ExecutedGrows
      <4>3. Current(d)' = cmd
        BY <1>2, <3>3, <4>1 DEF Current
      <4>. QED  BY <4>2, <4>3 DEF Executed
    <3>5. /\ Current(d)' = Current(d) /\ cpc'[d] = "waiting"
          /\ (InLog(Current(d))' <=> InLog(Current(d)))
          /\ net'[d][Leader] = << >> /\ net'[RecvFrom][d] = << >>
          /\ net'[Leader][d] = net[Leader][d]
          /\ (Proposed(d)' <=> Proposed(d))
      BY <1>2, <1>8, <3>3 DEF Current, InLog, Proposed, Leader, Acceptor
    <3>6. /\ ~InSetup(d)
          /\ Proposing(d) => /\ Command(msg[Leader]) = Current(d)
                             /\ ~InLog(Current(d)) /\ ~Proposed(d)
          /\ Proposed(d) => ~InLog(Current(d))
          /\ HasOnly(net[Leader][Acceptor], d, Current(d))
          /\ net[Leader][d] # << >> => Len(net[Leader][d]) = 1 /\ RecvFrom = Leader
      BY <2>1, <3>3 DEF OneMessage
    <3>7. /\ ~InSetup(d)'
          /\ Proposing(d)' => /\ Command(msg'[Leader]) = Current(d)'
                              /\ ~InLog(Current(d))' /\ ~Proposed(d)'
          /\ Proposed(d)' => ~InLog(Current(d))'
          /\ HasOnly(net'[Leader][Acceptor], d, Current(d)')
          /\ net'[Leader][d] # << >> => Len(net'[Leader][d]) = 1 /\ RecvFrom = Leader
      BY <1>8, <1>11, <3>5, <3>6
    <3>8. Command(msg'[RecvFrom]) = Current(d)'
      BY <1>7, <3>1, <3>3, <3>5
    <3>. QED  BY <3>4, <3>5, <3>7, <3>8, Zenon DEF OneMessage, Leader, Acceptor, Command
  <2>. QED  BY <2>2, <2>3
<1>13. AnswersInv'
  BY <1>2, <1>6, <1>7, <1>8, <1>12, AnswersExecuted
<1>. QED  BY <1>4, <1>6, <1>13

(* A replica sends its answer, or what it holds for one. *)
LEMMA AnswersRespond ==
  ASSUME IInv, NEW r \in Replicas, handle_learn_respond(r)
  PROVE  AnswersInv'
<1>. USE DEF IInv, OrderInv, AnswersInv
<1>1. PICK m, c : m = msg[r] /\ c = m.cid
  OBVIOUS
<1>2. /\ pc[r] = "respond" /\ net' = Sent(net, r, c, m) /\ Returns(r)
      /\ UNCHANGED <<cpc, request_count, log, applied, index, last_executed_rid>>
  BY <1>1 DEF handle_learn_respond, onepaxosVars, Sends
<1>3. m \in Messages /\ c \in Clients /\ r # Acceptor
  <2>1. m \in Messages
    BY <1>1, <1>2 DEF TypeOK
  <2>2. r # Acceptor
    BY <1>2 DEF TypeOK, AcceptorPCs
  <2>. QED  BY <1>1, <2>1, <2>2, MessageFacts
<1>4. /\ net'[r][c] = Append(net[r][c], m)
      /\ \A x, y \in Nodes : x # r \/ y # c => net'[x][y] = net[x][y]
  <2>1. /\ TypeOK /\ r \in Replicas /\ c \in Nodes /\ pc[r] # "poll"
        /\ net' = Sent(net, r, c, msg[r]) /\ m = msg[r]
    BY <1>1, <1>2, <1>3, RoleFacts
  <2>. QED  BY ONLY <2>1, SendsMessage
<1>5. /\ pc'[r] = "poll"
      /\ \A q \in Replicas : q # r => pc'[q] = pc[q] /\ msg'[q] = msg[q]
  <2>1. /\ pc \in [Replicas -> LeaderPCs \cup AcceptorPCs]
        /\ msg \in [Replicas -> Messages \cup {NoMsg}]
    BY DEF TypeOK
  <2>2. /\ pc' = [pc EXCEPT ![r] = "poll"]
        /\ msg' = [msg EXCEPT ![r] = NoMsg]
    BY <1>2 DEF Returns
  <2>. QED  BY ONLY r \in Replicas, <2>1, <2>2
<1>6. r = Leader => RecvFrom = Leader
  BY <1>2 DEF TypeOK
<1>7. /\ net'[Leader][Acceptor] = net[Leader][Acceptor]
      /\ \A d \in Clients : /\ net'[d][Leader] = net[d][Leader]
                            /\ d # c => /\ net'[Leader][d] = net[Leader][d]
                                        /\ net'[RecvFrom][d] = net[RecvFrom][d]
      /\ r # RecvFrom => /\ net'[Leader][c] = net[Leader][c]
                         /\ net'[RecvFrom][c] = net[RecvFrom][c]
      /\ RecvFrom # Leader => net'[Leader][c] = net[Leader][c]
  BY <1>3, <1>4, <1>6, RoleFacts
<1>8. \A d \in Clients :
        /\ InSetup(d)' => InSetup(d)
        /\ Proposing(d)' => Proposing(d) /\ msg'[Leader] = msg[Leader]
        /\ Answering(d)' => r # RecvFrom /\ Answering(d) /\ msg'[RecvFrom] = msg[RecvFrom]
        /\ Proposed(d)' <=> Proposed(d)
        /\ HasOnly(net'[Leader][Acceptor], d, Current(d))
  BY <1>5, <1>7, RoleFacts
     DEF InSetup, Proposing, Answering, Proposed, ClientInv, OneMessage, Leader, Acceptor
<1>9. ASSUME NEW d \in Clients PROVE OneMessage(d)'
  <2>1. OneMessage(d)
    BY DEF ClientInv
  <2>2. CASE r # RecvFrom \/ d # c
    <3>1. net'[Leader][d] = net[Leader][d] /\ net'[RecvFrom][d] = net[RecvFrom][d]
      BY <1>7, <2>2
    <3>. QED  BY <1>2, <1>7, <1>8, <2>1, <3>1, MessageSame
  <2>3. CASE r = RecvFrom /\ d = c
    <3>1. /\ cpc[c] = "waiting" /\ Command(m) = Current(c) /\ Executed(Current(c))
          /\ net[RecvFrom][c] = << >>
      <4>1. Answering(c)
        BY <1>1, <1>2, <2>3 DEF Answering
      <4>. QED  BY <1>1, <2>1, <2>3, <4>1 DEF OneMessage
    <3>2. net'[RecvFrom][c] = <<m>>
      BY <1>4, <2>3, <3>1, SingleMessage
    <3>3. /\ net[c][Leader] # << >> =>
               /\ ~InSetup(c) /\ ~Proposing(c) /\ ~Proposed(c)
               /\ net[c][Leader] = <<RequestMessage(c)>>
          /\ ~InSetup(c)
          /\ Proposing(c) => /\ Command(msg[Leader]) = Current(c)
                             /\ ~InLog(Current(c)) /\ ~Proposed(c)
          /\ Proposed(c) => ~InLog(Current(c))
          /\ net[Leader][c] # << >> => Len(net[Leader][c]) = 1 /\ RecvFrom = Leader
      BY <2>1, <2>3, <3>1 DEF OneMessage
    <3>4. /\ Current(c)' = Current(c) /\ cpc'[c] = "waiting"
          /\ RequestMessage(c)' = RequestMessage(c)
          /\ (InLog(Current(c))' <=> InLog(Current(c)))
          /\ Executed(Current(c))'
          /\ net'[c][Leader] = net[c][Leader]
      BY <1>2, <1>3, <1>7, <3>1 DEF Current, InLog, Executed, RequestMessage, Leader
    <3>5. net'[Leader][c] # << >> => Len(net'[Leader][c]) = 1 /\ RecvFrom = Leader
      <4>1. CASE RecvFrom = Leader
        <5>1. Len(net'[RecvFrom][c]) = 1
          BY <3>2, SingleMessage
        <5>. QED  BY <4>1, <5>1
      <4>2. CASE RecvFrom # Leader
        BY <1>7, <3>3, <4>2
      <4>. QED  BY <4>1, <4>2
    <3>6. /\ ~InSetup(c)' /\ ~Answering(c)'
          /\ Proposing(c)' => /\ Command(msg'[Leader]) = Current(c)'
                              /\ ~InLog(Current(c))' /\ ~Proposed(c)'
          /\ Proposed(c)' => ~InLog(Current(c))'
          /\ HasOnly(net'[Leader][Acceptor], c, Current(c)')
          /\ net'[c][Leader] # << >> =>
               /\ ~InSetup(c)' /\ ~Proposing(c)' /\ ~Proposed(c)'
               /\ net'[c][Leader] = <<RequestMessage(c)'>>
      BY <1>3, <1>8, <2>3, <3>3, <3>4
    <3>7. Command(net'[RecvFrom][c][1]) = Current(c)' /\ Len(net'[RecvFrom][c]) = 1
      BY <3>1, <3>2, <3>4, SingleMessage
    <3>. QED  BY <2>3, <3>4, <3>5, <3>6, <3>7, Zenon DEF OneMessage, Leader, Acceptor, Command
  <2>. QED  BY <2>2, <2>3
<1>. QED  BY <1>2, <1>7, <1>9, AnswersFrame

(* The initial states. *)
LEMMA InitAnswers == Init => AnswersInv
<1>. SUFFICES ASSUME Init PROVE AnswersInv
  OBVIOUS
<1>1. /\ log = << >> /\ index = [r \in Replicas |-> 0]
      /\ applied = [r \in Replicas |-> << >>]
      /\ last_executed_rid = [r \in Replicas |-> [c \in Clients |-> NoRid]]
      /\ \A r \in Replicas : pc[r] = "poll"
      /\ \A x, y \in Nodes : net[x][y] = << >>
      /\ \A c \in Clients : cpc[c] = "new" /\ request_count[c] = 0
  BY DEF Init, ClientInit, ReplicaInit, EmptyNet
<1>2. Len(log) = 0 /\ \A r \in Replicas : applied[r] = << >> /\ Len(applied[r]) = 0
  BY <1>1, EmptySeq
<1>3. ExecutesLog /\ LastExecuted /\ LogSorted
  BY <1>1, <1>2 DEF ExecutesLog, LastExecuted, LogSorted
<1>4. ASSUME NEW c \in Clients PROVE ClientInv(c)
  <2>1. /\ pc[Leader] = "poll" /\ pc[RecvFrom] = "poll"
        /\ net[c][Leader] = << >> /\ net[Leader][c] = << >> /\ net[RecvFrom][c] = << >>
        /\ net[Leader][Acceptor] = << >> /\ Len(net[Leader][Acceptor]) = 0
    BY <1>1, RoleFacts, EmptySeq
  <2>2. ~InSetup(c) /\ ~Proposing(c) /\ ~Proposed(c) /\ ~Answering(c)
        /\ HasOnly(net[Leader][Acceptor], c, Current(c))
    BY <2>1 DEF InSetup, Proposing, Proposed, Answering, Has, HasOnly
  <2>3. OneMessage(c)
    BY <2>1, <2>2 DEF OneMessage
  <2>4. OnlyIssued(c) /\ PastExecuted(c) /\ CountBounded(c)
    BY <1>1, <1>2, MaxReqAssumption DEF OnlyIssued, PastExecuted, CountBounded
  <2>. QED  BY <2>3, <2>4 DEF ClientInv
<1>. QED  BY <1>3, <1>4 DEF AnswersInv

(* Every step keeps what the answers rest on. *)
LEMMA AnswersStep == RidsSuffice /\ IInv /\ [Next]_vars => AnswersInv'
<1>. SUFFICES ASSUME RidsSuffice, IInv, [Next]_vars PROVE AnswersInv'
  OBVIOUS
<1>1. CASE UNCHANGED vars
  <2>1. UNCHANGED <<net, cpc, request_count, pc, msg, log, applied, index, last_executed_rid>>
    BY <1>1 DEF vars, clientVars, replicaVars, onepaxosVars
  <2>2. ASSUME NEW c \in Clients PROVE OneMessage(c)'
    <3>1. OneMessage(c) /\ HasOnly(net[Leader][Acceptor], c, Current(c))
      BY DEF IInv, AnswersInv, ClientInv, OneMessage
    <3>2. /\ net' = net /\ InSetup(c)' => InSetup(c)
          /\ Proposing(c)' => Proposing(c) /\ msg'[Leader] = msg[Leader]
          /\ Answering(c)' => Answering(c) /\ msg'[RecvFrom] = msg[RecvFrom]
          /\ Proposed(c)' => Proposed(c)
      BY <2>1 DEF InSetup, Proposing, Answering, Proposed, Leader, Acceptor
    <3>. QED  BY <2>1, <3>1, <3>2, MessageSame
  <2>. QED  BY <2>1, <2>2, AnswersFrame
<1>. QED  BY <1>1, AnswersClient, AnswersSetup, AnswersWelcome, AnswersRequest, AnswersPropose,
             AnswersAccept, AnswersLearn, AnswersAcceptExecute, AnswersLearnt, AnswersRespond,
             RoleFacts
          DEF Next, LeaderReceive, LeaderContinue, AcceptorStep, LearnerStep, Terminated

(***************************************************************************)
(* The inductive invariant, if no client issues more requests than there   *)
(* are request ids.                                                        *)
(***************************************************************************)
THEOREM InductiveInvariant == RidsSuffice => (Spec => []IInv)
<1>. SUFFICES ASSUME RidsSuffice PROVE Spec => []IInv
  OBVIOUS
<1>1. Init => IInv
  BY InitOrder, InitAnswers DEF IInv
<1>2. IInv /\ [Next]_vars => IInv'
  <2>. SUFFICES ASSUME IInv, [Next]_vars PROVE IInv'
    OBVIOUS
  <2>1. OrderInv'
    BY OrderStep DEF IInv
  <2>2. AnswersInv'
    BY AnswersStep
  <2>. QED  BY <2>1, <2>2 DEF IInv
<1>. QED  BY <1>1, <1>2, PTL DEF Spec

(* A client is answered only what it waits for, by a replica that has it. *)
LEMMA ExecutedLocally == IInv => AnswersExecutedLocally
<1>. SUFFICES ASSUME IInv, NEW c \in Clients
              PROVE  /\ \A k \in 0 .. request_count[c] - 1 : Executed(<<c, k>>)
                     /\ cpc[c] = "waiting" =>
                          \A i \in 1 .. Len(net[RecvFrom][c]) :
                            /\ Command(net[RecvFrom][c][i]) = <<c, request_count[c]>>
                            /\ Executed(<<c, request_count[c]>>)
  BY DEF AnswersExecutedLocally, Executed
<1>1. OneMessage(c) /\ PastExecuted(c)
  BY DEF IInv, AnswersInv, ClientInv
<1>2. ASSUME cpc[c] = "waiting", NEW i \in 1 .. Len(net[RecvFrom][c])
      PROVE  /\ Command(net[RecvFrom][c][i]) = <<c, request_count[c]>>
             /\ Executed(<<c, request_count[c]>>)
  <2>1. net[RecvFrom][c] # << >>
    BY <1>2, EmptySeq
  <2>2. Len(net[RecvFrom][c]) = 1 /\ Command(net[RecvFrom][c][1]) = Current(c)
        /\ Executed(Current(c))
    BY <1>1, <1>2, <2>1 DEF OneMessage
  <2>3. i = 1
    BY <2>2
  <2>. QED  BY <2>2, <2>3 DEF Current
<1>. QED  BY <1>1, <1>2 DEF PastExecuted

(***************************************************************************)
(* The answer a client takes unread is the one to its request, and the     *)
(* replica it comes from, whose memory the client reads next in the build  *)
(* with KVS, has executed all that the client has asked for.               *)
(***************************************************************************)
THEOREM AnswersExecutedLocallyCorrect == RidsSuffice => (Spec => []AnswersExecutedLocally)
<1>. SUFFICES ASSUME RidsSuffice PROVE Spec => []AnswersExecutedLocally
  OBVIOUS
<1>. QED  BY InductiveInvariant, ExecutedLocally, PTL

(* What a replica has passed in the log it has executed. *)
LEMMA DroppedExecuted == IInv => OnlyDuplicatesDropped
BY DEF IInv, AnswersInv, ExecutesLog, OnlyDuplicatesDropped

(***************************************************************************)
(* No replica takes a new request for a duplicate, unless a client counts  *)
(* its requests past the width of their ids (then it does: onepaxos_wrap). *)
(***************************************************************************)
THEOREM OnlyDuplicatesDroppedCorrect == RidsSuffice => (Spec => []OnlyDuplicatesDropped)
<1>. SUFFICES ASSUME RidsSuffice PROVE Spec => []OnlyDuplicatesDropped
  OBVIOUS
<1>. QED  BY InductiveInvariant, DroppedExecuted, PTL

------------------------------------------------------------------------------
(* The replicated log *)

(* A step of the protocol is one of the log, or none. *)
LEMMA StepRefines == RidsSuffice /\ IInv /\ [Next]_vars => [Abstract!Next]_(Abstract!vars)
<1>. SUFFICES ASSUME RidsSuffice, IInv, [Next]_vars PROVE [Abstract!Next]_(Abstract!vars)
  OBVIOUS
<1>. USE DEF IInv, OrderInv, AnswersInv
<1>1. CASE UNCHANGED vars
  BY <1>1, StutterRefines DEF vars, clientVars, replicaVars
<1>2. ASSUME NEW c \in Clients, ClientMoves(c)
      PROVE  [Abstract!Next]_(Abstract!vars)
  <2>1. ClientType /\ ClientStep(c) /\ UNCHANGED <<log, applied>>
    BY <1>2 DEF ClientMoves, replicaVars, TypeOK
  <2>2. cpc[c] = "waiting" /\ net[RecvFrom][c] # << >> => InLog(Current(c))
    <3>. SUFFICES ASSUME cpc[c] = "waiting", net[RecvFrom][c] # << >>
                  PROVE  InLog(Current(c))
      OBVIOUS
    <3>1. Executed(Current(c))
      BY DEF ClientInv, OneMessage
    <3>. QED  BY <3>1, ExecutedInLog
  <2>. QED  BY <2>1, <2>2, ClientRefines
<1>3. CASE handle_accept
  <2>1. PICK m, c : m = Head(net[Leader][Acceptor]) /\ c = m.cid
    OBVIOUS
  <2>2. /\ Takes(Acceptor, Leader, "ACC") /\ log' = Append(log, Command(m))
        /\ UNCHANGED <<cpc, request_count, applied>>
    BY <1>3, <2>1 DEF handle_accept
  <2>3. /\ m \in Messages /\ net[Leader][Acceptor] # << >>
        /\ net[Leader][Acceptor] \in Seq(Messages)
    BY <2>1, <2>2, RoleFacts, TakesMessage
  <2>4. c \in Clients
    BY <2>1, <2>3, MessageFacts
  <2>5. Proposed(c) /\ Command(m) = Current(c)
    <3>1. HasOnly(net[Leader][Acceptor], c, Current(c))
      BY <2>4 DEF ClientInv, OneMessage
    <3>. QED  BY <2>1, <2>3, <2>4, <3>1, HasOnlyTail DEF Proposed
  <2>6. cpc[c] = "waiting" /\ ~InLog(Current(c))
    BY <2>4, <2>5 DEF ClientInv, OneMessage
  <2>. QED  BY <2>2, <2>4, <2>5, <2>6, DecideRefines DEF TypeOK
<1>4. ASSUME NEW r \in Replicas, UNCHANGED <<cpc, request_count, log>>,
             applied' = [applied EXCEPT ![r] = Append(@, log[index[r] + 1])],
             index[r] + 1 <= Len(log)
      PROVE  [Abstract!Next]_(Abstract!vars)
  <2>1. Len(applied[r]) = index[r] /\ index[r] \in Nat /\ Len(log) \in Nat
    BY IndexBound DEF ExecutesLog
  <2>2. PICK cmd : cmd = log[Len(applied[r]) + 1]
    OBVIOUS
  <2>3. Len(applied[r]) < Len(log) /\ applied' = [applied EXCEPT ![r] = Append(@, cmd)]
    BY <1>4, <2>1, <2>2
  <2>. QED  BY <1>4, <2>2, <2>3, ApplyRefines
<1>5. CASE handle_accept_execute
  <2>1. UNCHANGED <<cpc, request_count, log>>
    BY <1>5 DEF handle_accept_execute, clientVars
  <2>. QED  BY <1>4, <1>5, <2>1, RoleFacts, AnswersAcceptExecute
<1>6. ASSUME NEW r \in Replicas \ {Acceptor}, handle_learn(r)
      PROVE  [Abstract!Next]_(Abstract!vars)
  <2>1. UNCHANGED <<cpc, request_count, log>>
    BY <1>6 DEF handle_learn
  <2>. QED  BY <1>4, <1>6, <2>1, AnswersLearnt
<1>7. ASSUME \/ \E c \in Clients : handle_setup(c) \/ handle_request(c)
             \/ handle_setup_send \/ handle_request_send \/ handle_accept_send
             \/ \E r \in Replicas : handle_learn_respond(r)
      PROVE  [Abstract!Next]_(Abstract!vars)
  <2>1. UNCHANGED <<cpc, request_count, log, applied>>
    BY <1>7 DEF handle_setup, handle_request, handle_setup_send, handle_request_send,
                handle_accept_send, handle_learn_respond
  <2>. QED  BY <2>1, StutterRefines
<1>. QED  BY <1>1, <1>2, <1>3, <1>5, <1>6, <1>7, RoleFacts
          DEF Next, LeaderReceive, LeaderContinue, AcceptorStep, LearnerStep, Terminated

(***************************************************************************)
(* 1Paxos implements the replicated log: handle_accept orders a command,   *)
(* handle_accept_execute and handle_learn apply it, a client issues and    *)
(* takes answers, and no other step is seen.                               *)
(***************************************************************************)
THEOREM Refinement == RidsSuffice => (Spec => ImplementsReplicatedLog)
<1>. SUFFICES ASSUME RidsSuffice PROVE Spec => Abstract!Spec
  BY DEF ImplementsReplicatedLog
<1>1. Init => Abstract!Init
  BY InitRefines DEF Init
<1>2. IInv /\ [Next]_vars => [Abstract!Next]_(Abstract!vars)
  BY StepRefines
<1>. QED  BY <1>1, <1>2, InductiveInvariant, PTL DEF Spec, Abstract!Spec

(***************************************************************************)
(* So 1Paxos orders every request that it answers, once and in the         *)
(* order of its client, every replica executes that order, and a request   *)
(* issued after an answer comes after what was answered.                   *)
(***************************************************************************)
THEOREM PromiseKept == RidsSuffice => (Spec => Promise)
<1>. SUFFICES ASSUME RidsSuffice PROVE Spec => Promise
  OBVIOUS
<1>. QED  BY Refinement, LogPromise, PTL DEF ImplementsReplicatedLog

------------------------------------------------------------------------------
(* The circular wait *)

(* What SafeClients is about: how many clients there are. *)
FewClients == IsFiniteSet(Clients) /\ Cardinality(Clients) <= SafeClients

(* A client whose request is on its way to the acceptor, or held for it. *)
LEMMA PendingClients ==
  ASSUME IInv, NEW s, s = net[Leader][Acceptor]
  PROVE  /\ \A k \in 1 .. Len(s) : /\ s[k].cid \in Clients
                                   /\ ~InLog(Current(s[k].cid))
         /\ \A j, k \in 1 .. Len(s) : s[j].cid = s[k].cid => j = k
         /\ pc[Leader] = "accept" =>
              /\ msg[Leader].cid \in Clients /\ ~InLog(Current(msg[Leader].cid))
              /\ \A k \in 1 .. Len(s) : s[k].cid # msg[Leader].cid
<1>. USE DEF IInv, OrderInv, AnswersInv
<1>1. s \in Seq(Messages)
  BY RoleFacts DEF TypeOK, Channels
<1>2. ASSUME NEW k \in 1 .. Len(s)
      PROVE  s[k].cid \in Clients /\ Proposed(s[k].cid)
  <2>1. s[k] \in Messages
    BY <1>1, ElementOfSeq
  <2>2. s[k].cid \in Clients
    BY <2>1, MessageFacts
  <2>. QED  BY <2>2 DEF Proposed, Has
<1>3. \A k \in 1 .. Len(s) : s[k].cid \in Clients /\ ~InLog(Current(s[k].cid))
  BY <1>2 DEF ClientInv, OneMessage
<1>4. ASSUME NEW j \in 1 .. Len(s), NEW k \in 1 .. Len(s), s[j].cid = s[k].cid
      PROVE  j = k
  <2>. PICK c : c = s[k].cid
    OBVIOUS
  <2>1. HasOnly(s, c, Current(c))
    BY <1>2 DEF ClientInv, OneMessage
  <2>. QED  BY <1>4, <2>1 DEF HasOnly
<1>5. ASSUME pc[Leader] = "accept"
      PROVE  /\ msg[Leader].cid \in Clients /\ ~InLog(Current(msg[Leader].cid))
             /\ \A k \in 1 .. Len(s) : s[k].cid # msg[Leader].cid
  <2>. PICK c : c = msg[Leader].cid
    OBVIOUS
  <2>1. msg[Leader] \in Messages
    BY <1>5, RoleFacts DEF TypeOK
  <2>2. c \in Clients /\ Proposing(c)
    BY <1>5, <2>1, MessageFacts DEF Proposing
  <2>3. ~InLog(Current(c)) /\ ~Proposed(c)
    BY <2>2 DEF ClientInv, OneMessage
  <2>. QED  BY <2>2, <2>3 DEF Proposed, Has
<1>. QED  BY <1>3, <1>4, <1>5

(* The clients whose commands the replica that answers has yet to learn. *)
LEMMA UnlearntClients ==
  ASSUME IInv
  PROVE  /\ \A j \in 1 .. Len(log) : index[RecvFrom] < j =>
              log[j][1] \in Clients /\ InLog(Current(log[j][1]))
         /\ \A i, j \in 1 .. Len(log) :
              index[RecvFrom] < i /\ index[RecvFrom] < j /\ log[i][1] = log[j][1] => i = j
<1>. USE DEF IInv, OrderInv, AnswersInv
<1>1. ASSUME NEW j \in 1 .. Len(log), index[RecvFrom] < j
      PROVE  log[j][1] \in Clients /\ log[j] = Current(log[j][1])
  <2>1. log[j] \in Commands
    BY ElementOfSeq DEF TypeOK, HistoryType
  <2>2. log[j][1] \in Clients
    BY <2>1 DEF Commands
  <2>. QED  BY <1>1, <2>2, LearntIsAwaited
<1>2. ASSUME NEW i \in 1 .. Len(log), NEW j \in 1 .. Len(log),
             index[RecvFrom] < i, index[RecvFrom] < j, log[i][1] = log[j][1]
      PROVE  ~(i < j)
  <2>. SUFFICES ASSUME i < j PROVE FALSE
    OBVIOUS
  <2>1. log[i] = log[j]
    BY <1>1, <1>2
  <2>2. log[j][2] < log[j][2]
    BY <1>2, <2>1 DEF LogSorted
  <2>3. log[j] \in Commands
    BY ElementOfSeq DEF TypeOK, HistoryType
  <2>4. log[j][2] \in Nat
    BY <2>3 DEF Commands
  <2>. QED  BY <2>2, <2>4
<1>3. ASSUME NEW i \in 1 .. Len(log), NEW j \in 1 .. Len(log),
             index[RecvFrom] < i, index[RecvFrom] < j, log[i][1] = log[j][1]
      PROVE  i = j
  <2>1. ~(i < j) /\ ~(j < i)
    BY <1>2, <1>3
  <2>. QED  BY <2>1
<1>. QED  BY <1>1, <1>3 DEF InLog

(***************************************************************************)
(* Leader and acceptor wait for each other: then there are more clients.   *)
(* Cap + 1 have a request on its way, which is not ordered.  Others have   *)
(* the last commands of the log: one with KVS, where the learner lacks at  *)
(* least the last, and without Cap + 1, those that the leader lacks.       *)
(***************************************************************************)
LEMMA WaitNeedsClients ==
  ASSUME IInv, FewClients PROVE NoCircularWait
<1>. SUFFICES ASSUME pc[Leader] = "accept", ~CanSend(net, Leader, Acceptor),
                     pc[Acceptor] = "learn", dst = Leader, ~CanSend(net, Acceptor, Leader)
              PROVE  FALSE
  BY DEF NoCircularWait
<1>. USE DEF IInv, OrderInv
<1>. PICK s, lg, more : /\ s = net[Leader][Acceptor] /\ lg = Len(log)
                        /\ more = IF KVS THEN 1 ELSE Cap + 1
  OBVIOUS
<1>1. Cap \in Nat \ {0} /\ more \in Nat \ {0} /\ lg \in Nat /\ s \in Seq(Messages)
  BY CapAssumption, RoleFacts, LenProperties DEF TypeOK, HistoryType, Channels
<1>2. Len(s) >= Cap /\ Len(s) \in Nat
  BY <1>1, LenProperties DEF CanSend
<1>3. index[RecvFrom] \in Nat /\ index[RecvFrom] + more <= lg
  <2>1. /\ index[RecvFrom] \in Nat /\ Len(net[Acceptor][RecvFrom]) \in Nat
        /\ index[RecvFrom] + Len(net[Acceptor][RecvFrom]) = LearnsSent(RecvFrom)
    BY RoleFacts, LenProperties DEF TypeOK, Channels, LearnsInTransit
  <2>2. dst <= RecvFrom
    BY RoleFacts DEF Leader
  <2>3. LearnsSent(RecvFrom) = lg - 1
    BY <2>2 DEF LearnsSent
  <2>4. CASE KVS
    BY <1>1, <2>1, <2>3, <2>4
  <2>5. CASE ~KVS
    <3>1. Len(net[Acceptor][RecvFrom]) >= Cap
      <4>1. RecvFrom = Leader
        BY <2>5, RoleFacts
      <4>. QED  BY <1>1, <2>1, <4>1 DEF CanSend
    <3>2. more = Cap + 1
      BY <2>5
    <3>. QED  BY <1>1, <2>1, <2>3, <3>1, <3>2
  <2>. QED  BY <2>4, <2>5
<1>. DEFINE Place(k) == lg - (k - (Cap + 2))
            f[k \in 1 .. Cap + 1 + more] ==
              IF k <= Cap THEN s[k].cid
              ELSE IF k = Cap + 1 THEN msg[Leader].cid ELSE log[Place(k)][1]
<1>4. ASSUME NEW k \in 1 .. Cap + 1 + more
      PROVE  /\ k <= Cap => k \in 1 .. Len(s) /\ f[k] = s[k].cid
             /\ k = Cap + 1 => f[k] = msg[Leader].cid
             /\ k > Cap + 1 => /\ Place(k) \in 1 .. lg /\ index[RecvFrom] < Place(k)
                               /\ f[k] = log[Place(k)][1]
  <2>1. k <= Cap => k \in 1 .. Len(s) /\ f[k] = s[k].cid
    BY <1>1, <1>2
  <2>2. k = Cap + 1 => f[k] = msg[Leader].cid
    BY <1>1
  <2>3. k > Cap + 1 => Place(k) \in 1 .. lg /\ index[RecvFrom] < Place(k)
    BY <1>1, <1>3
  <2>4. k > Cap + 1 => f[k] = log[Place(k)][1]
    BY <1>1
  <2>. QED  BY <2>1, <2>2, <2>3, <2>4
<1>5. f = [k \in 1 .. Cap + 1 + more |-> f[k]]
  OBVIOUS
<1>6. \A j, k \in 1 .. Cap + 1 + more : j # k /\ j > Cap + 1 /\ k > Cap + 1 => Place(j) # Place(k)
  BY <1>1
<1>7. \A k \in 1 .. Cap + 1 + more : k <= Cap \/ k = Cap + 1 \/ k > Cap + 1
  BY <1>1
<1>. HIDE DEF f, Place
<1>8. /\ \A k \in 1 .. Len(s) : s[k].cid \in Clients /\ ~InLog(Current(s[k].cid))
      /\ \A j, k \in 1 .. Len(s) : s[j].cid = s[k].cid => j = k
      /\ msg[Leader].cid \in Clients /\ ~InLog(Current(msg[Leader].cid))
      /\ \A k \in 1 .. Len(s) : s[k].cid # msg[Leader].cid
  BY PendingClients
<1>9. /\ \A j \in 1 .. lg : index[RecvFrom] < j =>
           log[j][1] \in Clients /\ InLog(Current(log[j][1]))
      /\ \A i, j \in 1 .. lg :
           index[RecvFrom] < i /\ index[RecvFrom] < j /\ log[i][1] = log[j][1] => i = j
  BY UnlearntClients
<1>10. ASSUME NEW k \in 1 .. Cap + 1 + more
       PROVE  /\ f[k] \in Clients
              /\ k <= Cap + 1 => ~InLog(Current(f[k]))
              /\ k > Cap + 1 => InLog(Current(f[k]))
  <2>1. CASE k <= Cap
    BY <1>1, <1>4, <1>8, <2>1
  <2>2. CASE k = Cap + 1
    BY <1>1, <1>4, <1>8, <2>2
  <2>3. CASE k > Cap + 1
    BY <1>1, <1>4, <1>9, <2>3
  <2>. QED  BY <1>7, <2>1, <2>2, <2>3
<1>11. PICK i, k \in 1 .. Cap + 1 + more : i # k /\ f[i] = f[k]
  <2>. PICK n : n = Cap + 1 + more
    OBVIOUS
  <2>1. f \in [1 .. n -> Clients]
    BY <1>5, <1>10
  <2>2. IsFiniteSet(1 .. n) /\ Cardinality(1 .. n) = n
    <3>1. n \in Nat /\ n > 1
      BY <1>1
    <3>. QED  BY <3>1, FS_Interval
  <2>3. IsFiniteSet(Clients) /\ Cardinality(Clients) < n
    <3>1. IsFiniteSet(Clients) /\ Cardinality(Clients) <= SafeClients /\ Cardinality(Clients) \in Nat
      BY FS_CardinalityType DEF FewClients
    <3>2. SafeClients < n /\ SafeClients \in Nat /\ n \in Nat
      BY <1>1 DEF SafeClients
    <3>. QED  BY <3>1, <3>2
  <2>4. Cardinality(Clients) < Cardinality(1 .. n)
    BY <2>2, <2>3
  <2>. QED  BY <2>1, <2>2, <2>3, <2>4, FS_PigeonHole
<1>12. \/ i <= Cap + 1 /\ k <= Cap + 1
       \/ i > Cap + 1 /\ k > Cap + 1
  BY <1>1, <1>10, <1>11
<1>13. CASE i > Cap + 1 /\ k > Cap + 1
  BY <1>4, <1>6, <1>9, <1>11, <1>13
<1>14. CASE i <= Cap + 1 /\ k <= Cap + 1
  <2>1. (i <= Cap \/ i = Cap + 1) /\ (k <= Cap \/ k = Cap + 1)
    BY <1>1, <1>14
  <2>. QED  BY <1>4, <1>8, <1>11, <2>1
<1>. QED  BY <1>12, <1>13, <1>14

(***************************************************************************)
(* Leader and acceptor never wait for each other with both of them inside  *)
(* of a handler, with up to SafeClients clients: for one more, TLC finds a *)
(* state in which they do.                                                 *)
(***************************************************************************)
THEOREM NoCircularWaitCorrect == RidsSuffice /\ FewClients => (Spec => []NoCircularWait)
<1>. SUFFICES ASSUME RidsSuffice, FewClients PROVE Spec => []NoCircularWait
  OBVIOUS
<1>1. IInv => NoCircularWait
  BY WaitNeedsClients
<1>. QED  BY <1>1, InductiveInvariant, PTL

------------------------------------------------------------------------------
(* The store (Kvs) *)

(* What is in memory: a command, for the value it wrote, or zeroes. *)
Words == Commands \cup {<< >>}

StoreType ==
  /\ kvs_memory \in [Replicas -> [v1 : Words, v2 : Words]]
  /\ storing \in [Replicas -> BOOLEAN]
  /\ val \in [Clients -> [v1 : Words, v2 : Words]]
  /\ reading \in [Clients -> BOOLEAN]
  /\ gets \in [Clients -> Nat]

(* The number of commands that replica r has executed and stored whole. *)
Stored(r) == Len(applied[r]) - IF storing[r] THEN 1 ELSE 0

(* The word that is in memory when r has stored n commands. *)
Word(r, n) == IF n = 0 THEN << >> ELSE applied[r][n]

MemoryHolds(r) ==
  /\ Stored(r) >= 0
  /\ kvs_memory[r].v1 = Word(r, Len(applied[r]))
  /\ kvs_memory[r].v2 = Word(r, Stored(r))

(* The replica that answers has stored both words of command cmd. *)
IsStored(cmd) == \E i \in 1 .. Stored(RecvFrom) : applied[RecvFrom][i] = cmd

(* What is answered is stored, for a replica goes on after the second word.*)
AnswersStored(c) ==
  /\ \A k \in 0 .. request_count[c] - 1 : IsStored(<<c, k>>)
  /\ cpc[c] = "waiting" /\ net[RecvFrom][c] # << >> => IsStored(Current(c))

(* The last write of client c, and what a word that c has read may be. *)
Own(c) == <<c, request_count[c] - 1>>

Fresh(c, w) == NotBefore(RecvFrom, Own(c), w)

ReadInv(c) ==
  /\ reading[c] => Reads(c)
  /\ gets[c] > 0 => cpc[c] = "idle" /\ request_count[c] > 0
  /\ Local[c] = RecvFrom =>
       /\ reading[c] \/ gets[c] > 0 => Fresh(c, val[c].v1)
       /\ gets[c] > 0 => Fresh(c, val[c].v2)

StoreInv ==
  /\ StoreType
  /\ \A r \in Replicas : MemoryHolds(r)
  /\ \A c \in Clients : AnswersStored(c) /\ ReadInv(c)

(* A step of replica r, of 1Paxos. *)
ReplicaStep(r) ==
  \/ r = Leader /\ \E c \in Clients : LeaderReceive(c)
  \/ r = Leader /\ (handle_setup_send \/ handle_request_send)
  \/ r = Acceptor /\ AcceptorStep
  \/ r # Acceptor /\ LearnerStep(r)

(* A step of the store is one of a client, of a replica, or of a memory. *)
LEMMA StoreSteps ==
  ASSUME KvsNext
  PROVE  \/ \E c \in Clients : kvs_set(c) \/ kvs_get(c) \/ kvs_get_return(c)
         \/ \E r \in Replicas : ~storing[r] /\ ReplicaStep(r) /\ exec_fn(r)
         \/ \E r \in Replicas : exec_fn_return(r)
         \/ UNCHANGED kvsVars
BY RoleFacts
   DEF KvsNext, KvsClientStep, KvsLeaderReceive, KvsLeaderContinue, KvsAcceptorStep, KvsLearn,
       KvsTerminated, ReplicaStep

(* Each of them is one of 1Paxos, or changes nothing of it. *)
LEMMA StoreStepRefines == [KvsNext]_kvsVars => [Next]_vars
<1>. SUFFICES ASSUME KvsNext \/ UNCHANGED kvsVars PROVE [Next]_vars
  OBVIOUS
<1>1. CASE UNCHANGED kvsVars
  BY <1>1 DEF kvsVars
<1>2. ASSUME NEW c \in Clients, kvs_set(c) \/ kvs_get(c) \/ kvs_get_return(c)
      PROVE  [Next]_vars
  BY <1>2 DEF kvs_set, kvs_get, kvs_get_return, Next
<1>3. ASSUME NEW r \in Replicas, ReplicaStep(r)
      PROVE  [Next]_vars
  BY <1>3, RoleFacts DEF ReplicaStep, Next, LeaderContinue, LearnerStep
<1>4. ASSUME NEW r \in Replicas, exec_fn_return(r)
      PROVE  [Next]_vars
  BY <1>4 DEF exec_fn_return
<1>. QED  BY <1>1, <1>2, <1>3, <1>4, StoreSteps

(***************************************************************************)
(* The store and its reads leave the protocol as it is: all that holds of  *)
(* 1Paxos holds below the store.                                           *)
(***************************************************************************)
THEOREM StoreRefines1Paxos == KvsSpec => Spec
<1>1. KvsInit => Init
  BY DEF KvsInit
<1>. QED  BY <1>1, StoreStepRefines, PTL DEF KvsSpec, Spec

(* A command that the replica that answers has executed is executed by, or *)
(* on its way to, any replica that the loop of the acceptor reaches before.*)
LEMMA LearnsReach ==
  ASSUME IInv, NEW r \in Replicas \ {Acceptor}, r <= RecvFrom, NEW cmd, Executed(cmd)
  PROVE  \/ \E i \in 1 .. Len(applied[r]) : applied[r][i] = cmd
         \/ \E i \in 1 .. Len(net[Acceptor][r]) : Command(net[Acceptor][r][i]) = cmd
<1>. USE DEF IInv, OrderInv, AnswersInv
<1>. PICK s : s = net[Acceptor][r]
  OBVIOUS
<1>1. PICK i \in 1 .. Len(applied[RecvFrom]) : applied[RecvFrom][i] = cmd
  BY DEF Executed
<1>2. /\ i \in 1 .. index[RecvFrom] /\ log[i] = cmd
      /\ Len(applied[r]) = index[r] /\ \A k \in 1 .. index[r] : applied[r][k] = log[k]
  BY <1>1, RoleFacts DEF ExecutesLog
<1>3. /\ index[r] \in Nat /\ index[RecvFrom] \in Nat /\ Len(log) \in Nat
      /\ Len(s) \in Nat /\ Len(net[Acceptor][RecvFrom]) \in Nat
  <2>1. r \in Replicas /\ r \in Nodes /\ Acceptor \in Nodes /\ RecvFrom \in Nodes
        /\ RecvFrom \in Replicas
    BY RoleFacts
  <2>2. s \in Seq(Messages) /\ net[Acceptor][RecvFrom] \in Seq(Messages)
    BY <2>1 DEF TypeOK, Channels
  <2>3. index[r] \in Nat /\ index[RecvFrom] \in Nat /\ Len(log) \in Nat
    BY <2>1, IndexBound
  <2>4. Len(s) \in Nat /\ Len(net[Acceptor][RecvFrom]) \in Nat
    BY <2>2, LenProperties
  <2>. QED  BY <2>3, <2>4
<1>4. /\ index[r] + Len(s) = LearnsSent(r)
      /\ \A k \in 1 .. Len(s) : Command(s[k]) = log[index[r] + k]
      /\ index[RecvFrom] + Len(net[Acceptor][RecvFrom]) = LearnsSent(RecvFrom)
  BY RoleFacts DEF LearnsInTransit
<1>5. LearnsSent(RecvFrom) <= LearnsSent(r)
  <2>1. dst <= r => dst <= RecvFrom
    BY RoleFacts DEF TypeOK
  <2>2. CASE pc[Acceptor] = "learn" /\ dst <= r
    BY <1>3, <2>1, <2>2 DEF LearnsSent
  <2>3. CASE ~(pc[Acceptor] = "learn" /\ dst <= r)
    BY <1>3, <2>3 DEF LearnsSent
  <2>. QED  BY <2>2, <2>3
<1>6. CASE i <= index[r]
  BY <1>2, <1>3, <1>6
<1>7. CASE ~(i <= index[r])
  <2>1. i \in Nat /\ i <= index[RecvFrom] /\ LearnsSent(RecvFrom) \in Int /\ LearnsSent(r) \in Int
    <3>1. i \in 1 .. index[RecvFrom] /\ index[RecvFrom] \in Nat
      BY <1>2, <1>3
    <3>2. /\ index[r] + Len(s) = LearnsSent(r)
          /\ index[RecvFrom] + Len(net[Acceptor][RecvFrom]) = LearnsSent(RecvFrom)
      BY <1>4
    <3>. QED  BY ONLY <1>3, <3>1, <3>2
  <2>2. i <= index[r] + Len(s)
    BY <1>3, <1>4, <1>5, <2>1
  <2>3. i - index[r] \in 1 .. Len(s) /\ index[r] + (i - index[r]) = i
    BY <1>3, <1>7, <2>1, <2>2
  <2>4. Command(s[i - index[r]]) = cmd
    BY <1>2, <1>4, <2>3
  <2>. QED  BY <2>3, <2>4
<1>. QED  BY <1>6, <1>7

(* The acceptor has executed what any replica has, or holds it. *)
LEMMA AcceptorReach ==
  ASSUME IInv, NEW cmd, Executed(cmd)
  PROVE  \/ \E i \in 1 .. Len(applied[Acceptor]) : applied[Acceptor][i] = cmd
         \/ pc[Acceptor] \in {"learn", "execute"} /\ Command(msg[Acceptor]) = cmd
<1>. USE DEF IInv, OrderInv, AnswersInv
<1>1. PICK i \in 1 .. Len(log) : log[i] = cmd
  BY ExecutedInLog DEF InLog
<1>2. /\ Len(applied[Acceptor]) = index[Acceptor]
      /\ \A k \in 1 .. index[Acceptor] : applied[Acceptor][k] = log[k]
      /\ index[Acceptor] \in Nat /\ Len(log) \in Nat
  BY RoleFacts, IndexBound DEF ExecutesLog
<1>3. CASE i \in 1 .. index[Acceptor]
  BY <1>1, <1>2, <1>3
<1>4. CASE i \notin 1 .. index[Acceptor]
  <2>1. pc[Acceptor] # "poll" /\ i = Len(log)
    BY <1>2, <1>4 DEF AcceptorHolds
  <2>. QED  BY <1>1, <2>1 DEF AcceptorHolds, TypeOK, AcceptorPCs
<1>. QED  BY <1>3, <1>4

(* What is answered is executed by the replica that the client reads, or   *)
(* on its way there. *)
LEMMA ReachesLocal == KVS /\ IInv => WritesReachLocal
<1>. SUFFICES ASSUME KVS, IInv, NEW c \in Clients, NEW k \in 0 .. request_count[c] - 1, NEW r,
                     r = Local[c]
              PROVE  \/ \E i \in 1 .. Len(applied[r]) : applied[r][i] = <<c, k>>
                     \/ \E i \in 1 .. Len(net[Acceptor][r]) : Command(net[Acceptor][r][i]) = <<c, k>>
                     \/ /\ r = Acceptor /\ pc[r] \in {"learn", "execute"}
                        /\ Command(msg[r]) = <<c, k>>
  BY DEF WritesReachLocal
<1>1. PICK cmd : cmd = <<c, k>> /\ Executed(cmd)
  BY DEF IInv, AnswersInv, ClientInv, PastExecuted
<1>2. r \in Replicas /\ AnsweredBy(c) = RecvFrom
  BY LocalAssumption
<1>3. CASE r = Acceptor
  BY <1>1, <1>3, AcceptorReach
<1>4. CASE r # Acceptor
  <2>1. r \in Nat /\ r <= RecvFrom
    BY <1>2, RoleFacts DEF AnsweredBy
  <2>. QED  BY <1>1, <1>2, <1>4, <2>1, LearnsReach
<1>. QED  BY <1>3, <1>4

(***************************************************************************)
(* In the build with KVS, what a client has an answer to is executed by    *)
(* the replica whose memory it reads, in the channel to it, or in its      *)
(* hands: a client on node 0 or 1, which reads another replica than the    *)
(* one that answers, reads old values only until it catches up.            *)
(***************************************************************************)
THEOREM WritesReachLocalCorrect == KVS /\ RidsSuffice => (KvsSpec => []WritesReachLocal)
<1>. SUFFICES ASSUME KVS, RidsSuffice PROVE KvsSpec => []WritesReachLocal
  OBVIOUS
<1>1. Spec => []IInv
  BY InductiveInvariant
<1>2. IInv => WritesReachLocal
  BY ReachesLocal
<1>. QED  BY <1>1, <1>2, StoreRefines1Paxos, PTL

(* Of the commands, a step of replica r executes at most one, at r; what   *)
(* comes to a client comes from a step that executes none.                 *)
AppliedBy(r) ==
  \/ UNCHANGED applied
  \/ \E cmd \in Commands : applied' = [applied EXCEPT ![r] = Append(@, cmd)]

LEMMA ExecuteApplies ==
  ASSUME TypeOK, NEW r \in Replicas, NEW m \in Messages, execute(r, m)
  PROVE  AppliedBy(r)
<1>1. Command(m) \in Commands
  BY MessageFacts
<1>. QED  BY <1>1 DEF execute, update_value, AppliedBy

LEMMA ReplicaEffect ==
  ASSUME TypeOK, KVS, NEW r \in Replicas, ReplicaStep(r)
  PROVE  /\ cpc' = cpc /\ request_count' = request_count
         /\ AppliedBy(r)
         /\ \A c \in Clients : net'[RecvFrom][c] # << >> =>
              net[RecvFrom][c] # << >> \/ (r = RecvFrom /\ applied' = applied)
<1>. DEFINE Effect == /\ cpc' = cpc /\ request_count' = request_count
                      /\ AppliedBy(r)
                      /\ \A c \in Clients : net'[RecvFrom][c] # << >> =>
                           net[RecvFrom][c] # << >> \/ (r = RecvFrom /\ applied' = applied)
<1>. SUFFICES Effect
  OBVIOUS
<1>0. RecvFrom # Leader /\ RecvFrom # Acceptor
  BY RoleFacts
<1>1. ASSUME NEW src \in Nodes, NEW t, Takes(r, src, t), UNCHANGED <<cpc, request_count>>, AppliedBy(r)
      PROVE  Effect
  <2>1. \A c \in Clients : net'[RecvFrom][c] = net[RecvFrom][c]
    BY <1>1, RoleFacts, TakesMessage
  <2>. QED  BY <1>1, <2>1
<1>2. ASSUME NEW where, where # "poll", NEW d \in Nodes, Sends(r, where, d),
             UNCHANGED <<cpc, request_count, applied>>,
             r # RecvFrom \/ d \in Clients
      PROVE  Effect
  <2>1. pc[r] # "poll" /\ net' = Sent(net, r, d, msg[r])
    BY <1>2 DEF Sends
  <2>2. ASSUME NEW c \in Clients, net'[RecvFrom][c] # << >>
        PROVE  net[RecvFrom][c] # << >> \/ (r = RecvFrom /\ applied' = applied)
    <3>1. CASE r = RecvFrom
      BY <1>2, <3>1
    <3>2. CASE r # RecvFrom
      <4>1. net'[RecvFrom][c] = net[RecvFrom][c]
        BY <2>1, <3>2, RoleFacts, SendsMessage
      <4>. QED  BY <2>2, <4>1
    <3>. QED  BY <3>1, <3>2
  <2>. QED  BY <1>2, <2>2 DEF AppliedBy
<1>. HIDE DEF Effect
<1>3. ASSUME NEW c \in Clients, LeaderReceive(c), r = Leader
      PROVE  Effect
  <2>1. PICK t : Takes(Leader, c, t) /\ UNCHANGED <<cpc, request_count, applied>>
    BY <1>3 DEF LeaderReceive, handle_setup, handle_request
  <2>. QED  BY <1>1, <1>3, <2>1, RoleFacts DEF AppliedBy
<1>4. CASE r = Leader /\ handle_setup_send
  <2>1. PICK d : d = msg[r].cid /\ Sends(r, "setup", d) /\ UNCHANGED <<cpc, request_count, applied>>
    BY <1>4 DEF handle_setup_send
  <2>2. msg[r] \in Messages
    BY <2>1 DEF Sends, TypeOK
  <2>3. d \in Clients /\ d \in Nodes
    BY <2>1, <2>2, MessageFacts, RoleFacts
  <2>. QED  BY <1>2, <2>1, <2>3
<1>5. CASE r = Leader /\ handle_request_send
  <2>1. Sends(r, "accept", Acceptor) /\ UNCHANGED <<cpc, request_count, applied>>
    BY <1>5 DEF handle_request_send
  <2>2. Acceptor \in Nodes
    BY RoleFacts
  <2>. QED  BY <1>0, <1>2, <1>5, <2>1, <2>2
<1>6. CASE r = Acceptor /\ handle_accept
  <2>1. Takes(r, Leader, "ACC") /\ UNCHANGED <<cpc, request_count, applied>>
    BY <1>6 DEF handle_accept
  <2>2. Leader \in Nodes
    BY RoleFacts
  <2>. QED  BY <1>1, <2>1, <2>2 DEF AppliedBy
<1>7. CASE r = Acceptor /\ handle_accept_send
  <2>1. Sends(r, "learn", dst) /\ UNCHANGED <<cpc, request_count, applied>>
    BY <1>7 DEF handle_accept_send
  <2>2. dst \in Nodes
    BY RoleFacts DEF TypeOK
  <2>. QED  BY <1>0, <1>2, <1>7, <2>1, <2>2
<1>8. CASE r = Acceptor /\ handle_accept_execute
  <2>1. /\ pc[r] = "execute" /\ execute(r, msg[r])
        /\ cpc' = cpc /\ request_count' = request_count /\ net' = net
    BY <1>8 DEF handle_accept_execute, clientVars
  <2>2. msg[r] \in Messages
    BY <2>1 DEF TypeOK
  <2>3. AppliedBy(r)
    BY <2>1, <2>2, ExecuteApplies
  <2>. QED  BY <2>1, <2>3 DEF Effect
<1>9. CASE handle_learn(r)
  <2>1. /\ Takes(r, Acceptor, "LEARN") /\ execute(r, Head(net[Acceptor][r]))
        /\ UNCHANGED <<cpc, request_count>>
    BY <1>9 DEF handle_learn
  <2>2. Acceptor \in Nodes
    BY RoleFacts
  <2>3. Head(net[Acceptor][r]) \in Messages
    BY <2>1, <2>2, TakesMessage
  <2>4. AppliedBy(r)
    BY <2>1, <2>3, ExecuteApplies
  <2>. QED  BY <1>1, <2>1, <2>2, <2>4
<1>10. CASE handle_learn_respond(r)
  <2>1. PICK d : d = msg[r].cid /\ Sends(r, "respond", d) /\ UNCHANGED <<cpc, request_count, applied>>
    BY <1>10 DEF handle_learn_respond
  <2>2. msg[r] \in Messages
    BY <2>1 DEF Sends, TypeOK
  <2>3. d \in Clients /\ d \in Nodes
    BY <2>1, <2>2, MessageFacts, RoleFacts
  <2>. QED  BY <1>2, <2>1, <2>3
<1>. QED  BY <1>3, <1>4, <1>5, <1>6, <1>7, <1>8, <1>9, <1>10
          DEF ReplicaStep, AcceptorStep, LearnerStep

(* What is stored is part of what is executed. *)
LEMMA StoredFacts ==
  ASSUME HistoryType, NEW r \in Replicas
  PROVE  /\ Len(applied[r]) \in Nat /\ Stored(r) \in Int /\ Stored(r) <= Len(applied[r])
         /\ storing[r] => Stored(r) = Len(applied[r]) - 1
         /\ ~storing[r] => Stored(r) = Len(applied[r])
<1>1. Len(applied[r]) \in Nat
  BY LenProperties DEF HistoryType
<1>2. CASE storing[r]
  BY <1>1, <1>2 DEF Stored
<1>3. CASE ~storing[r]
  BY <1>1, <1>3 DEF Stored
<1>. QED  BY <1>1, <1>2, <1>3

(* No step of the store takes back what is executed or stored. *)
Grows ==
  \A r \in Replicas :
    /\ Len(applied[r]) <= Len(applied'[r]) /\ Stored(r) <= Stored(r)'
    /\ \A i \in 1 .. Len(applied[r]) : applied'[r][i] = applied[r][i]

LEMMA SameGrows ==
  ASSUME HistoryType, applied' = applied, storing' = storing
  PROVE  Grows
BY StoredFacts DEF Grows, Stored

(* A replica that executes a command has stored its first word, and only   *)
(* that. *)
LEMMA ExecStores ==
  ASSUME HistoryType, StoreType, \A q \in Replicas : MemoryHolds(q),
         NEW r \in Replicas, ~storing[r], AppliedBy(r), exec_fn(r)
  PROVE  /\ StoreType' /\ Grows /\ \A q \in Replicas : MemoryHolds(q)'
         /\ applied' = applied => ~storing'[r]
<1>0. /\ kvs_memory \in [Replicas -> [v1 : Words, v2 : Words]]
      /\ storing \in [Replicas -> BOOLEAN]
      /\ storing' = [storing EXCEPT ![r] = applied'[r] # applied[r]]
      /\ kvs_memory' = IF applied'[r] = applied[r] THEN kvs_memory
           ELSE [kvs_memory EXCEPT ![r].v1 = applied'[r][Len(applied'[r])]]
      /\ UNCHANGED <<val, reading, gets>>
  BY DEF StoreType, exec_fn, readVars
<1>1. CASE applied' = applied
  <2>0. applied'[r] = applied[r] /\ storing[r] = FALSE
    BY <1>0, <1>1
  <2>1. kvs_memory' = kvs_memory
    BY ONLY <1>0, <2>0, Zenon
  <2>2. storing' = storing
    <3>1. storing' = [storing EXCEPT ![r] = FALSE]
      BY ONLY <1>0, <2>0
    <3>2. storing \in [Replicas -> BOOLEAN]
      BY <1>0
    <3>. QED  BY ONLY <2>0, <3>1, <3>2
  <2>3. StoreType'
    BY <1>0, <2>1, <2>2 DEF StoreType
  <2>4. \A q \in Replicas : MemoryHolds(q)'
    <3>1. \A q : Stored(q)' = Stored(q)
      BY ONLY <1>1, <2>2 DEF Stored
    <3>. QED  BY ONLY <1>1, <2>1, <3>1, \A q \in Replicas : MemoryHolds(q)
              DEF MemoryHolds, Word
  <2>. QED  BY <1>1, <2>0, <2>1, <2>2, <2>3, <2>4, SameGrows
<1>2. CASE applied' # applied
  <2>1. PICK cmd \in Commands : applied' = [applied EXCEPT ![r] = Append(@, cmd)]
    BY <1>2 DEF AppliedBy
  <2>2. PICK n : n = Len(applied[r])
    OBVIOUS
  <2>3. /\ n \in Nat /\ Len(applied'[r]) = n + 1
        /\ applied'[r][n + 1] = cmd
        /\ \A i \in 1 .. n : applied'[r][i] = applied[r][i]
        /\ \A q \in Replicas : q # r => applied'[q] = applied[q]
    <3>1. /\ Len(applied[r]) \in Nat /\ Len(applied'[r]) = Len(applied[r]) + 1
          /\ applied'[r][Len(applied[r]) + 1] = cmd
          /\ \A i \in 1 .. Len(applied[r]) : applied'[r][i] = applied[r][i]
          /\ \A q \in Replicas : q # r => applied'[q] = applied[q]
      BY ONLY HistoryType, r \in Replicas, <2>1, AppliedAppend
    <3>. QED  BY ONLY <2>2, <3>1
  <2>4. applied'[r] # applied[r]
    BY <2>2, <2>3
  <2>5. /\ storing'[r] /\ storing' \in [Replicas -> BOOLEAN]
        /\ \A q \in Replicas : q # r => storing'[q] = storing[q]
    <3>1. storing' = [storing EXCEPT ![r] = TRUE]
      BY ONLY <1>0, <2>4
    <3>2. storing \in [Replicas -> BOOLEAN] /\ TRUE \in BOOLEAN
      BY <1>0
    <3>3. /\ storing' \in [Replicas -> BOOLEAN] /\ storing'[r] = TRUE
          /\ \A q \in Replicas : q # r => storing'[q] = storing[q]
      BY ONLY r \in Replicas, <3>1, <3>2, PointUpdate, Zenon
    <3>. QED  BY ONLY <3>3, Zenon
  <2>6. kvs_memory' = [kvs_memory EXCEPT ![r].v1 = cmd]
    BY <1>0, <2>3, <2>4
  <2>7. /\ kvs_memory' \in [Replicas -> [v1 : Words, v2 : Words]]
        /\ kvs_memory'[r].v1 = cmd /\ kvs_memory'[r].v2 = kvs_memory[r].v2
        /\ \A q \in Replicas : q # r => kvs_memory'[q] = kvs_memory[q]
    BY <1>0, <2>6 DEF Words
  <2>8. StoreType'
    BY <1>0, <2>5, <2>7 DEF StoreType
  <2>9. Stored(r) = n /\ Stored(r)' = n
    BY <2>2, <2>3, <2>5, StoredFacts DEF Stored
  <2>10. MemoryHolds(r)'
    <3>1. Word(r, n + 1)' = cmd
      BY <2>3 DEF Word
    <3>2. Word(r, n)' = Word(r, n)
      BY <2>2, <2>3 DEF Word
    <3>3. kvs_memory[r].v2 = Word(r, n)
      BY <2>9 DEF MemoryHolds
    <3>. QED  BY <2>3, <2>7, <2>9, <3>1, <3>2, <3>3 DEF MemoryHolds, Word
  <2>11. ASSUME NEW q \in Replicas, q # r PROVE MemoryHolds(q)' /\ Stored(q)' = Stored(q)
    <3>1. applied'[q] = applied[q] /\ storing'[q] = storing[q] /\ kvs_memory'[q] = kvs_memory[q]
      BY <2>3, <2>5, <2>7, <2>11
    <3>2. Stored(q)' = Stored(q)
      BY ONLY <3>1 DEF Stored
    <3>3. MemoryHolds(q)
      BY <2>11
    <3>4. MemoryHolds(q)'
      BY ONLY <3>1, <3>2, <3>3 DEF MemoryHolds, Word
    <3>. QED  BY <3>2, <3>4
  <2>12. Grows
    <3>1. ASSUME NEW q \in Replicas
          PROVE  /\ Len(applied[q]) <= Len(applied'[q]) /\ Stored(q) <= Stored(q)'
                 /\ \A i \in 1 .. Len(applied[q]) : applied'[q][i] = applied[q][i]
      <4>1. CASE q = r
        BY <2>2, <2>3, <2>9, <4>1
      <4>2. CASE q # r
        BY <2>3, <2>11, <4>2, StoredFacts
      <4>. QED  BY <4>1, <4>2
    <3>. QED  BY <3>1 DEF Grows
  <2>. QED  BY <1>2, <2>8, <2>10, <2>11, <2>12
<1>. QED  BY <1>1, <1>2

(* Then it stores the second word. *)
LEMMA ReturnStores ==
  ASSUME HistoryType, StoreType, \A q \in Replicas : MemoryHolds(q),
         NEW r \in Replicas, exec_fn_return(r)
  PROVE  StoreType' /\ Grows /\ \A q \in Replicas : MemoryHolds(q)'
<1>0. /\ kvs_memory \in [Replicas -> [v1 : Words, v2 : Words]]
      /\ storing \in [Replicas -> BOOLEAN] /\ storing[r]
      /\ storing' = [storing EXCEPT ![r] = FALSE]
      /\ kvs_memory' = [kvs_memory EXCEPT ![r].v2 = kvs_memory[r].v1]
      /\ UNCHANGED <<val, reading, gets>> /\ applied' = applied
  BY DEF StoreType, exec_fn_return, readVars, vars, replicaVars
<1>1. /\ ~storing'[r] /\ storing' \in [Replicas -> BOOLEAN]
      /\ \A q \in Replicas : q # r => storing'[q] = storing[q]
  BY <1>0
<1>2. /\ kvs_memory' \in [Replicas -> [v1 : Words, v2 : Words]]
      /\ kvs_memory'[r].v1 = kvs_memory[r].v1 /\ kvs_memory'[r].v2 = kvs_memory[r].v1
      /\ \A q \in Replicas : q # r => kvs_memory'[q] = kvs_memory[q]
  BY <1>0
<1>3. PICK n : n = Len(applied[r])
  OBVIOUS
<1>4. n \in Nat /\ Stored(r) = n - 1 /\ Stored(r)' = n
  BY <1>0, <1>1, <1>3, StoredFacts DEF Stored
<1>5. MemoryHolds(r)'
  <2>1. kvs_memory[r].v1 = Word(r, n)
    BY <1>3 DEF MemoryHolds
  <2>2. Word(r, n)' = Word(r, n)
    BY <1>0 DEF Word
  <2>. QED  BY <1>0, <1>2, <1>3, <1>4, <2>1, <2>2 DEF MemoryHolds, Word
<1>6. ASSUME NEW q \in Replicas, q # r PROVE MemoryHolds(q)' /\ Stored(q)' = Stored(q)
  BY <1>0, <1>1, <1>2, <1>6 DEF MemoryHolds, Word, Stored
<1>7. Grows
  <2>1. ASSUME NEW q \in Replicas PROVE Stored(q) <= Stored(q)' /\ Len(applied[q]) <= Len(applied[q])
    BY <1>4, <1>6, <2>1, StoredFacts
  <2>. QED  BY <1>0, <2>1 DEF Grows
<1>. QED  BY <1>0, <1>1, <1>2, <1>5, <1>6, <1>7 DEF StoreType

(* What is stored stays so, and a word that is fresh stays so. *)
LEMMA StoredGrows ==
  ASSUME HistoryType, HistoryType', Grows, NEW cmd, IsStored(cmd)
  PROVE  IsStored(cmd)'
<1>1. PICK i \in 1 .. Stored(RecvFrom) : applied[RecvFrom][i] = cmd
  BY DEF IsStored
<1>2. i \in 1 .. Len(applied[RecvFrom])
  BY RoleFacts, StoredFacts
<1>3. i \in 1 .. Stored(RecvFrom)'
  <2>1. PICK a, b : a = Stored(RecvFrom) /\ b = Stored(RecvFrom)'
    OBVIOUS
  <2>2. a <= b
    BY <2>1, RoleFacts DEF Grows
  <2>3. i \in 1 .. a /\ a \in Int
    BY <2>1, RoleFacts, StoredFacts
  <2>4. b \in Int
    <3>1. Len(applied'[RecvFrom]) \in Nat
      BY RoleFacts, LenProperties DEF HistoryType
    <3>. QED  BY <2>1, <3>1 DEF Stored
  <2>5. i \in 1 .. b
    BY <2>2, <2>3, <2>4
  <2>. QED  BY <2>1, <2>5
<1>4. applied'[RecvFrom][i] = cmd
  BY <1>1, <1>2, RoleFacts DEF Grows
<1>. QED  BY <1>3, <1>4 DEF IsStored

LEMMA FreshGrows ==
  ASSUME HistoryType, HistoryType', Grows, NEW cmd, NEW w, NotBefore(RecvFrom, cmd, w)
  PROVE  NotBefore(RecvFrom, cmd, w)'
<1>1. PICK i, j \in 1 .. Len(applied[RecvFrom]) :
        i <= j /\ applied[RecvFrom][i] = cmd /\ applied[RecvFrom][j] = w
  BY DEF NotBefore
<1>2. \A k \in 1 .. Len(applied[RecvFrom]) :
        k \in 1 .. Len(applied'[RecvFrom]) /\ applied'[RecvFrom][k] = applied[RecvFrom][k]
  <2>1. Len(applied[RecvFrom]) \in Nat /\ Len(applied'[RecvFrom]) \in Nat
    BY RoleFacts, LenProperties DEF HistoryType
  <2>. QED  BY <2>1, RoleFacts DEF Grows
<1>. QED  BY <1>1, <1>2 DEF NotBefore

(* Both words in the memory of the replica that answers are those of the   *)
(* last commands it has stored, so of none before one that it has stored.  *)
LEMMA StoredFresh ==
  ASSUME HistoryType, MemoryHolds(RecvFrom), NEW cmd, IsStored(cmd)
  PROVE  /\ NotBefore(RecvFrom, cmd, kvs_memory[RecvFrom].v1)
         /\ NotBefore(RecvFrom, cmd, kvs_memory[RecvFrom].v2)
<1>. PICK n, s, a : n = Len(applied[RecvFrom]) /\ s = Stored(RecvFrom) /\ a = applied[RecvFrom]
  OBVIOUS
<1>1. n \in Nat /\ s \in Int /\ s <= n
  BY RoleFacts, StoredFacts
<1>2. PICK i \in 1 .. s : a[i] = cmd
  BY DEF IsStored
<1>3. i \in 1 .. n /\ s \in 1 .. n /\ n \in 1 .. n /\ i <= s /\ i <= n /\ n # 0 /\ s # 0
  BY <1>1, <1>2
<1>4. kvs_memory[RecvFrom].v1 = a[n] /\ kvs_memory[RecvFrom].v2 = a[s]
  BY <1>3 DEF MemoryHolds, Word
<1>. QED  BY <1>2, <1>3, <1>4 DEF NotBefore

(* An answer that comes is to what is stored: the replica sent it later.   *)
LEMMA AnswersKept ==
  ASSUME HistoryType, HistoryType', Grows, NEW c \in Clients, AnswersStored(c),
         cpc'[c] = cpc[c], request_count'[c] = request_count[c],
         net'[RecvFrom][c] # << >> => net[RecvFrom][c] # << >> \/ (IInv' /\ ~storing'[RecvFrom])
  PROVE  AnswersStored(c)'
<1>. PICK n, cur : n = request_count[c] /\ cur = Current(c)
  OBVIOUS
<1>0. n = request_count'[c] /\ cur = Current(c)'
  BY DEF Current
<1>1. ASSUME NEW k \in 0 .. n - 1 PROVE IsStored(<<c, k>>)'
  <2>. PICK cmd : cmd = <<c, k>>
    OBVIOUS
  <2>1. IsStored(cmd)
    BY DEF AnswersStored
  <2>2. IsStored(cmd)'
    BY <2>1, StoredGrows
  <2>. QED  BY <2>2
<1>2. ASSUME cpc'[c] = "waiting", net'[RecvFrom][c] # << >> PROVE IsStored(Current(c))'
  <2>1. CASE net[RecvFrom][c] # << >>
    <3>1. IsStored(cur)
      BY <1>2, <2>1 DEF AnswersStored
    <3>2. IsStored(cur)'
      BY <3>1, StoredGrows
    <3>. QED  BY <1>0, <3>2
  <2>2. CASE IInv' /\ ~storing'[RecvFrom]
    <3>1. Executed(Current(c))'
      BY <1>2, <2>2 DEF IInv, AnswersInv, ClientInv, OneMessage
    <3>2. Stored(RecvFrom)' = Len(applied'[RecvFrom])
      <4>1. Len(applied'[RecvFrom]) \in Nat
        BY RoleFacts, LenProperties DEF HistoryType
      <4>. QED  BY <2>2, <4>1 DEF Stored
    <3>. QED  BY <3>1, <3>2 DEF Executed, IsStored
  <2>. QED  BY <1>2, <2>1, <2>2
<1>. QED  BY <1>0, <1>1, <1>2 DEF AnswersStored

(* What a client has read stays as fresh as it was. *)
LEMMA ReadStep ==
  ASSUME HistoryType, HistoryType', Grows, NEW c \in Clients, ReadInv(c),
         cpc'[c] = cpc[c], request_count'[c] = request_count[c],
         val'[c] = val[c], reading'[c] = reading[c], gets'[c] = gets[c]
  PROVE  ReadInv(c)'
<1>. PICK own, w1, w2 : own = Own(c) /\ w1 = val[c].v1 /\ w2 = val[c].v2
  OBVIOUS
<1>0. own = Own(c)' /\ w1 = val'[c].v1 /\ w2 = val'[c].v2
  BY DEF Own
<1>1. Reads(c) => Reads(c)'
  BY DEF Reads
<1>2. \A w : NotBefore(RecvFrom, own, w) => NotBefore(RecvFrom, own, w)'
  BY FreshGrows
<1>3. Fresh(c, val[c].v1) => Fresh(c, val[c].v1)'
  BY <1>0, <1>2 DEF Fresh
<1>4. Fresh(c, val[c].v2) => Fresh(c, val[c].v2)'
  BY <1>0, <1>2 DEF Fresh
<1>. QED  BY <1>1, <1>3, <1>4 DEF ReadInv

(* A client writes, or joins: it forgets what it has read. *)
LEMMA StoreSet ==
  ASSUME KVS, IInv, IInv', StoreInv, NEW c \in Clients, kvs_set(c)
  PROVE  StoreInv'
<1>0. /\ HistoryType /\ HistoryType' /\ ClientType /\ StoreType
      /\ net \in Channels(Messages)
  BY DEF IInv, OrderInv, TypeOK, StoreInv
<1>1. /\ ClientStep(c) /\ ~Reads(c) /\ applied' = applied
      /\ gets' = [gets EXCEPT ![c] = 0]
      /\ UNCHANGED <<kvs_memory, storing, val, reading>>
  BY DEF kvs_set, ClientMoves, replicaVars, storeVars
<1>2. /\ ClientEffect(c)
      /\ \A d \in Clients : d # c => /\ cpc'[d] = cpc[d]
                                     /\ request_count'[d] = request_count[d]
  BY <1>0, <1>1, ClientMessages, ClientStepFacts
<1>3. Grows
  BY <1>0, <1>1, SameGrows
<1>4. \A r \in Replicas : MemoryHolds(r)'
  BY <1>1 DEF StoreInv, MemoryHolds, Word, Stored
<1>5. /\ gets' \in [Clients -> Nat] /\ gets'[c] = 0
      /\ \A d \in Clients : d # c => gets'[d] = gets[d]
  BY <1>0, <1>1 DEF StoreType
<1>6. StoreType'
  BY <1>0, <1>1, <1>5 DEF StoreType
<1>7. ASSUME NEW d \in Clients, d # c PROVE AnswersStored(d)' /\ ReadInv(d)'
  <2>1. net'[RecvFrom][d] = net[RecvFrom][d]
    BY <1>2, <1>7, ClientFrame, RoleFacts
  <2>2. AnswersStored(d) /\ ReadInv(d)
    BY DEF StoreInv
  <2>3. AnswersStored(d)'
    BY <1>0, <1>2, <1>3, <1>7, <2>1, <2>2, AnswersKept
  <2>4. ReadInv(d)'
    BY <1>0, <1>1, <1>2, <1>3, <1>5, <1>7, <2>2, ReadStep
  <2>. QED  BY <2>3, <2>4
<1>8. ReadInv(c)'
  <2>1. ~reading[c] /\ reading' = reading
    BY <1>1 DEF StoreInv, ReadInv
  <2>. QED  BY <1>5, <2>1 DEF ReadInv
<1>9. AnswersStored(c)'
  <2>0. AnswersStored(c) /\ OneMessage(c)
    BY DEF StoreInv, IInv, AnswersInv, ClientInv
  <2>1. CASE /\ cpc[c] = "waiting" /\ cpc'[c] = "idle"
             /\ request_count'[c] = request_count[c] + 1 /\ ClientGot(c, RecvFrom)
    <3>1. IsStored(Current(c))
      BY <2>0, <2>1 DEF AnswersStored, ClientGot
    <3>2. request_count[c] \in Nat
      BY <1>0 DEF ClientType
    <3>3. ASSUME NEW k \in 0 .. request_count'[c] - 1 PROVE IsStored(<<c, k>>)'
      <4>. PICK cmd : cmd = <<c, k>>
        OBVIOUS
      <4>1. k \in 0 .. request_count[c] - 1 \/ k = request_count[c]
        BY <2>1, <3>2
      <4>2. IsStored(cmd)
        BY <2>0, <3>1, <4>1 DEF AnswersStored, Current
      <4>3. IsStored(cmd)'
        BY <1>0, <1>3, <4>2, StoredGrows
      <4>. QED  BY <4>3
    <3>. QED  BY <2>1, <3>3 DEF AnswersStored
  <2>2. CASE request_count'[c] = request_count[c]
             /\ (cpc'[c] # "waiting" \/ net'[RecvFrom][c] = << >>)
    <3>1. ASSUME NEW k \in 0 .. request_count'[c] - 1 PROVE IsStored(<<c, k>>)'
      <4>. PICK cmd : cmd = <<c, k>>
        OBVIOUS
      <4>1. IsStored(cmd)
        BY <2>0, <2>2 DEF AnswersStored
      <4>2. IsStored(cmd)'
        BY <1>0, <1>3, <4>1, StoredGrows
      <4>. QED  BY <4>2
    <3>. QED  BY <2>2, <3>1 DEF AnswersStored
  <2>3. ASSUME cpc[c] = "idle", ClientSent(c, RequestMessage(c))
        PROVE  net'[RecvFrom][c] = << >>
    <3>1. net[RecvFrom][c] = << >>
      BY <2>0, <2>3 DEF OneMessage
    <3>2. net'[RecvFrom][c] = net[RecvFrom][c]
      BY <2>3, RoleFacts DEF ClientSent
    <3>. QED  BY <3>1, <3>2
  <2>. QED  BY <1>2, <2>1, <2>2, <2>3 DEF ClientEffect
<1>. QED  BY <1>4, <1>6, <1>7, <1>8, <1>9 DEF StoreInv

(* A client reads one word, then the other, of the replica on its node. *)
LEMMA StoreGet ==
  ASSUME KVS, IInv, StoreInv, NEW c \in Clients, kvs_get(c) \/ kvs_get_return(c)
  PROVE  StoreInv'
<1>0. /\ HistoryType /\ StoreType /\ ClientType
  BY DEF IInv, OrderInv, TypeOK, StoreInv
<1>1. UNCHANGED <<net, cpc, request_count, log, applied, kvs_memory, storing>>
  BY DEF kvs_get, kvs_get_return, vars, clientVars, replicaVars, storeVars
<1>2. HistoryType' /\ Grows
  BY <1>0, <1>1, SameGrows DEF HistoryType
<1>3. \A r \in Replicas : MemoryHolds(r)'
  BY <1>1 DEF StoreInv, MemoryHolds, Word, Stored
<1>4. Local[c] \in Replicas /\ kvs_memory[Local[c]] \in [v1 : Words, v2 : Words]
  BY <1>0, LocalAssumption DEF StoreType
<1>5. Reads(c)
  BY DEF kvs_get, kvs_get_return, StoreInv, ReadInv
<1>6. \/ /\ val' = [val EXCEPT ![c].v1 = kvs_memory[Local[c]].v1]
         /\ reading' = [reading EXCEPT ![c] = TRUE] /\ gets' = gets
      \/ /\ reading[c] /\ val' = [val EXCEPT ![c].v2 = kvs_memory[Local[c]].v2]
         /\ reading' = [reading EXCEPT ![c] = FALSE] /\ gets' = [gets EXCEPT ![c] = @ + 1]
  BY DEF kvs_get, kvs_get_return, local_mem
<1>7. /\ StoreType'
      /\ \A d \in Clients : d # c => val'[d] = val[d] /\ reading'[d] = reading[d] /\ gets'[d] = gets[d]
  <2>1. /\ val \in [Clients -> [v1 : Words, v2 : Words]]
        /\ reading \in [Clients -> BOOLEAN] /\ gets \in [Clients -> Nat]
    BY <1>0 DEF StoreType
  <2>2. /\ val' \in [Clients -> [v1 : Words, v2 : Words]]
        /\ \A d \in Clients : d # c => val'[d] = val[d]
    BY <1>4, <1>6, <2>1
  <2>3. /\ reading' \in [Clients -> BOOLEAN] /\ \A d \in Clients : d # c => reading'[d] = reading[d]
    BY <1>6, <2>1
  <2>4. /\ gets' \in [Clients -> Nat] /\ \A d \in Clients : d # c => gets'[d] = gets[d]
    BY <1>6, <2>1
  <2>. QED  BY <1>0, <1>1, <2>2, <2>3, <2>4 DEF StoreType
<1>8. ASSUME NEW d \in Clients PROVE AnswersStored(d)'
  BY <1>1 DEF StoreInv, AnswersStored, IsStored, Stored, Current
<1>9. ASSUME NEW d \in Clients, d # c PROVE ReadInv(d)'
  <2>1. ReadInv(d) /\ cpc'[d] = cpc[d] /\ request_count'[d] = request_count[d]
    BY <1>1 DEF StoreInv
  <2>. QED  BY <1>0, <1>2, <1>7, <1>9, <2>1, ReadStep
<1>10. ReadInv(c)'
  <2>0. /\ cpc[c] = "idle" /\ request_count[c] > 0 /\ request_count[c] \in Nat
        /\ request_count[c] % 2 = 0 /\ gets[c] < MaxGets /\ gets[c] \in Nat
    BY <1>0, <1>5 DEF Reads, ClientType, StoreType
  <2>1. /\ Local[c] = RecvFrom => Fresh(c, kvs_memory[Local[c]].v1)
        /\ Local[c] = RecvFrom => Fresh(c, kvs_memory[Local[c]].v2)
    <3>1. request_count[c] - 1 \in 0 .. request_count[c] - 1
      BY <2>0
    <3>2. IsStored(Own(c))
      BY <3>1 DEF StoreInv, AnswersStored, Own
    <3>3. MemoryHolds(RecvFrom)
      BY RoleFacts DEF StoreInv
    <3>. QED  BY <1>0, <3>2, <3>3, StoredFresh DEF Fresh
  <2>2. ReadInv(c)
    BY DEF StoreInv
  <2>. PICK w1, w2, m1, m2 : /\ w1 = val[c].v1 /\ w2 = val[c].v2
                             /\ m1 = kvs_memory[Local[c]].v1 /\ m2 = kvs_memory[Local[c]].v2
    OBVIOUS
  <2>3. \A w : Fresh(c, w) => NotBefore(RecvFrom, Own(c), w)'
    BY <1>1 DEF Fresh, NotBefore, Own
  <2>4. Own(c)' = Own(c) /\ cpc'[c] = cpc[c] /\ request_count'[c] = request_count[c]
    BY <1>1 DEF Own
  <2>5. CASE /\ val' = [val EXCEPT ![c].v1 = m1]
             /\ reading' = [reading EXCEPT ![c] = TRUE] /\ gets' = gets
    <3>1. val'[c].v1 = m1 /\ val'[c].v2 = w2 /\ reading'[c]
      BY <1>0, <2>5 DEF StoreType
    <3>2. Reads(c)'
      BY <1>5, <2>4, <2>5 DEF Reads
    <3>3. Local[c] = RecvFrom => NotBefore(RecvFrom, Own(c), m1)'
      BY <2>1, <2>3
    <3>4. Local[c] = RecvFrom /\ gets[c] > 0 => NotBefore(RecvFrom, Own(c), w2)'
      BY <2>2, <2>3 DEF ReadInv
    <3>5. Local[c] = RecvFrom => Fresh(c, val[c].v1)'
      BY <2>4, <3>1, <3>3 DEF Fresh
    <3>6. Local[c] = RecvFrom /\ gets[c] > 0 => Fresh(c, val[c].v2)'
      BY <2>4, <3>1, <3>4 DEF Fresh
    <3>7. gets'[c] > 0 => cpc'[c] = "idle" /\ request_count'[c] > 0
      BY <2>0, <2>4
    <3>8. gets' = gets
      BY <2>5
    <3>. QED  BY <3>2, <3>5, <3>6, <3>7, <3>8 DEF ReadInv
  <2>6. CASE /\ reading[c] /\ val' = [val EXCEPT ![c].v2 = m2]
             /\ reading' = [reading EXCEPT ![c] = FALSE] /\ gets' = [gets EXCEPT ![c] = @ + 1]
    <3>1. val'[c].v1 = w1 /\ val'[c].v2 = m2 /\ ~reading'[c]
      BY <1>0, <2>6 DEF StoreType
    <3>2. Local[c] = RecvFrom => NotBefore(RecvFrom, Own(c), w1)'
      BY <2>2, <2>3, <2>6 DEF ReadInv
    <3>3. Local[c] = RecvFrom => NotBefore(RecvFrom, Own(c), m2)'
      BY <2>1, <2>3
    <3>4. Local[c] = RecvFrom => Fresh(c, val[c].v1)' /\ Fresh(c, val[c].v2)'
      BY <2>4, <3>1, <3>2, <3>3 DEF Fresh
    <3>5. cpc'[c] = "idle" /\ request_count'[c] > 0
      BY <2>0, <2>4
    <3>. QED  BY <3>1, <3>4, <3>5 DEF ReadInv
  <2>. QED  BY <1>6, <2>5, <2>6
<1>. QED  BY <1>3, <1>7, <1>8, <1>9, <1>10 DEF StoreInv

(* A step of a replica of 1Paxos, and one of its memory. *)
LEMMA StoreReplica ==
  ASSUME KVS, IInv, IInv', StoreInv, NEW r \in Replicas,
         \/ ~storing[r] /\ ReplicaStep(r) /\ exec_fn(r)
         \/ exec_fn_return(r)
  PROVE  StoreInv'
<1>0. /\ TypeOK /\ HistoryType /\ HistoryType' /\ StoreType
      /\ \A q \in Replicas : MemoryHolds(q)
  BY DEF IInv, OrderInv, TypeOK, StoreInv
<1>1. /\ cpc' = cpc /\ request_count' = request_count
      /\ UNCHANGED <<val, reading, gets>>
      /\ StoreType' /\ Grows /\ \A q \in Replicas : MemoryHolds(q)'
      /\ \A c \in Clients : net'[RecvFrom][c] # << >> =>
           net[RecvFrom][c] # << >> \/ ~storing'[RecvFrom]
  <2>1. CASE ~storing[r] /\ ReplicaStep(r) /\ exec_fn(r)
    <3>1. /\ cpc' = cpc /\ request_count' = request_count /\ AppliedBy(r)
          /\ \A c \in Clients : net'[RecvFrom][c] # << >> =>
               net[RecvFrom][c] # << >> \/ (r = RecvFrom /\ applied' = applied)
      BY <1>0, <2>1, ReplicaEffect
    <3>2. /\ StoreType' /\ Grows /\ \A q \in Replicas : MemoryHolds(q)'
          /\ applied' = applied => ~storing'[r]
      BY <1>0, <2>1, <3>1, ExecStores
    <3>3. UNCHANGED <<val, reading, gets>>
      BY <2>1 DEF exec_fn, readVars
    <3>. QED  BY <3>1, <3>2, <3>3
  <2>2. CASE exec_fn_return(r)
    <3>1. UNCHANGED <<net, cpc, request_count, val, reading, gets>>
      BY <2>2 DEF exec_fn_return, vars, clientVars, readVars
    <3>2. StoreType' /\ Grows /\ \A q \in Replicas : MemoryHolds(q)'
      BY <1>0, <2>2, ReturnStores
    <3>. QED  BY <3>1, <3>2
  <2>. QED  BY <2>1, <2>2
<1>2. ASSUME NEW c \in Clients PROVE AnswersStored(c)'
  <2>1. AnswersStored(c)
    BY DEF StoreInv
  <2>. QED  BY <1>0, <1>1, <2>1, AnswersKept
<1>3. ASSUME NEW c \in Clients PROVE ReadInv(c)'
  <2>1. ReadInv(c)
    BY DEF StoreInv
  <2>. QED  BY <1>0, <1>1, <2>1, ReadStep
<1>. QED  BY <1>1, <1>2, <1>3 DEF StoreInv

(* The pages are zeroed, and nothing is read yet. *)
LEMMA InitStore == KvsInit => StoreInv
<1>. SUFFICES ASSUME KvsInit PROVE StoreInv
  OBVIOUS
<1>1. /\ kvs_memory = [r \in Replicas |-> Unwritten] /\ storing = [r \in Replicas |-> FALSE]
      /\ val = [c \in Clients |-> Unwritten] /\ reading = [c \in Clients |-> FALSE]
      /\ gets = [c \in Clients |-> 0]
      /\ applied = [r \in Replicas |-> << >>]
      /\ cpc = [c \in Clients |-> "new"] /\ request_count = [c \in Clients |-> 0]
  BY DEF KvsInit, Init, ClientInit, ReplicaInit
<1>2. StoreType
  BY <1>1 DEF StoreType, Unwritten, Words
<1>3. \A r \in Replicas : MemoryHolds(r)
  BY <1>1 DEF MemoryHolds, Stored, Word, Unwritten
<1>4. \A c \in Clients : AnswersStored(c) /\ ReadInv(c)
  BY <1>1 DEF AnswersStored, ReadInv
<1>. QED  BY <1>2, <1>3, <1>4 DEF StoreInv

(***************************************************************************)
(* The invariant of the store: each memory holds the last command of its   *)
(* replica, or half of it; what is answered is stored whole; and what a    *)
(* client reads of the replica that answers it is not older than its last  *)
(* write.                                                                  *)
(***************************************************************************)
THEOREM StoreInvariant == KVS /\ RidsSuffice => (KvsSpec => []StoreInv)
<1>. SUFFICES ASSUME KVS, RidsSuffice PROVE KvsSpec => []StoreInv
  OBVIOUS
<1>1. KvsSpec => []IInv
  BY InductiveInvariant, StoreRefines1Paxos, PTL
<1>2. IInv /\ IInv' /\ StoreInv /\ [KvsNext]_kvsVars => StoreInv'
  <2>. SUFFICES ASSUME IInv, IInv', StoreInv, KvsNext \/ UNCHANGED kvsVars PROVE StoreInv'
    OBVIOUS
  <2>1. CASE UNCHANGED kvsVars
    <3>1. UNCHANGED <<net, cpc, request_count, applied, kvs_memory, storing, val, reading, gets>>
      BY <2>1 DEF kvsVars, vars, clientVars, replicaVars, storeVars, readVars
    <3>2. StoreType'
      BY <3>1 DEF StoreInv, StoreType
    <3>3. \A r : Stored(r)' = Stored(r)
      BY ONLY <3>1 DEF Stored
    <3>4. \A r \in Replicas : MemoryHolds(r)'
      <4>1. \A r \in Replicas : MemoryHolds(r)
        BY DEF StoreInv
      <4>. QED  BY ONLY <3>1, <3>3, <4>1 DEF MemoryHolds, Word
    <3>5. ASSUME NEW c \in Clients PROVE AnswersStored(c)'
      <4>1. AnswersStored(c)
        BY DEF StoreInv
      <4>2. \A cmd : IsStored(cmd)' <=> IsStored(cmd)
        BY ONLY <3>1, <3>3 DEF IsStored
      <4>. QED  BY ONLY <3>1, <4>1, <4>2 DEF AnswersStored, Current
    <3>6. ASSUME NEW c \in Clients PROVE ReadInv(c)'
      <4>1. ReadInv(c)
        BY DEF StoreInv
      <4>2. \A w : Fresh(c, w)' <=> Fresh(c, w)
        BY ONLY <3>1 DEF Fresh, Own, NotBefore
      <4>3. Reads(c)' <=> Reads(c)
        BY ONLY <3>1 DEF Reads
      <4>. QED  BY ONLY <3>1, <4>1, <4>2, <4>3 DEF ReadInv
    <3>. QED  BY ONLY <3>2, <3>4, <3>5, <3>6 DEF StoreInv
  <2>. QED  BY <2>1, StoreSteps, StoreSet, StoreGet, StoreReplica
<1>. QED  BY <1>1, <1>2, InitStore, PTL DEF KvsSpec

(***************************************************************************)
(* A client whose reads go to the replica that answers it reads what it    *)
(* wrote last or something later, though its two loads are not             *)
(* synchronised with the replica's two stores.                             *)
(***************************************************************************)
THEOREM ReadsOwnWritesCorrect == KVS /\ RidsSuffice => (KvsSpec => []ReadsOwnWrites)
<1>. SUFFICES ASSUME KVS, RidsSuffice PROVE KvsSpec => []ReadsOwnWrites
  OBVIOUS
<1>1. StoreInv => ReadsOwnWrites
  BY DEF StoreInv, ReadInv, Fresh, Own, ReadsOwnWrites
<1>. QED  BY <1>1, StoreInvariant, PTL

(* Nor do leader and acceptor wait for each other below the store. *)
THEOREM StoreNoCircularWait == RidsSuffice /\ FewClients => (KvsSpec => []NoCircularWait)
<1>. SUFFICES ASSUME RidsSuffice, FewClients PROVE KvsSpec => []NoCircularWait
  OBVIOUS
<1>. QED  BY NoCircularWaitCorrect, StoreRefines1Paxos, PTL
==============================================================================
