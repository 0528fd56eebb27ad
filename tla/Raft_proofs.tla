----------------------------- MODULE Raft_proofs -----------------------------
(***************************************************************************)
(* Theorems about Raft for every number of replicas, set of clients,       *)
(* channel capacity and bound on requests.                                 *)
(***************************************************************************)
EXTENDS Raft, Replica_proofs, FiniteSetTheorems

Plain    == [tag : {"SETUP", "REQ"}, cid : Clients, rid : Nat, idx : Nat]
Appends  == [tag : {"APP"}, cid : Clients, rid : Nat, index : Nat, idx : Nat]
Replies  == [tag : {"APPR"}, cid : Clients, rid : Nat, index : Nat, idx : Nat]

Messages == Plain \cup Appends \cup Replies

Entries == [index : Nat, cmd : Commands \cup {<< >>}, exec_count : Nat]

LeaderPCs   == {"poll", "setup", "append", "collect", "apply", "respond"}
FollowerPCs == {"poll", "reply", "apply"}

TypeOK ==
  /\ net \in Channels(Messages)
  /\ ClientType
  /\ HistoryType
  /\ pc \in [Replicas -> LeaderPCs \cup FollowerPCs]
  /\ pc[Leader] \in LeaderPCs /\ \A r \in Followers : pc[r] \in FollowerPCs
  /\ msg \in [Replicas -> Messages \cup {NoMsg}]
  /\ \A r \in Replicas : pc[r] # "poll" => msg[r] \in Messages
  /\ dst \in Replicas
  /\ queue \in [Replicas -> SUBSET Entries]
  /\ last_log_index \in [Replicas -> Nat]
  /\ commit_index \in [Replicas -> Nat]
  /\ match_index \in [Replicas -> Nat]

(* The leader is inside of handle_request, about the last entry of the log. *)
InRound == pc[Leader] \in {"append", "collect", "apply", "respond"}

(* Of the last entry, the leader has not yet sent it to follower r, *)
Unsent(r) == pc[Leader] = "append" /\ dst <= r

(* or it has the response of r already. *)
Collected(r) ==
  \/ ~InRound
  \/ pc[Leader] = "collect" /\ r < dst
  \/ pc[Leader] \in {"apply", "respond"} /\ r <= dst

(* How many responses the leader waits for, before it executes an entry. *)
Needed == IF majority = 0 THEN 1 ELSE majority

(* It has got as many. *)
Decided ==
  \/ ~InRound
  \/ pc[Leader] = "collect" /\ Needed < dst
  \/ pc[Leader] \in {"apply", "respond"} /\ Needed <= dst

(* The client of the last entry has not got its answer. *)
Unanswered == last_applied(Leader) < Len(log) \/ pc[Leader] = "respond"

(* The leader's indices, and what it holds in its hands. *)
LeaderRound ==
  /\ last_log_index[Leader] = Len(log)
  /\ match_index[Leader] = 0
  /\ commit_index[Leader] = IF Decided THEN Len(log) ELSE Len(log) - 1
  /\ last_applied(Leader) <= commit_index[Leader]
  /\ Len(log) <= last_applied(Leader) + 1
  /\ pc[Leader] # "apply" => last_applied(Leader) = commit_index[Leader]
  /\ pc[Leader] = "respond" => Decided
  /\ InRound => Len(log) > 0 /\ dst \in Followers
  /\ pc[Leader] = "append" => /\ msg[Leader] \in Appends
                              /\ msg[Leader].index = Len(log) - 1
                              /\ msg[Leader].idx = Len(log) - 1
  /\ pc[Leader] \in {"append", "apply", "respond"} =>
       Command(msg[Leader]) = log[Len(log)]

(* The message to a follower about the last entry, and its response. *)
IsAppend(m) ==
  /\ m \in Appends
  /\ m.index = Len(log) - 1 /\ m.idx = Len(log) - 1 /\ Command(m) = log[Len(log)]

IsReply(m, r) ==
  /\ m \in Replies
  /\ m.index = Len(log) /\ m.idx = r /\ Command(m) = log[Len(log)]

(* Where the last entry is on its way to follower r and back. *)
Quiet(r) == net[Leader][r] = << >> /\ net[r][Leader] = << >> /\ pc[r] # "reply"

Requested(r) ==
  /\ last_log_index[r] = Len(log) - 1 /\ pc[r] # "reply"
  /\ Len(net[Leader][r]) = 1 /\ IsAppend(net[Leader][r][1]) /\ net[r][Leader] = << >>

Replying(r) ==
  /\ last_log_index[r] = Len(log) /\ pc[r] = "reply"
  /\ net[Leader][r] = << >> /\ net[r][Leader] = << >> /\ IsReply(msg[r], r)

Replied(r) ==
  /\ last_log_index[r] = Len(log) /\ pc[r] # "reply"
  /\ net[Leader][r] = << >> /\ Len(net[r][Leader]) = 1 /\ IsReply(net[r][Leader][1], r)

FollowerRound(r) ==
  /\ Unsent(r) => /\ last_log_index[r] = Len(log) - 1 /\ Quiet(r)
                  /\ match_index[r] = Len(log) - 1
  /\ Collected(r) => /\ last_log_index[r] = Len(log) /\ Quiet(r)
                     /\ match_index[r] = Len(log)
  /\ ~Unsent(r) /\ ~Collected(r) => /\ Requested(r) \/ Replying(r) \/ Replied(r)
                                    /\ match_index[r] = Len(log) - 1

(* What follower r has executed is all it knows to be committed, and that  *)
(* is all but the last of its entries.                                     *)
FollowerCommits(r) ==
  /\ commit_index[r] = IF last_log_index[r] = 0 THEN 0 ELSE last_log_index[r] - 1
  /\ last_applied(r) <= commit_index[r] /\ commit_index[r] <= last_applied(r) + 1
  /\ pc[r] = "poll" => last_applied(r) = commit_index[r]

(* An entry is that of the log. *)
OfLog(e) == e.index > 0 => e.index <= Len(log) /\ e.cmd = log[e.index]

FollowerList(r) ==
  /\ \A i \in last_applied(r) .. last_log_index[r] : queue_contains(queue[r], i)
  /\ \A e \in queue[r] :
       /\ e.index <= last_log_index[r] /\ OfLog(e)
       /\ e.index > 0 => e.index + 1 >= last_applied(r)

(* How often the leader has counted the last entry. *)
Counts ==
  CASE pc[Leader] = "append" -> 0
    [] pc[Leader] = "collect" -> dst - 1 + IF Unanswered THEN 0 ELSE 1
    [] pc[Leader] \in {"apply", "respond"} -> dst + IF Unanswered THEN 0 ELSE 1
    [] OTHER -> N

(* Of the entries before the last, the leader keeps two until it has       *)
(* executed the last, and one after that.                                  *)
LeaderList ==
  /\ queue_contains(queue[Leader], Len(log))
  /\ \A e \in queue[Leader] :
       /\ e.index <= Len(log) /\ OfLog(e)
       /\ e.index = Len(log) /\ e.index > 0 => e.exec_count = Counts
       /\ e.index < Len(log) /\ e.index > 0 =>
            /\ e.exec_count = N
            /\ Len(log) <= e.index + IF Unanswered THEN 2 ELSE 1

LogInv ==
  /\ TypeOK
  /\ LeaderRound
  /\ LeaderList
  /\ \A r \in Followers : FollowerRound(r) /\ FollowerCommits(r) /\ FollowerList(r)
  /\ Agreement

------------------------------------------------------------------------------
(* The leader's handler is about the setup of client c, *)
InSetup(c) == pc[Leader] = "setup" /\ msg[Leader].cid = c

(* or about its request, which is not answered. *)
Owed(c) == Len(log) > 0 /\ Unanswered /\ log[Len(log)][1] = c

(* The leader has executed a command. *)
Executed(cmd) == \E i \in 1 .. Len(applied[Leader]) : applied[Leader][i] = cmd

(***************************************************************************)
(* Where the one message is that belongs to client c: in its channel to    *)
(* the leader, in the leader's hands or its log, or in the channel back.   *)
(***************************************************************************)
OneMessage(c) ==
  LET asked == net[c][Leader]
      answer == net[Leader][c]
  IN  /\ asked # << >> => /\ \/ cpc[c] = "joining" /\ asked = <<SetupMessage(c)>>
                             \/ cpc[c] = "waiting" /\ asked = <<RequestMessage(c)>>
                          /\ ~InSetup(c) /\ ~Owed(c) /\ answer = << >>
      /\ InSetup(c) => cpc[c] = "joining" /\ answer = << >>
      /\ Owed(c) => cpc[c] = "waiting" /\ log[Len(log)] = Current(c) /\ answer = << >>
      /\ answer # << >> => /\ Len(answer) = 1
                           /\ \/ cpc[c] = "joining"
                              \/ /\ cpc[c] = "waiting"
                                 /\ Command(answer[1]) = Current(c)
                                 /\ Executed(Current(c))

(* Only requests that have left the channel to the leader are ordered. *)
OrderedIssued(c) ==
  \A i \in 1 .. Len(log) : log[i][1] = c =>
    \/ log[i][2] < request_count[c]
    \/ log[i] = Current(c) /\ cpc[c] = "waiting" /\ net[c][Leader] = << >>

ClientsServed == \A c \in Clients : OneMessage(c) /\ OrderedIssued(c)

(* The inductive invariant. *)
IInv == LogInv /\ ClientsServed

------------------------------------------------------------------------------
(* Who is who, and what counts as a majority *)

(* The replicas and the clients. *)
LEMMA RoleFacts ==
  /\ N \in Nat /\ N >= 2 /\ Leader = 0 /\ Leader \in Replicas /\ Leader \in Nodes
  /\ RecvFrom = Leader /\ RecvFrom \in Nat
  /\ \A r \in Followers : /\ r \in Replicas /\ r \in Nodes /\ r \in Nat /\ r # Leader
                          /\ 1 <= r /\ r <= N - 1
  /\ \A r \in Replicas : r = Leader \/ r \in Followers
  /\ \A i \in 1 .. N - 1 : i \in Followers
  /\ \A c \in Clients : c \in Nodes /\ c \notin Replicas /\ c # Leader /\ c \notin Followers
BY ReplicasAssumption, ClientsAssumption, AnswersFromLeader
   DEF Leader, Followers, Replicas, Nodes

(* The larger and the smaller of two numbers. *)
LEMMA TwoNumbers ==
  ASSUME NEW a \in Nat, NEW b \in Nat, a <= b
  PROVE  Max({a, b}) = b /\ Min({a, b}) = a
<1>1. \E x \in {a, b} : \A y \in {a, b} : x >= y
  OBVIOUS
<1>2. \E x \in {a, b} : \A y \in {a, b} : x =< y
  OBVIOUS
<1>3. Max({a, b}) \in {a, b} /\ \A y \in {a, b} : Max({a, b}) >= y
  BY <1>1 DEF Max
<1>4. Min({a, b}) \in {a, b} /\ \A y \in {a, b} : Min({a, b}) =< y
  BY <1>2 DEF Min
<1>. QED  BY <1>3, <1>4

(* The loop of handle_request never waits for more responses than there are. *)
LEMMA NeededFacts ==
  /\ majority \in Nat /\ Needed \in Nat /\ 1 <= Needed /\ Needed <= N - 1
  /\ \A k \in Nat : k >= 1 => (majority <= k <=> Needed <= k)
<1>1. majority \in Nat /\ majority <= N - 1
  BY ReplicasAssumption DEF majority
<1>. QED  BY <1>1, ReplicasAssumption DEF Needed

(***************************************************************************)
(* The commit index of the leader, when k followers have the new entry L   *)
(* and the others the one before.                                          *)
(***************************************************************************)
LEMMA CommitIndex ==
  ASSUME NEW L \in Nat, L >= 1, NEW k \in Nat, 1 <= k, k <= N - 1,
         NEW match \in [Replicas -> Nat], match[Leader] = 0,
         \A j \in Followers : match[j] = IF j <= k THEN L ELSE L - 1,
         NEW commit \in {L - 1, L}, commit = L => Needed <= k
  PROVE  update_commit_index_leader(match, commit) = IF Needed <= k THEN L ELSE L - 1
<1>. DEFINE held == {match[i] : i \in {j \in Replicas : HeldByMajority(match, match[j])}}
            S == {commit} \cup held
<1>1. HeldByMajority(match, L) <=> Needed <= k
  <2>1. {j \in Replicas : match[j] >= L} = 1 .. k
    <3>1. ASSUME NEW j \in Replicas
          PROVE  match[j] >= L <=> j \in 1 .. k
      <4>1. CASE j = Leader
        BY <4>1, RoleFacts
      <4>2. CASE j \in Followers
        BY <4>2, RoleFacts
      <4>. QED  BY <4>1, <4>2, RoleFacts
    <3>2. 1 .. k \subseteq Replicas
      BY RoleFacts
    <3>. QED  BY <3>1, <3>2
  <2>2. Cardinality(1 .. k) = k
    BY FS_Interval
  <2>. QED  BY <2>1, <2>2, NeededFacts DEF HeldByMajority
<1>2. \A j \in Replicas : match[j] \in Nat /\ match[j] <= L /\ (match[j] # L => match[j] <= L - 1)
  <2>1. ASSUME NEW j \in Replicas
        PROVE  match[j] \in Nat /\ match[j] <= L /\ (match[j] # L => match[j] <= L - 1)
    <3>1. CASE j = Leader
      BY <3>1
    <3>2. CASE j \in Followers
      BY <3>2
    <3>. QED  BY <3>1, <3>2, RoleFacts
  <2>. QED  BY <2>1
<1>3. CASE Needed <= k
  <2>1. L \in S
    <3>1. 1 \in Followers /\ 1 \in Replicas /\ match[1] = L
      BY RoleFacts
    <3>. QED  BY <1>1, <1>3, <3>1
  <2>2. \A x \in S : x \in Nat /\ x <= L
    BY <1>2
  <2>3. \E x \in S : \A y \in S : x >= y
    BY <2>1, <2>2
  <2>4. Max(S) \in S /\ \A y \in S : Max(S) >= y
    BY <2>3 DEF Max
  <2>5. Max(S) = L
    BY <2>1, <2>2, <2>4
  <2>. QED  BY <1>3, <2>5 DEF update_commit_index_leader
<1>4. CASE ~(Needed <= k)
  <2>1. commit = L - 1 /\ L - 1 \in S
    BY <1>4
  <2>2. \A x \in S : x \in Nat /\ x <= L - 1
    <3>1. ASSUME NEW j \in Replicas, HeldByMajority(match, match[j])
          PROVE  match[j] \in Nat /\ match[j] <= L - 1
      BY <1>1, <1>2, <1>4, <3>1
    <3>. QED  BY <2>1, <3>1
  <2>3. \E x \in S : \A y \in S : x >= y
    BY <2>1, <2>2
  <2>4. Max(S) \in S /\ \A y \in S : Max(S) >= y
    BY <2>3 DEF Max
  <2>5. Max(S) = L - 1
    BY <2>1, <2>2, <2>4
  <2>. QED  BY <1>4, <2>5 DEF update_commit_index_leader
<1>. QED  BY <1>3, <1>4

------------------------------------------------------------------------------
(* Messages and entries *)

(* A message holds a command, and so does what Raft makes of it. *)
LEMMA MessageFacts ==
  ASSUME NEW m \in Messages
  PROVE  /\ m.cid \in Clients /\ Command(m) \in Commands /\ Command(m)[1] = m.cid
         /\ \A i, j \in Nat :
              LET a == RaftMessage("APP", m, i, j)
                  b == RaftMessage("APPR", m, i, j)
              IN  /\ a \in Appends /\ a.index = i /\ a.idx = j /\ Command(a) = Command(m)
                  /\ b \in Replies /\ b.index = i /\ b.idx = j /\ Command(b) = Command(m)
<1>1. m.cid \in Clients /\ m.rid \in Nat
  BY DEF Messages, Plain, Appends, Replies
<1>. QED  BY <1>1 DEF Command, Commands, RaftMessage, Appends, Replies

(* The messages between replicas are messages. *)
LEMMA RaftMessages ==
  /\ \A m : IsAppend(m) => m \in Messages /\ m.tag = "APP"
  /\ \A m, r : IsReply(m, r) => m \in Messages /\ m.tag = "APPR"
  /\ \A m \in Appends : m \in Messages
BY DEF IsAppend, IsReply, Messages, Appends, Replies

(* The two messages of a client. *)
LEMMA ClientMessages ==
  ASSUME ClientType, NEW c \in Clients
  PROVE  /\ SetupMessage(c) \in Messages /\ RequestMessage(c) \in Messages
         /\ SetupMessage(c).tag = "SETUP" /\ SetupMessage(c).cid = c
         /\ RequestMessage(c).tag = "REQ" /\ RequestMessage(c).cid = c
         /\ Command(RequestMessage(c)) = Current(c)
<1>1. RecvFrom \in Nat /\ request_count[c] \in Nat
  BY RoleFacts DEF ClientType
<1>. QED  BY <1>1 DEF SetupMessage, RequestMessage, Message, Messages, Plain, Command, Current

(* What queue_contains returns when it finds something. *)
LEMMA LookupFacts ==
  ASSUME NEW q, NEW i, queue_contains(q, i)
  PROVE  Lookup(q, i) \in q /\ Lookup(q, i).index = i
BY DEF queue_contains, Lookup

(* A new entry of a list, for a command or for the start. *)
LEMMA EntryFacts ==
  /\ \A i \in Nat, cmd \in Commands \cup {<< >>} : Entry(i, cmd) \in Entries
  /\ \A i, cmd : /\ Entry(i, cmd).index = i /\ Entry(i, cmd).cmd = cmd
                 /\ Entry(i, cmd).exec_count = 0
BY DEF Entry, Entries

(* Counting changes nothing but the count of the entries with the index. *)
LEMMA CountedFacts ==
  \A q \in SUBSET Entries : \A i :
    /\ Counted(q, i) \in SUBSET Entries
    /\ \A e \in Counted(q, i) : \E f \in q :
         /\ e.index = f.index /\ e.cmd = f.cmd
         /\ e.exec_count = IF f.index = i THEN f.exec_count + 1 ELSE f.exec_count
    /\ \A j : queue_contains(q, j) => queue_contains(Counted(q, i), j)
<1>. TAKE q \in SUBSET Entries
<1>. TAKE i
<1>1. ASSUME NEW f \in q
      PROVE  LET e == [f EXCEPT !.exec_count = @ + 1]
             IN  /\ e \in Entries /\ e.index = f.index /\ e.cmd = f.cmd
                 /\ e.exec_count = f.exec_count + 1
  <2>1. f \in Entries
    OBVIOUS
  <2>. QED  BY <2>1 DEF Entries
<1>. DEFINE plus(f) == IF f.index = i THEN [f EXCEPT !.exec_count = @ + 1] ELSE f
<1>2. \A f \in q : /\ plus(f) \in Entries /\ plus(f).index = f.index /\ plus(f).cmd = f.cmd
                   /\ plus(f).exec_count = IF f.index = i THEN f.exec_count + 1 ELSE f.exec_count
  BY <1>1
<1>3. Counted(q, i) = {plus(f) : f \in q}
  BY DEF Counted
<1>. HIDE DEF plus
<1>. QED  BY <1>2, <1>3 DEF queue_contains

(* The sizes of what the lemmas below count. *)
LEMMA Sizes ==
  ASSUME TypeOK
  PROVE  /\ log \in Seq(Commands) /\ Len(log) \in Nat
         /\ \A r \in Replicas : /\ applied[r] \in Seq(Commands)
                                /\ Len(applied[r]) \in Nat /\ last_applied(r) \in Nat
         /\ \A x, y \in Nodes : net[x][y] \in Seq(Messages) /\ Len(net[x][y]) \in Nat
         /\ \A i \in 1 .. Len(log) : log[i] \in Commands
BY LenProperties DEF TypeOK, HistoryType, Channels, last_applied

(* A channel that holds one message. *)
LEMMA OneInChannel ==
  ASSUME NEW M, NEW s \in Seq(M), Len(s) = 1
  PROVE  s # << >> /\ Head(s) = s[1] /\ s[1] \in M /\ Tail(s) = << >>
<1>1. s # << >> /\ Tail(s) = << >>
  BY LastTaken
<1>2. Head(s) = s[1]
  BY <1>1, HeadTailProperties
<1>3. s[1] \in M
  BY LenProperties
<1>. QED  BY <1>1, <1>2, <1>3

------------------------------------------------------------------------------
(* What a step leaves alone *)

(* Of the leader and the log. *)
LeaderSame ==
  /\ pc'[Leader] = pc[Leader] /\ msg'[Leader] = msg[Leader] /\ dst' = dst
  /\ log' = log /\ applied'[Leader] = applied[Leader]
  /\ queue'[Leader] = queue[Leader]
  /\ last_log_index'[Leader] = last_log_index[Leader]
  /\ commit_index'[Leader] = commit_index[Leader]
  /\ match_index'[Leader] = match_index[Leader]

(* Of what follower r has. *)
FollowerKeeps(r) ==
  /\ applied'[r] = applied[r] /\ queue'[r] = queue[r]
  /\ last_log_index'[r] = last_log_index[r] /\ commit_index'[r] = commit_index[r]

(* Of follower r and its channels. *)
FollowerSame(r) ==
  /\ FollowerKeeps(r)
  /\ net'[Leader][r] = net[Leader][r] /\ net'[r][Leader] = net[r][Leader]
  /\ pc'[r] = pc[r] /\ msg'[r] = msg[r]
  /\ match_index'[r] = match_index[r]

(* A step of others. *)
LEMMA LeaderFrame ==
  ASSUME LeaderRound, LeaderList, LeaderSame
  PROVE  /\ LeaderRound' /\ LeaderList'
         /\ \A r \in Followers : (Unsent(r)' <=> Unsent(r)) /\ (Collected(r)' <=> Collected(r))
<1>1. (InRound' <=> InRound) /\ last_applied(Leader)' = last_applied(Leader)
  BY DEF LeaderSame, InRound, last_applied
<1>2. Decided' = Decided /\ (Unanswered' <=> Unanswered)
  BY <1>1 DEF LeaderSame, Decided, Unanswered, Needed, majority
<1>3. Counts' = Counts
  BY <1>2 DEF LeaderSame, Counts
<1>4. LeaderRound'
  BY <1>1, <1>2 DEF LeaderSame, LeaderRound
<1>5. LeaderList'
  BY <1>2, <1>3 DEF LeaderSame, LeaderList, OfLog
<1>. QED  BY <1>1, <1>4, <1>5 DEF LeaderSame, Unsent, Collected

(* A step that keeps what follower r has, and the log. *)
LEMMA FollowerListFrame ==
  ASSUME NEW r \in Followers, FollowerList(r), FollowerKeeps(r), log' = log
  PROVE  FollowerList(r)'
BY DEF FollowerKeeps, FollowerList, OfLog, last_applied

(* Its indices. *)
LEMMA FollowerCommitsFrame ==
  ASSUME NEW r \in Followers, FollowerCommits(r), FollowerKeeps(r),
         pc'[r] = "poll" => pc[r] = "poll"
  PROVE  FollowerCommits(r)'
BY DEF FollowerKeeps, FollowerCommits, last_applied

(* A step that is not about follower r. *)
LEMMA FollowerFrame ==
  ASSUME NEW r \in Followers, FollowerRound(r), FollowerCommits(r), FollowerList(r),
         FollowerSame(r), log' = log,
         Unsent(r)' <=> Unsent(r), Collected(r)' <=> Collected(r)
  PROVE  FollowerRound(r)' /\ FollowerCommits(r)' /\ FollowerList(r)'
<1>1. FollowerCommits(r)' /\ FollowerList(r)'
  BY FollowerListFrame, FollowerCommitsFrame DEF FollowerSame
<1>2. /\ Quiet(r) => Quiet(r)'
      /\ Requested(r) => Requested(r)'
      /\ Replying(r) => Replying(r)'
      /\ Replied(r) => Replied(r)'
  BY DEF FollowerSame, FollowerKeeps, Quiet, Requested, Replying, Replied, IsAppend, IsReply
<1>3. FollowerRound(r)'
  BY <1>2 DEF FollowerSame, FollowerKeeps, FollowerRound
<1>. QED  BY <1>1, <1>3

------------------------------------------------------------------------------
(* The followers' steps *)

(* The parts of the invariant, and the types they rest on. *)
LEMMA LogFacts ==
  ASSUME LogInv
  PROVE  /\ TypeOK /\ LeaderRound /\ LeaderList /\ Agreement
         /\ net \in Channels(Messages) /\ ClientType /\ HistoryType
         /\ pc \in [Replicas -> LeaderPCs \cup FollowerPCs]
         /\ msg \in [Replicas -> Messages \cup {NoMsg}]
         /\ queue \in [Replicas -> SUBSET Entries]
         /\ last_log_index \in [Replicas -> Nat] /\ commit_index \in [Replicas -> Nat]
         /\ match_index \in [Replicas -> Nat] /\ dst \in Nat
         /\ log \in Seq(Commands) /\ Len(log) \in Nat
         /\ \A r \in Followers : FollowerRound(r) /\ FollowerCommits(r) /\ FollowerList(r)
         /\ last_applied(Leader) \in Nat
         /\ \A r \in Followers :
              /\ last_applied(r) \in Nat /\ commit_index[r] \in Nat
              /\ last_log_index[r] \in Nat
         /\ \A x, y \in Nodes : net[x][y] \in Seq(Messages)
<1>1. TypeOK
  BY DEF LogInv
<1>2. \A r \in Replicas : r \in Nat
  BY DEF Replicas
<1>. QED  BY <1>1, <1>2, Sizes, RoleFacts DEF LogInv, TypeOK

(* What a follower leaves alone: the leader, and the other followers. *)
Moves(r) ==
  /\ LeaderSame
  /\ \A q \in Followers : q # r => FollowerSame(q)

(* So it is enough to look at the follower itself. *)
LEMMA MovesFrame ==
  ASSUME LogInv, NEW r \in Followers, Moves(r), TypeOK', Agreement',
         FollowerRound(r)' /\ FollowerCommits(r)' /\ FollowerList(r)'
  PROVE  LogInv'
<1>1. LeaderRound' /\ LeaderList'
  BY LogFacts, LeaderFrame DEF Moves
<1>2. \A q \in Followers : (Unsent(q)' <=> Unsent(q)) /\ (Collected(q)' <=> Collected(q))
  BY LogFacts, LeaderFrame DEF Moves
<1>3. ASSUME NEW q \in Followers, q # r
      PROVE  FollowerRound(q)' /\ FollowerCommits(q)' /\ FollowerList(q)'
  BY <1>2, <1>3, LogFacts, FollowerFrame DEF Moves, LeaderSame
<1>. QED  BY <1>1, <1>3 DEF LogInv

(* Follower r takes an entry: what it gets, and what it makes of it. *)
LEMMA AppendFacts ==
  ASSUME LogInv, NEW r \in Followers, handle_append(r)
  PROVE  LET m == Head(net[Leader][r])
             L == Len(log)
         IN  /\ L >= 1 /\ ~Unsent(r) /\ ~Collected(r) /\ Requested(r)
             /\ IsAppend(m) /\ m \in Messages /\ pc[r] = "poll"
             /\ net' \in Channels(Messages) /\ net'[Leader][r] = << >>
             /\ \A x, y \in Nodes : x # Leader \/ y # r => net'[x][y] = net[x][y]
             /\ commit_index' = [commit_index EXCEPT ![r] = L - 1]
             /\ last_log_index' = [last_log_index EXCEPT ![r] = L]
             /\ queue' = [queue EXCEPT ![r] = @ \cup {Entry(L, log[L])}]
             /\ Enters(r, "reply", RaftMessage("APPR", m, L, r))
             /\ UNCHANGED <<cpc, request_count, dst, log, applied, match_index>>
<1>. PICK m, L : m = Head(net[Leader][r]) /\ L = Len(log)
  OBVIOUS
<1>1. /\ Takes(r, Leader, "APP")
      /\ LET i == m.index + 1
         IN  /\ queue' = [queue EXCEPT ![r] = @ \cup {Entry(i, Command(m))}]
             /\ last_log_index' = [last_log_index EXCEPT ![r] = i]
             /\ commit_index' = [commit_index EXCEPT ![r] = Max({@, Min({m.idx, i})})]
             /\ Enters(r, "reply", RaftMessage("APPR", m, i, r))
      /\ UNCHANGED <<cpc, request_count, dst, log, applied, match_index>>
  BY DEF handle_append
<1>2. /\ r \in Replicas /\ r \in Nodes /\ Leader \in Nodes /\ net \in Channels(Messages)
      /\ net[Leader][r] \in Seq(Messages) /\ L \in Nat
      /\ LeaderRound /\ FollowerRound(r) /\ FollowerCommits(r)
      /\ commit_index[r] \in Nat /\ last_applied(r) \in Nat /\ last_log_index[r] \in Nat
      /\ commit_index \in [Replicas -> Nat]
  BY LogFacts, RoleFacts
<1>3. /\ net' \in Channels(Messages) /\ pc[r] = "poll" /\ net[Leader][r] # << >>
      /\ net'[Leader][r] = Tail(net[Leader][r])
      /\ \A x, y \in Nodes : x # Leader \/ y # r => net'[x][y] = net[x][y]
  BY <1>1, <1>2, TakesFacts
<1>4. ~Unsent(r) /\ ~Collected(r) /\ Requested(r)
  BY <1>2, <1>3 DEF FollowerRound, Quiet, Replying, Replied
<1>5. /\ last_log_index[r] = L - 1 /\ Len(net[Leader][r]) = 1 /\ IsAppend(net[Leader][r][1])
  BY <1>4 DEF Requested
<1>6. m = net[Leader][r][1] /\ net'[Leader][r] = << >>
  BY <1>2, <1>3, <1>5, OneInChannel
<1>7. L >= 1
  BY <1>2, <1>4 DEF LeaderRound, Collected
<1>8. /\ IsAppend(m) /\ m \in Messages
      /\ m.index = L - 1 /\ m.idx = L - 1 /\ Command(m) = log[L]
  BY <1>5, <1>6, RaftMessages DEF IsAppend
<1>9. m.index + 1 = L
  BY <1>2, <1>8
<1>10. Max({commit_index[r], Min({m.idx, m.index + 1})}) = L - 1
  <2>1. L - 1 \in Nat /\ L \in Nat /\ L - 1 <= L
    BY <1>2, <1>7
  <2>2. Min({L - 1, L}) = L - 1
    BY <2>1, TwoNumbers
  <2>3. commit_index[r] <= L - 1
    BY <1>2, <1>5, <2>1 DEF FollowerCommits
  <2>4. Max({commit_index[r], L - 1}) = L - 1
    BY <1>2, <2>1, <2>3, TwoNumbers
  <2>. QED  BY <1>8, <1>9, <2>2, <2>4
<1>11. /\ queue' = [queue EXCEPT ![r] = @ \cup {Entry(L, log[L])}]
       /\ last_log_index' = [last_log_index EXCEPT ![r] = L]
       /\ commit_index' = [commit_index EXCEPT ![r] = L - 1]
       /\ Enters(r, "reply", RaftMessage("APPR", m, L, r))
  BY <1>1, <1>8, <1>9, <1>10
<1>. QED  BY <1>1, <1>3, <1>4, <1>6, <1>7, <1>8, <1>11

(* Follower r takes an entry. *)
LEMMA AppendStep ==
  ASSUME LogInv, NEW r \in Followers, handle_append(r)
  PROVE  LogInv' /\ Moves(r)
<1>. PICK m, L : m = Head(net[Leader][r]) /\ L = Len(log)
  OBVIOUS
<1>1. /\ L >= 1 /\ ~Unsent(r) /\ ~Collected(r) /\ Requested(r)
      /\ IsAppend(m) /\ m \in Messages /\ pc[r] = "poll"
      /\ net' \in Channels(Messages) /\ net'[Leader][r] = << >>
      /\ \A x, y \in Nodes : x # Leader \/ y # r => net'[x][y] = net[x][y]
      /\ commit_index' = [commit_index EXCEPT ![r] = L - 1]
      /\ last_log_index' = [last_log_index EXCEPT ![r] = L]
      /\ queue' = [queue EXCEPT ![r] = @ \cup {Entry(L, log[L])}]
      /\ Enters(r, "reply", RaftMessage("APPR", m, L, r))
      /\ UNCHANGED <<cpc, request_count, dst, log, applied, match_index>>
  BY AppendFacts
<1>2. /\ r \in Replicas /\ r # Leader /\ r \in Nat /\ L \in Nat /\ L - 1 \in Nat
      /\ Leader \in Replicas /\ Leader \in Nodes /\ r \in Nodes
      /\ \A q \in Followers : q \in Replicas /\ q \in Nodes /\ q # Leader
  BY <1>1, LogFacts, RoleFacts
<1>3. log[L] \in Commands /\ Entry(L, log[L]) \in Entries
  BY <1>1, <1>2, LogFacts, Sizes, EntryFacts
<1>4. /\ RaftMessage("APPR", m, L, r) \in Replies
      /\ IsReply(RaftMessage("APPR", m, L, r), r)
      /\ RaftMessage("APPR", m, L, r) \in Messages
  <2>1. RaftMessage("APPR", m, L, r) \in Replies
        /\ RaftMessage("APPR", m, L, r).index = L
        /\ RaftMessage("APPR", m, L, r).idx = r
        /\ Command(RaftMessage("APPR", m, L, r)) = Command(m)
    BY <1>1, <1>2, MessageFacts
  <2>. QED  BY <1>1, <2>1, RaftMessages DEF IsReply, IsAppend
<1>5. /\ pc'[r] = "reply" /\ msg'[r] = RaftMessage("APPR", m, L, r)
      /\ queue'[r] = queue[r] \cup {Entry(L, log[L])}
      /\ last_log_index'[r] = L /\ commit_index'[r] = L - 1
      /\ \A q \in Replicas : q # r =>
           /\ pc'[q] = pc[q] /\ msg'[q] = msg[q] /\ queue'[q] = queue[q]
           /\ last_log_index'[q] = last_log_index[q] /\ commit_index'[q] = commit_index[q]
  BY <1>1, <1>2, LogFacts DEF Enters
<1>6. Moves(r)
  BY <1>1, <1>2, <1>5 DEF Moves, LeaderSame, FollowerSame, FollowerKeeps
<1>7. TypeOK'
  <2>1. /\ ClientType' /\ HistoryType' /\ dst' \in Replicas /\ match_index' \in [Replicas -> Nat]
    BY <1>1, LogFacts DEF ClientType, HistoryType, TypeOK
  <2>2. /\ queue' \in [Replicas -> SUBSET Entries]
        /\ last_log_index' \in [Replicas -> Nat] /\ commit_index' \in [Replicas -> Nat]
    BY <1>1, <1>2, <1>3, LogFacts
  <2>3. /\ pc' \in [Replicas -> LeaderPCs \cup FollowerPCs]
        /\ msg' \in [Replicas -> Messages \cup {NoMsg}]
    BY <1>1, <1>2, <1>4, LogFacts DEF Enters, FollowerPCs
  <2>4. /\ pc'[Leader] \in LeaderPCs /\ \A q \in Followers : pc'[q] \in FollowerPCs
        /\ \A q \in Replicas : pc'[q] # "poll" => msg'[q] \in Messages
    BY <1>2, <1>4, <1>5, LogFacts DEF TypeOK, FollowerPCs
  <2>. QED  BY <1>1, <2>1, <2>2, <2>3, <2>4 DEF TypeOK
<1>8. Agreement'
  BY <1>1, LogFacts DEF Agreement
<1>9. /\ FollowerCommits(r) /\ FollowerList(r) /\ FollowerRound(r)
      /\ last_applied(r)' = last_applied(r) /\ last_applied(r) \in Nat
      /\ commit_index[r] \in Nat /\ last_log_index[r] = L - 1
  BY <1>1, LogFacts DEF last_applied, Requested
<1>10. FollowerRound(r)'
  <2>1. (Unsent(r)' <=> Unsent(r)) /\ (Collected(r)' <=> Collected(r))
    BY <1>6, LogFacts, LeaderFrame DEF Moves
  <2>2. Replying(r)' /\ match_index'[r] = L - 1
    BY <1>1, <1>2, <1>4, <1>5, <1>9 DEF Replying, Requested, IsReply, FollowerRound
  <2>. QED  BY <1>1, <2>1, <2>2 DEF FollowerRound
<1>11. FollowerCommits(r)'
  <2>1. last_applied(r) = commit_index[r]
        /\ commit_index[r] = IF L - 1 = 0 THEN 0 ELSE L - 2
    BY <1>1, <1>2, <1>9 DEF FollowerCommits
  <2>. QED  BY <1>1, <1>2, <1>5, <1>9, <2>1 DEF FollowerCommits
<1>12. FollowerList(r)'
  <2>1. \A i \in last_applied(r) .. L : queue_contains(queue'[r], i)
    <3>1. \A i \in last_applied(r) .. L - 1 : queue_contains(queue'[r], i)
      BY <1>5, <1>9 DEF FollowerList, queue_contains
    <3>2. queue_contains(queue'[r], L)
      BY <1>5, EntryFacts DEF queue_contains
    <3>. QED  BY <1>2, <1>9, <3>1, <3>2
  <2>2. ASSUME NEW e \in queue'[r]
        PROVE  e.index <= L /\ OfLog(e)' /\ (e.index > 0 => e.index + 1 >= last_applied(r))
    <3>1. CASE e \in queue[r]
      <4>1. e \in Entries
        BY <1>2, <3>1, LogFacts
      <4>2. e.index \in Nat
        BY <4>1 DEF Entries
      <4>. QED  BY <1>1, <1>2, <1>9, <3>1, <4>2 DEF FollowerList, OfLog
    <3>2. CASE e = Entry(L, log[L])
      <4>1. e.index = L /\ e.cmd = log[L]
        BY <3>2, EntryFacts
      <4>2. L + 1 >= last_applied(r)
        BY <1>2, <1>9 DEF FollowerCommits
      <4>. QED  BY <1>1, <1>2, <4>1, <4>2 DEF OfLog
    <3>. QED  BY <1>5, <3>1, <3>2
  <2>. QED  BY <1>5, <1>9, <2>1, <2>2 DEF FollowerList
<1>. QED  BY <1>6, <1>7, <1>8, <1>10, <1>11, <1>12, MovesFrame

(* Follower r acknowledges the entry. *)
LEMMA AppendSendStep ==
  ASSUME LogInv, NEW r \in Followers, handle_append_send(r)
  PROVE  /\ LogInv' /\ Moves(r)
         /\ UNCHANGED <<cpc, request_count, log, applied>>
         /\ \A x, y \in Nodes : x # r \/ y # Leader => net'[x][y] = net[x][y]
<1>. PICK m : m = msg[r]
  OBVIOUS
<1>1. /\ Sends(r, "reply", Leader) /\ pc' = [pc EXCEPT ![r] = "apply"]
      /\ UNCHANGED <<cpc, request_count, msg, dst, log, applied,
                     queue, last_log_index, commit_index, match_index>>
  BY DEF handle_append_send, raftVars
<1>2. /\ r \in Replicas /\ r # Leader
      /\ Leader \in Replicas /\ Leader \in Nodes /\ r \in Nodes
      /\ \A q \in Followers : q \in Replicas /\ q \in Nodes /\ q # Leader
  BY RoleFacts
<1>3. pc[r] = "reply" /\ m \in Messages
  BY <1>1, <1>2, LogFacts DEF Sends, TypeOK
<1>4. /\ net' \in Channels(Messages)
      /\ net'[r][Leader] = Append(net[r][Leader], m)
      /\ \A x, y \in Nodes : x # r \/ y # Leader => net'[x][y] = net[x][y]
  <2>1. net \in Channels(Messages) /\ msg[r] \in Messages
    BY <1>3, LogFacts
  <2>. QED  BY <1>1, <1>2, <2>1, SendsFacts
<1>5. /\ pc'[r] = "apply"
      /\ \A q \in Replicas : q # r => pc'[q] = pc[q]
  BY <1>1, <1>2, LogFacts
<1>6. Moves(r)
  BY <1>1, <1>2, <1>4, <1>5 DEF Moves, LeaderSame, FollowerSame, FollowerKeeps
<1>7. TypeOK'
  <2>1. pc' \in [Replicas -> LeaderPCs \cup FollowerPCs]
    BY <1>1, LogFacts DEF FollowerPCs
  <2>2. /\ pc'[Leader] \in LeaderPCs /\ \A q \in Followers : pc'[q] \in FollowerPCs
        /\ \A q \in Replicas : pc'[q] # "poll" => msg'[q] \in Messages
    BY <1>1, <1>2, <1>3, <1>5, LogFacts DEF TypeOK, FollowerPCs
  <2>. QED  BY <1>1, <1>4, <2>1, <2>2, LogFacts DEF TypeOK, ClientType, HistoryType
<1>8. Agreement'
  BY <1>1, LogFacts DEF Agreement
<1>9. /\ FollowerCommits(r) /\ FollowerList(r) /\ FollowerRound(r)
      /\ ~Unsent(r) /\ ~Collected(r) /\ Replying(r) /\ match_index[r] = Len(log) - 1
  BY <1>3, LogFacts DEF FollowerRound, Quiet, Requested, Replied
<1>10. FollowerRound(r)'
  <2>1. (Unsent(r)' <=> Unsent(r)) /\ (Collected(r)' <=> Collected(r))
    BY <1>6, LogFacts, LeaderFrame DEF Moves
  <2>2. net'[r][Leader] = <<m>> /\ IsReply(m, r) /\ net'[Leader][r] = << >>
        /\ last_log_index[r] = Len(log)
    BY <1>2, <1>4, <1>9, SingleMessage DEF Replying
  <2>3. Len(net'[r][Leader]) = 1 /\ net'[r][Leader][1] = m
    BY <2>2, SingleMessage
  <2>4. Replied(r)'
    BY <1>1, <1>5, <2>2, <2>3 DEF Replied, IsReply
  <2>. QED  BY <1>1, <1>9, <2>1, <2>4 DEF FollowerRound
<1>11. FollowerCommits(r)' /\ FollowerList(r)'
  BY <1>1, <1>5, <1>9, FollowerListFrame, FollowerCommitsFrame DEF FollowerKeeps
<1>. QED  BY <1>1, <1>4, <1>6, <1>7, <1>8, <1>10, <1>11, MovesFrame

(* The next entry that a follower executes is in its list, and of the log. *)
LEMMA FollowerNext ==
  ASSUME LogInv, NEW r \in Followers, last_applied(r) < commit_index[r]
  PROVE  LET i == last_applied(r) + 1
         IN  /\ i \in 1 .. Len(log) /\ i < Len(log) /\ i = commit_index[r]
             /\ queue_contains(queue[r], i)
             /\ NextEntry(r).cmd = log[i] /\ log[i] \in Commands
<1>. PICK i : i = last_applied(r) + 1
  OBVIOUS
<1>1. /\ FollowerCommits(r) /\ FollowerList(r) /\ FollowerRound(r)
      /\ last_applied(r) \in Nat /\ commit_index[r] \in Nat /\ last_log_index[r] \in Nat
      /\ Len(log) \in Nat
  BY LogFacts
<1>2. last_log_index[r] <= Len(log)
  <2>1. last_log_index[r] = Len(log) \/ last_log_index[r] = Len(log) - 1
    BY <1>1 DEF FollowerRound, Requested, Replying, Replied
  <2>. QED  BY <1>1, <2>1
<1>3. /\ i \in Nat /\ 1 <= i /\ i < Len(log) /\ i = commit_index[r]
      /\ i \in last_applied(r) .. last_log_index[r]
  BY <1>1, <1>2 DEF FollowerCommits
<1>4. queue_contains(queue[r], i)
  BY <1>1, <1>3 DEF FollowerList
<1>5. Lookup(queue[r], i) \in queue[r] /\ Lookup(queue[r], i).index = i
  BY <1>4, LookupFacts
<1>6. Lookup(queue[r], i).cmd = log[i]
  BY <1>1, <1>3, <1>5 DEF FollowerList, OfLog
<1>7. i \in 1 .. Len(log)
  BY <1>1, <1>3
<1>8. log[i] \in Commands
  BY <1>7, LogFacts, Sizes
<1>. QED  BY <1>3, <1>4, <1>6, <1>7, <1>8 DEF NextEntry

(* Follower r executes an entry, and frees the one two places before it. *)
LEMMA FollowerApplyStep ==
  ASSUME LogInv, NEW r \in Followers, update_applied_entries(r)
  PROVE  /\ LogInv' /\ Moves(r)
         /\ UNCHANGED <<cpc, request_count, log, net>>
<1>. PICK i : i = last_applied(r) + 1
  OBVIOUS
<1>. PICK cmd : cmd = log[i]
  OBVIOUS
<1>1. /\ pc[r] = "apply" /\ last_applied(r) < commit_index[r]
      /\ applied' = [applied EXCEPT ![r] = Append(@, NextEntry(r).cmd)]
      /\ queue' = [queue EXCEPT ![r] = IF i > 2 THEN remove_entry(@, i - 2) ELSE @]
      /\ UNCHANGED <<net, cpc, request_count, pc, msg, dst, log,
                     last_log_index, commit_index, match_index>>
  BY DEF update_applied_entries, clientVars
<1>2. /\ r \in Replicas /\ r # Leader /\ Leader \in Replicas
      /\ \A q \in Followers : q \in Replicas /\ q # Leader
  BY RoleFacts
<1>3. /\ i \in 1 .. Len(log) /\ i = commit_index[r] /\ queue_contains(queue[r], i)
      /\ NextEntry(r).cmd = cmd /\ cmd \in Commands
  BY <1>1, FollowerNext
<1>4. applied' = [applied EXCEPT ![r] = Append(@, cmd)]
  BY <1>1, <1>3
<1>5. /\ queue'[r] \subseteq queue[r]
      /\ \A e \in queue[r] : e \in queue'[r] \/ e.index = i - 2
      /\ \A e \in queue'[r] : i > 2 => e.index # i - 2
      /\ \A q \in Replicas : q # r => queue'[q] = queue[q]
      /\ queue' \in [Replicas -> SUBSET Entries]
  <2>1. CASE i > 2
    <3>1. queue'[r] = remove_entry(queue[r], i - 2)
      BY <1>1, <1>2, <2>1, LogFacts
    <3>. QED  BY <1>1, <1>2, <2>1, <3>1, LogFacts DEF remove_entry
  <2>2. CASE ~(i > 2)
    BY <1>1, <1>2, <2>2, LogFacts
  <2>. QED  BY <2>1, <2>2
<1>6. /\ last_applied(r) \in Nat /\ last_applied(r)' = i
      /\ \A q \in Replicas : q # r => applied'[q] = applied[q]
  BY <1>2, <1>3, <1>4, LogFacts, AppliedAppend DEF last_applied
<1>7. Moves(r)
  BY <1>1, <1>2, <1>5, <1>6 DEF Moves, LeaderSame, FollowerSame, FollowerKeeps
<1>8. TypeOK'
  <2>1. applied' \in [Replicas -> Seq(Commands)]
    <3>1. Append(applied[r], cmd) \in Seq(Commands)
      BY <1>2, <1>3, LogFacts, Sizes, AppendProperties
    <3>. QED  BY <1>2, <1>4, <3>1, LogFacts DEF HistoryType
  <2>. QED  BY <1>1, <1>5, <2>1, LogFacts DEF TypeOK, ClientType, HistoryType
<1>9. Agreement'
  <2>1. Len(applied[r]) < Len(log) /\ cmd = log[Len(applied[r]) + 1]
    BY <1>3, <1>6 DEF last_applied
  <2>. QED  BY <1>1, <1>2, <1>3, <1>4, <2>1, LogFacts, AgreementApplied
<1>10. FollowerCommits(r) /\ FollowerList(r) /\ FollowerRound(r)
       /\ last_log_index[r] \in Nat /\ commit_index[r] \in Nat
  BY LogFacts
<1>11. FollowerRound(r)'
  <2>1. (Unsent(r)' <=> Unsent(r)) /\ (Collected(r)' <=> Collected(r))
    BY <1>7, LogFacts, LeaderFrame DEF Moves
  <2>2. /\ Quiet(r) => Quiet(r)'
        /\ Requested(r) => Requested(r)'
        /\ Replying(r) => Replying(r)'
        /\ Replied(r) => Replied(r)'
    BY <1>1 DEF Quiet, Requested, Replying, Replied, IsAppend, IsReply
  <2>. QED  BY <1>1, <1>10, <2>1, <2>2 DEF FollowerRound
<1>12. FollowerCommits(r)'
  BY <1>1, <1>3, <1>6, <1>10 DEF FollowerCommits
<1>13. FollowerList(r)'
  <2>1. ASSUME NEW j \in i .. last_log_index[r]
        PROVE  queue_contains(queue'[r], j)
    <3>1. j \in last_applied(r) .. last_log_index[r]
      BY <1>3, <1>6, <1>10
    <3>2. PICK e \in queue[r] : e.index = j
      BY <1>10, <3>1 DEF FollowerList, queue_contains
    <3>3. j # i - 2
      BY <1>3
    <3>4. e \in queue'[r]
      BY <1>5, <3>2, <3>3
    <3>. QED  BY <3>2, <3>4 DEF queue_contains
  <2>2. ASSUME NEW e \in queue'[r]
        PROVE  /\ e.index <= last_log_index[r] /\ OfLog(e)'
               /\ e.index > 0 => e.index + 1 >= i
    <3>1. e \in queue[r] /\ e \in Entries
      BY <1>2, <1>5, LogFacts
    <3>2. e.index \in Nat
      BY <3>1 DEF Entries
    <3>3. e.index <= last_log_index[r] /\ OfLog(e)
      BY <1>10, <3>1 DEF FollowerList
    <3>4. e.index > 0 => e.index + 1 >= i - 1
      BY <1>6, <1>10, <3>1, <3>2 DEF FollowerList
    <3>5. i > 2 => e.index # i - 2
      BY <1>5
    <3>6. e.index > 0 => e.index + 1 >= i
      BY <1>3, <3>2, <3>4, <3>5
    <3>. QED  BY <1>1, <3>3, <3>6 DEF OfLog
  <2>. QED  BY <1>1, <1>6, <2>1, <2>2 DEF FollowerList
<1>. QED  BY <1>1, <1>7, <1>8, <1>9, <1>11, <1>12, <1>13, MovesFrame

(* Follower r returns to its polling loop. *)
LEMMA FollowerReturnStep ==
  ASSUME LogInv, NEW r \in Followers, handle_append_return(r)
  PROVE  /\ LogInv' /\ Moves(r)
         /\ UNCHANGED <<cpc, request_count, log, applied, net>>
<1>1. /\ pc[r] = "apply" /\ last_applied(r) = commit_index[r] /\ Returns(r)
      /\ UNCHANGED <<net, cpc, request_count, dst, log, applied,
                     queue, last_log_index, commit_index, match_index>>
  BY DEF handle_append_return, clientVars, raftVars
<1>2. /\ r \in Replicas /\ r # Leader /\ Leader \in Replicas
      /\ \A q \in Followers : q \in Replicas /\ q # Leader
  BY RoleFacts
<1>3. /\ pc'[r] = "poll"
      /\ \A q \in Replicas : q # r => pc'[q] = pc[q] /\ msg'[q] = msg[q]
  BY <1>1, <1>2, LogFacts DEF Returns
<1>4. Moves(r)
  BY <1>1, <1>2, <1>3 DEF Moves, LeaderSame, FollowerSame, FollowerKeeps
<1>5. TypeOK'
  <2>1. /\ pc' \in [Replicas -> LeaderPCs \cup FollowerPCs]
        /\ msg' \in [Replicas -> Messages \cup {NoMsg}]
    BY <1>1, LogFacts DEF FollowerPCs, Returns
  <2>2. /\ pc'[Leader] \in LeaderPCs /\ \A q \in Followers : pc'[q] \in FollowerPCs
        /\ \A q \in Replicas : pc'[q] # "poll" => msg'[q] \in Messages
    BY <1>2, <1>3, LogFacts DEF TypeOK, FollowerPCs
  <2>. QED  BY <1>1, <2>1, <2>2, LogFacts DEF TypeOK, ClientType, HistoryType
<1>6. Agreement'
  BY <1>1, LogFacts DEF Agreement
<1>7. FollowerCommits(r) /\ FollowerList(r) /\ FollowerRound(r)
  BY LogFacts
<1>8. FollowerRound(r)'
  <2>1. (Unsent(r)' <=> Unsent(r)) /\ (Collected(r)' <=> Collected(r))
    BY <1>4, LogFacts, LeaderFrame DEF Moves
  <2>2. /\ Quiet(r) => Quiet(r)'
        /\ Requested(r) => Requested(r)'
        /\ ~Replying(r)
        /\ Replied(r) => Replied(r)'
    BY <1>1, <1>3 DEF Quiet, Requested, Replying, Replied, IsAppend, IsReply
  <2>. QED  BY <1>1, <1>7, <2>1, <2>2 DEF FollowerRound
<1>9. FollowerCommits(r)' /\ FollowerList(r)'
  <2>1. last_applied(r)' = last_applied(r)
    BY <1>1 DEF last_applied
  <2>2. FollowerCommits(r)'
    BY <1>1, <1>7, <2>1 DEF FollowerCommits
  <2>. QED  BY <1>1, <1>7, <2>2, FollowerListFrame DEF FollowerKeeps
<1>. QED  BY <1>1, <1>4, <1>5, <1>6, <1>8, <1>9, MovesFrame

------------------------------------------------------------------------------
(* The steps of the clients, and the leader between two requests *)

(* What a step that is not about them leaves alone of the followers. *)
FollowersSame == \A r \in Followers : FollowerSame(r)

(* A step of a client is not about the log. *)
LEMMA ClientLogStep ==
  ASSUME LogInv, NEW c \in Clients, ClientMoves(c)
  PROVE  /\ LogInv' /\ ClientEffect(c) /\ LeaderSame
         /\ \A d \in Clients : d # c => /\ cpc'[d] = cpc[d]
                                        /\ request_count'[d] = request_count[d]
<1>1. /\ net' \in Channels(Messages) /\ ClientType' /\ ClientEffect(c)
      /\ \A d \in Clients : d # c => /\ cpc'[d] = cpc[d]
                                     /\ request_count'[d] = request_count[d]
  <2>1. SetupMessage(c) \in Messages /\ RequestMessage(c) \in Messages
    BY LogFacts, ClientMessages
  <2>. QED  BY <2>1, LogFacts, ClientStepFacts DEF ClientMoves
<1>2. UNCHANGED <<pc, msg, dst, log, applied, queue, last_log_index, commit_index, match_index>>
  BY DEF ClientMoves, replicaVars, raftVars
<1>3. LeaderSame
  BY <1>2 DEF LeaderSame
<1>4. ASSUME NEW r \in Followers
      PROVE  FollowerSame(r)
  <2>1. net'[Leader][r] = net[Leader][r] /\ net'[r][Leader] = net[r][Leader]
    BY <1>1, ClientFrame, RoleFacts
  <2>. QED  BY <1>2, <2>1 DEF FollowerSame, FollowerKeeps
<1>5. TypeOK' /\ Agreement'
  BY <1>1, <1>2, LogFacts DEF TypeOK, HistoryType, Agreement
<1>6. /\ LeaderRound' /\ LeaderList'
      /\ \A r \in Followers : (Unsent(r)' <=> Unsent(r)) /\ (Collected(r)' <=> Collected(r))
  BY <1>3, LogFacts, LeaderFrame
<1>7. ASSUME NEW r \in Followers
      PROVE  FollowerRound(r)' /\ FollowerCommits(r)' /\ FollowerList(r)'
  BY <1>2, <1>4, <1>6, LogFacts, FollowerFrame
<1>. QED  BY <1>1, <1>3, <1>5, <1>6, <1>7 DEF LogInv

(* Between two requests, everything is executed, counted and answered. *)
LEMMA IdleFacts ==
  ASSUME LogInv, pc[Leader] \in {"poll", "setup"}
  PROVE  /\ last_applied(Leader) = Len(log) /\ commit_index[Leader] = Len(log)
         /\ ~InRound /\ ~Unanswered /\ Counts = N
         /\ \A r \in Followers :
              /\ last_log_index[r] = Len(log) /\ match_index[r] = Len(log) /\ Quiet(r)
<1>1. ~InRound
  BY DEF InRound
<1>2. /\ last_applied(Leader) = Len(log) /\ commit_index[Leader] = Len(log)
  BY <1>1, LogFacts DEF LeaderRound, Decided
<1>3. ~Unanswered /\ Counts = N
  BY <1>2, LogFacts DEF Unanswered, Counts
<1>4. \A r \in Followers : Collected(r)
  BY <1>1 DEF Collected
<1>. QED  BY <1>1, <1>2, <1>3, <1>4, LogFacts DEF FollowerRound

(* There, the leader welcomes a client. *)
LEMMA IdleFrame ==
  ASSUME LogInv, TypeOK', pc[Leader] \in {"poll", "setup"}, pc'[Leader] \in {"poll", "setup"},
         FollowersSame, UNCHANGED <<log, applied, raftVars>>
  PROVE  LogInv'
<1>1. UNCHANGED <<log, applied, queue, last_log_index, commit_index, match_index>>
  BY DEF raftVars
<1>2. ~InRound /\ ~InRound'
  BY DEF InRound
<1>3. last_applied(Leader)' = last_applied(Leader)
  BY <1>1 DEF last_applied
<1>4. ~Unanswered /\ ~Unanswered' /\ Counts = N /\ Counts' = N
  BY <1>1, <1>3, IdleFacts, LogFacts DEF Unanswered, Counts
<1>5. LeaderRound'
  BY <1>1, <1>2, <1>3, LogFacts DEF LeaderRound, Decided
<1>6. LeaderList'
  BY <1>1, <1>4, LogFacts DEF LeaderList, OfLog
<1>7. \A r \in Followers : /\ Collected(r) /\ Collected(r)' /\ ~Unsent(r) /\ ~Unsent(r)'
  BY <1>2 DEF Collected, Unsent
<1>8. ASSUME NEW r \in Followers
      PROVE  FollowerRound(r)' /\ FollowerCommits(r)' /\ FollowerList(r)'
  BY <1>1, <1>7, LogFacts, FollowerFrame DEF FollowersSame
<1>9. Agreement'
  BY <1>1, LogFacts DEF Agreement
<1>. QED  BY <1>5, <1>6, <1>8, <1>9 DEF LogInv

(* Of a step of the leader: the followers are not at work on a request. *)
LEMMA FollowersIdle ==
  ASSUME UNCHANGED <<applied, raftVars>>,
         \A q \in Replicas : q # Leader => pc'[q] = pc[q] /\ msg'[q] = msg[q],
         \A r \in Followers : /\ net'[Leader][r] = net[Leader][r]
                              /\ net'[r][Leader] = net[r][Leader]
  PROVE  FollowersSame
BY RoleFacts DEF FollowersSame, FollowerSame, FollowerKeeps, raftVars

(* The leader takes up a setup message. *)
LEMMA SetupLogStep ==
  ASSUME LogInv, NEW src \in Clients, handle_setup(src)
  PROVE  LogInv'
<1>. PICK m : m = Head(net[src][Leader])
  OBVIOUS
<1>1. /\ Takes(Leader, src, "SETUP") /\ Enters(Leader, "setup", m)
      /\ UNCHANGED <<cpc, request_count, dst, log, applied, raftVars>>
  BY DEF handle_setup
<1>2. /\ net' \in Channels(Messages) /\ pc[Leader] = "poll" /\ m \in Messages
      /\ \A x, y \in Nodes : x # src \/ y # Leader => net'[x][y] = net[x][y]
  <2>1. net \in Channels(Messages) /\ Leader \in Replicas /\ src \in Nodes
    BY LogFacts, RoleFacts
  <2>. QED  BY <1>1, <2>1, TakesFacts
<1>3. /\ pc'[Leader] = "setup" /\ msg'[Leader] = m
      /\ \A q \in Replicas : q # Leader => pc'[q] = pc[q] /\ msg'[q] = msg[q]
      /\ pc' \in [Replicas -> LeaderPCs \cup FollowerPCs]
      /\ msg' \in [Replicas -> Messages \cup {NoMsg}]
  BY <1>1, <1>2, LogFacts, RoleFacts DEF Enters, LeaderPCs
<1>4. TypeOK'
  <2>1. pc'[Leader] \in LeaderPCs /\ \A r \in Followers : pc'[r] \in FollowerPCs
    BY <1>3, LogFacts, RoleFacts DEF TypeOK, LeaderPCs
  <2>2. \A r \in Replicas : pc'[r] # "poll" => msg'[r] \in Messages
    BY <1>2, <1>3, LogFacts DEF TypeOK
  <2>. QED  BY <1>1, <1>2, <1>3, <2>1, <2>2, LogFacts DEF TypeOK, ClientType, HistoryType, raftVars
<1>5. FollowersSame
  <2>1. \A r \in Followers : /\ net'[Leader][r] = net[Leader][r]
                             /\ net'[r][Leader] = net[r][Leader]
    BY <1>2, RoleFacts
  <2>. QED  BY <1>1, <1>3, <2>1, FollowersIdle
<1>. QED  BY <1>1, <1>2, <1>3, <1>4, <1>5, IdleFrame

(* The leader answers a setup message. *)
LEMMA SetupSendLogStep ==
  ASSUME LogInv, handle_setup_send
  PROVE  LogInv'
<1>. PICK m, c : m = msg[Leader] /\ c = m.cid
  OBVIOUS
<1>1. /\ Sends(Leader, "setup", c) /\ Returns(Leader)
      /\ UNCHANGED <<cpc, request_count, dst, log, applied, raftVars>>
  BY DEF handle_setup_send
<1>2. pc[Leader] = "setup" /\ m \in Messages
  BY <1>1, LogFacts, RoleFacts DEF Sends, TypeOK
<1>3. c \in Clients /\ c \in Nodes
  BY <1>2, RoleFacts, MessageFacts
<1>4. /\ net' \in Channels(Messages)
      /\ \A x, y \in Nodes : x # Leader \/ y # c => net'[x][y] = net[x][y]
  BY <1>1, <1>2, <1>3, LogFacts, RoleFacts, SendsFacts
<1>5. /\ pc'[Leader] = "poll"
      /\ \A q \in Replicas : q # Leader => pc'[q] = pc[q] /\ msg'[q] = msg[q]
      /\ pc' \in [Replicas -> LeaderPCs \cup FollowerPCs]
      /\ msg' \in [Replicas -> Messages \cup {NoMsg}]
  BY <1>1, LogFacts, RoleFacts DEF Returns, LeaderPCs
<1>6. TypeOK'
  <2>1. pc'[Leader] \in LeaderPCs /\ \A r \in Followers : pc'[r] \in FollowerPCs
    BY <1>5, LogFacts, RoleFacts DEF TypeOK, LeaderPCs
  <2>2. \A r \in Replicas : pc'[r] # "poll" => msg'[r] \in Messages
    BY <1>5, LogFacts DEF TypeOK
  <2>. QED  BY <1>1, <1>4, <1>5, <2>1, <2>2, LogFacts DEF TypeOK, ClientType, HistoryType, raftVars
<1>7. FollowersSame
  <2>1. \A r \in Followers : /\ net'[Leader][r] = net[Leader][r]
                             /\ net'[r][Leader] = net[r][Leader]
    BY <1>3, <1>4, RoleFacts
  <2>. QED  BY <1>1, <1>5, <2>1, FollowersIdle
<1>. QED  BY <1>1, <1>2, <1>5, <1>6, <1>7, IdleFrame

------------------------------------------------------------------------------
(* The round of the leader *)

(* A step of the leader that sends nothing to, and takes nothing from, the *)
(* replicas keeps what a follower has got and given.                       *)
LEMMA RoundFrame ==
  ASSUME LogInv, TypeOK', LeaderRound', LeaderList', Agreement', FollowersSame, log' = log,
         \A r \in Followers : (Unsent(r)' <=> Unsent(r)) /\ (Collected(r)' <=> Collected(r))
  PROVE  LogInv'
<1>1. ASSUME NEW r \in Followers
      PROVE  FollowerRound(r)' /\ FollowerCommits(r)' /\ FollowerList(r)'
  BY LogFacts, FollowerFrame DEF FollowersSame
<1>. QED  BY <1>1 DEF LogInv

(* What the leader makes of a request. *)
LEMMA RequestFacts ==
  ASSUME LogInv, NEW src \in Clients, handle_request(src)
  PROVE  LET m == Head(net[src][Leader])
             L == Len(log)
             cmd == Command(m)
         IN  /\ m \in Messages /\ cmd \in Commands /\ pc[Leader] = "poll"
             /\ net' \in Channels(Messages)
             /\ \A x, y \in Nodes : x # src \/ y # Leader => net'[x][y] = net[x][y]
             /\ last_log_index' = [last_log_index EXCEPT ![Leader] = L + 1]
             /\ queue' = [queue EXCEPT ![Leader] = @ \cup {Entry(L + 1, cmd)}]
             /\ Enters(Leader, "append", RaftMessage("APP", m, L, L))
             /\ log' = Append(log, cmd) /\ dst' = 1
             /\ UNCHANGED <<cpc, request_count, applied, commit_index, match_index>>
<1>. PICK m, L : m = Head(net[src][Leader]) /\ L = Len(log)
  OBVIOUS
<1>1. /\ Takes(Leader, src, "REQ")
      /\ LET i == last_log_index[Leader] + 1
         IN  /\ last_log_index' = [last_log_index EXCEPT ![Leader] = i]
             /\ queue' = [queue EXCEPT ![Leader] = @ \cup {Entry(i, Command(m))}]
             /\ Enters(Leader, "append", RaftMessage("APP", m, i - 1, commit_index[Leader]))
             /\ log' = Append(log, Command(m))
      /\ dst' = 1
      /\ UNCHANGED <<cpc, request_count, applied, commit_index, match_index>>
  BY DEF handle_request
<1>2. /\ net' \in Channels(Messages) /\ pc[Leader] = "poll" /\ m \in Messages
      /\ \A x, y \in Nodes : x # src \/ y # Leader => net'[x][y] = net[x][y]
  <2>1. net \in Channels(Messages) /\ Leader \in Replicas /\ src \in Nodes
    BY LogFacts, RoleFacts
  <2>. QED  BY <1>1, <2>1, TakesFacts
<1>3. last_log_index[Leader] = L /\ commit_index[Leader] = L /\ L \in Nat
  BY <1>2, LogFacts, IdleFacts DEF LeaderRound
<1>4. (L + 1) - 1 = L
  BY <1>3
<1>5. Command(m) \in Commands
  BY <1>2, MessageFacts
<1>. QED  BY <1>1, <1>2, <1>3, <1>4, <1>5

(* The leader takes up a request: the log gets its next entry. *)
LEMMA RequestStep ==
  ASSUME LogInv, NEW src \in Clients, handle_request(src)
  PROVE  LogInv'
<1>. PICK m, L, cmd : m = Head(net[src][Leader]) /\ L = Len(log) /\ cmd = Command(m)
  OBVIOUS
<1>. PICK a : a = RaftMessage("APP", m, L, L)
  OBVIOUS
<1>1. /\ m \in Messages /\ cmd \in Commands /\ pc[Leader] = "poll"
      /\ net' \in Channels(Messages)
      /\ \A x, y \in Nodes : x # src \/ y # Leader => net'[x][y] = net[x][y]
      /\ last_log_index' = [last_log_index EXCEPT ![Leader] = L + 1]
      /\ queue' = [queue EXCEPT ![Leader] = @ \cup {Entry(L + 1, cmd)}]
      /\ Enters(Leader, "append", a)
      /\ log' = Append(log, cmd) /\ dst' = 1
      /\ UNCHANGED <<cpc, request_count, applied, commit_index, match_index>>
  BY RequestFacts
<1>2. /\ last_applied(Leader) = L /\ commit_index[Leader] = L /\ L \in Nat
      /\ ~Unanswered /\ Counts = N
      /\ \A r \in Followers :
           /\ last_log_index[r] = L /\ match_index[r] = L /\ Quiet(r)
  BY <1>1, LogFacts, IdleFacts
<1>3. /\ Len(log') = L + 1 /\ log'[L + 1] = cmd /\ L + 1 > 0 /\ (L + 1) - 1 = L
      /\ \A i \in 1 .. L : log'[i] = log[i]
  BY <1>1, <1>2, LogFacts, LogAppend
<1>4. /\ a \in Appends /\ a.index = L /\ a.idx = L /\ Command(a) = cmd /\ a \in Messages
  <2>1. LET b == RaftMessage("APP", m, L, L)
        IN  b \in Appends /\ b.index = L /\ b.idx = L /\ Command(b) = cmd
    BY <1>1, <1>2, MessageFacts
  <2>. QED  BY <2>1, RaftMessages
<1>5. /\ pc'[Leader] = "append" /\ msg'[Leader] = a
      /\ queue'[Leader] = queue[Leader] \cup {Entry(L + 1, cmd)}
      /\ last_log_index'[Leader] = L + 1
      /\ pc' \in [Replicas -> LeaderPCs \cup FollowerPCs]
      /\ msg' \in [Replicas -> Messages \cup {NoMsg}]
  BY <1>1, <1>4, LogFacts, RoleFacts DEF Enters, LeaderPCs
<1>6. /\ Entry(L + 1, cmd) \in Entries
      /\ Entry(L + 1, cmd).index = L + 1 /\ Entry(L + 1, cmd).cmd = cmd
      /\ Entry(L + 1, cmd).exec_count = 0
  BY <1>1, <1>2, EntryFacts
<1>7. \A r \in Followers : /\ pc'[r] = pc[r] /\ msg'[r] = msg[r] /\ queue'[r] = queue[r]
                           /\ last_log_index'[r] = last_log_index[r]
                           /\ net'[Leader][r] = net[Leader][r]
                           /\ net'[r][Leader] = net[r][Leader]
  BY <1>1, LogFacts, RoleFacts DEF Enters
<1>8. TypeOK'
  <2>1. ClientType' /\ HistoryType'
    <3>1. Append(log, cmd) \in Seq(Commands)
      BY <1>1, LogFacts, AppendProperties
    <3>. QED  BY <1>1, <3>1, LogFacts DEF ClientType, HistoryType
  <2>2. /\ queue' \in [Replicas -> SUBSET Entries]
        /\ last_log_index' \in [Replicas -> Nat] /\ commit_index' \in [Replicas -> Nat]
        /\ match_index' \in [Replicas -> Nat] /\ dst' \in Replicas
    BY <1>1, <1>2, <1>6, LogFacts, RoleFacts
  <2>3. pc'[Leader] \in LeaderPCs /\ \A r \in Followers : pc'[r] \in FollowerPCs
    BY <1>5, <1>7, LogFacts DEF TypeOK, LeaderPCs
  <2>4. \A r \in Replicas : pc'[r] # "poll" => msg'[r] \in Messages
    BY <1>4, <1>5, <1>7, LogFacts, RoleFacts DEF TypeOK
  <2>. QED  BY <1>1, <1>5, <2>1, <2>2, <2>3, <2>4 DEF TypeOK
<1>9. Agreement'
  BY <1>1, LogFacts, AgreementOrdered
<1>10. last_applied(Leader)' = L /\ InRound' /\ Unanswered' /\ ~Decided'
  BY <1>1, <1>2, <1>3, <1>5 DEF last_applied, InRound, Unanswered, Decided
<1>11. LeaderRound'
  <2>1. match_index'[Leader] = 0 /\ dst' \in Followers /\ commit_index'[Leader] = L
    BY <1>1, <1>2, LogFacts, RoleFacts DEF LeaderRound
  <2>. QED  BY <1>2, <1>3, <1>4, <1>5, <1>10, <2>1 DEF LeaderRound
<1>12. LeaderList'
  <2>1. queue_contains(queue'[Leader], L + 1)
    BY <1>5, <1>6 DEF queue_contains
  <2>2. Counts' = 0
    BY <1>5 DEF Counts
  <2>3. ASSUME NEW e \in queue'[Leader]
        PROVE  /\ e.index <= L + 1 /\ OfLog(e)'
               /\ e.index = L + 1 /\ e.index > 0 => e.exec_count = 0
               /\ e.index < L + 1 /\ e.index > 0 => /\ e.exec_count = N
                                                    /\ L + 1 <= e.index + 2
    <3>1. CASE e = Entry(L + 1, cmd)
      BY <1>2, <1>3, <1>6, <3>1 DEF OfLog
    <3>2. CASE e \in queue[Leader]
      <4>1. e \in Entries
        BY <3>2, LogFacts, RoleFacts
      <4>2. e.index \in Nat
        BY <4>1 DEF Entries
      <4>3. /\ e.index <= L /\ OfLog(e)
            /\ e.index > 0 => e.exec_count = N /\ L <= e.index + 1
        BY <1>2, <3>2, <4>2, LogFacts DEF LeaderList
      <4>4. OfLog(e)'
        BY <1>2, <1>3, <4>2, <4>3 DEF OfLog
      <4>. QED  BY <1>2, <4>2, <4>3, <4>4
    <3>. QED  BY <1>5, <3>1, <3>2
  <2>. QED  BY <1>3, <1>10, <2>1, <2>2, <2>3 DEF LeaderList
<1>13. ASSUME NEW r \in Followers
       PROVE  FollowerRound(r)' /\ FollowerCommits(r)' /\ FollowerList(r)'
  <2>1. Unsent(r)' /\ ~Collected(r)'
    BY <1>1, <1>5, <1>10, RoleFacts DEF Unsent, Collected
  <2>2. FollowerRound(r)'
    BY <1>1, <1>2, <1>3, <1>7, <2>1 DEF FollowerRound, Quiet
  <2>3. FollowerCommits(r)'
    BY <1>1, <1>7, LogFacts, FollowerCommitsFrame DEF FollowerKeeps
  <2>4. FollowerList(r)'
    <3>1. ASSUME NEW e \in queue[r]
          PROVE  OfLog(e)'
      <4>1. e \in Entries
        BY LogFacts, RoleFacts
      <4>2. e.index \in Nat
        BY <4>1 DEF Entries
      <4>3. OfLog(e)
        BY LogFacts DEF FollowerList
      <4>. QED  BY <1>2, <1>3, <4>2, <4>3 DEF OfLog
    <3>2. FollowerList(r) /\ last_applied(r)' = last_applied(r)
      BY <1>1, LogFacts DEF last_applied
    <3>. QED  BY <1>7, <3>1, <3>2 DEF FollowerList
  <2>. QED  BY <2>2, <2>3, <2>4
<1>. QED  BY <1>8, <1>9, <1>11, <1>12, <1>13 DEF LogInv

(* The leader sends the entry to one follower. *)
LEMMA RequestSendStep ==
  ASSUME LogInv, handle_request_send
  PROVE  /\ LogInv'
         /\ pc[Leader] = "append" /\ dst \in Followers
         /\ UNCHANGED <<cpc, request_count, msg, log, applied>>
         /\ pc'[Leader] \in {"append", "collect"}
         /\ \A x, y \in Nodes : x # Leader \/ y # dst => net'[x][y] = net[x][y]
<1>. PICK m, f, L : m = msg[Leader] /\ f = dst /\ L = Len(log)
  OBVIOUS
<1>1. /\ Sends(Leader, "append", f)
      /\ IF f = N - 1 THEN dst' = 1 /\ pc' = [pc EXCEPT ![Leader] = "collect"]
                      ELSE dst' = f + 1 /\ UNCHANGED pc
      /\ UNCHANGED <<cpc, request_count, msg, log, applied,
                     queue, last_log_index, commit_index, match_index>>
  BY DEF handle_request_send, raftVars
<1>2. pc[Leader] = "append"
  BY <1>1 DEF Sends
<1>3. /\ InRound /\ f \in Followers /\ m \in Appends /\ m \in Messages
      /\ m.index = L - 1 /\ m.idx = L - 1 /\ Command(m) = log[L] /\ L > 0 /\ L \in Nat
  BY <1>2, LogFacts, RaftMessages DEF InRound, LeaderRound
<1>4. f \in Nodes /\ f \in Replicas /\ f \in Nat /\ 1 <= f /\ f <= N - 1 /\ N \in Nat
  BY <1>3, RoleFacts
<1>5. /\ net' \in Channels(Messages)
      /\ net'[Leader][f] = Append(net[Leader][f], m)
      /\ \A x, y \in Nodes : x # Leader \/ y # f => net'[x][y] = net[x][y]
  <2>1. net \in Channels(Messages) /\ Leader \in Replicas /\ msg[Leader] \in Messages
    BY <1>3, LogFacts, RoleFacts
  <2>. QED  BY <1>1, <1>4, <2>1, SendsFacts
<1>6. /\ pc'[Leader] = IF f = N - 1 THEN "collect" ELSE "append"
      /\ pc' \in [Replicas -> LeaderPCs \cup FollowerPCs]
      /\ \A r \in Followers : pc'[r] = pc[r]
  BY <1>1, <1>2, LogFacts, RoleFacts DEF LeaderPCs
<1>7. dst' \in Followers /\ dst' = IF f = N - 1 THEN 1 ELSE f + 1
  BY <1>1, <1>4, RoleFacts
<1>8. TypeOK'
  <2>1. pc'[Leader] \in LeaderPCs /\ \A r \in Followers : pc'[r] \in FollowerPCs
    BY <1>6, LogFacts DEF TypeOK, LeaderPCs
  <2>2. \A r \in Replicas : pc'[r] # "poll" => msg'[r] \in Messages
    BY <1>1, <1>3, <1>6, LogFacts, RoleFacts DEF TypeOK
  <2>3. dst' \in Replicas
    BY <1>7, RoleFacts
  <2>. QED  BY <1>1, <1>5, <1>6, <2>1, <2>2, <2>3, LogFacts DEF TypeOK, ClientType, HistoryType
<1>9. Agreement'
  BY <1>1, LogFacts DEF Agreement
<1>10. /\ last_applied(Leader)' = last_applied(Leader) /\ InRound'
       /\ ~Decided /\ ~Decided' /\ (Unanswered' <=> Unanswered)
  <2>1. dst' = 1 \/ pc'[Leader] = "append"
    BY <1>6, <1>7
  <2>2. ~(Needed < 1) /\ pc'[Leader] # "apply" /\ pc'[Leader] # "respond"
    BY <1>6, NeededFacts
  <2>. QED  BY <1>1, <1>2, <1>6, <2>1, <2>2 DEF last_applied, InRound, Decided, Unanswered
<1>11. last_applied(Leader) = commit_index[Leader] /\ commit_index[Leader] = L - 1 /\ Unanswered
  BY <1>2, <1>3, <1>10, LogFacts DEF LeaderRound, Unanswered
<1>12. LeaderRound'
  BY <1>1, <1>2, <1>3, <1>6, <1>7, <1>10, LogFacts DEF LeaderRound
<1>13. LeaderList'
  <2>1. Counts = 0
    BY <1>2 DEF Counts
  <2>2. Counts' = 0
    <3>1. CASE f = N - 1
      BY <1>6, <1>7, <1>10, <1>11, <3>1 DEF Counts
    <3>2. CASE f # N - 1
      BY <1>6, <3>2 DEF Counts
    <3>. QED  BY <3>1, <3>2
  <2>. QED  BY <1>1, <1>10, <2>1, <2>2, LogFacts DEF LeaderList, OfLog
<1>14. ASSUME NEW r \in Followers
       PROVE  FollowerRound(r)' /\ FollowerCommits(r)' /\ FollowerList(r)'
  <2>1. r \in Nodes /\ r \in Nat /\ 1 <= r /\ r <= N - 1 /\ r # Leader /\ Leader \in Nodes
    BY RoleFacts
  <2>2. Unsent(r) <=> f <= r
    BY <1>2 DEF Unsent
  <2>3. Unsent(r)' <=> f < r
    BY <1>4, <1>6, <1>7, <2>1 DEF Unsent
  <2>4. ~Collected(r) /\ ~Collected(r)'
    BY <1>2, <1>3, <1>4, <1>6, <1>7, <1>10, <2>1 DEF Collected
  <2>5. /\ FollowerKeeps(r) /\ match_index'[r] = match_index[r] /\ pc'[r] = pc[r]
        /\ msg'[r] = msg[r] /\ net'[r][Leader] = net[r][Leader]
    BY <1>1, <1>5, <1>6, <2>1 DEF FollowerKeeps
  <2>6. FollowerCommits(r)' /\ FollowerList(r)'
    BY <1>1, <2>5, LogFacts, FollowerListFrame, FollowerCommitsFrame
  <2>7. CASE r = f
    <3>1. /\ last_log_index[r] = L - 1 /\ Quiet(r) /\ match_index[r] = L - 1
      BY <1>4, <2>2, <2>7, LogFacts DEF FollowerRound
    <3>2. net'[Leader][r] = <<m>>
      BY <1>5, <2>7, <3>1, SingleMessage DEF Quiet
    <3>3. Len(net'[Leader][r]) = 1 /\ net'[Leader][r][1] = m
      BY <3>2, SingleMessage
    <3>4. Requested(r)'
      BY <1>1, <1>3, <2>5, <3>1, <3>3 DEF Requested, Quiet, IsAppend, FollowerKeeps
    <3>. QED  BY <1>1, <1>4, <2>3, <2>4, <2>5, <2>6, <2>7, <3>1, <3>4 DEF FollowerRound
  <2>8. CASE r # f
    <3>1. FollowerSame(r)
      BY <1>5, <2>1, <2>5, <2>8 DEF FollowerSame
    <3>2. (Unsent(r)' <=> Unsent(r)) /\ (Collected(r)' <=> Collected(r))
      BY <1>4, <2>1, <2>2, <2>3, <2>4, <2>8
    <3>. QED  BY <1>1, <3>1, <3>2, LogFacts, FollowerFrame
  <2>. QED  BY <2>7, <2>8
<1>. QED  BY <1>1, <1>2, <1>3, <1>5, <1>6, <1>8, <1>9, <1>12, <1>13, <1>14 DEF LogInv

(* Where the response of follower r is when the leader waits for it. *)
LEMMA ResponseFacts ==
  ASSUME LogInv, handle_append_response
  PROVE  LET r == dst
             L == Len(log)
             m == Head(net[dst][Leader])
         IN  /\ pc[Leader] = "collect" /\ r \in Followers /\ L > 0
             /\ Replied(r) /\ ~Unsent(r) /\ ~Collected(r)
             /\ IsReply(m, r) /\ m \in Messages
             /\ net' \in Channels(Messages) /\ net'[r][Leader] = << >>
             /\ \A x, y \in Nodes : x # r \/ y # Leader => net'[x][y] = net[x][y]
             /\ match_index' = [match_index EXCEPT ![r] = L]
             /\ queue' = [queue EXCEPT ![Leader] = Counted(@, L)]
             /\ commit_index' = [commit_index EXCEPT
                  ![Leader] = update_commit_index_leader(match_index', @)]
             /\ Enters(Leader, "apply", m)
             /\ UNCHANGED <<cpc, request_count, dst, log, applied, last_log_index>>
<1>. PICK r, L, m : r = dst /\ L = Len(log) /\ m = Head(net[dst][Leader])
  OBVIOUS
<1>1. /\ pc[Leader] = "collect" /\ net[r][Leader] # << >>
      /\ net' = Received(net, r, Leader)
      /\ match_index' = [match_index EXCEPT ![m.idx] = m.index]
      /\ queue' = [queue EXCEPT ![Leader] = Counted(@, m.index)]
      /\ commit_index' = [commit_index EXCEPT
           ![Leader] = update_commit_index_leader(match_index', @)]
      /\ Enters(Leader, "apply", m)
      /\ UNCHANGED <<cpc, request_count, dst, log, applied, last_log_index>>
  BY DEF handle_append_response, CanRecv
<1>2. InRound /\ r \in Followers /\ L > 0 /\ r \in Nat
  BY <1>1, LogFacts, RoleFacts DEF InRound, LeaderRound
<1>3. ~Unsent(r) /\ ~Collected(r)
  BY <1>1, <1>2 DEF Unsent, Collected
<1>4. Replied(r)
  BY <1>1, <1>2, <1>3, LogFacts DEF FollowerRound, Requested, Replying
<1>5. /\ Len(net[r][Leader]) = 1 /\ IsReply(net[r][Leader][1], r)
      /\ net \in Channels(Messages) /\ r \in Nodes /\ Leader \in Nodes
      /\ net[r][Leader] \in Seq(Messages)
  BY <1>2, <1>4, LogFacts, RoleFacts DEF Replied
<1>6. m = net[r][Leader][1] /\ Tail(net[r][Leader]) = << >>
  BY <1>5, OneInChannel
<1>7. IsReply(m, r) /\ m \in Messages /\ m.idx = r /\ m.index = L
  BY <1>5, <1>6, RaftMessages DEF IsReply
<1>8. /\ net' \in Channels(Messages) /\ net'[r][Leader] = << >>
      /\ \A x, y \in Nodes : x # r \/ y # Leader => net'[x][y] = net[x][y]
  <2>. PICK n : n = net
    OBVIOUS
  <2>1. n \in Channels(Messages) /\ n[r][Leader] # << >> /\ net' = Received(n, r, Leader)
    BY <1>1, <1>5
  <2>2. /\ Received(n, r, Leader) \in Channels(Messages)
        /\ \A x, y \in Nodes : Received(n, r, Leader)[x][y] =
             IF x = r /\ y = Leader THEN Tail(n[r][Leader]) ELSE n[x][y]
    BY <1>5, <2>1, ReceivedFacts
  <2>. QED  BY <1>5, <1>6, <2>1, <2>2
<1>. QED  BY <1>1, <1>2, <1>3, <1>4, <1>7, <1>8

(* The leader takes the response of follower dst, and counts it. *)
LEMMA ResponseStep ==
  ASSUME LogInv, handle_append_response
  PROVE  LogInv'
<1>. PICK r, L, m : r = dst /\ L = Len(log) /\ m = Head(net[dst][Leader])
  OBVIOUS
<1>1. /\ pc[Leader] = "collect" /\ r \in Followers /\ L > 0
      /\ Replied(r) /\ ~Unsent(r) /\ ~Collected(r)
      /\ IsReply(m, r) /\ m \in Messages
      /\ net' \in Channels(Messages) /\ net'[r][Leader] = << >>
      /\ \A x, y \in Nodes : x # r \/ y # Leader => net'[x][y] = net[x][y]
      /\ match_index' = [match_index EXCEPT ![r] = L]
      /\ queue' = [queue EXCEPT ![Leader] = Counted(@, L)]
      /\ commit_index' = [commit_index EXCEPT
           ![Leader] = update_commit_index_leader(match_index', @)]
      /\ Enters(Leader, "apply", m)
      /\ UNCHANGED <<cpc, request_count, dst, log, applied, last_log_index>>
  BY ResponseFacts
<1>2. /\ r \in Replicas /\ r \in Nodes /\ r \in Nat /\ r # Leader /\ 1 <= r /\ r <= N - 1
      /\ L \in Nat /\ InRound /\ r = dst
      /\ last_applied(Leader) \in Nat /\ commit_index[Leader] \in Nat
  BY <1>1, LogFacts, RoleFacts DEF InRound
<1>3. /\ pc'[Leader] = "apply" /\ msg'[Leader] = m
      /\ \A q \in Followers : pc'[q] = pc[q] /\ msg'[q] = msg[q]
      /\ pc' \in [Replicas -> LeaderPCs \cup FollowerPCs]
      /\ msg' \in [Replicas -> Messages \cup {NoMsg}]
  BY <1>1, LogFacts, RoleFacts DEF Enters, LeaderPCs
<1>4. /\ Decided <=> Needed < r
      /\ Decided' <=> Needed <= r
      /\ InRound' /\ last_applied(Leader)' = last_applied(Leader)
      /\ Needed \in Nat
  BY <1>1, <1>2, <1>3, NeededFacts DEF InRound, Decided, last_applied
<1>5. /\ last_applied(Leader) = commit_index[Leader]
      /\ commit_index[Leader] = IF Needed < r THEN L ELSE L - 1
      /\ match_index[Leader] = 0 /\ last_log_index[Leader] = L
  BY <1>1, <1>4, LogFacts DEF LeaderRound
<1>6. /\ match_index' \in [Replicas -> Nat] /\ match_index'[Leader] = 0
      /\ \A j \in Followers : j # r => match_index'[j] = match_index[j]
      /\ match_index'[r] = L
  BY <1>1, <1>2, <1>5, LogFacts, RoleFacts
<1>7. \A j \in Followers : match_index'[j] = IF j <= r THEN L ELSE L - 1
  <2>1. ASSUME NEW j \in Followers, j # r
        PROVE  match_index[j] = IF j <= r THEN L ELSE L - 1
    <3>1. j \in Nat /\ ~Unsent(j) /\ (Collected(j) <=> j < r)
      BY <1>1, <1>2, RoleFacts DEF Unsent, Collected
    <3>2. CASE j < r
      BY <1>2, <3>1, <3>2, LogFacts DEF FollowerRound
    <3>3. CASE ~(j < r)
      BY <1>2, <2>1, <3>1, <3>3, LogFacts DEF FollowerRound
    <3>. QED  BY <3>2, <3>3
  <2>. QED  BY <1>2, <1>6, <2>1
<1>8. update_commit_index_leader(match_index', commit_index[Leader]) =
        IF Needed <= r THEN L ELSE L - 1
  <2>. PICK match, commit : match = match_index' /\ commit = commit_index[Leader]
    OBVIOUS
  <2>1. L >= 1 /\ commit \in {L - 1, L} /\ (commit = L => Needed <= r)
    BY <1>1, <1>2, <1>4, <1>5
  <2>. QED  BY <1>2, <1>6, <1>7, <2>1, CommitIndex
<1>9. /\ commit_index'[Leader] = IF Needed <= r THEN L ELSE L - 1
      /\ commit_index' \in [Replicas -> Nat]
      /\ \A q \in Followers : commit_index'[q] = commit_index[q]
  <2>. PICK v : v = IF Needed <= r THEN L ELSE L - 1
    OBVIOUS
  <2>1. v \in Nat
    BY <1>1, <1>2
  <2>2. commit_index' = [commit_index EXCEPT ![Leader] = v]
    BY <1>1, <1>8
  <2>3. /\ commit_index \in [Replicas -> Nat] /\ Leader \in Replicas
        /\ \A q \in Followers : q \in Replicas /\ q # Leader
    BY LogFacts, RoleFacts
  <2>4. /\ commit_index' \in [Replicas -> Nat] /\ commit_index'[Leader] = v
        /\ \A q \in Replicas : q # Leader => commit_index'[q] = commit_index[q]
    BY ONLY <2>1, <2>2, <2>3, PointUpdate, Zenon
  <2>. QED  BY <2>3, <2>4, Zenon
<1>. PICK q0 : q0 = queue[Leader]
  OBVIOUS
<1>10. q0 \in SUBSET Entries
  BY LogFacts, RoleFacts
<1>11. /\ queue'[Leader] = Counted(q0, L)
       /\ Counted(q0, L) \in SUBSET Entries
       /\ \A e \in Counted(q0, L) : \E f \in q0 :
            /\ e.index = f.index /\ e.cmd = f.cmd
            /\ e.exec_count = IF f.index = L THEN f.exec_count + 1 ELSE f.exec_count
       /\ queue_contains(q0, L) => queue_contains(Counted(q0, L), L)
       /\ \A q \in Followers : queue'[q] = queue[q]
       /\ queue' \in [Replicas -> SUBSET Entries]
  <2>1. /\ Counted(q0, L) \in SUBSET Entries
        /\ \A e \in Counted(q0, L) : \E f \in q0 :
             /\ e.index = f.index /\ e.cmd = f.cmd
             /\ e.exec_count = IF f.index = L THEN f.exec_count + 1 ELSE f.exec_count
        /\ \A j : queue_contains(q0, j) => queue_contains(Counted(q0, L), j)
    BY ONLY <1>10, CountedFacts, Zenon
  <2>. QED  BY <1>1, <2>1, LogFacts, RoleFacts
<1>12. TypeOK'
  <2>1. pc'[Leader] \in LeaderPCs /\ \A q \in Followers : pc'[q] \in FollowerPCs
    BY <1>3, LogFacts DEF TypeOK, LeaderPCs
  <2>2. \A q \in Replicas : pc'[q] # "poll" => msg'[q] \in Messages
    BY <1>1, <1>3, LogFacts, RoleFacts DEF TypeOK
  <2>. QED  BY <1>1, <1>3, <1>6, <1>9, <1>11, <2>1, <2>2, LogFacts DEF TypeOK, ClientType, HistoryType
<1>13. Agreement'
  BY <1>1, LogFacts DEF Agreement
<1>14. LeaderRound'
  <2>1. last_applied(Leader) <= commit_index'[Leader] /\ L <= last_applied(Leader) + 1
    BY <1>2, <1>4, <1>5, <1>9
  <2>2. Command(m) = log[L]
    BY <1>1 DEF IsReply
  <2>. QED  BY <1>1, <1>2, <1>3, <1>4, <1>5, <1>6, <1>9, <2>1, <2>2 DEF LeaderRound
<1>15. LeaderList'
  <2>1. Unanswered' <=> Unanswered
    BY <1>1, <1>3, <1>4 DEF Unanswered
  <2>2. Counts' = Counts + 1 /\ Counts \in Nat
    BY <1>1, <1>2, <1>3, <2>1 DEF Counts
  <2>3. queue_contains(queue'[Leader], L)
    BY <1>11, LogFacts DEF LeaderList
  <2>4. ASSUME NEW e \in queue'[Leader]
        PROVE  /\ e.index <= L /\ OfLog(e)'
               /\ e.index = L /\ e.index > 0 => e.exec_count = Counts + 1
               /\ e.index < L /\ e.index > 0 => /\ e.exec_count = N
                                                /\ L <= e.index + IF Unanswered THEN 2 ELSE 1
    <3>1. PICK f \in q0 : /\ e.index = f.index /\ e.cmd = f.cmd
                          /\ e.exec_count = IF f.index = L THEN f.exec_count + 1 ELSE f.exec_count
      BY <1>11
    <3>2. f \in Entries
      BY <1>10
    <3>3. f.index \in Nat
      BY <3>2 DEF Entries
    <3>4. /\ f.index <= L /\ OfLog(f)
          /\ f.index = L /\ f.index > 0 => f.exec_count = Counts
          /\ f.index < L /\ f.index > 0 => /\ f.exec_count = N
                                           /\ L <= f.index + IF Unanswered THEN 2 ELSE 1
      BY LogFacts DEF LeaderList
    <3>5. OfLog(e)'
      BY <1>1, <3>1, <3>4 DEF OfLog
    <3>. QED  BY <1>2, <3>1, <3>3, <3>4, <3>5
  <2>. QED  BY <1>1, <2>1, <2>2, <2>3, <2>4 DEF LeaderList
<1>16. ASSUME NEW q \in Followers
       PROVE  FollowerRound(q)' /\ FollowerCommits(q)' /\ FollowerList(q)'
  <2>1. q \in Nodes /\ q \in Nat /\ q # Leader /\ Leader \in Nodes /\ q \in Replicas
    BY RoleFacts
  <2>2. ~Unsent(q) /\ ~Unsent(q)' /\ (Collected(q)' <=> q <= r)
    <3>1. pc[Leader] = "collect" /\ pc'[Leader] = "apply" /\ dst' = r /\ InRound'
      BY <1>1, <1>2, <1>3, <1>4
    <3>2. ~Unsent(q) /\ ~Unsent(q)'
      BY ONLY <3>1 DEF Unsent
    <3>. QED  BY ONLY <3>1, <3>2 DEF Collected
  <2>3. /\ FollowerKeeps(q) /\ pc'[q] = pc[q]
        /\ msg'[q] = msg[q] /\ net'[Leader][q] = net[Leader][q]
    BY <1>1, <1>3, <1>9, <1>11, <2>1 DEF FollowerKeeps
  <2>4. FollowerCommits(q)' /\ FollowerList(q)'
    BY <1>1, <2>3, LogFacts, FollowerListFrame, FollowerCommitsFrame
  <2>5. CASE q = r
    <3>1. Collected(q)'
      BY <1>2, <2>2, <2>5
    <3>2. Quiet(q)' /\ last_log_index'[q] = L
      BY <1>1, <2>3, <2>5 DEF Quiet, Replied, FollowerKeeps
    <3>. QED  BY <1>1, <1>6, <2>2, <2>4, <2>5, <3>1, <3>2 DEF FollowerRound
  <2>6. CASE q # r
    <3>1. FollowerSame(q)
      BY <1>1, <1>6, <2>1, <2>3, <2>6 DEF FollowerSame
    <3>2. Collected(q) <=> q < r
      BY <1>1, <1>2 DEF Collected
    <3>3. Collected(q)' <=> Collected(q)
      BY <1>2, <2>1, <2>2, <2>6, <3>2
    <3>. QED  BY <1>1, <2>2, <3>1, <3>3, LogFacts, FollowerFrame
  <2>. QED  BY <2>5, <2>6
<1>. QED  BY <1>12, <1>13, <1>14, <1>15, <1>16 DEF LogInv

(* The leader executes the last entry, which it has in its list. *)
LEMMA LeaderApplyFacts ==
  ASSUME LogInv, update_applied_entries_leader
  PROVE  LET L == Len(log)
         IN  /\ L > 0 /\ L \in Nat /\ last_applied(Leader) = L - 1
             /\ commit_index[Leader] = L /\ Decided /\ pc[Leader] = "apply"
             /\ queue_contains(queue[Leader], L)
             /\ NextEntry(Leader).cmd = log[L] /\ log[L] \in Commands
<1>. PICK L, a : L = Len(log) /\ a = last_applied(Leader)
  OBVIOUS
<1>1. /\ pc[Leader] = "apply" /\ a < commit_index[Leader]
      /\ L \in Nat /\ a \in Nat
  BY LogFacts DEF update_applied_entries_leader
<1>2. InRound /\ L > 0 /\ L <= a + 1
  BY <1>1, LogFacts DEF InRound, LeaderRound
<1>3. commit_index[Leader] = IF Decided THEN L ELSE L - 1
  BY LogFacts DEF LeaderRound
<1>4. Decided /\ a = L - 1 /\ a + 1 = L
  <2>1. CASE Decided
    BY <1>1, <1>2, <1>3, <2>1
  <2>2. CASE ~Decided
    BY <1>1, <1>2, <1>3, <2>2
  <2>. QED  BY <2>1, <2>2
<1>5. queue_contains(queue[Leader], L)
  BY LogFacts DEF LeaderList
<1>6. Lookup(queue[Leader], L) \in queue[Leader] /\ Lookup(queue[Leader], L).index = L
  BY <1>5, LookupFacts
<1>7. Lookup(queue[Leader], L).cmd = log[L]
  BY <1>2, <1>6, LogFacts DEF LeaderList, OfLog
<1>8. log[L] \in Commands
  <2>1. L \in 1 .. Len(log)
    BY <1>1, <1>2
  <2>. QED  BY <2>1, LogFacts, Sizes
<1>. QED  BY <1>1, <1>2, <1>3, <1>4, <1>5, <1>7, <1>8 DEF NextEntry

(* So it executes what is next in the log. *)
LEMMA LeaderApplyStep ==
  ASSUME LogInv, update_applied_entries_leader
  PROVE  LogInv'
<1>. PICK L, cmd : L = Len(log) /\ cmd = log[L]
  OBVIOUS
<1>1. /\ applied' = [applied EXCEPT ![Leader] = Append(@, NextEntry(Leader).cmd)]
      /\ pc' = [pc EXCEPT ![Leader] = "respond"]
      /\ UNCHANGED <<net, cpc, request_count, msg, dst, log,
                     queue, last_log_index, commit_index, match_index>>
  BY DEF update_applied_entries_leader, clientVars, raftVars
<1>2. /\ L > 0 /\ L \in Nat /\ last_applied(Leader) = L - 1
      /\ commit_index[Leader] = L /\ Decided /\ pc[Leader] = "apply"
      /\ queue_contains(queue[Leader], L)
      /\ NextEntry(Leader).cmd = cmd /\ cmd \in Commands
  BY LeaderApplyFacts
<1>3. applied' = [applied EXCEPT ![Leader] = Append(@, cmd)]
  BY <1>1, <1>2
<1>4. /\ last_applied(Leader)' = L
      /\ \A q \in Followers : applied'[q] = applied[q]
  <2>1. /\ Len(applied'[Leader]) = Len(applied[Leader]) + 1
        /\ \A q \in Replicas : q # Leader => applied'[q] = applied[q]
    BY <1>2, <1>3, LogFacts, RoleFacts, AppliedAppend
  <2>2. last_applied(Leader)' = last_applied(Leader) + 1
    BY <2>1 DEF last_applied
  <2>. QED  BY <1>2, <2>1, <2>2, RoleFacts
<1>5. /\ pc'[Leader] = "respond" /\ \A q \in Followers : pc'[q] = pc[q]
      /\ pc' \in [Replicas -> LeaderPCs \cup FollowerPCs]
  BY <1>1, LogFacts, RoleFacts DEF LeaderPCs
<1>6. TypeOK'
  <2>1. applied' \in [Replicas -> Seq(Commands)]
    <3>1. Append(applied[Leader], cmd) \in Seq(Commands)
      BY <1>2, RoleFacts, LogFacts, Sizes, AppendProperties
    <3>. QED  BY <1>3, <3>1, LogFacts DEF HistoryType
  <2>2. pc'[Leader] \in LeaderPCs /\ \A q \in Followers : pc'[q] \in FollowerPCs
    BY <1>5, LogFacts DEF TypeOK, LeaderPCs
  <2>3. \A q \in Replicas : pc'[q] # "poll" => msg'[q] \in Messages
    BY <1>1, <1>2, <1>5, LogFacts, RoleFacts DEF TypeOK
  <2>. QED  BY <1>1, <1>5, <2>1, <2>2, <2>3, LogFacts DEF TypeOK, ClientType, HistoryType
<1>7. Agreement'
  <2>1. Len(applied[Leader]) < Len(log) /\ cmd = log[Len(applied[Leader]) + 1]
    BY <1>2 DEF last_applied
  <2>. QED  BY <1>1, <1>2, <1>3, <2>1, LogFacts, RoleFacts, AgreementApplied
<1>8. InRound /\ InRound' /\ Decided' /\ Unanswered /\ Unanswered'
  BY <1>1, <1>2, <1>5 DEF InRound, Decided, Needed, majority, Unanswered
<1>9. LeaderRound'
  BY <1>1, <1>2, <1>4, <1>5, <1>8, LogFacts DEF LeaderRound
<1>10. LeaderList'
  <2>1. Counts' = Counts
    BY <1>1, <1>2, <1>5, <1>8 DEF Counts
  <2>. QED  BY <1>1, <1>8, <2>1, LogFacts DEF LeaderList, OfLog
<1>11. FollowersSame
  BY <1>1, <1>4, <1>5 DEF FollowersSame, FollowerSame, FollowerKeeps
<1>12. \A r \in Followers : (Unsent(r)' <=> Unsent(r)) /\ (Collected(r)' <=> Collected(r))
  BY <1>1, <1>2, <1>5, <1>8 DEF Unsent, Collected
<1>. QED  BY <1>1, <1>6, <1>7, <1>9, <1>10, <1>11, <1>12, RoundFrame

(* The leader answers the client of the last entry. *)
LEMMA RespondFacts ==
  ASSUME LogInv, update_applied_entries_respond
  PROVE  LET L == Len(log)
             c == log[L][1]
         IN  /\ L > 0 /\ L \in Nat /\ last_applied(Leader) = L
             /\ commit_index[Leader] = L /\ Decided /\ pc[Leader] = "respond"
             /\ log[L] \in Commands /\ c \in Clients
             /\ msg[Leader] \in Messages /\ Command(msg[Leader]) = log[L]
             /\ net' \in Channels(Messages)
             /\ net'[Leader][c] = Append(net[Leader][c], msg[Leader])
             /\ \A x, y \in Nodes : x # Leader \/ y # c => net'[x][y] = net[x][y]
             /\ queue' = [queue EXCEPT ![Leader] = cleanup_queue(Counted(@, L), L)]
             /\ pc' = [pc EXCEPT ![Leader] = "apply"]
             /\ UNCHANGED <<cpc, request_count, msg, dst, log, applied, last_log_index,
                            commit_index, match_index>>
<1>. DEFINE L == Len(log)
            c == log[L][1]
            i == last_applied(Leader)
<1>1. /\ Sends(Leader, "respond", Lookup(queue[Leader], i).cmd[1])
      /\ queue' = [queue EXCEPT
           ![Leader] = cleanup_queue(Counted(@, i), commit_index[Leader])]
      /\ pc' = [pc EXCEPT ![Leader] = "apply"]
      /\ UNCHANGED <<cpc, request_count, msg, dst, log, applied, last_log_index,
                     commit_index, match_index>>
  BY DEF update_applied_entries_respond
<1>. L = Len(log) /\ c = log[L][1] /\ i = last_applied(Leader)
  OBVIOUS
<1>. HIDE DEF L, c, i
<1>2. pc[Leader] = "respond" /\ L \in Nat
  BY <1>1, LogFacts DEF Sends
<1>3. /\ InRound /\ L > 0 /\ Decided /\ commit_index[Leader] = L /\ i = L
      /\ Command(msg[Leader]) = log[L]
  BY <1>2, LogFacts DEF InRound, LeaderRound
<1>4. queue_contains(queue[Leader], L)
  BY LogFacts DEF LeaderList
<1>5. Lookup(queue[Leader], L) \in queue[Leader] /\ Lookup(queue[Leader], L).index = L
  BY <1>4, LookupFacts
<1>6. Lookup(queue[Leader], L).cmd = log[L]
  BY <1>3, <1>5, LogFacts DEF LeaderList, OfLog
<1>7. log[L] \in Commands
  <2>1. L \in 1 .. Len(log)
    BY <1>2, <1>3
  <2>. QED  BY <2>1, LogFacts, Sizes
<1>8. c \in Clients /\ c \in Nodes /\ msg[Leader] \in Messages
  BY <1>2, <1>7, LogFacts, RoleFacts DEF Commands, TypeOK
<1>9. Sends(Leader, "respond", c)
  BY <1>1, <1>3, <1>6
<1>10. /\ net' \in Channels(Messages)
       /\ net'[Leader][c] = Append(net[Leader][c], msg[Leader])
       /\ \A x, y \in Nodes : x # Leader \/ y # c => net'[x][y] = net[x][y]
  <2>1. net \in Channels(Messages) /\ Leader \in Replicas
    BY LogFacts, RoleFacts
  <2>2. c \in Nodes /\ msg[Leader] \in Messages /\ Sends(Leader, "respond", c)
    BY <1>8, <1>9
  <2>. QED  BY ONLY <2>1, <2>2, SendsFacts
<1>11. /\ L > 0 /\ L \in Nat /\ i = L /\ commit_index[Leader] = L
       /\ Decided /\ pc[Leader] = "respond" /\ Command(msg[Leader]) = log[L]
  BY <1>2, <1>3
<1>12. queue' = [queue EXCEPT ![Leader] = cleanup_queue(Counted(@, L), L)]
  BY <1>1, <1>11
<1>13. /\ last_applied(Leader) = L /\ L = Len(log) /\ c = log[L][1]
       /\ pc' = [pc EXCEPT ![Leader] = "apply"]
       /\ UNCHANGED <<cpc, request_count, msg, dst, log, applied, last_log_index,
                      commit_index, match_index>>
  BY <1>1, <1>11
<1>. QED  BY ONLY <1>7, <1>8, <1>10, <1>11, <1>12, <1>13, Zenon DEF L, c

(* It then counts the execution, and prunes its list. *)
LEMMA RespondStep ==
  ASSUME LogInv, update_applied_entries_respond
  PROVE  LogInv'
<1>. PICK L, c : L = Len(log) /\ c = log[L][1]
  OBVIOUS
<1>1. /\ L > 0 /\ L \in Nat /\ last_applied(Leader) = L
      /\ commit_index[Leader] = L /\ Decided /\ pc[Leader] = "respond"
      /\ log[L] \in Commands /\ c \in Clients
      /\ msg[Leader] \in Messages /\ Command(msg[Leader]) = log[L]
      /\ net' \in Channels(Messages)
      /\ \A x, y \in Nodes : x # Leader \/ y # c => net'[x][y] = net[x][y]
      /\ queue' = [queue EXCEPT ![Leader] = cleanup_queue(Counted(@, L), L)]
      /\ pc' = [pc EXCEPT ![Leader] = "apply"]
      /\ UNCHANGED <<cpc, request_count, msg, dst, log, applied, last_log_index,
                     commit_index, match_index>>
  BY RespondFacts
<1>2. /\ pc'[Leader] = "apply" /\ \A q \in Followers : pc'[q] = pc[q]
      /\ pc' \in [Replicas -> LeaderPCs \cup FollowerPCs]
  BY <1>1, LogFacts, RoleFacts DEF LeaderPCs
<1>. PICK q0 : q0 = queue[Leader]
  OBVIOUS
<1>3. q0 \in SUBSET Entries
  BY LogFacts, RoleFacts
<1>4. /\ Counted(q0, L) \in SUBSET Entries
      /\ \A e \in Counted(q0, L) : \E f \in q0 :
           /\ e.index = f.index /\ e.cmd = f.cmd
           /\ e.exec_count = IF f.index = L THEN f.exec_count + 1 ELSE f.exec_count
      /\ \A j : queue_contains(q0, j) => queue_contains(Counted(q0, L), j)
  BY ONLY <1>3, CountedFacts, Zenon
<1>5. /\ queue'[Leader] =
           {e \in Counted(q0, L) : ~(e.exec_count = N /\ e.index < L - 1)}
      /\ \A q \in Followers : queue'[q] = queue[q]
      /\ queue' \in [Replicas -> SUBSET Entries]
  <2>1. cleanup_queue(Counted(q0, L), L) =
          {e \in Counted(q0, L) : ~(e.exec_count = N /\ e.index < L - 1)}
    BY DEF cleanup_queue
  <2>2. cleanup_queue(Counted(q0, L), L) \in SUBSET Entries
    BY <1>4, <2>1
  <2>. QED  BY <1>1, <2>1, <2>2, LogFacts, RoleFacts
<1>6. TypeOK'
  <2>1. pc'[Leader] \in LeaderPCs /\ \A q \in Followers : pc'[q] \in FollowerPCs
    BY <1>2, LogFacts DEF TypeOK, LeaderPCs
  <2>2. \A q \in Replicas : pc'[q] # "poll" => msg'[q] \in Messages
    BY <1>1, <1>2, LogFacts, RoleFacts DEF TypeOK
  <2>. QED  BY <1>1, <1>2, <1>5, <2>1, <2>2, LogFacts DEF TypeOK, ClientType, HistoryType
<1>7. Agreement'
  BY <1>1, LogFacts DEF Agreement
<1>8. InRound /\ InRound' /\ Decided' /\ last_applied(Leader)' = L
  BY <1>1, <1>2 DEF InRound, Decided, Needed, majority, last_applied
<1>9. Unanswered /\ ~Unanswered'
  BY <1>1, <1>2, <1>8 DEF Unanswered
<1>10. LeaderRound'
  BY <1>1, <1>2, <1>8, LogFacts DEF LeaderRound
<1>11. LeaderList'
  <2>1. dst \in Nat /\ N \in Nat /\ Counts = dst /\ Counts' = dst + 1
    BY <1>1, <1>2, <1>9, LogFacts, RoleFacts DEF Counts
  <2>2. queue_contains(queue'[Leader], L)
    <3>1. PICK e \in Counted(q0, L) : e.index = L
      BY <1>4, LogFacts DEF LeaderList, queue_contains
    <3>2. ~(L < L - 1)
      BY <1>1
    <3>3. e \in queue'[Leader]
      BY <1>5, <3>1, <3>2
    <3>. QED  BY <3>1, <3>3 DEF queue_contains
  <2>3. ASSUME NEW e \in queue'[Leader]
        PROVE  /\ e.index <= L /\ OfLog(e)'
               /\ e.index = L /\ e.index > 0 => e.exec_count = dst + 1
               /\ e.index < L /\ e.index > 0 => e.exec_count = N /\ L <= e.index + 1
    <3>1. e \in Counted(q0, L) /\ ~(e.exec_count = N /\ e.index < L - 1)
      BY <1>5
    <3>2. PICK f \in q0 : /\ e.index = f.index /\ e.cmd = f.cmd
                          /\ e.exec_count = IF f.index = L THEN f.exec_count + 1 ELSE f.exec_count
      BY <1>4, <3>1
    <3>3. f \in Entries
      BY <1>3
    <3>4. f.index \in Nat
      BY <3>3 DEF Entries
    <3>5. /\ f.index <= L /\ OfLog(f)
          /\ f.index = L /\ f.index > 0 => f.exec_count = dst
          /\ f.index < L /\ f.index > 0 => f.exec_count = N
      BY <2>1, LogFacts DEF LeaderList
    <3>6. OfLog(e)'
      BY <1>1, <3>2, <3>5 DEF OfLog
    <3>7. e.index < L /\ e.index > 0 => e.exec_count = N /\ L <= e.index + 1
      BY <1>1, <3>1, <3>2, <3>4, <3>5
    <3>. QED  BY <1>1, <3>2, <3>4, <3>5, <3>6, <3>7
  <2>. QED  BY <1>1, <1>9, <2>1, <2>2, <2>3 DEF LeaderList
<1>12. FollowersSame
  <2>1. \A r \in Followers : net'[Leader][r] = net[Leader][r] /\ net'[r][Leader] = net[r][Leader]
    BY <1>1, RoleFacts
  <2>. QED  BY <1>1, <1>2, <1>5, <2>1 DEF FollowersSame, FollowerSame, FollowerKeeps
<1>13. \A r \in Followers : (Unsent(r)' <=> Unsent(r)) /\ (Collected(r)' <=> Collected(r))
  BY <1>1, <1>2, <1>8 DEF Unsent, Collected
<1>. QED  BY <1>1, <1>6, <1>7, <1>10, <1>11, <1>12, <1>13, RoundFrame

(* The leader goes on to the next follower, or back to its polling loop. *)
LEMMA ReturnStep ==
  ASSUME LogInv, handle_append_response_return
  PROVE  LogInv' /\ (pc'[Leader] = "poll" => ~Unanswered)
<1>. PICK L, f : L = Len(log) /\ f = dst
  OBVIOUS
<1>1. /\ pc[Leader] = "apply" /\ last_applied(Leader) = commit_index[Leader]
      /\ IF f = N - 1
         THEN dst' = Leader /\ Returns(Leader)
         ELSE dst' = f + 1 /\ pc' = [pc EXCEPT ![Leader] = "collect"] /\ UNCHANGED msg
      /\ UNCHANGED <<net, cpc, request_count, log, applied,
                     queue, last_log_index, commit_index, match_index>>
  BY DEF handle_append_response_return, clientVars, raftVars
<1>2. InRound /\ f \in Followers /\ L > 0 /\ L \in Nat /\ last_applied(Leader) \in Nat
  BY <1>1, LogFacts DEF InRound, LeaderRound
<1>3. f \in Nat /\ 1 <= f /\ f <= N - 1 /\ N \in Nat /\ Needed \in Nat
  BY <1>2, RoleFacts, NeededFacts
<1>4. /\ pc'[Leader] = IF f = N - 1 THEN "poll" ELSE "collect"
      /\ \A q \in Replicas : q # Leader => pc'[q] = pc[q] /\ msg'[q] = msg[q]
      /\ msg'[Leader] = IF f = N - 1 THEN NoMsg ELSE msg[Leader]
      /\ pc' \in [Replicas -> LeaderPCs \cup FollowerPCs]
      /\ msg' \in [Replicas -> Messages \cup {NoMsg}]
  BY <1>1, LogFacts, RoleFacts DEF Returns, LeaderPCs
<1>5. dst' = IF f = N - 1 THEN Leader ELSE f + 1
  BY <1>1
<1>6. TypeOK'
  <2>1. pc'[Leader] \in LeaderPCs /\ \A q \in Followers : pc'[q] \in FollowerPCs
    BY <1>4, LogFacts, RoleFacts DEF TypeOK, LeaderPCs
  <2>2. \A q \in Replicas : pc'[q] # "poll" => msg'[q] \in Messages
    BY <1>1, <1>4, LogFacts, RoleFacts DEF TypeOK
  <2>3. dst' \in Replicas
    BY <1>3, <1>5, RoleFacts
  <2>. QED  BY <1>1, <1>4, <2>1, <2>2, <2>3, LogFacts DEF TypeOK, ClientType, HistoryType
<1>7. Agreement'
  BY <1>1, LogFacts DEF Agreement
<1>8. FollowersSame
  <2>1. \A q \in Followers : pc'[q] = pc[q] /\ msg'[q] = msg[q]
    BY <1>4, RoleFacts
  <2>. QED  BY <1>1, <2>1 DEF FollowersSame, FollowerSame, FollowerKeeps
<1>9. last_applied(Leader)' = last_applied(Leader)
  BY <1>1 DEF last_applied
<1>10. Unanswered' <=> Unanswered
  BY <1>1, <1>4, <1>9 DEF Unanswered
<1>11. CASE f = N - 1
  <2>1. pc'[Leader] = "poll" /\ ~InRound'
    BY <1>4, <1>11 DEF InRound
  <2>2. Decided /\ Decided'
    BY <1>1, <1>3, <1>11, <2>1, NeededFacts DEF Decided
  <2>3. commit_index[Leader] = L /\ ~Unanswered
    BY <1>1, <1>2, <2>2, LogFacts DEF LeaderRound, Unanswered
  <2>4. LeaderRound'
    BY <1>1, <1>2, <1>9, <2>1, <2>2, <2>3, LogFacts DEF LeaderRound
  <2>5. LeaderList'
    <3>1. Counts = N /\ Counts' = N
      BY <1>1, <1>3, <1>11, <2>1, <2>3 DEF Counts
    <3>. QED  BY <1>1, <1>10, <3>1, LogFacts DEF LeaderList, OfLog
  <2>6. \A r \in Followers : (Unsent(r)' <=> Unsent(r)) /\ (Collected(r)' <=> Collected(r))
    BY <1>1, <1>11, <2>1, RoleFacts DEF Unsent, Collected
  <2>. QED  BY <1>1, <1>6, <1>7, <1>8, <2>3, <2>4, <2>5, <2>6, RoundFrame
<1>12. CASE f # N - 1
  <2>1. pc'[Leader] = "collect" /\ InRound' /\ dst' = f + 1 /\ msg'[Leader] = msg[Leader]
    BY <1>4, <1>5, <1>12 DEF InRound
  <2>2. dst' \in Followers
    BY <1>3, <1>12, <2>1, RoleFacts
  <2>3. Decided' <=> Decided
    <3>1. Decided <=> Needed <= f
      BY <1>1, <1>2 DEF Decided
    <3>2. Decided' <=> Needed < f + 1
      BY <2>1 DEF Decided, Needed, majority
    <3>. QED  BY <1>3, <3>1, <3>2
  <2>4. LeaderRound'
    BY <1>1, <1>2, <1>9, <2>1, <2>2, <2>3, LogFacts DEF LeaderRound
  <2>5. LeaderList'
    <3>1. Counts' = Counts
      BY <1>1, <1>3, <1>10, <2>1 DEF Counts
    <3>. QED  BY <1>1, <1>10, <3>1, LogFacts DEF LeaderList, OfLog
  <2>6. ASSUME NEW r \in Followers
        PROVE  (Unsent(r)' <=> Unsent(r)) /\ (Collected(r)' <=> Collected(r))
    <3>1. r \in Nat
      BY RoleFacts
    <3>2. ~Unsent(r) /\ ~Unsent(r)'
      BY <1>1, <2>1 DEF Unsent
    <3>3. (Collected(r) <=> r <= f) /\ (Collected(r)' <=> r < f + 1)
      BY <1>1, <1>2, <2>1 DEF Collected
    <3>. QED  BY <1>3, <3>1, <3>2, <3>3
  <2>. QED  BY <1>1, <1>6, <1>7, <1>8, <2>1, <2>4, <2>5, <2>6, RoundFrame
<1>. QED  BY <1>11, <1>12

------------------------------------------------------------------------------
(* The clients *)

(* What the invariant says of a client. *)
LEMMA ServedFacts ==
  ASSUME IInv
  PROVE  /\ LogInv /\ \A c \in Clients : OneMessage(c) /\ OrderedIssued(c)
         /\ RecvFrom = Leader /\ Leader \in Replicas /\ Leader \in Nodes
         /\ \A c \in Clients : c \in Nodes /\ c # Leader
         /\ \A c \in Clients, r \in Followers : c # r
BY RoleFacts DEF IInv, ClientsServed

(* What the leader has executed stays executed. *)
LEMMA ExecutedStays ==
  ASSUME LogInv, applied'[Leader] = applied[Leader] \/ update_applied_entries_leader
  PROVE  \A cmd : Executed(cmd) => Executed(cmd)'
<1>1. CASE applied'[Leader] = applied[Leader]
  BY <1>1 DEF Executed
<1>2. CASE update_applied_entries_leader
  <2>. PICK new : new = log[Len(log)]
    OBVIOUS
  <2>1. new \in Commands /\ NextEntry(Leader).cmd = new
    BY <1>2, LeaderApplyFacts
  <2>2. applied' = [applied EXCEPT ![Leader] = Append(@, new)]
    BY <1>2, <2>1 DEF update_applied_entries_leader
  <2>3. /\ Len(applied[Leader]) \in Nat /\ Len(applied'[Leader]) = Len(applied[Leader]) + 1
        /\ \A i \in 1 .. Len(applied[Leader]) : applied'[Leader][i] = applied[Leader][i]
    BY <2>1, <2>2, LogFacts, RoleFacts, AppliedAppend
  <2>4. \A i \in 1 .. Len(applied[Leader]) : i \in 1 .. Len(applied'[Leader])
    BY <2>3
  <2>. QED  BY <2>3, <2>4 DEF Executed
<1>. QED  BY <1>1, <1>2

(* A step that is not about client d, and orders no command of it. *)
LEMMA ServedFrame ==
  ASSUME NEW d \in Clients, OneMessage(d), OrderedIssued(d),
         cpc'[d] = cpc[d], request_count'[d] = request_count[d],
         net'[d][Leader] = net[d][Leader], net'[Leader][d] = net[Leader][d],
         InSetup(d)' <=> InSetup(d), Owed(d)' <=> Owed(d),
         Owed(d) => log'[Len(log')] = log[Len(log)],
         \A cmd : Executed(cmd) => Executed(cmd)',
         \A i \in 1 .. Len(log') : log'[i][1] = d => i \in 1 .. Len(log) /\ log'[i] = log[i]
  PROVE  OneMessage(d)' /\ OrderedIssued(d)'
<1>1. /\ Current(d)' = Current(d) /\ RequestMessage(d)' = RequestMessage(d)
      /\ SetupMessage(d)' = SetupMessage(d)
  BY DEF Current, RequestMessage, SetupMessage
<1>2. Executed(Current(d)) => Executed(Current(d))'
  BY <1>1 DEF Executed
<1>3. OneMessage(d)'
  BY <1>1, <1>2 DEF OneMessage
<1>4. OrderedIssued(d)'
  BY <1>1 DEF OrderedIssued
<1>. QED  BY <1>3, <1>4

(* A step that is about no client. *)
LEMMA ClientsFrame ==
  ASSUME IInv, UNCHANGED <<cpc, request_count, log>>,
         \A d \in Clients : /\ net'[d][Leader] = net[d][Leader]
                            /\ net'[Leader][d] = net[Leader][d]
                            /\ InSetup(d)' <=> InSetup(d),
         Unanswered' <=> Unanswered,
         \A cmd : Executed(cmd) => Executed(cmd)'
  PROVE  ClientsServed'
<1>1. ASSUME NEW d \in Clients
      PROVE  OneMessage(d)' /\ OrderedIssued(d)'
  <2>1. Owed(d)' <=> Owed(d)
    BY DEF Owed
  <2>. QED  BY <2>1, ServedFacts, ServedFrame
<1>. QED  BY <1>1 DEF ClientsServed

(* A step of a follower. *)
LEMMA FollowerInv ==
  ASSUME IInv, NEW r \in Followers, FollowerStep(r)
  PROVE  IInv'
<1>1. /\ LogInv' /\ Moves(r) /\ UNCHANGED <<cpc, request_count, log>>
      /\ \A x, y \in Nodes : (x # r \/ y # Leader) /\ (x # Leader \/ y # r) =>
           net'[x][y] = net[x][y]
  <2>1. CASE handle_append(r)
    BY <2>1, ServedFacts, AppendStep, AppendFacts
  <2>2. CASE handle_append_send(r)
    BY <2>2, ServedFacts, AppendSendStep
  <2>3. CASE update_applied_entries(r)
    BY <2>3, ServedFacts, FollowerApplyStep
  <2>4. CASE handle_append_return(r)
    BY <2>4, ServedFacts, FollowerReturnStep
  <2>. QED  BY <2>1, <2>2, <2>3, <2>4 DEF FollowerStep
<1>2. /\ \A d \in Clients : /\ net'[d][Leader] = net[d][Leader]
                            /\ net'[Leader][d] = net[Leader][d]
                            /\ InSetup(d)' <=> InSetup(d)
      /\ applied'[Leader] = applied[Leader]
      /\ Unanswered' <=> Unanswered
  BY <1>1, ServedFacts, RoleFacts DEF Moves, LeaderSame, InSetup, Unanswered, last_applied
<1>3. \A cmd : Executed(cmd) => Executed(cmd)'
  BY <1>2, ServedFacts, ExecutedStays
<1>. QED  BY <1>1, <1>2, <1>3, ClientsFrame DEF IInv

(* A step of a client. *)
LEMMA ClientInv ==
  ASSUME IInv, NEW c \in Clients, ClientMoves(c)
  PROVE  IInv'
<1>1. /\ LogInv' /\ ClientEffect(c) /\ LeaderSame
      /\ \A d \in Clients : d # c => /\ cpc'[d] = cpc[d]
                                     /\ request_count'[d] = request_count[d]
  BY ServedFacts, ClientLogStep
<1>2. /\ \A d \in Clients : (InSetup(d)' <=> InSetup(d)) /\ (Owed(d)' <=> Owed(d))
      /\ log' = log /\ applied'[Leader] = applied[Leader]
  BY <1>1 DEF LeaderSame, InSetup, Owed, Unanswered, last_applied
<1>3. \A cmd : Executed(cmd) => Executed(cmd)'
  BY <1>2, ServedFacts, ExecutedStays
<1>4. ASSUME NEW d \in Clients, d # c
      PROVE  OneMessage(d)' /\ OrderedIssued(d)'
  <2>1. net'[d][Leader] = net[d][Leader] /\ net'[Leader][d] = net[Leader][d]
    BY <1>1, <1>4, ServedFacts, ClientFrame
  <2>. QED  BY <1>1, <1>2, <1>3, <1>4, <2>1, ServedFacts, ServedFrame
<1>5. OneMessage(c)' /\ OrderedIssued(c)'
  <2>1. OneMessage(c) /\ OrderedIssued(c) /\ c \in Nodes /\ Leader \in Nodes /\ c # Leader
    BY ServedFacts
  <2>. PICK asked, answer : asked = net[c][Leader] /\ answer = net[Leader][c]
    OBVIOUS
  <2>2. asked \in Seq(Messages) /\ answer \in Seq(Messages)
    BY <2>1, ServedFacts, LogFacts
  <2>3. CASE cpc[c] = "new"
    <3>1. asked = << >> /\ ~InSetup(c) /\ ~Owed(c) /\ answer = << >>
      BY <2>1, <2>3 DEF OneMessage
    <3>2. /\ cpc'[c] = "joining" /\ request_count'[c] = request_count[c]
          /\ net'[c][Leader] = <<SetupMessage(c)>> /\ net'[Leader][c] = << >>
      <4>1. /\ cpc'[c] = "joining" /\ request_count'[c] = request_count[c]
            /\ ClientSent(c, SetupMessage(c))
        BY <1>1, <2>3 DEF ClientEffect
      <4>2. net[c][Leader] = << >> /\ net[Leader][c] = << >>
        BY <3>1
      <4>3. net'[c][Leader] = <<SetupMessage(c)>> /\ net'[Leader][c] = << >>
        BY ONLY <2>1, <4>1, <4>2, SentAlone, Zenon
      <4>. QED  BY ONLY <4>1, <4>3
    <3>3. SetupMessage(c)' = SetupMessage(c)
      BY DEF SetupMessage
    <3>4. OneMessage(c)'
      BY <1>2, <3>1, <3>2, <3>3 DEF OneMessage
    <3>. QED  BY <1>2, <2>1, <2>3, <3>2, <3>4 DEF OrderedIssued
  <2>4. CASE cpc[c] = "joining"
    <3>1. /\ cpc'[c] = "idle" /\ request_count'[c] = request_count[c]
          /\ answer # << >> /\ net'[Leader][c] = Tail(answer) /\ net'[c][Leader] = asked
      BY <1>1, <2>1, <2>4 DEF ClientEffect, ClientGot
    <3>2. asked = << >> /\ ~InSetup(c) /\ ~Owed(c) /\ Len(answer) = 1
      BY <2>1, <3>1 DEF OneMessage
    <3>3. net'[Leader][c] = << >>
      BY <2>2, <3>1, <3>2, LastTaken
    <3>4. OneMessage(c)'
      BY <1>2, <3>1, <3>2, <3>3 DEF OneMessage
    <3>. QED  BY <1>2, <2>1, <2>4, <3>1, <3>4 DEF OrderedIssued
  <2>5. CASE cpc[c] = "idle"
    <3>1. asked = << >> /\ ~InSetup(c) /\ ~Owed(c) /\ answer = << >>
      BY <2>1, <2>5 DEF OneMessage
    <3>2. /\ cpc'[c] = "waiting" /\ request_count'[c] = request_count[c]
          /\ net'[c][Leader] = <<RequestMessage(c)>> /\ net'[Leader][c] = << >>
      <4>1. /\ cpc'[c] = "waiting" /\ request_count'[c] = request_count[c]
            /\ ClientSent(c, RequestMessage(c))
        BY <1>1, <2>5 DEF ClientEffect
      <4>2. net[c][Leader] = << >> /\ net[Leader][c] = << >>
        BY <3>1
      <4>3. net'[c][Leader] = <<RequestMessage(c)>> /\ net'[Leader][c] = << >>
        BY ONLY <2>1, <4>1, <4>2, SentAlone, Zenon
      <4>. QED  BY ONLY <4>1, <4>3
    <3>3. RequestMessage(c)' = RequestMessage(c)
      BY <3>2 DEF RequestMessage
    <3>4. OneMessage(c)'
      BY <1>2, <3>1, <3>2, <3>3 DEF OneMessage
    <3>. QED  BY <1>2, <2>1, <2>5, <3>2, <3>4 DEF OrderedIssued
  <2>6. CASE cpc[c] = "waiting"
    <3>1. /\ cpc'[c] = "idle" /\ request_count'[c] = request_count[c] + 1
          /\ answer # << >> /\ net'[Leader][c] = Tail(answer) /\ net'[c][Leader] = asked
      BY <1>1, <2>1, <2>6, ServedFacts DEF ClientEffect, ClientGot
    <3>2. asked = << >> /\ ~InSetup(c) /\ ~Owed(c) /\ Len(answer) = 1
      BY <2>1, <3>1 DEF OneMessage
    <3>3. net'[Leader][c] = << >>
      BY <2>2, <3>1, <3>2, LastTaken
    <3>4. OneMessage(c)'
      BY <1>2, <3>1, <3>2, <3>3 DEF OneMessage
    <3>5. request_count[c] \in Nat
      BY ServedFacts, LogFacts DEF ClientType
    <3>6. ASSUME NEW i \in 1 .. Len(log), log[i][1] = c
          PROVE  log[i][2] < request_count'[c]
      <4>1. log[i] \in Commands
        BY ServedFacts, LogFacts, Sizes
      <4>2. log[i][2] \in Nat
        BY <4>1 DEF Commands
      <4>3. log[i][2] < request_count[c] \/ log[i] = Current(c)
        BY <2>1, <3>6 DEF OrderedIssued
      <4>. QED  BY <3>1, <3>5, <4>2, <4>3 DEF Current
    <3>7. OrderedIssued(c)'
      BY <1>2, <3>6 DEF OrderedIssued
    <3>. QED  BY <3>4, <3>7
  <2>. QED  BY <1>1, <2>3, <2>4, <2>5, <2>6 DEF ClientEffect
<1>. QED  BY <1>1, <1>4, <1>5 DEF IInv, ClientsServed

(* The leader takes the one message of client src. *)
LEMMA LeaderTakes ==
  ASSUME IInv, NEW src \in Clients, NEW t \in {"SETUP", "REQ"}, Takes(Leader, src, t)
  PROVE  LET m == Head(net[src][Leader])
         IN  /\ m \in Messages /\ m.cid = src /\ pc[Leader] = "poll"
             /\ net[src][Leader] # << >>
             /\ net[Leader][src] = << >> /\ net'[src][Leader] = << >>
             /\ \A x, y \in Nodes : x # src \/ y # Leader => net'[x][y] = net[x][y]
             /\ t = "SETUP" => cpc[src] = "joining"
             /\ t = "REQ" => cpc[src] = "waiting" /\ Command(m) = Current(src)
<1>1. /\ OneMessage(src) /\ src \in Nodes /\ Leader \in Replicas
      /\ net \in Channels(Messages) /\ ClientType
  BY ServedFacts, LogFacts
<1>2. /\ pc[Leader] = "poll" /\ net[src][Leader] # << >>
      /\ Head(net[src][Leader]) \in Messages /\ Head(net[src][Leader]).tag = t
      /\ net'[src][Leader] = Tail(net[src][Leader])
      /\ \A x, y \in Nodes : x # src \/ y # Leader => net'[x][y] = net[x][y]
  BY <1>1, TakesFacts
<1>3. /\ net[Leader][src] = << >>
      /\ \/ cpc[src] = "joining" /\ net[src][Leader] = <<SetupMessage(src)>>
         \/ cpc[src] = "waiting" /\ net[src][Leader] = <<RequestMessage(src)>>
  BY <1>1, <1>2 DEF OneMessage
<1>4. CASE cpc[src] = "joining" /\ net[src][Leader] = <<SetupMessage(src)>>
  <2>1. Head(net[src][Leader]) = SetupMessage(src) /\ net'[src][Leader] = << >>
    BY <1>2, <1>4, SingleMessage
  <2>. QED  BY <1>1, <1>2, <1>3, <1>4, <2>1, ClientMessages
<1>5. CASE cpc[src] = "waiting" /\ net[src][Leader] = <<RequestMessage(src)>>
  <2>1. Head(net[src][Leader]) = RequestMessage(src) /\ net'[src][Leader] = << >>
    BY <1>2, <1>5, SingleMessage
  <2>. QED  BY <1>1, <1>2, <1>3, <1>5, <2>1, ClientMessages
<1>. QED  BY <1>3, <1>4, <1>5

(* The leader takes up a setup message. *)
LEMMA SetupInv ==
  ASSUME IInv, NEW src \in Clients, handle_setup(src)
  PROVE  IInv'
<1>. PICK m : m = Head(net[src][Leader])
  OBVIOUS
<1>1. /\ Takes(Leader, src, "SETUP") /\ Enters(Leader, "setup", m)
      /\ UNCHANGED <<cpc, request_count, log, applied>>
  BY DEF handle_setup
<1>2. /\ m.cid = src /\ pc[Leader] = "poll"
      /\ net[Leader][src] = << >> /\ net'[src][Leader] = << >> /\ cpc[src] = "joining"
      /\ \A x, y \in Nodes : x # src \/ y # Leader => net'[x][y] = net[x][y]
  BY <1>1, LeaderTakes
<1>3. LogInv'
  BY ServedFacts, SetupLogStep
<1>4. pc'[Leader] = "setup" /\ msg'[Leader] = m
  BY <1>1, ServedFacts, LogFacts DEF Enters
<1>5. ~Unanswered /\ ~Unanswered'
  <2>1. ~Unanswered
    BY <1>2, ServedFacts, IdleFacts
  <2>. QED  BY <1>1, <1>4, <2>1 DEF Unanswered, last_applied
<1>6. \A d \in Clients : /\ ~Owed(d) /\ ~Owed(d)' /\ ~InSetup(d)
                         /\ d # src => ~InSetup(d)'
  BY <1>2, <1>4, <1>5 DEF Owed, InSetup
<1>7. \A cmd : Executed(cmd) => Executed(cmd)'
  BY <1>1, ServedFacts, ExecutedStays
<1>8. ASSUME NEW d \in Clients, d # src
      PROVE  OneMessage(d)' /\ OrderedIssued(d)'
  <2>1. net'[d][Leader] = net[d][Leader] /\ net'[Leader][d] = net[Leader][d]
    BY <1>2, <1>8, ServedFacts
  <2>. QED  BY <1>1, <1>6, <1>7, <1>8, <2>1, ServedFacts, ServedFrame
<1>9. OneMessage(src)'
  <2>1. net'[Leader][src] = << >>
    BY <1>2, ServedFacts
  <2>. QED  BY <1>1, <1>2, <1>6, <2>1 DEF OneMessage
<1>10. OrderedIssued(src)'
  BY <1>1, <1>2, ServedFacts DEF OrderedIssued, Current
<1>. QED  BY <1>3, <1>8, <1>9, <1>10 DEF IInv, ClientsServed

(* The leader answers a setup message. *)
LEMMA SetupSendInv ==
  ASSUME IInv, handle_setup_send
  PROVE  IInv'
<1>. PICK m, c : m = msg[Leader] /\ c = m.cid
  OBVIOUS
<1>1. /\ Sends(Leader, "setup", c) /\ Returns(Leader)
      /\ UNCHANGED <<cpc, request_count, log, applied>>
  BY DEF handle_setup_send
<1>2. /\ pc[Leader] = "setup" /\ m \in Messages
      /\ net \in Channels(Messages) /\ Leader \in Replicas
  BY <1>1, ServedFacts, LogFacts DEF Sends, TypeOK
<1>3. c \in Clients /\ c \in Nodes
  BY <1>2, ServedFacts, MessageFacts
<1>4. /\ net'[Leader][c] = Append(net[Leader][c], m)
      /\ \A x, y \in Nodes : x # Leader \/ y # c => net'[x][y] = net[x][y]
  <2>1. net \in Channels(Messages) /\ msg[Leader] \in Messages /\ Leader \in Replicas
    BY <1>2
  <2>2. /\ net' \in Channels(Messages)
        /\ net'[Leader][c] = Append(net[Leader][c], msg[Leader])
        /\ \A x, y \in Nodes : x # Leader \/ y # c => net'[x][y] = net[x][y]
    BY ONLY <1>1, <1>3, <2>1, SendsFacts
  <2>. QED  BY <2>2
<1>5. LogInv'
  BY ServedFacts, SetupSendLogStep
<1>6. pc'[Leader] = "poll"
  BY <1>1, ServedFacts, LogFacts DEF Returns
<1>7. ~Unanswered /\ ~Unanswered'
  <2>1. ~Unanswered
    BY <1>2, ServedFacts, IdleFacts
  <2>. QED  BY <1>1, <1>6, <2>1 DEF Unanswered, last_applied
<1>8. /\ InSetup(c)
      /\ \A d \in Clients : /\ ~Owed(d) /\ ~Owed(d)' /\ ~InSetup(d)'
                            /\ d # c => ~InSetup(d)
  BY <1>2, <1>6, <1>7 DEF Owed, InSetup
<1>9. \A cmd : Executed(cmd) => Executed(cmd)'
  BY <1>1, ServedFacts, ExecutedStays
<1>10. ASSUME NEW d \in Clients, d # c
       PROVE  OneMessage(d)' /\ OrderedIssued(d)'
  <2>1. net'[d][Leader] = net[d][Leader] /\ net'[Leader][d] = net[Leader][d]
    BY <1>4, <1>10, ServedFacts
  <2>. QED  BY <1>1, <1>8, <1>9, <1>10, <2>1, ServedFacts, ServedFrame
<1>11. cpc[c] = "joining" /\ net[Leader][c] = << >> /\ net[c][Leader] = << >>
  BY <1>3, <1>8, ServedFacts DEF OneMessage
<1>12. OneMessage(c)'
  <2>1. net'[c][Leader] = << >> /\ net'[Leader][c] = <<m>>
    BY <1>3, <1>4, <1>11, ServedFacts, SingleMessage
  <2>2. Len(net'[Leader][c]) = 1
    BY <2>1, SingleMessage
  <2>. QED  BY <1>1, <1>3, <1>8, <1>11, <2>1, <2>2 DEF OneMessage
<1>13. OrderedIssued(c)'
  BY <1>1, <1>3, <1>11, ServedFacts DEF OrderedIssued, Current
<1>. QED  BY <1>3, <1>5, <1>10, <1>12, <1>13 DEF IInv, ClientsServed

(* The leader takes up a request: it owes the client an answer. *)
LEMMA RequestInv ==
  ASSUME IInv, NEW src \in Clients, handle_request(src)
  PROVE  IInv'
<1>. PICK m, L, cmd : m = Head(net[src][Leader]) /\ L = Len(log) /\ cmd = Command(m)
  OBVIOUS
<1>1. /\ Takes(Leader, src, "REQ") /\ log' = Append(log, cmd)
      /\ UNCHANGED <<cpc, request_count, applied>>
  BY DEF handle_request
<1>2. /\ m \in Messages /\ m.cid = src /\ pc[Leader] = "poll"
      /\ net[src][Leader] # << >>
      /\ net[Leader][src] = << >> /\ net'[src][Leader] = << >>
      /\ cpc[src] = "waiting" /\ cmd = Current(src)
      /\ \A x, y \in Nodes : x # src \/ y # Leader => net'[x][y] = net[x][y]
  BY <1>1, LeaderTakes
<1>3. LogInv'
  BY ServedFacts, RequestStep
<1>4. /\ pc'[Leader] = "append"
  BY ServedFacts, LogFacts DEF handle_request, Enters
<1>5. cmd \in Commands /\ cmd[1] = src
  BY <1>2, MessageFacts
<1>6. /\ L \in Nat /\ Len(log') = L + 1 /\ log'[L + 1] = cmd
      /\ \A i \in 1 .. L : log'[i] = log[i]
      /\ \A i \in 1 .. Len(log') : i \in 1 .. L \/ i = L + 1
  BY <1>1, <1>5, ServedFacts, LogFacts, LogAppend
<1>7. ~Unanswered /\ last_applied(Leader) = L
  BY <1>2, ServedFacts, IdleFacts
<1>8. Unanswered' /\ Len(log') > 0
  BY <1>1, <1>6, <1>7 DEF Unanswered, last_applied
<1>9. \A d \in Clients : /\ ~Owed(d) /\ ~InSetup(d) /\ ~InSetup(d)'
                         /\ d # src => ~Owed(d)'
  BY <1>2, <1>4, <1>5, <1>6, <1>7 DEF Owed, InSetup
<1>10. \A e : Executed(e) => Executed(e)'
  BY <1>1, ServedFacts, ExecutedStays
<1>11. ASSUME NEW d \in Clients, d # src
       PROVE  OneMessage(d)' /\ OrderedIssued(d)'
  <2>1. net'[d][Leader] = net[d][Leader] /\ net'[Leader][d] = net[Leader][d]
    BY <1>2, <1>11, ServedFacts
  <2>2. \A i \in 1 .. Len(log') : log'[i][1] = d => i \in 1 .. Len(log) /\ log'[i] = log[i]
    BY <1>5, <1>6, <1>11
  <2>. QED  BY <1>1, <1>9, <1>10, <1>11, <2>1, <2>2, ServedFacts, ServedFrame
<1>12. Current(src)' = Current(src)
  BY <1>1 DEF Current
<1>13. OneMessage(src)'
  <2>1. net'[Leader][src] = << >>
    BY <1>2, ServedFacts
  <2>2. log'[Len(log')] = cmd
    BY <1>6
  <2>. QED  BY <1>1, <1>2, <1>9, <1>12, <2>1, <2>2 DEF OneMessage
<1>14. OrderedIssued(src)'
  <2>1. ASSUME NEW i \in 1 .. Len(log'), log'[i][1] = src
        PROVE  log'[i][2] < request_count[src] \/ log'[i] = Current(src)
    <3>1. CASE i \in 1 .. L
      BY <1>6, <2>1, <3>1, ServedFacts DEF OrderedIssued
    <3>2. CASE i = L + 1
      BY <1>2, <1>6, <3>2
    <3>. QED  BY <1>6, <3>1, <3>2
  <2>. QED  BY <1>1, <1>2, <1>12, <2>1 DEF OrderedIssued
<1>. QED  BY <1>3, <1>11, <1>13, <1>14 DEF IInv, ClientsServed

(* The leader answers the request it has executed. *)
LEMMA RespondInv ==
  ASSUME IInv, update_applied_entries_respond
  PROVE  IInv'
<1>. PICK L, c, m : L = Len(log) /\ c = log[L][1] /\ m = msg[Leader]
  OBVIOUS
<1>1. /\ L > 0 /\ L \in Nat /\ last_applied(Leader) = L /\ pc[Leader] = "respond"
      /\ c \in Clients /\ m \in Messages /\ Command(m) = log[L]
      /\ net'[Leader][c] = Append(net[Leader][c], m)
      /\ \A x, y \in Nodes : x # Leader \/ y # c => net'[x][y] = net[x][y]
      /\ pc' = [pc EXCEPT ![Leader] = "apply"]
      /\ UNCHANGED <<cpc, request_count, log, applied>>
  BY ServedFacts, RespondFacts
<1>2. LogInv'
  BY ServedFacts, RespondStep
<1>3. pc'[Leader] = "apply"
  BY <1>1, ServedFacts, LogFacts
<1>4. Unanswered /\ ~Unanswered'
  <2>1. last_applied(Leader)' = last_applied(Leader) /\ Len(log') = L
    BY <1>1 DEF last_applied
  <2>2. L \in Nat /\ last_applied(Leader) = L /\ pc[Leader] = "respond"
    BY <1>1
  <2>. QED  BY ONLY <1>3, <2>1, <2>2 DEF Unanswered
<1>5. /\ Owed(c)
      /\ \A d \in Clients : /\ ~Owed(d)' /\ ~InSetup(d) /\ ~InSetup(d)'
                            /\ d # c => ~Owed(d)
  BY <1>1, <1>3, <1>4 DEF Owed, InSetup
<1>6. \A cmd : Executed(cmd) => Executed(cmd)'
  BY <1>1, ServedFacts, ExecutedStays
<1>7. ASSUME NEW d \in Clients, d # c
      PROVE  OneMessage(d)' /\ OrderedIssued(d)'
  <2>1. net'[d][Leader] = net[d][Leader] /\ net'[Leader][d] = net[Leader][d]
    BY <1>1, <1>7, ServedFacts
  <2>. QED  BY <1>1, <1>5, <1>6, <1>7, <2>1, ServedFacts, ServedFrame
<1>8. /\ OneMessage(c) /\ OrderedIssued(c) /\ c \in Nodes
      /\ cpc[c] = "waiting" /\ log[L] = Current(c)
      /\ net[Leader][c] = << >> /\ net[c][Leader] = << >>
  BY <1>1, <1>5, ServedFacts DEF OneMessage
<1>9. Current(c)' = Current(c)
  BY <1>1 DEF Current
<1>10. Executed(Current(c))'
  <2>1. Len(applied[Leader]) = L /\ applied[Leader][L] = log[L]
    <3>1. Len(applied[Leader]) = L /\ L \in Nat /\ L > 0
      BY <1>1 DEF last_applied
    <3>2. Agreement /\ Leader \in Replicas
      BY ServedFacts, LogFacts, RoleFacts
    <3>. QED  BY ONLY <3>1, <3>2 DEF Agreement
  <2>2. applied'[Leader] = applied[Leader] /\ L \in 1 .. L
    <3>1. L > 0 /\ L \in Nat /\ applied' = applied
      BY <1>1
    <3>. QED  BY ONLY <3>1
  <2>3. applied'[Leader][L] = Current(c)' /\ L \in 1 .. Len(applied'[Leader])
    BY <1>8, <1>9, <2>1, <2>2, Zenon
  <2>. QED  BY <2>3 DEF Executed
<1>11. OneMessage(c)'
  <2>1. net'[c][Leader] = << >> /\ net'[Leader][c] = <<m>>
    BY <1>1, <1>8, ServedFacts, SingleMessage
  <2>2. Len(net'[Leader][c]) = 1 /\ net'[Leader][c][1] = m
    BY <2>1, SingleMessage
  <2>. QED  BY <1>1, <1>5, <1>8, <1>9, <1>10, <2>1, <2>2 DEF OneMessage
<1>12. OrderedIssued(c)'
  <2>1. net'[c][Leader] = net[c][Leader]
    BY <1>1, <1>8, ServedFacts
  <2>. QED  BY <1>1, <1>8, <1>9, <2>1 DEF OrderedIssued
<1>. QED  BY <1>2, <1>7, <1>11, <1>12 DEF IInv, ClientsServed

(* A step of the leader's round in which it hears of no client. *)
LEMMA RoundInv ==
  ASSUME IInv,
         \/ handle_request_send \/ handle_append_response
         \/ update_applied_entries_leader \/ handle_append_response_return
  PROVE  IInv'
<1>1. CASE handle_request_send
  <2>1. /\ LogInv' /\ pc[Leader] = "append" /\ dst \in Followers
        /\ UNCHANGED <<cpc, request_count, msg, log, applied>>
        /\ pc'[Leader] \in {"append", "collect"}
        /\ \A x, y \in Nodes : x # Leader \/ y # dst => net'[x][y] = net[x][y]
    BY <1>1, ServedFacts, RequestSendStep
  <2>2. /\ \A d \in Clients : /\ net'[d][Leader] = net[d][Leader]
                              /\ net'[Leader][d] = net[Leader][d]
                              /\ InSetup(d)' <=> InSetup(d)
        /\ Unanswered' <=> Unanswered
    BY <2>1, ServedFacts DEF InSetup, Unanswered, last_applied
  <2>3. \A cmd : Executed(cmd) => Executed(cmd)'
    BY <2>1, ServedFacts, ExecutedStays
  <2>. QED  BY <2>1, <2>2, <2>3, ClientsFrame DEF IInv
<1>2. CASE handle_append_response
  <2>1. /\ pc[Leader] = "collect" /\ dst \in Followers
        /\ UNCHANGED <<cpc, request_count, log, applied>>
        /\ \A x, y \in Nodes : x # dst \/ y # Leader => net'[x][y] = net[x][y]
    BY <1>2, ServedFacts, ResponseFacts
  <2>2. pc'[Leader] = "apply" /\ LogInv'
    BY <1>2, ServedFacts, LogFacts, ResponseStep DEF handle_append_response, Enters
  <2>3. /\ \A d \in Clients : /\ net'[d][Leader] = net[d][Leader]
                              /\ net'[Leader][d] = net[Leader][d]
                              /\ InSetup(d)' <=> InSetup(d)
        /\ Unanswered' <=> Unanswered
    BY <2>1, <2>2, ServedFacts DEF InSetup, Unanswered, last_applied
  <2>4. \A cmd : Executed(cmd) => Executed(cmd)'
    BY <2>1, ServedFacts, ExecutedStays
  <2>. QED  BY <2>1, <2>2, <2>3, <2>4, ClientsFrame DEF IInv
<1>3. CASE update_applied_entries_leader
  <2>1. /\ UNCHANGED <<net, cpc, request_count, log, msg>>
        /\ pc[Leader] = "apply" /\ pc'[Leader] = "respond" /\ LogInv'
    BY <1>3, ServedFacts, LogFacts, LeaderApplyStep
       DEF update_applied_entries_leader, clientVars
  <2>2. Unanswered /\ Unanswered'
    <3>1. last_applied(Leader) = Len(log) - 1 /\ Len(log) \in Nat /\ Len(log) > 0
      BY <1>3, ServedFacts, LeaderApplyFacts
    <3>. QED  BY <2>1, <3>1 DEF Unanswered
  <2>3. \A d \in Clients : /\ net'[d][Leader] = net[d][Leader]
                           /\ net'[Leader][d] = net[Leader][d]
                           /\ InSetup(d)' <=> InSetup(d)
    BY <2>1 DEF InSetup
  <2>4. \A cmd : Executed(cmd) => Executed(cmd)'
    BY <1>3, ServedFacts, ExecutedStays
  <2>. QED  BY <2>1, <2>2, <2>3, <2>4, ClientsFrame DEF IInv
<1>4. CASE handle_append_response_return
  <2>1. /\ UNCHANGED <<net, cpc, request_count, log, applied>>
        /\ pc[Leader] = "apply" /\ pc'[Leader] \in {"poll", "collect"} /\ LogInv'
    BY <1>4, ServedFacts, LogFacts, ReturnStep
       DEF handle_append_response_return, clientVars, Returns
  <2>2. /\ \A d \in Clients : /\ net'[d][Leader] = net[d][Leader]
                              /\ net'[Leader][d] = net[Leader][d]
                              /\ InSetup(d)' <=> InSetup(d)
        /\ Unanswered' <=> Unanswered
    BY <2>1 DEF InSetup, Unanswered, last_applied
  <2>3. \A cmd : Executed(cmd) => Executed(cmd)'
    BY <2>1, ServedFacts, ExecutedStays
  <2>. QED  BY <2>1, <2>2, <2>3, ClientsFrame DEF IInv
<1>. QED  BY <1>1, <1>2, <1>3, <1>4

------------------------------------------------------------------------------
(* The invariant *)

(* The system starts in the invariant. *)
LEMMA InitInv == Init => IInv
<1>. SUFFICES ASSUME Init PROVE IInv
  OBVIOUS
<1>1. /\ net = EmptyNet(Nodes) /\ cpc = [c \in Clients |-> "new"]
      /\ request_count = [c \in Clients |-> 0]
      /\ pc = [r \in Replicas |-> "poll"] /\ msg = [r \in Replicas |-> NoMsg]
      /\ log = << >> /\ applied = [r \in Replicas |-> << >>] /\ dst = Leader
      /\ queue = [r \in Replicas |-> {Entry(0, << >>)}]
      /\ last_log_index = [r \in Replicas |-> 0]
      /\ commit_index = [r \in Replicas |-> 0] /\ match_index = [r \in Replicas |-> 0]
  BY DEF Init, ClientInit, ReplicaInit
<1>2. /\ Len(log) = 0 /\ \A r \in Replicas : applied[r] = << >> /\ last_applied(r) = 0
  BY <1>1 DEF last_applied
<1>3. \A x, y \in Nodes : net[x][y] = << >>
  BY <1>1 DEF EmptyNet
<1>4. net \in Channels(Messages)
  BY <1>1 DEF EmptyNet, Channels
<1>5. /\ Entry(0, << >>) \in Entries /\ Entry(0, << >>).index = 0
  BY EntryFacts
<1>6. TypeOK
  <2>1. ClientType /\ HistoryType
    BY <1>1 DEF ClientType, ClientPCs, HistoryType
  <2>. QED  BY <1>1, <1>4, <1>5, <2>1, RoleFacts DEF TypeOK, LeaderPCs, FollowerPCs
<1>7. ~InRound /\ ~Unanswered /\ pc[Leader] = "poll"
  BY <1>1, <1>2, RoleFacts DEF InRound, Unanswered
<1>8. LeaderRound
  BY <1>1, <1>2, <1>7, RoleFacts DEF LeaderRound, Decided
<1>9. LeaderList
  <2>1. queue[Leader] = {Entry(0, << >>)}
    BY <1>1, RoleFacts
  <2>. QED  BY <1>2, <1>5, <2>1 DEF LeaderList, queue_contains, OfLog
<1>10. ASSUME NEW r \in Followers
       PROVE  FollowerRound(r) /\ FollowerCommits(r) /\ FollowerList(r)
  <2>1. /\ r \in Replicas /\ r \in Nodes /\ Leader \in Nodes
    BY RoleFacts
  <2>2. Collected(r) /\ ~Unsent(r)
    BY <1>7 DEF Collected, Unsent
  <2>3. /\ pc[r] = "poll" /\ last_log_index[r] = 0 /\ commit_index[r] = 0
        /\ match_index[r] = 0 /\ queue[r] = {Entry(0, << >>)} /\ last_applied(r) = 0
    BY <1>1, <1>2, <2>1
  <2>4. FollowerRound(r) /\ FollowerCommits(r)
    BY <1>2, <1>3, <2>1, <2>2, <2>3 DEF FollowerRound, FollowerCommits, Quiet
  <2>5. FollowerList(r)
    BY <1>5, <2>3 DEF FollowerList, queue_contains, OfLog
  <2>. QED  BY <2>4, <2>5
<1>11. Agreement
  BY <1>1, <1>2 DEF Agreement
<1>12. ASSUME NEW c \in Clients
       PROVE  OneMessage(c) /\ OrderedIssued(c)
  <2>1. net[c][Leader] = << >> /\ net[Leader][c] = << >>
    BY <1>3, RoleFacts
  <2>2. ~InSetup(c) /\ ~Owed(c)
    BY <1>7 DEF InSetup, Owed
  <2>. QED  BY <1>2, <2>1, <2>2 DEF OneMessage, OrderedIssued
<1>. QED  BY <1>6, <1>8, <1>9, <1>10, <1>11, <1>12 DEF IInv, LogInv, ClientsServed

(* A step that changes nothing. *)
LEMMA StutterInv ==
  ASSUME IInv, UNCHANGED vars
  PROVE  IInv'
<1>1. UNCHANGED <<net, cpc, request_count, pc, msg, dst, log, applied,
                  queue, last_log_index, commit_index, match_index>>
  BY DEF vars, clientVars, replicaVars, raftVars
<1>2. /\ FollowersSame /\ LeaderSame
  BY <1>1 DEF FollowersSame, FollowerSame, FollowerKeeps, LeaderSame
<1>3. TypeOK' /\ Agreement'
  BY <1>1, ServedFacts, LogFacts DEF TypeOK, ClientType, HistoryType, Agreement
<1>4. LogInv'
  <2>1. /\ LeaderRound' /\ LeaderList'
        /\ \A r \in Followers : (Unsent(r)' <=> Unsent(r)) /\ (Collected(r)' <=> Collected(r))
    BY <1>2, ServedFacts, LogFacts, LeaderFrame
  <2>. QED  BY <1>1, <1>2, <1>3, <2>1, ServedFacts, RoundFrame
<1>5. /\ \A d \in Clients : InSetup(d)' <=> InSetup(d)
      /\ Unanswered' <=> Unanswered
  BY <1>1 DEF InSetup, Unanswered, last_applied
<1>6. \A cmd : Executed(cmd) => Executed(cmd)'
  BY <1>1, ServedFacts, ExecutedStays
<1>7. ClientsServed'
  BY <1>1, <1>5, <1>6, ClientsFrame
<1>. QED  BY <1>4, <1>7 DEF IInv

(* Every step keeps the invariant. *)
LEMMA InvStep == IInv /\ [Next]_vars => IInv'
<1>. SUFFICES ASSUME IInv, [Next]_vars PROVE IInv'
  OBVIOUS
<1>1. ASSUME NEW c \in Clients, ClientMoves(c)
      PROVE  IInv'
  BY <1>1, ClientInv
<1>2. ASSUME NEW src \in Clients, LeaderReceive(src)
      PROVE  IInv'
  BY <1>2, SetupInv, RequestInv DEF LeaderReceive
<1>3. CASE LeaderContinue
  BY <1>3, SetupSendInv, RoundInv, RespondInv DEF LeaderContinue
<1>4. ASSUME NEW r \in Followers, FollowerStep(r)
      PROVE  IInv'
  BY <1>4, FollowerInv
<1>5. CASE UNCHANGED vars
  BY <1>5, StutterInv
<1>. QED  BY <1>1, <1>2, <1>3, <1>4, <1>5 DEF Next, Terminated

(***************************************************************************)
(* Whatever the number of followers and clients, the leader's round, the   *)
(* lists and the one message of each client are in step.                   *)
(***************************************************************************)
THEOREM InductiveInvariant == Spec => []IInv
<1>1. Init => IInv
  BY InitInv
<1>2. IInv /\ [Next]_vars => IInv'
  BY InvStep
<1>. QED  BY <1>1, <1>2, PTL DEF Spec

------------------------------------------------------------------------------
(* What follows from it *)

(* Each follower has the last entry, or all but the last. *)
LEMMA FollowersBehind ==
  ASSUME LogInv, NEW r \in Followers
  PROVE  /\ last_log_index[r] \in {Len(log) - 1, Len(log)}
         /\ last_applied(r) <= commit_index[r] /\ commit_index[r] <= last_log_index[r]
         /\ commit_index[r] <= Len(log) - 1 \/ commit_index[r] = 0
         /\ last_log_index[r] <= last_applied(r) + 2
<1>1. /\ FollowerRound(r) /\ FollowerCommits(r) /\ Len(log) \in Nat
      /\ last_applied(r) \in Nat /\ commit_index[r] \in Nat /\ last_log_index[r] \in Nat
  BY LogFacts
<1>2. last_log_index[r] \in {Len(log) - 1, Len(log)}
  BY <1>1 DEF FollowerRound, Requested, Replying, Replied
<1>. QED  BY <1>1, <1>2 DEF FollowerCommits

(***************************************************************************)
(* Every entry that the next step looks up and dereferences is in the      *)
(* list: cleanup_queue and remove_entry never free it too early, however   *)
(* many followers there are and however far apart they are.                *)
(***************************************************************************)
THEOREM EntriesPresentCorrect == Spec => []EntriesPresent
<1>1. IInv => EntriesPresent
  <2>. SUFFICES ASSUME IInv PROVE EntriesPresent
    OBVIOUS
  <2>. PICK L : L = Len(log)
    OBVIOUS
  <2>1. /\ LogInv /\ LeaderRound /\ LeaderList /\ L \in Nat
        /\ queue_contains(queue[Leader], L)
        /\ last_applied(Leader) \in Nat /\ commit_index[Leader] \in {L - 1, L}
        /\ L <= last_applied(Leader) + 1
    BY ServedFacts, LogFacts DEF LeaderRound, LeaderList
  <2>2. ASSUME NEW r \in Replicas, pc[r] = "apply",
               NEW i \in last_applied(r) + 1 .. commit_index[r]
        PROVE  queue_contains(queue[r], i)
    <3>1. CASE r = Leader
      <4>1. i = L
        BY <2>1, <2>2, <3>1
      <4>. QED  BY <2>1, <3>1, <4>1
    <3>2. CASE r \in Followers
      <4>1. /\ last_applied(r) \in Nat /\ commit_index[r] \in Nat
            /\ last_log_index[r] \in Nat /\ FollowerList(r)
            /\ commit_index[r] <= last_log_index[r]
        BY <2>1, <3>2, LogFacts, FollowersBehind
      <4>2. i \in last_applied(r) .. last_log_index[r]
        BY <2>2, <4>1
      <4>. QED  BY <4>1, <4>2 DEF FollowerList
    <3>. QED  BY <3>1, <3>2, RoleFacts
  <2>3. pc[Leader] = "respond" => queue_contains(queue[Leader], last_applied(Leader))
    BY <2>1 DEF LeaderRound
  <2>4. ASSUME NEW r \in Followers, CanRecv(net, r, Leader)
        PROVE  queue_contains(queue[Leader], Head(net[r][Leader]).index)
    <3>1. /\ FollowerRound(r) /\ net[r][Leader] # << >> /\ net[r][Leader] \in Seq(Messages)
      BY <2>1, <2>4, LogFacts, RoleFacts DEF CanRecv
    <3>2. Replied(r)
      BY <3>1 DEF FollowerRound, Quiet, Requested, Replying
    <3>3. Head(net[r][Leader]).index = L
      BY <3>1, <3>2, OneInChannel DEF Replied, IsReply
    <3>. QED  BY <2>1, <3>3
  <2>5. ASSUME NEW r \in Followers, CanRecv(net, Leader, r)
        PROVE  LET prev == Head(net[Leader][r]).index
               IN  queue_contains(queue[r], prev) /\ ~queue_contains(queue[r], prev + 1)
    <3>1. /\ FollowerRound(r) /\ net[Leader][r] # << >> /\ net[Leader][r] \in Seq(Messages)
          /\ FollowerList(r) /\ last_log_index[r] \in Nat /\ last_applied(r) \in Nat
          /\ commit_index[r] \in Nat
          /\ last_applied(r) <= commit_index[r] /\ commit_index[r] <= last_log_index[r]
      BY <2>1, <2>5, LogFacts, RoleFacts, FollowersBehind DEF CanRecv
    <3>2. Requested(r)
      BY <3>1 DEF FollowerRound, Quiet, Replying, Replied
    <3>3. Head(net[Leader][r]).index = last_log_index[r]
      BY <3>1, <3>2, OneInChannel DEF Requested, IsAppend
    <3>4. queue_contains(queue[r], last_log_index[r])
      <4>1. last_log_index[r] \in last_applied(r) .. last_log_index[r]
        BY <3>1
      <4>. QED  BY <3>1, <4>1 DEF FollowerList
    <3>5. \A e \in queue[r] : e.index # last_log_index[r] + 1
      BY <3>1 DEF FollowerList
    <3>. QED  BY <3>3, <3>4, <3>5 DEF queue_contains
  <2>. QED  BY <2>2, <2>3, <2>4, <2>5 DEF EntriesPresent
<1>. QED  BY <1>1, InductiveInvariant, PTL

(* The pruning keeps up with the log: no list grows with the requests. *)
THEOREM ListsBoundedCorrect == Spec => []ListsBounded
<1>1. IInv => ListsBounded
  <2>. SUFFICES ASSUME IInv, NEW r \in Replicas, NEW e \in queue[r], e.index > 0
                PROVE  e.index + 4 > last_log_index[r]
    BY DEF ListsBounded
  <2>1. LogInv /\ Len(log) \in Nat /\ queue \in [Replicas -> SUBSET Entries]
    BY ServedFacts, LogFacts
  <2>2. e \in Entries
    BY <2>1
  <2>3. e.index \in Nat
    BY <2>2 DEF Entries
  <2>4. CASE r = Leader
    <3>1. last_log_index[r] = Len(log)
      BY <2>1, <2>4, LogFacts DEF LeaderRound
    <3>2. /\ e.index <= Len(log)
          /\ e.index < Len(log) => Len(log) <= e.index + IF Unanswered THEN 2 ELSE 1
      <4>1. LeaderList /\ e \in queue[Leader]
        BY <2>1, <2>4, LogFacts
      <4>. QED  BY <4>1 DEF LeaderList
    <3>. QED  BY <2>1, <2>3, <3>1, <3>2
  <2>5. CASE r \in Followers
    <3>1. /\ last_applied(r) \in Nat /\ last_log_index[r] \in Nat
          /\ last_log_index[r] <= last_applied(r) + 2
          /\ e.index + 1 >= last_applied(r)
      BY <2>1, <2>5, LogFacts, FollowersBehind DEF FollowerList
    <3>. QED  BY <2>3, <3>1
  <2>. QED  BY <2>4, <2>5, RoleFacts
<1>. QED  BY <1>1, InductiveInvariant, PTL

(***************************************************************************)
(* Log matching: entry i is the same command in every list, though a       *)
(* follower compares nothing but the index of the entry before.            *)
(***************************************************************************)
THEOREM LogMatchingCorrect == Spec => []LogMatching
<1>1. IInv => LogMatching
  <2>. SUFFICES ASSUME IInv, NEW r \in Replicas, NEW e \in queue[r]
                PROVE  OfLog(e)
    BY DEF LogMatching, OfLog
  <2>1. CASE r = Leader
    BY <2>1, ServedFacts, LogFacts DEF LeaderList
  <2>2. CASE r \in Followers
    BY <2>2, ServedFacts, LogFacts DEF FollowerList
  <2>. QED  BY <2>1, <2>2, RoleFacts
<1>. QED  BY <1>1, InductiveInvariant, PTL

(***************************************************************************)
(* Between two requests every response is collected, and each response the *)
(* leader reads is about the entry it appended last: no round is mixed up  *)
(* with another, for any number of followers.                              *)
(***************************************************************************)
THEOREM RoundsMatchCorrect == Spec => []RoundsMatch
<1>1. IInv => RoundsMatch
  <2>. SUFFICES ASSUME IInv, NEW r \in Followers
                PROVE  /\ pc[Leader] = "poll" =>
                            /\ ~CanRecv(net, r, Leader)
                            /\ ~CanRecv(net, Leader, r)
                            /\ match_index[r] = last_log_index[Leader]
                       /\ CanRecv(net, r, Leader) =>
                            Head(net[r][Leader]).index = last_log_index[Leader]
    BY DEF RoundsMatch
  <2>1. /\ LogInv /\ FollowerRound(r) /\ net[r][Leader] \in Seq(Messages)
        /\ last_log_index[Leader] = Len(log)
    BY ServedFacts, LogFacts, RoleFacts DEF LeaderRound
  <2>2. ASSUME pc[Leader] = "poll"
        PROVE  /\ ~CanRecv(net, r, Leader) /\ ~CanRecv(net, Leader, r)
               /\ match_index[r] = last_log_index[Leader]
    BY <2>1, <2>2, IdleFacts DEF Quiet, CanRecv
  <2>3. ASSUME CanRecv(net, r, Leader)
        PROVE  Head(net[r][Leader]).index = last_log_index[Leader]
    <3>1. Replied(r)
      BY <2>1, <2>3 DEF CanRecv, FollowerRound, Quiet, Requested, Replying
    <3>. QED  BY <2>1, <3>1, OneInChannel DEF Replied, IsReply
  <2>. QED  BY <2>2, <2>3
<1>. QED  BY <1>1, InductiveInvariant, PTL

(* Every replica has executed a prefix of the one log. *)
THEOREM AgreementCorrect == Spec => []Agreement
<1>1. IInv => Agreement
  BY DEF IInv, LogInv
<1>. QED  BY <1>1, InductiveInvariant, PTL

(***************************************************************************)
(* What a client takes off its channel is the answer to its own request,   *)
(* and the leader has executed it, although it sends whatever response     *)
(* lies in buf and the client compares nothing.                            *)
(***************************************************************************)
THEOREM AnswerMatchesRequestCorrect == Spec => []AnswerMatchesRequest
<1>1. IInv => AnswerMatchesRequest
  <2>. SUFFICES ASSUME IInv, NEW c \in Clients, cpc[c] = "waiting",
                       NEW k \in 1 .. Len(net[Leader][c])
                PROVE  /\ Command(net[Leader][c][k]) = Current(c)
                       /\ \E i \in 1 .. last_applied(Leader) : applied[Leader][i] = Current(c)
    BY DEF AnswerMatchesRequest, Current
  <2>1. OneMessage(c) /\ net[Leader][c] \in Seq(Messages)
    BY ServedFacts, LogFacts
  <2>2. net[Leader][c] # << >>
    <3>. SUFFICES ASSUME net[Leader][c] = << >> PROVE FALSE
      OBVIOUS
    <3>1. Len(net[Leader][c]) = 0
      BY EmptySeq
    <3>. QED  BY <3>1
  <2>3. /\ Len(net[Leader][c]) = 1 /\ Command(net[Leader][c][1]) = Current(c)
        /\ Executed(Current(c))
    BY <2>1, <2>2 DEF OneMessage
  <2>4. k = 1
    BY <2>3
  <2>. QED  BY <2>3, <2>4 DEF Executed, last_applied
<1>. QED  BY <1>1, InductiveInvariant, PTL

(***************************************************************************)
(* What any replica takes for committed is in the logs of more than half   *)
(* of the replicas, when their number is odd, or two: the code counts      *)
(* (N - 1) \div 2 followers, so with four replicas it commits with two.    *)
(***************************************************************************)
THEOREM CommittedByMajorityCorrect ==
  N % 2 = 1 \/ N = 2 => (Spec => []CommittedByMajority)
<1>. SUFFICES ASSUME N % 2 = 1 \/ N = 2
              PROVE  Spec => []CommittedByMajority
  OBVIOUS
<1>1. 2 * (Needed + 1) > N
  BY RoleFacts DEF Needed, majority
<1>2. ASSUME NEW S, S \subseteq Replicas, NEW k \in Nat, 0 .. k \subseteq S, k >= Needed
      PROVE  2 * Cardinality(S) > N
  <2>1. IsFiniteSet(Replicas)
    BY FS_Interval, RoleFacts DEF Replicas
  <2>2. IsFiniteSet(S) /\ Cardinality(0 .. k) <= Cardinality(S)
    BY <1>2, <2>1, FS_Subset
  <2>3. Cardinality(0 .. k) = k + 1
    BY FS_Interval
  <2>4. Cardinality(S) \in Nat
    BY <2>2, FS_CardinalityType
  <2>. QED  BY <1>1, <1>2, <2>2, <2>3, <2>4, NeededFacts, RoleFacts
<1>3. IInv => CommittedByMajority
  <2>. SUFFICES ASSUME IInv, NEW r \in Replicas
                PROVE  Majority(commit_index[r])
    BY DEF CommittedByMajority
  <2>. PICK L, i : L = Len(log) /\ i = commit_index[r]
    OBVIOUS
  <2>. DEFINE S == {q \in Replicas : last_log_index[q] >= i}
  <2>1. LogInv /\ L \in Nat /\ i \in Nat /\ LeaderRound
    BY ServedFacts, LogFacts, RoleFacts
  <2>2. last_log_index[Leader] = L
    BY <2>1 DEF LeaderRound
  <2>3. \A q \in Followers : last_log_index[q] \in Nat /\ last_log_index[q] \in {L - 1, L}
    BY <2>1, LogFacts, FollowersBehind
  <2>4. i <= L /\ (i = L /\ L > 0 => r = Leader)
    <3>1. CASE r = Leader
      BY <2>1, <3>1 DEF LeaderRound
    <3>2. CASE r \in Followers
      <4>1. i <= L - 1 \/ i = 0
        BY <2>1, <3>2, FollowersBehind
      <4>. QED  BY <2>1, <4>1
    <3>. QED  BY <3>1, <3>2, RoleFacts
  <2>5. \E k \in Nat : k >= Needed /\ k <= N - 1 /\ \A q \in 0 .. k : last_log_index[q] >= i
    <3>1. CASE i <= L - 1 \/ L = 0
      <4>1. \A q \in 0 .. N - 1 : last_log_index[q] >= i
        BY <2>1, <2>2, <2>3, <2>4, <3>1, RoleFacts DEF Replicas
      <4>2. N - 1 \in Nat /\ N - 1 >= Needed
        BY NeededFacts, RoleFacts
      <4>. QED  BY <4>1, <4>2
    <3>2. CASE ~(i <= L - 1) /\ L > 0
      <4>1. i = L /\ r = Leader
        BY <2>1, <2>4, <3>2
      <4>2. Decided
        <5>1. ~Decided => commit_index[Leader] = L - 1
          BY <2>1 DEF LeaderRound
        <5>2. commit_index[Leader] # L - 1
          <6>1. commit_index[Leader] = L
            BY <4>1, Zenon
          <6>. QED  BY ONLY <2>1, <6>1
        <5>. QED  BY ONLY <5>1, <5>2, Zenon
      <4>3. \A q \in Followers : Collected(q) => last_log_index[q] = L
        BY <2>1, LogFacts DEF FollowerRound
      <4>4. ASSUME NEW k \in Nat, k >= Needed, k <= N - 1, \A q \in 1 .. k : Collected(q)
            PROVE  \E j \in Nat : j >= Needed /\ j <= N - 1 /\ \A q \in 0 .. j : last_log_index[q] >= i
        <5>1. ASSUME NEW q \in 0 .. k
              PROVE  last_log_index[q] >= i
          <6>1. CASE q = 0
            BY <2>1, <2>2, <4>1, <6>1, RoleFacts
          <6>2. CASE q \in 1 .. k
            <7>1. q \in Followers
              BY <4>4, <6>2, RoleFacts
            <7>. QED  BY <2>1, <4>1, <4>3, <4>4, <6>2, <7>1
          <6>. QED  BY <6>1, <6>2
        <5>. QED  BY <4>4, <5>1
      <4>5. CASE ~InRound
        <5>1. \A q \in 1 .. N - 1 : Collected(q)
          BY <4>5 DEF Collected
        <5>2. N - 1 \in Nat /\ N - 1 >= Needed /\ N - 1 <= N - 1
          BY NeededFacts, RoleFacts
        <5>. QED  BY <4>4, <5>1, <5>2
      <4>6. CASE InRound
        <5>1. dst \in Followers /\ dst \in Nat /\ dst <= N - 1 /\ dst >= 1
          BY <2>1, <4>6, RoleFacts DEF LeaderRound
        <5>2. CASE pc[Leader] = "collect"
          <6>1. dst - 1 \in Nat /\ dst - 1 >= Needed /\ dst - 1 <= N - 1
            BY <4>2, <4>6, <5>1, <5>2, NeededFacts, RoleFacts DEF Decided
          <6>2. \A q \in 1 .. dst - 1 : Collected(q)
            BY <5>1, <5>2 DEF Collected
          <6>. QED  BY <4>4, <6>1, <6>2
        <5>3. CASE pc[Leader] \in {"apply", "respond"}
          <6>1. dst >= Needed
            BY <4>2, <4>6, <5>1, <5>3, NeededFacts DEF Decided
          <6>2. \A q \in 1 .. dst : Collected(q)
            BY <5>1, <5>3 DEF Collected
          <6>. QED  BY <4>4, <5>1, <6>1, <6>2
        <5>. QED  BY <4>2, <4>6, <5>2, <5>3 DEF Decided
      <4>. QED  BY <4>5, <4>6
    <3>. QED  BY <2>1, <3>1, <3>2
  <2>6. PICK k \in Nat : /\ k >= Needed /\ k <= N - 1
                         /\ \A q \in 0 .. k : last_log_index[q] >= i
    BY <2>5
  <2>7. S \subseteq Replicas /\ 0 .. k \subseteq S
    BY <2>6, RoleFacts DEF Replicas
  <2>8. 2 * Cardinality(S) > N
    <3>. HIDE DEF S
    <3>. QED  BY <1>2, <2>6, <2>7
  <2>. QED  BY <2>8 DEF Majority
<1>. QED  BY <1>3, InductiveInvariant, PTL

------------------------------------------------------------------------------
(* Refinement *)

(* Every step of Raft is a step of the replicated log, or none of it. *)
LEMMA StepRefines == IInv /\ [Next]_vars => [Abstract!Next]_(Abstract!vars)
<1>. SUFFICES ASSUME IInv, [Next]_vars PROVE [Abstract!Next]_(Abstract!vars)
  OBVIOUS
<1>1. LogInv /\ ClientType /\ Agreement
  BY ServedFacts, LogFacts
<1>2. ASSUME NEW c \in Clients, ClientMoves(c)
      PROVE  [Abstract!Next]_(Abstract!vars)
  <2>1. ClientStep(c) /\ UNCHANGED <<log, applied>>
    BY <1>2 DEF ClientMoves, replicaVars
  <2>2. cpc[c] = "waiting" /\ net[RecvFrom][c] # << >> => InLog(Current(c))
    <3>. SUFFICES ASSUME cpc[c] = "waiting", net[RecvFrom][c] # << >>
                  PROVE  InLog(Current(c))
      OBVIOUS
    <3>1. Executed(Current(c))
      BY ServedFacts DEF OneMessage
    <3>2. PICK i \in 1 .. Len(applied[Leader]) : applied[Leader][i] = Current(c)
      BY <3>1 DEF Executed
    <3>3. Len(applied[Leader]) <= Len(log) /\ applied[Leader][i] = log[i]
      BY <1>1, RoleFacts DEF Agreement
    <3>4. Len(applied[Leader]) \in Nat /\ Len(log) \in Nat
      BY <1>1, LogFacts, RoleFacts DEF last_applied
    <3>5. i \in 1 .. Len(log)
      BY <3>3, <3>4
    <3>. QED  BY <3>2, <3>3, <3>5 DEF InLog
  <2>. QED  BY <1>1, <2>1, <2>2, ClientRefines
<1>3. ASSUME NEW src \in Clients, handle_setup(src)
      PROVE  [Abstract!Next]_(Abstract!vars)
  BY <1>3, StutterRefines DEF handle_setup
<1>4. ASSUME NEW src \in Clients, handle_request(src)
      PROVE  [Abstract!Next]_(Abstract!vars)
  <2>. PICK cmd : cmd = Command(Head(net[src][Leader]))
    OBVIOUS
  <2>1. /\ Takes(Leader, src, "REQ") /\ log' = Append(log, cmd)
        /\ UNCHANGED <<cpc, request_count, applied>>
    BY <1>4 DEF handle_request
  <2>2. cpc[src] = "waiting" /\ cmd = Current(src) /\ net[src][Leader] # << >>
    BY <2>1, LeaderTakes
  <2>3. ~InLog(Current(src))
    <3>1. ASSUME NEW i \in 1 .. Len(log), log[i] = Current(src)
          PROVE  FALSE
      <4>1. log[i][1] = src /\ log[i][2] = request_count[src] /\ request_count[src] \in Nat
        BY <1>1, <3>1 DEF Current, ClientType
      <4>2. log[i][2] < request_count[src]
        BY <2>2, <4>1, ServedFacts DEF OrderedIssued
      <4>. QED  BY <4>1, <4>2
    <3>. QED  BY <3>1 DEF InLog
  <2>. QED  BY <1>1, <2>1, <2>2, <2>3, DecideRefines
<1>5. CASE LeaderContinue
  <2>1. CASE handle_setup_send
    BY <2>1, StutterRefines DEF handle_setup_send
  <2>2. CASE handle_request_send
    BY <2>2, StutterRefines DEF handle_request_send
  <2>3. CASE handle_append_response
    BY <2>3, StutterRefines DEF handle_append_response
  <2>4. CASE update_applied_entries_leader
    <3>. PICK cmd : cmd = log[Len(log)]
      OBVIOUS
    <3>1. /\ Len(log) > 0 /\ Len(log) \in Nat /\ last_applied(Leader) = Len(log) - 1
          /\ NextEntry(Leader).cmd = cmd
      BY <1>1, <2>4, LeaderApplyFacts
    <3>2. Len(applied[Leader]) < Len(log) /\ cmd = log[Len(applied[Leader]) + 1]
      BY <3>1 DEF last_applied
    <3>3. /\ applied' = [applied EXCEPT ![Leader] = Append(@, cmd)]
          /\ UNCHANGED <<cpc, request_count, log>>
      BY <2>4, <3>1 DEF update_applied_entries_leader, clientVars
    <3>. QED  BY <3>2, <3>3, RoleFacts, ApplyRefines
  <2>5. CASE update_applied_entries_respond
    BY <2>5, StutterRefines DEF update_applied_entries_respond
  <2>6. CASE handle_append_response_return
    BY <2>6, StutterRefines DEF handle_append_response_return, clientVars
  <2>. QED  BY <1>5, <2>1, <2>2, <2>3, <2>4, <2>5, <2>6 DEF LeaderContinue
<1>6. ASSUME NEW r \in Followers, FollowerStep(r)
      PROVE  [Abstract!Next]_(Abstract!vars)
  <2>1. CASE handle_append(r)
    BY <2>1, StutterRefines DEF handle_append
  <2>2. CASE handle_append_send(r)
    BY <2>2, StutterRefines DEF handle_append_send
  <2>3. CASE update_applied_entries(r)
    <3>. PICK cmd : cmd = log[last_applied(r) + 1]
      OBVIOUS
    <3>1. /\ last_applied(r) + 1 < Len(log) /\ NextEntry(r).cmd = cmd
          /\ last_applied(r) \in Nat /\ Len(log) \in Nat /\ r \in Replicas
      BY <1>1, <2>3, FollowerNext, LogFacts, RoleFacts DEF update_applied_entries
    <3>2. Len(applied[r]) < Len(log) /\ cmd = log[Len(applied[r]) + 1]
      BY <3>1 DEF last_applied
    <3>3. /\ applied' = [applied EXCEPT ![r] = Append(@, cmd)]
          /\ UNCHANGED <<cpc, request_count, log>>
      BY <2>3, <3>1 DEF update_applied_entries, clientVars
    <3>. QED  BY <3>1, <3>2, <3>3, ApplyRefines
  <2>4. CASE handle_append_return(r)
    BY <2>4, StutterRefines DEF handle_append_return, clientVars
  <2>. QED  BY <1>6, <2>1, <2>2, <2>3, <2>4 DEF FollowerStep
<1>7. CASE UNCHANGED vars
  BY <1>7, StutterRefines DEF vars, clientVars, replicaVars
<1>. QED  BY <1>2, <1>3, <1>4, <1>5, <1>6, <1>7 DEF Next, Terminated, LeaderReceive

(***************************************************************************)
(* Raft implements the replicated log: one order, executed without gaps by *)
(* every replica, and an answer only for what has its place in the order.  *)
(***************************************************************************)
THEOREM Refinement == Spec => ImplementsReplicatedLog
<1>1. Init => Abstract!Init
  BY InitRefines DEF Init
<1>2. IInv /\ [Next]_vars => [Abstract!Next]_(Abstract!vars)
  BY StepRefines
<1>. QED  BY <1>1, <1>2, InductiveInvariant, PTL DEF Spec, ImplementsReplicatedLog, Abstract!Spec

(***************************************************************************)
(* So Raft orders every request that it answers, once and in the           *)
(* order of its client, every replica executes that order, and a request   *)
(* issued after an answer comes after what was answered.                   *)
(***************************************************************************)
THEOREM PromiseKept == Spec => Promise
BY Refinement, LogPromise, PTL DEF ImplementsReplicatedLog
==============================================================================
