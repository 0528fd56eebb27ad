# smelt-consensus in TLA+

A verification project for the agreement protocols of `smelt-consensus`: TLA+
modules translated from the C sources, TLC runs on small instances, and TLAPS
proofs for every instance.  Paths below are relative to the repository; the
table `map` of `PROJECT.json` gives, for every definition that models code, the
lines it stands for.

## 1. Inventory

The library runs one of five replication protocols between the cores of one
machine.  Every core runs one thread; threads share nothing but message channels
(of the external Smelt library) and, inside a NUMA node, a shared memory queue.

| component | source | state | operations |
|---|---|---|---|
| Smelt channels | external (`smlt_send`, `smlt_recv`, `smlt_can_recv`) | one bounded FIFO per ordered pair of cores | blocking send and receive, poll |
| client | `client.c` | `id`, `request_count`, one message buffer | `init_consensus_client`, `consensus_send_request`, the benchmark loop |
| two-phase commit | `tpc_replica.c` | `index`, `ready_counter[]` (leader) | `handle_setup/request/prepare/ready/commit`, polling loop |
| 1Paxos | `one_replica.c` | proposals, accepted/learned entries, an entry queue, `last_executed_rid` | `handle_setup/request/accept/learn`, failover handlers |
| Raft | `raft_replica.c` | log queue, `match_index[]`, `next_index[]`, commit and applied index | `handle_request`, `handle_append`, `handle_append_response`, cleanup |
| chain replication | `chain_replica.c` | `index` | `handle_setup/request/commit` |
| broadcast | `broadcast_replica.c` | `index` | `handle_setup/request/commit` |
| shared memory queue | `shm_queue.c` | slots, `write_pos`, `readers_pos[]` | `shm_write`, `shm_read`, `poll_and_execute` |
| queue variants | `test/shm_queue/shm_queue{,2,3,4}.c` | as above, with other hand-shakes | `shm_send_raw`, `shm_receive_raw` and the like |
| composition layer | `com_layer.c`, `replica.c` | thread arguments, `init_done` | start-up of node and core level, `com_layer_core_send_request` |
| key-value store | `kvs_replica.c`, `kvs_client.c` | the table of one replica per NUMA node | `kvs_get`, `kvs_set`, the executed command |
| measurement | `results_*` in each replica, `measure_thread`, `incremental_stats.c` | `num_reqs`, `runs`, `current_run`, `rt[]` | count, sample, reset, print |
| benchmark driver | `bench/main.c` | the configuration | start replicas, start clients, wait |

How they interact.  A client registers with the leader (SETUP) and then sends one
request at a time (REQ), blocking for one message from the replica that answers
(`recv_from`: the leader; in a chain the last replica).  Leader and followers
exchange protocol messages over the same kind of channels.  A replica with an
algorithm below it (`alg_below`) hands each executed command to the core level:
with `ALG_SHM` it writes it to the shared memory queue, which the other cores of
its NUMA node poll.  The main thread starts the replicas and then the clients, hands
each a pointer to its arguments, and between the starts sleeps; two kinds of
threads measure, and share counters with client and replica.

What is hard in this code.  Every `smlt_send` may block inside of a handler, and
a core that is blocked receives nothing: handlers interleave at each send, and
waits can become circular.  No handler compares the position of a command with
what it has executed: agreement rests on the order and completeness of the
channels.  Replies are not matched to requests.  The leader counts votes per
client, not per request.  The shared memory queue synchronises once per lap and
with plain memory accesses.  There is no crash and no message loss inside the
machine, and the failover code of 1Paxos and the elections of Raft are never
reached in the code as it stands (their periodic checks are commented out).
Start-up is synchronised by `sleep`; who leads, who answers and whom a client
asks are worked out in three places for each of the builds (`SMLT`, `KVS`, both,
neither); the measuring threads use no synchronisation at all.

What makes each component correct:
- a replication protocol: all replicas execute prefixes of one order; a command
  is executed by everyone, once; an answer belongs to the request it answers
  and is not given before the command has its place; nothing waits forever;
- the shared memory queue: a reader never takes a slot that is not written or
  that is overwritten; every reader gets every command in order; the writer is
  not blocked forever;
- the composition: what the node level executes the core level executes;
- the start: every thread gets its own arguments, and clients and replicas agree on
  the roles;
- the measurement: no figure shows more than happened, and what is printed is final.

## 2. Plan

Done:

1. `Smelt`, `Client`, `Replica`, `ReplicatedLog`: the channels, the client, what
   all replicas share, and the promise common to all protocols.
2. `TPC`.
3. `BroadcastQueue`, `ShmQueue`, and the proofs of its invariant.
4. `Broadcast`, `Chain`, `OnePaxos`, `Raft`.
5. `Kvs`: the store on top of `OnePaxos` with `KVS`.
6. `Startup`: main, the composition layer, the roles; `Benchmark`: the client, a
   protocol and the measuring threads on top of it.
7. Proofs of the safety properties of `TPC`, `Broadcast`, `Chain`, `OnePaxos`, `Raft`,
   `Kvs`, `Startup` and `Benchmark`, that the protocols implement `ReplicatedLog` and the
   queue `BroadcastQueue`, and what `ReplicatedLog` means for the clients.

A composition of `TPC` with a `ShmQueue` per node was planned and is dropped: the
code cannot run it (section 5), so no reachable state of it is left to check.

To do:

8. The queue variants of `test/shm_queue`, chosen by one constant or in the
   initial state, refining `BroadcastQueue`.

## 3. The modules

`EXTENDS` goes from left to right; `MC_*` only adds the symmetry of the clients, and
`MC_Benchmark` the setups.

    Smelt <- Client <- Replica <- TPC
                          |    <- Broadcast
                          |    <- Chain
                          |    <- OnePaxos <- Kvs
                          |    <- Raft
                          +-- INSTANCE ReplicatedLog (abstract)

    ShmQueue +-- INSTANCE BroadcastQueue (abstract)

    Startup <- Benchmark

A module `X_proofs` holds the theorems about `X`; `OnePaxos_proofs` extends `Kvs` and
holds those about the store as well.  The ones about the protocols extend
`Replica_proofs`, which has what they all need: how a send and a receive change the
channels, what a client's step does, what appending to `log` and `applied` keeps, that
the steps all protocols share are steps of `ReplicatedLog`, and what follows for the
clients of whatever implements it (`LogPromise`).

**Smelt** (external).  `net[from][to]` is the sequence of messages between two
cores, at most `Cap` long.  Every caller of `smlt_send` and `smlt_recv` ignores
the error value; within one machine nothing is lost, and the model loses nothing.

**Client** follows `init_consensus_client` and `consensus_send_request`, each
split between its send and its receive, since both block.  The reply is any
message of `recv_from`; no field of it is read.

**Replica** is what the five `*_replica.c` share.  A replica polls its channels and
runs one handler at a time.  A handler is split at each `smlt_send`, which may
block while other cores go on; `pc` is the place in the handler and `msg` the
message buffer, which handlers rewrite in place (`set_header`, `data[1]`,
`data[3]`).  `log` and `applied` are history variables: the commands in the order
the leader (in 1Paxos the acceptor) gave them, and what each replica has run.
The actions of each protocol carry the names of the handlers; a suffix names the
part: `handle_request` receives and works up to the first send,
`handle_request_send` is one turn of the sending loop, and so on.

**TPC**: `handle_setup/request/prepare/ready/commit`, `ready_counter` per client,
`index`, and `votes` as a history.  **Broadcast** and **Chain**: the same without
votes; in the chain every replica passes a command on before it executes it, and
the tail answers before it executes.  **OnePaxos**: leader 0, acceptor 1, learners.
`execute` does the test for duplicates on `last_executed_rid`; `entry_queue` is the
length of the leader's list, of which nothing but the length is ever used.
`KVS` is the build option that moves the answer from the leader to a learner, and
`RidMod` the number of request ids, 2^32 in the code.  **Raft**: the leader stays
inside `handle_request` until every follower has responded ("append" is its
sending loop, "collect" and "apply" the receiving one).  A list of entries is a
set of records keyed by index; `cleanup_queue`, `remove_entry` and the counting
in `exec_count` are modelled, because the code dereferences what it looks up.

**Kvs** adds the table to 1Paxos.  A step of a replica that executes a command makes
the first of the two stores of `exec_fn` and the replica goes on after the second
(`exec_fn_return`); `kvs_get` loads the two words in two steps.  A client does two
writes and then reads, as the benchmark does.  One key stands for all.

**ShmQueue**: one action per access to shared memory.  A copy into a slot takes
two steps with an incomplete value between them.  The compiler's and processor's
order of accesses is taken to be program order: `bench/Makefile` compiles without
optimisation, and the target is x86 (`Hakefile`).

**Startup**: `main`, `init_protocol_node`, `init_replica`, `init_protocol_core` and
`consensus_bench_clients_init`, one action per replica started.  Each thread has
its own `thr_args` and `thr_args2`, as in the code, where both are thread-local; a
replica starts with a pointer (`arg`) and reads through it (`Read`) when it runs.
`init_state` is what the init functions of the five protocols make of the
arguments.  A setup is a choice of protocol, level below, build (`smlt`, `kvs`), NUMA
node of the client, and of whether sleeps are long enough (`timely`); every
behaviour has one.  A `sleep` is a condition, `SleepOver`, for timely setups and
nothing for others.

**Benchmark** goes on where `Startup` stops.  The protocols are modelled elsewhere; here
one server takes a request and answers it, if the replicas in question poll and
answer, and counts it in the place where the protocol does.  `num_reqs++` and `add`
are a load and a store; `results_*` samples and resets in two steps, and
`measure_thread` tests, resets, sleeps and increments `current_run`.  The client adds
to `rt[current_run]` with the value it finds after the answer.

**ReplicatedLog** and **BroadcastQueue** say in twenty lines what the protocols
and the queue promise.  The refinement mapping of the protocols is the identity
on the histories, `request_count` for what is answered, and one more for what is
issued while a client waits.

Operators that sit right before a definition and bear its name with a suffix
(`_mut`, `_early`, `_skip`, ...) are variants of it with a mistake that a
programmer could make.  Nothing uses them; putting one in the place of the
definition must break the property that `PROJECT.json` names under `mutants`.

## 4. The runs

| run | instance | distinct states | what it shows |
|---|---|---|---|
| `tpc` | 3 replicas, 2 clients x 3 requests, `Cap` 1 | 16,815 | agreement, votes, answers, progress, refinement |
| `broadcast` | 3 replicas, 2 clients x 3, `Cap` 1 | 4,841 | safety, progress, refinement |
| `chain` | 4 replicas, 2 clients x 2, `Cap` 1 | 7,593 | safety, progress, refinement |
| `onepaxos` | 3 replicas, 2 clients x 3, `Cap` 1 | 8,981 | safety, progress, refinement |
| `kvs` | 4 replicas, 2 clients x 3, 1 read, `Cap` 1 | 911,511 | reads of own writes, no circular wait |
| `onepaxos_wrap` | 2 replicas, 1 client x 3, `RidMod` 2 | violation | a request after the wrap is dropped |
| `raft` | 5 replicas, 2 clients x 3, `Cap` 1 | 899,530 | lists, rounds, majority |
| `raft_live` | 3 replicas, 2 clients x 2, `Cap` 1 | 11,633 | progress, refinement |
| `raft_majority` | 4 replicas | violation | two of four are taken for a majority |
| `shm_paced` | 3 readers, 4 slots, 11 writes, callers paced | 17,733 | order, wholeness, laps, progress, refinement |
| `shm_lost_lap` | 2 readers, 3 slots, 7 writes | violation | an unpaced writer overtakes a reader |
| `benchmark` | 4 replicas, 3 cores per node, 30 setups, 1 run, 2 requests | 248,837 | roles, counters, the end of the benchmark |

Safety runs use the symmetry of the clients, which only occur as keys and in
comparisons; runs with liveness properties do not.

**Bounds.**  `MaxReq` caps the requests of a client, `Cap` a channel, `MaxWrites`
the writes.  Two requests per client are enough for an answer, a vote or a
duplicate of one request to meet the next one of the same client; two or three
clients are enough for requests of different clients to be in progress at once,
and more of them only repeat that.  Two followers can answer in both orders,
and a third one (chain of four, Raft with five) makes loops go on past the first
turn and majorities differ from "one" and "all".  The library's channels have
several slots; one or two are the sizes at which sends block soonest, and every
other size lies between those and never blocking.  Six entries make Raft's lists
pass their steady length of four; eleven writes over four slots make the ring
wrap twice.  `benchmark` has four replicas as in `bench/README.md`: enough for
first, second, last and another one to differ, and for the NUMA nodes 0 and 1,
which `consensus_bench_clients_init` treats specially, and two more.  Its setups
(`MC_Benchmark`) are those that `bench/README.md` says work, and Raft.  `Runs` is 1
instead of 5 and so `rt` has two elements instead of six: enough for a run that is
not printed, one that is, and the index behind the array; two requests let one
sample be added while a reset or the end of a run comes, and another one after it.

**How many clients are safe.**  `smlt_send` blocks inside of handlers, so two
replicas can wait for each other.  What prevents it is only that a client has one
request at a time.  `SafeClients` is the number up to which it cannot happen:
`Cap + (Cap + 2) \div 2` for TPC (the votes of `Cap + 1` clients fill the way back;
the `Cap + 1` messages on the way there can be a COM and a PREP of the same
client), `2 * Cap + 1` for 1Paxos, and `Cap + 1` for 1Paxos with `KVS`, because the
learner answers, and the client sends its next request, while the LEARN is
still on its way to the leader.  Two runs use exactly as many clients as `Cap`
bears (`tpc`, `kvs`), and with one more TLC finds the wait.  Nothing in the
code compares the number of clients with the size of a channel.

**Fairness.**  Every replica and client is a thread on a core of its own, so each
has weak fairness.  The leader polls all channels in turn, `j++` modulo their
number, and handles what it finds: a channel that holds a message again and again
when the leader polls is served.  That is strong fairness per source.  Within a
handler weak fairness is enough.  The queue needs no more than weak fairness of
the writer inside a call and of each reader; nothing makes a caller call.  Of
start-up and measurement every thread has weak fairness: each runs on and its
sleeps end.  How long they last relative to each other is left open, except for
those of `main` in the timely setups.  One setup has sleeps of any length
(`Hasty`), in which the leader is the second replica started: without `KVS` the
system starts in any case, since a request waits in its channel for the replica.

## 5. What the code relies on, and where it does not hold

- *Agreement rests on the channels.*  No replica of TPC, Broadcast or Chain
  compares the index of a command with what it has executed.  `CommitsInTransit`,
  `LinksHoldLog` and `LearnsInTransit` say why that is enough: a channel holds
  exactly what the receiver has yet to execute, in order and once.
- *A client takes any message for its answer*: one too many would shift all later
  ones.  `AnswerMatchesRequest`, `AnswerAfterBroadcast`, `AnswerHeldByAll` and
  `AnswersExecutedLocally` exclude that, and say who has executed the command.
- *The shared memory queue loses laps* (`shm_lost_lap`).  `check_readers_end` takes
  position 0 for "finished the lap"; a reader that has not begun it stands there
  too.  `KeepsUp` is the condition on the callers under which the queue is
  correct: a reader at position 0 is less than a lap behind.  Nothing enforces it.
- *Raft's majority* (`raft_majority`) counts `(num_replicas - 1) / 2` followers and
  the leader: for four replicas, as configured in `bench/README.md`, two of four.
  For an odd number it is right (`raft`).
- *Raft's last command* is executed by the followers only when another one is
  ordered, since heartbeats are commented out: hence `FollowersOneBehind` instead
  of `EveryCommandApplied`, in `ProgressOneBehind`.
- *Reads of the store are local*.  A client of a learner's node reads its own last
  write or a later one (`ReadsOwnWrites`), though possibly a word of each; a client
  of node 0 or 1 reads the memory of the leader or of the acceptor, and there its
  answered writes are only on their way (`WritesReachLocal`).
- *1Paxos drops requests after 2^32* (`onepaxos_wrap`, with one bit instead of 32):
  the duplicate test is `>=` on a number that wraps, and the client then waits for
  an answer that never comes.
- *A level below crashes the program* (`BenchmarkEnds`).  `bench/README.md:26-31` lists
  1Paxos, TPC, BROAD and CHAIN over SHM as working.  `init_protocol_core` fills
  `thr_args2[i]` and passes `&thr_args[i]` (`com_layer.c:102`, `:125`), the array of
  the same thread that nobody has written.  The core-level replica finds zeros:
  protocol 0 (1Paxos), protocol 0 below, no cores.  It starts that level, and
  `com_layer_core_init` reads `cores[0]` of a null pointer (`com_layer.c:226`).  With
  `thr_args2` in `CorePointer` TLC finds no crash any more.  Built with `SMLT` the
  program refuses such a setup (`bench/main.c:206`).
- *A client of the store relies on sleeps.*  It asserts that the table of its node is
  there (`kvs_client.c:173`), and only the sleeps before it make it so: the setups
  with `KVS` are all timely, and with one that is not TLC finds the failed assertion.
- *Counters are shared without synchronisation.*  A reset between load and store of an
  increment is lost, so a sample can cover two windows, and requests can be counted
  in none.  What remains is `CountersBounded`: no figure is higher than the number of
  requests up to then.  The client uses `rt` at the index 6 of 6 elements between the
  last increment of `current_run` and its own test of `exit`; it then writes `min_rt`,
  which nothing reads, and what is printed is final (`PrintedResultsFinal`).

## 6. Proofs

All proofs are for every number of replicas, clients, readers and slots, every
channel capacity and every number of requests or writes, from the assumptions in the
modules: at least two replicas (1Paxos: also who learns and who answers), one slot per
channel, two slots in the ring; clients are no numbers; a client of TPC, Broadcast and
Raft hears from the leader and one of a chain from its tail (`AnswersFromLeader`,
`AnswersFromTail`), which is what `consensus_bench_clients_init` passes on as `recv_from`
and what `RolesAgree` of `Startup` shows; a client of the store has a replica on its
node, and `recv_from` is worked out from that (`LocalAssumption`).

The argument about a protocol has three layers, each in one module.

1. *Agreement.*  `Agreement` is not inductive: that a follower executes the right
   command depends on what is in its channel, and that the right command is put there
   depends on what the leader holds in its hands between two sends of one handler.  So
   the invariant adds what is in transit and what is in hand.
2. *Clients.*  The answer a client takes is not compared with anything, so it is the
   right one only if there is no other.  `OneMessage(c)` says where the one message is
   that belongs to client `c`: on its way to the leader, in the hands of a replica, in
   the protocol, or on its way back.
3. *Refinement.*  With both, every step is one of `ReplicatedLog` or leaves it
   unchanged: a request is ordered only if its client waits and it is not in the log, a
   command executed is the next one, and what a client takes is the answer to a
   command in the log.  `Refinement` in each module combines the steps.  `LogPromise` in
   `Replica_proofs` says what that is worth to a client, and `PromiseKept` in each module
   that the protocol keeps it: `OneOrder` (all answered requests are in the log, those of
   a client once and in its order, none before it was issued, and all replicas execute
   that log), and that the log only grows.  So a request that is issued after another
   was answered comes after it, whoever issued the two.

| module | inductive invariant | what is special |
|---|---|---|
| `TPC_proofs` | `AgreementInv`: `CommitsInTransit`, `CommitInHand`, `Agreement`; `IInv` adds the votes and the clients | Votes are counted per client.  `IInv` says which of the PREP of a request are on their way, in whose hands the vote is, and which votes are on their way back or counted, so that `ready_counter[c]` is the number of counted ones. |
| `Broadcast_proofs` | `IInv` with `CommitsInTransit`, `CommitInHand`, `ClientsServed` | The leader answers last: `BroadcastDone` says that every follower then has the command in reach. |
| `Chain_proofs` | `IInv` with `ChainInv`, `ClientsServed`, `NoRepeats` | `ChainOrder`: nobody has taken what a replica on its left has not passed on.  The tail answers before it executes, so its answers are counted by `Forwarded(Last)`. |
| `OnePaxos_proofs` | `OrderInv` (no assumption on the ids), `IInv` adds `AnswersInv`; `StoreInv` of the store | The order is the acceptor's.  `execute` drops what it takes for a duplicate; that it never does for a new request needs `LogSorted`, `LastExecuted` and that a request is ordered once. |
| `Raft_proofs` | `LogInv`: the leader's round, the lists, the followers; `IInv` adds the clients | At most one entry is on its way, and it is the last: `FollowerRound` says where for each follower.  The rest is about lists that are pruned. |
| `ShmQueue_proofs` | `IInv` with `InLaps`, `ResultsConsecutive` | For callers that keep up; see below. |
| `Benchmark_proofs` | `IInv` = `StartupInv` and `CountersInv` | No protocol: who fills which array of arguments, and what a load and a store of a shared counter can lose. |

*What 1Paxos needs besides.*  `OrderCorrect`, `LearnsInTransitCorrect` and
`EntryQueueBoundedCorrect` hold whatever the ids do.  The other theorems have a
premise: `RidsSuffice`, that a client issues no more requests than there are ids (2^32
in the code; `onepaxos_wrap` shows what happens after that).  `NoCircularWaitCorrect`
also has `FewClients`: no more clients than `SafeClients`.  It is a pigeonhole argument:
for leader and acceptor to wait for each other there must be a full channel of requests
and a full channel of LEARNs and one message in each one's hands; `IInv` gives
different clients to all requests that are not ordered, `OrderInv` different positions
of the log to the LEARNs, and, unless `KVS` is set, different clients to those as well.
So the bound is the one that the runs find, for every capacity.

*The store.*  Every step of `Kvs` is one of `OnePaxos` or changes nothing of it
(`StoreRefines1Paxos`), so `IInv` holds below the store.  `WritesReachLocal` follows from
it: the loop of the acceptor reaches the replica on node 0 before the learner of node 2,
so what that learner has executed is at least in the channel to replica 0 (`LearnsReach`),
and what anybody has executed, the acceptor of node 1 has executed or holds
(`AcceptorReach`).  `ReadsOwnWrites` needs `StoreInv`: between the two stores of `exec_fn`
memory holds one word of each of the last two commands (`MemoryHolds`), but the answer
leaves after the second store, so that a client with its answer finds both words of its
command or of later ones (`AnswersStored`), at each of its loads (`ReadInv`).  The
premises are `KVS` and `RidsSuffice`.

*What holds Raft together.*  The leader handles the responses one after the other inside
of `handle_request`, so follower `r` has not got the last entry (`Unsent`), or is done with
it (`Collected`), or exactly one message is between the two of them (`Requested`,
`Replying`, `Replied`).  From that follow the indices: every follower has the last entry or
all but that, and `commit_index` is one or two behind.  An entry leaves the leader's list
when `exec_count` is `N`; `Counts` gives that number for the last entry at every place of
the round, and `LeaderList` what is left of the ones before it, so that each lookup finds
its entry (`EntriesPresentCorrect`) and no list grows (`ListsBoundedCorrect`).
`CommitIndex` evaluates the loop of `update_commit_index_leader`: the index reaches the
last entry with the response of follower `Needed`, the larger of 1 and `majority`.
`CommittedByMajorityCorrect` has a premise: an odd number of replicas, or two.  It cannot
do without, as `raft_majority` shows for four.

*The queue.*  `ShmQueue_proofs` proves the type invariant whatever the callers do, and
for paced callers `InLaps`, `ResultsConsecutive`, `PointerStable` and the refinement of
`BroadcastQueue`, where only `shm_write_advance` and `execute` are seen.
`ResultsConsecutive` is not inductive: `IInv` adds `InLaps`, which says what each slot
holds (the current lap below `write_pos`, the one before above it), that a reader is in
the writer's lap or finishing the one before while the writer waits before slot 0,
and that the readers the scan has passed have finished.  `KeepsUp` is used in one
place: when the last slot of a lap is about to be written, no reader still stands
at the start of that lap.  A reader that the scan then finds at position 0 has
finished it.  `TypeOK` of the queue is not listed among its run's invariants: `InLaps`
says more.

*The start and the counters.*  `RolesAgree` needs `NodeHasItsArgs` (a replica reads the
element of `thr_args` that main filled for it before it was created, whatever the sleeps
do) and `CoresFindZero` (a replica below reads an array nobody has filled, and crashes).
`CountersBounded` needs that between load and store the thread is behind what has
happened (`ServerBehind`, `ClientBehind`): a lost reset cannot make a figure too high.
The proof found a mistake in an earlier `Startup`, whose arrays had as many elements as
are written: a replica below looks up in `thr_args` the index that was meant for
`thr_args2`, and with more cores in a node than there are nodes that was behind its end.
In the code both arrays have 64 elements (`Slots`).

Only model-checked: liveness under fairness (`Progress`, `ProgressOneBehind`,
`BenchmarkEnds`), which this prover does not reach.  That a premise is needed
(`Paced`, `RidsSuffice`, `FewClients`, an odd number of replicas) is shown by TLC alone:
`shm_lost_lap`, `onepaxos_wrap`, `raft_majority`, and, for one client more than
`SafeClients`, a state TLC finds when the instance of `kvs` is given one.

## 7. Not modelled

- The core level beyond its start (`com_layer_core_send_request`, the branches for
  `CORE_LEVEL`): the program crashes before.  So the slot size of 1Paxos
  (`get_cmd_size`, under `hazards`) never matters.
- Of the store, the test of the key in `exec_fn` (off by one, under `hazards`) and its
  measuring thread.
- The message flow of the build with SMLT trees: the tree belongs to the library.  Its
  roles are in `Startup`.
- Of the measurement, the averages in floating point (`incremental_stats.c`: only the
  number of samples is modelled) and the thread of `kvs_client.c`.
- Real time: in the model sleeps end in any order, and `main` does not exit after its
  126 seconds (`bench/main.c:251`).  Memory in bytes (`core_tmp`, under `hazards`).
- `VERIFY` (the CRC): not compiled in, and its call in `one_replica.c` does not compile.
- Failover and election code that no reachable state runs, and Raft's branches that
  refuse and resend entries (`EntriesPresent` and `RoundsMatch` show that they are not
  reached).
- The vendored UMP queue and the other queue variants (the latter planned), scripts
  and plots.
