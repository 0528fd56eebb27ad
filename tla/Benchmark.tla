------------------------------ MODULE Benchmark ------------------------------
(***************************************************************************)
(* The benchmark (client.c, and the results thread of each replica): the   *)
(* program starts, the client joins and sends requests, and two threads    *)
(* measure.  The client's measure_thread cuts the time into runs and in    *)
(* the end tells the client to stop; the results thread samples and resets *)
(* the number of requests that the replica counts.  All share plain        *)
(* memory: an increment is a load and a store (no optimisation is on).     *)
(*                                                                         *)
(* A protocol is one server here that takes a request and answers it.      *)
(* With KVS another client runs (kvs_client.c), of which only joining is   *)
(* modelled.  One client is enough: clients share nothing they measure.    *)
(***************************************************************************)
EXTENDS Startup

CONSTANTS
  Runs,    \* runs of the client that are printed: 5 in the code
  MaxReq   \* bound: requests the client sends

ASSUME BenchmarkAssumption == Runs \in Nat \ {0} /\ MaxReq \in Nat

VARIABLES
  req,         \* the request: "none", "sent", "taken" or "answered"
  srv,         \* server: "poll", "answer", or "load", "store" of num_reqs++
  num_reqs, sreg,    \* the replica's counter, and the register it adds in (or 0)
  executed,    \* history: commands executed
  rpl,         \* results thread: "sample", "reset" or "over"
  runs, run_res,     \* its samples
  mt,          \* measure_thread: "off", "report", "sleep" or "over"
  current_run, exit, \* what it tells the client
  rt,          \* client: number of samples per run; rt[Runs + 1] is min_rt[0]
  idx, reg,    \* client: the run and the register it adds in
  sent,        \* requests sent
  taken        \* history: round trips taken per run

serverVars  == <<srv, num_reqs, sreg, executed>>
resultsVars == <<rpl, runs, run_res>>
measureVars == <<mt, current_run, exit>>
clientVars  == <<rt, idx, reg, sent, taken>>
vars == <<startupVars, req, serverVars, resultsVars, measureVars, clientVars>>

BenchmarkInit ==
  /\ Init
  /\ req = "none"
  /\ srv = "poll" /\ num_reqs = 0 /\ sreg = 0 /\ executed = 0
  /\ rpl = "sample" /\ runs = 0 /\ run_res = [w \in 0 .. Runs + 1 |-> 0]
  /\ mt = "off" /\ current_run = 0 /\ exit = FALSE
  /\ rt = [w \in 0 .. Runs + 1 |-> 0]
  /\ idx = 0 /\ reg = 0 /\ sent = 0
  /\ taken = [w \in 0 .. Runs + 1 |-> 0]

(* The client of a setup goes on after init_consensus_client_bench. *)
At(place, place2) ==
  /\ cpc = place
  /\ cpc' = place2
  /\ UNCHANGED <<setup, mpc, next, thr_args, thr_args2, arg, rpc, replica,
                 kvs_memory, crash, args>>

------------------------------------------------------------------------------
(* The server. *)

CountPlaces_both == {"request", "answer"}

(* Where a handler counts: on a request, or after the answer. *)
CountPlaces ==
  IF setup.algo \in {"BROAD", "CHAIN"} THEN {"request"} ELSE {"answer"}

handle_request ==
  /\ srv = "poll" /\ req = "sent"
  /\ rpc[args.leader] = "loop" /\ replica[args.leader].polls
  /\ req' = "taken"
  /\ srv' = IF "request" \in CountPlaces THEN "load" ELSE "answer"
  /\ executed' = executed + 1
  /\ UNCHANGED <<startupVars, num_reqs, sreg, resultsVars, measureVars, clientVars>>

respond ==
  /\ srv = "answer"
  /\ rpc[args.recv_from] = "loop" /\ replica[args.recv_from].answers
  /\ req' = "answered"
  /\ srv' = IF "answer" \in CountPlaces THEN "load" ELSE "poll"
  /\ UNCHANGED <<startupVars, num_reqs, sreg, executed, resultsVars, measureVars,
                 clientVars>>

num_reqs_load ==
  /\ srv = "load"
  /\ srv' = "store"
  /\ sreg' = num_reqs
  /\ UNCHANGED <<startupVars, req, num_reqs, executed, resultsVars, measureVars,
                 clientVars>>

num_reqs_store ==
  /\ srv = "store"
  /\ srv' = IF req = "taken" THEN "answer" ELSE "poll"
  /\ num_reqs' = sreg + 1
  /\ sreg' = 0
  /\ UNCHANGED <<startupVars, req, executed, resultsVars, measureVars, clientVars>>

------------------------------------------------------------------------------
(* The results thread, which a replica has started: one turn of its loop. *)

results_sample ==
  /\ rpl = "sample"
  /\ \E t \in Threads : rpc[t] = "loop" /\ replica[t].samples
  /\ run_res' = [run_res EXCEPT ![runs] = num_reqs]
  /\ rpl' = "reset"
  /\ UNCHANGED <<startupVars, req, serverVars, runs, measureVars, clientVars>>

results_reset ==
  /\ rpl = "reset"
  /\ num_reqs' = 0
  /\ runs' = runs + 1
  /\ rpl' = IF runs' > Runs + 1 THEN "over" ELSE "sample"
  /\ UNCHANGED <<startupVars, req, srv, sreg, executed, run_res, measureVars, clientVars>>

------------------------------------------------------------------------------
(* measure_thread. *)

measure_thread_early ==
  /\ mt = "report"
  /\ exit' = (current_run >= Runs)
  /\ mt' = IF current_run > Runs THEN "over" ELSE "sleep"
  /\ rt' = IF current_run \in 1 .. Runs THEN [rt EXCEPT ![current_run] = 0] ELSE rt
  /\ UNCHANGED <<startupVars, req, serverVars, resultsVars, current_run, idx, reg,
                 sent, taken>>

(* The test for the last run, and otherwise init_stats for the new one. *)
measure_thread ==
  /\ mt = "report"
  /\ IF current_run > Runs
     THEN mt' = "over" /\ exit' = TRUE /\ UNCHANGED rt
     ELSE /\ mt' = "sleep"
          /\ rt' = IF current_run = 0 THEN rt ELSE [rt EXCEPT ![current_run] = 0]
          /\ UNCHANGED exit
  /\ UNCHANGED <<startupVars, req, serverVars, resultsVars, current_run, idx, reg,
                 sent, taken>>

(* After its sleep. *)
measure_thread_run ==
  /\ mt = "sleep"
  /\ mt' = "report"
  /\ current_run' = current_run + 1
  /\ UNCHANGED <<startupVars, req, serverVars, resultsVars, exit, clientVars>>

------------------------------------------------------------------------------
(* The client. *)

(* init_benchmark_client, up to its loop. *)
init_benchmark_client ==
  /\ ~setup.kvs
  /\ At("joined", "idle")
  /\ mt' = "report"
  /\ UNCHANGED <<req, serverVars, resultsVars, current_run, exit, clientVars>>

consensus_send_request ==
  /\ ~exit /\ sent < MaxReq
  /\ At("idle", "waiting")
  /\ req' = "sent"
  /\ sent' = sent + 1
  /\ UNCHANGED <<serverVars, resultsVars, measureVars, rt, idx, reg, taken>>

(* The answer: a round trip that took too long is not counted. *)
consensus_send_request_recv ==
  /\ req = "answered"
  /\ req' = "none"
  /\ \/ At("waiting", "idle") /\ UNCHANGED <<idx, taken>>
     \/ /\ At("waiting", "load")
        /\ idx' = current_run
        /\ taken' = [taken EXCEPT ![current_run] = @ + 1]
  /\ UNCHANGED <<serverVars, resultsVars, measureVars, rt, reg, sent>>

add_load ==
  /\ At("load", "store")
  /\ reg' = rt[idx]
  /\ UNCHANGED <<req, serverVars, resultsVars, measureVars, rt, idx, sent, taken>>

add_store ==
  /\ At("store", "idle")
  /\ rt' = [rt EXCEPT ![idx] = reg + 1]
  /\ idx' = 0 /\ reg' = 0
  /\ UNCHANGED <<req, serverVars, resultsVars, measureVars, sent, taken>>

(* print_results_file begins, and ends. *)
print_results_file ==
  /\ \/ exit /\ At("idle", "print")
     \/ At("print", "done")
  /\ UNCHANGED <<req, serverVars, resultsVars, measureVars, clientVars>>

------------------------------------------------------------------------------
Running == ~crash /\ mpc # "exit"

benchVars == <<req, serverVars, resultsVars, measureVars, clientVars>>

StartupStep == Starting /\ UNCHANGED benchVars

ServerStep == handle_request \/ respond \/ num_reqs_load \/ num_reqs_store

ResultsStep == results_sample \/ results_reset

MeasureStep == measure_thread \/ measure_thread_run

ClientStep ==
  \/ init_benchmark_client \/ consensus_send_request \/ consensus_send_request_recv
  \/ add_load \/ add_store \/ print_results_file

Next ==
  /\ Running
  /\ StartupStep \/ ServerStep \/ ResultsStep \/ MeasureStep \/ ClientStep

Spec == BenchmarkInit /\ [][Next]_vars

(* Every thread runs on, and wakes up from its sleeps. *)
Fairness ==
  /\ \A t \in Threads : WF_vars(Running /\ ReplicaStart(t) /\ UNCHANGED benchVars)
  /\ WF_vars(Running /\ (MainStep \/ ClientStart) /\ UNCHANGED benchVars)
  /\ WF_vars(Running /\ ServerStep)
  /\ WF_vars(Running /\ ResultsStep)
  /\ WF_vars(Running /\ MeasureStep)
  /\ WF_vars(Running /\ ClientStep)

FairSpec == Spec /\ Fairness

------------------------------------------------------------------------------
(***************************************************************************)
(* The counters are incremented and reset by two threads at once.  A reset *)
(* can be lost (the increment stores what it loaded before) and so can     *)
(* counts; but no window, of the replica or of the client, shows more than *)
(* was executed or measured by then.                                       *)
(***************************************************************************)
CountersBounded ==
  /\ num_reqs <= executed
  /\ \A w \in 0 .. Runs + 1 : run_res[w] <= executed
  /\ \A w \in 0 .. Runs + 1 : rt[w] <= taken[w]

(***************************************************************************)
(* measure_thread resets the statistics the client prints, with nothing    *)
(* but the flag exit between them: once the client prints, no thread       *)
(* touches them any more, nor is the last run still going on.              *)
(***************************************************************************)
PrintedResultsFinal ==
  [][(cpc \in {"print", "done"}) => (current_run = Runs + 1 /\ rt' = rt)]_vars

==============================================================================
