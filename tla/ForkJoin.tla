------------------------------ MODULE ForkJoin ------------------------------
(***************************************************************************)
(* What vmops_utils_run_benchmark (src/benchmarks/utils.c 318-367) and the *)
(* run functions promise the vmops_bench_run_* function that calls it: the *)
(* workers measure in parallel, each once, and none before all have been   *)
(* started and have finished or given up their setup; a result of 0 means  *)
(* that all have ended, -1 that not all were started, so that none will    *)
(* ever measure.  How workers wait for each other is left open.            *)
(***************************************************************************)
CONSTANT Threads   \* one worker per entry of the list of cores

VARIABLES
  stage,     \* how far each worker is
  outcome    \* what the caller was told: "none" yet, "ok" (0) or "error" (-1)

vars == <<stage, outcome>>

Stages == {"unborn", "setup", "ready", "measuring", "leaving", "over"}

Init ==
  /\ stage = [t \in Threads |-> "unborn"]
  /\ outcome = "none"

Go(t, from, to) ==
  /\ stage[t] \in from
  /\ stage' = [stage EXCEPT ![t] = to]
  /\ UNCHANGED outcome

Start(t) == outcome = "none" /\ Go(t, {"unborn"}, "setup")

(* The setup is finished, or given up. *)
SetUp(t) == Go(t, {"setup"}, "ready") \/ Go(t, {"setup"}, "leaving")

Measure(t) ==
  /\ \A u \in Threads : stage[u] \notin {"unborn", "setup"}
  /\ Go(t, {"ready"}, "measuring")

Leave(t) == Go(t, {"measuring"}, "leaving")

(* The end of a worker, at any time: it may fail, or be cancelled. *)
End(t) == Go(t, {"setup", "ready", "measuring", "leaving"}, "over")

Return ==
  /\ outcome = "none"
  /\ \/ outcome' = "ok" /\ \A t \in Threads : stage[t] = "over"
     \/ outcome' = "error" /\ \E t \in Threads : stage[t] = "unborn"
  /\ UNCHANGED stage

Next ==
  \/ \E t \in Threads : Start(t) \/ SetUp(t) \/ Measure(t) \/ Leave(t) \/ End(t)
  \/ Return

Spec == Init /\ [][Next]_vars
==============================================================================
