-------------------------------- MODULE Args --------------------------------
(***************************************************************************)
(* The life of the arguments of a benchmark (src/benchmarks/utils.c        *)
(* 184-312): memory objects are created and given to the workers, the      *)
(* workers record latencies into their parts of one array of statistics    *)
(* (src/benchmarks/utils.h 130-149), and everything is released.           *)
(***************************************************************************)
EXTENDS Integers

CONSTANTS
  N,            \* cfg->corelist_size
  MaxStats,     \* bound: cfg->stats, the samples a worker may record
  Prepopulate,  \* BENCHMARK_PREPOPULATE_MAPPINGS
  Dryrun,       \* the first calls that are not recorded (10)
  Delta,        \* sampling_delta, from cfg->rate
  MaxTime,      \* bound: the time a run takes
  MaxCalls,     \* bound: the operations of one worker
  MayFail       \* the calls that may fail: "calloc", "create", "map", "run"

ASSUME ArgsAssumption ==
  /\ N \in Nat \ {0}
  /\ {MaxStats, Prepopulate, Dryrun, Delta, MaxTime, MaxCalls} \subseteq Nat

Tids == 0..(N - 1)
Objects == 1..N
NULL == 0
NoSample == [tid |-> -1, elapsed |-> 0, ops |-> 0]

VARIABLES
  mpc,       \* the next statement of main
  i, j,      \* main: the loop variables
  ret,       \* what prepare_args, or the whole benchmark, returned
  shared,    \* cfg->shared
  stats,     \* cfg->stats
  args,      \* the array of arguments: "none", "live" or "freed"
  vals,      \* whether the array of statistics was allocated
  obj,       \* each memory object: "none", "live", "destroyed" or "twice"
  memobj,    \* args[t].memobj
  maps,      \* the mappings made before the run
  last,      \* cleanup_args: the local memobj
  calls,     \* the calls of add_stats of each worker
  dryrun, idx, next,   \* args[t].stats
  values     \* the array of statistics

main == <<mpc, i, j, ret>>
config == <<shared, stats>>
memory == <<args, vals, obj, memobj, maps, last>>
record == <<calls, dryrun, idx, next, values>>
vars == <<main, config, memory, record>>

TypeOK ==
  /\ mpc \in {"calloc", "vals", "create", "undo", "prepopulate", "fill", "run",
              "cleanup", "returned", "crashed"}
  /\ i \in 0..N /\ j \in 0..N
  /\ ret \in {"none", "ok", "error"}
  /\ shared \in BOOLEAN /\ stats \in 0..MaxStats
  /\ args \in {"none", "live", "freed"} /\ vals \in BOOLEAN
  /\ obj \in [Objects -> {"none", "live", "destroyed", "twice"}]
  /\ memobj \in [Tids -> Objects \union {NULL}]
  /\ maps \in 0..Prepopulate
  /\ last \in Objects \union {NULL}
  /\ calls \in [Tids -> 0..MaxCalls]
  /\ dryrun \in [Tids -> 0..Dryrun]
  /\ idx \in [Tids -> 0..MaxStats]
  /\ next \in [Tids -> 0..(MaxTime + Delta)]
  /\ values \in [0..(N * MaxStats - 1) ->
       [tid : Tids \union {-1}, elapsed : 0..MaxTime, ops : 0..MaxCalls]]

Init ==
  /\ mpc = "calloc" /\ i = 0 /\ j = 0 /\ ret = "none"
  /\ shared \in BOOLEAN /\ stats \in 0..MaxStats
  /\ args = "none" /\ vals = FALSE
  /\ obj = [o \in Objects |-> "none"]
  /\ memobj = [t \in Tids |-> NULL]
  /\ maps = 0 /\ last = NULL
  /\ calls = [t \in Tids |-> 0]
  /\ dryrun = [t \in Tids |-> 0]
  /\ idx = [t \in Tids |-> 0]
  /\ next = [t \in Tids |-> 0]
  /\ values = [k \in 0..(N * MaxStats - 1) |-> NoSample]

------------------------------------------------------------------------------
(* vmops_utils_prepare_args *)

(* args = calloc(corelist_size + 1, ...) *)
CallocArgs ==
  /\ mpc = "calloc"
  /\ \/ mpc' = "vals" /\ args' = "live" /\ UNCHANGED ret
     \/ "calloc" \in MayFail /\ mpc' = "returned" /\ ret' = "error" /\ UNCHANGED args
  /\ UNCHANGED <<i, j, config, vals, obj, memobj, maps, last, record>>

(* Plausible slip: the statistics are not turned off. *)
CallocValsKeep ==
  /\ mpc = "vals"
  /\ mpc' = "create"
  /\ vals' \in (IF stats = 0 THEN {FALSE} ELSE BOOLEAN)
  /\ UNCHANGED <<i, j, ret, config, args, obj, memobj, maps, last, record>>

(* The array of statistics, if any; without memory for it there are none.     *)
CallocVals ==
  /\ mpc = "vals"
  /\ mpc' = "create"
  /\ \/ vals' = (stats > 0) /\ UNCHANGED stats
     \/ stats > 0 /\ "calloc" \in MayFail /\ stats' = 0 /\ UNCHANGED vals
  /\ UNCHANGED <<i, j, ret, shared, args, obj, memobj, maps, last, record>>

(* One memory object for all workers. *)
CreateShared ==
  /\ mpc = "create" /\ shared
  /\ obj' = [obj EXCEPT ![1] = "live"]
  /\ memobj' = [t \in Tids |-> 1]
  /\ mpc' = "prepopulate"
  /\ UNCHANGED <<i, j, ret, config, args, vals, maps, last, record>>

(* One for each worker. *)
CreateOne ==
  /\ mpc = "create" /\ ~shared
  /\ obj' = [obj EXCEPT ![i + 1] = "live"]
  /\ memobj' = [memobj EXCEPT ![i] = i + 1]
  /\ i' = (i + 1) % N
  /\ mpc' = IF i + 1 = N THEN "prepopulate" ELSE "create"
  /\ UNCHANGED <<j, ret, config, args, vals, maps, last, record>>

(* plat_vm_create fails: those made before (none, when shared) are to be      *)
(* destroyed.                                                                 *)
CreateFails ==
  /\ mpc = "create" /\ "create" \in MayFail
  /\ mpc' = "undo"
  /\ UNCHANGED <<i, j, ret, config, memory, record>>

(* plat_vm_destroy reads the object it is given before it frees it. *)
Destroy(o) == obj' = [obj EXCEPT ![o] = IF @ = "destroyed" THEN "twice" ELSE "destroyed"]

(* One turn of for (j = 0; j < i; j++) plat_vm_destroy(args[i].memobj); it    *)
(* crashes when that object is NULL.                                          *)
UndoOne ==
  /\ mpc = "undo"
  /\ j < i
  /\ j' = j + 1
  /\ IF memobj[i] = NULL THEN mpc' = "crashed" /\ UNCHANGED obj
     ELSE Destroy(memobj[i]) /\ UNCHANGED mpc
  /\ UNCHANGED <<i, ret, config, args, vals, memobj, maps, last, record>>

(* err_out: free(args); return -1; *)
ErrOut ==
  /\ args' = "freed"
  /\ mpc' = "returned"
  /\ ret' = "error"

UndoDone ==
  /\ mpc = "undo"
  /\ j = i
  /\ ErrOut
  /\ UNCHANGED <<i, j, config, vals, obj, memobj, maps, last, record>>

(* Plausible slip: one mapping too many. *)
PrepopulateOneMore ==
  /\ mpc = "prepopulate"
  /\ maps <= Prepopulate
  /\ maps' = maps + 1
  /\ UNCHANGED <<main, config, args, vals, obj, memobj, last, record>>

(* plat_vm_map of one page of the first object, never unmapped. *)
PrepopulateOne ==
  /\ mpc = "prepopulate"
  /\ maps < Prepopulate
  /\ maps' = maps + 1
  /\ UNCHANGED <<main, config, args, vals, obj, memobj, last, record>>

PrepopulateFails ==
  /\ mpc = "prepopulate"
  /\ maps < Prepopulate
  /\ "map" \in MayFail
  /\ ErrOut
  /\ UNCHANGED <<i, j, config, vals, obj, memobj, maps, last, record>>

PrepopulateDone ==
  /\ mpc = "prepopulate"
  /\ maps = Prepopulate
  /\ mpc' = "fill"
  /\ UNCHANGED <<i, j, ret, config, memory, record>>

(* Plausible slip: the parts overlap by one sample. *)
SegmentOff(t) == (stats - 1) * t

(* args[i].stats.values *)
Segment(t) == stats * t

(* The fields of every worker's arguments; return 0; *)
FillArgs ==
  /\ mpc = "fill"
  /\ dryrun' = [t \in Tids |-> Dryrun]
  /\ mpc' = "run"
  /\ UNCHANGED <<i, j, ret, config, memory, calls, idx, next, values>>

------------------------------------------------------------------------------
(* The run, and vmops_utils_cleanup_args *)

(* Plausible slip: sampling_next is advanced from its old value. *)
AddStatsDrift(t, elapsed) ==
  IF dryrun[t] > 0
  THEN dryrun' = [dryrun EXCEPT ![t] = @ - 1] /\ UNCHANGED <<idx, next, values>>
  ELSE /\ UNCHANGED dryrun
       /\ IF next[t] > elapsed \/ idx[t] = stats
          THEN UNCHANGED <<idx, next, values>>
          ELSE /\ values' = [values EXCEPT ![Segment(t) + idx[t]] =
                               [tid |-> t, elapsed |-> elapsed, ops |-> calls[t]]]
               /\ idx' = [idx EXCEPT ![t] = @ + 1]
               /\ next' = [next EXCEPT ![t] = @ + Delta]

(* vmops_utils_add_stats(&args->stats, tid, counter, t_elapsed, ...) *)
AddStats(t, elapsed) ==
  IF dryrun[t] > 0
  THEN dryrun' = [dryrun EXCEPT ![t] = @ - 1] /\ UNCHANGED <<idx, next, values>>
  ELSE /\ UNCHANGED dryrun
       /\ IF next[t] > elapsed \/ idx[t] = stats
          THEN UNCHANGED <<idx, next, values>>
          ELSE /\ values' = [values EXCEPT ![Segment(t) + idx[t]] =
                               [tid |-> t, elapsed |-> elapsed, ops |-> calls[t]]]
               /\ idx' = [idx EXCEPT ![t] = @ + 1]
               /\ next' = [next EXCEPT ![t] = elapsed + Delta]

(* plat_get_time() - t_start: the clock is CLOCK_REALTIME, which may be set    *)
(* back while a worker runs (though not before the run began).                *)
Elapsed == 0..MaxTime

(* A worker has executed an operation. *)
Operation(t) ==
  /\ mpc = "run"
  /\ calls[t] < MaxCalls
  /\ calls' = [calls EXCEPT ![t] = @ + 1]
  /\ \E elapsed \in Elapsed : AddStats(t, elapsed)
  /\ UNCHANGED <<main, config, memory>>

(* The threads could not be started: return -1, and nothing is cleaned up.    *)
RunFails ==
  /\ mpc = "run"
  /\ "run" \in MayFail
  /\ mpc' = "returned"
  /\ ret' = "error"
  /\ UNCHANGED <<i, j, config, memory, record>>

(* All workers have been joined, and the results printed. *)
RunDone ==
  /\ mpc = "run"
  /\ mpc' = "cleanup"
  /\ UNCHANGED <<i, j, ret, config, memory, record>>

(* Plausible slip: every worker's object is destroyed, shared or not. *)
CleanupEach ==
  /\ mpc = "cleanup"
  /\ i < N
  /\ Destroy(memobj[i])
  /\ i' = i + 1
  /\ UNCHANGED <<mpc, j, ret, config, args, vals, memobj, maps, last, record>>

(* An object is destroyed unless the worker before has the same. *)
CleanupOne ==
  /\ mpc = "cleanup"
  /\ i < N
  /\ IF memobj[i] # last THEN Destroy(memobj[i]) /\ last' = memobj[i] ELSE UNCHANGED <<obj, last>>
  /\ i' = i + 1
  /\ UNCHANGED <<mpc, j, ret, config, args, vals, memobj, maps, record>>

CleanupDone ==
  /\ mpc = "cleanup"
  /\ i = N
  /\ args' = "freed"
  /\ mpc' = "returned"
  /\ ret' = "ok"
  /\ UNCHANGED <<i, j, config, vals, obj, memobj, maps, last, record>>

Next ==
  \/ CallocArgs
  \/ CallocVals
  \/ CreateShared
  \/ CreateOne
  \/ CreateFails
  \/ UndoOne
  \/ UndoDone
  \/ PrepopulateOne
  \/ PrepopulateFails
  \/ PrepopulateDone
  \/ FillArgs
  \/ \E t \in Tids : Operation(t)
  \/ RunFails
  \/ RunDone
  \/ CleanupOne
  \/ CleanupDone

Spec == Init /\ [][Next]_vars

------------------------------------------------------------------------------
(* Properties *)

(* When the run starts every worker has a live memory object, its own if they *)
(* are to be independent, and the workers' parts of the statistics fit into   *)
(* the array: without it there are no statistics.                             *)
ReadyToRun ==
  mpc = "run" =>
    /\ \A t \in Tids : memobj[t] # NULL /\ obj[memobj[t]] = "live"
    /\ shared \/ \A t, u \in Tids : memobj[t] = memobj[u] => t = u
    /\ stats > 0 => vals

(* No memory object is destroyed twice, nor one that a worker may still use,  *)
(* and a completed benchmark leaves none, be it shared by all or one each.    *)
ObjectsReleased ==
  /\ \A o \in Objects : obj[o] # "twice"
  /\ ret = "ok" => \A o \in Objects : obj[o] # "live"
  /\ mpc = "run" => \A o \in Objects : obj[o] # "destroyed"

(* Though all record into one array, each sample is in the part of the worker *)
(* that took it, the parts are filled from the front, and the first Dryrun    *)
(* operations of a worker are in none.                                        *)
SamplesInPart ==
  \A t \in Tids, n \in 0..(stats - 1) :
    LET s == values[Segment(t) + n] IN
      IF n < idx[t] THEN s.tid = t /\ s.ops >= Dryrun ELSE s = NoSample

(* The samples of one worker are at least the sampling interval apart, however*)
(* unevenly its operations take time, and when the clock is set back.         *)
SamplesSpaced ==
  \A t \in Tids : \A n \in 0..(idx[t] - 2) :
    values[Segment(t) + n].elapsed + Delta <= values[Segment(t) + n + 1].elapsed

------------------------------------------------------------------------------
(* "@returns 0 on success, -1 on failure" (utils.c:182): whichever call of    *)
(* prepare_args fails, it returns.                                            *)
PrepareReturns == mpc # "crashed"
==============================================================================
