------------------------------ MODULE BenchRun ------------------------------
(***************************************************************************)
(* The harness every benchmark runs in: vmops_utils_run_benchmark          *)
(* (src/benchmarks/utils.c 331-367) on the main thread, the thread and     *)
(* barrier calls of the Linux port (src/platform/linux.c 415-566), and the *)
(* end of a vmops_bench_run_* function (print the CSV, free the arguments).*)
(* A benchmark module EXTENDS this one and adds what its run function does *)
(* between Begin and the end of the thread.                                *)
(***************************************************************************)
EXTENDS Integers, FiniteSets

CONSTANTS
  N,         \* cfg->corelist_size, one worker per entry
  MayFail    \* the calls that may fail in this run, among Failures

Failures == {"barrier_init", "thread_start", "calloc", "map", "unmap", "protect"}

ASSUME BenchRunAssumption == N \in Nat \ {0} /\ MayFail \subseteq Failures

Tids == 0..(N - 1)

VARIABLES
  mpc,         \* main: the next statement of run_benchmark and its caller
  i, j,        \* main: the loop variables
  ret,         \* the result of vmops_bench_run_*: "none", "ok" (0), "error" (-1)
  handle,      \* args[t].thread: "null", "live" or "freed"
  cancelled,   \* the threads pthread_cancel was called for
  pc,          \* the next statement of each worker
  inside, blocked,  \* the barrier
  err,         \* ghost: the first call that failed in each worker, or "none"
  counter,     \* the local variable counter of each worker
  count,       \* args[t].count
  report       \* the counts the CSV shows

main == <<mpc, i, j, ret, handle, cancelled, report>>
barrier == <<inside, blocked>>
harness == <<main, pc, barrier, err, counter, count>>

(* plat_thread_barrier: the abstract barrier, which pthread_barrier_wait is   *)
(* on Linux and SpinBarrier implements on Barrelfish.                         *)
B == INSTANCE Barrier WITH Threads <- Tids

Errors == {"none", "calloc", "setup", "protect", "op", "remap", "cleanup"}

(* The control points of the run functions: before the first barrier ("mapped"*)
(* between the two calls of one setup turn), ...                              *)
BeforeBarrier == {"unborn", "spawned", "alloc", "setup", "mapped", "ready"}
(* ... in the measured part ("half": between the two calls of one operation,  *)
(* "spin": a reader of tlbshoot), ...                                         *)
Measured == {"loop", "half", "spin"}
(* ... inside a call of the barrier, ...                                      *)
Waits == {"ready_wait", "end_wait", "fini_wait"}
(* ... in the cleanup, and at the end of the thread.                          *)
PCs == BeforeBarrier \union Measured \union Waits
         \union {"end", "clean", "fini", "exited", "wild"}

MainTypeOK ==
  /\ mpc \in {"init", "start", "cancel", "join", "print", "cleanup", "returned"}
  /\ i \in 0..N
  /\ j \in 0..N
  /\ ret \in {"none", "ok", "error"}
  /\ handle \in [Tids -> {"null", "live", "freed"}]
  /\ cancelled \subseteq Tids
  /\ inside \subseteq Tids
  /\ blocked \subseteq Tids
  /\ pc \in [Tids -> PCs]
  /\ err \in [Tids -> Errors]

HarnessInit ==
  /\ mpc = "init" /\ i = 0 /\ j = 0 /\ ret = "none"
  /\ handle = [t \in Tids |-> "null"]
  /\ cancelled = {}
  /\ pc = [t \in Tids |-> "unborn"]
  /\ B!Init
  /\ err = [t \in Tids |-> "none"]
  /\ counter = [t \in Tids |-> 0]
  /\ count = [t \in Tids |-> 0]
  /\ report = [t \in Tids |-> 0]

Goto(t, to) == pc' = [pc EXCEPT ![t] = to]
SetErr(t, e) == err' = [err EXCEPT ![t] = IF @ = "none" THEN e ELSE @]

------------------------------------------------------------------------------
(* The main thread *)

(* plat_thread_barrier_init: return -1 when it fails. *)
BarrierInit ==
  /\ mpc = "init"
  /\ \/ mpc' = "start" /\ UNCHANGED ret
     \/ "barrier_init" \in MayFail /\ mpc' = "returned" /\ ret' = "error"
  /\ UNCHANGED <<i, j, handle, cancelled, pc, barrier, err, counter, count, report>>

(* plat_thread_start(runfn, &args[i], args[i].coreid) succeeds. *)
StartThread ==
  /\ mpc = "start"
  /\ i < N
  /\ i' = i + 1
  /\ handle' = [handle EXCEPT ![i] = "live"]
  /\ Goto(i, "spawned")
  /\ UNCHANGED <<mpc, j, ret, cancelled, barrier, err, counter, count, report>>

AllStarted ==
  /\ mpc = "start"
  /\ i = N
  /\ mpc' = "join"
  /\ UNCHANGED <<i, j, ret, handle, cancelled, pc, barrier, err, counter, count, report>>

(* plat_thread_start returns NULL: the threads started so far are cancelled. *)
StartFails ==
  /\ mpc = "start"
  /\ i < N
  /\ "thread_start" \in MayFail
  /\ mpc' = "cancel"
  /\ UNCHANGED <<i, j, ret, handle, cancelled, pc, barrier, err, counter, count, report>>

(* plat_thread_cancel(args[j].thread): pthread_cancel, memset and free of the *)
(* handle, without waiting for the thread.                                    *)
CancelThread ==
  /\ mpc = "cancel"
  /\ j < i
  /\ j' = j + 1
  /\ cancelled' = cancelled \union {j}
  /\ handle' = [handle EXCEPT ![j] = "freed"]
  /\ UNCHANGED <<mpc, i, ret, pc, barrier, err, counter, count, report>>

AllCancelled ==
  /\ mpc = "cancel"
  /\ j = i
  /\ mpc' = "returned"
  /\ ret' = "error"
  /\ UNCHANGED <<i, j, handle, cancelled, pc, barrier, err, counter, count, report>>

(* Plausible slip: the loop does not wait for the thread it joins. *)
JoinNoWait ==
  /\ mpc = "join"
  /\ j < N
  /\ j' = j + 1
  /\ handle' = [handle EXCEPT ![j] = "freed"]
  /\ UNCHANGED <<mpc, i, ret, cancelled, pc, barrier, err, counter, count, report>>

(* plat_thread_join(args[j].thread): wait for the thread, free its handle. *)
JoinThread ==
  /\ mpc = "join"
  /\ j < N
  /\ pc[j] = "exited"
  /\ j' = j + 1
  /\ handle' = [handle EXCEPT ![j] = "freed"]
  /\ UNCHANGED <<mpc, i, ret, cancelled, pc, barrier, err, counter, count, report>>

(* plat_thread_barrier_destroy; vmops_utils_run_benchmark returns 0. *)
AllJoined ==
  /\ mpc = "join"
  /\ j = N
  /\ mpc' = "print"
  /\ UNCHANGED <<i, j, ret, handle, cancelled, pc, barrier, err, counter, count, report>>

(* vmops_utils_print_csv(args): one row per worker. *)
PrintCsv ==
  /\ mpc = "print"
  /\ report' = count
  /\ mpc' = "cleanup"
  /\ UNCHANGED <<i, j, ret, handle, cancelled, pc, barrier, err, counter, count>>

(* vmops_utils_cleanup_args(args); return 0; *)
CleanupArgs ==
  /\ mpc = "cleanup"
  /\ mpc' = "returned"
  /\ ret' = "ok"
  /\ UNCHANGED <<i, j, handle, cancelled, pc, barrier, err, counter, count, report>>

Main ==
  \/ BarrierInit
  \/ StartThread
  \/ AllStarted
  \/ StartFails
  \/ CancelThread
  \/ AllCancelled
  \/ JoinThread
  \/ AllJoined
  \/ PrintCsv
  \/ CleanupArgs

------------------------------------------------------------------------------
(* What a worker does with the harness *)

(* plat_thread_run_fn reads the handle to pin itself and to find the run      *)
(* function, whose first statement is first.  When plat_thread_cancel already *)
(* zeroed and freed the handle, the outcome is undefined: the thread goes     *)
(* wild (it calls NULL), or the memory still reads as before.                 *)
Begin(t, first) ==
  /\ pc[t] = "spawned"
  /\ \/ Goto(t, first)
     \/ handle[t] = "freed" /\ Goto(t, "wild")
  /\ UNCHANGED <<main, barrier, err, counter, count>>

(* A cancelled thread ends at a cancellation point: the message it writes     *)
(* before it calls the barrier.  Waiting in the barrier is not one.           *)
Die(t) ==
  /\ t \in cancelled
  /\ pc[t] \in {"ready", "end"}
  /\ Goto(t, "exited")
  /\ UNCHANGED <<main, barrier, err, counter, count>>

(* A call of plat_thread_barrier in two steps; the result is not looked at.   *)
ArriveAt(t, from, to) ==
  /\ pc[t] = from
  /\ B!Arrive(t)
  /\ Goto(t, to)
  /\ UNCHANGED <<main, err, counter, count>>

LeaveFrom(t, from, to) ==
  /\ pc[t] = from
  /\ B!Leave(t)
  /\ Goto(t, to)
  /\ UNCHANGED <<main, err, counter, count>>

(* The first call of the barrier and the last one that stores the result.     *)
ReadyArrive(t) == ArriveAt(t, "ready", "ready_wait")
ReadyLeave(t) == LeaveFrom(t, "ready_wait", "loop")
EndArrive(t) == ArriveAt(t, "end", "end_wait")

(* The code after the end barrier: args->count = counter; return NULL;        *)
EndLeaveStore(t) ==
  /\ pc[t] = "end_wait"
  /\ B!Leave(t)
  /\ Goto(t, "exited")
  /\ count' = [count EXCEPT ![t] = counter[t]]
  /\ UNCHANGED <<main, err, counter>>

(* return NULL after a failed call: no barrier is called any more.            *)
Desert(t, e) ==
  /\ SetErr(t, e)
  /\ Goto(t, "exited")
  /\ UNCHANGED <<main, barrier, counter, count>>

------------------------------------------------------------------------------
(* Properties of the harness, for every run function *)

(* When not all threads could be started nobody measures anything: the ones   *)
(* that run stay in front of the first barrier until the program ends.        *)
Idle == BeforeBarrier \union {"ready_wait", "end", "end_wait", "exited", "wild"}
PartialStartIdle ==
  (\E u \in Tids : pc[u] = "unborn") => \A t \in Tids : pc[t] \in Idle

(* The arguments are freed (ret = "ok") only when no worker uses them.        *)
ArgsOutliveWorkers == ret = "ok" => \A t \in Tids : pc[t] = "exited"

(* What makes them inductive.  The barrier's participants are the workers     *)
(* inside a call of it;                                                       *)
BarrierInv ==
  /\ blocked \subseteq inside
  /\ \A t \in Tids : t \in inside <=> pc[t] \in Waits
(* main has started the first i workers, and joined the first j of them;      *)
MainInv ==
  /\ \A t \in Tids : pc[t] = "unborn" <=> t >= i
  /\ mpc = "init" => i = 0
  /\ mpc \in {"init", "start"} => j = 0
  /\ mpc = "cancel" => j <= i
  /\ mpc # "returned" => ret = "none"
  /\ mpc = "join" => \A t \in Tids : t < j => pc[t] = "exited"
  /\ mpc \in {"print", "cleanup"} \/ ret = "ok" => \A t \in Tids : pc[t] = "exited"
(* and without all its participants the barrier lets nobody through.          *)
PartialInv ==
  (\E u \in Tids : pc[u] = "unborn") => inside = blocked /\ \A t \in Tids : pc[t] \in Idle

HarnessInv == MainTypeOK /\ BarrierInv /\ MainInv /\ PartialInv

------------------------------------------------------------------------------
(* Every benchmark is a fork and a join around one measurement: the control   *)
(* points of a worker as stages of ForkJoin.  (A worker gone wild has left;   *)
(* it does not measure, and nothing more is said of it.)                      *)
StageOf(p) ==
  CASE p = "unborn" -> "unborn"
    [] p \in {"spawned", "alloc", "setup", "mapped"} -> "setup"
    [] p \in {"ready", "ready_wait"} -> "ready"
    [] p \in Measured -> "measuring"
    [] p = "exited" -> "over"
    [] OTHER -> "leaving"

F == INSTANCE ForkJoin WITH
  Threads <- Tids, stage <- [t \in Tids |-> StageOf(pc[t])], outcome <- ret

(* Whatever the run function and whichever calls fail, the benchmark is a     *)
(* behaviour of ForkJoin: nobody measures before the last worker has set up,  *)
(* twice, or once the arguments may have been freed (utils.c:331-367).        *)
ImplementsForkJoin == F!Spec
==============================================================================
