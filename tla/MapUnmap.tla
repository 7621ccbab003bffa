------------------------------ MODULE MapUnmap ------------------------------
(***************************************************************************)
(* The mapunmap and maponly benchmarks, src/benchmarks/mapunmap.c: the four*)
(* run functions (bench_run_fn, bench_run_4k_fn, bench_run_nounmap_fn and  *)
(* bench_run_nounmap_4k_fn), one step per system call and barrier call,    *)
(* run by the harness of BenchRun.  Time is abstract: a timed run may find *)
(* its time over whenever it looks.                                        *)
(***************************************************************************)
EXTENDS PlatVm

CONSTANTS
  Configs,   \* the configurations of the run, among AllConfigs
  NMaps,     \* memsize / PLAT_ARCH_BASE_PAGE_SIZE
  MaxOps     \* bound: the operations of one worker (nops = 0 means SIZE_MAX)

AllConfigs == [map4k : BOOLEAN, nounmap : BOOLEAN, isolated : BOOLEAN,
               timed : BOOLEAN, nops : 0..MaxOps]

(* The memory of one worker fits into its 512 GB; its operations need not.    *)
ASSUME MapUnmapAssumption ==
  /\ NMaps \in 1..RegionSlots
  /\ MaxOps \in Nat \ {0}
  /\ Configs \subseteq AllConfigs
  /\ \A c \in Configs : c.timed \/ c.nops > 0

VARIABLES
  cfg,       \* the configuration
  step,      \* the loop variable of setup and cleanup of each worker
  addrs      \* the array addrs of each worker; entry 0 is addr in bench_run_fn

vars == <<harness, vm, cfg, step, addrs>>
locals == <<vm, step, addrs>>

TypeOK ==
  /\ MainTypeOK
  /\ counter \in [Tids -> 0..MaxOps]
  /\ count \in [Tids -> 0..MaxOps]
  /\ report \in [Tids -> 0..MaxOps]
  /\ vm \in [Slots -> Tids \union {NoOne}]
  /\ cfg \in Configs
  /\ step \in [Tids -> 0..NMaps]
  /\ addrs \in [Tids -> [0..(NMaps - 1) -> Slots \union {NULL}]]

Init ==
  /\ HarnessInit
  /\ vm = [a \in Slots |-> NoOne]
  /\ cfg \in Configs
  /\ step = [t \in Tids |-> 0]
  /\ addrs = [t \in Tids |-> [k \in 0..(NMaps - 1) |-> NULL]]

------------------------------------------------------------------------------
(* bench_run_4k_fn: the only function with a setup and a cleanup *)
FourK == cfg.map4k /\ ~cfg.nounmap
(* the functions that go to the end barrier when an operation fails *)
Lenient == cfg.map4k

(* if (nops == 0) nops = SIZE_MAX; *)
OpsLimit == IF cfg.nops = 0 THEN MaxOps ELSE cfg.nops

(* Plausible slip: counter <= nops. *)
MoreByOne(t) == counter[t] <= OpsLimit

(* while (t_current < t_end && counter < nops) *)
More(t) == counter[t] < OpsLimit
(* The time may be over at any turn but the first: t_end > t_start. *)
Enough(t) == (cfg.timed /\ counter[t] > 0) \/ counter[t] = OpsLimit

(* The slots a mapping meant for a may come to: a itself when isolated. *)
Targets(a) == IF cfg.isolated THEN {a} ELSE FreePool

(* Where the next mapping of maponly may be made: the kernel maps nothing     *)
(* beyond the address space, nor when it has no address left.                 *)
Room(t) == Targets(RegionBase(t) + counter[t]) \intersect Slots

(* idx = (page++) % nmaps, page starting at tid *)
Idx(t) == (t + counter[t]) % NMaps

CountOp(t) == counter' = [counter EXCEPT ![t] = @ + 1]

(* vmpos_bench_run_mapunmap chose the run function from cfg. *)
BeginRun(t) ==
  /\ Begin(t, IF FourK THEN "alloc" ELSE "ready")
  /\ UNCHANGED <<cfg, locals>>

(* addrs = calloc(nmaps, ...) *)
Alloc(t) ==
  /\ pc[t] = "alloc"
  /\ \/ Goto(t, "setup") /\ UNCHANGED <<main, barrier, err, counter, count>>
     \/ "calloc" \in MayFail /\ Desert(t, "calloc")
  /\ UNCHANGED <<cfg, locals>>

(* One turn of the loop that maps the pages before the measurement. *)
Setup(t) ==
  /\ pc[t] = "setup"
  /\ \E a \in Targets(RegionBase(t) + step[t]) :
       /\ Mmap(t, a)
       /\ addrs' = [addrs EXCEPT ![t][step[t]] = a]
  /\ step' = [step EXCEPT ![t] = IF @ + 1 = NMaps THEN 0 ELSE @ + 1]
  /\ Goto(t, IF step[t] + 1 = NMaps THEN "ready" ELSE "setup")
  /\ UNCHANGED <<main, barrier, err, counter, count, cfg>>

(* goto cleanup_and_exit, which skips the first barrier. *)
SetupFails(t) ==
  /\ pc[t] = "setup"
  /\ "map" \in MayFail
  /\ SetErr(t, "setup")
  /\ Goto(t, "end")
  /\ step' = [step EXCEPT ![t] = 0]
  /\ UNCHANGED <<main, barrier, counter, count, cfg, vm, addrs>>

------------------------------------------------------------------------------
(* The measured loops *)

(* bench_run_fn: map memsize bytes, ... *)
MapOne(t) ==
  /\ pc[t] = "loop" /\ ~cfg.map4k /\ ~cfg.nounmap
  /\ More(t)
  /\ \E a \in Targets(RegionBase(t)) :
       Mmap(t, a) /\ addrs' = [addrs EXCEPT ![t][0] = a]
  /\ Goto(t, "half")
  /\ UNCHANGED <<main, barrier, err, counter, count, cfg, step>>

(* ... and unmap them again. *)
UnmapOne(t) ==
  /\ pc[t] = "half" /\ ~FourK
  /\ Munmap(addrs[t][0])
  /\ CountOp(t)
  /\ Goto(t, "loop")
  /\ UNCHANGED <<main, barrier, err, count, cfg, step, addrs>>

UnmapOneFails(t) ==
  /\ pc[t] = "half" /\ ~FourK
  /\ "unmap" \in MayFail
  /\ Desert(t, "op")
  /\ UNCHANGED <<cfg, locals>>

(* bench_run_4k_fn: unmap one of the pages, ... *)
Unmap4k(t) ==
  /\ pc[t] = "loop" /\ FourK
  /\ More(t)
  /\ Munmap(addrs[t][Idx(t)])
  /\ Goto(t, "half")
  /\ UNCHANGED <<main, barrier, err, counter, count, cfg, step, addrs>>

Unmap4kFails(t) ==
  /\ pc[t] = "loop" /\ FourK
  /\ More(t)
  /\ "unmap" \in MayFail
  /\ SetErr(t, "op")
  /\ Goto(t, "end")
  /\ UNCHANGED <<main, barrier, counter, count, cfg, locals>>

(* Plausible slip: the address the kernel chose is not kept. *)
Remap4kForget(t) ==
  /\ pc[t] = "half" /\ FourK
  /\ \E a \in Targets(addrs[t][Idx(t)]) : Mmap(t, a)
  /\ CountOp(t)
  /\ Goto(t, "loop")
  /\ UNCHANGED <<main, barrier, err, count, cfg, step, addrs>>

(* ... and map it again, at the same address when isolated. *)
Remap4k(t) ==
  /\ pc[t] = "half" /\ FourK
  /\ \E a \in Targets(addrs[t][Idx(t)]) :
       Mmap(t, a) /\ addrs' = [addrs EXCEPT ![t][Idx(t)] = a]
  /\ CountOp(t)
  /\ Goto(t, "loop")
  /\ UNCHANGED <<main, barrier, err, count, cfg, step>>

(* The entry of addrs keeps the address that is no longer mapped. *)
Remap4kFails(t) ==
  /\ pc[t] = "half" /\ FourK
  /\ "map" \in MayFail
  /\ SetErr(t, "remap")
  /\ Goto(t, "end")
  /\ UNCHANGED <<main, barrier, counter, count, cfg, locals>>

(* Plausible slip: addr is advanced twice. *)
MapOnlyStride(t) ==
  /\ pc[t] = "loop" /\ cfg.nounmap
  /\ More(t)
  /\ \E a \in Targets(RegionBase(t) + 2 * counter[t]) \intersect Slots : Mmap(t, a)
  /\ CountOp(t)
  /\ UNCHANGED <<main, pc, barrier, err, count, cfg, step, addrs>>

(* bench_run_nounmap_fn and bench_run_nounmap_4k_fn: map at the next address, *)
(* which leaves the region after RegionSlots operations.                      *)
MapOnly(t) ==
  /\ pc[t] = "loop" /\ cfg.nounmap
  /\ More(t)
  /\ \E a \in Room(t) : Mmap(t, a)
  /\ CountOp(t)
  /\ UNCHANGED <<main, pc, barrier, err, count, cfg, step, addrs>>

(* Plausible slip: return NULL in every function. *)
MapFailsDesert(t) ==
  /\ pc[t] = "loop" /\ ~FourK
  /\ More(t)
  /\ "map" \in MayFail \/ (cfg.nounmap /\ Room(t) = {})
  /\ Desert(t, "op")
  /\ UNCHANGED <<cfg, locals>>

(* A map in the loop of any function but bench_run_4k_fn fails: return NULL,  *)
(* but goto cleanup_and_exit in bench_run_nounmap_4k_fn.                      *)
MapFails(t) ==
  /\ pc[t] = "loop" /\ ~FourK
  /\ More(t)
  /\ "map" \in MayFail \/ (cfg.nounmap /\ Room(t) = {})
  /\ \/ ~Lenient /\ Desert(t, "op")
     \/ /\ Lenient
        /\ SetErr(t, "op")
        /\ Goto(t, "end")
        /\ UNCHANGED <<main, barrier, counter, count>>
  /\ UNCHANGED <<cfg, locals>>

(* Plausible slip: the count is not stored. *)
LoopEndLost(t) ==
  /\ pc[t] = "loop"
  /\ Enough(t)
  /\ Goto(t, "end")
  /\ UNCHANGED <<main, barrier, err, counter, count, cfg, locals>>

(* The end of the loop; the 4k functions store their result here.            *)
LoopEnd(t) ==
  /\ pc[t] = "loop"
  /\ Enough(t)
  /\ Goto(t, "end")
  /\ count' = [count EXCEPT ![t] = IF cfg.map4k THEN counter[t] ELSE @]
  /\ UNCHANGED <<main, barrier, err, counter, cfg, locals>>

------------------------------------------------------------------------------
(* After the end barrier *)

EndLeave(t) ==
  /\ \/ ~cfg.map4k /\ EndLeaveStore(t)
     \/ FourK /\ LeaveFrom(t, "end_wait", "clean")
     \/ cfg.map4k /\ cfg.nounmap /\ LeaveFrom(t, "end_wait", "exited")
  /\ UNCHANGED <<cfg, locals>>

(* Plausible slip: for (i = 0; i < nmaps - 1; i++). *)
CleanShort(t) ==
  /\ pc[t] = "clean"
  /\ addrs[t][step[t]] # NULL
  /\ Munmap(addrs[t][step[t]])
  /\ step' = [step EXCEPT ![t] = @ + 1]
  /\ Goto(t, IF step[t] + 2 >= NMaps THEN "fini" ELSE "clean")
  /\ UNCHANGED <<main, barrier, err, counter, count, cfg, addrs>>

(* One turn of the cleanup loop; a failed munmap is only logged. *)
Clean(t) ==
  /\ pc[t] = "clean"
  /\ \/ /\ addrs[t][step[t]] # NULL
        /\ \/ Munmap(addrs[t][step[t]]) /\ UNCHANGED err
           \/ "unmap" \in MayFail /\ SetErr(t, "cleanup") /\ UNCHANGED vm
     \/ addrs[t][step[t]] = NULL /\ UNCHANGED <<vm, err>>
  /\ step' = [step EXCEPT ![t] = @ + 1]
  /\ Goto(t, IF step[t] + 1 = NMaps THEN "fini" ELSE "clean")
  /\ UNCHANGED <<main, barrier, counter, count, cfg, addrs>>

FiniArrive(t) == ArriveAt(t, "fini", "fini_wait") /\ UNCHANGED <<cfg, locals>>
FiniLeave(t) == LeaveFrom(t, "fini_wait", "exited") /\ UNCHANGED <<cfg, locals>>

(* Plausible slip: the barrier before the cleanup is forgotten. *)
EndNoBarrier(t) ==
  /\ pc[t] = "end"
  /\ FourK
  /\ Goto(t, "clean")
  /\ UNCHANGED <<main, barrier, err, counter, count, cfg, locals>>

CallEndBarrier(t) == EndArrive(t) /\ UNCHANGED <<cfg, locals>>

(* Plausible slip: the first barrier is forgotten. *)
ReadyNoBarrier(t) ==
  /\ pc[t] = "ready"
  /\ Goto(t, "loop")
  /\ UNCHANGED <<main, barrier, err, counter, count, cfg, locals>>

CallReadyBarrier(t) == ReadyArrive(t) /\ UNCHANGED <<cfg, locals>>
PassReadyBarrier(t) == ReadyLeave(t) /\ UNCHANGED <<cfg, locals>>
DieCancelled(t) == Die(t) /\ UNCHANGED <<cfg, locals>>

------------------------------------------------------------------------------
Worker(t) ==
  \/ BeginRun(t)
  \/ Alloc(t)
  \/ Setup(t)
  \/ SetupFails(t)
  \/ CallReadyBarrier(t)
  \/ PassReadyBarrier(t)
  \/ MapOne(t)
  \/ UnmapOne(t)
  \/ UnmapOneFails(t)
  \/ Unmap4k(t)
  \/ Unmap4kFails(t)
  \/ Remap4k(t)
  \/ Remap4kFails(t)
  \/ MapOnly(t)
  \/ MapFails(t)
  \/ LoopEnd(t)
  \/ CallEndBarrier(t)
  \/ EndLeave(t)
  \/ Clean(t)
  \/ FiniArrive(t)
  \/ FiniLeave(t)

MainStep == Main /\ UNCHANGED <<cfg, locals>>

Next ==
  \/ MainStep
  \/ \E t \in Tids : Worker(t)
  \/ \E t \in Tids : DieCancelled(t)

(* The kernel schedules every runnable thread; a cancellation need not bite.  *)
Spec ==
  /\ Init /\ [][Next]_vars
  /\ WF_vars(MainStep)
  /\ \A t \in Tids : WF_vars(Worker(t))
------------------------------------------------------------------------------
(* Properties *)

Measuring(t) == pc[t] \in Measured

(* The barriers keep the phases apart: while some worker measures, none sets  *)
(* up any more, and none has begun to unmap its pages or left without an      *)
(* error, though the workers are started one by one and fail independently.   *)
(* The exception is a worker whose setup failed: its first call of the        *)
(* barrier is the end barrier, so that its phases are one barrier ahead; it   *)
(* cleans up while the others measure, but then waits for them.               *)
PhasesDisjoint ==
  \A t, u \in Tids : Measuring(t) =>
    \/ Measuring(u)
    \/ pc[u] \in {"ready_wait", "end_wait"}
    \/ pc[u] = "end" /\ err[u] # "setup"
    \/ pc[u] = "exited" /\ err[u] = "op"
    \/ pc[u] \in {"clean", "fini", "fini_wait"} /\ err[u] = "setup"

(* A worker that could not map its page again and has cleaned up: it has      *)
(* unmapped what the kernel had put at a, its stale address, in the meantime. *)
Undone(u, a) ==
  ~cfg.isolated /\ err[u] = "remap" /\ step[u] > Idx(u) /\ a = addrs[u][Idx(u)]

(* The address a 4k worker has noted for a page is one where the page of this *)
(* very worker is mapped, whatever the others map, unmap and fail to do in    *)
(* between: its next munmap hits its own page.  Only in the cleanup it may    *)
(* find nothing there, after the cleanup of a worker with a failed remap.     *)
HoldsPages(t) == pc[t] \in {"ready", "ready_wait", "loop", "half", "end", "end_wait", "clean"}
AddrsOwned ==
  FourK =>
    \A t \in Tids : HoldsPages(t) =>
      \A k \in 0..(NMaps - 1) :
        \/ addrs[t][k] = NULL
        \/ pc[t] = "half" /\ k = Idx(t)
        \/ err[t] = "remap" /\ k = Idx(t)
        \/ pc[t] = "clean" /\ k < step[t]
        \/ vm[addrs[t][k]] = t
        \/ /\ pc[t] \in {"end_wait", "clean"} /\ vm[addrs[t][k]] = NoOne
           /\ \E u \in Tids \ {t} : Undone(u, addrs[t][k])

(* What an isolated worker has mapped are the slots from its base on, as many *)
(* as its memory has or, in maponly, as it has executed operations, whatever  *)
(* others map over them.  Only maponly can leave the 512 GB of the worker,    *)
(* with the operation that follows the first RegionSlots ones.                *)
Extent(t) == IF cfg.nounmap THEN counter[t] ELSE IF cfg.map4k THEN NMaps ELSE 1
OwnRegion ==
  cfg.isolated =>
    \A a \in Slots : vm[a] # NoOne =>
      a \in RegionBase(vm[a])..(RegionBase(vm[a]) + Extent(vm[a]) - 1)

(* No step of a worker removes or replaces a mapping another one made, with   *)
(* two exceptions.  In the cleanup a 4k worker whose remap failed unmaps its  *)
(* stale address, which the kernel may have given to another worker; and an   *)
(* isolated maponly worker that has used up its own 512 GB maps over the next *)
(* worker's, who then maps over its.                                          *)
Moves(t) == <<pc[t], counter[t], step[t]>>' # <<pc[t], counter[t], step[t]>>
StaleUnmap(t, a) ==
  /\ ~cfg.isolated /\ err[t] = "remap" /\ pc[t] = "clean"
  /\ step[t] = Idx(t) /\ a = addrs[t][Idx(t)]
Overrun(t) == cfg.isolated /\ cfg.nounmap /\ counter[t] > RegionSlots
NoForeignUnmap ==
  [][\A u \in Tids, a \in Slots :
       vm[a] = u /\ vm'[a] # u =>
         \E t \in Tids : Moves(t) /\ (t = u \/ StaleUnmap(t, a) \/ Overrun(t)' \/ Overrun(u))]_vars

(* After an error-free mapunmap run nothing is left mapped.                   *)
NothingLeftMapped ==
  ret = "ok" /\ ~cfg.nounmap /\ (\A t \in Tids : err[t] = "none") =>
    \A a \in Slots : vm[a] = NoOne

(* The CSV shows, for every worker that ran its loop to the end, all the      *)
(* operations it has executed.                                                *)
ReportComplete ==
  ret = "ok" => \A t \in Tids : err[t] \in {"none", "cleanup"} => report[t] = counter[t]

(* A worker that will never make a barrier call the others wait in.           *)
Deserter(t) ==
  \/ err[t] \in {"calloc", "setup"}
  \/ err[t] = "op" /\ ~Lenient

(* The benchmark returns, unless some worker leaves without all of its        *)
(* barrier calls; in particular bench_run_nounmap_4k_fn always returns.       *)
ReturnsUnlessDeserted == <>(mpc = "returned" \/ \E t \in Tids : Deserter(t))


------------------------------------------------------------------------------
(* What the documentation says, which the code does not do                    *)

(* "@returns 0 success, -1 error" (mapunmap.c:388, benchmarks.h:84): the      *)
(* result 0 tells that every worker did what it was asked to.                 *)
SuccessMeansNoError == ret = "ok" => \A t \in Tids : err[t] = "none"

(* "@returns 0 on success, -1 on failure" (utils.c:329): a failed call makes  *)
(* the benchmark return.                                                      *)
FailureReturns == (\E t \in Tids : err[t] # "none") ~> (mpc = "returned")

(* "cancels and frees up a already created thread" (linux.c:468,              *)
(* platform.h:264): a cancelled thread does not use what was freed.           *)
CancelledThreadsStop == \A t \in Tids : pc[t] # "wild"
==============================================================================
