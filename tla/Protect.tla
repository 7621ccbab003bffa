------------------------------ MODULE Protect ------------------------------
(***************************************************************************)
(* The protect benchmark, src/benchmarks/protect.c: every worker maps its  *)
(* memory, as one mapping (bench_run_fn) or page by page (bench_run_4k_fn),*)
(* and then makes it read-only and writable again.                         *)
(***************************************************************************)
EXTENDS PlatVm

CONSTANTS
  Configs,   \* the configurations of the run, among AllConfigs
  NMaps,     \* memsize / PLAT_ARCH_BASE_PAGE_SIZE
  MaxOps     \* bound: the operations of one worker (nops = 0 means SIZE_MAX)

AllConfigs == [map4k : BOOLEAN, isolated : BOOLEAN, timed : BOOLEAN, nops : 0..MaxOps]

ASSUME ProtectAssumption ==
  /\ NMaps \in 1..RegionSlots
  /\ MaxOps \in Nat \ {0}
  /\ Configs \subseteq AllConfigs
  /\ \A c \in Configs : c.timed \/ c.nops > 0

VARIABLES
  cfg,       \* the configuration
  step,      \* the loop variable of setup and cleanup of each worker
  addrs,     \* the array addrs of each worker; entry 0 is addr in bench_run_fn
  perm       \* the permission of the mapping in each slot: "rw" or "ro"

vars == <<harness, vm, cfg, step, addrs, perm>>
locals == <<vm, step, addrs, perm>>

(* The mappings of a worker: nmaps pages, or one of memsize bytes. *)
Count == IF cfg.map4k THEN NMaps ELSE 1

TypeOK ==
  /\ MainTypeOK
  /\ counter \in [Tids -> 0..MaxOps]
  /\ count \in [Tids -> 0..MaxOps]
  /\ report \in [Tids -> 0..MaxOps]
  /\ vm \in [Slots -> Tids \union {NoOne}]
  /\ perm \in [Slots -> {"rw", "ro"}]
  /\ cfg \in Configs
  /\ step \in [Tids -> 0..Count]
  /\ addrs \in [Tids -> [0..(NMaps - 1) -> Slots \union {NULL}]]

Init ==
  /\ HarnessInit
  /\ vm = [a \in Slots |-> NoOne]
  /\ perm = [a \in Slots |-> "rw"]
  /\ cfg \in Configs
  /\ step = [t \in Tids |-> 0]
  /\ addrs = [t \in Tids |-> [k \in 0..(NMaps - 1) |-> NULL]]

OpsLimit == IF cfg.nops = 0 THEN MaxOps ELSE cfg.nops

(* Plausible slip: counter <= nops. *)
MoreByOne(t) == counter[t] <= OpsLimit

(* counter < nops *)
More(t) == counter[t] < OpsLimit
(* The time may be over at any turn but the first: t_end > t_start. *)
Enough(t) == (cfg.timed /\ counter[t] > 0) \/ counter[t] = OpsLimit

(* idx = (page++) % nmaps, page starting at tid; addr in bench_run_fn *)
Page(t) == addrs[t][(t + counter[t]) % Count]

(* plat_vm_protect at a succeeds only where something is mapped. *)
Mprotect(a, p) ==
  /\ vm[a] # NoOne
  /\ perm' = [perm EXCEPT ![a] = p]
MprotectFails(a) == "protect" \in MayFail \/ vm[a] = NoOne

BeginRun(t) ==
  /\ Begin(t, IF cfg.map4k THEN "alloc" ELSE "setup")
  /\ UNCHANGED <<cfg, locals>>

Alloc(t) ==
  /\ pc[t] = "alloc"
  /\ \/ Goto(t, "setup") /\ UNCHANGED <<main, barrier, err, counter, count>>
     \/ "calloc" \in MayFail /\ Desert(t, "calloc")
  /\ UNCHANGED <<cfg, locals>>

(* One mapping of the setup; a new mapping is writable. *)
Setup(t) ==
  /\ pc[t] = "setup"
  /\ \E a \in (IF cfg.isolated THEN {RegionBase(t) + step[t]} ELSE FreePool) :
       /\ Mmap(t, a)
       /\ perm' = [perm EXCEPT ![a] = "rw"]
       /\ addrs' = [addrs EXCEPT ![t][step[t]] = a]
  /\ step' = [step EXCEPT ![t] = IF @ + 1 = Count THEN 0 ELSE @ + 1]
  /\ Goto(t, IF step[t] + 1 = Count THEN "ready" ELSE "setup")
  /\ UNCHANGED <<main, barrier, err, counter, count, cfg>>

(* Plausible slip: the failure is logged, and the worker goes on without the  *)
(* first barrier.                                                             *)
SetupFailsGoesOn(t) ==
  /\ pc[t] = "setup"
  /\ "map" \in MayFail
  /\ SetErr(t, "setup")
  /\ Goto(t, "loop")
  /\ step' = [step EXCEPT ![t] = 0]
  /\ UNCHANGED <<main, barrier, counter, count, cfg, vm, addrs, perm>>

(* A mapping fails: goto cleanup_and_exit in bench_run_4k_fn, past the first  *)
(* barrier; return NULL in bench_run_fn.                                      *)
SetupFails(t) ==
  /\ pc[t] = "setup"
  /\ "map" \in MayFail
  /\ \/ /\ cfg.map4k
        /\ SetErr(t, "setup")
        /\ Goto(t, "end")
        /\ step' = [step EXCEPT ![t] = 0]
        /\ UNCHANGED <<main, barrier, counter, count>>
     \/ ~cfg.map4k /\ Desert(t, "setup") /\ UNCHANGED step
  /\ UNCHANGED <<cfg, vm, addrs, perm>>

CallReadyBarrier(t) == ReadyArrive(t) /\ UNCHANGED <<cfg, locals>>
PassReadyBarrier(t) == ReadyLeave(t) /\ UNCHANGED <<cfg, locals>>

(* plat_vm_protect(..., PLAT_PERM_READ_ONLY) *)
ReadOnly(t) ==
  /\ pc[t] = "loop"
  /\ More(t)
  /\ Mprotect(Page(t), "ro")
  /\ Goto(t, "half")
  /\ UNCHANGED <<main, barrier, err, counter, count, cfg, vm, step, addrs>>

(* Plausible slip: page is advanced between the two calls. *)
ReadWriteNext(t) ==
  /\ pc[t] = "half"
  /\ Mprotect(addrs[t][(t + counter[t] + 1) % Count], "rw")
  /\ counter' = [counter EXCEPT ![t] = @ + 1]
  /\ Goto(t, "loop")
  /\ UNCHANGED <<main, barrier, err, count, cfg, vm, step, addrs>>

(* plat_vm_protect(..., PLAT_PERM_READ_WRITE) *)
ReadWrite(t) ==
  /\ pc[t] = "half"
  /\ Mprotect(Page(t), "rw")
  /\ counter' = [counter EXCEPT ![t] = @ + 1]
  /\ Goto(t, "loop")
  /\ UNCHANGED <<main, barrier, err, count, cfg, vm, step, addrs>>

(* Plausible slip: bench_run_4k_fn leaves like bench_run_fn does. *)
OpFailsDesert(t) ==
  /\ pc[t] = "half" \/ (pc[t] = "loop" /\ More(t))
  /\ MprotectFails(Page(t))
  /\ Munmap(Page(t))
  /\ Desert(t, "op")
  /\ UNCHANGED <<cfg, step, addrs, perm>>

(* Either call fails: goto cleanup_and_exit in bench_run_4k_fn; unmap and     *)
(* return NULL in bench_run_fn (err_out).                                     *)
OpFails(t) ==
  /\ pc[t] = "half" \/ (pc[t] = "loop" /\ More(t))
  /\ MprotectFails(Page(t))
  /\ \/ /\ cfg.map4k
        /\ SetErr(t, "op")
        /\ Goto(t, "end")
        /\ UNCHANGED <<main, barrier, counter, count, vm>>
     \/ /\ ~cfg.map4k
        /\ Munmap(Page(t)) \/ ("unmap" \in MayFail /\ UNCHANGED vm)
        /\ Desert(t, "op")
  /\ UNCHANGED <<cfg, step, addrs, perm>>

(* The end of the loop; bench_run_4k_fn stores its result here. *)
LoopEnd(t) ==
  /\ pc[t] = "loop"
  /\ Enough(t)
  /\ Goto(t, "end")
  /\ count' = [count EXCEPT ![t] = IF cfg.map4k THEN counter[t] ELSE @]
  /\ UNCHANGED <<main, barrier, err, counter, cfg, locals>>

CallEndBarrier(t) == EndArrive(t) /\ UNCHANGED <<cfg, locals>>

PassEndBarrier(t) ==
  /\ \/ ~cfg.map4k /\ EndLeaveStore(t)
     \/ cfg.map4k /\ LeaveFrom(t, "end_wait", "clean")
  /\ UNCHANGED <<cfg, locals>>

(* Plausible slip: the cleanup stops at the page the worker stopped at. *)
CleanFew(t) ==
  /\ pc[t] = "clean"
  /\ addrs[t][step[t]] # NULL
  /\ Munmap(addrs[t][step[t]])
  /\ step' = [step EXCEPT ![t] = @ + 1]
  /\ Goto(t, IF step[t] + 1 >= counter[t] THEN "fini" ELSE "clean")
  /\ UNCHANGED <<main, barrier, err, counter, count, cfg, addrs, perm>>

(* One turn of the cleanup loop; a failed munmap is only logged. *)
Clean(t) ==
  /\ pc[t] = "clean"
  /\ \/ /\ addrs[t][step[t]] # NULL
        /\ \/ Munmap(addrs[t][step[t]]) /\ UNCHANGED err
           \/ "unmap" \in MayFail /\ SetErr(t, "cleanup") /\ UNCHANGED vm
     \/ addrs[t][step[t]] = NULL /\ UNCHANGED <<vm, err>>
  /\ step' = [step EXCEPT ![t] = @ + 1]
  /\ Goto(t, IF step[t] + 1 = Count THEN "fini" ELSE "clean")
  /\ UNCHANGED <<main, barrier, counter, count, cfg, addrs, perm>>

FiniArrive(t) == ArriveAt(t, "fini", "fini_wait") /\ UNCHANGED <<cfg, locals>>
FiniLeave(t) == LeaveFrom(t, "fini_wait", "exited") /\ UNCHANGED <<cfg, locals>>
DieCancelled(t) == Die(t) /\ UNCHANGED <<cfg, locals>>

Worker(t) ==
  \/ BeginRun(t)
  \/ Alloc(t)
  \/ Setup(t)
  \/ SetupFails(t)
  \/ CallReadyBarrier(t)
  \/ PassReadyBarrier(t)
  \/ ReadOnly(t)
  \/ ReadWrite(t)
  \/ OpFails(t)
  \/ LoopEnd(t)
  \/ CallEndBarrier(t)
  \/ PassEndBarrier(t)
  \/ Clean(t)
  \/ FiniArrive(t)
  \/ FiniLeave(t)

MainStep == Main /\ UNCHANGED <<cfg, locals>>

Next ==
  \/ MainStep
  \/ \E t \in Tids : Worker(t)
  \/ \E t \in Tids : DieCancelled(t)

(* The kernel schedules every runnable thread. *)
Spec ==
  /\ Init /\ [][Next]_vars
  /\ WF_vars(MainStep)
  /\ \A t \in Tids : WF_vars(Worker(t))

------------------------------------------------------------------------------
(* At every moment at most one page of a worker is read-only, the one it is   *)
(* at: each operation finds its page writable and leaves it so.               *)
OneReadOnly ==
  \A t \in Tids : err[t] = "none" =>
    \A a \in Slots : vm[a] = t /\ perm[a] = "ro" => pc[t] = "half" /\ a = Page(t)

(* The page a worker protects is mapped by this very worker: no operation     *)
(* hits the mapping of another one, none fails for want of a mapping.         *)
ProtectsOwn ==
  \A t \in Tids : pc[t] = "half" \/ (pc[t] = "loop" /\ More(t)) => vm[Page(t)] = t

(* After an error-free run the pages of the page-by-page workers are gone.    *)
NothingLeftMapped ==
  ret = "ok" /\ cfg.map4k /\ (\A t \in Tids : err[t] = "none") =>
    \A a \in Slots : vm[a] = NoOne

(* A worker that will never make a barrier call the others wait in.           *)
Deserter(t) == err[t] \in {"calloc", "setup"} \/ (err[t] = "op" /\ ~cfg.map4k)

(* The benchmark returns unless a worker leaves without all its barrier calls.*)
ReturnsUnlessDeserted == <>(mpc = "returned" \/ \E t \in Tids : Deserter(t))
==============================================================================
