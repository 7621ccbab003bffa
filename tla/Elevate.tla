------------------------------ MODULE Elevate ------------------------------
(***************************************************************************)
(* The protect-elevate benchmark, src/benchmarks/protectelevate.c: every   *)
(* worker maps nops pages, memsize bytes at a time, makes memory read-only *)
(* and then makes one page after the other writable.  A slot of the        *)
(* address space is a page here, and memsize is counted in pages.          *)
(***************************************************************************)
EXTENDS PlatVm

CONSTANTS
  Configs,   \* the configurations of the run, among AllConfigs
  MaxOps,    \* bound: nops (and what nops = 0 stands for, DEFAULT_NOPS)
  MaxMem     \* bound: memsize in pages

AllConfigs == [isolated : BOOLEAN, timed : BOOLEAN, nops : 0..MaxOps, mem : 1..MaxMem]

ASSUME ElevateAssumption ==
  /\ MaxOps \in Nat \ {0} /\ MaxMem \in Nat \ {0}
  /\ MaxOps + MaxMem <= RegionSlots
  /\ Configs \subseteq AllConfigs

VARIABLES
  cfg,       \* the configuration
  off,       \* the loop variable of the setup of each worker, in pages
  addr,      \* the variable addr of each worker
  perm       \* the permission of each page: "rw" or "ro"

vars == <<harness, vm, cfg, off, addr, perm>>
locals == <<vm, off, addr, perm>>

TypeOK ==
  /\ MainTypeOK
  /\ counter \in [Tids -> 0..MaxOps]
  /\ count \in [Tids -> 0..MaxOps]
  /\ report \in [Tids -> 0..MaxOps]
  /\ vm \in [Slots -> Tids \union {NoOne}]
  /\ perm \in [Slots -> {"rw", "ro"}]
  /\ cfg \in Configs
  /\ off \in [Tids -> 0..(MaxOps + MaxMem)]
  /\ addr \in [Tids -> Slots \union {NULL}]

Init ==
  /\ HarnessInit
  /\ vm = [a \in Slots |-> NoOne]
  /\ perm = [a \in Slots |-> "rw"]
  /\ cfg \in Configs
  /\ off = [t \in Tids |-> 0]
  /\ addr = [t \in Tids |-> NULL]

------------------------------------------------------------------------------
(* if (nops == 0) nops = DEFAULT_NOPS; *)
NOps == IF cfg.nops = 0 THEN MaxOps ELSE cfg.nops

(* Plausible slip: counter <= nops. *)
MoreByOne(t) == counter[t] <= NOps

(* counter < nops *)
More(t) == counter[t] < NOps
(* The time may be over at any turn but the first: t_end > t_start. *)
Enough(t) == (cfg.timed /\ counter[t] > 0) \/ counter[t] = NOps

(* memsize bytes at a *)
Mem(a) == a..(a + cfg.mem - 1)

(* Where mmap(NULL, memsize, ...) may put a mapping. *)
FreeRuns == {a \in Pool : \A s \in Mem(a) : s \in FreePool}

MmapRange(t, a) ==
  /\ vm' = [s \in Slots |-> IF s \in Mem(a) THEN t ELSE vm[s]]
  /\ perm' = [s \in Slots |-> IF s \in Mem(a) THEN "rw" ELSE perm[s]]
MunmapRange(a) == vm' = [s \in Slots |-> IF s \in Mem(a) THEN NoOne ELSE vm[s]]

(* mprotect changes the pages up to the first one that is not mapped. *)
Reached(a) == {s \in Mem(a) : \A r \in a..s : vm[r] # NoOne}

BeginRun(t) ==
  /\ Begin(t, "setup")
  /\ addr' = [addr EXCEPT ![t] = IF cfg.isolated THEN RegionBase(t) ELSE NULL]
  /\ UNCHANGED <<cfg, vm, off, perm>>

(* Plausible slip: every turn of the setup maps at addr. *)
MapChunkBase(t) ==
  /\ pc[t] = "setup"
  /\ \E a \in (IF cfg.isolated THEN {addr[t]} ELSE FreeRuns) :
       MmapRange(t, a) /\ addr' = [addr EXCEPT ![t] = IF @ = NULL THEN a ELSE @]
  /\ Goto(t, "mapped")
  /\ UNCHANGED <<main, barrier, err, counter, count, cfg, off>>

(* One turn of the setup maps memsize bytes, at addr + i when isolated; addr  *)
(* stays the address of the first mapping ...                                 *)
MapChunk(t) ==
  /\ pc[t] = "setup"
  /\ \E a \in (IF cfg.isolated THEN {addr[t] + off[t]} ELSE FreeRuns) :
       MmapRange(t, a) /\ addr' = [addr EXCEPT ![t] = IF @ = NULL THEN a ELSE @]
  /\ Goto(t, "mapped")
  /\ UNCHANGED <<main, barrier, err, counter, count, cfg, off>>

(* (or returns NULL, also when the pool has no room) *)
MapChunkFails(t) ==
  /\ pc[t] = "setup"
  /\ "map" \in MayFail \/ (~cfg.isolated /\ FreeRuns = {})
  /\ Desert(t, "setup")
  /\ UNCHANGED <<cfg, locals>>

(* ... and makes memsize bytes at addr read-only; a failure is only logged.   *)
ProtectChunk(t) ==
  /\ pc[t] = "mapped"
  /\ \/ /\ perm' = [s \in Slots |-> IF s \in Reached(addr[t]) THEN "ro" ELSE perm[s]]
        /\ IF Reached(addr[t]) = Mem(addr[t]) THEN UNCHANGED err ELSE SetErr(t, "protect")
     \/ "protect" \in MayFail /\ SetErr(t, "protect") /\ UNCHANGED perm
  /\ off' = [off EXCEPT ![t] = @ + cfg.mem]
  /\ Goto(t, IF off[t] + cfg.mem < NOps THEN "setup" ELSE "ready")
  /\ UNCHANGED <<main, barrier, counter, count, cfg, vm, addr>>

CallReadyBarrier(t) == ReadyArrive(t) /\ UNCHANGED <<cfg, locals>>
PassReadyBarrier(t) == ReadyLeave(t) /\ UNCHANGED <<cfg, locals>>

(* Plausible slip: addr is not advanced. *)
ElevateSame(t) ==
  /\ pc[t] = "loop"
  /\ More(t)
  /\ vm[addr[t]] # NoOne
  /\ perm' = [perm EXCEPT ![addr[t]] = "rw"]
  /\ counter' = [counter EXCEPT ![t] = @ + 1]
  /\ UNCHANGED <<main, pc, barrier, err, count, cfg, vm, off, addr>>

(* plat_vm_protect(addr, page, PLAT_PERM_READ_WRITE), and on to the next page.*)
ElevateOne(t) ==
  /\ pc[t] = "loop"
  /\ More(t)
  /\ vm[addr[t]] # NoOne
  /\ perm' = [perm EXCEPT ![addr[t]] = "rw"]
  /\ counter' = [counter EXCEPT ![t] = @ + 1]
  /\ addr' = [addr EXCEPT ![t] = @ + 1]
  /\ UNCHANGED <<main, pc, barrier, err, count, cfg, vm, off>>

(* goto err_out: memsize bytes at the advanced addr are unmapped, or are not  *)
(* (the result is ignored); return NULL.                                      *)
ElevateFails(t) ==
  /\ pc[t] = "loop"
  /\ More(t)
  /\ "protect" \in MayFail \/ vm[addr[t]] = NoOne
  /\ MunmapRange(addr[t]) \/ ("unmap" \in MayFail /\ UNCHANGED vm)
  /\ Desert(t, "op")
  /\ UNCHANGED <<cfg, off, addr, perm>>

LoopEnd(t) ==
  /\ pc[t] = "loop"
  /\ Enough(t)
  /\ Goto(t, "end")
  /\ UNCHANGED <<main, barrier, err, counter, count, cfg, locals>>

(* Plausible slip: a worker that reaches its time limit returns at once. *)
EndNoBarrier(t) ==
  /\ IF More(t) THEN pc[t] = "end" /\ Goto(t, "exited") /\ UNCHANGED <<main, barrier, err, counter, count>>
     ELSE EndArrive(t)
  /\ UNCHANGED <<cfg, locals>>

CallEndBarrier(t) == EndArrive(t) /\ UNCHANGED <<cfg, locals>>
PassEndBarrier(t) == EndLeaveStore(t) /\ UNCHANGED <<cfg, locals>>
DieCancelled(t) == Die(t) /\ UNCHANGED <<cfg, locals>>

Worker(t) ==
  \/ BeginRun(t)
  \/ MapChunk(t)
  \/ MapChunkFails(t)
  \/ ProtectChunk(t)
  \/ CallReadyBarrier(t)
  \/ PassReadyBarrier(t)
  \/ ElevateOne(t)
  \/ ElevateFails(t)
  \/ LoopEnd(t)
  \/ CallEndBarrier(t)
  \/ PassEndBarrier(t)

MainStep == Main /\ UNCHANGED <<cfg, locals>>

Next ==
  \/ MainStep
  \/ \E t \in Tids : Worker(t)
  \/ \E t \in Tids : DieCancelled(t)

(* The kernel schedules every runnable thread. *)
Spec ==
  /\ Init /\ [][Next]_vars
  /\ WF_vars(MainStep)
  /\ \A t \in Tids : WF_vars(Worker(t))

------------------------------------------------------------------------------
Elevating(t) == pc[t] = "loop" /\ More(t)

(* Where one mapping holds all pages (memsize >= nops * 4096, as              *)
(* scripts/run_barrelfish.py:184 asks for) every operation measured makes a   *)
(* read-only page of this very worker writable.  Not once a worker has failed *)
(* that shares the pool with the others: it unmaps memsize bytes from the page *)
(* it has come to, past the end of its own mapping.                           *)
ElevatesReadOnly ==
  NOps <= cfg.mem /\ (cfg.isolated \/ \A u \in Tids : err[u] = "none") =>
    \A t \in Tids : err[t] = "none" /\ Elevating(t) =>
      vm[addr[t]] = t /\ perm[addr[t]] = "ro"

(* An isolated worker finds every page it elevates mapped, and by itself, in  *)
(* however many pieces it was mapped and whatever the others do or fail to do.*)
OwnPages ==
  cfg.isolated =>
    /\ \A t \in Tids : Elevating(t) => vm[addr[t]] = t
    /\ \A a \in Slots : vm[a] # NoOne => a \in Region(vm[a])

(* Unless some call fails the benchmark returns. *)
ReturnsUnlessFailed == <>(mpc = "returned" \/ \E t \in Tids : err[t] # "none")

(* "starts the page protection benchmark elevatin only" (benchmarks.h:100):    *)
(* what the benchmark measures is making read-only pages writable.            *)
ElevationOnly ==
  (\A u \in Tids : err[u] = "none") =>
    \A t \in Tids : Elevating(t) => perm[addr[t]] = "ro"
==============================================================================
