------------------------------ MODULE TlbShoot ------------------------------
(***************************************************************************)
(* The tlbshoot benchmark, src/benchmarks/tlbshoot.c: worker 0 maps and    *)
(* unmaps memory while all others keep touching a page of their own, so    *)
(* that every unmapping has to shoot down the TLBs of running cores; when  *)
(* worker 0 is through it sets done, a variable on the stack of the main   *)
(* thread, which the others read without any synchronisation.              *)
(***************************************************************************)
EXTENDS PlatVm

CONSTANTS
  Configs,   \* the configurations of the run, among AllConfigs
  MaxOps     \* bound: the operations of worker 0 (nops = 0 means SIZE_MAX)

AllConfigs == [isolated : BOOLEAN, timed : BOOLEAN, nops : 0..MaxOps]

ASSUME TlbShootAssumption ==
  /\ MaxOps \in Nat \ {0}
  /\ Configs \subseteq AllConfigs
  /\ \A c \in Configs : c.timed \/ c.nops > 0

VARIABLES
  cfg,       \* the configuration
  done,      \* the variable the workers share
  taddr,     \* where each worker mapped its own memory
  addr       \* the local addr of worker 0

vars == <<harness, vm, cfg, done, taddr, addr>>
locals == <<vm, done, taddr, addr>>

TypeOK ==
  /\ MainTypeOK
  /\ counter \in [Tids -> 0..MaxOps]
  /\ count \in [Tids -> 0..MaxOps]
  /\ report \in [Tids -> 0..MaxOps]
  /\ vm \in [Slots -> Tids \union {NoOne}]
  /\ cfg \in Configs
  /\ done \in BOOLEAN
  /\ taddr \in [Tids -> Slots \union {NULL}]
  /\ addr \in Slots \union {NULL}

Init ==
  /\ HarnessInit
  /\ vm = [a \in Slots |-> NoOne]
  /\ cfg \in Configs
  /\ done = FALSE
  /\ taddr = [t \in Tids |-> NULL]
  /\ addr = NULL

OpsLimit == IF cfg.nops = 0 THEN MaxOps ELSE cfg.nops

(* Plausible slip: counter <= nops. *)
MoreByOne(t) == counter[t] <= OpsLimit

(* counter < nops *)
More(t) == counter[t] < OpsLimit
(* The time may be over at any turn but the first: t_end > t_start. *)
Enough(t) == (cfg.timed /\ counter[t] > 0) \/ counter[t] = OpsLimit

BeginRun(t) == Begin(t, "setup") /\ UNCHANGED <<cfg, locals>>

(* plat_vm_map(&taddr, ...), by every worker. *)
MapOwn(t) ==
  /\ pc[t] = "setup"
  /\ \E a \in FreePool : Mmap(t, a) /\ taddr' = [taddr EXCEPT ![t] = a]
  /\ Goto(t, "ready")
  /\ UNCHANGED <<main, barrier, err, counter, count, cfg, done, addr>>

MapOwnFails(t) ==
  /\ pc[t] = "setup"
  /\ "map" \in MayFail
  /\ Desert(t, "setup")
  /\ UNCHANGED <<cfg, locals>>

CallReadyBarrier(t) == ReadyArrive(t) /\ UNCHANGED <<cfg, locals>>

PassReadyBarrier(t) ==
  /\ LeaveFrom(t, "ready_wait", IF t = 0 THEN "loop" ELSE "spin")
  /\ UNCHANGED <<cfg, locals>>

(* Plausible slip: the flag is looked at once, not in a loop. *)
StopAtOnce(t) ==
  /\ pc[t] = "spin"
  /\ Goto(t, "end")
  /\ UNCHANGED <<main, barrier, err, counter, count, cfg, locals>>

(* while (!*done) *sum = *sum + 1; comes to its end.  A turn of that loop      *)
(* touches the page at taddr and changes no state of the model.               *)
StopSpinning(t) ==
  /\ pc[t] = "spin"
  /\ done
  /\ Goto(t, "end")
  /\ UNCHANGED <<main, barrier, err, counter, count, cfg, locals>>

(* Plausible slip: the mapping of the loop goes where taddr is. *)
MapOneOver(t) ==
  /\ pc[t] = "loop"
  /\ More(t)
  /\ \E a \in {taddr[u] : u \in Tids} : Mmap(t, a) /\ addr' = a
  /\ Goto(t, "half")
  /\ UNCHANGED <<main, barrier, err, counter, count, cfg, done, taddr>>

(* The measured loop of worker 0: map, ... *)
MapOne(t) ==
  /\ pc[t] = "loop"
  /\ More(t)
  /\ \E a \in (IF cfg.isolated THEN {RegionBase(t)} ELSE FreePool) : Mmap(t, a) /\ addr' = a
  /\ Goto(t, "half")
  /\ UNCHANGED <<main, barrier, err, counter, count, cfg, done, taddr>>

(* ... unmap, ... *)
UnmapOne(t) ==
  /\ pc[t] = "half"
  /\ Munmap(addr)
  /\ counter' = [counter EXCEPT ![t] = @ + 1]
  /\ Goto(t, "loop")
  /\ UNCHANGED <<main, barrier, err, count, cfg, done, taddr, addr>>

(* ... and return NULL when one of them fails, without setting done. *)
OpFails(t) ==
  /\ \/ pc[t] = "loop" /\ More(t) /\ "map" \in MayFail
     \/ pc[t] = "half" /\ "unmap" \in MayFail
  /\ Desert(t, "op")
  /\ UNCHANGED <<cfg, locals>>

(* Plausible slip: done is not set when the time is over. *)
LoopEndSilent(t) ==
  /\ pc[t] = "loop"
  /\ Enough(t)
  /\ Goto(t, "end")
  /\ done' = ~More(t)
  /\ UNCHANGED <<main, barrier, err, counter, count, cfg, vm, taddr, addr>>

(* *done = 0x1; *)
LoopEnd(t) ==
  /\ pc[t] = "loop"
  /\ Enough(t)
  /\ Goto(t, "end")
  /\ done' = TRUE
  /\ UNCHANGED <<main, barrier, err, counter, count, cfg, vm, taddr, addr>>

CallEndBarrier(t) == EndArrive(t) /\ UNCHANGED <<cfg, locals>>
PassEndBarrier(t) == EndLeaveStore(t) /\ UNCHANGED <<cfg, locals>>
DieCancelled(t) == Die(t) /\ UNCHANGED <<cfg, locals>>

Worker(t) ==
  \/ BeginRun(t)
  \/ MapOwn(t)
  \/ MapOwnFails(t)
  \/ CallReadyBarrier(t)
  \/ PassReadyBarrier(t)
  \/ StopSpinning(t)
  \/ MapOne(t)
  \/ UnmapOne(t)
  \/ OpFails(t)
  \/ LoopEnd(t)
  \/ CallEndBarrier(t)
  \/ PassEndBarrier(t)

MainStep == Main /\ UNCHANGED <<cfg, locals>>

Next ==
  \/ MainStep
  \/ \E t \in Tids : Worker(t)
  \/ \E t \in Tids : DieCancelled(t)

(* The kernel schedules every runnable thread. *)
Spec ==
  /\ Init /\ [][Next]_vars
  /\ WF_vars(MainStep)
  /\ \A t \in Tids : WF_vars(Worker(t))

------------------------------------------------------------------------------
(* What makes the benchmark measure shootdowns at all: from the first to the  *)
(* last operation of worker 0 every other worker is in its touching loop, or  *)
(* on its way from the barrier to it.                                         *)
ReadersRun ==
  pc[0] \in {"loop", "half"} => \A t \in Tids \ {0} : pc[t] \in {"ready_wait", "spin"}

(* The page a worker touches stays its own mapping until it stops, wherever   *)
(* the kernel puts the mappings of worker 0.                                  *)
TouchMapped == \A t \in Tids : pc[t] \in {"ready_wait", "spin"} => vm[taddr[t]] = t

(* done lives on the stack of vmops_bench_run_tlbshoot: once that function    *)
(* returns, after a completed run or a failed start, no worker reads it.      *)
DoneOutlivesReaders == ret # "none" => \A t \in Tids : pc[t] # "spin"

(* Unless some mapping call fails the benchmark returns: every worker sees    *)
(* done, and all meet at the end barrier.                                     *)
ReturnsUnlessFailed == <>(mpc = "returned" \/ \E t \in Tids : err[t] # "none")
==============================================================================
