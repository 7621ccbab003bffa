--------------------------- MODULE MapUnmapProofs ---------------------------
(***************************************************************************)
(* The mapunmap and maponly benchmarks, for any number of workers, pages   *)
(* and operations, any configuration and any failures.  First, with the    *)
(* invariant IInv: type correctness and the two guarantees of the harness, *)
(* nobody measures after a partial start and nobody runs when the          *)
(* arguments are freed.  Then, with the invariant DInv on top of it: the   *)
(* phases of the workers, whose every mapping is, that an error-free run   *)
(* leaves none, and that the CSV shows what was executed.                  *)
(***************************************************************************)
EXTENDS MapUnmap, BenchRunProofs

(* The loop variable of the setup and of the cleanup stays below nmaps, and   *)
(* an operation that was begun is within the limit.                           *)
LoopInv ==
  \A t \in Tids :
    /\ pc[t] \in {"setup", "clean"} => step[t] < NMaps
    /\ pc[t] \in {"unborn", "spawned", "alloc", "ready", "ready_wait", "loop", "half",
                  "end", "end_wait"} => step[t] = 0
    /\ pc[t] = "half" => counter[t] < MaxOps

IInv == TypeOK /\ HarnessInv /\ LoopInv

(* The facts about the constants the leaves below use. *)
LEMMA Bounds ==
  /\ N \in Nat \ {0} /\ NMaps \in Nat \ {0} /\ MaxOps \in Nat \ {0}
  /\ RegionSlots \in Nat \ {0} /\ NMaps <= RegionSlots
  /\ PoolSlots \in Nat /\ PoolSlots <= 2 * RegionSlots /\ AboveSlots \in Nat
  /\ Configs \subseteq AllConfigs
  BY BenchRunAssumption, PlatVmAssumption, MapUnmapAssumption

LEMMA TargetsInSlots ==
  ASSUME NEW a \in Slots \union {NULL}
  PROVE  Targets(a) \subseteq Slots \union {NULL}
  <1>1. RegionSlots * 2 = RegionSlots + RegionSlots /\ RegionSlots * 2 <= RegionSlots * (N + 2)
    BY Bounds, TimesMonotonic
  <1>2. RegionSlots * (N + 2) \in Nat
    BY Bounds
  <1>3. Pool \subseteq Slots
    BY <1>1, <1>2, Bounds DEF Pool, Slots
  <1> QED BY <1>3 DEF Targets, FreePool

LEMMA OpsLimitBound == TypeOK => OpsLimit \in 0..MaxOps
  BY Bounds DEF TypeOK, OpsLimit, AllConfigs

LEMMA IdxRange == TypeOK => \A t \in Tids : Idx(t) \in 0..(NMaps - 1)
  <1> SUFFICES ASSUME TypeOK, NEW t \in Tids PROVE Idx(t) \in 0..(NMaps - 1)
    OBVIOUS
  <1>1. t + counter[t] \in Nat
    BY TidsNat DEF TypeOK
  <1> QED BY <1>1, Bounds DEF Idx

LEMMA InitIInv == Init => IInv
  <1> SUFFICES ASSUME Init PROVE IInv
    OBVIOUS
  <1>1. HarnessInv
    BY HarnessInitInv DEF Init
  <1>2. TypeOK
    BY <1>1, Bounds DEF Init, TypeOK, HarnessInv, HarnessInit, NoOne, NULL
  <1>3. LoopInv
    BY Bounds DEF Init, HarnessInit, LoopInv
  <1> QED BY <1>1, <1>2, <1>3 DEF IInv

LEMMA MainStepIInv == IInv /\ MainStep => IInv'
  <1> SUFFICES ASSUME IInv, MainStep PROVE IInv'
    OBVIOUS
  <1>1. HarnessInv'
    BY MainPreserves DEF IInv, MainStep
  <1>2. /\ report' \in [Tids -> 0..MaxOps] /\ UNCHANGED <<counter, count>>
        /\ \A t \in Tids : pc'[t] = pc[t] \/ (pc[t] = "unborn" /\ pc'[t] = "spawned")
    BY MainShape DEF IInv, TypeOK, MainStep
  <1>3. TypeOK'
    BY <1>1, <1>2 DEF IInv, TypeOK, HarnessInv, MainStep, locals
  <1>4. LoopInv'
    BY <1>2 DEF IInv, LoopInv, MainStep, locals
  <1> QED BY <1>1, <1>3, <1>4 DEF IInv

------------------------------------------------------------------------------
(* The local steps: LocalPreserves for the harness, types for the rest.       *)

LEMMA AllocIInv == ASSUME IInv, NEW t \in Tids, Alloc(t) PROVE IInv'
  <1>1. PICK to \in {"setup", "exited"} : Goto(t, to)
    BY DEF Alloc, Desert
  <1>2. /\ to \in PCs \ Waits /\ to # "unborn" /\ pc[t] \notin Waits \union {"unborn", "exited"}
        /\ pc[t] \in Idle => to \in Idle
    BY DEF Alloc, PCs, Waits, BeforeBarrier, Measured, Idle
  <1>3. UNCHANGED <<main, barrier>> /\ err' \in [Tids -> Errors]
    BY DEF Alloc, SetErr, Desert, IInv, HarnessInv, MainTypeOK, Errors
  <1>4. HarnessInv'
    BY <1>1, <1>2, <1>3, LocalPreserves DEF IInv
  <1>5. TypeOK'
    BY <1>3, <1>4 DEF Alloc, IInv, TypeOK, HarnessInv, main, locals, Desert
  <1>6. LoopInv'
    BY <1>1, Bounds DEF Alloc, Goto, IInv, LoopInv, TypeOK, MainTypeOK, locals, Desert
  <1> QED BY <1>4, <1>5, <1>6 DEF IInv

LEMMA SetupIInv == ASSUME IInv, NEW t \in Tids, Setup(t) PROVE IInv'
  <1>1. PICK to \in {"ready", "setup"} : Goto(t, to)
    BY DEF Setup
  <1>2. /\ to \in PCs \ Waits /\ to # "unborn" /\ pc[t] \notin Waits \union {"unborn", "exited"}
        /\ pc[t] \in Idle => to \in Idle
    BY DEF Setup, PCs, Waits, BeforeBarrier, Measured, Idle
  <1>3. UNCHANGED <<main, barrier>> /\ err' \in [Tids -> Errors]
    BY DEF Setup, SetErr, Desert, IInv, HarnessInv, MainTypeOK, Errors
  <1>4. HarnessInv'
    BY <1>1, <1>2, <1>3, LocalPreserves DEF IInv
  <1>5. TypeOK'
    <2>1. step[t] \in 0..(NMaps - 1)
      BY Bounds DEF IInv, LoopInv, TypeOK, Setup
    <2>2. PICK a \in Targets(RegionBase(t) + step[t]) :
            Mmap(t, a) /\ addrs' = [addrs EXCEPT ![t][step[t]] = a]
      BY DEF Setup
    <2>3. a \in Slots \union {NULL}
      BY <2>1, <2>2, Bounds, RegionInSlots, TargetsInSlots
    <2>4. vm' \in [Slots -> Tids \union {NoOne}]
      BY <2>2 DEF Mmap, IInv, TypeOK
    <2>5. addrs' \in [Tids -> [0..(NMaps - 1) -> Slots \union {NULL}]]
      BY <2>1, <2>2, <2>3 DEF IInv, TypeOK
    <2>6. step' \in [Tids -> 0..NMaps]
      BY <2>1, Bounds DEF Setup, IInv, TypeOK
    <2> QED BY <1>4, <2>4, <2>5, <2>6 DEF Setup, IInv, TypeOK, HarnessInv, main
  <1>6. LoopInv'
    <2>1. step[t] \in 0..(NMaps - 1)
      BY Bounds DEF IInv, LoopInv, TypeOK, Setup
    <2> QED BY <2>1, Bounds DEF Setup, Goto, IInv, LoopInv, TypeOK, MainTypeOK
  <1> QED BY <1>4, <1>5, <1>6 DEF IInv

LEMMA SetupFailsIInv == ASSUME IInv, NEW t \in Tids, SetupFails(t) PROVE IInv'
  <1>1. PICK to \in {"end"} : Goto(t, to)
    BY DEF SetupFails
  <1>2. /\ to \in PCs \ Waits /\ to # "unborn" /\ pc[t] \notin Waits \union {"unborn", "exited"}
        /\ pc[t] \in Idle => to \in Idle
    BY DEF SetupFails, PCs, Waits, BeforeBarrier, Measured, Idle
  <1>3. UNCHANGED <<main, barrier>> /\ err' \in [Tids -> Errors]
    BY DEF SetupFails, SetErr, Desert, IInv, HarnessInv, MainTypeOK, Errors
  <1>4. HarnessInv'
    BY <1>1, <1>2, <1>3, LocalPreserves DEF IInv
  <1>5. TypeOK'
    BY <1>3, <1>4, Bounds DEF SetupFails, IInv, TypeOK, HarnessInv, main, locals
  <1>6. LoopInv'
    BY <1>1 DEF SetupFails, Goto, IInv, LoopInv, TypeOK, MainTypeOK, locals
  <1> QED BY <1>4, <1>5, <1>6 DEF IInv

LEMMA MapOneIInv == ASSUME IInv, NEW t \in Tids, MapOne(t) PROVE IInv'
  <1>1. PICK to \in {"half"} : Goto(t, to)
    BY DEF MapOne
  <1>2. /\ to \in PCs \ Waits /\ to # "unborn" /\ pc[t] \notin Waits \union {"unborn", "exited"}
        /\ pc[t] \in Idle => to \in Idle
    BY DEF MapOne, PCs, Waits, BeforeBarrier, Measured, Idle
  <1>3. UNCHANGED <<main, barrier>> /\ err' \in [Tids -> Errors]
    BY DEF MapOne, SetErr, Desert, IInv, HarnessInv, MainTypeOK, Errors
  <1>4. HarnessInv'
    BY <1>1, <1>2, <1>3, LocalPreserves DEF IInv
  <1>5. TypeOK'
    <2>1. vm' \in [Slots -> Tids \union {NoOne}]
      BY DEF MapOne, Mmap, Munmap, IInv, TypeOK
    <2>2. PICK a \in Targets(RegionBase(t)) : addrs' = [addrs EXCEPT ![t][0] = a]
      BY DEF MapOne
    <2>3. RegionBase(t) = RegionBase(t) + 0 /\ 0 \in 0..RegionSlots /\ 0 \in 0..(NMaps - 1)
      <3>1. RegionBase(t) \in Int
        BY Bounds, TidsNat DEF RegionBase
      <3> QED BY <3>1, Bounds
    <2>4. a \in Slots \union {NULL}
      BY <2>2, <2>3, RegionInSlots, TargetsInSlots
    <2>5. addrs' \in [Tids -> [0..(NMaps - 1) -> Slots \union {NULL}]]
      BY <2>2, <2>3, <2>4 DEF IInv, TypeOK
    <2> QED BY <1>4, <2>1, <2>5
        DEF MapOne, IInv, TypeOK, HarnessInv, main
  <1>6. LoopInv'
    BY <1>1, Bounds, OpsLimitBound DEF MapOne, Goto, IInv, LoopInv, TypeOK, MainTypeOK, locals, More
  <1> QED BY <1>4, <1>5, <1>6 DEF IInv

LEMMA UnmapOneIInv == ASSUME IInv, NEW t \in Tids, UnmapOne(t) PROVE IInv'
  <1>1. PICK to \in {"loop"} : Goto(t, to)
    BY DEF UnmapOne
  <1>2. /\ to \in PCs \ Waits /\ to # "unborn" /\ pc[t] \notin Waits \union {"unborn", "exited"}
        /\ pc[t] \in Idle => to \in Idle
    BY DEF UnmapOne, PCs, Waits, BeforeBarrier, Measured, Idle
  <1>3. UNCHANGED <<main, barrier>> /\ err' \in [Tids -> Errors]
    BY DEF UnmapOne, SetErr, Desert, IInv, HarnessInv, MainTypeOK, Errors
  <1>4. HarnessInv'
    BY <1>1, <1>2, <1>3, LocalPreserves DEF IInv
  <1>5. TypeOK'
    <2>1. vm' \in [Slots -> Tids \union {NoOne}]
      BY DEF UnmapOne, Mmap, Munmap, IInv, TypeOK
    <2>2. counter' \in [Tids -> 0..MaxOps]
      BY Bounds DEF UnmapOne, CountOp, IInv, TypeOK, LoopInv
    <2> QED BY <1>4, <2>1, <2>2
        DEF UnmapOne, IInv, TypeOK, HarnessInv, main
  <1>6. LoopInv'
    BY <1>1 DEF UnmapOne, Goto, IInv, LoopInv, TypeOK, MainTypeOK, locals, CountOp
  <1> QED BY <1>4, <1>5, <1>6 DEF IInv

LEMMA UnmapOneFailsIInv == ASSUME IInv, NEW t \in Tids, UnmapOneFails(t) PROVE IInv'
  <1>1. PICK to \in {"exited"} : Goto(t, to)
    BY DEF UnmapOneFails, Desert
  <1>2. /\ to \in PCs \ Waits /\ to # "unborn" /\ pc[t] \notin Waits \union {"unborn", "exited"}
        /\ pc[t] \in Idle => to \in Idle
    BY DEF UnmapOneFails, PCs, Waits, BeforeBarrier, Measured, Idle
  <1>3. UNCHANGED <<main, barrier>> /\ err' \in [Tids -> Errors]
    BY DEF UnmapOneFails, SetErr, Desert, IInv, HarnessInv, MainTypeOK, Errors
  <1>4. HarnessInv'
    BY <1>1, <1>2, <1>3, LocalPreserves DEF IInv
  <1>5. TypeOK'
    BY <1>3, <1>4 DEF UnmapOneFails, IInv, TypeOK, HarnessInv, main, locals, Desert
  <1>6. LoopInv'
    BY <1>1 DEF UnmapOneFails, Goto, IInv, LoopInv, TypeOK, MainTypeOK, locals, Desert
  <1> QED BY <1>4, <1>5, <1>6 DEF IInv

LEMMA Unmap4kIInv == ASSUME IInv, NEW t \in Tids, Unmap4k(t) PROVE IInv'
  <1>1. PICK to \in {"half"} : Goto(t, to)
    BY DEF Unmap4k
  <1>2. /\ to \in PCs \ Waits /\ to # "unborn" /\ pc[t] \notin Waits \union {"unborn", "exited"}
        /\ pc[t] \in Idle => to \in Idle
    BY DEF Unmap4k, PCs, Waits, BeforeBarrier, Measured, Idle
  <1>3. UNCHANGED <<main, barrier>> /\ err' \in [Tids -> Errors]
    BY DEF Unmap4k, SetErr, Desert, IInv, HarnessInv, MainTypeOK, Errors
  <1>4. HarnessInv'
    BY <1>1, <1>2, <1>3, LocalPreserves DEF IInv
  <1>5. TypeOK'
    <2>1. vm' \in [Slots -> Tids \union {NoOne}]
      BY DEF Unmap4k, Mmap, Munmap, IInv, TypeOK
    <2> QED BY <1>4, <2>1
        DEF Unmap4k, IInv, TypeOK, HarnessInv, main
  <1>6. LoopInv'
    BY <1>1, Bounds, OpsLimitBound DEF Unmap4k, More, Goto, IInv, LoopInv, TypeOK,
         MainTypeOK, locals
  <1> QED BY <1>4, <1>5, <1>6 DEF IInv

LEMMA Unmap4kFailsIInv == ASSUME IInv, NEW t \in Tids, Unmap4kFails(t) PROVE IInv'
  <1>1. PICK to \in {"end"} : Goto(t, to)
    BY DEF Unmap4kFails
  <1>2. /\ to \in PCs \ Waits /\ to # "unborn" /\ pc[t] \notin Waits \union {"unborn", "exited"}
        /\ pc[t] \in Idle => to \in Idle
    BY DEF Unmap4kFails, PCs, Waits, BeforeBarrier, Measured, Idle
  <1>3. UNCHANGED <<main, barrier>> /\ err' \in [Tids -> Errors]
    BY DEF Unmap4kFails, SetErr, Desert, IInv, HarnessInv, MainTypeOK, Errors
  <1>4. HarnessInv'
    BY <1>1, <1>2, <1>3, LocalPreserves DEF IInv
  <1>5. TypeOK'
    BY <1>3, <1>4 DEF Unmap4kFails, IInv, TypeOK, HarnessInv, main, locals
  <1>6. LoopInv'
    BY <1>1 DEF Unmap4kFails, Goto, IInv, LoopInv, TypeOK, MainTypeOK, locals
  <1> QED BY <1>4, <1>5, <1>6 DEF IInv

LEMMA Remap4kIInv == ASSUME IInv, NEW t \in Tids, Remap4k(t) PROVE IInv'
  <1>1. PICK to \in {"loop"} : Goto(t, to)
    BY DEF Remap4k
  <1>2. /\ to \in PCs \ Waits /\ to # "unborn" /\ pc[t] \notin Waits \union {"unborn", "exited"}
        /\ pc[t] \in Idle => to \in Idle
    BY DEF Remap4k, PCs, Waits, BeforeBarrier, Measured, Idle
  <1>3. UNCHANGED <<main, barrier>> /\ err' \in [Tids -> Errors]
    BY DEF Remap4k, SetErr, Desert, IInv, HarnessInv, MainTypeOK, Errors
  <1>4. HarnessInv'
    BY <1>1, <1>2, <1>3, LocalPreserves DEF IInv
  <1>5. TypeOK'
    <2>1. vm' \in [Slots -> Tids \union {NoOne}]
      BY DEF Remap4k, Mmap, Munmap, IInv, TypeOK
    <2>2. PICK a \in Targets(addrs[t][Idx(t)]) : addrs' = [addrs EXCEPT ![t][Idx(t)] = a]
      BY DEF Remap4k
    <2>3. Idx(t) \in 0..(NMaps - 1)
      BY IdxRange DEF IInv
    <2>4. a \in Slots \union {NULL}
      <3>1. addrs \in [Tids -> [0..(NMaps - 1) -> Slots \union {NULL}]]
        BY DEF IInv, TypeOK
      <3>2. addrs[t][Idx(t)] \in Slots \union {NULL}
        BY <2>3, <3>1
      <3> QED BY <2>2, <3>2, TargetsInSlots
    <2>5. addrs' \in [Tids -> [0..(NMaps - 1) -> Slots \union {NULL}]]
      BY <2>2, <2>3, <2>4 DEF IInv, TypeOK
    <2>6. counter' \in [Tids -> 0..MaxOps]
      BY Bounds DEF Remap4k, CountOp, IInv, TypeOK, LoopInv
    <2> QED BY <1>4, <2>1, <2>5, <2>6
        DEF Remap4k, IInv, TypeOK, HarnessInv, main
  <1>6. LoopInv'
    BY <1>1 DEF Remap4k, Goto, IInv, LoopInv, TypeOK, MainTypeOK, locals, CountOp
  <1> QED BY <1>4, <1>5, <1>6 DEF IInv

LEMMA Remap4kFailsIInv == ASSUME IInv, NEW t \in Tids, Remap4kFails(t) PROVE IInv'
  <1>1. PICK to \in {"end"} : Goto(t, to)
    BY DEF Remap4kFails
  <1>2. /\ to \in PCs \ Waits /\ to # "unborn" /\ pc[t] \notin Waits \union {"unborn", "exited"}
        /\ pc[t] \in Idle => to \in Idle
    BY DEF Remap4kFails, PCs, Waits, BeforeBarrier, Measured, Idle
  <1>3. UNCHANGED <<main, barrier>> /\ err' \in [Tids -> Errors]
    BY DEF Remap4kFails, SetErr, Desert, IInv, HarnessInv, MainTypeOK, Errors
  <1>4. HarnessInv'
    BY <1>1, <1>2, <1>3, LocalPreserves DEF IInv
  <1>5. TypeOK'
    BY <1>3, <1>4 DEF Remap4kFails, IInv, TypeOK, HarnessInv, main, locals
  <1>6. LoopInv'
    BY <1>1 DEF Remap4kFails, Goto, IInv, LoopInv, TypeOK, MainTypeOK, locals
  <1> QED BY <1>4, <1>5, <1>6 DEF IInv

LEMMA MapOnlyIInv == ASSUME IInv, NEW t \in Tids, MapOnly(t) PROVE IInv'
  <1>1. HarnessInv'
    BY QuietPreserves DEF MapOnly, IInv, main, barrier
  <1>2. counter' \in [Tids -> 0..MaxOps]
    BY Bounds, OpsLimitBound DEF MapOnly, CountOp, More, IInv, TypeOK
  <1>3. vm' \in [Slots -> Tids \union {NoOne}]
    BY DEF MapOnly, Mmap, IInv, TypeOK
  <1>4. TypeOK'
    BY <1>1, <1>2, <1>3 DEF MapOnly, IInv, TypeOK, HarnessInv, main
  <1>5. LoopInv'
    BY DEF MapOnly, CountOp, IInv, LoopInv, TypeOK
  <1> QED BY <1>1, <1>4, <1>5 DEF IInv

LEMMA MapFailsIInv == ASSUME IInv, NEW t \in Tids, MapFails(t) PROVE IInv'
  <1>1. PICK to \in {"exited", "end"} : Goto(t, to)
    BY DEF MapFails, Desert
  <1>2. /\ to \in PCs \ Waits /\ to # "unborn" /\ pc[t] \notin Waits \union {"unborn", "exited"}
        /\ pc[t] \in Idle => to \in Idle
    BY DEF MapFails, PCs, Waits, BeforeBarrier, Measured, Idle
  <1>3. UNCHANGED <<main, barrier>> /\ err' \in [Tids -> Errors]
    BY DEF MapFails, SetErr, Desert, IInv, HarnessInv, MainTypeOK, Errors
  <1>4. HarnessInv'
    BY <1>1, <1>2, <1>3, LocalPreserves DEF IInv
  <1>5. TypeOK'
    BY <1>3, <1>4 DEF MapFails, IInv, TypeOK, HarnessInv, main, locals, Desert
  <1>6. LoopInv'
    BY <1>1 DEF MapFails, Goto, IInv, LoopInv, TypeOK, MainTypeOK, locals, Desert
  <1> QED BY <1>4, <1>5, <1>6 DEF IInv

LEMMA LoopEndIInv == ASSUME IInv, NEW t \in Tids, LoopEnd(t) PROVE IInv'
  <1>1. PICK to \in {"end"} : Goto(t, to)
    BY DEF LoopEnd
  <1>2. /\ to \in PCs \ Waits /\ to # "unborn" /\ pc[t] \notin Waits \union {"unborn", "exited"}
        /\ pc[t] \in Idle => to \in Idle
    BY DEF LoopEnd, PCs, Waits, BeforeBarrier, Measured, Idle
  <1>3. UNCHANGED <<main, barrier>> /\ err' \in [Tids -> Errors]
    BY DEF LoopEnd, SetErr, Desert, IInv, HarnessInv, MainTypeOK, Errors
  <1>4. HarnessInv'
    BY <1>1, <1>2, <1>3, LocalPreserves DEF IInv
  <1>5. TypeOK'
    BY <1>3, <1>4 DEF LoopEnd, IInv, TypeOK, HarnessInv, main, locals
  <1>6. LoopInv'
    BY <1>1 DEF LoopEnd, Goto, IInv, LoopInv, TypeOK, MainTypeOK, locals
  <1> QED BY <1>4, <1>5, <1>6 DEF IInv

LEMMA CleanIInv == ASSUME IInv, NEW t \in Tids, Clean(t) PROVE IInv'
  <1>1. PICK to \in {"clean", "fini"} : Goto(t, to)
    BY DEF Clean
  <1>2. /\ to \in PCs \ Waits /\ to # "unborn" /\ pc[t] \notin Waits \union {"unborn", "exited"}
        /\ pc[t] \in Idle => to \in Idle
    BY DEF Clean, PCs, Waits, BeforeBarrier, Measured, Idle
  <1>3. UNCHANGED <<main, barrier>> /\ err' \in [Tids -> Errors]
    BY DEF Clean, SetErr, Desert, IInv, HarnessInv, MainTypeOK, Errors
  <1>4. HarnessInv'
    BY <1>1, <1>2, <1>3, LocalPreserves DEF IInv
  <1>5. TypeOK'
    <2>1. vm' \in [Slots -> Tids \union {NoOne}]
      BY DEF Clean, Munmap, IInv, TypeOK
    <2>2. step' \in [Tids -> 0..NMaps]
      BY Bounds DEF Clean, IInv, LoopInv, TypeOK
    <2> QED BY <1>4, <2>1, <2>2 DEF Clean, IInv, TypeOK, HarnessInv, main
  <1>6. LoopInv'
    BY Bounds DEF Clean, Goto, IInv, LoopInv, TypeOK, MainTypeOK
  <1> QED BY <1>4, <1>5, <1>6 DEF IInv

------------------------------------------------------------------------------
(* The steps the harness takes part in.                                       *)

(* Types and loop variables of a step that changes control and barrier only.  *)
LEMMA ControlPreserves ==
  ASSUME IInv, HarnessInv', NEW t \in Tids,
         NEW to \in {"alloc", "ready", "wild", "ready_wait", "loop", "end_wait", "clean",
                     "fini_wait", "exited"},
         Goto(t, to), to \notin {"wild", "fini_wait", "exited"} => step[t] = 0,
         report' = report, counter' = counter, count' \in [Tids -> 0..MaxOps],
         UNCHANGED <<cfg, locals>>
  PROVE  IInv'
  <1>1. TypeOK'
    BY DEF IInv, TypeOK, HarnessInv, locals
  <1>2. LoopInv'
    BY Bounds DEF Goto, IInv, LoopInv, TypeOK, MainTypeOK, locals
  <1> QED BY <1>1, <1>2 DEF IInv

LEMMA BeginRunIInv == ASSUME IInv, NEW t \in Tids, BeginRun(t) PROVE IInv'
  <1>1. PICK first \in {"alloc", "ready"} : Begin(t, first)
    BY DEF BeginRun
  <1>2. HarnessInv'
    BY <1>1, BeginPreserves DEF IInv
  <1>3. PICK to \in {"alloc", "ready", "wild"} : Goto(t, to)
    BY <1>1 DEF Begin
  <1>4. step[t] = 0 /\ UNCHANGED <<cfg, locals, report, counter, count>>
    BY <1>1 DEF BeginRun, Begin, main, IInv, LoopInv
  <1> QED BY <1>2, <1>3, <1>4, ControlPreserves DEF IInv, TypeOK

LEMMA DieCancelledIInv == ASSUME IInv, NEW t \in Tids, DieCancelled(t) PROVE IInv'
  <1>1. HarnessInv'
    BY DiePreserves DEF IInv, DieCancelled
  <1>2. Goto(t, "exited") /\ UNCHANGED <<cfg, locals, report, counter, count>>
    BY DEF DieCancelled, Die, main
  <1> QED BY <1>1, <1>2, ControlPreserves DEF IInv, TypeOK

(* The three calls of the barrier. *)
LEMMA ArriveIInv ==
  ASSUME IInv, NEW t \in Tids, CallReadyBarrier(t) \/ CallEndBarrier(t) \/ FiniArrive(t)
  PROVE  IInv'
  <1>1. PICK from \in {"ready", "end", "fini"}, to \in {"ready_wait", "end_wait", "fini_wait"} :
          /\ ArriveAt(t, from, to)
          /\ from \in Idle => to \in Idle
          /\ from = "fini" <=> to = "fini_wait"
    BY DEF CallReadyBarrier, CallEndBarrier, FiniArrive, ReadyArrive, EndArrive, Idle,
           BeforeBarrier
  <1>2. from \in PCs \ Waits /\ to \in Waits /\ from \notin {"unborn", "exited"}
    BY DEF PCs, Waits, BeforeBarrier
  <1>3. HarnessInv'
    BY <1>1, <1>2, ArrivePreserves DEF IInv
  <1>4. Goto(t, to) /\ UNCHANGED <<report, counter, count>>
    BY <1>1 DEF ArriveAt, main
  <1>5. UNCHANGED <<cfg, locals>>
    BY DEF CallReadyBarrier, CallEndBarrier, FiniArrive
  <1>6. to # "fini_wait" => step[t] = 0
    BY <1>1 DEF ArriveAt, IInv, LoopInv
  <1> QED BY <1>3, <1>4, <1>5, <1>6, ControlPreserves DEF IInv, TypeOK

(* The three returns. *)
LEMMA LeaveIInv ==
  ASSUME IInv, NEW t \in Tids, PassReadyBarrier(t) \/ EndLeave(t) \/ FiniLeave(t)
  PROVE  IInv'
  <1>1. PICK from \in {"ready_wait", "end_wait", "fini_wait"}, to \in {"loop", "clean", "exited"} :
          /\ pc[t] = from /\ B!Leave(t) /\ Goto(t, to) /\ UNCHANGED <<main, err, counter>>
          /\ to = "exited" \/ from \in {"ready_wait", "end_wait"}
    BY DEF PassReadyBarrier, EndLeave, FiniLeave, ReadyLeave, LeaveFrom, EndLeaveStore
  <1>2. from \in Waits /\ to \in PCs \ Waits /\ to # "unborn"
    BY DEF PCs, Waits, BeforeBarrier, Measured
  <1>3. HarnessInv'
    BY <1>1, <1>2, LeavePreserves DEF IInv
  <1>4. count' \in [Tids -> 0..MaxOps] /\ UNCHANGED <<cfg, locals, report>>
    BY DEF PassReadyBarrier, EndLeave, FiniLeave, ReadyLeave, LeaveFrom, EndLeaveStore, main,
           IInv, TypeOK
  <1>5. to \in {"loop", "clean"} => step[t] = 0
    BY <1>1 DEF IInv, LoopInv
  <1> QED BY <1>1, <1>3, <1>4, <1>5, ControlPreserves

------------------------------------------------------------------------------
LEMMA NextIInv == IInv /\ [Next]_vars => IInv'
  <1> SUFFICES ASSUME IInv, [Next]_vars PROVE IInv'
    OBVIOUS
  <1>1. ASSUME NEW t \in Tids, Worker(t) PROVE IInv'
    BY <1>1, BeginRunIInv, AllocIInv, SetupIInv, SetupFailsIInv, MapOneIInv, UnmapOneIInv,
       UnmapOneFailsIInv, Unmap4kIInv, Unmap4kFailsIInv, Remap4kIInv, Remap4kFailsIInv,
       MapOnlyIInv, MapFailsIInv, LoopEndIInv, CleanIInv, ArriveIInv, LeaveIInv DEF Worker
  <1>2. CASE UNCHANGED vars
    <2>1. HarnessInv'
      BY <1>2, QuietPreserves DEF IInv, vars, harness
    <2>2. TypeOK' /\ LoopInv'
      BY <1>2, <2>1 DEF IInv, TypeOK, HarnessInv, LoopInv, vars, harness, main
    <2> QED BY <2>1, <2>2 DEF IInv
  <1> QED BY <1>1, <1>2, MainStepIInv, DieCancelledIInv DEF Next

(* Every variable of the benchmark stays within its type: no index leaves the *)
(* array addrs, no address leaves the address space.                          *)
THEOREM MapUnmapTypeOK == Spec => []TypeOK
  <1>1. IInv => TypeOK
    BY DEF IInv
  <1> QED BY InitIInv, NextIInv, <1>1, PTL DEF Spec

(* The invariant of the harness holds with these run functions.               *)
THEOREM MapUnmapHarnessInv == Spec => []HarnessInv
  <1>1. IInv => HarnessInv
    BY DEF IInv
  <1> QED BY InitIInv, NextIInv, <1>1, PTL DEF Spec

(* After a partial start no worker ever measures; see BenchRun.               *)
THEOREM MapUnmapPartialStartIdle == Spec => []PartialStartIdle
  <1>1. IInv => PartialStartIdle
    BY HarnessInvIdle DEF IInv
  <1> QED BY InitIInv, NextIInv, <1>1, PTL DEF Spec

(* When the arguments have been freed no worker runs; see BenchRun.           *)
THEOREM MapUnmapArgsOutlive == Spec => []ArgsOutliveWorkers
  <1>1. IInv => ArgsOutliveWorkers
    BY HarnessInvIdle DEF IInv
  <1> QED BY InitIInv, NextIInv, <1>1, PTL DEF Spec

------------------------------------------------------------------------------
(* The rest of the safety properties: a second invariant, on top of the first.*)

(* Errors are ordered: none before the loop is over (who fails earlier never  *)
(* gets there), and none in the setup of a function that has none.            *)
ErrInv ==
  \A t \in Tids :
    /\ pc[t] \in (BeforeBarrier \ {"mapped"}) \union {"ready_wait", "loop", "half", "wild"} =>
         err[t] = "none"
    /\ pc[t] \in {"alloc", "setup", "clean", "fini", "fini_wait"} => FourK
    /\ err[t] = "setup" => FourK
    /\ pc[t] = "half" => ~cfg.nounmap
    /\ pc[t] \notin {"mapped", "spin"}

(* Where a worker is while no barrier has opened, ... *)
Early(t) ==
  \/ pc[t] \in BeforeBarrier \union {"wild"}
  \/ pc[t] = "ready_wait" /\ t \in blocked
  \/ err[t] = "setup" /\ (pc[t] = "end" \/ (pc[t] = "end_wait" /\ t \in blocked))
  \/ pc[t] = "exited" /\ (err[t] = "calloc" \/ (err[t] \in {"none", "setup"} /\ t \in cancelled))

(* ... once the first one has: a worker whose setup failed was in it with its *)
(* call of the end barrier, ...                                               *)
Middle(t) ==
  \/ pc[t] = "ready_wait" /\ t \notin blocked
  \/ pc[t] \in {"loop", "half"}
  \/ err[t] # "setup" /\ (pc[t] = "end" \/ (pc[t] = "end_wait" /\ t \in blocked))
  \/ err[t] = "setup" /\ \/ pc[t] = "end_wait" /\ t \notin blocked
                         \/ pc[t] \in {"clean", "fini"}
                         \/ pc[t] = "fini_wait" /\ t \in blocked
  \/ err[t] = "op" /\ pc[t] = "exited"

(* ... and once the second one has. *)
Late(t) ==
  \/ err[t] # "setup" /\ \/ pc[t] = "end_wait" /\ t \notin blocked
                         \/ pc[t] \in {"clean", "fini", "fini_wait"}
  \/ err[t] = "setup" /\ pc[t] = "fini_wait" /\ t \notin blocked
  \/ pc[t] = "exited"

(* A barrier opens for all of them at once. *)
PhaseInv == (\A t \in Tids : Early(t)) \/ (\A t \in Tids : Middle(t)) \/ (\A t \in Tids : Late(t))

(* An entry of addrs that stands for a mapping. *)
Live(t, k) ==
  /\ addrs[t][k] # NULL
  /\ ~(pc[t] = "half" /\ k = Idx(t))
  /\ ~(err[t] = "remap" /\ k = Idx(t))
  /\ ~(pc[t] = "clean" /\ k < step[t])

(* The worker has not given up its pages. *)
Holding(t) == pc[t] \notin {"fini", "fini_wait", "exited", "wild"}

(* The addresses of an isolated worker are the pages of its region in order,  *)
(* and what it maps stays in there.                                           *)
RegionInv ==
  cfg.isolated =>
    /\ OwnRegion
    /\ \A t \in Tids, k \in 0..(NMaps - 1) : addrs[t][k] \in {NULL, RegionBase(t) + k}

(* Before the setup there are no addresses. *)
Fresh(t) ==
  pc[t] \in {"unborn", "spawned", "alloc", "setup"} =>
    \A k \in 0..(NMaps - 1) : k >= step[t] => addrs[t][k] = NULL
FreshInv == \A t \in Tids : Fresh(t)

(* A worker's mapping at a is there, unless another worker with a failed      *)
(* remap has unmapped it in its cleanup.                                      *)
Kept(t, a) == vm[a] = t \/ (vm[a] = NoOne /\ \E u \in Tids \ {t} : Undone(u, a))

(* No two entries of a 4k worker are the same, and each live one is a mapping *)
(* of this worker; the one address of the others is theirs from map to unmap. *)
Distinct(t) ==
  FourK => \A k, l \in 0..(NMaps - 1) : addrs[t][k] # NULL /\ addrs[t][k] = addrs[t][l] => k = l
Owned(t) ==
  /\ FourK /\ Holding(t) => \A k \in 0..(NMaps - 1) : Live(t, k) => Kept(t, addrs[t][k])
  /\ ~FourK /\ pc[t] = "half" => addrs[t][0] # NULL /\ vm[addrs[t][0]] = t
OwnedInv == \A t \in Tids : Distinct(t) /\ Owned(t)

(* As long as nothing fails all mappings of a worker are accounted for. *)
NoErrors == cancelled = {} /\ \A u \in Tids : err[u] = "none"
Accounted(t) ==
  \A a \in Slots : vm[a] = t =>
    IF FourK THEN Holding(t) /\ \E k \in 0..(NMaps - 1) : Live(t, k) /\ addrs[t][k] = a
    ELSE pc[t] = "half" /\ addrs[t][0] = a
AccountedInv == ~cfg.nounmap /\ NoErrors => \A t \in Tids : Accounted(t)

(* Who has stored its count has stored what it executed, and the CSV shows it.*)
Stored(t) ==
  IF cfg.map4k THEN pc[t] \in {"end", "end_wait", "clean", "fini", "fini_wait", "exited"}
  ELSE pc[t] = "exited"
ReportInv ==
  /\ cancelled = {} =>
       \A t \in Tids : err[t] \in {"none", "cleanup"} /\ Stored(t) => count[t] = counter[t]
  /\ mpc = "cleanup" \/ ret = "ok" => report = count

VmInv == RegionInv /\ FreshInv /\ OwnedInv /\ AccountedInv
DInv == CancelInv /\ ErrInv /\ PhaseInv /\ VmInv /\ ReportInv

------------------------------------------------------------------------------
(* What is common to the steps of a worker. *)

StepOf(t) ==
  /\ UNCHANGED <<main, cfg>>
  /\ \A u \in Tids \ {t} : /\ pc'[u] = pc[u] /\ err'[u] = err[u] /\ addrs'[u] = addrs[u]
                           /\ step'[u] = step[u] /\ counter'[u] = counter[u]
                           /\ count'[u] = count[u]
  /\ \A a \in Slots : vm'[a] \in {vm[a], t, NoOne}

LEMMA EveryStepOf == ASSUME IInv, NEW t \in Tids, Worker(t) \/ DieCancelled(t) PROVE StepOf(t)
  <1> USE DEF IInv, TypeOK, MainTypeOK, locals, Goto, SetErr, CountOp, Desert, StepOf
  <1>1. CASE BeginRun(t) \/ Alloc(t) \/ DieCancelled(t)
    BY <1>1 DEF BeginRun, Begin, Alloc, DieCancelled, Die, main
  <1>2. CASE SetupFails(t) \/ UnmapOneFails(t) \/ Unmap4kFails(t) \/ Remap4kFails(t)
             \/ MapFails(t) \/ LoopEnd(t)
    BY <1>2 DEF SetupFails, UnmapOneFails, Unmap4kFails, Remap4kFails, MapFails, LoopEnd, main
  <1>3. CASE CallReadyBarrier(t) \/ PassReadyBarrier(t) \/ CallEndBarrier(t) \/ EndLeave(t)
             \/ FiniArrive(t) \/ FiniLeave(t)
    BY <1>3 DEF CallReadyBarrier, ReadyArrive, PassReadyBarrier, ReadyLeave, CallEndBarrier,
                EndArrive, EndLeave, EndLeaveStore, FiniArrive, FiniLeave, ArriveAt, LeaveFrom, main
  <1>4. CASE Setup(t) \/ MapOne(t) \/ Remap4k(t) \/ MapOnly(t)
    <2>1. PICK a : Mmap(t, a)
      BY <1>4 DEF Setup, MapOne, Remap4k, MapOnly
    <2>2. \A b \in Slots : vm'[b] \in {vm[b], t, NoOne}
      BY <2>1, MmapStep
    <2> QED BY <1>4, <2>2 DEF Setup, MapOne, Remap4k, MapOnly, main
  <1>5. CASE UnmapOne(t) \/ Unmap4k(t)
    <2>1. PICK a : Munmap(a)
      BY <1>5 DEF UnmapOne, Unmap4k
    <2>2. \A b \in Slots : vm'[b] \in {vm[b], t, NoOne}
      BY <2>1, MunmapStep
    <2> QED BY <1>5, <2>2 DEF UnmapOne, Unmap4k, main
  <1>6. CASE Clean(t)
    <2>1. \A b \in Slots : vm'[b] \in {vm[b], t, NoOne}
      <3>1. UNCHANGED vm \/ \E a : Munmap(a)
        BY <1>6 DEF Clean
      <3> QED BY <3>1, MunmapStep
    <2> QED BY <1>6, <2>1 DEF Clean, main
  <1> QED BY <1>1, <1>2, <1>3, <1>4, <1>5, <1>6 DEF Worker

(* The types the leaves below use. *)
LEMMA VmTypes ==
  ASSUME IInv, NEW t \in Tids
  PROVE  /\ addrs \in [Tids -> [0..(NMaps - 1) -> Slots \union {NULL}]]
         /\ vm \in [Slots -> Tids \union {NoOne}]
         /\ pc \in [Tids -> PCs] /\ step \in [Tids -> 0..NMaps] /\ counter \in [Tids -> 0..MaxOps]
         /\ err \in [Tids -> Errors]
         /\ Idx(t) \in 0..(NMaps - 1)
         /\ \A k \in 0..(NMaps - 1) : addrs[t][k] \in Slots \union {NULL}
         /\ 0..(NMaps - 1) \subseteq 0..(RegionSlots - 1)
         /\ NULL \notin Slots /\ NoOne \notin Tids
  <1>1. TypeOK
    BY DEF IInv
  <1>2. 0..(NMaps - 1) \subseteq 0..(RegionSlots - 1)
    BY Bounds
  <1>3. addrs \in [Tids -> [0..(NMaps - 1) -> Slots \union {NULL}]]
    BY <1>1 DEF TypeOK
  <1>4. \A k \in 0..(NMaps - 1) : addrs[t][k] \in Slots \union {NULL}
    BY <1>3
  <1> QED BY <1>1, <1>2, <1>3, <1>4, IdxRange, PoolInSlots DEF TypeOK, MainTypeOK

LEMMA MainStepOf ==
  ASSUME IInv, MainStep
  PROVE  /\ UNCHANGED <<cfg, locals, blocked, err, counter, count>>
         /\ \A t \in Tids : pc'[t] = pc[t] \/ (pc[t] = "unborn" /\ pc'[t] = "spawned")
  BY MainShape DEF MainStep, IInv

------------------------------------------------------------------------------
(* Control: CancelInv, ErrInv and PhaseInv. *)

LEMMA CancelStep == IInv /\ CancelInv /\ [Next]_vars => CancelInv'
  <1> SUFFICES ASSUME IInv, CancelInv, [Next]_vars PROVE CancelInv'
    OBVIOUS
  <1>1. CASE MainStep
    BY <1>1, MainCancel DEF IInv, MainStep
  <1>2. CASE UNCHANGED main
    BY <1>2 DEF CancelInv, main
  <1> QED BY <1>1, <1>2, EveryStepOf DEF Next, StepOf, vars, harness

LEMMA ErrStep ==
  ASSUME IInv, ErrInv, NEW t \in Tids, Worker(t) \/ DieCancelled(t)
  PROVE  ErrInv'
  <1> DEFINE None == (BeforeBarrier \ {"mapped"}) \union {"ready_wait", "loop", "half", "wild"}
             Deep == {"alloc", "setup", "clean", "fini", "fini_wait"}
  <1>1. StepOf(t)
    BY EveryStepOf
  <1>2. /\ pc'[t] \in None => pc[t] \in None /\ UNCHANGED err
        /\ pc'[t] \in Deep => FourK
        /\ err'[t] = "setup" => FourK
        /\ pc'[t] = "half" => ~cfg.nounmap
        /\ pc'[t] \notin {"mapped", "spin"}
    <2> USE DEF IInv, TypeOK, MainTypeOK, Goto, Desert, SetErr, BeforeBarrier, ErrInv
    <2>1. CASE BeginRun(t) \/ Alloc(t) \/ DieCancelled(t)
      BY <2>1 DEF BeginRun, Begin, Alloc, DieCancelled, Die
    <2>2. CASE Setup(t) \/ SetupFails(t)
      BY <2>2 DEF Setup, SetupFails
    <2>3. CASE MapOne(t) \/ UnmapOne(t) \/ UnmapOneFails(t) \/ Unmap4k(t) \/ Unmap4kFails(t)
               \/ Remap4k(t) \/ Remap4kFails(t) \/ MapOnly(t) \/ MapFails(t) \/ LoopEnd(t)
      BY <2>3 DEF MapOne, UnmapOne, UnmapOneFails, Unmap4k, Unmap4kFails, Remap4k, Remap4kFails,
                  MapOnly, MapFails, LoopEnd, FourK
    <2>4. CASE CallReadyBarrier(t) \/ PassReadyBarrier(t) \/ CallEndBarrier(t) \/ EndLeave(t)
               \/ FiniArrive(t) \/ FiniLeave(t)
      BY <2>4 DEF CallReadyBarrier, ReadyArrive, PassReadyBarrier, ReadyLeave, CallEndBarrier,
                EndArrive, EndLeave, EndLeaveStore, FiniArrive, FiniLeave, ArriveAt, LeaveFrom
    <2>5. CASE Clean(t)
      BY <2>5 DEF Clean
    <2> QED BY <2>1, <2>2, <2>3, <2>4, <2>5 DEF Worker
  <1>3. cfg' = cfg /\ (FourK' <=> FourK)
    BY <1>1 DEF StepOf, FourK
  <1>4. ASSUME NEW u \in Tids
        PROVE  /\ pc'[u] \in None => err'[u] = "none"
               /\ pc'[u] \in Deep => FourK
               /\ err'[u] = "setup" => FourK
               /\ pc'[u] = "half" => ~cfg.nounmap
               /\ pc'[u] \notin {"mapped", "spin"}
    BY <1>1, <1>2 DEF StepOf, ErrInv
  <1> QED BY <1>3, <1>4 DEF ErrInv

LEMMA ErrMain == ASSUME IInv, ErrInv, MainStep PROVE ErrInv'
  BY MainStepOf DEF ErrInv, BeforeBarrier, FourK

(* Which phases a control point can belong to. *)
LEMMA PhaseOf ==
  ASSUME PhaseInv, NEW t \in Tids
  PROVE  /\ pc[t] \in BeforeBarrier \union {"wild"} => \A u \in Tids : Early(u)
         /\ pc[t] \in {"loop", "half"} => \A u \in Tids : Middle(u)
         /\ pc[t] = "end" => (\A u \in Tids : Early(u)) \/ (\A u \in Tids : Middle(u))
         /\ pc[t] \in {"clean", "fini"} => (\A u \in Tids : Middle(u)) \/ (\A u \in Tids : Late(u))
  BY DEF PhaseInv, Early, Middle, Late, BeforeBarrier

(* A step of one worker that opens no barrier leaves the phase as it is.      *)
LEMMA PhaseSame ==
  ASSUME NEW t \in Tids, \A u \in Tids \ {t} : pc'[u] = pc[u] /\ err'[u] = err[u],
         \A u \in Tids \ {t} : u \in blocked' <=> u \in blocked, UNCHANGED cancelled,
         \/ (\A u \in Tids : Early(u)) /\ Early(t)'
         \/ (\A u \in Tids : Middle(u)) /\ Middle(t)'
         \/ (\A u \in Tids : Late(u)) /\ Late(t)'
  PROVE  PhaseInv'
  <1>1. \A u \in Tids \ {t} : /\ Early(u) => Early(u)'
                              /\ Middle(u) => Middle(u)'
                              /\ Late(u) => Late(u)'
    BY DEF Early, Middle, Late
  <1> QED BY <1>1 DEF PhaseInv

(* The calls of the barrier: the last one opens it, for all of them.          *)
LEMMA PhaseArrive ==
  ASSUME IInv, ErrInv, PhaseInv, NEW t \in Tids,
         CallReadyBarrier(t) \/ CallEndBarrier(t) \/ FiniArrive(t)
  PROVE  PhaseInv'
  <1>1. PICK from \in {"ready", "end", "fini"}, to \in {"ready_wait", "end_wait", "fini_wait"} :
          /\ pc[t] = from /\ B!Arrive(t) /\ Goto(t, to) /\ UNCHANGED <<err, cancelled>>
          /\ from = "ready" => to = "ready_wait"
          /\ from = "end" => to = "end_wait"
          /\ from = "fini" => to = "fini_wait"
    BY DEF CallReadyBarrier, CallEndBarrier, FiniArrive, ReadyArrive, EndArrive, ArriveAt, main
  <1>2. \A u \in Tids : pc'[u] = IF u = t THEN to ELSE pc[u]
    BY <1>1 DEF Goto, IInv, TypeOK, MainTypeOK
  <1>3. \A u \in blocked : pc[u] \in Waits /\ u # t
    BY <1>1 DEF IInv, HarnessInv, BarrierInv, MainTypeOK, Waits
  <1>4. CASE blocked \union {t} = Tids
    <2>1. blocked' = {}
      BY <1>1, <1>4 DEF B!Arrive
    <2>2. \A u \in Tids \ {t} : u \in blocked /\ pc[u] \in Waits
      BY <1>3, <1>4
    <2>3. CASE \A u \in Tids : Early(u)
      <3>1. \A u \in Tids \ {t} : Middle(u)'
        BY <1>1, <1>2, <2>1, <2>2, <2>3 DEF Early, Middle, Waits, BeforeBarrier
      <3>2. Middle(t)'
        BY <1>1, <1>2, <2>1, <2>3 DEF Early, Middle, BeforeBarrier
      <3> QED BY <3>1, <3>2 DEF PhaseInv
    <2>4. CASE \A u \in Tids : Middle(u)
      <3>1. \A u \in Tids \ {t} : Late(u)'
        BY <1>1, <1>2, <2>1, <2>2, <2>4 DEF Late, Middle, Waits
      <3>2. Late(t)'
        BY <1>1, <1>2, <2>1, <2>4 DEF Late, Middle
      <3> QED BY <3>1, <3>2 DEF PhaseInv
    <2>5. CASE \A u \in Tids : Late(u)
      <3>1. \A u \in Tids \ {t} : Late(u)'
        BY <1>1, <1>2, <2>1, <2>2, <2>5 DEF Late, Waits
      <3>2. Late(t)'
        BY <1>1, <1>2, <2>1, <2>5 DEF Late
      <3> QED BY <3>1, <3>2 DEF PhaseInv
    <2> QED BY <2>3, <2>4, <2>5 DEF PhaseInv
  <1>5. CASE blocked \union {t} # Tids
    <2>1. blocked' = blocked \union {t}
      BY <1>1, <1>5 DEF B!Arrive
    <2>2. /\ Early(t) => Early(t)'
          /\ Middle(t) => Middle(t)'
          /\ Late(t) => Late(t)'
      BY <1>1, <1>2, <2>1 DEF Early, Middle, Late, BeforeBarrier
    <2> QED BY <1>1, <1>2, <2>1, <2>2, PhaseSame DEF PhaseInv
  <1> QED BY <1>4, <1>5

(* The returns: only from a barrier that has opened. *)
LEMMA PhaseLeave ==
  ASSUME IInv, ErrInv, PhaseInv, NEW t \in Tids,
         PassReadyBarrier(t) \/ EndLeave(t) \/ FiniLeave(t)
  PROVE  PhaseInv'
  <1>1. PICK from \in {"ready_wait", "end_wait", "fini_wait"}, to \in {"loop", "clean", "exited"} :
          /\ pc[t] = from /\ t \notin blocked /\ Goto(t, to) /\ UNCHANGED <<err, cancelled, blocked>>
          /\ from = "ready_wait" => to = "loop"
          /\ from = "end_wait" => to \in {"clean", "exited"} /\ (FourK => to = "clean")
          /\ from = "fini_wait" => to = "exited"
    BY DEF PassReadyBarrier, EndLeave, FiniLeave, ReadyLeave, LeaveFrom, EndLeaveStore, B!Leave, main,
           FourK
  <1>2. \A u \in Tids : pc'[u] = IF u = t THEN to ELSE pc[u]
    BY <1>1 DEF Goto, IInv, TypeOK, MainTypeOK
  <1>3. /\ ~Early(t)
        /\ Middle(t) => Middle(t)'
        /\ Late(t) => Late(t)'
    BY <1>1, <1>2 DEF Early, Middle, Late, ErrInv, BeforeBarrier
  <1> QED BY <1>1, <1>2, <1>3, PhaseSame DEF PhaseInv

(* A worker can only be cancelled before the first barrier opens.             *)
LEMMA PhaseDie ==
  ASSUME IInv, CancelInv, ErrInv, PhaseInv, NEW t \in Tids, DieCancelled(t)
  PROVE  PhaseInv'
  <1>1. /\ Goto(t, "exited") /\ t \in cancelled
        /\ UNCHANGED <<err, blocked, cancelled>> /\ pc \in [Tids -> PCs]
    BY DEF DieCancelled, Die, main, barrier, IInv, TypeOK, MainTypeOK
  <1>2. PICK u \in Tids : pc[u] = "unborn"
    BY <1>1, CancelledUnborn DEF IInv
  <1>3. \A v \in Tids : pc'[v] = IF v = t THEN "exited" ELSE pc[v]
    BY <1>1 DEF Goto
  <1>4. (\A v \in Tids : Early(v)) /\ Early(t)'
    BY <1>1, <1>2, <1>3, PhaseOf DEF Early, BeforeBarrier, DieCancelled, Die, ErrInv
  <1> QED BY <1>1, <1>3, <1>4, PhaseSame

LEMMA PhaseStep ==
  ASSUME IInv, CancelInv, ErrInv, PhaseInv, NEW t \in Tids, Worker(t)
  PROVE  PhaseInv'
  <1>1. StepOf(t) /\ UNCHANGED cancelled
    BY EveryStepOf DEF StepOf, main
  <1>2. \A u \in Tids \ {t} : pc'[u] = pc[u] /\ err'[u] = err[u]
    BY <1>1 DEF StepOf
  <1> USE DEF IInv, TypeOK, MainTypeOK, Goto, Desert, SetErr, barrier
  <1>3. CASE BeginRun(t) \/ Alloc(t) \/ Setup(t) \/ SetupFails(t)
    <2>1. pc[t] \in BeforeBarrier /\ UNCHANGED blocked /\ Early(t)'
      BY <1>3 DEF BeginRun, Begin, Alloc, Setup, SetupFails, BeforeBarrier, Early, ErrInv
    <2> QED BY <1>1, <1>2, <2>1, PhaseOf, PhaseSame
  <1>4. CASE MapOne(t) \/ UnmapOne(t) \/ UnmapOneFails(t) \/ Unmap4k(t) \/ Unmap4kFails(t)
             \/ Remap4k(t) \/ Remap4kFails(t) \/ MapOnly(t) \/ MapFails(t) \/ LoopEnd(t)
    <2>1. pc[t] \in {"loop", "half"} /\ UNCHANGED blocked /\ Middle(t)'
      BY <1>4 DEF MapOne, UnmapOne, UnmapOneFails, Unmap4k, Unmap4kFails, Remap4k, Remap4kFails,
                  MapOnly, MapFails, LoopEnd, ErrInv, Middle
    <2> QED BY <1>1, <1>2, <2>1, PhaseOf, PhaseSame
  <1>5. CASE Clean(t)
    <2>1. /\ pc[t] = "clean" /\ UNCHANGED blocked
          /\ Middle(t) => Middle(t)'
          /\ Late(t) => Late(t)'
      BY <1>5 DEF Clean, Middle, Late
    <2> QED BY <1>1, <1>2, <2>1, PhaseOf, PhaseSame
  <1> QED BY <1>3, <1>4, <1>5, PhaseArrive, PhaseLeave DEF Worker

LEMMA PhaseMain == ASSUME IInv, PhaseInv, MainStep PROVE PhaseInv'
  <1>1. /\ UNCHANGED <<blocked, err>>
        /\ \A t \in Tids : pc'[t] = pc[t] \/ (pc[t] = "unborn" /\ pc'[t] = "spawned")
    BY MainStepOf
  <1>2. cancelled \subseteq cancelled'
    BY DEF MainStep, Main, BarrierInit, StartThread, AllStarted, StartFails, CancelThread,
           AllCancelled, JoinThread, AllJoined, PrintCsv, CleanupArgs
  <1>3. \A t \in Tids : /\ Early(t) => Early(t)'
                        /\ Middle(t) => Middle(t)'
                        /\ Late(t) => Late(t)'
    BY <1>1, <1>2 DEF Early, Middle, Late, BeforeBarrier
  <1> QED BY <1>3 DEF PhaseInv

(* Behind the cleanup of a worker with a failed remap nobody maps any more.   *)
LEMMA UndoneLate ==
  ASSUME IInv, ErrInv, PhaseInv, NEW u \in Tids, NEW a, Undone(u, a)
  PROVE  /\ pc[u] \in {"clean", "fini", "fini_wait", "exited"}
         /\ \A t \in Tids : pc[t] \in {"end_wait", "clean", "fini", "fini_wait", "exited"}
  <1>1. err[u] = "remap" /\ step[u] # 0
    BY Bounds, IdxRange DEF Undone, IInv, TypeOK
  <1>2. pc[u] \in {"clean", "fini", "fini_wait", "exited"}
    BY <1>1 DEF IInv, LoopInv, ErrInv, TypeOK, MainTypeOK, PCs, BeforeBarrier, Measured, Waits
  <1>3. \A t \in Tids : Late(t)
    BY <1>1, <1>2 DEF PhaseInv, Early, Middle, BeforeBarrier
  <1> QED BY <1>2, <1>3 DEF Late

(* Nor does it unmap any other address. *)
LEMMA UndoneStays ==
  ASSUME IInv, ErrInv, PhaseInv, NEW t \in Tids, Worker(t) \/ DieCancelled(t),
         NEW u \in Tids, NEW a, Undone(u, a)
  PROVE  Undone(u, a)' /\ \A b \in Slots : vm'[b] \in {vm[b], NoOne}
  <1>1. StepOf(t)
    BY EveryStepOf
  <1>2. /\ pc[u] \in {"clean", "fini", "fini_wait", "exited"}
        /\ pc[t] \in {"end_wait", "clean", "fini", "fini_wait", "exited"}
    BY UndoneLate
  <1>3. \/ EndLeave(t) \/ FiniArrive(t) \/ FiniLeave(t) \/ Clean(t)
    BY <1>2 DEF Worker, BeginRun, Begin, Alloc, Setup, SetupFails, MapOne, UnmapOne, UnmapOneFails,
         Unmap4k, Unmap4kFails, Remap4k, Remap4kFails, MapOnly, MapFails, LoopEnd,
         CallReadyBarrier, ReadyArrive, PassReadyBarrier, ReadyLeave, CallEndBarrier, EndArrive,
         ArriveAt, LeaveFrom, DieCancelled, Die
  <1>4. UNCHANGED vm \/ \E b : Munmap(b)
    BY <1>3 DEF EndLeave, FiniArrive, FiniLeave, Clean, locals
  <1>5. \A b \in Slots : vm'[b] \in {vm[b], NoOne}
    BY <1>4, MunmapStep DEF IInv, TypeOK
  <1>6. CASE u # t
    BY <1>1, <1>5, <1>6 DEF StepOf, Undone, Idx
  <1>7. CASE u = t
    <2>1. CASE EndLeave(t) \/ FiniArrive(t) \/ FiniLeave(t)
      <3>1. UNCHANGED <<cfg, err, step, counter, addrs>>
        BY <2>1 DEF EndLeave, EndLeaveStore, FiniArrive, FiniLeave, ArriveAt, LeaveFrom, locals
      <3> QED BY <1>5, <3>1 DEF Undone, Idx
    <2>2. CASE Clean(t)
      <3>1. /\ UNCHANGED <<cfg, counter, addrs>> /\ step'[t] = step[t] + 1
            /\ err[t] = "remap" /\ err'[t] = "remap"
        BY <1>7, <2>2 DEF Clean, SetErr, Undone, IInv, TypeOK, MainTypeOK
      <3>2. step[t] \in Nat /\ Idx(t) \in Nat
        BY IdxRange, Bounds DEF IInv, TypeOK
      <3>3. Idx(t)' = Idx(t) /\ step[t] + 1 > Idx(t)
        BY <1>7, <3>1, <3>2 DEF Undone, Idx
      <3> QED BY <1>5, <1>7, <3>1, <3>3 DEF Undone
    <2> QED BY <1>3, <2>1, <2>2
  <1> QED BY <1>6, <1>7

------------------------------------------------------------------------------
(* The address space: RegionInv, FreshInv, OwnedInv and AccountedInv. *)

(* No mapping of another worker is replaced or removed, but by the cleanup of *)
(* a worker whose remap failed.                                               *)
KeepsOthers(t) ==
  \A a \in Slots :
    \/ vm'[a] = vm[a]
    \/ vm[a] \in {t, NoOne}
    \/ StaleUnmap(t, a) /\ Undone(t, a)' /\ vm'[a] = NoOne

(* The slots an isolated worker has a use for. *)
Own(t) == RegionBase(t)..(RegionBase(t) + Extent(t) - 1)

LEMMA OwnInRegion ==
  ASSUME IInv, NEW t \in Tids, ~cfg.nounmap \/ counter[t] <= RegionSlots
  PROVE  Own(t) \subseteq Region(t)
  <1>1. RegionBase(t) \in Int
    BY RegionBaseInt
  <1>2. Extent(t) \in Nat /\ Extent(t) <= RegionSlots
    BY Bounds DEF IInv, TypeOK, Extent
  <1> QED BY <1>1, <1>2, Bounds DEF Own, Region

LEMMA InOwn ==
  ASSUME IInv, NEW t \in Tids, NEW k \in 0..(NMaps - 1), ~cfg.nounmap, k = 0 \/ cfg.map4k
  PROVE  RegionBase(t) + k \in Own(t)
  <1>1. RegionBase(t) \in Int
    BY RegionBaseInt
  <1>2. Extent(t) \in Nat /\ k \in Nat /\ k < Extent(t)
    BY Bounds DEF Extent
  <1> QED BY <1>1, <1>2 DEF Own

(* What is mapped stays in place as long as the extents do not shrink. *)
LEMMA OwnSame ==
  ASSUME UNCHANGED cfg, ~cfg.nounmap \/ (\A u \in Tids : counter'[u] = counter[u])
  PROVE  \A u \in Tids : Own(u)' = Own(u)
  BY DEF Own, Extent, RegionBase

LEMMA OwnRegionNext ==
  ASSUME \A b \in Slots : vm'[b] \in Tids \union {NoOne},
         \A b \in Slots, u \in Tids : vm'[b] = u => b \in Own(u)'
  PROVE  OwnRegion'
  <1> SUFFICES ASSUME NEW b \in Slots, NEW u \in Tids, vm'[b] = u
               PROVE  b \in RegionBase(u)..(RegionBase(u) + Extent(u)' - 1)
    BY DEF OwnRegion, Extent, RegionBase
  <1> QED BY DEF Own, RegionBase

(* What a worker maps, where the kernel chooses or it says itself. *)
LEMMA MmapKeeps ==
  ASSUME IInv, RegionInv, NEW t \in Tids, NEW x, NEW a \in Targets(x), Mmap(t, a),
         cfg.isolated => ~cfg.nounmap /\ (x = NULL \/ x \in Own(t)), UNCHANGED cfg
  PROVE  /\ KeepsOthers(t)
         /\ cfg.isolated => OwnRegion'
         /\ ~cfg.isolated => a \in Slots /\ a # NULL /\ vm[a] = NoOne
         /\ a \in Slots => vm'[a] = t
         /\ \A b \in Slots : b # a => vm'[b] = vm[b]
  <1>1. \A b \in Slots : vm'[b] = IF b = a THEN t ELSE vm[b]
    BY MmapStep DEF IInv, TypeOK
  <1>2. CASE cfg.isolated
    <2>1. a = x
      BY <1>2 DEF Targets
    <2>2. ASSUME a \in Slots, vm[a] # NoOne PROVE vm[a] = t
      <3>1. a \in Own(t)
        BY <1>2, <2>1, <2>2, PoolInSlots
      <3>2. vm[a] \in Tids /\ a \in Own(vm[a])
        BY <1>2, <2>2 DEF RegionInv, OwnRegion, Own, IInv, TypeOK
      <3> QED BY <1>2, <3>1, <3>2, OwnInRegion, RegionsDisjoint
    <2>3. OwnRegion'
      <3> SUFFICES ASSUME NEW b \in Slots, NEW u \in Tids, vm'[b] = u PROVE b \in Own(u)'
        BY <1>1, OwnRegionNext DEF IInv, TypeOK
      <3>1. b \in Own(u)
        <4>1. CASE b = a
          BY <1>1, <1>2, <2>1, <4>1, PoolInSlots
        <4>2. CASE b # a
          BY <1>1, <1>2, <4>2, PoolInSlots DEF RegionInv, OwnRegion, Own
        <4> QED BY <4>1, <4>2
      <3> QED BY <1>2, <3>1, OwnSame
    <2> QED BY <1>1, <1>2, <2>2, <2>3 DEF KeepsOthers
  <1>3. CASE ~cfg.isolated
    <2>1. a \in Slots /\ a # NULL /\ vm[a] = NoOne
      BY <1>3, PoolInSlots DEF Targets, FreePool
    <2> QED BY <1>1, <1>3, <2>1 DEF KeepsOthers
  <1> QED BY <1>2, <1>3

(* Nothing is mapped anew and no extent shrinks. *)
LEMMA RegionKeeps ==
  ASSUME IInv, RegionInv, UNCHANGED cfg, \A b \in Slots : vm'[b] \in {vm[b], NoOne},
         ~cfg.nounmap \/ (\A u \in Tids : counter'[u] = counter[u])
  PROVE  cfg.isolated => OwnRegion'
  <1> SUFFICES ASSUME cfg.isolated, NEW b \in Slots, NEW u \in Tids, vm'[b] = u
               PROVE  b \in Own(u)'
    BY OwnRegionNext DEF IInv, TypeOK
  <1>1. vm[b] = u /\ u # NoOne
    BY PoolInSlots
  <1>2. b \in Own(u)
    BY <1>1 DEF RegionInv, OwnRegion, Own
  <1> QED BY <1>2, OwnSame

(* What is unmapped is the worker's own, or nothing. *)
LEMMA MunmapKeeps ==
  ASSUME IInv, RegionInv, NEW t \in Tids, NEW a, Munmap(a), UNCHANGED cfg,
         ~cfg.nounmap \/ (\A u \in Tids : counter'[u] = counter[u])
  PROVE  /\ (a \in Slots => vm[a] \in {t, NoOne}) => KeepsOthers(t)
         /\ cfg.isolated => OwnRegion'
         /\ \A b \in Slots : vm'[b] = IF b = a THEN NoOne ELSE vm[b]
  <1>1. \A b \in Slots : vm'[b] = IF b = a THEN NoOne ELSE vm[b]
    BY MunmapStep DEF IInv, TypeOK
  <1>2. cfg.isolated => OwnRegion'
    BY <1>1, RegionKeeps
  <1> QED BY <1>1, <1>2 DEF KeepsOthers

------------------------------------------------------------------------------
(* The parts of the other workers survive a step of t that keeps what is      *)
(* theirs.                                                                    *)
LEMMA VmOthers ==
  ASSUME IInv, TypeOK', ErrInv, PhaseInv, VmInv, NEW t \in Tids, StepOf(t), RegionInv',
         Worker(t) \/ DieCancelled(t),
         cfg.nounmap \/ KeepsOthers(t),
         Fresh(t)', Distinct(t)', Owned(t)',
         ~cfg.nounmap /\ NoErrors' => NoErrors /\ Accounted(t)'
  PROVE  VmInv'
  <1>1. ASSUME NEW u \in Tids \ {t}
        PROVE  /\ pc'[u] = pc[u] /\ addrs'[u] = addrs[u] /\ step'[u] = step[u] /\ err'[u] = err[u]
               /\ Idx(u)' = Idx(u) /\ cfg' = cfg
               /\ \A k : Live(u, k)' <=> Live(u, k)
               /\ Holding(u)' <=> Holding(u)
    BY <1>1 DEF StepOf, Idx, Live, Holding
  <1>2. ASSUME NEW u \in Tids PROVE Fresh(u)'
    <2>1. CASE u # t
      <3>1. Fresh(u)
        BY DEF VmInv, FreshInv
      <3> QED BY <1>1, <2>1, <3>1 DEF Fresh
    <2> QED BY <2>1
  <1>3. ASSUME NEW u \in Tids PROVE Distinct(u)' /\ Owned(u)'
    <2>1. CASE u # t
      <3>1. Owned(u) /\ Distinct(u) /\ u # NoOne
        BY PoolInSlots DEF VmInv, OwnedInv
      <3>2. cfg' = cfg /\ (FourK' <=> FourK)
        BY DEF StepOf, FourK
      <3>3. \A k \in 0..(NMaps - 1) : addrs[u][k] \in Slots \union {NULL}
        BY VmTypes
      <3>4. CASE cfg.nounmap
        BY <1>1, <2>1, <3>1, <3>2, <3>4 DEF Owned, Distinct, FourK, ErrInv
      <3>5. CASE ~cfg.nounmap /\ FourK /\ Holding(u)
        <4>1. ASSUME NEW a \in Slots, Kept(u, a) PROVE Kept(u, a)'
          <5>1. CASE vm[a] = u
            <6>1. vm'[a] = u \/ (Undone(t, a)' /\ vm'[a] = NoOne)
              BY <2>1, <3>1, <3>5, <5>1 DEF KeepsOthers
            <6> QED BY <2>1, <6>1 DEF Kept
          <5>2. CASE vm[a] # u
            <6>1. PICK w \in Tids \ {u} : Undone(w, a) /\ vm[a] = NoOne
              BY <4>1, <5>2 DEF Kept
            <6>2. Undone(w, a)' /\ vm'[a] = NoOne
              BY <6>1, UndoneStays
            <6> QED BY <6>2 DEF Kept
          <5> QED BY <5>1, <5>2
        <4>2. \A k \in 0..(NMaps - 1) : Live(u, k) => addrs[u][k] \in Slots /\ Kept(u, addrs[u][k])
          BY <3>1, <3>3, <3>5 DEF Owned, Live
        <4>3. \A k \in 0..(NMaps - 1) : Live(u, k) => Kept(u, addrs[u][k])'
          BY <1>1, <2>1, <4>1, <4>2 DEF Kept
        <4> QED BY <1>1, <2>1, <3>1, <3>2, <3>5, <4>3 DEF Owned, Distinct
      <3>6. CASE ~cfg.nounmap /\ ~FourK /\ pc[u] = "half"
        <4>1. addrs[u][0] \in Slots /\ vm[addrs[u][0]] = u
          BY <3>1, <3>3, <3>6, Bounds DEF Owned
        <4>2. \A a : ~StaleUnmap(t, a)
          BY <3>6 DEF StaleUnmap, ErrInv
        <4>3. vm'[addrs[u][0]] = u
          BY <2>1, <3>1, <3>6, <4>1, <4>2 DEF KeepsOthers
        <4> QED BY <1>1, <2>1, <3>1, <3>2, <3>6, <4>1, <4>3 DEF Owned, Distinct
      <3>7. CASE ~(FourK /\ Holding(u)) /\ ~(~FourK /\ pc[u] = "half")
        BY <1>1, <2>1, <3>1, <3>2, <3>7 DEF Owned, Distinct
      <3> QED BY <3>4, <3>5, <3>6, <3>7
    <2> QED BY <2>1
  <1>4. ASSUME ~cfg.nounmap, NoErrors', NEW u \in Tids PROVE Accounted(u)'
    <2>1. CASE u # t
      <3>1. Accounted(u)
        BY <1>4 DEF VmInv, AccountedInv
      <3>2. \A a \in Slots : vm'[a] = u => vm[a] = u
        BY <2>1, PoolInSlots DEF StepOf
      <3>3. FourK' <=> FourK
        BY DEF StepOf, FourK
      <3> QED BY <1>1, <2>1, <3>1, <3>2, <3>3 DEF Accounted
    <2> QED BY <1>4, <2>1
  <1>5. cfg' = cfg
    BY DEF StepOf
  <1>6. FreshInv' /\ OwnedInv' /\ AccountedInv'
    BY <1>2, <1>3, <1>4, <1>5 DEF FreshInv, OwnedInv, AccountedInv
  <1> QED BY <1>6 DEF VmInv

(* A step that moves the worker's control only. *)
LEMMA VmStill ==
  ASSUME IInv, TypeOK', ErrInv, PhaseInv, VmInv, NEW t \in Tids, StepOf(t),
         Worker(t) \/ DieCancelled(t), UNCHANGED <<vm, addrs>>,
         counter'[t] = counter[t],
         pc'[t] \in {"unborn", "spawned", "alloc", "setup"} =>
           pc[t] \in {"unborn", "spawned", "alloc", "setup"} /\ step'[t] = step[t],
         FourK /\ Holding(t)' =>
           Holding(t) /\ \A k \in 0..(NMaps - 1) : Live(t, k)' => Live(t, k),
         pc'[t] = "half" => FourK,
         ~cfg.nounmap /\ NoErrors' =>
           /\ NoErrors
           /\ IF FourK THEN \A k \in 0..(NMaps - 1) : Holding(t) /\ Live(t, k) =>
                              Holding(t)' /\ Live(t, k)'
              ELSE pc[t] # "half"
  PROVE  VmInv'
  <1>1. FourK' = FourK /\ cfg' = cfg /\ (\A u \in Tids : counter'[u] = counter[u])
    BY DEF StepOf, FourK
  <1>2. RegionInv'
    <2>1. cfg.isolated => OwnRegion'
      BY <1>1, RegionKeeps DEF VmInv
    <2> QED BY <1>1, <2>1 DEF VmInv, RegionInv, RegionBase
  <1>3. Fresh(t)'
    <2>1. Fresh(t)
      BY DEF VmInv, FreshInv
    <2> QED BY <2>1 DEF Fresh
  <1>4. Distinct(t)' /\ Owned(t)'
    <2>1. Distinct(t) /\ Owned(t)
      BY DEF VmInv, OwnedInv
    <2>2. \A a : Kept(t, a) => Kept(t, a)'
      BY UndoneStays DEF Kept
    <2> QED BY <1>1, <2>1, <2>2 DEF Owned, Distinct
  <1>5. ~cfg.nounmap /\ NoErrors' => Accounted(t)'
    <2>1. ~cfg.nounmap /\ NoErrors' => Accounted(t)
      BY DEF VmInv, AccountedInv
    <2> QED BY <1>1, <2>1 DEF Accounted
  <1>6. KeepsOthers(t)
    BY DEF KeepsOthers
  <1> QED BY <1>2, <1>3, <1>4, <1>5, <1>6, VmOthers

------------------------------------------------------------------------------
(* The errors a step leaves. *)

LEMMA ErrorsStay ==
  ASSUME IInv, NEW t \in Tids, Worker(t) \/ DieCancelled(t)
  PROVE  /\ NoErrors' => NoErrors
         /\ err[t] # "none" => err'[t] = err[t]
         /\ \A u \in Tids : err'[u] = "none" => err[u] = "none"
         /\ UNCHANGED cancelled
  <1>1. StepOf(t)
    BY EveryStepOf
  <1>2. err[t] # "none" => err'[t] = err[t]
    BY DEF Worker, BeginRun, Begin, Alloc, Setup, SetupFails, MapOne, UnmapOne, UnmapOneFails,
       Unmap4k, Unmap4kFails, Remap4k, Remap4kFails, MapOnly, MapFails, LoopEnd, Clean,
       CallReadyBarrier, ReadyArrive, PassReadyBarrier, ReadyLeave, CallEndBarrier, EndArrive,
       EndLeave, EndLeaveStore, FiniArrive, FiniLeave, ArriveAt, LeaveFrom, Desert, SetErr,
       DieCancelled, Die, IInv, TypeOK, MainTypeOK
  <1>3. \A u \in Tids : err[u] # "none" => err'[u] = err[u]
    BY <1>1, <1>2 DEF StepOf
  <1>4. UNCHANGED cancelled
    BY <1>1 DEF StepOf, main
  <1> QED BY <1>2, <1>3, <1>4 DEF NoErrors

(* A failing step ends the time without errors. *)
LEMMA FailNoted ==
  ASSUME IInv, ErrInv, NEW t \in Tids, NEW e \in {"calloc", "setup", "op", "remap", "cleanup"},
         SetErr(t, e)
  PROVE  /\ ~NoErrors'
         /\ pc[t] \in {"alloc", "setup", "loop", "half"} => err'[t] = e
  <1>1. err'[t] # "none"
    BY DEF SetErr, IInv, TypeOK, MainTypeOK
  <1>2. pc[t] \in {"alloc", "setup", "loop", "half"} => err'[t] = e
    BY DEF SetErr, IInv, TypeOK, MainTypeOK, ErrInv, BeforeBarrier
  <1> QED BY <1>1, <1>2 DEF NoErrors

------------------------------------------------------------------------------
(* The steps that map or unmap. *)

LEMMA SetupVm ==
  ASSUME IInv, TypeOK', ErrInv, PhaseInv, VmInv, NEW t \in Tids, Setup(t)
  PROVE  VmInv' /\ KeepsOthers(t)
  <1>1. /\ pc[t] = "setup" /\ pc'[t] \in {"setup", "ready"} /\ UNCHANGED <<err, counter, cfg>>
        /\ pc' = [pc EXCEPT ![t] = pc'[t]] /\ step[t] \in 0..(NMaps - 1)
        /\ pc'[t] = "setup" => step'[t] = step[t] + 1
    <2>1. step[t] \in 0..(NMaps - 1) /\ step[t] + 1 # 0
      BY VmTypes, Bounds DEF Setup, IInv, LoopInv
    <2> QED BY <2>1, VmTypes DEF Setup, Goto
  <1>2. StepOf(t) /\ (NoErrors' => NoErrors)
    BY EveryStepOf, ErrorsStay DEF Worker
  <1> DEFINE s == step[t]
  <1>3. PICK a \in Targets(RegionBase(t) + s) : Mmap(t, a) /\ addrs' = [addrs EXCEPT ![t][s] = a]
    BY DEF Setup
  <1>4. s \in 0..(RegionSlots - 1) /\ s \in 0..(NMaps - 1)
    BY <1>1, VmTypes
  <1>5. /\ KeepsOthers(t)
        /\ cfg.isolated => OwnRegion'
        /\ ~cfg.isolated => a \in Slots /\ a # NULL /\ vm[a] = NoOne
        /\ a \in Slots => vm'[a] = t
        /\ \A b \in Slots : b # a => vm'[b] = vm[b]
    <2>1. FourK
      BY <1>1 DEF ErrInv
    <2>2. RegionBase(t) + s \in Own(t)
      BY <1>4, <2>1, InOwn DEF FourK
    <2> HIDE DEF s
    <2> QED BY <1>1, <1>3, <2>1, <2>2, MmapKeeps DEF VmInv, FourK
  <1>6. cfg.isolated => a = RegionBase(t) + s /\ a \in Slots /\ a # NULL
    <2>1. RegionBase(t) + s \in Slots /\ RegionBase(t) + s # NULL
      BY <1>4, InRegion
    <2> QED BY <1>3, <2>1 DEF Targets
  <1>7. a \in Slots /\ a # NULL
    BY <1>5, <1>6
  <1>8. /\ \A k \in 0..(NMaps - 1) : addrs'[t][k] = IF k = s THEN a ELSE addrs[t][k]
        /\ \A u \in Tids \ {t} : addrs'[u] = addrs[u]
    BY <1>3, <1>4, VmTypes
  <1>9. FourK' = FourK /\ FourK
    BY <1>1 DEF FourK, ErrInv
  <1>10. Holding(t) /\ Holding(t)'
    BY <1>1 DEF Holding
  <1>11. \A k \in 0..(NMaps - 1) : /\ Live(t, k) <=> addrs[t][k] # NULL
                                   /\ Live(t, k)' <=> addrs'[t][k] # NULL
    BY <1>1 DEF Live, ErrInv, BeforeBarrier
  <1>12. RegionInv'
    BY <1>1, <1>5, <1>6, <1>8 DEF RegionInv, VmInv, RegionBase
  <1>13. \A k \in 0..(NMaps - 1) : k >= s => addrs[t][k] = NULL
    BY <1>1 DEF VmInv, FreshInv, Fresh
  <1>14. Fresh(t)'
    <2> SUFFICES ASSUME pc'[t] = "setup", NEW k \in 0..(NMaps - 1), k >= step'[t]
                 PROVE  addrs'[t][k] = NULL
      BY <1>1 DEF Fresh
    <2>1. k # s /\ k >= s
      BY <1>1, <1>4
    <2> QED BY <1>8, <1>13, <2>1
  <1>15. Distinct(t)' /\ Owned(t)'
    <2>1. ASSUME NEW k \in 0..(NMaps - 1), addrs[t][k] # NULL
          PROVE  /\ addrs[t][k] \in Slots /\ addrs[t][k] # a /\ vm[addrs[t][k]] = t
                 /\ \A l \in 0..(NMaps - 1) : addrs[t][k] = addrs[t][l] => k = l
      <3>1. \A u \in Tids : ~Undone(u, addrs[t][k])
        BY <1>1, UndoneLate
      <3>2. /\ vm[addrs[t][k]] = t /\ addrs[t][k] \in Slots
            /\ \A l \in 0..(NMaps - 1) : addrs[t][k] = addrs[t][l] => k = l
        <4>1. Live(t, k) /\ Owned(t) /\ Distinct(t)
          BY <1>11, <2>1 DEF VmInv, OwnedInv
        <4>2. addrs[t][k] \in Slots
          BY <2>1, VmTypes
        <4> QED BY <1>9, <1>10, <2>1, <3>1, <4>1, <4>2 DEF Owned, Distinct, Kept
      <3>3. addrs[t][k] # a
        <4>1. CASE cfg.isolated
          <5>1. addrs[t][k] = RegionBase(t) + k /\ k # s
            BY <1>4, <1>13, <2>1, <4>1 DEF VmInv, RegionInv
          <5>2. k \in 0..(RegionSlots - 1)
            BY VmTypes
          <5> HIDE DEF s
          <5> QED BY <1>4, <1>6, <4>1, <5>1, <5>2, InRegion
        <4>2. CASE ~cfg.isolated
          BY <1>5, <3>2, <4>2, VmTypes
        <4> QED BY <4>1, <4>2
      <3> QED BY <3>2, <3>3
    <2> HIDE DEF s
    <2>2. ASSUME NEW k \in 0..(NMaps - 1), addrs'[t][k] # NULL
          PROVE  /\ vm'[addrs'[t][k]] = t
                 /\ \A l \in 0..(NMaps - 1) : addrs'[t][k] = addrs'[t][l] => k = l
      BY <1>4, <1>5, <1>7, <1>8, <2>1, <2>2
    <2>3. Owned(t)'
      BY <1>9, <1>10, <1>11, <2>2 DEF Owned, Kept
    <2> QED BY <1>9, <2>2, <2>3 DEF Distinct
  <1>16. ~cfg.nounmap /\ NoErrors' => Accounted(t)'
    <2> SUFFICES ASSUME ~cfg.nounmap, NoErrors', NEW b \in Slots, vm'[b] = t
                 PROVE  \E k \in 0..(NMaps - 1) : addrs'[t][k] # NULL /\ addrs'[t][k] = b
      BY <1>9, <1>10, <1>11 DEF Accounted
    <2>1. CASE b = a
      BY <1>4, <1>7, <1>8, <2>1
    <2>2. CASE b # a
      <3>1. PICK k \in 0..(NMaps - 1) : addrs[t][k] # NULL /\ addrs[t][k] = b
        BY <1>2, <1>5, <1>9, <1>11, <2>2 DEF VmInv, AccountedInv, Accounted
      <3>2. k # s
        BY <1>4, <1>13, <3>1
      <3> QED BY <1>8, <3>1, <3>2
    <2> QED BY <2>1, <2>2
  <1>17. VmInv'
    BY <1>2, <1>5, <1>12, <1>14, <1>15, <1>16, VmOthers DEF Worker
  <1> QED BY <1>5, <1>17

LEMMA MapOneVm ==
  ASSUME IInv, TypeOK', ErrInv, PhaseInv, VmInv, NEW t \in Tids, MapOne(t)
  PROVE  VmInv' /\ KeepsOthers(t)
  <1>1. /\ pc[t] = "loop" /\ pc'[t] = "half" /\ UNCHANGED <<err, counter, cfg>> /\ ~FourK
        /\ FourK' = FourK /\ ~cfg.nounmap
    BY VmTypes DEF MapOne, Goto, FourK
  <1>2. StepOf(t) /\ (NoErrors' => NoErrors)
    BY EveryStepOf, ErrorsStay DEF Worker
  <1>3. PICK a \in Targets(RegionBase(t)) : Mmap(t, a) /\ addrs' = [addrs EXCEPT ![t][0] = a]
    BY DEF MapOne
  <1>4. 0 \in 0..(RegionSlots - 1) /\ 0 \in 0..(NMaps - 1) /\ RegionBase(t) = RegionBase(t) + 0
    BY RegionBaseInt, Bounds
  <1>5. RegionBase(t) \in Own(t) /\ RegionBase(t) \in Slots /\ RegionBase(t) # NULL
    <2>1. RegionBase(t) + 0 \in Own(t)
      BY <1>1, <1>4, InOwn
    <2> QED BY <1>4, <2>1, InRegion
  <1>6. /\ KeepsOthers(t)
        /\ cfg.isolated => OwnRegion'
        /\ ~cfg.isolated => a \in Slots /\ a # NULL /\ vm[a] = NoOne
        /\ a \in Slots => vm'[a] = t
        /\ \A b \in Slots : b # a => vm'[b] = vm[b]
    BY <1>1, <1>3, <1>5, MmapKeeps DEF VmInv
  <1>7. a \in Slots /\ a # NULL /\ (cfg.isolated => a = RegionBase(t))
    BY <1>3, <1>5, <1>6 DEF Targets
  <1>8. /\ \A k \in 0..(NMaps - 1) : addrs'[t][k] = IF k = 0 THEN a ELSE addrs[t][k]
        /\ \A u \in Tids \ {t} : addrs'[u] = addrs[u]
    BY <1>3, <1>4, VmTypes
  <1>9. RegionInv'
    BY <1>1, <1>4, <1>6, <1>7, <1>8 DEF RegionInv, VmInv, RegionBase
  <1>10. Fresh(t)'
    BY <1>1 DEF Fresh
  <1>11. Distinct(t)' /\ Owned(t)'
    BY <1>1, <1>4, <1>6, <1>7, <1>8 DEF Distinct, Owned
  <1>12. ~cfg.nounmap /\ NoErrors' => Accounted(t)'
    <2> SUFFICES ASSUME ~cfg.nounmap, NoErrors', NEW b \in Slots, vm'[b] = t PROVE b = a
      BY <1>1, <1>4, <1>8 DEF Accounted
    <2> QED BY <1>1, <1>2, <1>6 DEF VmInv, AccountedInv, Accounted
  <1>13. VmInv'
    BY <1>2, <1>6, <1>9, <1>10, <1>11, <1>12, VmOthers DEF Worker
  <1> QED BY <1>6, <1>13

(* maponly stays on its own, or maps the slot behind what it has mapped, over *)
(* whatever is there.                                                         *)
LEMMA MapOnlyVm ==
  ASSUME IInv, TypeOK', ErrInv, PhaseInv, VmInv, NEW t \in Tids, MapOnly(t)
  PROVE  /\ VmInv'
         /\ ~cfg.isolated => KeepsOthers(t)
         /\ cfg.isolated => \A b \in Slots : b # RegionBase(t) + counter[t] => vm'[b] = vm[b]
  <1>1. /\ pc[t] = "loop" /\ UNCHANGED <<pc, err, step, addrs, cfg>> /\ cfg.nounmap
        /\ ~FourK /\ FourK' = FourK
        /\ \A u \in Tids : counter'[u] = IF u = t THEN counter[u] + 1 ELSE counter[u]
    BY VmTypes DEF MapOnly, CountOp, FourK
  <1>2. StepOf(t)
    BY EveryStepOf DEF Worker
  <1>3. PICK a \in Room(t) : Mmap(t, a)
    BY DEF MapOnly
  <1>4. a \in Targets(RegionBase(t) + counter[t]) /\ a \in Slots
    BY <1>3 DEF Room
  <1>5. \A b \in Slots : vm'[b] = IF b = a THEN t ELSE vm[b]
    BY <1>3, MmapStep DEF IInv, TypeOK
  <1>6. ~cfg.isolated => KeepsOthers(t)
    BY <1>4, <1>5 DEF Targets, FreePool, KeepsOthers
  <1>7. cfg.isolated => a = RegionBase(t) + counter[t]
    BY <1>4 DEF Targets
  <1>8. cfg.isolated => OwnRegion'
    <2> SUFFICES ASSUME cfg.isolated, NEW b \in Slots, NEW u \in Tids, vm'[b] = u
                 PROVE  b \in Own(u)'
      BY <1>5, OwnRegionNext DEF IInv, TypeOK
    <2>1. /\ Own(u) = RegionBase(u)..(RegionBase(u) + counter[u] - 1)
          /\ Own(u)' = RegionBase(u)..(RegionBase(u) + counter'[u] - 1)
          /\ RegionBase(u) \in Int /\ counter[u] \in Nat /\ u # NoOne
      BY <1>1, RegionBaseInt, VmTypes DEF Own, Extent, RegionBase
    <2>2. CASE b = a
      <3>1. u = t /\ b = RegionBase(t) + counter[t] /\ counter'[t] = counter[t] + 1
        BY <1>1, <1>5, <1>7, <2>2
      <3> QED BY <2>1, <3>1
    <2>3. CASE b # a
      <3>1. vm[b] = u
        BY <1>5, <2>3
      <3>2. b \in Own(u)
        BY <2>1, <3>1 DEF VmInv, RegionInv, OwnRegion, Own
      <3>3. counter'[u] = counter[u] \/ counter'[u] = counter[u] + 1
        BY <1>1
      <3> QED BY <2>1, <3>2, <3>3
    <2> QED BY <2>2, <2>3
  <1>9. RegionInv'
    BY <1>1, <1>8 DEF RegionInv, VmInv, RegionBase
  <1>10. Fresh(t)' /\ Distinct(t)' /\ Owned(t)'
    BY <1>1 DEF Fresh, Distinct, Owned
  <1>11. VmInv'
    BY <1>1, <1>2, <1>9, <1>10, VmOthers DEF Worker
  <1> QED BY <1>5, <1>6, <1>7, <1>11

LEMMA UnmapOneVm ==
  ASSUME IInv, TypeOK', ErrInv, PhaseInv, VmInv, NEW t \in Tids, UnmapOne(t)
  PROVE  VmInv' /\ KeepsOthers(t)
  <1>1. /\ pc[t] = "half" /\ pc'[t] = "loop" /\ UNCHANGED <<err, step, addrs, cfg>>
        /\ ~FourK /\ FourK' = FourK /\ Munmap(addrs[t][0]) /\ ~cfg.nounmap
    BY VmTypes DEF UnmapOne, Goto, FourK, ErrInv
  <1>2. StepOf(t) /\ (NoErrors' => NoErrors)
    BY EveryStepOf, ErrorsStay DEF Worker
  <1>3. vm[addrs[t][0]] = t
    BY <1>1 DEF VmInv, OwnedInv, Owned
  <1>4. /\ KeepsOthers(t)
        /\ cfg.isolated => OwnRegion'
        /\ \A b \in Slots : vm'[b] = IF b = addrs[t][0] THEN NoOne ELSE vm[b]
    BY <1>1, <1>3, MunmapKeeps DEF VmInv
  <1>5. RegionInv'
    BY <1>1, <1>4 DEF RegionInv, VmInv, RegionBase
  <1>6. Fresh(t)' /\ Distinct(t)' /\ Owned(t)'
    BY <1>1 DEF Fresh, Distinct, Owned
  <1>7. ~cfg.nounmap /\ NoErrors' => Accounted(t)'
    BY <1>1, <1>2, <1>4, PoolInSlots DEF VmInv, AccountedInv, Accounted
  <1>8. VmInv'
    BY <1>2, <1>4, <1>5, <1>6, <1>7, VmOthers DEF Worker
  <1> QED BY <1>4, <1>8

(* bench_run_4k_fn unmaps a page: its entry is not live until it is mapped    *)
(* again.                                                                     *)
LEMMA Unmap4kVm ==
  ASSUME IInv, TypeOK', ErrInv, PhaseInv, VmInv, NEW t \in Tids, Unmap4k(t)
  PROVE  VmInv' /\ KeepsOthers(t)
  <1> DEFINE x == Idx(t)
             ad == addrs[t]
  <1>1. /\ pc[t] = "loop" /\ pc'[t] = "half" /\ UNCHANGED <<err, step, counter, addrs, cfg>>
        /\ FourK /\ FourK' = FourK /\ Munmap(ad[x]) /\ Idx(t)' = x /\ err[t] = "none"
    BY VmTypes DEF Unmap4k, Goto, FourK, Idx, ErrInv
  <1>2. StepOf(t) /\ (NoErrors' => NoErrors)
    BY EveryStepOf, ErrorsStay DEF Worker
  <1>3. Holding(t) /\ Holding(t)' /\ x \in 0..(NMaps - 1) /\ ad[x] \in Slots \union {NULL}
    BY <1>1, VmTypes DEF Holding
  <1>4. \A k \in 0..(NMaps - 1) : /\ Live(t, k) <=> ad[k] # NULL
                                  /\ Live(t, k)' <=> ad[k] # NULL /\ k # x
    BY <1>1 DEF Live
  <1>5. /\ \A k \in 0..(NMaps - 1) : ad[k] # NULL => vm[ad[k]] = t
        /\ \A k, l \in 0..(NMaps - 1) : ad[k] # NULL /\ ad[k] = ad[l] => k = l
    <2>1. \A u \in Tids : \A a : ~Undone(u, a)
      BY <1>1, UndoneLate
    <2>2. Owned(t) /\ Distinct(t)
      BY DEF VmInv, OwnedInv
    <2> QED BY <1>1, <1>3, <1>4, <2>1, <2>2 DEF Owned, Distinct, Kept
  <1>6. /\ KeepsOthers(t)
        /\ cfg.isolated => OwnRegion'
        /\ \A b \in Slots : vm'[b] = IF b = ad[x] THEN NoOne ELSE vm[b]
    <2>1. ad[x] \in Slots => vm[ad[x]] = t
      BY <1>3, <1>5, PoolInSlots
    <2> HIDE DEF ad, x
    <2> QED BY <1>1, <2>1, MunmapKeeps DEF VmInv
  <1>7. RegionInv'
    BY <1>1, <1>6 DEF RegionInv, VmInv, RegionBase
  <1>8. Fresh(t)' /\ Distinct(t)'
    BY <1>1, <1>5 DEF Fresh, Distinct
  <1>9. Owned(t)'
    <2> SUFFICES ASSUME NEW k \in 0..(NMaps - 1), ad[k] # NULL, k # x
                 PROVE  vm'[ad[k]] = t
      BY <1>1, <1>3, <1>4 DEF Owned, Kept
    <2>1. ad[k] \in Slots /\ ad[k] # ad[x]
      <3>1. ad[k] \in Slots \union {NULL}
        BY VmTypes
      <3> HIDE DEF ad, x
      <3> QED BY <1>3, <1>5, <3>1
    <2> HIDE DEF ad, x
    <2> QED BY <1>5, <1>6, <2>1
  <1>10. ~cfg.nounmap /\ NoErrors' => Accounted(t)'
    <2> SUFFICES ASSUME ~cfg.nounmap, NoErrors', NEW b \in Slots, vm'[b] = t
                 PROVE  \E k \in 0..(NMaps - 1) : ad[k] # NULL /\ k # x /\ ad[k] = b
      BY <1>1, <1>3, <1>4 DEF Accounted
    <2>1. vm[b] = t /\ b # ad[x]
      BY <1>6, PoolInSlots
    <2>2. PICK k \in 0..(NMaps - 1) : ad[k] # NULL /\ ad[k] = b
      BY <1>1, <1>2, <1>4, <2>1 DEF VmInv, AccountedInv, Accounted
    <2> QED BY <2>1, <2>2
  <1>11. VmInv'
    BY <1>2, <1>6, <1>7, <1>8, <1>9, <1>10, VmOthers DEF Worker
  <1> QED BY <1>6, <1>11

(* ... and maps it again: isolated at its own place, else where nothing is.   *)
LEMMA Remap4kVm ==
  ASSUME IInv, TypeOK', ErrInv, PhaseInv, VmInv, NEW t \in Tids, Remap4k(t)
  PROVE  VmInv' /\ KeepsOthers(t)
  <1> DEFINE x == Idx(t)
             ad == addrs[t]
  <1>1. /\ pc[t] = "half" /\ pc'[t] = "loop" /\ UNCHANGED <<err, step, cfg>>
        /\ FourK /\ FourK' = FourK /\ err[t] = "none"
    BY VmTypes DEF Remap4k, Goto, FourK, ErrInv
  <1>2. StepOf(t) /\ (NoErrors' => NoErrors)
    BY EveryStepOf, ErrorsStay DEF Worker
  <1>3. Holding(t) /\ Holding(t)' /\ x \in 0..(NMaps - 1) /\ ad[x] \in Slots \union {NULL}
    BY <1>1, VmTypes DEF Holding
  <1>4. PICK a \in Targets(ad[x]) : Mmap(t, a) /\ addrs' = [addrs EXCEPT ![t][x] = a]
    BY DEF Remap4k
  <1>5. cfg.isolated => a = ad[x] /\ ad[x] \in {NULL, RegionBase(t) + x}
    BY <1>3, <1>4 DEF VmInv, RegionInv, Targets
  <1>6. /\ KeepsOthers(t)
        /\ cfg.isolated => OwnRegion'
        /\ ~cfg.isolated => a \in Slots /\ a # NULL /\ vm[a] = NoOne
        /\ a \in Slots => vm'[a] = t
        /\ \A b \in Slots : b # a => vm'[b] = vm[b]
    <2>1. RegionBase(t) + x \in Own(t)
      BY <1>1, <1>3, InOwn DEF FourK
    <2>2. cfg.isolated => ad[x] = NULL \/ ad[x] \in Own(t)
      BY <1>5, <2>1
    <2>3. ~cfg.nounmap
      BY <1>1 DEF FourK
    <2> HIDE DEF ad, x
    <2> QED BY <1>1, <1>4, <2>2, <2>3, MmapKeeps DEF VmInv
  <1>7. a \in Slots \union {NULL}
    BY <1>3, <1>5, <1>6
  <1>8. /\ \A k \in 0..(NMaps - 1) : addrs'[t][k] = IF k = x THEN a ELSE ad[k]
        /\ \A u \in Tids \ {t} : addrs'[u] = addrs[u]
    BY <1>3, <1>4, VmTypes
  <1>9. \A k \in 0..(NMaps - 1) : /\ Live(t, k) <=> ad[k] # NULL /\ k # x
                                  /\ Live(t, k)' <=> addrs'[t][k] # NULL
    BY <1>1 DEF Live
  <1>10. RegionInv'
    <2>1. cfg.isolated => \A k \in 0..(NMaps - 1) : addrs'[t][k] \in {NULL, RegionBase(t) + k}
      BY <1>5, <1>8 DEF VmInv, RegionInv
    <2> QED BY <1>1, <1>6, <1>8, <2>1 DEF RegionInv, VmInv, RegionBase
  <1>11. Fresh(t)'
    BY <1>1 DEF Fresh
  <1>12. Distinct(t)' /\ Owned(t)'
    <2>1. ASSUME NEW k \in 0..(NMaps - 1), ad[k] # NULL, k # x
          PROVE  /\ ad[k] \in Slots /\ vm[ad[k]] = t /\ (a # NULL => ad[k] # a)
                 /\ \A l \in 0..(NMaps - 1) : ad[k] = ad[l] => k = l
      <3>1. Live(t, k) /\ Owned(t) /\ Distinct(t) /\ \A u \in Tids : ~Undone(u, ad[k])
        BY <1>1, <1>9, <2>1, UndoneLate DEF VmInv, OwnedInv
      <3>2. /\ vm[ad[k]] = t
            /\ \A l \in 0..(NMaps - 1) : ad[k] = ad[l] => k = l
        BY <1>1, <1>3, <2>1, <3>1 DEF Owned, Distinct, Kept
      <3>3. ad[k] \in Slots
        BY <2>1, VmTypes
      <3>4. a # NULL => ad[k] # a
        <4>1. CASE cfg.isolated
          <5>1. ad[k] = RegionBase(t) + k
            BY <2>1, <4>1 DEF VmInv, RegionInv
          <5>2. k \in 0..(RegionSlots - 1) /\ x \in 0..(RegionSlots - 1)
            BY <1>3, VmTypes
          <5>3. a # NULL => a = RegionBase(t) + x
            BY <1>5, <4>1
          <5> HIDE DEF ad, x
          <5> QED BY <2>1, <5>1, <5>2, <5>3, InRegion
        <4>2. CASE ~cfg.isolated
          BY <1>6, <3>2, <4>2, VmTypes
        <4> QED BY <4>1, <4>2
      <3> QED BY <3>2, <3>3, <3>4
    <2> HIDE DEF ad, x
    <2>2. ASSUME NEW k \in 0..(NMaps - 1), addrs'[t][k] # NULL
          PROVE  /\ vm'[addrs'[t][k]] = t
                 /\ \A l \in 0..(NMaps - 1) : addrs'[t][k] = addrs'[t][l] => k = l
      BY <1>3, <1>6, <1>7, <1>8, <2>1, <2>2
    <2>3. Owned(t)'
      BY <1>1, <1>3, <1>9, <2>2 DEF Owned, Kept
    <2> QED BY <1>1, <2>2, <2>3 DEF Distinct
  <1>13. ~cfg.nounmap /\ NoErrors' => Accounted(t)'
    <2> SUFFICES ASSUME ~cfg.nounmap, NoErrors', NEW b \in Slots, vm'[b] = t
                 PROVE  \E k \in 0..(NMaps - 1) : addrs'[t][k] # NULL /\ addrs'[t][k] = b
      BY <1>1, <1>3, <1>9 DEF Accounted
    <2>1. CASE b = a
      BY <1>3, <1>8, <2>1, PoolInSlots
    <2>2. CASE b # a
      <3>1. PICK k \in 0..(NMaps - 1) : ad[k] # NULL /\ k # x /\ ad[k] = b
        BY <1>1, <1>2, <1>6, <1>9, <2>2 DEF VmInv, AccountedInv, Accounted
      <3> QED BY <1>8, <3>1
    <2> QED BY <2>1, <2>2
  <1>14. VmInv'
    BY <1>2, <1>6, <1>10, <1>11, <1>12, <1>13, VmOthers DEF Worker
  <1> QED BY <1>6, <1>14

(* The cleanup gives up one entry after the other, its own or a stale one.    *)
LEMMA CleanVm ==
  ASSUME IInv, TypeOK', ErrInv, PhaseInv, VmInv, NEW t \in Tids, Clean(t)
  PROVE  VmInv' /\ KeepsOthers(t)
  <1> DEFINE s == step[t]
             x == Idx(t)
             ad == addrs[t]
             Stale(k) == err[t] = "remap" /\ k = x
  <1>1. /\ pc[t] = "clean" /\ UNCHANGED <<counter, addrs, cfg>> /\ FourK /\ FourK' = FourK
        /\ s \in 0..(NMaps - 1) /\ step'[t] = s + 1 /\ Idx(t)' = x /\ ~cfg.nounmap
        /\ pc'[t] = IF s + 1 = NMaps THEN "fini" ELSE "clean"
        /\ err'[t] = "remap" <=> err[t] = "remap"
    <2>1. s \in 0..(NMaps - 1)
      BY VmTypes, Bounds DEF Clean, IInv, LoopInv
    <2>2. err'[t] = "remap" <=> err[t] = "remap"
      BY VmTypes DEF Clean, SetErr
    <2> QED BY <2>1, <2>2, VmTypes DEF Clean, Goto, ErrInv, FourK, Idx
  <1>2. StepOf(t) /\ (NoErrors' => NoErrors /\ err'[t] = "none")
    BY EveryStepOf, ErrorsStay DEF Worker, NoErrors
  <1>3. \A k \in 0..(NMaps - 1) :
          /\ Live(t, k) <=> ad[k] # NULL /\ ~(k < s) /\ ~Stale(k)
          /\ pc'[t] = "clean" => (Live(t, k)' <=> ad[k] # NULL /\ ~(k < s + 1) /\ ~Stale(k))
    BY <1>1 DEF Live
  <1>4. ad[s] \in Slots \union {NULL} /\ Holding(t) /\ (Holding(t)' <=> pc'[t] = "clean")
    BY <1>1, VmTypes DEF Holding
  <1>5. /\ \A k \in 0..(NMaps - 1) : ad[k] # NULL /\ ~(k < s) /\ ~Stale(k) => Kept(t, ad[k])
        /\ \A k, l \in 0..(NMaps - 1) : ad[k] # NULL /\ ad[k] = ad[l] => k = l
    BY <1>1, <1>3, <1>4 DEF VmInv, OwnedInv, Owned, Distinct
  <1>6. \/ ad[s] # NULL /\ Munmap(ad[s])
        \/ ad[s] # NULL /\ ~NoErrors' /\ UNCHANGED vm
        \/ ad[s] = NULL /\ UNCHANGED vm
    <2>1. SetErr(t, "cleanup") => err'[t] # "none"
      BY VmTypes DEF SetErr
    <2> QED BY <2>1 DEF Clean, NoErrors
  <1>7. /\ \A b \in Slots : vm'[b] = vm[b] \/ (b = ad[s] /\ vm'[b] = NoOne)
        /\ NoErrors' => (ad[s] \in Slots => vm'[ad[s]] = NoOne)
    BY <1>6, MunmapStep, PoolInSlots DEF IInv, TypeOK
  <1>8. KeepsOthers(t)
    <2> SUFFICES ASSUME NEW a \in Slots, vm[a] \notin {t, NoOne}, a = ad[s]
                 PROVE  StaleUnmap(t, a) /\ Undone(t, a)'
      BY <1>7 DEF KeepsOthers
    <2>1. Stale(s)
      <3>1. ~(s < s) /\ ad[s] # NULL
        BY <1>1, PoolInSlots
      <3> QED BY <1>1, <1>5, <3>1 DEF Kept
    <2>2. ~cfg.isolated
      <3> SUFFICES ASSUME cfg.isolated PROVE FALSE
        OBVIOUS
      <3>1. a = RegionBase(t) + s
        BY <1>1, PoolInSlots DEF VmInv, RegionInv
      <3>2. a \in Own(t)
        BY <1>1, <3>1, InOwn DEF FourK
      <3>3. vm[a] \in Tids /\ a \in Own(vm[a])
        BY VmTypes DEF VmInv, RegionInv, OwnRegion, Own
      <3> QED BY <1>1, <3>2, <3>3, OwnInRegion, RegionsDisjoint
    <2>3. s \in Nat /\ s + 1 > s
      BY <1>1
    <2>4. /\ err'[t] = "remap" /\ step'[t] > Idx(t)' /\ cfg' = cfg
          /\ a = addrs'[t][Idx(t)'] /\ err[t] = "remap" /\ s = Idx(t)
      BY <1>1, <2>1, <2>3
    <2> QED BY <1>1, <2>2, <2>4 DEF StaleUnmap, Undone
  <1>9. RegionInv'
    <2>1. cfg.isolated => OwnRegion'
      BY <1>1, <1>7, RegionKeeps DEF VmInv
    <2> QED BY <1>1, <2>1 DEF RegionInv, VmInv, RegionBase
  <1>10. Fresh(t)' /\ Distinct(t)'
    BY <1>1, <1>5 DEF Fresh, Distinct
  <1>11. Owned(t)'
    <2> SUFFICES ASSUME pc'[t] = "clean", NEW k \in 0..(NMaps - 1), ad[k] # NULL, ~(k < s + 1),
                        ~Stale(k)
                 PROVE  Kept(t, ad[k])'
      BY <1>1, <1>3, <1>4 DEF Owned
    <2>1. ~(k < s) /\ k # s
      BY <1>1
    <2>2. ad[k] \in Slots /\ Kept(t, ad[k]) /\ ad[k] # ad[s]
      BY <1>1, <1>5, <2>1, VmTypes
    <2>3. vm'[ad[k]] = vm[ad[k]]
      BY <1>7, <2>2
    <2>4. \A u \in Tids : Undone(u, ad[k]) => Undone(u, ad[k])'
      <3>1. \A u \in Tids : \A a : Undone(u, a) => Undone(u, a)'
        BY UndoneStays DEF Worker
      <3> QED BY <1>1, <3>1 DEF Undone
    <2> QED BY <1>1, <2>2, <2>3, <2>4 DEF Kept
  <1>12. ~cfg.nounmap /\ NoErrors' => Accounted(t)'
    <2> SUFFICES ASSUME ~cfg.nounmap, NoErrors', NEW b \in Slots, vm'[b] = t
                 PROVE  /\ pc'[t] = "clean"
                        /\ \E k \in 0..(NMaps - 1) :
                             ad[k] # NULL /\ ~(k < s + 1) /\ ~Stale(k) /\ ad[k] = b
      BY <1>1, <1>3, <1>4 DEF Accounted
    <2>1. vm[b] = t /\ b # ad[s]
      BY <1>7, PoolInSlots
    <2>2. PICK k \in 0..(NMaps - 1) : ad[k] # NULL /\ ~(k < s) /\ ~Stale(k) /\ ad[k] = b
      BY <1>1, <1>2, <1>3, <2>1 DEF VmInv, AccountedInv, Accounted
    <2>3. k # s
      BY <2>1, <2>2
    <2>4. ~(k < s + 1) /\ s + 1 # NMaps
      <3> HIDE DEF s
      <3> QED BY <1>1, <2>2, <2>3, Bounds
    <2> QED BY <1>1, <2>2, <2>4
  <1>13. VmInv'
    BY <1>2, <1>8, <1>9, <1>10, <1>11, <1>12, VmOthers DEF Worker
  <1> QED BY <1>8, <1>13

------------------------------------------------------------------------------
(* The steps that only move the worker on. *)

LEMMA StillVm ==
  ASSUME IInv, TypeOK', ErrInv, PhaseInv, VmInv, NEW t \in Tids,
         \/ BeginRun(t) \/ Alloc(t) \/ SetupFails(t) \/ UnmapOneFails(t) \/ Unmap4kFails(t)
         \/ Remap4kFails(t) \/ MapFails(t) \/ LoopEnd(t) \/ CallReadyBarrier(t)
         \/ PassReadyBarrier(t) \/ CallEndBarrier(t) \/ EndLeave(t) \/ FiniArrive(t)
         \/ FiniLeave(t) \/ DieCancelled(t)
  PROVE  VmInv' /\ KeepsOthers(t)
  <1>1. /\ StepOf(t) /\ (NoErrors' => NoErrors) /\ (err[t] # "none" => err'[t] = err[t])
        /\ UNCHANGED cancelled
    BY EveryStepOf, ErrorsStay DEF Worker
  <1>2. UNCHANGED <<vm, addrs, counter, cfg>>
    BY DEF BeginRun, Begin, Alloc, SetupFails, UnmapOneFails, Unmap4kFails, Remap4kFails, MapFails,
           LoopEnd, CallReadyBarrier, ReadyArrive, PassReadyBarrier, ReadyLeave, CallEndBarrier,
           EndArrive, EndLeave, EndLeaveStore, FiniArrive, FiniLeave, ArriveAt, LeaveFrom,
           DieCancelled, Die, Desert, locals
  <1> DEFINE Unfilled == {"unborn", "spawned", "alloc", "setup"}
             Given == {"fini", "fini_wait", "exited", "wild"}
             Plain == {"spawned", "alloc", "setup", "ready", "ready_wait", "loop", "end", "end_wait"}
  <1>3. FourK' = FourK /\ KeepsOthers(t)
    BY <1>2 DEF FourK, KeepsOthers
  <1>4. /\ pc'[t] \in Unfilled => pc[t] \in Unfilled /\ step'[t] = step[t]
        /\ pc'[t] # "half"
        /\ pc'[t] \notin Given => pc[t] \notin Given
        /\ pc[t] \in Plain \union Given \/ (pc[t] = "half" /\ (FourK => err'[t] = "remap"))
        /\ pc'[t] \in Plain \union Given \/ (pc'[t] = "clean" /\ step'[t] = 0)
        /\ FourK /\ pc'[t] \in Given =>
             pc[t] \in Given \/ err'[t] # "none" \/ cancelled # {} \/ pc[t] = "spawned" \/ cfg.nounmap
        /\ ~FourK /\ pc[t] = "half" => err'[t] # "none"
    <2> USE VmTypes DEF Goto, IInv, LoopInv, locals
    <2>1. CASE BeginRun(t)
      BY <2>1 DEF BeginRun, Begin
    <2>2. CASE Alloc(t)
      <3>1. Desert(t, "calloc") => err'[t] # "none"
        BY FailNoted DEF Desert, NoErrors, SetErr
      <3> QED BY <2>2, <3>1 DEF Alloc, Desert
    <2>3. CASE SetupFails(t)
      BY <2>3 DEF SetupFails
    <2>4. CASE UnmapOneFails(t)
      <3>1. err'[t] # "none"
        BY <2>4 DEF UnmapOneFails, Desert, SetErr
      <3> QED BY <2>4, <3>1 DEF UnmapOneFails, Desert
    <2>5. CASE Unmap4kFails(t)
      BY <2>5 DEF Unmap4kFails
    <2>6. CASE Remap4kFails(t)
      <3>1. err'[t] = "remap"
        BY <2>6, FailNoted DEF Remap4kFails
      <3> QED BY <2>6, <3>1 DEF Remap4kFails
    <2>7. CASE MapFails(t)
      BY <2>7 DEF MapFails, Desert
    <2>8. CASE LoopEnd(t)
      BY <2>8 DEF LoopEnd
    <2>9. CASE CallReadyBarrier(t) \/ PassReadyBarrier(t) \/ CallEndBarrier(t) \/ FiniArrive(t)
               \/ FiniLeave(t)
      BY <2>9 DEF CallReadyBarrier, ReadyArrive, PassReadyBarrier, ReadyLeave, CallEndBarrier,
                  EndArrive, FiniArrive, FiniLeave, ArriveAt, LeaveFrom
    <2>10. CASE EndLeave(t)
      BY <2>10 DEF EndLeave, EndLeaveStore, LeaveFrom, FourK
    <2>11. CASE DieCancelled(t)
      BY <2>11 DEF DieCancelled, Die
    <2> QED BY <2>1, <2>2, <2>3, <2>4, <2>5, <2>6, <2>7, <2>8, <2>9, <2>10, <2>11
  <1>5. Idx(t)' = Idx(t) /\ step'[t] \in Nat /\ \A k \in 0..(NMaps - 1) : ~(k < 0)
    BY <1>2, Bounds DEF Idx, TypeOK
  <1> DEFINE Stale(k) == err[t] = "remap" /\ k = Idx(t)
  <1>6. pc'[t] \notin Given =>
          \A k \in 0..(NMaps - 1) : Live(t, k)' <=> addrs[t][k] # NULL /\ ~Stale(k)'
    BY <1>2, <1>4, <1>5 DEF Live
  <1>7. pc[t] \in Plain \union Given =>
          \A k \in 0..(NMaps - 1) : Live(t, k) <=> addrs[t][k] # NULL /\ ~Stale(k)
    BY DEF Live
  <1>8. FourK /\ Holding(t)' =>
          Holding(t) /\ \A k \in 0..(NMaps - 1) : Live(t, k)' => Live(t, k)
    <2>1. \A k \in 0..(NMaps - 1) : Stale(k) => Stale(k)'
      BY <1>1, <1>5
    <2>2. FourK /\ pc[t] = "half" =>
            \A k \in 0..(NMaps - 1) : Live(t, k) <=> addrs[t][k] # NULL /\ k # Idx(t) /\ ~Stale(k)
      BY DEF Live
    <2>3. FourK /\ pc[t] = "half" => \A k \in 0..(NMaps - 1) : k = Idx(t) => Stale(k)'
      BY <1>4, <1>5
    <2> QED BY <1>4, <1>6, <1>7, <2>1, <2>2, <2>3 DEF Holding
  <1>9. pc[t] = "spawned" => \A k \in 0..(NMaps - 1) : addrs[t][k] = NULL
    <2>1. pc[t] = "spawned" => step[t] = 0 /\ Fresh(t)
      BY DEF IInv, LoopInv, VmInv, FreshInv
    <2>2. \A k \in 0..(NMaps - 1) : k >= 0
      BY Bounds
    <2> QED BY <2>1, <2>2 DEF Fresh
  <1>10. ASSUME ~cfg.nounmap, NoErrors'
         PROVE  /\ NoErrors
                /\ IF FourK THEN \A k \in 0..(NMaps - 1) : Holding(t) /\ Live(t, k) =>
                                   Holding(t)' /\ Live(t, k)'
                   ELSE pc[t] # "half"
    <2>1. NoErrors /\ err'[t] = "none" /\ cancelled = {}
      BY <1>1, <1>10 DEF NoErrors
    <2>2. CASE FourK
      <3>1. pc[t] \in Plain \union Given
        BY <1>4, <2>1, <2>2
      <3>2. pc'[t] \in Given => pc[t] \in Given \/ pc[t] = "spawned"
        BY <1>4, <1>10, <2>1, <2>2
      <3> QED BY <1>6, <1>7, <1>9, <2>1, <2>2, <3>1, <3>2 DEF Holding
    <2>3. CASE ~FourK
      BY <1>4, <2>1, <2>3
    <2> QED BY <2>2, <2>3
  <1>11. VmInv'
    <2>1. Worker(t) \/ DieCancelled(t)
      BY DEF Worker
    <2>2. /\ UNCHANGED <<vm, addrs>> /\ counter'[t] = counter[t]
          /\ pc'[t] \in Unfilled => pc[t] \in Unfilled /\ step'[t] = step[t]
          /\ pc'[t] = "half" => FourK
      BY <1>2, <1>4
    <2> QED BY <1>1, <1>8, <1>10, <2>1, <2>2, VmStill
  <1> QED BY <1>3, <1>11

(* Every step of a worker keeps the mappings of the others, but those named   *)
(* above.                                                                     *)
LEMMA WorkerVm ==
  ASSUME IInv, TypeOK', ErrInv, PhaseInv, VmInv, NEW t \in Tids, Worker(t) \/ DieCancelled(t)
  PROVE  VmInv' /\ (KeepsOthers(t) \/ (MapOnly(t) /\ cfg.isolated))
  BY SetupVm, MapOneVm, MapOnlyVm, UnmapOneVm, Unmap4kVm, Remap4kVm, CleanVm, StillVm DEF Worker

(* maponly maps over another one's slot only outside of a region.             *)
LEMMA OverrunOnly ==
  ASSUME IInv, TypeOK', ErrInv, PhaseInv, VmInv, NEW t \in Tids, MapOnly(t), cfg.isolated,
         NEW u \in Tids, NEW a \in Slots, vm[a] = u, vm'[a] # u
  PROVE  t = u \/ Overrun(t)' \/ Overrun(u)
  <1>1. /\ cfg.nounmap /\ UNCHANGED cfg /\ counter'[t] = counter[t] + 1
        /\ counter[t] \in Nat /\ counter[u] \in Nat
    BY VmTypes DEF MapOnly, CountOp
  <1>2. a = RegionBase(t) + counter[t]
    BY MapOnlyVm
  <1>3. a \in Own(u)
    BY PoolInSlots DEF VmInv, RegionInv, OwnRegion, Own
  <1> SUFFICES ASSUME ~Overrun(t)', ~Overrun(u) PROVE t = u
    OBVIOUS
  <1>4. counter[t] + 1 <= RegionSlots /\ counter[u] <= RegionSlots
    BY <1>1, Bounds DEF Overrun
  <1>5. a \in Region(t)
    <2>1. counter[t] \in 0..(RegionSlots - 1)
      BY <1>1, <1>4, Bounds
    <2> QED BY <1>2, <2>1, InRegion
  <1>6. a \in Region(u)
    BY <1>3, <1>4, OwnInRegion
  <1> QED BY <1>5, <1>6, RegionsDisjoint

(* Who changes the address space moves on. *)
LEMMA VmMoves ==
  ASSUME IInv, NEW t \in Tids, Worker(t) \/ DieCancelled(t), NEW a \in Slots, vm'[a] # vm[a]
  PROVE  Moves(t)
  <1>1. CASE UnmapOne(t) \/ Unmap4k(t) \/ MapOne(t) \/ Remap4k(t)
    <2>1. pc'[t] # pc[t]
      BY <1>1, VmTypes DEF UnmapOne, Unmap4k, MapOne, Remap4k, Goto
    <2> QED BY <2>1 DEF Moves
  <1>2. CASE Clean(t)
    <2>1. step'[t] = step[t] + 1 /\ step[t] \in 0..NMaps
      BY <1>2, VmTypes DEF Clean
    <2>2. step'[t] # step[t]
      BY <2>1, Bounds
    <2> QED BY <2>2 DEF Moves
  <1>3. CASE Setup(t)
    <2>1. CASE step[t] + 1 = NMaps
      <3>1. pc'[t] # pc[t]
        BY <1>3, <2>1, VmTypes DEF Setup, Goto
      <3> QED BY <3>1 DEF Moves
    <2>2. CASE step[t] + 1 # NMaps
      <3>1. step'[t] = step[t] + 1 /\ step[t] \in 0..NMaps
        BY <1>3, <2>2, VmTypes DEF Setup
      <3>2. step'[t] # step[t]
        BY <3>1, Bounds
      <3> QED BY <3>2 DEF Moves
    <2> QED BY <2>1, <2>2
  <1>4. CASE MapOnly(t)
    <2>1. counter'[t] = counter[t] + 1 /\ counter[t] \in 0..MaxOps
      BY <1>4, VmTypes DEF MapOnly, CountOp
    <2>2. counter'[t] # counter[t]
      BY <2>1, Bounds
    <2> QED BY <2>2 DEF Moves
  <1>5. CASE UNCHANGED vm
    BY <1>5
  <1> QED BY <1>1, <1>2, <1>3, <1>4, <1>5
      DEF Worker, BeginRun, Alloc, SetupFails, UnmapOneFails, Unmap4kFails, Remap4kFails,
          MapFails, LoopEnd, CallReadyBarrier, PassReadyBarrier, CallEndBarrier, EndLeave,
          FiniArrive, FiniLeave, DieCancelled, locals

LEMMA MainVm == ASSUME IInv, VmInv, MainStep PROVE VmInv'
  <1>1. /\ UNCHANGED <<cfg, locals, blocked, err, counter, count>>
        /\ \A t \in Tids : pc'[t] = pc[t] \/ (pc[t] = "unborn" /\ pc'[t] = "spawned")
    BY MainStepOf
  <1>2. UNCHANGED <<vm, addrs, step, cfg, counter, err>> /\ FourK' = FourK
    BY <1>1 DEF locals, FourK
  <1>3. RegionInv'
    BY <1>2 DEF VmInv, RegionInv, OwnRegion, Extent, RegionBase
  <1>4. ASSUME NEW t \in Tids
        PROVE  /\ Fresh(t) => Fresh(t)'
               /\ Distinct(t) => Distinct(t)'
               /\ Owned(t) => Owned(t)'
               /\ Accounted(t) => Accounted(t)'
    <2>1. Holding(t)' <=> Holding(t)
      BY <1>1 DEF Holding
    <2>2. \A k : Live(t, k)' <=> Live(t, k)
      BY <1>1, <1>2 DEF Live, Idx
    <2>3. pc'[t] = "half" <=> pc[t] = "half"
      BY <1>1
    <2>4. Fresh(t) => Fresh(t)'
      BY <1>1, <1>2 DEF Fresh
    <2>5. \A k : Kept(t, addrs[t][k])' <=> Kept(t, addrs[t][k])
      BY <1>2 DEF Kept, Undone, Idx
    <2>6. Owned(t) => Owned(t)'
      BY <1>2, <2>1, <2>2, <2>3, <2>5 DEF Owned
    <2>7. Accounted(t) => Accounted(t)'
      BY <1>2, <2>1, <2>2, <2>3 DEF Accounted
    <2> QED BY <1>2, <2>4, <2>6, <2>7 DEF Distinct
  <1>5. NoErrors' => NoErrors
    BY <1>2 DEF MainStep, Main, BarrierInit, StartThread, AllStarted, StartFails, CancelThread,
                AllCancelled, JoinThread, AllJoined, PrintCsv, CleanupArgs, NoErrors
  <1> QED BY <1>2, <1>3, <1>4, <1>5 DEF VmInv, FreshInv, OwnedInv, AccountedInv

------------------------------------------------------------------------------
(* The counts: ReportInv. *)

LEMMA ReportMain == ASSUME IInv, ReportInv, MainStep PROVE ReportInv'
  <1>1. /\ UNCHANGED <<cfg, err, counter, count>>
        /\ \A t \in Tids : pc'[t] = pc[t] \/ (pc[t] = "unborn" /\ pc'[t] = "spawned")
    BY MainStepOf
  <1>2. cancelled' = {} => cancelled = {}
    BY DEF MainStep, Main, BarrierInit, StartThread, AllStarted, StartFails, CancelThread,
           AllCancelled, JoinThread, AllJoined, PrintCsv, CleanupArgs
  <1>3. \A t \in Tids : Stored(t)' => Stored(t)
    BY <1>1 DEF Stored
  <1>4. mpc' = "cleanup" \/ ret' = "ok" => report' = count'
    BY <1>1 DEF MainStep, Main, BarrierInit, StartThread, AllStarted, StartFails, CancelThread,
           AllCancelled, JoinThread, AllJoined, PrintCsv, CleanupArgs, ReportInv, IInv, HarnessInv,
           MainInv
  <1> QED BY <1>1, <1>2, <1>3, <1>4 DEF ReportInv

LEMMA ReportStep ==
  ASSUME IInv, ErrInv, ReportInv, NEW t \in Tids, Worker(t) \/ DieCancelled(t)
  PROVE  ReportInv'
  <1>1. StepOf(t) /\ UNCHANGED <<main, cfg>> /\ (\A u \in Tids : err'[u] = "none" => err[u] = "none")
    BY EveryStepOf, ErrorsStay DEF StepOf
  <1>2. UNCHANGED <<mpc, ret, report, cancelled>>
    BY <1>1 DEF main
  <1>3. mpc = "cleanup" \/ ret = "ok" => FALSE
    <2>1. pc[t] # "exited"
      BY DEF Worker, BeginRun, Begin, Alloc, Setup, SetupFails, MapOne, UnmapOne, UnmapOneFails,
         Unmap4k, Unmap4kFails, Remap4k, Remap4kFails, MapOnly, MapFails, LoopEnd, Clean,
         CallReadyBarrier, ReadyArrive, PassReadyBarrier, ReadyLeave, CallEndBarrier, EndArrive,
         EndLeave, EndLeaveStore, FiniArrive, FiniLeave, ArriveAt, LeaveFrom, DieCancelled, Die
    <2> QED BY <2>1 DEF IInv, HarnessInv, MainInv
  <1>4. ASSUME cancelled = {}, err'[t] \in {"none", "cleanup"}, Stored(t)'
        PROVE  count'[t] = counter'[t]
    <2> USE VmTypes DEF Goto
    <2>1. CASE LoopEnd(t)
      <3>1. pc'[t] = "end"
        BY <2>1 DEF LoopEnd
      <3>2. cfg.map4k
        BY <1>1, <1>4, <3>1 DEF Stored
      <3> QED BY <2>1, <3>2 DEF LoopEnd, IInv, TypeOK
    <2>2. CASE EndLeave(t)
      <3>1. CASE cfg.map4k
        BY <1>4, <2>2, <3>1 DEF EndLeave, EndLeaveStore, LeaveFrom, Stored, ReportInv
      <3>2. CASE ~cfg.map4k
        BY <2>2, <3>2 DEF EndLeave, EndLeaveStore, FourK, IInv, TypeOK
      <3> QED BY <3>1, <3>2
    <2>3. CASE CallEndBarrier(t) \/ FiniArrive(t) \/ FiniLeave(t) \/ Clean(t)
      <3>1. UNCHANGED <<count, counter, cfg>> /\ err[t] \in {"none", "cleanup"}
        BY <1>4, <2>3 DEF CallEndBarrier, EndArrive, FiniArrive, FiniLeave, Clean, ArriveAt,
                          LeaveFrom, SetErr
      <3>2. Stored(t)
        BY <1>4, <2>3, <3>1 DEF CallEndBarrier, EndArrive, FiniArrive, FiniLeave, Clean, ArriveAt,
                          LeaveFrom, Stored, ErrInv, FourK
      <3> QED BY <1>4, <3>1, <3>2 DEF ReportInv
    <2>4. CASE Alloc(t) \/ SetupFails(t) \/ UnmapOneFails(t) \/ Unmap4kFails(t) \/ Remap4kFails(t)
               \/ MapFails(t)
      <3>1. \A e \in {"calloc", "setup", "op", "remap"} :
              SetErr(t, e) /\ pc[t] \in {"alloc", "setup", "loop", "half"} => err'[t] = e
        BY FailNoted
      <3>2. err'[t] \in {"calloc", "setup", "op", "remap"} \/ pc'[t] = "setup"
        BY <2>4, <3>1 DEF Alloc, SetupFails, UnmapOneFails, Unmap4kFails, Remap4kFails, MapFails, Desert
      <3> QED BY <1>4, <3>2 DEF Stored
    <2>5. CASE DieCancelled(t)
      BY <1>4, <2>5 DEF DieCancelled, Die
    <2>6. CASE BeginRun(t) \/ Setup(t) \/ MapOne(t) \/ UnmapOne(t) \/ Unmap4k(t) \/ Remap4k(t)
               \/ MapOnly(t) \/ CallReadyBarrier(t) \/ PassReadyBarrier(t)
      <3>1. pc'[t] \in {"alloc", "ready", "wild", "setup", "half", "loop", "ready_wait"}
        BY <2>6 DEF BeginRun, Begin, Setup, MapOne, UnmapOne, Unmap4k, Remap4k, MapOnly,
                CallReadyBarrier, ReadyArrive, ArriveAt, PassReadyBarrier, ReadyLeave, LeaveFrom
      <3> QED BY <1>4, <3>1 DEF Stored
    <2> QED BY <2>1, <2>2, <2>3, <2>4, <2>5, <2>6 DEF Worker
  <1>5. ASSUME cancelled = {}, NEW u \in Tids \ {t}, err'[u] \in {"none", "cleanup"}, Stored(u)'
        PROVE  count'[u] = counter'[u]
    BY <1>1, <1>5 DEF StepOf, Stored, ReportInv
  <1> QED BY <1>2, <1>3, <1>4, <1>5 DEF ReportInv

------------------------------------------------------------------------------
LEMMA SpecIInv == Spec => []IInv
  BY InitIInv, NextIInv, PTL DEF Spec

LEMMA InitDInv == Init => DInv
  <1> SUFFICES ASSUME Init PROVE DInv
    OBVIOUS
  <1>1. HarnessInit /\ \A t \in Tids : pc[t] = "unborn" /\ err[t] = "none"
    BY DEF Init, HarnessInit
  <1>2. CancelInv /\ ErrInv /\ PhaseInv /\ ReportInv
    BY <1>1, Bounds DEF HarnessInit, CancelInv, ErrInv, PhaseInv, Early, BeforeBarrier, ReportInv, Stored
  <1>3. /\ \A t \in Tids : \A k \in 0..(NMaps - 1) : addrs[t][k] = NULL
        /\ \A a \in Slots : vm[a] = NoOne
    BY DEF Init
  <1>4. RegionInv /\ FreshInv /\ OwnedInv /\ AccountedInv
    BY <1>1, <1>3, PoolInSlots DEF RegionInv, OwnRegion, FreshInv, Fresh, OwnedInv, Owned,
                                   Distinct, Live, AccountedInv, Accounted
  <1> QED BY <1>2, <1>4 DEF DInv, VmInv

LEMMA StutterDInv == DInv /\ UNCHANGED vars => DInv'
  <1> SUFFICES ASSUME DInv, UNCHANGED vars PROVE DInv'
    OBVIOUS
  <1>1. UNCHANGED <<mpc, i, ret, cancelled, report, pc, blocked, err, counter, count, vm, cfg, step, addrs>>
    BY DEF vars, harness, main, barrier
  <1>2. CancelInv' /\ ErrInv' /\ PhaseInv' /\ ReportInv'
    BY <1>1 DEF DInv, CancelInv, ErrInv, FourK, PhaseInv, Early, Middle, Late, ReportInv, Stored
  <1>3. RegionInv' /\ FreshInv'
    BY <1>1 DEF DInv, VmInv, RegionInv, OwnRegion, Extent, RegionBase, FreshInv, Fresh
  <1>4. OwnedInv' /\ AccountedInv'
    BY <1>1 DEF DInv, VmInv, OwnedInv, Owned, Distinct, Kept, Undone, Live, Idx, Holding, FourK,
                AccountedInv, Accounted, NoErrors
  <1> QED BY <1>2, <1>3, <1>4 DEF DInv, VmInv

LEMMA NextDInv == IInv /\ DInv /\ [Next]_vars => DInv'
  <1> SUFFICES ASSUME IInv, DInv, [Next]_vars PROVE DInv'
    OBVIOUS
  <1>1. CancelInv' /\ TypeOK'
    BY CancelStep, NextIInv DEF DInv, IInv
  <1>2. CASE MainStep
    BY <1>1, <1>2, ErrMain, PhaseMain, MainVm, ReportMain DEF DInv
  <1>3. ASSUME NEW t \in Tids, Worker(t) PROVE DInv'
    BY <1>1, <1>3, ErrStep, PhaseStep, WorkerVm, ReportStep DEF DInv
  <1>4. ASSUME NEW t \in Tids, DieCancelled(t) PROVE DInv'
    BY <1>1, <1>4, ErrStep, PhaseDie, WorkerVm, ReportStep DEF DInv
  <1>5. CASE UNCHANGED vars
    BY <1>5, StutterDInv
  <1> QED BY <1>2, <1>3, <1>4, <1>5 DEF Next

LEMMA SpecDInv == Spec => []DInv
  BY SpecIInv, InitDInv, NextDInv, PTL DEF Spec

(* While a worker measures no other one sets up, and none cleans up but one   *)
(* whose setup has failed, for any number of workers and any failures: the    *)
(* phases of mapunmap.c are kept apart by its barriers.                       *)
THEOREM MapUnmapPhasesDisjoint == Spec => []PhasesDisjoint
  <1>1. IInv /\ DInv => PhasesDisjoint
    <2> SUFFICES ASSUME DInv, NEW t \in Tids, NEW u \in Tids, Measuring(t)
                 PROVE  \/ Measuring(u)
                        \/ pc[u] \in {"ready_wait", "end_wait"}
                        \/ pc[u] = "end" /\ err[u] # "setup"
                        \/ pc[u] = "exited" /\ err[u] = "op"
                        \/ pc[u] \in {"clean", "fini", "fini_wait"} /\ err[u] = "setup"
      BY DEF PhasesDisjoint
    <2>1. pc[t] \in {"loop", "half"}
      BY DEF Measuring, Measured, DInv, ErrInv
    <2>2. Middle(u)
      BY <2>1, PhaseOf DEF DInv
    <2> QED BY <2>2 DEF Middle, Measuring, Measured
  <1> QED BY <1>1, SpecIInv, SpecDInv, PTL

(* An address a 4k worker has noted is one of its own mappings, whatever the  *)
(* others do and whatever fails (mapunmap.c:176-209); only in the cleanup it  *)
(* may be gone, to the cleanup of another worker whose remap failed.          *)
THEOREM MapUnmapAddrsOwned == Spec => []AddrsOwned
  <1>1. IInv /\ DInv => AddrsOwned
    <2> SUFFICES ASSUME IInv, DInv, FourK, NEW t \in Tids, HoldsPages(t),
                        NEW k \in 0..(NMaps - 1), Live(t, k)
                 PROVE  \/ vm[addrs[t][k]] = t
                        \/ /\ pc[t] \in {"end_wait", "clean"} /\ vm[addrs[t][k]] = NoOne
                           /\ \E u \in Tids \ {t} : Undone(u, addrs[t][k])
      BY DEF AddrsOwned, Live
    <2>1. Kept(t, addrs[t][k])
      BY DEF DInv, VmInv, OwnedInv, Owned, HoldsPages, Holding
    <2>2. ASSUME NEW u \in Tids, Undone(u, addrs[t][k]) PROVE pc[t] \in {"end_wait", "clean"}
      BY <2>2, UndoneLate DEF DInv, HoldsPages
    <2> QED BY <2>1, <2>2 DEF Kept
  <1> QED BY <1>1, SpecIInv, SpecDInv, PTL

(* What an isolated worker has mapped are the first slots of its region, as   *)
(* many as it uses (utils.h:117; mapunmap.c:57, 140, 269, 342): it leaves the *)
(* region in no other way than by maponly operations beyond the first         *)
(* RegionSlots.                                                               *)
THEOREM MapUnmapOwnRegion == Spec => []OwnRegion
  <1>1. IInv /\ DInv => OwnRegion
    BY DEF DInv, VmInv, RegionInv, OwnRegion
  <1> QED BY <1>1, SpecIInv, SpecDInv, PTL

(* No worker removes or replaces a mapping of another, not with an operation  *)
(* (mapunmap.c:57-101, 174-210), not in the cleanup (mapunmap.c:221-228), but *)
(* for a stale address (mapunmap.c:201, 223) and a maponly run beyond the end *)
(* of a region (mapunmap.c:275, 348).                                         *)
THEOREM MapUnmapNoForeignUnmap == Spec => NoForeignUnmap
  <1> DEFINE Keeps == \A u \in Tids, a \in Slots :
               vm[a] = u /\ vm'[a] # u =>
                 \E t \in Tids : Moves(t) /\ (t = u \/ StaleUnmap(t, a) \/ Overrun(t)' \/ Overrun(u))
  <1>1. IInv /\ IInv' /\ DInv /\ [Next]_vars => [Keeps]_vars
    <2> SUFFICES ASSUME IInv, IInv', DInv, Next, NEW u \in Tids, NEW a \in Slots,
                        vm[a] = u, vm'[a] # u
                 PROVE  \E t \in Tids :
                          Moves(t) /\ (t = u \/ StaleUnmap(t, a) \/ Overrun(t)' \/ Overrun(u))
      OBVIOUS
    <2>1. CASE MainStep
      BY <2>1, MainStepOf DEF locals
    <2>2. ASSUME NEW t \in Tids, Worker(t) \/ DieCancelled(t)
          PROVE  Moves(t) /\ (t = u \/ StaleUnmap(t, a) \/ Overrun(t)' \/ Overrun(u))
      <3>1. t = u \/ StaleUnmap(t, a) \/ Overrun(t)' \/ Overrun(u)
        <4>1. CASE KeepsOthers(t)
          BY <4>1, PoolInSlots DEF KeepsOthers
        <4>2. CASE MapOnly(t) /\ cfg.isolated
          BY <4>2, OverrunOnly DEF DInv, IInv
        <4> QED BY <2>2, <4>1, <4>2, WorkerVm DEF DInv, IInv
      <3>2. Moves(t)
        BY <2>2, VmMoves
      <3> QED BY <3>1, <3>2
    <2> QED BY <2>1, <2>2 DEF Next
  <1> QED BY <1>1, SpecIInv, SpecDInv, PTL DEF Spec, NoForeignUnmap

(* An error-free mapunmap run leaves nothing mapped (mapunmap.c:221).         *)
THEOREM MapUnmapNothingLeft == Spec => []NothingLeftMapped
  <1>1. IInv /\ DInv => NothingLeftMapped
    <2> SUFFICES ASSUME IInv, DInv, ret = "ok", ~cfg.nounmap, \A t \in Tids : err[t] = "none",
                        NEW a \in Slots, vm[a] # NoOne
                 PROVE  FALSE
      BY DEF NothingLeftMapped
    <2>1. vm[a] \in Tids /\ pc[vm[a]] = "exited"
      BY DEF IInv, TypeOK, HarnessInv, MainInv
    <2>2. NoErrors
      BY DEF NoErrors, DInv, CancelInv, IInv, HarnessInv, MainInv
    <2>3. Accounted(vm[a])
      BY <2>1, <2>2 DEF DInv, VmInv, AccountedInv
    <2> QED BY <2>1, <2>3 DEF Accounted, Holding
  <1> QED BY <1>1, SpecIInv, SpecDInv, PTL

(* The CSV shows all operations of every worker that ran its loop to the end  *)
(* (mapunmap.c:107, 214, utils.c:143).                                        *)
THEOREM MapUnmapReportComplete == Spec => []ReportComplete
  <1>1. IInv /\ DInv => ReportComplete
    <2> SUFFICES ASSUME IInv, DInv, ret = "ok", NEW t \in Tids, err[t] \in {"none", "cleanup"}
                 PROVE  report[t] = counter[t]
      BY DEF ReportComplete
    <2>1. pc[t] = "exited" /\ cancelled = {}
      BY DEF DInv, CancelInv, IInv, HarnessInv, MainInv
    <2>2. report = count /\ count[t] = counter[t]
      BY <2>1 DEF DInv, ReportInv, Stored
    <2> QED BY <2>2
  <1> QED BY <1>1, SpecIInv, SpecDInv, PTL

------------------------------------------------------------------------------
(* How the workers of this benchmark move between their control points.       *)
LEMMA EveryWorkerMoves ==
  ASSUME IInv, NEW t \in Tids, Worker(t) \/ DieCancelled(t)
  PROVE  WorkerMoves(t)
  <1> USE DEF WorkerMoves, LocalMove, ArriveMove, LeaveMove, PCs, BeforeBarrier, Measured, Waits, InSetup
  <1>1. CASE BeginRun(t) \/ DieCancelled(t)
    BY <1>1 DEF BeginRun, DieCancelled, Begin, Die, Goto, Desert, IInv, TypeOK, MainTypeOK, locals, main, barrier
  <1>2. CASE Alloc(t) \/ Setup(t) \/ SetupFails(t)
    BY <1>2 DEF Alloc, Setup, SetupFails, Goto, Desert, IInv, TypeOK, MainTypeOK, locals, main, barrier
  <1>3. CASE MapOne(t) \/ UnmapOne(t) \/ UnmapOneFails(t) \/ Unmap4k(t)
    BY <1>3 DEF MapOne, UnmapOne, UnmapOneFails, Unmap4k, Goto, Desert, IInv, TypeOK, MainTypeOK, locals, main, barrier
  <1>4. CASE Unmap4kFails(t) \/ Remap4k(t) \/ Remap4kFails(t)
    BY <1>4 DEF Unmap4kFails, Remap4k, Remap4kFails, Goto, Desert, IInv, TypeOK, MainTypeOK, locals, main, barrier
  <1>5. CASE MapOnly(t) \/ MapFails(t) \/ LoopEnd(t)
    BY <1>5 DEF MapOnly, MapFails, LoopEnd, Goto, Desert, IInv, TypeOK, MainTypeOK, locals, main, barrier
  <1>6. CASE Clean(t)
    BY <1>6 DEF Clean, Goto, Desert, IInv, TypeOK, MainTypeOK, locals, main, barrier
  <1>7. CASE CallReadyBarrier(t) \/ CallEndBarrier(t) \/ FiniArrive(t)
    BY <1>7 DEF CallReadyBarrier, CallEndBarrier, FiniArrive, ReadyArrive, EndArrive, ArriveAt, LeaveFrom, Goto, main
  <1>8. CASE PassReadyBarrier(t) \/ EndLeave(t) \/ FiniLeave(t)
    BY <1>8 DEF PassReadyBarrier, EndLeave, FiniLeave, ReadyLeave, EndLeaveStore, ArriveAt, LeaveFrom, Goto, main
  <1> QED BY <1>1, <1>2, <1>3, <1>4, <1>5, <1>6, <1>7, <1>8 DEF Worker

(* Every run function of mapunmap.c, with whatever calls fail, is a fork and   *)
(* a join around one measurement: no worker measures before the last one is   *)
(* started and set up, and 0 is returned only after the end of all            *)
(* (utils.c:331-367; mapunmap.c:46, 167, 256, 328).                           *)
THEOREM MapUnmapImplementsForkJoin == Spec => ImplementsForkJoin
  <1>1. Init => ForkJoinInv /\ F!Init
    BY ForkJoinInvInit, ForkJoinInit DEF Init
  <1>2. IInv /\ ForkJoinInv /\ [Next]_vars => ForkJoinInv' /\ [F!Next]_(F!vars)
    <2> SUFFICES ASSUME IInv, ForkJoinInv, [Next]_vars
                 PROVE  ForkJoinInv' /\ [F!Next]_(F!vars)
      OBVIOUS
    <2>1. Main \/ (\E t \in Tids : WorkerMoves(t)) \/ UNCHANGED harness
      BY EveryWorkerMoves DEF Next, MainStep, vars
    <2> QED BY <2>1, ForkJoinInvStep DEF IInv
  <1> QED BY <1>1, <1>2, SpecIInv, PTL DEF Spec, ImplementsForkJoin, F!Spec
==============================================================================
