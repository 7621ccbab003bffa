--------------------------- MODULE ProtectProofs ---------------------------
(***************************************************************************)
(* The protect benchmark, for any number of workers, pages and operations, *)
(* any configuration and any failures.  IInv is type correctness with the  *)
(* invariant of the harness; DInv relates the addresses a worker has noted *)
(* to the mappings and their permissions.                                  *)
(***************************************************************************)
EXTENDS Protect, BenchRunProofs

(* The loop variable of the setup and of the cleanup stays below nmaps, and   *)
(* an operation that was begun is within the limit.                           *)
LoopInv ==
  \A t \in Tids :
    /\ pc[t] \in {"setup", "clean"} => step[t] < Count
    /\ pc[t] \notin {"setup", "clean", "fini", "fini_wait", "exited"} => step[t] = 0
    /\ pc[t] = "half" => More(t)

IInv == TypeOK /\ HarnessInv /\ LoopInv

(* The entries of addrs that are used. *)
Entries == 0..(Count - 1)

(* Before the setup there are no addresses, after it all are there. *)
Filled(t) ==
  /\ pc[t] \in {"unborn", "spawned", "alloc", "setup"} =>
       \A k \in Entries : k >= step[t] => addrs[t][k] = NULL
  /\ pc[t] = "setup" => \A k \in Entries : k < step[t] => addrs[t][k] # NULL
  /\ pc[t] \in {"ready", "ready_wait", "loop", "half"} => \A k \in Entries : addrs[t][k] # NULL

(* An entry of addrs that stands for a mapping, and a worker that has not     *)
(* given up its pages.                                                        *)
Live(t, k) == addrs[t][k] # NULL /\ ~(pc[t] = "clean" /\ k < step[t])
Holding(t) == pc[t] \notin {"fini", "fini_wait", "exited", "wild"}

(* Each live entry is a mapping of this worker, and no two are the same.      *)
Owned(t) ==
  Holding(t) =>
    \A k \in Entries : Live(t, k) =>
      /\ vm[addrs[t][k]] = t
      /\ \A l \in Entries : Live(t, l) /\ addrs[t][l] = addrs[t][k] => l = k

(* The addresses of an isolated worker are the pages of its region in order,  *)
(* and what it maps stays in there.                                           *)
RegionInv ==
  cfg.isolated =>
    /\ \A a \in Slots : vm[a] # NoOne => a \in Region(vm[a])
    /\ \A t \in Tids, k \in Entries : addrs[t][k] \in {NULL, RegionBase(t) + k}

(* As long as nothing fails all mappings of a worker are accounted for. *)
NoErrors == cancelled = {} /\ \A u \in Tids : err[u] = "none"
Accounted(t) ==
  \A a \in Slots : vm[a] = t => Holding(t) /\ \E k \in Entries : Live(t, k) /\ addrs[t][k] = a

(* A read-only page is the one its worker is at. *)
AtReadOnly(t) ==
  err[t] = "none" =>
    \A a \in Slots : vm[a] = t /\ perm[a] = "ro" => pc[t] = "half" /\ a = Page(t)

PageInv(t) ==
  /\ Filled(t) /\ Owned(t) /\ AtReadOnly(t)
  /\ cfg.map4k /\ NoErrors => Accounted(t)

DInv == CancelInv /\ RegionInv /\ \A t \in Tids : PageInv(t)
------------------------------------------------------------------------------
(* The facts about the constants and the types the leaves below use. *)
LEMMA Bounds ==
  /\ N \in Nat \ {0} /\ NMaps \in Nat \ {0} /\ NMaps <= RegionSlots /\ MaxOps \in Nat \ {0}
  /\ Count \in Nat \ {0} /\ Count <= NMaps /\ Configs \subseteq AllConfigs
  BY PlatBounds, ProtectAssumption DEF Count

LEMMA Ranges ==
  ASSUME TypeOK
  PROVE  /\ OpsLimit \in 0..MaxOps
         /\ \A t \in Tids : (t + counter[t]) % Count \in Entries
         /\ Entries \subseteq 0..(NMaps - 1) /\ Entries \subseteq 0..(RegionSlots - 1)
         /\ \A t \in Tids : \A k \in Entries : addrs[t][k] \in Slots \union {NULL}
  <1>1. OpsLimit \in 0..MaxOps
    BY Bounds DEF TypeOK, OpsLimit, AllConfigs
  <1>2. ASSUME NEW t \in Tids PROVE (t + counter[t]) % Count \in Entries
    <2>1. t + counter[t] \in Nat
      BY TidsNat DEF TypeOK
    <2> QED BY <2>1, Bounds DEF Entries
  <1>3. Entries \subseteq 0..(NMaps - 1) /\ Entries \subseteq 0..(RegionSlots - 1)
    BY Bounds, PlatBounds DEF Entries
  <1>4. addrs \in [Tids -> [0..(NMaps - 1) -> Slots \union {NULL}]]
    BY DEF TypeOK
  <1> QED BY <1>1, <1>2, <1>3, <1>4

LEMMA InitIInv == Init => IInv
  <1> SUFFICES ASSUME Init PROVE IInv
    OBVIOUS
  <1>1. HarnessInv
    BY HarnessInitInv DEF Init
  <1>2. TypeOK
    BY <1>1, Bounds DEF Init, TypeOK, HarnessInv, HarnessInit, NoOne, NULL
  <1>3. LoopInv
    BY Bounds DEF Init, HarnessInit, LoopInv
  <1> QED BY <1>1, <1>2, <1>3 DEF IInv

LEMMA MainStepIInv == ASSUME IInv, MainStep PROVE IInv'
  <1>1. HarnessInv'
    BY MainPreserves DEF IInv, MainStep
  <1>2. /\ report' \in [Tids -> 0..MaxOps] /\ UNCHANGED <<counter, count>>
        /\ \A t \in Tids : pc'[t] = pc[t] \/ (pc[t] = "unborn" /\ pc'[t] = "spawned")
    BY MainShape DEF IInv, TypeOK, MainStep
  <1>3. TypeOK'
    BY <1>1, <1>2 DEF IInv, TypeOK, HarnessInv, MainStep, locals, Count
  <1>4. LoopInv'
    BY <1>2 DEF IInv, LoopInv, MainStep, locals, More, OpsLimit, Count
  <1> QED BY <1>1, <1>3, <1>4 DEF IInv

------------------------------------------------------------------------------
(* The steps of a worker preserve IInv: first the harness, ... *)
LEMMA HarnessStep ==
  ASSUME IInv, NEW t \in Tids, Worker(t) \/ DieCancelled(t)
  PROVE  HarnessInv'
  <1>1. CASE BeginRun(t)
    <2>1. PICK first \in {"alloc", "setup"} : Begin(t, first)
      BY <1>1 DEF BeginRun
    <2> QED BY <2>1, BeginPreserves DEF IInv
  <1>2. CASE \/ Alloc(t) \/ Setup(t) \/ SetupFails(t) \/ ReadOnly(t) \/ ReadWrite(t) \/ OpFails(t)
             \/ LoopEnd(t) \/ Clean(t)
    <2>1. PICK to \in {"setup", "ready", "half", "loop", "end", "clean", "fini", "exited"} :
            /\ Goto(t, to)
            /\ pc[t] \in {"alloc", "setup"} => to \in {"setup", "ready", "end", "exited"}
            /\ pc[t] \in {"alloc", "setup", "loop", "half", "clean"}
      BY <1>2 DEF Alloc, Setup, SetupFails, ReadOnly, ReadWrite, OpFails, LoopEnd, Clean, Desert
    <2>2. UNCHANGED <<main, barrier>>
      BY <1>2 DEF Alloc, Setup, SetupFails, ReadOnly, ReadWrite, OpFails, LoopEnd, Clean, Desert
    <2>3. err' \in [Tids -> Errors]
      BY <1>2 DEF Alloc, Setup, SetupFails, ReadOnly, ReadWrite, OpFails, LoopEnd, Clean, Desert,
                  SetErr, IInv, TypeOK, MainTypeOK, Errors
    <2>4. /\ to \in PCs \ Waits /\ to # "unborn" /\ pc[t] \notin Waits \union {"unborn", "exited"}
          /\ pc[t] \in Idle => to \in Idle
      BY <2>1 DEF PCs, Waits, BeforeBarrier, Measured, Idle
    <2> QED BY <2>1, <2>2, <2>3, <2>4, LocalPreserves DEF IInv
  <1>3. CASE CallReadyBarrier(t) \/ CallEndBarrier(t) \/ FiniArrive(t)
    <2>1. PICK from \in {"ready", "end", "fini"}, to \in {"ready_wait", "end_wait", "fini_wait"} :
            ArriveAt(t, from, to) /\ (from = "fini" \/ to # "fini_wait")
      BY <1>3 DEF CallReadyBarrier, ReadyArrive, CallEndBarrier, EndArrive, FiniArrive
    <2>2. /\ from \in PCs \ Waits /\ from \notin {"unborn", "exited"} /\ to \in Waits
          /\ from \in Idle => to \in Idle
      BY <2>1 DEF PCs, Waits, BeforeBarrier, Measured, Idle
    <2> QED BY <2>1, <2>2, ArrivePreserves DEF IInv
  <1>4. CASE PassReadyBarrier(t) \/ PassEndBarrier(t) \/ FiniLeave(t)
    <2>1. PICK from \in Waits, to \in {"loop", "clean", "exited"} :
            pc[t] = from /\ B!Leave(t) /\ Goto(t, to) /\ UNCHANGED <<main, err>>
      BY <1>4 DEF PassReadyBarrier, ReadyLeave, PassEndBarrier, FiniLeave, EndLeaveStore, LeaveFrom,
                  Waits
    <2>2. to \in PCs \ Waits /\ to # "unborn"
      BY DEF PCs, Waits, BeforeBarrier, Measured
    <2> QED BY <2>1, <2>2, LeavePreserves DEF IInv
  <1>5. CASE DieCancelled(t)
    BY <1>5, DiePreserves DEF DieCancelled, IInv
  <1> QED BY <1>1, <1>2, <1>3, <1>4, <1>5 DEF Worker

(* ... then the types, ... *)
LEMMA TypeStep ==
  ASSUME IInv, HarnessInv', NEW t \in Tids, Worker(t) \/ DieCancelled(t)
  PROVE  TypeOK'
  <1> USE DEF IInv, TypeOK, HarnessInv, main, locals
  <1>1. Count' = Count /\ cfg' = cfg /\ report' = report
    BY DEF Worker, BeginRun, Begin, Alloc, Setup, SetupFails, ReadOnly, ReadWrite, OpFails, LoopEnd,
           Clean, CallReadyBarrier, ReadyArrive, PassReadyBarrier, ReadyLeave, CallEndBarrier,
           EndArrive, PassEndBarrier, EndLeaveStore, FiniArrive, FiniLeave, ArriveAt, LeaveFrom,
           DieCancelled, Die, Desert, Count
  <1>2. CASE \/ BeginRun(t) \/ Alloc(t) \/ LoopEnd(t) \/ CallReadyBarrier(t) \/ PassReadyBarrier(t)
             \/ CallEndBarrier(t) \/ PassEndBarrier(t) \/ FiniArrive(t) \/ FiniLeave(t)
             \/ DieCancelled(t)
    <2>1. UNCHANGED <<vm, step, addrs, perm, counter>>
      BY <1>2 DEF BeginRun, Begin, Alloc, LoopEnd, CallReadyBarrier, ReadyArrive, PassReadyBarrier,
                  ReadyLeave, CallEndBarrier, EndArrive, PassEndBarrier, EndLeaveStore, FiniArrive,
                  FiniLeave, ArriveAt, LeaveFrom, DieCancelled, Die, Desert
    <2>2. count' \in [Tids -> 0..MaxOps]
      BY <1>2 DEF BeginRun, Begin, Alloc, LoopEnd, CallReadyBarrier, ReadyArrive, PassReadyBarrier,
                  ReadyLeave, CallEndBarrier, EndArrive, PassEndBarrier, EndLeaveStore, FiniArrive,
                  FiniLeave, ArriveAt, LeaveFrom, DieCancelled, Die, Desert
    <2> QED BY <1>1, <2>1, <2>2
  <1>3. CASE Setup(t)
    <2>1. step[t] \in 0..(Count - 1) /\ step[t] \in 0..RegionSlots /\ step[t] \in 0..(NMaps - 1)
      BY <1>3, Bounds, PlatBounds DEF LoopInv, Setup
    <2>2. PICK a \in Slots : /\ Mmap(t, a) /\ perm' = [perm EXCEPT ![a] = "rw"]
                             /\ addrs' = [addrs EXCEPT ![t][step[t]] = a]
      BY <1>3, <2>1, RegionInSlots, PoolInSlots DEF Setup, FreePool
    <2>3. vm' \in [Slots -> Tids \union {NoOne}] /\ perm' \in [Slots -> {"rw", "ro"}]
      BY <2>2 DEF Mmap
    <2>4. addrs' \in [Tids -> [0..(NMaps - 1) -> Slots \union {NULL}]]
      BY <2>1, <2>2
    <2>5. step' \in [Tids -> 0..Count]
      BY <1>3, <2>1, Bounds DEF Setup
    <2> QED BY <1>1, <1>3, <2>3, <2>4, <2>5 DEF Setup
  <1>4. CASE SetupFails(t) \/ OpFails(t)
    <2>1. vm' \in [Slots -> Tids \union {NoOne}]
      BY <1>4 DEF SetupFails, OpFails, Munmap
    <2>2. 0 \in 0..Count
      BY Bounds
    <2>3. step' \in [Tids -> 0..Count]
      BY <1>4, <2>2 DEF SetupFails, OpFails
    <2> QED BY <1>1, <1>4, <2>1, <2>3 DEF SetupFails, OpFails, Desert
  <1>5. CASE ReadOnly(t) \/ ReadWrite(t)
    <2>1. perm' \in [Slots -> {"rw", "ro"}]
      BY <1>5 DEF ReadOnly, ReadWrite, Mprotect
    <2>2. counter' \in [Tids -> 0..MaxOps]
      <3>1. pc[t] = "half" => counter[t] + 1 \in 0..MaxOps
        BY Ranges, Bounds DEF LoopInv, More
      <3> QED BY <1>5, <3>1 DEF ReadOnly, ReadWrite
    <2> QED BY <1>1, <1>5, <2>1, <2>2 DEF ReadOnly, ReadWrite
  <1>6. CASE Clean(t)
    <2>1. step[t] + 1 \in 0..Count
      BY <1>6, Bounds DEF LoopInv, Clean
    <2>2. step' \in [Tids -> 0..Count]
      BY <1>6, <2>1 DEF Clean
    <2>3. vm' \in [Slots -> Tids \union {NoOne}]
      BY <1>6 DEF Clean, Munmap
    <2> QED BY <1>1, <1>6, <2>2, <2>3 DEF Clean
  <1> QED BY <1>2, <1>3, <1>4, <1>5, <1>6 DEF Worker

(* ... and what is common to all of them: who else takes no part in it. *)
StepOf(t) ==
  /\ UNCHANGED <<main, cfg>>
  /\ \A u \in Tids \ {t} : /\ pc'[u] = pc[u] /\ err'[u] = err[u] /\ addrs'[u] = addrs[u]
                           /\ step'[u] = step[u] /\ counter'[u] = counter[u]

LEMMA EveryStepOf == ASSUME IInv, NEW t \in Tids, Worker(t) \/ DieCancelled(t) PROVE StepOf(t)
  <1> USE DEF IInv, TypeOK, MainTypeOK, locals, Goto, SetErr, Desert, StepOf
  <1>1. CASE BeginRun(t) \/ Alloc(t) \/ Setup(t) \/ SetupFails(t) \/ DieCancelled(t)
    BY <1>1 DEF BeginRun, Begin, Alloc, Setup, SetupFails, DieCancelled, Die, main
  <1>2. CASE ReadOnly(t) \/ ReadWrite(t) \/ OpFails(t) \/ LoopEnd(t) \/ Clean(t)
    BY <1>2 DEF ReadOnly, ReadWrite, OpFails, LoopEnd, Clean, main
  <1>3. CASE \/ CallReadyBarrier(t) \/ PassReadyBarrier(t) \/ CallEndBarrier(t)
             \/ PassEndBarrier(t) \/ FiniArrive(t) \/ FiniLeave(t)
    BY <1>3 DEF CallReadyBarrier, ReadyArrive, PassReadyBarrier, ReadyLeave, CallEndBarrier,
                EndArrive, PassEndBarrier, EndLeaveStore, FiniArrive, FiniLeave, ArriveAt,
                LeaveFrom, main
  <1> QED BY <1>1, <1>2, <1>3 DEF Worker

LEMMA LoopStep ==
  ASSUME IInv, NEW t \in Tids, Worker(t) \/ DieCancelled(t)
  PROVE  LoopInv'
  <1>1. StepOf(t) /\ Count' = Count
    BY EveryStepOf DEF StepOf, Count
  <1>2. ASSUME NEW u \in Tids \ {t} PROVE More(u)' <=> More(u)
    BY <1>1 DEF StepOf, More, OpsLimit
  <1>3. /\ pc'[t] \in {"setup", "clean"} => step'[t] < Count
        /\ pc'[t] \notin {"setup", "clean", "fini", "fini_wait", "exited"} => step'[t] = 0
        /\ pc'[t] = "half" => More(t)'
    <2> USE DEF IInv, TypeOK, MainTypeOK, LoopInv, locals, Goto, Desert
    <2>1. CASE BeginRun(t) \/ Alloc(t) \/ DieCancelled(t)
      <3>1. /\ pc'[t] \in {"alloc", "setup", "wild", "exited"}
            /\ pc'[t] # "exited" => step[t] = 0
            /\ UNCHANGED step
        BY <2>1 DEF BeginRun, Begin, Alloc, DieCancelled, Die
      <3> QED BY <3>1, <1>1, Bounds
    <2>2. CASE SetupFails(t) \/ OpFails(t) \/ LoopEnd(t)
      BY <2>2, Bounds DEF SetupFails, OpFails, LoopEnd
    <2>3. CASE ReadOnly(t) \/ ReadWrite(t)
      BY <2>3, <1>1 DEF ReadOnly, ReadWrite, More, OpsLimit
    <2>4. CASE Setup(t)
      BY <2>4, Bounds DEF Setup
    <2>5. CASE Clean(t)
      BY <2>5, Bounds DEF Clean
    <2>6. CASE \/ CallReadyBarrier(t) \/ PassReadyBarrier(t) \/ CallEndBarrier(t)
               \/ PassEndBarrier(t) \/ FiniArrive(t) \/ FiniLeave(t)
      BY <2>6, Bounds DEF CallReadyBarrier, ReadyArrive, PassReadyBarrier, ReadyLeave,
                CallEndBarrier, EndArrive, PassEndBarrier, EndLeaveStore, FiniArrive, FiniLeave,
                ArriveAt, LeaveFrom
    <2> QED BY <2>1, <2>2, <2>3, <2>4, <2>5, <2>6 DEF Worker
  <1>4. ASSUME NEW u \in Tids \ {t}
        PROVE  /\ pc'[u] \in {"setup", "clean"} => step'[u] < Count
               /\ pc'[u] \notin {"setup", "clean", "fini", "fini_wait", "exited"} => step'[u] = 0
               /\ pc'[u] = "half" => More(u)'
    BY <1>1, <1>2, <1>4 DEF StepOf, IInv, LoopInv
  <1> QED BY <1>1, <1>3, <1>4 DEF LoopInv

LEMMA NextIInv == IInv /\ [Next]_vars => IInv'
  <1> SUFFICES ASSUME IInv, [Next]_vars PROVE IInv'
    OBVIOUS
  <1>1. ASSUME NEW t \in Tids, Worker(t) \/ DieCancelled(t) PROVE IInv'
    BY <1>1, HarnessStep, TypeStep, LoopStep DEF IInv
  <1>2. CASE UNCHANGED vars
    <2>1. HarnessInv'
      BY <1>2, QuietPreserves DEF IInv, vars, harness
    <2>2. TypeOK' /\ LoopInv'
      BY <1>2, <2>1 DEF IInv, TypeOK, HarnessInv, LoopInv, vars, harness, main, More, OpsLimit, Count
    <2> QED BY <2>1, <2>2 DEF IInv
  <1> QED BY <1>1, <1>2, MainStepIInv DEF Next

LEMMA SpecIInv == Spec => []IInv
  BY InitIInv, NextIInv, PTL DEF Spec
------------------------------------------------------------------------------
(* The mappings: RegionInv and PageInv. *)

LEMMA InitDInv == Init => DInv
  <1> SUFFICES ASSUME Init PROVE DInv
    OBVIOUS
  <1>1. CancelInv /\ \A t \in Tids : pc[t] = "unborn"
    BY PlatBounds DEF Init, HarnessInit, CancelInv
  <1>2. (\A a \in Slots : vm[a] = NoOne) /\ \A t \in Tids, k \in Entries : addrs[t][k] = NULL
    BY Bounds DEF Init, Entries
  <1> QED BY <1>1, <1>2, PoolInSlots
          DEF DInv, RegionInv, PageInv, Filled, Owned, Live, Accounted, AtReadOnly

(* No mapping of another worker is replaced, removed or protected. *)
KeepsOthers(t) ==
  \A a \in Slots :
    /\ vm'[a] = vm[a] \/ (vm[a] \in {t, NoOne} /\ vm'[a] \in {t, NoOne})
    /\ perm'[a] = perm[a] \/ vm'[a] = t

(* An error stays, and a failing step ends the time without errors. *)
LEMMA ErrorsStay ==
  ASSUME IInv, NEW t \in Tids, Worker(t) \/ DieCancelled(t)
  PROVE  /\ NoErrors' => NoErrors
         /\ err'[t] = "none" => err[t] = "none"
  <1>1. StepOf(t)
    BY EveryStepOf
  <1>2. err'[t] = "none" => err[t] = "none"
    BY DEF Worker, BeginRun, Begin, Alloc, Setup, SetupFails, ReadOnly, ReadWrite, OpFails, LoopEnd,
           Clean, CallReadyBarrier, ReadyArrive, PassReadyBarrier, ReadyLeave, CallEndBarrier,
           EndArrive, PassEndBarrier, EndLeaveStore, FiniArrive, FiniLeave, ArriveAt, LeaveFrom,
           DieCancelled, Die, Desert, SetErr, IInv, TypeOK, MainTypeOK
  <1> QED BY <1>1, <1>2 DEF StepOf, NoErrors, main

LEMMA FailNoted ==
  ASSUME IInv, NEW t \in Tids, NEW e \in {"calloc", "setup", "op", "cleanup"}, SetErr(t, e)
  PROVE  err'[t] # "none" /\ ~NoErrors'
  <1>1. err'[t] # "none"
    BY DEF SetErr, IInv, TypeOK, MainTypeOK
  <1> QED BY <1>1 DEF NoErrors

LEMMA OthersKeep ==
  ASSUME IInv, DInv, NEW t \in Tids, StepOf(t), KeepsOthers(t), NoErrors' => NoErrors,
         NEW u \in Tids \ {t}
  PROVE  PageInv(u)'
  <1>1. /\ pc'[u] = pc[u] /\ addrs'[u] = addrs[u] /\ step'[u] = step[u] /\ err'[u] = err[u]
        /\ counter'[u] = counter[u] /\ cfg' = cfg /\ Count' = Count /\ Entries' = Entries
    BY DEF StepOf, Count, Entries
  <1>2. /\ \A k : Live(u, k)' <=> Live(u, k)
        /\ Holding(u)' <=> Holding(u)
        /\ Page(u)' = Page(u)
    BY <1>1 DEF Live, Holding, Page
  <1>3. PageInv(u) /\ u # NoOne
    BY PoolInSlots DEF DInv
  <1>4. \A a \in Slots : vm'[a] = u <=> vm[a] = u
    BY <1>3 DEF KeepsOthers
  <1>5. Filled(u)'
    BY <1>1, <1>3 DEF PageInv, Filled
  <1>6. Owned(u)'
    <2>1. \A k \in Entries : Live(u, k) => addrs[u][k] \in Slots
      BY Ranges DEF Live, IInv
    <2> QED BY <1>1, <1>2, <1>3, <1>4, <2>1 DEF PageInv, Owned
  <1>7. AtReadOnly(u)'
    <2>1. \A a \in Slots : vm'[a] = u => perm'[a] = perm[a]
      BY DEF KeepsOthers
    <2> QED BY <1>1, <1>2, <1>3, <1>4, <2>1 DEF PageInv, AtReadOnly
  <1>8. cfg'.map4k /\ NoErrors' => Accounted(u)'
    BY <1>1, <1>2, <1>3, <1>4 DEF PageInv, Accounted
  <1> QED BY <1>5, <1>6, <1>7, <1>8 DEF PageInv

(* The steps that only move the worker on. *)
LEMMA StillStep ==
  ASSUME IInv, DInv, NEW t \in Tids,
         \/ BeginRun(t) \/ Alloc(t) \/ SetupFails(t) \/ LoopEnd(t) \/ CallReadyBarrier(t)
         \/ PassReadyBarrier(t) \/ CallEndBarrier(t) \/ PassEndBarrier(t) \/ FiniArrive(t)
         \/ FiniLeave(t) \/ DieCancelled(t)
  PROVE  RegionInv' /\ PageInv(t)' /\ KeepsOthers(t)
  <1>1. StepOf(t) /\ (NoErrors' => NoErrors) /\ (err'[t] = "none" => err[t] = "none")
    BY EveryStepOf, ErrorsStay DEF Worker
  <1>2. UNCHANGED <<vm, addrs, perm, cfg>> /\ Count' = Count /\ Entries' = Entries
    BY DEF BeginRun, Alloc, SetupFails, LoopEnd, CallReadyBarrier, PassReadyBarrier, CallEndBarrier,
           PassEndBarrier, FiniArrive, FiniLeave, DieCancelled, locals, Count, Entries
  <1>3. KeepsOthers(t) /\ RegionInv'
    BY <1>2 DEF KeepsOthers, DInv, RegionInv, Region, RegionBase
  <1>4. Filled(t) /\ Owned(t) /\ AtReadOnly(t) /\ (cfg.map4k /\ NoErrors => Accounted(t))
    BY DEF DInv, PageInv
  <1>5. /\ pc[t] \notin {"half", "clean"} /\ pc'[t] # "half"
        /\ pc'[t] \in {"unborn", "spawned", "alloc", "setup"} =>
             pc[t] \in {"spawned", "alloc"} /\ step'[t] = 0 /\ step[t] = 0
        /\ pc'[t] \in {"ready", "ready_wait", "loop"} => pc[t] \in {"ready", "ready_wait"}
        /\ Holding(t)' => Holding(t)
        /\ pc'[t] = "clean" => step'[t] = 0
        /\ cfg.map4k /\ NoErrors' /\ ~Holding(t)' =>
             pc[t] = "spawned" \/ ~Holding(t)
    <2> USE DEF IInv, TypeOK, MainTypeOK, LoopInv, Goto, Holding, locals
    <2>1. CASE BeginRun(t)
      BY <2>1 DEF BeginRun, Begin
    <2>2. CASE Alloc(t) \/ SetupFails(t)
      <3>1. Alloc(t) /\ pc'[t] = "exited" => ~NoErrors'
        BY FailNoted DEF Alloc, Desert
      <3>2. SetupFails(t) => ~NoErrors'
        BY FailNoted DEF SetupFails, Desert
      <3> QED BY <2>2, <3>1, <3>2 DEF Alloc, SetupFails, Desert
    <2>3. CASE LoopEnd(t)
      BY <2>3 DEF LoopEnd
    <2>4. CASE CallReadyBarrier(t) \/ PassReadyBarrier(t) \/ CallEndBarrier(t)
      BY <2>4 DEF CallReadyBarrier, ReadyArrive, PassReadyBarrier, ReadyLeave, CallEndBarrier,
                  EndArrive, ArriveAt, LeaveFrom
    <2>5. CASE PassEndBarrier(t) \/ FiniArrive(t) \/ FiniLeave(t)
      BY <2>5 DEF PassEndBarrier, EndLeaveStore, FiniArrive, FiniLeave, ArriveAt, LeaveFrom
    <2>6. CASE DieCancelled(t)
      BY <2>6 DEF DieCancelled, Die, NoErrors, main
    <2> QED BY <2>1, <2>2, <2>3, <2>4, <2>5, <2>6
  <1>6. \A k \in Entries : k >= 0 /\ ~(k < 0)
    BY Bounds DEF Entries
  <1>7. \A k \in Entries : Live(t, k)' <=> Live(t, k)
    BY <1>2, <1>5, <1>6 DEF Live
  <1>8. Filled(t)'
    BY <1>2, <1>4, <1>5, <1>6 DEF Filled
  <1>9. Owned(t)'
    BY <1>2, <1>4, <1>5, <1>7 DEF Owned
  <1>10. AtReadOnly(t)'
    BY <1>1, <1>2, <1>4, <1>5 DEF AtReadOnly
  <1>11. ASSUME cfg.map4k, NoErrors' PROVE Accounted(t)'
    <2>1. Accounted(t)
      BY <1>1, <1>4, <1>11
    <2>2. pc[t] = "spawned" => \A k \in Entries : ~Live(t, k)
      BY <1>4, <1>6 DEF Filled, Live, IInv, LoopInv
    <2> QED BY <1>2, <1>5, <1>7, <1>11, <2>1, <2>2 DEF Accounted
  <1> QED BY <1>2, <1>3, <1>8, <1>9, <1>10, <1>11 DEF PageInv

LEMMA SetupStep ==
  ASSUME IInv, DInv, NEW t \in Tids, Setup(t)
  PROVE  RegionInv' /\ PageInv(t)' /\ KeepsOthers(t)
  <1> DEFINE s == step[t]
  <1>1. /\ StepOf(t) /\ (NoErrors' => NoErrors) /\ (err'[t] = "none" => err[t] = "none")
        /\ UNCHANGED cfg /\ Count' = Count /\ Entries' = Entries
    BY EveryStepOf, ErrorsStay DEF Worker, StepOf, Count, Entries
  <1>2. /\ pc[t] = "setup" /\ s \in Entries
        /\ \/ pc'[t] = "setup" /\ step'[t] = s + 1
           \/ pc'[t] = "ready" /\ s + 1 = Count
    <2>1. s \in Entries /\ pc[t] = "setup"
      BY Bounds DEF Setup, IInv, TypeOK, LoopInv, Entries
    <2> QED BY <2>1 DEF Setup, Goto, IInv, TypeOK, MainTypeOK
  <1>3. /\ Filled(t) /\ Owned(t) /\ AtReadOnly(t) /\ (cfg.map4k /\ NoErrors => Accounted(t))
        /\ RegionInv
    BY DEF DInv, PageInv
  <1>4. PICK a \in (IF cfg.isolated THEN {RegionBase(t) + s} ELSE FreePool) :
          /\ Mmap(t, a)
          /\ perm' = [perm EXCEPT ![a] = "rw"]
          /\ addrs' = [addrs EXCEPT ![t][s] = a]
    BY DEF Setup
  <1>5. /\ RegionBase(t) + s \in Region(t) /\ RegionBase(t) + s \in Slots
        /\ \A l \in Entries : RegionBase(t) + s = RegionBase(t) + l => s = l
    BY <1>2, InRegion, Ranges DEF IInv
  <1>6. a \in Slots /\ a # NULL /\ (cfg.isolated => a = RegionBase(t) + s)
    BY <1>4, <1>5, PoolInSlots DEF FreePool
  <1>7. vm[a] \in {t, NoOne} /\ (~cfg.isolated => vm[a] = NoOne)
    <2>1. CASE cfg.isolated
      <3> SUFFICES ASSUME vm[a] # NoOne PROVE vm[a] = t
        BY <2>1
      <3> DEFINE u == vm[a]
      <3>1. u \in Tids /\ a \in Region(u) /\ a \in Region(t)
        BY <1>3, <1>5, <1>6, <2>1 DEF RegionInv, IInv, TypeOK
      <3> HIDE DEF u
      <3>2. u = t
        BY <3>1, RegionsDisjoint
      <3> QED BY <3>2 DEF u
    <2>2. CASE ~cfg.isolated
      BY <1>4, <2>2 DEF FreePool
    <2> QED BY <2>1, <2>2
  <1>8. \A b \in Slots : /\ vm'[b] = IF b = a THEN t ELSE vm[b]
                         /\ perm'[b] = IF b = a THEN "rw" ELSE perm[b]
    BY <1>4, <1>6 DEF Mmap, IInv, TypeOK
  <1>9. /\ \A k \in Entries : addrs'[t][k] = IF k = s THEN a ELSE addrs[t][k]
        /\ \A u \in Tids \ {t} : addrs'[u] = addrs[u]
    <2>1. addrs \in [Tids -> [0..(NMaps - 1) -> Slots \union {NULL}]] /\ s \in 0..(NMaps - 1)
          /\ Entries \subseteq 0..(NMaps - 1)
      BY <1>2, Ranges DEF IInv, TypeOK
    <2> QED BY <1>4, <2>1
  <1>10. KeepsOthers(t)
    BY <1>7, <1>8 DEF KeepsOthers
  <1>11. RegionInv'
    <2> SUFFICES ASSUME cfg.isolated
                 PROVE  /\ \A b \in Slots : vm'[b] # NoOne => b \in Region(vm'[b])
                        /\ \A u \in Tids, k \in Entries : addrs'[u][k] \in {NULL, RegionBase(u) + k}
      BY <1>1 DEF RegionInv, Region, RegionBase
    <2>1. \A b \in Slots : vm'[b] # NoOne => b \in Region(vm'[b])
      BY <1>3, <1>5, <1>6, <1>8 DEF RegionInv
    <2>2. \A u \in Tids, k \in Entries : addrs'[u][k] \in {NULL, RegionBase(u) + k}
      BY <1>3, <1>6, <1>9 DEF RegionInv
    <2> QED BY <2>1, <2>2
  <1>12. \A k \in Entries : /\ k < s => addrs[t][k] # NULL
                            /\ k >= s => addrs[t][k] = NULL
    BY <1>2, <1>3 DEF Filled
  <1>13. Filled(t)'
    <2>1. \A k \in Entries : /\ k < s + 1 => k < s \/ k = s
                             /\ k >= s + 1 => k >= s /\ k # s
      BY <1>2, Bounds DEF Entries
    <2>2. \A k \in Entries : k < Count
      BY Bounds DEF Entries
    <2>3. CASE pc'[t] = "setup" /\ step'[t] = s + 1
      BY <1>1, <1>6, <1>9, <1>12, <2>1, <2>3 DEF Filled
    <2>4. CASE pc'[t] = "ready" /\ s + 1 = Count
      BY <1>1, <1>6, <1>9, <1>12, <2>1, <2>2, <2>4 DEF Filled
    <2> QED BY <1>2, <2>3, <2>4
  <1>14. Holding(t) /\ Holding(t)' /\ \A k \in Entries : /\ Live(t, k) <=> addrs[t][k] # NULL
                                                         /\ Live(t, k)' <=> addrs'[t][k] # NULL
    BY <1>2 DEF Holding, Live
  <1>15. Owned(t)'
    <2>1. ASSUME NEW k \in Entries, addrs[t][k] # NULL
          PROVE  /\ k # s /\ addrs[t][k] \in Slots /\ vm[addrs[t][k]] = t /\ addrs[t][k] # a
                 /\ \A l \in Entries : addrs[t][l] # NULL /\ addrs[t][l] = addrs[t][k] => l = k
      <3>1. /\ vm[addrs[t][k]] = t /\ addrs[t][k] \in Slots
            /\ \A l \in Entries : addrs[t][l] # NULL /\ addrs[t][l] = addrs[t][k] => l = k
        BY <1>3, <1>14, <2>1, Ranges DEF Owned, IInv
      <3>2. k # s
        BY <1>2, <1>12, <2>1, Bounds DEF Entries
      <3>3. addrs[t][k] # a
        <4>1. CASE cfg.isolated
          <5>1. addrs[t][k] = RegionBase(t) + k
            BY <1>3, <2>1, <4>1 DEF RegionInv
          <5> QED BY <1>5, <1>6, <3>2, <4>1, <5>1
        <4>2. CASE ~cfg.isolated
          BY <1>7, <3>1, <4>2, PoolInSlots
        <4> QED BY <4>1, <4>2
      <3> QED BY <3>1, <3>2, <3>3
    <2> SUFFICES ASSUME NEW k \in Entries, addrs'[t][k] # NULL
                 PROVE  /\ vm'[addrs'[t][k]] = t
                        /\ \A l \in Entries : addrs'[t][l] # NULL /\ addrs'[t][l] = addrs'[t][k]
                                                => l = k
      BY <1>1, <1>14 DEF Owned
    <2>2. CASE k = s
      BY <1>6, <1>8, <1>9, <2>1, <2>2
    <2>3. CASE k # s
      <3>1. addrs'[t][k] = addrs[t][k] /\ addrs[t][k] # NULL
        BY <1>9, <2>3
      <3> QED BY <1>8, <1>9, <2>1, <2>3, <3>1
    <2> QED BY <2>2, <2>3
  <1>16. AtReadOnly(t)'
    <2> SUFFICES ASSUME err'[t] = "none", NEW b \in Slots, vm'[b] = t, perm'[b] = "ro" PROVE FALSE
      BY DEF AtReadOnly
    <2>1. b # a /\ vm[b] = t /\ perm[b] = "ro"
      BY <1>8
    <2> QED BY <1>1, <1>2, <1>3, <2>1 DEF AtReadOnly
  <1>17. ASSUME cfg.map4k, NoErrors' PROVE Accounted(t)'
    <2> SUFFICES ASSUME NEW b \in Slots, vm'[b] = t
                 PROVE  \E k \in Entries : addrs'[t][k] # NULL /\ addrs'[t][k] = b
      BY <1>1, <1>14 DEF Accounted
    <2>1. CASE b = a
      BY <1>2, <1>6, <1>9, <2>1
    <2>2. CASE b # a
      <3>1. PICK k \in Entries : addrs[t][k] # NULL /\ addrs[t][k] = b
        BY <1>1, <1>3, <1>8, <1>14, <1>17, <2>2 DEF Accounted
      <3>2. k # s
        BY <1>2, <1>12, <3>1, Bounds DEF Entries
      <3> QED BY <1>9, <3>1, <3>2
    <2> QED BY <2>1, <2>2
  <1> QED BY <1>1, <1>10, <1>11, <1>13, <1>15, <1>16, <1>17 DEF PageInv

(* The page of an operation. *)
LEMMA PageOwn ==
  ASSUME IInv, DInv, NEW t \in Tids, pc[t] \in {"loop", "half"}
  PROVE  Page(t) \in Slots /\ vm[Page(t)] = t
  <1> DEFINE k == (t + counter[t]) % Count
  <1>1. k \in Entries /\ addrs[t][k] \in Slots \union {NULL}
    BY Ranges DEF IInv
  <1>2. addrs[t][k] # NULL
    BY <1>1 DEF DInv, PageInv, Filled
  <1>3. Holding(t) /\ Live(t, k)
    BY <1>2 DEF Holding, Live
  <1>4. vm[addrs[t][k]] = t
    BY <1>1, <1>3 DEF DInv, PageInv, Owned
  <1> QED BY <1>1, <1>2, <1>4 DEF Page

LEMMA ProtectStep ==
  ASSUME IInv, DInv, NEW t \in Tids, ReadOnly(t) \/ ReadWrite(t)
  PROVE  RegionInv' /\ PageInv(t)' /\ KeepsOthers(t)
  <1>1. /\ StepOf(t) /\ (NoErrors' => NoErrors) /\ (err'[t] = "none" => err[t] = "none")
        /\ Count' = Count /\ Entries' = Entries
    BY EveryStepOf, ErrorsStay DEF Worker, StepOf, Count, Entries
  <1>2. /\ UNCHANGED <<vm, addrs, step, cfg>> /\ pc[t] \in {"loop", "half"} /\ pc'[t] \in {"loop", "half"}
        /\ pc \in [Tids -> PCs] /\ perm \in [Slots -> {"rw", "ro"}]
    BY DEF ReadOnly, ReadWrite, Goto, IInv, TypeOK, MainTypeOK
  <1>3. Page(t) \in Slots /\ vm[Page(t)] = t
    BY <1>2, PageOwn
  <1>4. PICK p \in {"ro", "rw"} : /\ perm' = [perm EXCEPT ![Page(t)] = p]
                                  /\ p = "ro" => pc'[t] = "half" /\ pc[t] = "loop" /\ UNCHANGED counter
                                  /\ p = "rw" => pc[t] = "half"
    BY <1>2 DEF ReadOnly, ReadWrite, Mprotect, Goto
  <1>5. \A b \in Slots : perm'[b] = IF b = Page(t) THEN p ELSE perm[b]
    BY <1>2, <1>3, <1>4
  <1>6. KeepsOthers(t)
    BY <1>2, <1>3, <1>5 DEF KeepsOthers
  <1>7. RegionInv'
    BY <1>1, <1>2 DEF DInv, RegionInv, Region, RegionBase
  <1>8. Filled(t) /\ Owned(t) /\ AtReadOnly(t) /\ (cfg.map4k /\ NoErrors => Accounted(t))
    BY DEF DInv, PageInv
  <1>9. Holding(t) /\ Holding(t)' /\ \A k \in Entries : /\ Live(t, k) <=> addrs[t][k] # NULL
                                                        /\ Live(t, k)' <=> addrs[t][k] # NULL
    BY <1>2 DEF Holding, Live
  <1>10. Filled(t)' /\ Owned(t)'
    BY <1>1, <1>2, <1>8, <1>9 DEF Filled, Owned
  <1>11. AtReadOnly(t)'
    <2> SUFFICES ASSUME err'[t] = "none", NEW b \in Slots, vm[b] = t, perm'[b] = "ro"
                 PROVE  pc'[t] = "half" /\ b = Page(t)'
      BY <1>2 DEF AtReadOnly
    <2>1. CASE p = "ro"
      <3>1. Page(t)' = Page(t)
        BY <1>1, <1>2, <1>4, <2>1 DEF Page
      <3>2. perm[b] = "ro" => FALSE
        BY <1>1, <1>4, <1>8, <2>1 DEF AtReadOnly
      <3> QED BY <1>4, <1>5, <2>1, <3>1, <3>2
    <2>2. CASE p = "rw"
      BY <1>1, <1>5, <1>8, <2>2 DEF AtReadOnly
    <2> QED BY <2>1, <2>2
  <1>12. cfg'.map4k /\ NoErrors' => Accounted(t)'
    BY <1>1, <1>2, <1>8, <1>9 DEF Accounted
  <1> QED BY <1>6, <1>7, <1>10, <1>11, <1>12 DEF PageInv

LEMMA OpFailsStep ==
  ASSUME IInv, DInv, NEW t \in Tids, OpFails(t)
  PROVE  RegionInv' /\ PageInv(t)' /\ KeepsOthers(t)
  <1>1. /\ StepOf(t) /\ Count' = Count /\ Entries' = Entries
        /\ UNCHANGED <<cfg, step, addrs, perm>>
    BY EveryStepOf DEF Worker, StepOf, Count, Entries, OpFails
  <1>2. err'[t] # "none" /\ ~NoErrors'
    BY FailNoted DEF OpFails, Desert
  <1>3. pc[t] \in {"loop", "half"} /\ Page(t) \in Slots /\ vm[Page(t)] = t
    BY PageOwn DEF OpFails
  <1>4. /\ vm \in [Slots -> Tids \union {NoOne}]
        /\ \/ pc'[t] = "end" /\ UNCHANGED vm
           \/ pc'[t] = "exited" /\ (Munmap(Page(t)) \/ UNCHANGED vm)
    BY DEF OpFails, Desert, Goto, IInv, TypeOK, MainTypeOK
  <1>5. \A b \in Slots : vm'[b] = vm[b] \/ (vm[b] = t /\ vm'[b] = NoOne)
    BY <1>3, <1>4 DEF Munmap
  <1>6. KeepsOthers(t)
    BY <1>1, <1>5 DEF KeepsOthers
  <1>7. RegionInv'
    BY <1>1, <1>5 DEF DInv, RegionInv, Region, RegionBase
  <1>8. Filled(t)'
    BY <1>4 DEF Filled
  <1>9. Owned(t)'
    <2>1. CASE pc'[t] = "end" /\ UNCHANGED vm
      BY <1>1, <1>3, <2>1 DEF DInv, PageInv, Owned, Holding, Live
    <2>2. CASE pc'[t] = "exited"
      BY <2>2 DEF Owned, Holding
    <2> QED BY <1>4, <2>1, <2>2
  <1> QED BY <1>2, <1>6, <1>7, <1>8, <1>9 DEF PageInv, AtReadOnly

LEMMA CleanStep ==
  ASSUME IInv, DInv, NEW t \in Tids, Clean(t)
  PROVE  RegionInv' /\ PageInv(t)' /\ KeepsOthers(t)
  <1> DEFINE s == step[t]
             x == addrs[t][s]
  <1>1. /\ StepOf(t) /\ (NoErrors' => NoErrors) /\ (err'[t] = "none" => err[t] = "none")
        /\ UNCHANGED <<cfg, addrs, perm>> /\ Count' = Count /\ Entries' = Entries
    BY EveryStepOf, ErrorsStay DEF Worker, StepOf, Count, Entries, Clean
  <1>2. /\ pc[t] = "clean" /\ s \in Entries /\ step'[t] = s + 1
        /\ pc'[t] = "clean" \/ (pc'[t] = "fini" /\ s + 1 = Count)
    <2>1. s \in Entries /\ pc[t] = "clean"
      BY Bounds DEF Clean, IInv, TypeOK, LoopInv, Entries
    <2> QED BY <2>1 DEF Clean, Goto, IInv, TypeOK, MainTypeOK
  <1>3. x \in Slots \union {NULL} /\ vm \in [Slots -> Tids \union {NoOne}]
    BY <1>2, Ranges DEF IInv, TypeOK
  <1>4. /\ Filled(t) /\ Owned(t) /\ AtReadOnly(t) /\ (cfg.map4k /\ NoErrors => Accounted(t))
        /\ RegionInv
    BY DEF DInv, PageInv
  <1>5. x # NULL => vm[x] = t /\ \A l \in Entries : Live(t, l) /\ addrs[t][l] = x => l = s
    <2>1. x # NULL => Live(t, s) /\ Holding(t)
      BY <1>2, Bounds DEF Live, Holding, Entries
    <2> QED BY <1>2, <1>4, <2>1 DEF Owned
  <1>6. \/ Munmap(x) /\ x # NULL /\ UNCHANGED err
        \/ UNCHANGED vm /\ (x = NULL \/ ~NoErrors')
    BY FailNoted DEF Clean
  <1>7. \A b \in Slots : vm'[b] = vm[b] \/ (b = x /\ x # NULL /\ vm[b] = t /\ vm'[b] = NoOne)
    BY <1>3, <1>5, <1>6 DEF Munmap
  <1>8. KeepsOthers(t)
    BY <1>1, <1>7 DEF KeepsOthers
  <1>9. RegionInv'
    BY <1>1, <1>4, <1>7 DEF RegionInv, Region, RegionBase
  <1>10. Filled(t)'
    BY <1>2 DEF Filled
  <1>11. \A k \in Entries : k < s + 1 <=> k < s \/ k = s
    BY <1>2, Bounds DEF Entries
  <1>12. \A k \in Entries : Holding(t)' =>
           /\ Live(t, k)' => Live(t, k) /\ k # s
           /\ Live(t, k) /\ k # s => Live(t, k)'
    BY <1>1, <1>2, <1>11 DEF Live, Holding
  <1>13. Owned(t)'
    <2> SUFFICES ASSUME Holding(t)', NEW k \in Entries, Live(t, k)'
                 PROVE  /\ vm'[addrs[t][k]] = t
                        /\ \A l \in Entries : Live(t, l)' /\ addrs[t][l] = addrs[t][k] => l = k
      BY <1>1 DEF Owned
    <2>1. Live(t, k) /\ k # s /\ Holding(t)
      BY <1>2, <1>12 DEF Holding
    <2>2. /\ vm[addrs[t][k]] = t
          /\ \A l \in Entries : Live(t, l) /\ addrs[t][l] = addrs[t][k] => l = k
      BY <1>4, <2>1 DEF Owned
    <2>3. addrs[t][k] \in Slots /\ ~(x # NULL /\ addrs[t][k] = x)
      BY <1>5, <2>1, Ranges DEF Live, IInv
    <2> QED BY <1>7, <1>12, <2>2, <2>3
  <1>14. AtReadOnly(t)'
    BY <1>1, <1>2, <1>4, <1>7, PoolInSlots DEF AtReadOnly
  <1>15. ASSUME cfg.map4k, NoErrors' PROVE Accounted(t)'
    <2> SUFFICES ASSUME NEW b \in Slots, vm'[b] = t
                 PROVE  Holding(t)' /\ \E k \in Entries : Live(t, k)' /\ addrs[t][k] = b
      BY <1>1 DEF Accounted
    <2>1. vm[b] = t
      BY <1>7, PoolInSlots
    <2>2. PICK k \in Entries : Live(t, k) /\ addrs[t][k] = b
      BY <1>1, <1>4, <1>15, <2>1 DEF Accounted
    <2>3. k # s
      <3>1. x # NULL => vm'[x] = NoOne
        BY <1>3, <1>6, <1>15 DEF Munmap
      <3> QED BY <2>2, <3>1, PoolInSlots DEF Live
    <2>4. ~(k < s)
      BY <1>2, <2>2 DEF Live
    <2>5. s + 1 # Count
      BY <1>2, <2>3, <2>4, Bounds DEF Entries
    <2>6. Holding(t)'
      BY <1>2, <2>5 DEF Holding
    <2> QED BY <1>12, <2>2, <2>3, <2>6
  <1> QED BY <1>1, <1>8, <1>9, <1>10, <1>13, <1>14, <1>15 DEF PageInv

------------------------------------------------------------------------------
LEMMA MainDInv == ASSUME IInv, DInv, MainStep PROVE DInv'
  <1>1. /\ UNCHANGED <<cfg, vm, step, addrs, perm, err, counter>>
        /\ \A t \in Tids : pc'[t] = pc[t] \/ (pc[t] = "unborn" /\ pc'[t] = "spawned")
    BY MainShape DEF MainStep, locals, IInv
  <1>2. CancelInv' /\ (NoErrors' => NoErrors)
    <2>1. cancelled' = {} => cancelled = {}
      BY DEF MainStep, Main, BarrierInit, StartThread, AllStarted, StartFails, CancelThread,
             AllCancelled, JoinThread, AllJoined, PrintCsv, CleanupArgs
    <2> QED BY <1>1, <2>1, MainCancel DEF IInv, DInv, MainStep, NoErrors
  <1>3. RegionInv' /\ Entries' = Entries
    BY <1>1 DEF DInv, RegionInv, Region, RegionBase, Entries, Count
  <1>4. ASSUME NEW t \in Tids PROVE PageInv(t)'
    <2>1. /\ \A k : Live(t, k)' <=> Live(t, k)
          /\ Holding(t)' <=> Holding(t)
          /\ Page(t)' = Page(t)
      BY <1>1 DEF Live, Holding, Page, Count
    <2>2. Filled(t)' /\ Owned(t)' /\ AtReadOnly(t)'
      BY <1>1, <1>3, <2>1 DEF DInv, PageInv, Filled, Owned, AtReadOnly
    <2>3. cfg'.map4k /\ NoErrors' => Accounted(t)'
      BY <1>1, <1>2, <1>3, <2>1 DEF DInv, PageInv, Accounted
    <2> QED BY <2>2, <2>3 DEF PageInv
  <1> QED BY <1>2, <1>3, <1>4 DEF DInv

LEMMA WorkerDInv ==
  ASSUME IInv, DInv, NEW t \in Tids, Worker(t) \/ DieCancelled(t)
  PROVE  DInv'
  <1>1. StepOf(t) /\ (NoErrors' => NoErrors)
    BY EveryStepOf, ErrorsStay
  <1>2. RegionInv' /\ PageInv(t)' /\ KeepsOthers(t)
    BY StillStep, SetupStep, ProtectStep, OpFailsStep, CleanStep DEF Worker
  <1>3. \A u \in Tids : PageInv(u)'
    BY <1>1, <1>2, OthersKeep
  <1>4. CancelInv'
    BY <1>1 DEF StepOf, main, DInv, CancelInv
  <1> QED BY <1>2, <1>3, <1>4 DEF DInv

LEMMA NextDInv == IInv /\ DInv /\ [Next]_vars => DInv'
  <1> SUFFICES ASSUME IInv, DInv, UNCHANGED vars PROVE DInv'
    BY MainDInv, WorkerDInv DEF Next
  <1>1. UNCHANGED <<mpc, i, ret, cancelled, pc, err, counter, vm, cfg, step, addrs, perm>>
    BY DEF vars, harness, main
  <1>2. CancelInv' /\ RegionInv'
    BY <1>1 DEF DInv, CancelInv, RegionInv, Region, RegionBase, Entries, Count
  <1>3. \A t \in Tids : PageInv(t)'
    BY <1>1 DEF DInv, PageInv, Filled, Owned, Live, Holding, AtReadOnly, Page, Accounted, NoErrors,
                Entries, Count
  <1> QED BY <1>2, <1>3 DEF DInv

LEMMA SpecDInv == Spec => []DInv
  BY SpecIInv, InitDInv, NextDInv, PTL DEF Spec

(* Every variable of the benchmark stays within its type: no index leaves the *)
(* array addrs, no address leaves the address space (protect.c:105-134).      *)
THEOREM ProtectTypeOK == Spec => []TypeOK
  <1>1. IInv => TypeOK
    BY DEF IInv
  <1> QED BY <1>1, SpecIInv, PTL

(* At most one page of a worker is read-only, the one it is at: each          *)
(* operation leaves its page as it found it (protect.c:58-70, 146-159).       *)
THEOREM ProtectOneReadOnly == Spec => []OneReadOnly
  <1>1. DInv => OneReadOnly
    BY DEF DInv, PageInv, AtReadOnly, OneReadOnly
  <1> QED BY <1>1, SpecDInv, PTL

(* A worker protects what it has mapped itself, whatever the others map and   *)
(* unmap and whichever calls fail (protect.c:58, 147).                        *)
THEOREM ProtectProtectsOwn == Spec => []ProtectsOwn
  <1>1. IInv /\ DInv => ProtectsOwn
    BY PageOwn DEF ProtectsOwn
  <1> QED BY <1>1, SpecIInv, SpecDInv, PTL

(* An error-free run of the page-by-page workers leaves nothing mapped        *)
(* (protect.c:169-176).                                                       *)
THEOREM ProtectNothingLeft == Spec => []NothingLeftMapped
  <1>1. IInv /\ DInv => NothingLeftMapped
    <2> SUFFICES ASSUME IInv, DInv, ret = "ok", cfg.map4k, \A t \in Tids : err[t] = "none",
                        NEW a \in Slots, vm[a] # NoOne
                 PROVE  FALSE
      BY DEF NothingLeftMapped
    <2>1. vm[a] \in Tids /\ pc[vm[a]] = "exited"
      BY DEF IInv, TypeOK, HarnessInv, MainInv
    <2>2. NoErrors
      BY DEF NoErrors, DInv, CancelInv, IInv, HarnessInv, MainInv
    <2>3. Accounted(vm[a])
      BY <2>1, <2>2 DEF DInv, PageInv
    <2> QED BY <2>1, <2>3 DEF Accounted, Holding
  <1> QED BY <1>1, SpecIInv, SpecDInv, PTL

------------------------------------------------------------------------------
(* How the workers of this benchmark move between their control points.       *)
LEMMA EveryWorkerMoves ==
  ASSUME IInv, NEW t \in Tids, Worker(t) \/ DieCancelled(t)
  PROVE  WorkerMoves(t)
  <1> USE DEF WorkerMoves, LocalMove, ArriveMove, LeaveMove, PCs, BeforeBarrier, Measured, Waits, InSetup
  <1>1. CASE BeginRun(t) \/ DieCancelled(t)
    BY <1>1 DEF BeginRun, DieCancelled, Begin, Die, Goto, Desert, IInv, TypeOK, MainTypeOK, locals, main, barrier
  <1>2. CASE Alloc(t) \/ Setup(t) \/ SetupFails(t)
    BY <1>2 DEF Alloc, Setup, SetupFails, Goto, Desert, IInv, TypeOK, MainTypeOK, locals, main, barrier
  <1>3. CASE ReadOnly(t) \/ ReadWrite(t) \/ OpFails(t) \/ LoopEnd(t)
    BY <1>3 DEF ReadOnly, ReadWrite, OpFails, LoopEnd, Goto, Desert, IInv, TypeOK, MainTypeOK, locals, main, barrier
  <1>4. CASE Clean(t)
    BY <1>4 DEF Clean, Goto, Desert, IInv, TypeOK, MainTypeOK, locals, main, barrier
  <1>5. CASE CallReadyBarrier(t) \/ CallEndBarrier(t) \/ FiniArrive(t)
    BY <1>5 DEF CallReadyBarrier, CallEndBarrier, FiniArrive, ReadyArrive, EndArrive, ArriveAt, LeaveFrom, Goto, main
  <1>6. CASE PassReadyBarrier(t) \/ PassEndBarrier(t) \/ FiniLeave(t)
    BY <1>6 DEF PassReadyBarrier, PassEndBarrier, FiniLeave, ReadyLeave, EndLeaveStore, ArriveAt, LeaveFrom, Goto, main
  <1> QED BY <1>1, <1>2, <1>3, <1>4, <1>5, <1>6 DEF Worker

(* Both run functions of protect are a fork and a join around one             *)
(* measurement, whichever calls fail (utils.c:331-367, protect.c:49, 137).    *)
THEOREM ProtectImplementsForkJoin == Spec => ImplementsForkJoin
  <1>1. Init => ForkJoinInv /\ F!Init
    BY ForkJoinInvInit, ForkJoinInit DEF Init
  <1>2. IInv /\ ForkJoinInv /\ [Next]_vars => ForkJoinInv' /\ [F!Next]_(F!vars)
    <2> SUFFICES ASSUME IInv, ForkJoinInv, [Next]_vars
                 PROVE  ForkJoinInv' /\ [F!Next]_(F!vars)
      OBVIOUS
    <2>1. Main \/ (\E t \in Tids : WorkerMoves(t)) \/ UNCHANGED harness
      BY EveryWorkerMoves DEF Next, MainStep, vars
    <2> QED BY <2>1, ForkJoinInvStep DEF IInv
  <1> QED BY <1>1, <1>2, SpecIInv, PTL DEF Spec, ImplementsForkJoin, F!Spec
==============================================================================
