--------------------------- MODULE TlbShootProofs ---------------------------
(***************************************************************************)
(* The safety of the tlbshoot benchmark for any number of readers and      *)
(* operations, any configuration and any failures: the readers run during  *)
(* every shootdown, touch their own page, and never outlive done.          *)
(***************************************************************************)
EXTENDS TlbShoot, BenchRunProofs

(* Where the workers are once the barrier before the loop has opened, which   *)
(* one sees from a worker behind it, or in it and not blocked any more, or    *)
(* from done.                                                                 *)
Behind == {"loop", "half", "spin", "end", "end_wait"}
Opened ==
  done \/ \E t \in Tids : pc[t] \in Behind \/ (pc[t] = "ready_wait" /\ t \notin blocked)

(* Worker 0 alone measures, and begins an operation below the limit.          *)
RolesInv ==
  \A t \in Tids :
    /\ pc[t] \in Behind \union BeforeBarrier \union {"ready_wait", "exited", "wild"}
    /\ pc[t] \in {"loop", "half"} => t = 0
    /\ pc[t] = "spin" => t # 0
    /\ pc[t] = "half" => counter[t] < MaxOps

(* The barrier opens for all at once; until worker 0 is through, and has said *)
(* so, nobody else gets further than the touching loop.                       *)
PhaseInv ==
  /\ done => pc[0] \in {"end", "end_wait", "exited"}
  /\ Opened =>
       /\ \A t \in Tids : /\ pc[t] \in Behind \union {"ready_wait", "exited"}
                          /\ pc[t] = "ready_wait" => t \notin blocked
       /\ pc[0] \in {"ready_wait", "loop", "half"} =>
            \A t \in Tids \ {0} : pc[t] \in {"ready_wait", "spin"}

(* A worker's own page comes from the pool and is its own until it stops; so  *)
(* is what worker 0 unmaps next.                                              *)
MappedInv ==
  /\ \A t \in Tids : pc[t] \in {"ready", "ready_wait", "spin"} =>
       taddr[t] \in Pool /\ vm[taddr[t]] = t
  /\ pc[0] = "half" => addr \in Slots /\ vm[addr] = 0

(* A failed start leaves a worker unborn. *)
FailedInv == (mpc = "cancel" \/ ret = "error") => i < N

IInv == TypeOK /\ HarnessInv /\ RolesInv /\ PhaseInv /\ MappedInv /\ FailedInv


------------------------------------------------------------------------------
LEMMA Bounds ==
  /\ N \in Nat \ {0} /\ MaxOps \in Nat \ {0} /\ 0 \in Tids
  /\ RegionSlots \in Nat \ {0} /\ PoolSlots \in Nat /\ PoolSlots <= 2 * RegionSlots
  /\ Configs \subseteq AllConfigs
  BY BenchRunAssumption, PlatVmAssumption, TlbShootAssumption DEF Tids

LEMMA OpsLimitBound == TypeOK => OpsLimit \in 0..MaxOps
  BY Bounds DEF TypeOK, OpsLimit, AllConfigs

(* The pool lies below the region of worker 0, and both in the address space. *)
LEMMA Places ==
  /\ Pool \subseteq Slots /\ NULL \notin Pool
  /\ RegionBase(0) \in Slots \ Pool
  <1> DEFINE R == RegionSlots
             H == RegionSlots \div 2
             P == RegionSlots * (N + 2)
  <1>1. R \in Nat /\ H \in Nat /\ H <= R /\ P \in Nat /\ 1 <= R /\ (1 <= H \/ R = 1) /\ PoolSlots \in Nat
    BY Bounds
  <1>2. PoolSlots <= R + R /\ RegionBase(0) = R + R + H
    BY Bounds DEF RegionBase
  <1>3. R + R <= P
    <2>1. P = R + R + R * N /\ R * N \in Nat
      BY Bounds
    <2> QED BY <2>1, <1>1
  <1>4. RegionSlots % 2 = 0 => RegionSlots # 1
    OBVIOUS
  <1>5. 1 <= H
    BY <1>1, <1>4, PlatVmAssumption
  <1>6. Slots = 1..(P + R + AboveSlots) /\ AboveSlots \in Nat /\ Pool = 1..PoolSlots
    BY PlatVmAssumption DEF Slots, Pool
  <1> HIDE DEF R, H, P
  <1> QED BY <1>1, <1>2, <1>3, <1>5, <1>6 DEF NULL

LEMMA InitIInv == Init => IInv
  <1> SUFFICES ASSUME Init PROVE IInv
    OBVIOUS
  <1>1. HarnessInv
    BY HarnessInitInv DEF Init
  <1>2. TypeOK
    <2>1. counter \in [Tids -> 0..MaxOps] /\ count \in [Tids -> 0..MaxOps] /\ report \in [Tids -> 0..MaxOps]
      BY Bounds DEF Init, HarnessInit
    <2> QED BY <1>1, <2>1 DEF Init, TypeOK, HarnessInv
  <1>3. RolesInv /\ PhaseInv /\ MappedInv /\ FailedInv
    BY Bounds DEF Init, HarnessInit, RolesInv, PhaseInv, MappedInv, FailedInv, Opened, Behind,
                  BeforeBarrier
  <1> QED BY <1>1, <1>2, <1>3 DEF IInv

(* The main thread makes unborn workers spawned, and changes nothing else of  *)
(* theirs.                                                                    *)
LEMMA MainStepIInv == IInv /\ MainStep => IInv'
  <1> SUFFICES ASSUME IInv, MainStep PROVE IInv'
    OBVIOUS
  <1>1. HarnessInv'
    BY MainPreserves DEF IInv, MainStep
  <1>2. /\ report' \in [Tids -> 0..MaxOps]
        /\ UNCHANGED <<counter, count, blocked, cfg, locals>>
    BY DEF IInv, TypeOK, MainStep, Main, BarrierInit, StartThread, AllStarted, StartFails,
           CancelThread, AllCancelled, JoinThread, AllJoined, PrintCsv, CleanupArgs, barrier
  <1>3. \A t \in Tids : pc'[t] = pc[t] \/ (pc[t] = "unborn" /\ pc'[t] = "spawned")
    <2>1. CASE StartThread
      <3>1. i \in Tids /\ pc[i] = "unborn"
        BY <2>1, BenchRunAssumption
           DEF StartThread, IInv, HarnessInv, MainTypeOK, MainInv, Tids
      <3> QED BY <2>1, <3>1 DEF StartThread, Goto, IInv, HarnessInv, MainTypeOK
    <2>2. CASE ~StartThread
      BY <2>2 DEF MainStep, Main, BarrierInit, AllStarted, StartFails, CancelThread,
                  AllCancelled, JoinThread, AllJoined, PrintCsv, CleanupArgs
    <2> QED BY <2>1, <2>2
  <1>4. TypeOK'
    BY <1>1, <1>2 DEF IInv, TypeOK, HarnessInv, locals
  <1>5. RolesInv'
    BY <1>2, <1>3 DEF IInv, RolesInv, Behind, BeforeBarrier
  <1>6. PhaseInv'
    <2>1. Opened' => Opened /\ \A t \in Tids : pc'[t] = pc[t]
      BY <1>2, <1>3 DEF Opened, Behind, IInv, PhaseInv, locals
    <2>2. done' => pc'[0] = pc[0]
      BY <1>2, <1>3, Bounds DEF locals, IInv, PhaseInv
    <2> QED BY <1>2, <2>1, <2>2, Bounds DEF IInv, PhaseInv, Behind, locals
  <1>7. MappedInv'
    BY <1>2, <1>3, Bounds DEF IInv, MappedInv, locals
  <1>8. FailedInv'
    BY Bounds DEF IInv, FailedInv, HarnessInv, MainInv, MainStep, Main, BarrierInit, StartThread,
              AllStarted, StartFails, CancelThread, AllCancelled, JoinThread, AllJoined, PrintCsv,
              CleanupArgs
  <1> QED BY <1>1, <1>4, <1>5, <1>6, <1>7, <1>8 DEF IInv

------------------------------------------------------------------------------
(* A step of a worker leaves what main knows alone.                           *)
LEMMA WorkerFailed == ASSUME IInv, UNCHANGED main PROVE FailedInv'
  BY DEF IInv, FailedInv, main

(* Steps before the barrier: it has not opened, and does not.                 *)
LEMMA EarlyPhase ==
  ASSUME IInv, NEW t \in Tids, NEW to \in {"setup", "wild", "ready", "exited"},
         pc[t] \in {"spawned", "setup", "ready"}, Goto(t, to), UNCHANGED <<blocked, done>>
  PROVE  PhaseInv' /\ ~Opened'
  <1>1. ~Opened
    BY DEF IInv, PhaseInv, Behind
  <1>2. ~Opened'
    BY <1>1 DEF Opened, Behind, Goto, IInv, TypeOK, MainTypeOK
  <1>3. done' => pc'[0] \in {"end", "end_wait", "exited"}
    BY Bounds DEF IInv, PhaseInv, Goto, TypeOK, MainTypeOK
  <1> QED BY <1>2, <1>3 DEF PhaseInv

LEMMA BeginRunIInv == ASSUME IInv, NEW t \in Tids, BeginRun(t) PROVE IInv'
  <1>1. HarnessInv'
    BY BeginPreserves DEF IInv, BeginRun
  <1>2. PICK to \in {"setup", "wild"} : Goto(t, to)
    BY DEF BeginRun, Begin
  <1>3. pc[t] = "spawned" /\ UNCHANGED <<main, barrier, counter, count, cfg, locals>>
    BY DEF BeginRun, Begin
  <1>4. TypeOK'
    BY <1>1, <1>3 DEF IInv, TypeOK, HarnessInv, locals, main
  <1>5. PhaseInv'
    BY <1>2, <1>3, EarlyPhase DEF barrier, locals
  <1>6. RolesInv' /\ MappedInv'
    BY <1>2, <1>3, Bounds DEF IInv, RolesInv, MappedInv, Goto, TypeOK, MainTypeOK, locals, BeforeBarrier
  <1> QED BY <1>1, <1>3, <1>4, <1>5, <1>6, WorkerFailed DEF IInv

LEMMA MapOwnIInv == ASSUME IInv, NEW t \in Tids, MapOwn(t) PROVE IInv'
  <1>1. Goto(t, "ready") /\ pc[t] = "setup" /\ UNCHANGED <<main, barrier, err, counter, count, cfg, done, addr>>
    BY DEF MapOwn
  <1>2. PICK a \in FreePool : Mmap(t, a) /\ taddr' = [taddr EXCEPT ![t] = a]
    BY DEF MapOwn
  <1>3. a \in Pool /\ a \in Slots /\ vm[a] = NoOne /\ NoOne \notin Tids
    BY <1>2, Places, TidsNat DEF FreePool, NoOne
  <1>4. HarnessInv'
    <2>1. /\ "ready" \in PCs \ Waits /\ pc[t] \notin Waits \union {"unborn", "exited"}
          /\ "ready" \in Idle
      BY <1>1 DEF PCs, Waits, BeforeBarrier, Idle
    <2> QED BY <1>1, <2>1, LocalPreserves DEF IInv, HarnessInv, MainTypeOK
  <1>5. vm' = [vm EXCEPT ![a] = t] /\ vm' \in [Slots -> Tids \union {NoOne}]
    BY <1>2, <1>3 DEF Mmap, IInv, TypeOK
  <1>6. TypeOK'
    BY <1>1, <1>2, <1>3, <1>4, <1>5 DEF IInv, TypeOK, HarnessInv, main
  <1>7. PhaseInv'
    BY <1>1, EarlyPhase DEF barrier
  <1>8. RolesInv'
    BY <1>1 DEF IInv, RolesInv, Goto, TypeOK, MainTypeOK, BeforeBarrier
  <1>9. MappedInv'
    <2>1. ASSUME NEW u \in Tids, pc'[u] \in {"ready", "ready_wait", "spin"}
          PROVE  taddr'[u] \in Pool /\ vm'[taddr'[u]] = u
      <3>1. CASE u = t
        BY <1>2, <1>3, <1>5, <3>1 DEF IInv, TypeOK
      <3>2. CASE u # t
        <4>1. pc'[u] = pc[u] /\ taddr'[u] = taddr[u]
          BY <1>1, <1>2, <3>2 DEF Goto, IInv, TypeOK, MainTypeOK
        <4>2. taddr[u] \in Pool /\ vm[taddr[u]] = u /\ taddr[u] # a /\ taddr[u] \in Slots
          BY <2>1, <4>1, <1>3, Places DEF IInv, MappedInv
        <4> QED BY <4>1, <4>2, <1>5 DEF IInv, TypeOK
      <3> QED BY <3>1, <3>2
    <2>2. pc'[0] = "half" => addr' \in Slots /\ vm'[addr'] = 0
      BY <1>1, <1>3, <1>5, Bounds DEF Goto, IInv, MappedInv, TypeOK, MainTypeOK
    <2> QED BY <2>1, <2>2 DEF MappedInv
  <1> QED BY <1>1, <1>4, <1>6, <1>7, <1>8, <1>9, WorkerFailed DEF IInv

LEMMA MapOwnFailsIInv == ASSUME IInv, NEW t \in Tids, MapOwnFails(t) PROVE IInv'
  <1>1. Goto(t, "exited") /\ pc[t] = "setup" /\ UNCHANGED <<main, barrier, counter, count, cfg, locals>>
    BY DEF MapOwnFails, Desert
  <1>2. err' \in [Tids -> Errors]
    BY DEF MapOwnFails, Desert, SetErr, IInv, HarnessInv, MainTypeOK, Errors
  <1>3. HarnessInv'
    <2>1. /\ "exited" \in PCs \ Waits /\ pc[t] \notin Waits \union {"unborn", "exited"}
          /\ "exited" \in Idle
      BY <1>1 DEF PCs, Waits, BeforeBarrier, Idle
    <2> QED BY <1>1, <1>2, <2>1, LocalPreserves DEF IInv
  <1>4. TypeOK'
    BY <1>1, <1>3 DEF IInv, TypeOK, HarnessInv, locals, main
  <1>5. PhaseInv'
    BY <1>1, EarlyPhase DEF barrier, locals
  <1>6. RolesInv' /\ MappedInv'
    BY <1>1, Bounds DEF IInv, RolesInv, MappedInv, Goto, TypeOK, MainTypeOK, locals
  <1> QED BY <1>1, <1>3, <1>4, <1>5, <1>6, WorkerFailed DEF IInv

(* The last arrival opens the barrier: everybody is in it.                    *)
LEMMA CallReadyIInv == ASSUME IInv, NEW t \in Tids, CallReadyBarrier(t) PROVE IInv'
  <1>1. /\ ArriveAt(t, "ready", "ready_wait") /\ B!Arrive(t) /\ Goto(t, "ready_wait") /\ pc[t] = "ready"
        /\ UNCHANGED <<main, err, counter, count, cfg, locals>>
    BY DEF CallReadyBarrier, ReadyArrive, ArriveAt
  <1>2. HarnessInv'
    <2>1. /\ "ready" \in PCs \ Waits /\ "ready_wait" \in Waits
          /\ "ready_wait" \in Idle
      BY DEF PCs, Waits, BeforeBarrier, Idle
    <2> QED BY <1>1, <2>1, ArrivePreserves DEF IInv
  <1>3. TypeOK'
    BY <1>1, <1>2 DEF IInv, TypeOK, HarnessInv, locals, main
  <1>4. RolesInv' /\ MappedInv'
    BY <1>1, Bounds DEF IInv, RolesInv, MappedInv, Goto, TypeOK, MainTypeOK, locals
  <1>5. PhaseInv'
    <2>1. ~Opened
      BY <1>1 DEF IInv, PhaseInv, Behind
    <2>2. ~done'
      BY <1>1, <2>1, Bounds DEF IInv, PhaseInv, Opened, Behind, locals
    <2>3. CASE blocked \union {t} = Tids
      <3>1. \A u \in Tids : pc'[u] = "ready_wait"
        <4>1. ASSUME NEW u \in Tids, u # t PROVE pc[u] = "ready_wait"
          BY <2>1, <2>3, <4>1 DEF IInv, HarnessInv, BarrierInv, Waits, Opened, RolesInv, Behind, BeforeBarrier
        <4> QED BY <1>1, <4>1 DEF Goto, IInv, TypeOK, MainTypeOK
      <3>2. blocked' = {}
        BY <1>1, <2>3 DEF B!Arrive
      <3> QED BY <2>2, <3>1, <3>2 DEF PhaseInv
    <2>4. CASE blocked \union {t} # Tids
      <3>1. blocked' = blocked \union {t}
        BY <1>1, <2>4 DEF B!Arrive
      <3>2. ~Opened'
        BY <1>1, <2>1, <2>2, <3>1 DEF Opened, Behind, Goto, IInv, TypeOK, MainTypeOK
      <3> QED BY <2>2, <3>2 DEF PhaseInv
    <2> QED BY <2>3, <2>4
  <1> QED BY <1>1, <1>2, <1>3, <1>4, <1>5, WorkerFailed DEF IInv

------------------------------------------------------------------------------
(* A step behind the barrier that keeps worker 0 in front of the others.      *)
LEMMA LatePhase ==
  ASSUME IInv, NEW t \in Tids, NEW to \in Behind \union {"exited"}, Goto(t, to), Opened,
         \A u \in blocked' : u = t \/ u \in blocked,
         to \in {"loop", "half"} => pc[0] \in {"ready_wait", "loop", "half"},
         t # 0 => to = "spin" \/ pc[0] \notin {"ready_wait", "loop", "half"},
         done' => IF t = 0 THEN to \in {"end", "end_wait", "exited"}
                           ELSE pc[0] \in {"end", "end_wait", "exited"}
  PROVE  PhaseInv'
  <1>1. pc' = [pc EXCEPT ![t] = to] /\ pc \in [Tids -> PCs]
    BY DEF Goto, IInv, TypeOK, MainTypeOK
  <1>2. done' => pc'[0] \in {"end", "end_wait", "exited"}
    BY <1>1, Bounds
  <1>3. ASSUME NEW u \in Tids
        PROVE  /\ pc'[u] \in Behind \union {"ready_wait", "exited"}
               /\ pc'[u] = "ready_wait" => u \notin blocked'
    BY <1>1, Bounds DEF IInv, PhaseInv, Behind
  <1>4. ASSUME pc'[0] \in {"ready_wait", "loop", "half"}, NEW u \in Tids \ {0}
        PROVE  pc'[u] \in {"ready_wait", "spin"}
    <2>1. pc[0] \in {"ready_wait", "loop", "half"}
      BY <1>1, <1>4, Bounds DEF Behind
    <2>2. pc[u] \in {"ready_wait", "spin"}
      BY <2>1 DEF IInv, PhaseInv
    <2> QED BY <1>1, <2>1, <2>2
  <1> QED BY <1>2, <1>3, <1>4 DEF PhaseInv

LEMMA PassReadyIInv == ASSUME IInv, NEW t \in Tids, PassReadyBarrier(t) PROVE IInv'
  <1> DEFINE to == IF t = 0 THEN "loop" ELSE "spin"
  <1>1. /\ pc[t] = "ready_wait" /\ B!Leave(t) /\ Goto(t, to) /\ t \notin blocked
        /\ UNCHANGED <<main, err, counter, count, cfg, blocked, locals>>
    BY DEF PassReadyBarrier, LeaveFrom, B!Leave
  <1>2. HarnessInv'
    <2>1. "ready_wait" \in Waits /\ to \in PCs \ Waits /\ to # "unborn"
      BY DEF PCs, Waits, Measured
    <2> HIDE DEF to
    <2> QED BY <1>1, <2>1, LeavePreserves DEF IInv
  <1>3. TypeOK'
    BY <1>1, <1>2 DEF IInv, TypeOK, HarnessInv, locals, main
  <1>4. RolesInv' /\ MappedInv'
    BY <1>1, Bounds DEF IInv, RolesInv, MappedInv, Goto, TypeOK, MainTypeOK, locals, Behind
  <1>5. PhaseInv'
    <2>1. Opened
      BY <1>1 DEF Opened
    <2>2. ~done \/ (t # 0 /\ pc[0] \in {"end", "end_wait", "exited"})
      BY <1>1 DEF IInv, PhaseInv
    <2>3. to \in Behind \union {"exited"}
      BY DEF Behind
    <2> QED BY <1>1, <2>1, <2>2, <2>3, LatePhase DEF locals
  <1> QED BY <1>1, <1>2, <1>3, <1>4, <1>5, WorkerFailed DEF IInv

LEMMA StopSpinningIInv == ASSUME IInv, NEW t \in Tids, StopSpinning(t) PROVE IInv'
  <1>1. /\ pc[t] = "spin" /\ done /\ Goto(t, "end")
        /\ UNCHANGED <<main, barrier, err, counter, count, cfg, locals>>
    BY DEF StopSpinning
  <1>2. HarnessInv'
    <2>1. /\ "end" \in PCs \ Waits /\ pc[t] \notin Waits \union {"unborn", "exited"}
          /\ "end" \in Idle
      BY <1>1 DEF PCs, Waits, Idle
    <2> QED BY <1>1, <2>1, LocalPreserves DEF IInv, HarnessInv, MainTypeOK
  <1>3. TypeOK'
    BY <1>1, <1>2 DEF IInv, TypeOK, HarnessInv, locals, main
  <1>4. RolesInv' /\ MappedInv'
    BY <1>1, Bounds DEF IInv, RolesInv, MappedInv, Goto, TypeOK, MainTypeOK, locals, Behind
  <1>5. PhaseInv'
    <2>1. Opened /\ pc[0] \in {"end", "end_wait", "exited"} /\ t # 0
      BY <1>1 DEF Opened, IInv, PhaseInv
    <2>2. "end" \in Behind \union {"exited"}
      BY DEF Behind
    <2> QED BY <1>1, <2>1, <2>2, LatePhase DEF barrier
  <1> QED BY <1>1, <1>2, <1>3, <1>4, <1>5, WorkerFailed DEF IInv

(* The mapping goes to the region of worker 0, or where nothing is mapped:    *)
(* never to the page of a reader.                                             *)
LEMMA MapOneIInv == ASSUME IInv, NEW t \in Tids, MapOne(t) PROVE IInv'
  <1>1. /\ Goto(t, "half") /\ pc[t] = "loop" /\ counter[t] < OpsLimit
        /\ UNCHANGED <<main, barrier, err, counter, count, cfg, done, taddr>>
    BY DEF MapOne, More
  <1>2. t = 0
    BY <1>1 DEF IInv, RolesInv
  <1>3. PICK a \in (IF cfg.isolated THEN {RegionBase(0)} ELSE FreePool) : Mmap(t, a) /\ addr' = a
    BY <1>2 DEF MapOne
  <1>4. a \in Slots /\ (a \notin Pool \/ vm[a] = NoOne) /\ NoOne \notin Tids
    BY <1>3, Places, TidsNat DEF FreePool, NoOne
  <1>5. HarnessInv'
    <2>1. /\ "half" \in PCs \ Waits /\ pc[t] \notin Waits \union {"unborn", "exited"} \union Idle
      BY <1>1 DEF PCs, Waits, Measured, Idle, BeforeBarrier
    <2> QED BY <1>1, <2>1, LocalPreserves DEF IInv, HarnessInv, MainTypeOK
  <1>6. vm' = [vm EXCEPT ![a] = t] /\ vm' \in [Slots -> Tids \union {NoOne}]
    BY <1>3, <1>4 DEF Mmap, IInv, TypeOK
  <1>7. TypeOK'
    BY <1>1, <1>3, <1>4, <1>5, <1>6 DEF IInv, TypeOK, HarnessInv, main
  <1>8. PhaseInv'
    <2>1. Opened /\ ~done
      BY <1>1, <1>2 DEF Opened, Behind, IInv, PhaseInv
    <2>2. "half" \in Behind \union {"exited"}
      BY DEF Behind
    <2> QED BY <1>1, <1>2, <2>1, <2>2, LatePhase DEF barrier
  <1>9. RolesInv'
    <2>1. counter[t] < MaxOps
      BY <1>1, OpsLimitBound, Bounds DEF IInv, TypeOK
    <2> QED BY <1>1, <1>2, <2>1 DEF IInv, RolesInv, Goto, TypeOK, MainTypeOK, Behind
  <1>10. MappedInv'
    <2>1. ASSUME NEW u \in Tids, pc'[u] \in {"ready", "ready_wait", "spin"}
          PROVE  taddr'[u] \in Pool /\ vm'[taddr'[u]] = u
      <3>1. u # t /\ pc'[u] = pc[u] /\ taddr'[u] = taddr[u]
        BY <1>1, <2>1 DEF Goto, IInv, TypeOK, MainTypeOK
      <3>2. taddr[u] \in Pool /\ vm[taddr[u]] = u /\ taddr[u] # a /\ taddr[u] \in Slots
        BY <2>1, <3>1, <1>4, Places DEF IInv, MappedInv
      <3> QED BY <3>1, <3>2, <1>6 DEF IInv, TypeOK
    <2>2. addr' \in Slots /\ vm'[addr'] = 0
      BY <1>2, <1>3, <1>4, <1>6 DEF IInv, TypeOK
    <2> QED BY <2>1, <2>2 DEF MappedInv
  <1> QED BY <1>1, <1>5, <1>7, <1>8, <1>9, <1>10, WorkerFailed DEF IInv

(* What is unmapped belongs to worker 0.                                      *)
LEMMA UnmapOneIInv == ASSUME IInv, NEW t \in Tids, UnmapOne(t) PROVE IInv'
  <1>1. /\ Goto(t, "loop") /\ pc[t] = "half" /\ Munmap(addr)
        /\ counter' = [counter EXCEPT ![t] = @ + 1]
        /\ UNCHANGED <<main, barrier, err, count, cfg, done, taddr, addr>>
    BY DEF UnmapOne
  <1>2. t = 0 /\ addr \in Slots /\ vm[addr] = 0
    BY <1>1 DEF IInv, RolesInv, MappedInv
  <1>3. HarnessInv'
    <2>1. /\ "loop" \in PCs \ Waits /\ pc[t] \notin Waits \union {"unborn", "exited"} \union Idle
      BY <1>1 DEF PCs, Waits, Measured, Idle, BeforeBarrier
    <2> QED BY <1>1, <2>1, LocalPreserves DEF IInv, HarnessInv, MainTypeOK
  <1>4. vm' = [vm EXCEPT ![addr] = NoOne] /\ vm' \in [Slots -> Tids \union {NoOne}]
    BY <1>1, <1>2 DEF Munmap, IInv, TypeOK
  <1>5. counter' \in [Tids -> 0..MaxOps]
    <2>1. counter[t] < MaxOps /\ counter[t] \in 0..MaxOps
      BY <1>1 DEF IInv, RolesInv, TypeOK
    <2>2. counter[t] + 1 \in 0..MaxOps
      BY <2>1, Bounds
    <2> QED BY <1>1, <2>2 DEF IInv, TypeOK
  <1>6. TypeOK'
    BY <1>1, <1>3, <1>4, <1>5 DEF IInv, TypeOK, HarnessInv, main
  <1>7. PhaseInv'
    <2>1. Opened /\ ~done
      BY <1>1, <1>2 DEF Opened, Behind, IInv, PhaseInv
    <2>2. "loop" \in Behind \union {"exited"}
      BY DEF Behind
    <2> QED BY <1>1, <1>2, <2>1, <2>2, LatePhase DEF barrier
  <1>8. RolesInv'
    BY <1>1, <1>2 DEF IInv, RolesInv, Goto, TypeOK, MainTypeOK, Behind
  <1>9. MappedInv'
    <2>1. ASSUME NEW u \in Tids, pc'[u] \in {"ready", "ready_wait", "spin"}
          PROVE  taddr'[u] \in Pool /\ vm'[taddr'[u]] = u
      <3>1. u # 0 /\ pc'[u] = pc[u] /\ taddr'[u] = taddr[u]
        BY <1>1, <1>2, <2>1 DEF Goto, IInv, TypeOK, MainTypeOK
      <3>2. taddr[u] \in Pool /\ vm[taddr[u]] = u /\ taddr[u] # addr /\ taddr[u] \in Slots
        BY <2>1, <3>1, <1>2, Places DEF IInv, MappedInv
      <3> QED BY <3>1, <3>2, <1>4 DEF IInv, TypeOK
    <2>2. pc'[0] # "half"
      BY <1>1, <1>2 DEF Goto, IInv, TypeOK, MainTypeOK
    <2> QED BY <2>1, <2>2 DEF MappedInv
  <1> QED BY <1>1, <1>3, <1>6, <1>7, <1>8, <1>9, WorkerFailed DEF IInv

LEMMA OpFailsIInv == ASSUME IInv, NEW t \in Tids, OpFails(t) PROVE IInv'
  <1>1. /\ Goto(t, "exited") /\ pc[t] \in {"loop", "half"}
        /\ UNCHANGED <<main, barrier, counter, count, cfg, locals>>
    BY DEF OpFails, Desert
  <1>2. err' \in [Tids -> Errors] /\ t = 0
    BY <1>1 DEF OpFails, Desert, SetErr, IInv, HarnessInv, MainTypeOK, Errors, RolesInv
  <1>3. HarnessInv'
    <2>1. /\ "exited" \in PCs \ Waits /\ pc[t] \notin Waits \union {"unborn", "exited"}
          /\ "exited" \in Idle
      BY <1>1 DEF PCs, Waits, Idle
    <2> QED BY <1>1, <1>2, <2>1, LocalPreserves DEF IInv
  <1>4. TypeOK'
    BY <1>1, <1>3 DEF IInv, TypeOK, HarnessInv, locals, main
  <1>5. PhaseInv'
    <2>1. Opened
      BY <1>1 DEF Opened, Behind
    <2> QED BY <1>1, <1>2, <2>1, LatePhase DEF barrier
  <1>6. RolesInv' /\ MappedInv'
    BY <1>1, Bounds DEF IInv, RolesInv, MappedInv, Goto, TypeOK, MainTypeOK, locals
  <1> QED BY <1>1, <1>3, <1>4, <1>5, <1>6, WorkerFailed DEF IInv

LEMMA LoopEndIInv == ASSUME IInv, NEW t \in Tids, LoopEnd(t) PROVE IInv'
  <1>1. /\ pc[t] = "loop" /\ Goto(t, "end") /\ done' = TRUE
        /\ UNCHANGED <<main, barrier, err, counter, count, cfg, vm, taddr, addr>>
    BY DEF LoopEnd
  <1>2. t = 0
    BY <1>1 DEF IInv, RolesInv
  <1>3. HarnessInv'
    <2>1. /\ "end" \in PCs \ Waits /\ pc[t] \notin Waits \union {"unborn", "exited"}
          /\ "end" \in Idle
      BY <1>1 DEF PCs, Waits, Idle
    <2> QED BY <1>1, <2>1, LocalPreserves DEF IInv, HarnessInv, MainTypeOK
  <1>4. TypeOK'
    BY <1>1, <1>3 DEF IInv, TypeOK, HarnessInv, main
  <1>5. PhaseInv'
    <2>1. Opened
      BY <1>1 DEF Opened, Behind
    <2>2. "end" \in Behind \union {"exited"}
      BY DEF Behind
    <2> QED BY <1>1, <1>2, <2>1, <2>2, LatePhase DEF barrier
  <1>6. RolesInv' /\ MappedInv'
    BY <1>1, Bounds DEF IInv, RolesInv, MappedInv, Goto, TypeOK, MainTypeOK, Behind
  <1> QED BY <1>1, <1>3, <1>4, <1>5, <1>6, WorkerFailed DEF IInv

LEMMA CallEndIInv == ASSUME IInv, NEW t \in Tids, CallEndBarrier(t) PROVE IInv'
  <1>1. /\ ArriveAt(t, "end", "end_wait") /\ B!Arrive(t) /\ Goto(t, "end_wait") /\ pc[t] = "end"
        /\ UNCHANGED <<main, err, counter, count, cfg, locals>>
    BY DEF CallEndBarrier, EndArrive, ArriveAt
  <1>2. HarnessInv'
    <2>1. "end" \in PCs \ Waits /\ "end_wait" \in Waits /\ "end_wait" \in Idle
      BY DEF PCs, Waits, Idle
    <2> QED BY <1>1, <2>1, ArrivePreserves DEF IInv
  <1>3. TypeOK'
    BY <1>1, <1>2 DEF IInv, TypeOK, HarnessInv, locals, main
  <1>4. RolesInv' /\ MappedInv'
    BY <1>1, Bounds DEF IInv, RolesInv, MappedInv, Goto, TypeOK, MainTypeOK, locals, Behind
  <1>5. PhaseInv'
    <2>1. Opened
      BY <1>1 DEF Opened, Behind
    <2>2. t # 0 => pc[0] \notin {"ready_wait", "loop", "half"}
      BY <1>1, <2>1 DEF IInv, PhaseInv
    <2>3. \A u \in blocked' : u = t \/ u \in blocked
      BY <1>1 DEF B!Arrive
    <2>4. done' => pc[0] \in {"end", "end_wait", "exited"}
      BY <1>1 DEF IInv, PhaseInv, locals
    <2>5. "end_wait" \in Behind \union {"exited"}
      BY DEF Behind
    <2> QED BY <1>1, <2>1, <2>2, <2>3, <2>4, <2>5, LatePhase
  <1> QED BY <1>1, <1>2, <1>3, <1>4, <1>5, WorkerFailed DEF IInv

LEMMA PassEndIInv == ASSUME IInv, NEW t \in Tids, PassEndBarrier(t) PROVE IInv'
  <1>1. /\ pc[t] = "end_wait" /\ B!Leave(t) /\ Goto(t, "exited")
        /\ count' = [count EXCEPT ![t] = counter[t]]
        /\ UNCHANGED <<main, err, counter, cfg, blocked, locals>>
    BY DEF PassEndBarrier, EndLeaveStore, B!Leave
  <1>2. HarnessInv'
    <2>1. "end_wait" \in Waits /\ "exited" \in PCs \ Waits
      BY DEF PCs, Waits
    <2> QED BY <1>1, <2>1, LeavePreserves DEF IInv
  <1>3. TypeOK'
    BY <1>1, <1>2 DEF IInv, TypeOK, HarnessInv, locals, main
  <1>4. RolesInv' /\ MappedInv'
    BY <1>1, Bounds DEF IInv, RolesInv, MappedInv, Goto, TypeOK, MainTypeOK, locals
  <1>5. PhaseInv'
    <2>1. Opened
      BY <1>1 DEF Opened, Behind
    <2>2. t # 0 => pc[0] \notin {"ready_wait", "loop", "half"}
      BY <1>1, <2>1 DEF IInv, PhaseInv
    <2>3. done' => pc[0] \in {"end", "end_wait", "exited"}
      BY <1>1 DEF IInv, PhaseInv, locals
    <2> QED BY <1>1, <2>1, <2>2, <2>3, LatePhase
  <1> QED BY <1>1, <1>2, <1>3, <1>4, <1>5, WorkerFailed DEF IInv

LEMMA DieCancelledIInv == ASSUME IInv, NEW t \in Tids, DieCancelled(t) PROVE IInv'
  <1>1. /\ pc[t] \in {"ready", "end"} /\ Goto(t, "exited")
        /\ UNCHANGED <<main, barrier, err, counter, count, cfg, locals>>
    BY DEF DieCancelled, Die
  <1>2. HarnessInv'
    BY DiePreserves DEF IInv, DieCancelled
  <1>3. TypeOK'
    BY <1>1, <1>2 DEF IInv, TypeOK, HarnessInv, locals, main
  <1>4. RolesInv' /\ MappedInv'
    BY <1>1, Bounds DEF IInv, RolesInv, MappedInv, Goto, TypeOK, MainTypeOK, locals
  <1>5. PhaseInv'
    <2>1. CASE pc[t] = "ready"
      BY <1>1, <2>1, EarlyPhase DEF barrier, locals
    <2>2. CASE pc[t] = "end"
      <3>1. Opened
        BY <2>2 DEF Opened, Behind
      <3>2. t # 0 => pc[0] \notin {"ready_wait", "loop", "half"}
        BY <2>2, <3>1 DEF IInv, PhaseInv
      <3>3. done' => pc[0] \in {"end", "end_wait", "exited"}
        BY <1>1 DEF IInv, PhaseInv, locals
      <3> QED BY <1>1, <3>1, <3>2, <3>3, LatePhase DEF barrier
    <2> QED BY <1>1, <2>1, <2>2
  <1> QED BY <1>1, <1>2, <1>3, <1>4, <1>5, WorkerFailed DEF IInv

LEMMA StutterIInv == IInv /\ UNCHANGED vars => IInv'
  BY DEF IInv, vars, harness, main, barrier, TypeOK, MainTypeOK, HarnessInv, BarrierInv, MainInv,
         PartialInv, RolesInv, PhaseInv, Opened, MappedInv, FailedInv, OpsLimit

LEMMA NextIInv == IInv /\ [Next]_vars => IInv'
  <1> SUFFICES ASSUME IInv, [Next]_vars PROVE IInv'
    OBVIOUS
  <1>1. CASE MainStep
    BY <1>1, MainStepIInv
  <1>2. ASSUME NEW t \in Tids, Worker(t) PROVE IInv'
    BY <1>2, BeginRunIInv, MapOwnIInv, MapOwnFailsIInv, CallReadyIInv, PassReadyIInv,
       StopSpinningIInv, MapOneIInv, UnmapOneIInv, OpFailsIInv, LoopEndIInv, CallEndIInv,
       PassEndIInv DEF Worker
  <1>3. ASSUME NEW t \in Tids, DieCancelled(t) PROVE IInv'
    BY <1>3, DieCancelledIInv
  <1>4. CASE UNCHANGED vars
    BY <1>4, StutterIInv
  <1> QED BY <1>1, <1>2, <1>3, <1>4 DEF Next

LEMMA SpecIInv == Spec => []IInv
  BY InitIInv, NextIInv, PTL DEF Spec

------------------------------------------------------------------------------
(* No failure, cancellation or limit leads the benchmark out of its states.   *)
THEOREM TlbShootTypeOK == Spec => []TypeOK
  <1>1. IInv => TypeOK
    BY DEF IInv
  <1> QED BY <1>1, SpecIInv, PTL

(* During every shootdown that worker 0 measures, all others touch memory or  *)
(* are on the way from the barrier to doing so.                               *)
THEOREM TlbShootReadersRun == Spec => []ReadersRun
  <1>1. IInv => ReadersRun
    <2> SUFFICES ASSUME IInv, pc[0] \in {"loop", "half"}
                 PROVE  \A t \in Tids \ {0} : pc[t] \in {"ready_wait", "spin"}
      BY DEF ReadersRun
    <2>1. Opened
      BY Bounds DEF Opened, Behind
    <2> QED BY <2>1 DEF IInv, PhaseInv
  <1> QED BY <1>1, SpecIInv, PTL

(* The page a reader touches is its own, wherever worker 0 maps and unmaps.   *)
THEOREM TlbShootTouchMapped == Spec => []TouchMapped
  <1>1. IInv => TouchMapped
    BY DEF IInv, MappedInv, TouchMapped
  <1> QED BY <1>1, SpecIInv, PTL

(* done is read by nobody once the function on whose stack it lives returned. *)
THEOREM TlbShootDoneOutlives == Spec => []DoneOutlivesReaders
  <1>1. IInv => DoneOutlivesReaders
    <2> SUFFICES ASSUME IInv, ret # "none", NEW t \in Tids PROVE pc[t] # "spin"
      BY DEF DoneOutlivesReaders
    <2>1. CASE ret = "ok"
      BY <2>1 DEF IInv, HarnessInv, MainInv
    <2>2. CASE ret = "error"
      <3>1. i \in Tids /\ pc[i] = "unborn"
        BY <2>2, Bounds DEF IInv, FailedInv, HarnessInv, MainInv, MainTypeOK, Tids
      <3> QED BY <3>1 DEF IInv, HarnessInv, PartialInv, Idle, BeforeBarrier
    <2> QED BY <2>1, <2>2 DEF IInv, TypeOK, MainTypeOK
  <1> QED BY <1>1, SpecIInv, PTL

------------------------------------------------------------------------------
(* How the workers of this benchmark move between their control points.       *)
LEMMA EveryWorkerMoves ==
  ASSUME IInv, NEW t \in Tids, Worker(t) \/ DieCancelled(t)
  PROVE  WorkerMoves(t)
  <1> USE DEF WorkerMoves, LocalMove, ArriveMove, LeaveMove, PCs, BeforeBarrier, Measured, Waits, InSetup
  <1>1. CASE BeginRun(t) \/ DieCancelled(t)
    BY <1>1 DEF BeginRun, DieCancelled, Begin, Die, Goto, Desert, IInv, TypeOK, MainTypeOK, locals, main, barrier
  <1>2. CASE MapOwn(t) \/ MapOwnFails(t) \/ StopSpinning(t)
    BY <1>2 DEF MapOwn, MapOwnFails, StopSpinning, Goto, Desert, IInv, TypeOK, MainTypeOK, locals, main, barrier
  <1>3. CASE MapOne(t) \/ UnmapOne(t) \/ OpFails(t) \/ LoopEnd(t)
    BY <1>3 DEF MapOne, UnmapOne, OpFails, LoopEnd, Goto, Desert, IInv, TypeOK, MainTypeOK, locals, main, barrier
  <1>4. CASE CallReadyBarrier(t) \/ CallEndBarrier(t)
    BY <1>4 DEF CallReadyBarrier, CallEndBarrier, ReadyArrive, EndArrive, ArriveAt, LeaveFrom, Goto, main
  <1>5. CASE PassReadyBarrier(t) \/ PassEndBarrier(t)
    BY <1>5 DEF PassReadyBarrier, PassEndBarrier, ReadyLeave, EndLeaveStore, ArriveAt, LeaveFrom, Goto, main
  <1> QED BY <1>1, <1>2, <1>3, <1>4, <1>5 DEF Worker

(* Both roles of tlbshoot are part of one fork and join: worker 0 does not    *)
(* measure, and no reader touches its page, before the last worker has mapped *)
(* its own, and 0 is returned only after the end of all (utils.c:331-367,     *)
(* tlbshoot.c:42-87).                                                         *)
THEOREM TlbShootImplementsForkJoin == Spec => ImplementsForkJoin
  <1>1. Init => ForkJoinInv /\ F!Init
    BY ForkJoinInvInit, ForkJoinInit DEF Init
  <1>2. IInv /\ ForkJoinInv /\ [Next]_vars => ForkJoinInv' /\ [F!Next]_(F!vars)
    <2> SUFFICES ASSUME IInv, ForkJoinInv, [Next]_vars
                 PROVE  ForkJoinInv' /\ [F!Next]_(F!vars)
      OBVIOUS
    <2>1. Main \/ (\E t \in Tids : WorkerMoves(t)) \/ UNCHANGED harness
      BY EveryWorkerMoves DEF Next, MainStep, vars
    <2> QED BY <2>1, ForkJoinInvStep DEF IInv
  <1> QED BY <1>1, <1>2, SpecIInv, PTL DEF Spec, ImplementsForkJoin, F!Spec
=============================================================================
