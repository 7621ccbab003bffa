--------------------------- MODULE BenchRunProofs ---------------------------
(***************************************************************************)
(* HarnessInv is preserved by every step of the main thread and by every   *)
(* kind of step a run function is made of: local steps, the arrival at and *)
(* the return from a call of the barrier.  The regions of the workers are  *)
(* disjoint parts of the address space.  The modules of the benchmarks     *)
(* cite these lemmas, one per kind of step.                                *)
(***************************************************************************)
EXTENDS PlatVm, TLAPS

LEMMA TidsNat == Tids \subseteq Nat /\ \A t \in Tids : t < N
  BY BenchRunAssumption DEF Tids

LEMMA HarnessInitInv == HarnessInit => HarnessInv
  BY BenchRunAssumption
     DEF HarnessInit, HarnessInv, MainTypeOK, BarrierInv, MainInv, PartialInv, B!Init, Tids,
         Waits, PCs, BeforeBarrier, Errors, Idle

(* A step of the main thread that starts no thread leaves the workers alone.  *)
LEMMA MainQuiet ==
  ASSUME HarnessInv, UNCHANGED <<pc, inside, blocked>>
  PROVE  BarrierInv' /\ PartialInv'
  BY DEF HarnessInv, BarrierInv, PartialInv

LEMMA BarrierInitInv == ASSUME HarnessInv, BarrierInit PROVE HarnessInv'
  <1>1. BarrierInv' /\ PartialInv'
    BY MainQuiet DEF BarrierInit, barrier
  <1>2. MainTypeOK' /\ MainInv'
    BY DEF HarnessInv, BarrierInit, barrier, MainTypeOK, MainInv
  <1> QED BY <1>1, <1>2 DEF HarnessInv

LEMMA StartThreadInv == ASSUME HarnessInv, StartThread PROVE HarnessInv'
  <1> USE DEF HarnessInv
  <1>1. i \in Tids /\ i \in Nat /\ pc[i] = "unborn"
    BY BenchRunAssumption DEF StartThread, MainTypeOK, MainInv, Tids
  <1>2. pc' = [pc EXCEPT ![i] = "spawned"] /\ "spawned" \in PCs \ Waits /\ "spawned" \in Idle
    BY DEF StartThread, Goto, PCs, BeforeBarrier, Waits, Idle
  <1>3. MainTypeOK'
    BY <1>1, <1>2, BenchRunAssumption DEF StartThread, barrier, MainTypeOK
  <1>4. BarrierInv'
    BY <1>1, <1>2 DEF StartThread, barrier, MainTypeOK, BarrierInv, Waits
  <1>5. MainInv'
    <2>1. \A t \in Tids : pc'[t] = "unborn" <=> t >= i + 1
      BY <1>1, <1>2, TidsNat DEF MainTypeOK, MainInv
    <2> QED BY <2>1 DEF StartThread, MainTypeOK, MainInv
  <1>6. PartialInv'
    BY <1>1, <1>2 DEF StartThread, barrier, MainTypeOK, PartialInv
  <1> QED BY <1>3, <1>4, <1>5, <1>6

LEMMA AllStartedInv == ASSUME HarnessInv, AllStarted PROVE HarnessInv'
  <1>1. BarrierInv' /\ PartialInv'
    BY MainQuiet DEF AllStarted, barrier
  <1>2. MainTypeOK' /\ MainInv'
    BY TidsNat DEF HarnessInv, AllStarted, barrier, MainTypeOK, MainInv
  <1> QED BY <1>1, <1>2 DEF HarnessInv

LEMMA StartFailsInv == ASSUME HarnessInv, StartFails PROVE HarnessInv'
  <1>1. BarrierInv' /\ PartialInv'
    BY MainQuiet DEF StartFails, barrier
  <1>2. MainTypeOK' /\ MainInv'
    BY BenchRunAssumption DEF HarnessInv, StartFails, barrier, MainTypeOK, MainInv
  <1> QED BY <1>1, <1>2 DEF HarnessInv

LEMMA CancelThreadInv == ASSUME HarnessInv, CancelThread PROVE HarnessInv'
  <1>1. BarrierInv' /\ PartialInv'
    BY MainQuiet DEF CancelThread, barrier
  <1>2. j \in Tids
    BY BenchRunAssumption DEF HarnessInv, CancelThread, MainTypeOK, Tids
  <1>3. MainTypeOK'
    BY <1>2, BenchRunAssumption DEF HarnessInv, CancelThread, barrier, MainTypeOK
  <1>4. MainInv'
    BY BenchRunAssumption DEF HarnessInv, CancelThread, MainTypeOK, MainInv
  <1> QED BY <1>1, <1>3, <1>4 DEF HarnessInv

LEMMA AllCancelledInv == ASSUME HarnessInv, AllCancelled PROVE HarnessInv'
  <1>1. BarrierInv' /\ PartialInv'
    BY MainQuiet DEF AllCancelled, barrier
  <1>2. MainTypeOK' /\ MainInv'
    BY DEF HarnessInv, AllCancelled, barrier, MainTypeOK, MainInv
  <1> QED BY <1>1, <1>2 DEF HarnessInv

LEMMA JoinThreadInv == ASSUME HarnessInv, JoinThread PROVE HarnessInv'
  <1>1. BarrierInv' /\ PartialInv'
    BY MainQuiet DEF JoinThread, barrier
  <1>2. j \in Tids /\ j + 1 \in 0..N
    BY BenchRunAssumption DEF HarnessInv, JoinThread, MainTypeOK, Tids
  <1>3. MainTypeOK'
    BY <1>2 DEF HarnessInv, JoinThread, barrier, MainTypeOK
  <1>4. \A t \in Tids : t < j + 1 => t < j \/ t = j
    BY TidsNat DEF HarnessInv, MainTypeOK
  <1>5. MainInv'
    BY <1>4 DEF HarnessInv, JoinThread, MainTypeOK, MainInv
  <1> QED BY <1>1, <1>3, <1>5 DEF HarnessInv

LEMMA AllJoinedInv == ASSUME HarnessInv, AllJoined PROVE HarnessInv'
  <1>1. BarrierInv' /\ PartialInv'
    BY MainQuiet DEF AllJoined, barrier
  <1>2. MainTypeOK' /\ MainInv'
    BY TidsNat DEF HarnessInv, AllJoined, barrier, MainTypeOK, MainInv
  <1> QED BY <1>1, <1>2 DEF HarnessInv

LEMMA PrintCsvInv == ASSUME HarnessInv, PrintCsv PROVE HarnessInv'
  <1>1. BarrierInv' /\ PartialInv'
    BY MainQuiet DEF PrintCsv, barrier
  <1>2. MainTypeOK' /\ MainInv'
    BY DEF HarnessInv, PrintCsv, barrier, MainTypeOK, MainInv
  <1> QED BY <1>1, <1>2 DEF HarnessInv

LEMMA CleanupArgsInv == ASSUME HarnessInv, CleanupArgs PROVE HarnessInv'
  <1>1. BarrierInv' /\ PartialInv'
    BY MainQuiet DEF CleanupArgs, barrier
  <1>2. MainTypeOK' /\ MainInv'
    BY DEF HarnessInv, CleanupArgs, barrier, MainTypeOK, MainInv
  <1> QED BY <1>1, <1>2 DEF HarnessInv

(* Every step of the main thread. *)
LEMMA MainPreserves == HarnessInv /\ Main => HarnessInv'
  BY BarrierInitInv, StartThreadInv, AllStartedInv, StartFailsInv, CancelThreadInv,
     AllCancelledInv, JoinThreadInv, AllJoinedInv, PrintCsvInv, CleanupArgsInv DEF Main

------------------------------------------------------------------------------
(* A step of worker t from one control point to another that no part of the   *)
(* harness takes part in.                                                     *)
LEMMA LocalPreserves ==
  ASSUME HarnessInv, NEW t \in Tids, NEW to \in PCs \ Waits,
         pc[t] \notin Waits \union {"unborn", "exited"}, to # "unborn",
         pc[t] \in Idle => to \in Idle,
         Goto(t, to), UNCHANGED <<main, barrier>>, err' \in [Tids -> Errors]
  PROVE  HarnessInv'
  <1> USE DEF HarnessInv, main, barrier, Goto
  <1>1. MainTypeOK'
    BY DEF MainTypeOK
  <1>2. BarrierInv'
    BY DEF MainTypeOK, BarrierInv
  <1>3. \A u \in Tids : pc[u] = "exited" => pc'[u] = "exited"
    BY DEF MainTypeOK
  <1>4. \A u \in Tids : pc'[u] = "unborn" <=> pc[u] = "unborn"
    BY DEF MainTypeOK
  <1>5. MainInv'
    BY <1>3, <1>4 DEF MainInv
  <1>6. PartialInv'
    BY <1>4 DEF MainTypeOK, PartialInv
  <1> QED BY <1>1, <1>2, <1>5, <1>6

(* A step that changes variables of the worker other than its control point.  *)
LEMMA QuietPreserves ==
  ASSUME HarnessInv, UNCHANGED <<main, pc, barrier, err>>
  PROVE  HarnessInv'
  BY DEF HarnessInv, main, barrier, MainTypeOK, BarrierInv, MainInv, PartialInv

(* The arrival at the barrier: while some thread is unborn, and so outside,   *)
(* the arrivals are not all the participants.                                 *)
LEMMA ArrivePreserves ==
  ASSUME HarnessInv, NEW t \in Tids, NEW from \in PCs \ Waits, NEW to \in Waits,
         from \notin {"unborn", "exited"}, from \in Idle => to \in Idle,
         ArriveAt(t, from, to)
  PROVE  HarnessInv'
  <1> USE DEF HarnessInv, main, barrier, ArriveAt, Goto, B!Arrive
  <1>1. to \in PCs \ {"unborn", "exited"}
    BY DEF PCs, Waits
  <1>2. MainTypeOK'
    BY <1>1 DEF MainTypeOK
  <1>3. BarrierInv'
    BY DEF MainTypeOK, BarrierInv
  <1>4. \A u \in Tids : pc'[u] = "unborn" <=> pc[u] = "unborn"
    BY <1>1 DEF MainTypeOK
  <1>5. MainInv'
    BY <1>1, <1>4 DEF MainTypeOK, MainInv
  <1>6. PartialInv'
    <2> SUFFICES ASSUME NEW u \in Tids, pc[u] = "unborn"
                 PROVE  inside' = blocked' /\ \A v \in Tids : pc'[v] \in Idle
      BY <1>4 DEF PartialInv
    <2>1. u \notin blocked \union {t}
      BY DEF BarrierInv, Waits
    <2>2. inside = blocked /\ \A v \in Tids : pc[v] \in Idle
      BY DEF PartialInv
    <2> QED BY <2>1, <2>2 DEF MainTypeOK
  <1> QED BY <1>2, <1>3, <1>5, <1>6

(* The return from the barrier, which shows that all threads were started.    *)
LEMMA LeavePreserves ==
  ASSUME HarnessInv, NEW t \in Tids, NEW from \in Waits, NEW to \in PCs \ Waits,
         to # "unborn", pc[t] = from, B!Leave(t), Goto(t, to), UNCHANGED <<main, err>>
  PROVE  HarnessInv' /\ \A u \in Tids : pc[u] # "unborn"
  <1> USE DEF HarnessInv, main, Goto, B!Leave
  <1>1. \A u \in Tids : pc[u] # "unborn"
    BY DEF PartialInv
  <1>2. MainTypeOK'
    BY DEF MainTypeOK
  <1>3. BarrierInv'
    BY DEF MainTypeOK, BarrierInv
  <1>4. \A u \in Tids : pc'[u] # "unborn" /\ (pc[u] = "exited" => pc'[u] = "exited")
    BY <1>1 DEF MainTypeOK, Waits
  <1>5. MainInv'
    BY <1>1, <1>4 DEF MainInv
  <1>6. PartialInv'
    BY <1>4 DEF PartialInv
  <1> QED BY <1>1, <1>2, <1>3, <1>5, <1>6

LEMMA BeginPreserves ==
  ASSUME HarnessInv, NEW t \in Tids, NEW first \in {"alloc", "setup", "ready"},
         Begin(t, first)
  PROVE  HarnessInv'
  <1>1. PICK to \in {first, "wild"} : Goto(t, to)
    BY DEF Begin
  <1>2. to \in PCs \ Waits /\ to # "unborn" /\ to \in Idle
    BY DEF PCs, Waits, BeforeBarrier, Idle
  <1>3. pc[t] \notin Waits \union {"unborn", "exited"}
    BY DEF Begin, Waits
  <1>4. UNCHANGED <<main, barrier>> /\ err' \in [Tids -> Errors]
    BY DEF Begin, HarnessInv, MainTypeOK
  <1> QED BY <1>1, <1>2, <1>3, <1>4, LocalPreserves

LEMMA DiePreserves ==
  ASSUME HarnessInv, NEW t \in Tids, Die(t)
  PROVE  HarnessInv'
  <1>1. "exited" \in PCs \ Waits /\ "exited" \in Idle
    BY DEF PCs, Waits, Idle
  <1>2. pc[t] \notin Waits \union {"unborn", "exited"}
    BY DEF Die, Waits
  <1>3. Goto(t, "exited") /\ UNCHANGED <<main, barrier>> /\ err' \in [Tids -> Errors]
    BY DEF Die, HarnessInv, MainTypeOK
  <1> QED BY <1>1, <1>2, <1>3, LocalPreserves

(* What the invariant is for. *)
LEMMA HarnessInvIdle == HarnessInv => PartialStartIdle /\ ArgsOutliveWorkers
  BY DEF HarnessInv, PartialInv, MainInv, PartialStartIdle, ArgsOutliveWorkers

------------------------------------------------------------------------------
(* What every step of the main thread leaves alone.                           *)
LEMMA MainShape ==
  ASSUME HarnessInv, Main
  PROVE  /\ UNCHANGED <<inside, blocked, err, counter, count>>
         /\ report' \in {report, count}
         /\ \A t \in Tids : pc'[t] = pc[t] \/ (pc[t] = "unborn" /\ pc'[t] = "spawned")
  <1>1. UNCHANGED <<inside, blocked, err, counter, count>> /\ report' \in {report, count}
    BY DEF Main, BarrierInit, StartThread, AllStarted, StartFails,
           CancelThread, AllCancelled, JoinThread, AllJoined, PrintCsv, CleanupArgs, barrier
  <1>2. CASE StartThread
    <2>1. i \in Tids /\ pc[i] = "unborn"
      BY <1>2, BenchRunAssumption
         DEF StartThread, HarnessInv, MainTypeOK, MainInv, Tids
    <2> QED BY <1>1, <1>2, <2>1 DEF StartThread, Goto, HarnessInv, MainTypeOK
  <1>3. CASE ~StartThread
    BY <1>1, <1>3 DEF Main, BarrierInit, AllStarted, StartFails, CancelThread,
                AllCancelled, JoinThread, AllJoined, PrintCsv, CleanupArgs
  <1> QED BY <1>2, <1>3

(* Threads are cancelled only after a partial start.                          *)
CancelInv ==
  /\ mpc = "cancel" \/ ret = "error" => i < N
  /\ cancelled # {} => mpc = "cancel" \/ ret = "error"

LEMMA MainCancel == ASSUME HarnessInv, CancelInv, Main PROVE CancelInv'
  BY BenchRunAssumption DEF HarnessInv, MainInv, MainTypeOK, CancelInv, Main, BarrierInit,
     StartThread, AllStarted, StartFails, CancelThread, AllCancelled, JoinThread, AllJoined,
     PrintCsv, CleanupArgs

(* A cancelled worker is one of a start that was given up.                    *)
LEMMA CancelledUnborn ==
  ASSUME HarnessInv, CancelInv, cancelled # {}
  PROVE  \E u \in Tids : pc[u] = "unborn"
  <1>1. i < N /\ i \in Nat
    BY DEF CancelInv, HarnessInv, MainTypeOK
  <1>2. i \in Tids /\ pc[i] = "unborn"
    BY <1>1, BenchRunAssumption DEF HarnessInv, MainInv, Tids
  <1> QED BY <1>2

------------------------------------------------------------------------------
(* The address space: where the regions and the pool lie. *)

(* The facts about the constants the leaves below use. *)
LEMMA PlatBounds ==
  /\ N \in Nat \ {0} /\ RegionSlots \in Nat \ {0}
  /\ PoolSlots \in Nat /\ PoolSlots <= 2 * RegionSlots /\ AboveSlots \in Nat
  BY BenchRunAssumption, PlatVmAssumption

(* A multiplication is monotonic: the one nonlinear fact needed.              *)
LEMMA TimesMonotonic ==
  ASSUME NEW r \in Nat, NEW a \in Nat, NEW b \in Nat, a <= b
  PROVE  r * a \in Nat /\ r * a <= r * b
  <1>1. PICK d \in Nat : b = a + d
    <2>1. b - a \in Nat /\ b = a + (b - a)
      OBVIOUS
    <2> QED BY <2>1
  <1>2. r * b = r * a + r * d
    BY <1>1
  <1>3. r * d \in Nat /\ r * a \in Nat
    BY <1>1
  <1> QED BY <1>2, <1>3

LEMMA RegionBaseInt == ASSUME NEW t \in Tids PROVE RegionBase(t) \in Int
  <1>1. RegionSlots * (t + 2) \in Int /\ RegionSlots \div 2 \in Int
    BY PlatBounds, TidsNat
  <1> QED BY <1>1 DEF RegionBase

(* Every address a worker may be given is a slot of the address space.        *)
LEMMA RegionInSlots ==
  ASSUME NEW t \in Tids, NEW k \in 0..RegionSlots
  PROVE  RegionBase(t) + k \in Slots
  <1>1. t + 2 \in Nat /\ N + 1 \in Nat /\ 2 <= t + 2 /\ t + 2 <= N + 1
    BY PlatBounds, TidsNat
  <1>2. RegionSlots * (t + 2) \in Nat /\ RegionSlots * (t + 2) <= RegionSlots * (N + 1)
    BY <1>1, PlatBounds, TimesMonotonic
  <1>3. RegionSlots * 2 <= RegionSlots * (t + 2) /\ RegionSlots * 2 = RegionSlots + RegionSlots
    BY <1>1, PlatBounds, TimesMonotonic
  <1>4. RegionSlots * (N + 2) = RegionSlots * (N + 1) + RegionSlots
    BY PlatBounds
  <1>5. RegionSlots \div 2 \in Nat /\ RegionSlots \div 2 <= RegionSlots
    BY PlatBounds
  <1>6. RegionSlots * (N + 1) \in Nat
    BY <1>1, PlatBounds
  <1>7. RegionBase(t) + k = RegionSlots * (t + 2) + RegionSlots \div 2 + k
    BY DEF RegionBase
  <1>8. RegionBase(t) + k \in Nat
    BY <1>2, <1>5, <1>7
  <1>9. 1 <= RegionBase(t) + k
    BY <1>2, <1>3, <1>5, <1>7, PlatBounds
  <1>10. RegionBase(t) + k <= RegionSlots * (N + 2) + RegionSlots
    <2>1. k \in Nat /\ k <= RegionSlots /\ RegionSlots \in Nat
      BY PlatBounds
    <2> DEFINE P == RegionSlots * (t + 2)
               Q == RegionSlots * (N + 1)
               H == RegionSlots \div 2
    <2>2. P \in Nat /\ Q \in Nat /\ H \in Nat /\ P <= Q /\ H <= RegionSlots
      BY <1>2, <1>5, <1>6
    <2>3. RegionBase(t) + k = P + H + k /\ RegionSlots * (N + 2) = Q + RegionSlots
      BY <1>4, <1>7
    <2> HIDE DEF P, Q, H
    <2> QED BY <2>1, <2>2, <2>3
  <1>11. RegionSlots * (N + 2) + RegionSlots \in Nat
    BY <1>4, <1>6, PlatBounds
  <1> QED BY <1>8, <1>9, <1>10, <1>11, PlatBounds DEF Slots

(* The regions of two isolated workers have no slot in common. *)
LEMMA RegionsBelow ==
  ASSUME NEW t \in Tids, NEW u \in Tids, t < u, NEW a \in Region(t), NEW b \in Region(u)
  PROVE  a < b
  <1>1. t \in Nat /\ t + 2 \in Nat /\ t + 3 \in Nat /\ u + 2 \in Nat /\ t + 3 <= u + 2
    BY TidsNat
  <1>2. RegionSlots * (t + 3) = RegionSlots * (t + 2) + RegionSlots
    <2>1. \A d \in Nat : RegionSlots * (d + 1) = RegionSlots * d + RegionSlots
      BY PlatBounds
    <2>2. t + 3 = (t + 2) + 1
      BY <1>1
    <2> QED BY <1>1, <2>1, <2>2
  <1>3. /\ RegionSlots * (t + 2) \in Nat /\ RegionSlots * (u + 2) \in Nat
        /\ RegionSlots * (t + 3) <= RegionSlots * (u + 2)
    BY <1>1, PlatBounds, TimesMonotonic
  <1> DEFINE P == RegionSlots * (t + 2)
             Q == RegionSlots * (u + 2)
             S == RegionSlots * (t + 3)
             H == RegionSlots \div 2
  <1>4. P \in Nat /\ Q \in Nat /\ S = P + RegionSlots /\ S <= Q /\ H \in Nat /\ RegionSlots \in Nat
    BY <1>2, <1>3, PlatBounds
  <1>5. a \in (P + H)..(P + H + RegionSlots - 1) /\ b \in (Q + H)..(Q + H + RegionSlots - 1)
    BY DEF Region, RegionBase
  <1> HIDE DEF P, Q, S, H
  <1> QED BY <1>4, <1>5

LEMMA RegionsDisjoint ==
  ASSUME NEW t \in Tids, NEW u \in Tids, NEW a \in Region(t), a \in Region(u)
  PROVE  t = u
  <1>1. t < u => a < a
    BY RegionsBelow
  <1>2. u < t => a < a
    BY RegionsBelow
  <1>3. a \in Int /\ t \in Nat /\ u \in Nat
    BY RegionBaseInt, TidsNat, PlatBounds DEF Region
  <1> QED BY <1>1, <1>2, <1>3

LEMMA InRegion ==
  ASSUME NEW t \in Tids, NEW k \in 0..(RegionSlots - 1)
  PROVE  /\ RegionBase(t) + k \in Region(t) /\ RegionBase(t) + k \in Slots
         /\ RegionBase(t) + k # NULL
         /\ \A l \in 0..(RegionSlots - 1) : RegionBase(t) + k = RegionBase(t) + l => k = l
  <1>1. RegionBase(t) \in Int
    BY RegionBaseInt
  <1>2. RegionBase(t) + k \in Slots
    BY RegionInSlots, PlatBounds
  <1>3. RegionBase(t) + k # NULL
    BY <1>2, PlatBounds DEF Slots, NULL
  <1>4. \A l \in 0..(RegionSlots - 1) : RegionBase(t) + k = RegionBase(t) + l => k = l
    BY <1>1, PlatBounds
  <1>5. RegionBase(t) + k \in Region(t)
    BY <1>1, PlatBounds DEF Region
  <1> QED BY <1>2, <1>3, <1>4, <1>5

LEMMA PoolInSlots == Pool \subseteq Slots /\ NULL \notin Slots /\ NoOne \notin Tids
  <1>1. RegionSlots * 2 = RegionSlots + RegionSlots /\ RegionSlots * 2 <= RegionSlots * (N + 2)
    BY PlatBounds, TimesMonotonic
  <1>2. RegionSlots * (N + 2) \in Nat
    BY PlatBounds
  <1> QED BY <1>1, <1>2, PlatBounds, TidsNat DEF Pool, Slots, NULL, NoOne

LEMMA MmapStep ==
  ASSUME vm \in [Slots -> Tids \union {NoOne}], NEW t \in Tids, NEW a, Mmap(t, a)
  PROVE  \A b \in Slots : vm'[b] = IF b = a THEN t ELSE vm[b]
  BY DEF Mmap

LEMMA MunmapStep ==
  ASSUME vm \in [Slots -> Tids \union {NoOne}], NEW a, Munmap(a)
  PROVE  \A b \in Slots : vm'[b] = IF b = a THEN NoOne ELSE vm[b]
  BY DEF Munmap

------------------------------------------------------------------------------
(* Every benchmark implements ForkJoin.  What a run function does, seen from  *)
(* its control points: a worker moves within its setup, its measurement or    *)
(* its cleanup, gets out of them, and through a barrier only by calling it.   *)
InSetup == {"spawned", "alloc", "setup", "mapped"}
LocalMove(from, to) ==
  \/ from \in InSetup /\ to \in InSetup \union {"ready", "end", "exited", "wild"}
  \/ from \in Measured /\ to \in Measured \union {"end", "exited"}
  \/ from \in {"ready", "end"} /\ to = "exited"
  \/ from = "clean" /\ to \in {"clean", "fini"}
ArriveMove(from, to) ==
  <<from, to>> \in {<<"ready", "ready_wait">>, <<"end", "end_wait">>, <<"fini", "fini_wait">>}
LeaveMove(from, to) ==
  \/ from = "ready_wait" /\ to \in Measured
  \/ from = "end_wait" /\ to \in {"clean", "exited"}
  \/ from = "fini_wait" /\ to = "exited"

WorkerMoves(t) ==
  /\ UNCHANGED main
  /\ \/ UNCHANGED <<pc, barrier>>
     \/ \E to \in PCs :
          /\ Goto(t, to)
          /\ \/ LocalMove(pc[t], to) /\ UNCHANGED barrier
             \/ ArriveMove(pc[t], to) /\ B!Arrive(t)
             \/ LeaveMove(pc[t], to) /\ B!Leave(t)

(* The barrier opens for the first time when every worker is done with its    *)
(* setup: nobody is behind it, or released, while another one is before it.   *)
AfterFirst == Measured \union {"clean", "fini", "fini_wait"}
FirstInv ==
  (\E t \in Tids : pc[t] \in AfterFirst \/ t \in inside \ blocked) =>
    \A u \in Tids : pc[u] \notin BeforeBarrier

LEMMA FirstInit == HarnessInit => FirstInv
  BY DEF HarnessInit, B!Init, FirstInv, AfterFirst, Measured

LEMMA FirstMain == ASSUME HarnessInv, FirstInv, Main PROVE FirstInv'
  <1>1. UNCHANGED <<inside, blocked>>
    BY MainShape
  <1>2. \A t \in Tids : pc'[t] = pc[t] \/ (pc[t] = "unborn" /\ pc'[t] = "spawned")
    BY MainShape
  <1> QED BY <1>1, <1>2 DEF FirstInv, AfterFirst, BeforeBarrier, Measured

LEMMA FirstWorker == ASSUME HarnessInv, FirstInv, NEW t \in Tids, WorkerMoves(t) PROVE FirstInv'
  <1> USE DEF HarnessInv, MainTypeOK
  <1>1. CASE UNCHANGED <<pc, barrier>>
    BY <1>1 DEF FirstInv, barrier
  <1>2. CASE \E to \in PCs :
               /\ Goto(t, to)
               /\ \/ LocalMove(pc[t], to) /\ UNCHANGED barrier
                  \/ ArriveMove(pc[t], to) /\ B!Arrive(t)
                  \/ LeaveMove(pc[t], to) /\ B!Leave(t)
    <2>1. PICK to \in PCs :
               /\ Goto(t, to)
               /\ \/ LocalMove(pc[t], to) /\ UNCHANGED barrier
                  \/ ArriveMove(pc[t], to) /\ B!Arrive(t)
                  \/ LeaveMove(pc[t], to) /\ B!Leave(t)
      BY <1>2
    <2>2. /\ pc'[t] = to
          /\ \A u \in Tids : u # t => pc'[u] = pc[u]
      BY <2>1 DEF Goto
    <2>3. CASE LocalMove(pc[t], to) /\ UNCHANGED barrier
      <3>1. /\ to \in BeforeBarrier => pc[t] \in BeforeBarrier
            /\ to \in AfterFirst => pc[t] \in AfterFirst
        BY <2>3 DEF LocalMove, InSetup, BeforeBarrier, AfterFirst, Measured
      <3> QED BY <2>2, <2>3, <3>1 DEF FirstInv, barrier
    <2>4. CASE ArriveMove(pc[t], to) /\ B!Arrive(t)
      <3>1. to \in Waits /\ to \notin BeforeBarrier /\ (to \in AfterFirst => pc[t] \in AfterFirst)
        BY <2>4 DEF ArriveMove, Waits, BeforeBarrier, AfterFirst, Measured
      <3>2. CASE blocked \union {t} = Tids
        <4>1. \A u \in Tids : pc'[u] \in Waits
          BY <2>2, <3>1, <3>2 DEF BarrierInv
        <4> QED BY <4>1 DEF FirstInv, Waits, BeforeBarrier
      <3>3. CASE blocked \union {t} # Tids
        <4>1. inside' \ blocked' \subseteq inside \ blocked
          BY <2>4, <3>3 DEF B!Arrive
        <4> QED BY <2>2, <3>1, <4>1 DEF FirstInv
      <3> QED BY <3>2, <3>3
    <2>5. CASE LeaveMove(pc[t], to) /\ B!Leave(t)
      <3>1. t \in inside \ blocked /\ to \notin BeforeBarrier
        BY <2>5 DEF B!Leave, LeaveMove, BeforeBarrier, Measured
      <3>2. \A u \in Tids : pc[u] \notin BeforeBarrier
        BY <3>1 DEF FirstInv
      <3> QED BY <2>2, <3>1, <3>2 DEF FirstInv
    <2> QED BY <2>1, <2>3, <2>4, <2>5
  <1> QED BY <1>1, <1>2 DEF WorkerMoves

LEMMA FirstStutter == ASSUME FirstInv, UNCHANGED harness PROVE FirstInv'
  BY DEF FirstInv, harness, barrier

LEMMA ForkJoinInit == HarnessInit => F!Init
  BY DEF HarnessInit, F!Init, StageOf, Measured

LEMMA ForkJoinStutter == UNCHANGED harness => UNCHANGED F!vars
  BY DEF harness, main, F!vars

(* The main thread's steps: the start of a worker, and the two returns.       *)
LEMMA ForkJoinMain == ASSUME HarnessInv, CancelInv, Main PROVE [F!Next]_(F!vars)
  <1> DEFINE S == [t \in Tids |-> StageOf(pc[t])]
  <1> USE DEF HarnessInv, MainTypeOK
  <1>1. CASE StartThread
    <2>1. i \in Tids /\ pc[i] = "unborn"
      BY <1>1, BenchRunAssumption DEF StartThread, MainInv, Tids
    <2>2. S' = [S EXCEPT ![i] = "setup"] /\ S[i] = "unborn"
      BY <1>1, <2>1 DEF StartThread, Goto, StageOf, Measured
    <2>3. ret = "none" /\ ret' = ret
      BY <1>1 DEF StartThread, MainInv
    <2>4. F!Start(i)
      BY <2>1, <2>2, <2>3 DEF F!Start, F!Go
    <2> QED BY <2>1, <2>4 DEF F!Next
  <1>2. CASE CleanupArgs
    <2>1. \A t \in Tids : pc[t] = "exited"
      BY <1>2 DEF CleanupArgs, MainInv
    <2>2. ret = "none" /\ ret' = "ok" /\ pc' = pc
      BY <1>2 DEF CleanupArgs, MainInv
    <2>3. F!Return
      BY <2>1, <2>2 DEF F!Return, StageOf
    <2> QED BY <2>3 DEF F!Next
  <1>3. CASE AllCancelled \/ (BarrierInit /\ ret' # ret)
    <2>1. ret = "none" /\ ret' = "error" /\ pc' = pc
      BY <1>3 DEF AllCancelled, BarrierInit, MainInv
    <2>2. i < N /\ i \in Nat
      BY <1>3, BenchRunAssumption DEF AllCancelled, BarrierInit, MainInv, CancelInv
    <2>3. i \in Tids /\ pc[i] = "unborn"
      BY <2>2, BenchRunAssumption DEF MainInv, Tids
    <2>4. F!Return
      BY <2>1, <2>3 DEF F!Return, StageOf, Measured
    <2> QED BY <2>4 DEF F!Next
  <1>4. CASE UNCHANGED <<pc, ret>>
    BY <1>4 DEF F!vars
  <1> QED
    BY <1>1, <1>2, <1>3, <1>4 DEF Main, BarrierInit, AllStarted, StartFails, CancelThread,
       AllCancelled, JoinThread, AllJoined, PrintCsv, CleanupArgs

(* A worker's steps: within a stage, or to a later one; the return from the   *)
(* first barrier shows that everybody has been through the setup.             *)
LEMMA ForkJoinWorker ==
  ASSUME HarnessInv, FirstInv, NEW t \in Tids, WorkerMoves(t)
  PROVE  [F!Next]_(F!vars)
  <1> DEFINE S == [u \in Tids |-> StageOf(pc[u])]
  <1> USE DEF HarnessInv, MainTypeOK
  <1>1. ret' = ret
    BY DEF WorkerMoves, main
  <1>2. CASE UNCHANGED pc
    BY <1>1, <1>2 DEF F!vars
  <1>3. CASE ~UNCHANGED pc
    <2>1. PICK to \in PCs :
               /\ Goto(t, to)
               /\ \/ LocalMove(pc[t], to) /\ UNCHANGED barrier
                  \/ ArriveMove(pc[t], to) /\ B!Arrive(t)
                  \/ LeaveMove(pc[t], to) /\ B!Leave(t)
      BY <1>3 DEF WorkerMoves
    <2>2. S' = [S EXCEPT ![t] = StageOf(to)] /\ S[t] = StageOf(pc[t])
      BY <2>1 DEF Goto
    <2>3. \/ StageOf(to) = StageOf(pc[t])
          \/ StageOf(pc[t]) = "setup" /\ StageOf(to) \in {"ready", "leaving"}
          \/ StageOf(pc[t]) = "measuring" /\ StageOf(to) = "leaving"
          \/ StageOf(pc[t]) \in {"setup", "ready", "measuring", "leaving"} /\ StageOf(to) = "over"
          \/ pc[t] = "ready_wait" /\ to \in Measured /\ B!Leave(t)
      BY <2>1 DEF LocalMove, ArriveMove, LeaveMove, InSetup, Measured, StageOf
    <2>4. CASE StageOf(to) = StageOf(pc[t])
      <3>1. S' = S
        BY <2>2, <2>4
      <3> QED BY <1>1, <3>1 DEF F!vars
    <2>5. CASE StageOf(pc[t]) = "setup" /\ StageOf(to) \in {"ready", "leaving"}
      <3>1. F!SetUp(t)
        BY <1>1, <2>2, <2>5 DEF F!SetUp, F!Go
      <3> QED BY <3>1 DEF F!Next
    <2>6. CASE StageOf(pc[t]) = "measuring" /\ StageOf(to) = "leaving"
      <3>1. F!Leave(t)
        BY <1>1, <2>2, <2>6 DEF F!Leave, F!Go
      <3> QED BY <3>1 DEF F!Next
    <2>7. CASE StageOf(pc[t]) \in {"setup", "ready", "measuring", "leaving"} /\ StageOf(to) = "over"
      <3>1. F!End(t)
        BY <1>1, <2>2, <2>7 DEF F!End, F!Go
      <3> QED BY <3>1 DEF F!Next
    <2>8. CASE pc[t] = "ready_wait" /\ to \in Measured /\ B!Leave(t)
      <3>1. \A u \in Tids : pc[u] \notin BeforeBarrier
        BY <2>8 DEF B!Leave, FirstInv
      <3>2. \A u \in Tids : S[u] \notin {"unborn", "setup"}
        BY <3>1 DEF StageOf, BeforeBarrier
      <3>3. StageOf(pc[t]) = "ready" /\ StageOf(to) = "measuring"
        BY <2>8 DEF StageOf, Measured
      <3>4. F!Measure(t)
        BY <1>1, <2>2, <3>2, <3>3 DEF F!Measure, F!Go
      <3> QED BY <3>4 DEF F!Next
    <2> QED BY <2>3, <2>4, <2>5, <2>6, <2>7, <2>8
  <1> QED BY <1>2, <1>3

(* What a benchmark has to show: its workers move as above.                   *)
ForkJoinInv == CancelInv /\ FirstInv

LEMMA ForkJoinInvInit == HarnessInit => ForkJoinInv
  BY FirstInit DEF ForkJoinInv, CancelInv, HarnessInit

LEMMA ForkJoinInvStep ==
  ASSUME HarnessInv, ForkJoinInv, Main \/ (\E t \in Tids : WorkerMoves(t)) \/ UNCHANGED harness
  PROVE  ForkJoinInv' /\ [F!Next]_(F!vars)
  <1> USE DEF ForkJoinInv
  <1>1. CASE Main
    BY <1>1, MainCancel, FirstMain, ForkJoinMain
  <1>2. ASSUME NEW t \in Tids, WorkerMoves(t) PROVE ForkJoinInv' /\ [F!Next]_(F!vars)
    <2>1. CancelInv'
      BY <1>2 DEF WorkerMoves, main, CancelInv
    <2> QED BY <1>2, <2>1, FirstWorker, ForkJoinWorker
  <1>3. CASE UNCHANGED harness
    <2>1. CancelInv'
      BY <1>3 DEF harness, main, CancelInv
    <2> QED BY <1>3, <2>1, FirstStutter, ForkJoinStutter
  <1> QED BY <1>1, <1>2, <1>3
==============================================================================
