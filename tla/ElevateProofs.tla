--------------------------- MODULE ElevateProofs ---------------------------
(***************************************************************************)
(* The protect-elevate benchmark, for any number of workers, pages and     *)
(* operations, any configuration and any failures.  IInv is type           *)
(* correctness with the invariant of the harness and what the variable     *)
(* addr of a worker points to; DInv says what is mapped there, and with    *)
(* which permission.                                                       *)
(***************************************************************************)
EXTENDS Elevate, BenchRunProofs

(* Between the choice of the first address and the end of the loop. *)
Active == {"setup", "mapped", "ready", "ready_wait", "loop"}

(* The setup goes on until nops pages are mapped, the loop until that many    *)
(* are elevated.                                                              *)
LoopInv ==
  \A t \in Tids :
    /\ counter[t] <= NOps
    /\ pc[t] \in BeforeBarrier \union {"ready_wait"} => counter[t] = 0
    /\ pc[t] \in {"unborn", "spawned"} => off[t] = 0
    /\ pc[t] \in {"setup", "mapped"} => off[t] < NOps
    /\ pc[t] \in {"ready", "ready_wait", "loop"} => NOps <= off[t]

(* addr has come counter pages beyond the first mapping. *)
AddrInv ==
  \A t \in Tids : pc[t] \in Active =>
    IF cfg.isolated THEN addr[t] = RegionBase(t) + counter[t]
    ELSE /\ addr[t] \in 1..(PoolSlots + counter[t]) \/ (addr[t] = NULL /\ pc[t] = "setup")
         /\ pc[t] = "setup" /\ off[t] = 0 => addr[t] = NULL

IInv == TypeOK /\ HarnessInv /\ LoopInv /\ AddrInv

(* What an isolated worker maps stays in its region. *)
RegionInv == cfg.isolated => \A a \in Slots : vm[a] # NoOne => a \in Region(vm[a])

(* An isolated worker has mapped all pages from its base up to off.           *)
Mapped(t) ==
  cfg.isolated /\ pc[t] \in Active =>
    \A k \in 0..(MaxOps + MaxMem - 1) :
      k < off[t] \/ (pc[t] = "mapped" /\ k < off[t] + cfg.mem) => vm[RegionBase(t) + k] = t

(* One mapping holds all the pages, and no failed worker unmaps pages that    *)
(* are not its own.                                                           *)
OnePiece ==
  NOps <= cfg.mem /\ (cfg.isolated \/ \A u \in Tids : err[u] = "none")

(* The pages the worker has still to elevate, to the end of its mapping.      *)
Rest(t) == addr[t]..(addr[t] - counter[t] + cfg.mem - 1)
Piece(t) ==
  /\ pc[t] \in {"setup", "mapped"} => off[t] = 0
  /\ pc[t] \in Active \ {"setup"} =>
       \A s \in Rest(t) :
         /\ s \in Slots /\ vm[s] = t
         /\ pc[t] # "mapped" /\ err[t] = "none" => perm[s] = "ro"

DInv == RegionInv /\ \A t \in Tids : Mapped(t) /\ (OnePiece => Piece(t))
------------------------------------------------------------------------------
(* The facts about the constants, the configuration and the addresses that    *)
(* the leaves below use.                                                      *)
LEMMA Bounds ==
  /\ N \in Nat \ {0} /\ RegionSlots \in Nat \ {0} /\ PoolSlots \in Nat
  /\ MaxOps \in Nat \ {0} /\ MaxMem \in Nat \ {0} /\ MaxOps + MaxMem <= RegionSlots
  /\ Configs \subseteq AllConfigs
  BY PlatBounds, ElevateAssumption

LEMMA Limits == TypeOK => NOps \in 1..MaxOps /\ cfg.mem \in 1..MaxMem
  BY Bounds DEF TypeOK, NOps, AllConfigs

LEMMA BaseFacts ==
  ASSUME NEW t \in Tids
  PROVE  /\ RegionBase(t) \in Nat \ {0}
         /\ \A k \in 0..(RegionSlots - 1) : RegionBase(t) + k \in Region(t) \intersect Slots
  <1>1. RegionBase(t) + 0 \in Slots
    BY PlatBounds, RegionInSlots
  <1>2. RegionBase(t) \in Int
    <2>1. RegionSlots * (t + 2) \in Int /\ RegionSlots \div 2 \in Int
      BY PlatBounds, TidsNat
    <2> QED BY <2>1 DEF RegionBase
  <1>3. RegionBase(t) \in Nat \ {0}
    BY <1>1, <1>2 DEF Slots
  <1> QED BY <1>3, InRegion

(* The mappings the kernel places lie in the pool, and what follows on them   *)
(* is still in the address space.                                             *)
LEMMA PoolFacts == 1..(PoolSlots + RegionSlots) \subseteq Slots
  <1>1. RegionSlots * 2 = RegionSlots + RegionSlots /\ RegionSlots * 2 <= RegionSlots * (N + 2)
    BY PlatBounds, TimesMonotonic
  <1>2. RegionSlots * (N + 2) \in Nat
    BY PlatBounds
  <1> QED BY <1>1, <1>2, PlatBounds DEF Slots

(* A worker at work has its addr in the address space. *)
LEMMA AddrInSlots ==
  ASSUME IInv, NEW t \in Tids, pc[t] \in Active, pc[t] # "setup" \/ addr[t] # NULL
  PROVE  addr[t] \in Slots /\ counter[t] \in Nat
  <1>1. counter[t] \in 0..MaxOps
    BY DEF IInv, TypeOK
  <1>2. CASE cfg.isolated
    BY <1>1, <1>2, BaseFacts, Bounds DEF IInv, AddrInv
  <1>3. CASE ~cfg.isolated
    <2>1. addr[t] \in 1..(PoolSlots + counter[t])
      BY <1>3 DEF IInv, AddrInv
    <2> QED BY <1>1, <2>1, Bounds, PoolFacts
  <1> QED BY <1>1, <1>2, <1>3

(* Where a turn of the setup maps. *)
Place(t) == IF cfg.isolated THEN {addr[t] + off[t]} ELSE FreeRuns

LEMMA PlaceFacts ==
  ASSUME IInv, NEW t \in Tids, pc[t] = "setup", NEW a \in Place(t)
  PROVE  /\ a \in Slots /\ off[t] \in Nat /\ counter[t] = 0
         /\ cfg.isolated => /\ addr[t] = RegionBase(t) /\ a = RegionBase(t) + off[t]
                            /\ Mem(a) \subseteq Region(t) \intersect Slots
         /\ ~cfg.isolated => a \in Pool /\ Mem(a) \subseteq FreePool
  <1>1. off[t] \in Nat /\ off[t] < NOps /\ counter[t] = 0 /\ NOps \in 1..MaxOps /\ cfg.mem \in 1..MaxMem
    BY Limits DEF IInv, TypeOK, LoopInv, BeforeBarrier
  <1>2. CASE cfg.isolated
    <2>1. RegionBase(t) \in Nat /\ addr[t] = RegionBase(t)
      BY <1>1, <1>2, BaseFacts DEF IInv, AddrInv, Active
    <2>2. a = RegionBase(t) + off[t] /\ off[t] \in 0..(RegionSlots - 1)
      BY <1>1, <1>2, <2>1, Bounds DEF Place
    <2>3. ASSUME NEW s \in Mem(a) PROVE s \in Region(t) \intersect Slots
      <3>1. s - RegionBase(t) \in 0..(RegionSlots - 1) /\ s = RegionBase(t) + (s - RegionBase(t))
        BY <1>1, <2>1, <2>2, Bounds DEF Mem
      <3> QED BY <3>1, BaseFacts
    <2> QED BY <1>1, <1>2, <2>1, <2>2, <2>3, BaseFacts
  <1>3. CASE ~cfg.isolated
    BY <1>1, <1>3, PoolInSlots DEF Place, FreeRuns
  <1> QED BY <1>2, <1>3

------------------------------------------------------------------------------
LEMMA InitIInv == Init => IInv
  <1> SUFFICES ASSUME Init PROVE IInv
    OBVIOUS
  <1>1. HarnessInv
    BY HarnessInitInv DEF Init
  <1>2. TypeOK
    BY <1>1, Bounds DEF Init, TypeOK, HarnessInv, HarnessInit, NoOne, NULL
  <1>3. LoopInv /\ AddrInv
    BY <1>2, Limits DEF Init, HarnessInit, LoopInv, AddrInv, Active
  <1> QED BY <1>1, <1>2, <1>3 DEF IInv

LEMMA MainStepIInv == ASSUME IInv, MainStep PROVE IInv'
  <1>1. HarnessInv'
    BY MainPreserves DEF IInv, MainStep
  <1>2. /\ report' \in [Tids -> 0..MaxOps] /\ UNCHANGED <<counter, count>>
        /\ \A t \in Tids : pc'[t] = pc[t] \/ (pc[t] = "unborn" /\ pc'[t] = "spawned")
    BY MainShape DEF IInv, TypeOK, MainStep
  <1>3. TypeOK'
    BY <1>1, <1>2 DEF IInv, TypeOK, HarnessInv, MainStep, locals
  <1>4. LoopInv' /\ AddrInv'
    BY <1>2 DEF IInv, LoopInv, AddrInv, Active, BeforeBarrier, MainStep, locals, NOps, RegionBase
  <1> QED BY <1>1, <1>3, <1>4 DEF IInv

LEMMA HarnessStep ==
  ASSUME IInv, NEW t \in Tids, Worker(t) \/ DieCancelled(t)
  PROVE  HarnessInv'
  <1>1. CASE BeginRun(t)
    BY <1>1, BeginPreserves DEF BeginRun, IInv
  <1>2. CASE MapChunk(t) \/ MapChunkFails(t) \/ ProtectChunk(t) \/ ElevateFails(t) \/ LoopEnd(t)
    <2>1. PICK to \in {"setup", "mapped", "ready", "end", "exited"} :
            Goto(t, to) /\ pc[t] \in {"setup", "mapped", "loop"}
      BY <1>2 DEF MapChunk, MapChunkFails, ProtectChunk, ElevateFails, LoopEnd, Desert
    <2>2. UNCHANGED <<main, barrier>>
      BY <1>2 DEF MapChunk, MapChunkFails, ProtectChunk, ElevateFails, LoopEnd, Desert
    <2>3. err' \in [Tids -> Errors]
      BY <1>2 DEF MapChunk, MapChunkFails, ProtectChunk, ElevateFails, LoopEnd, Desert,
                  SetErr, IInv, TypeOK, MainTypeOK, Errors
    <2>4. /\ to \in PCs \ Waits /\ to # "unborn" /\ pc[t] \notin Waits \union {"unborn", "exited"}
          /\ pc[t] \in Idle => to \in Idle
      BY <2>1 DEF PCs, Waits, BeforeBarrier, Measured, Idle
    <2> QED BY <2>1, <2>2, <2>3, <2>4, LocalPreserves DEF IInv
  <1>3. CASE ElevateOne(t)
    BY <1>3, QuietPreserves DEF ElevateOne, IInv
  <1>4. CASE CallReadyBarrier(t) \/ CallEndBarrier(t)
    <2>1. PICK from \in {"ready", "end"}, to \in {"ready_wait", "end_wait"} : ArriveAt(t, from, to)
      BY <1>4 DEF CallReadyBarrier, ReadyArrive, CallEndBarrier, EndArrive
    <2>2. /\ from \in PCs \ Waits /\ from \notin {"unborn", "exited"} /\ to \in Waits
          /\ from \in Idle => to \in Idle
      BY <2>1 DEF PCs, Waits, BeforeBarrier, Measured, Idle
    <2> QED BY <2>1, <2>2, ArrivePreserves DEF IInv
  <1>5. CASE PassReadyBarrier(t) \/ PassEndBarrier(t)
    <2>1. PICK from \in Waits, to \in {"loop", "exited"} :
            pc[t] = from /\ B!Leave(t) /\ Goto(t, to) /\ UNCHANGED <<main, err>>
      BY <1>5 DEF PassReadyBarrier, ReadyLeave, PassEndBarrier, EndLeaveStore, LeaveFrom, Waits
    <2>2. to \in PCs \ Waits /\ to # "unborn"
      BY DEF PCs, Waits, BeforeBarrier, Measured
    <2> QED BY <2>1, <2>2, LeavePreserves DEF IInv
  <1>6. CASE DieCancelled(t)
    BY <1>6, DiePreserves DEF DieCancelled, IInv
  <1> QED BY <1>1, <1>2, <1>3, <1>4, <1>5, <1>6 DEF Worker

(* What is common to all steps of a worker: who else takes no part in it.     *)
StepOf(t) ==
  /\ UNCHANGED <<main, cfg>>
  /\ \A u \in Tids \ {t} : /\ pc'[u] = pc[u] /\ err'[u] = err[u] /\ addr'[u] = addr[u]
                           /\ off'[u] = off[u] /\ counter'[u] = counter[u]

LEMMA EveryStepOf == ASSUME IInv, NEW t \in Tids, Worker(t) \/ DieCancelled(t) PROVE StepOf(t)
  <1> USE DEF IInv, TypeOK, MainTypeOK, locals, Goto, SetErr, Desert, StepOf
  <1>1. CASE BeginRun(t) \/ MapChunk(t) \/ MapChunkFails(t) \/ ProtectChunk(t) \/ DieCancelled(t)
    BY <1>1 DEF BeginRun, Begin, MapChunk, MapChunkFails, ProtectChunk, DieCancelled, Die, main
  <1>2. CASE ElevateOne(t) \/ ElevateFails(t) \/ LoopEnd(t)
    BY <1>2 DEF ElevateOne, ElevateFails, LoopEnd, main
  <1>3. CASE CallReadyBarrier(t) \/ PassReadyBarrier(t) \/ CallEndBarrier(t) \/ PassEndBarrier(t)
    BY <1>3 DEF CallReadyBarrier, ReadyArrive, PassReadyBarrier, ReadyLeave, CallEndBarrier,
                EndArrive, PassEndBarrier, EndLeaveStore, ArriveAt, LeaveFrom, main
  <1> QED BY <1>1, <1>2, <1>3 DEF Worker

(* The loops and addr: one line for each kind of step. *)
Moves(t) ==
  \/ /\ pc[t] = "spawned" /\ UNCHANGED <<off, counter>> /\ off[t] = 0 /\ counter[t] = 0
     /\ pc'[t] \in {"setup", "wild"}
     /\ addr'[t] = IF cfg.isolated THEN RegionBase(t) ELSE NULL
  \/ /\ pc[t] = "setup" /\ pc'[t] = "mapped" /\ UNCHANGED <<off, counter>>
     /\ \E a \in Place(t) : addr'[t] = IF addr[t] = NULL THEN a ELSE addr[t]
  \/ /\ pc[t] = "mapped" /\ UNCHANGED <<addr, counter>> /\ off'[t] = off[t] + cfg.mem
     /\ pc'[t] = IF off'[t] < NOps THEN "setup" ELSE "ready"
  \/ /\ pc[t] = "loop" /\ pc'[t] = "loop" /\ UNCHANGED off /\ counter[t] < NOps
     /\ counter'[t] = counter[t] + 1 /\ addr'[t] = addr[t] + 1
  \/ /\ UNCHANGED <<off, counter, addr>>
     /\ \/ pc[t] = "ready" /\ pc'[t] = "ready_wait"
        \/ pc[t] = "ready_wait" /\ pc'[t] = "loop"
        \/ pc'[t] \in {"end", "end_wait", "exited"}

LEMMA EveryMoves == ASSUME IInv, NEW t \in Tids, Worker(t) \/ DieCancelled(t) PROVE Moves(t)
  <1> USE DEF IInv, TypeOK, MainTypeOK, locals, Goto, Desert, Moves
  <1>1. CASE BeginRun(t)
    BY <1>1 DEF BeginRun, Begin, LoopInv, BeforeBarrier
  <1>2. CASE MapChunk(t)
    <2>1. PICK a \in Place(t) : addr' = [addr EXCEPT ![t] = IF @ = NULL THEN a ELSE @]
      BY <1>2 DEF MapChunk, Place
    <2>2. addr'[t] = IF addr[t] = NULL THEN a ELSE addr[t]
      BY <2>1
    <2> QED BY <1>2, <2>2 DEF MapChunk
  <1>3. CASE ProtectChunk(t)
    <2>1. off'[t] = off[t] + cfg.mem
      BY <1>3 DEF ProtectChunk
    <2> QED BY <1>3, <2>1 DEF ProtectChunk
  <1>4. CASE ElevateOne(t)
    BY <1>4 DEF ElevateOne, More
  <1>5. CASE MapChunkFails(t) \/ ElevateFails(t) \/ LoopEnd(t) \/ DieCancelled(t)
    BY <1>5 DEF MapChunkFails, ElevateFails, LoopEnd, DieCancelled, Die
  <1>6. CASE CallReadyBarrier(t) \/ PassReadyBarrier(t) \/ CallEndBarrier(t) \/ PassEndBarrier(t)
    BY <1>6 DEF CallReadyBarrier, ReadyArrive, PassReadyBarrier, ReadyLeave, CallEndBarrier,
                EndArrive, PassEndBarrier, EndLeaveStore, ArriveAt, LeaveFrom
  <1> QED BY <1>1, <1>2, <1>3, <1>4, <1>5, <1>6 DEF Worker

LEMMA LoopStep ==
  ASSUME IInv, NEW t \in Tids, Worker(t) \/ DieCancelled(t)
  PROVE  LoopInv' /\ AddrInv'
  <1>1. StepOf(t) /\ Moves(t) /\ cfg' = cfg /\ NOps' = NOps
        /\ \A u \in Tids : RegionBase(u)' = RegionBase(u)
    BY EveryStepOf, EveryMoves DEF StepOf, NOps, RegionBase
  <1>2. /\ counter[t] \in Nat /\ off[t] \in Nat /\ counter[t] <= NOps /\ NOps \in 1..MaxOps
        /\ cfg.mem \in Nat \ {0}
    BY Limits, Bounds DEF IInv, TypeOK, LoopInv
  <1>3. /\ counter'[t] <= NOps
        /\ pc'[t] \in BeforeBarrier \union {"ready_wait"} => counter'[t] = 0
        /\ pc'[t] \in {"unborn", "spawned"} => off'[t] = 0
        /\ pc'[t] \in {"setup", "mapped"} => off'[t] < NOps
        /\ pc'[t] \in {"ready", "ready_wait", "loop"} => NOps <= off'[t]
    BY <1>1, <1>2 DEF Moves, IInv, LoopInv, BeforeBarrier
  <1>4. pc'[t] \in Active =>
          IF cfg.isolated THEN addr'[t] = RegionBase(t) + counter'[t]
          ELSE /\ addr'[t] \in 1..(PoolSlots + counter'[t]) \/ (addr'[t] = NULL /\ pc'[t] = "setup")
               /\ pc'[t] = "setup" /\ off'[t] = 0 => addr'[t] = NULL
    <2>1. CASE pc[t] = "setup" /\ pc'[t] = "mapped"
      <3>1. PICK a \in Place(t) : addr'[t] = IF addr[t] = NULL THEN a ELSE addr[t]
        BY <1>1, <2>1 DEF Moves
      <3>2. counter'[t] = 0 /\ counter[t] = 0
        BY <1>1, <2>1, PlaceFacts, <3>1 DEF Moves
      <3>3. CASE cfg.isolated
        <4>1. addr[t] = RegionBase(t) /\ RegionBase(t) \in Nat \ {0}
          BY <2>1, <3>1, <3>3, PlaceFacts, BaseFacts
        <4> QED BY <3>1, <3>2, <3>3, <4>1 DEF NULL
      <3>4. CASE ~cfg.isolated
        <4>1. a \in Pool
          BY <2>1, <3>1, <3>4, PlaceFacts
        <4>2. addr[t] \in 1..PoolSlots \/ addr[t] = NULL
          BY <2>1, <3>2, <3>4, Bounds DEF IInv, AddrInv, Active
        <4>3. addr'[t] \in 1..PoolSlots
          BY <3>1, <4>1, <4>2 DEF Pool
        <4> QED BY <2>1, <3>2, <3>4, <4>3, Bounds
      <3> QED BY <3>3, <3>4
    <2>2. CASE pc[t] = "spawned"
      BY <1>1, <2>2, BaseFacts DEF Moves, Active
    <2>3. CASE pc[t] = "mapped"
      BY <1>1, <1>2, <2>3 DEF Moves, Active, IInv, AddrInv
    <2>4. CASE pc[t] = "loop" /\ pc'[t] = "loop"
      <3>1. counter'[t] = counter[t] + 1 /\ addr'[t] = addr[t] + 1
        BY <1>1, <2>4 DEF Moves
      <3>2. CASE cfg.isolated
        <4>1. RegionBase(t) \in Nat /\ addr[t] = RegionBase(t) + counter[t]
          BY <2>4, <3>2, BaseFacts DEF Active, IInv, AddrInv
        <4> QED BY <1>2, <3>1, <3>2, <4>1
      <3>3. CASE ~cfg.isolated
        <4>1. addr[t] \in 1..(PoolSlots + counter[t])
          BY <2>4, <3>3 DEF Active, IInv, AddrInv
        <4> QED BY <1>2, <2>4, <3>1, <3>3, <4>1, Bounds
      <3> QED BY <3>2, <3>3
    <2>5. CASE pc[t] \notin {"spawned", "mapped"} /\ ~(pc[t] = "setup" /\ pc'[t] = "mapped")
               /\ ~(pc[t] = "loop" /\ pc'[t] = "loop")
      BY <1>1, <2>5 DEF Moves, Active, IInv, AddrInv
    <2> QED BY <2>1, <2>2, <2>3, <2>4, <2>5
  <1>5. ASSUME NEW u \in Tids \ {t}
        PROVE  /\ pc'[u] = pc[u] /\ counter'[u] = counter[u] /\ off'[u] = off[u] /\ addr'[u] = addr[u]
    BY <1>1 DEF StepOf
  <1>6. LoopInv'
    BY <1>1, <1>3, <1>5 DEF IInv, LoopInv
  <1>7. AddrInv'
    BY <1>1, <1>4, <1>5 DEF IInv, AddrInv
  <1> QED BY <1>6, <1>7

LEMMA TypeStep ==
  ASSUME IInv, HarnessInv', NEW t \in Tids, Worker(t) \/ DieCancelled(t)
  PROVE  TypeOK'
  <1> USE DEF IInv, TypeOK, HarnessInv, main, locals
  <1>1. Moves(t) /\ cfg' = cfg /\ report' = report
    BY EveryStepOf, EveryMoves DEF StepOf
  <1>2. NOps \in 1..MaxOps /\ cfg.mem \in 1..MaxMem
    BY Limits
  <1>3. CASE \/ BeginRun(t) \/ MapChunkFails(t) \/ LoopEnd(t) \/ CallReadyBarrier(t)
             \/ PassReadyBarrier(t) \/ CallEndBarrier(t) \/ PassEndBarrier(t) \/ DieCancelled(t)
    <2>1. UNCHANGED <<vm, off, perm, counter>>
      BY <1>3 DEF BeginRun, Begin, MapChunkFails, LoopEnd, CallReadyBarrier, ReadyArrive,
                  PassReadyBarrier, ReadyLeave, CallEndBarrier, EndArrive, PassEndBarrier,
                  EndLeaveStore, ArriveAt, LeaveFrom, DieCancelled, Die, Desert
    <2>2. count' \in [Tids -> 0..MaxOps]
      BY <1>3 DEF BeginRun, Begin, MapChunkFails, LoopEnd, CallReadyBarrier, ReadyArrive,
                  PassReadyBarrier, ReadyLeave, CallEndBarrier, EndArrive, PassEndBarrier,
                  EndLeaveStore, ArriveAt, LeaveFrom, DieCancelled, Die, Desert
    <2>3. RegionBase(t) \in Slots
      <3>1. RegionBase(t) + 0 \in Slots /\ RegionBase(t) \in Nat
        BY BaseFacts, Bounds
      <3> QED BY <3>1
    <2>4. addr' \in [Tids -> Slots \union {NULL}]
      BY <1>3, <2>3 DEF BeginRun, MapChunkFails, LoopEnd, CallReadyBarrier, PassReadyBarrier,
                  CallEndBarrier, PassEndBarrier, DieCancelled
    <2> QED BY <1>1, <2>1, <2>2, <2>4
  <1>4. CASE MapChunk(t)
    <2>1. PICK a \in Place(t) : MmapRange(t, a) /\ addr' = [addr EXCEPT ![t] = IF @ = NULL THEN a ELSE @]
      BY <1>4 DEF MapChunk, Place
    <2>2. a \in Slots
      BY <1>4, <2>1, PlaceFacts DEF MapChunk
    <2>3. vm' \in [Slots -> Tids \union {NoOne}] /\ perm' \in [Slots -> {"rw", "ro"}]
      BY <2>1 DEF MmapRange
    <2>4. addr' \in [Tids -> Slots \union {NULL}]
      BY <2>1, <2>2
    <2> QED BY <1>1, <1>4, <2>3, <2>4 DEF MapChunk
  <1>5. CASE ProtectChunk(t)
    <2>1. off[t] + cfg.mem \in 0..(MaxOps + MaxMem)
      BY <1>2, <1>5, Bounds DEF ProtectChunk, LoopInv
    <2>2. off' \in [Tids -> 0..(MaxOps + MaxMem)]
      BY <1>5, <2>1 DEF ProtectChunk
    <2>3. perm' \in [Slots -> {"rw", "ro"}]
      BY <1>5 DEF ProtectChunk
    <2> QED BY <1>1, <1>5, <2>2, <2>3 DEF ProtectChunk
  <1>6. CASE ElevateOne(t)
    <2>1. counter[t] + 1 \in 0..MaxOps
      BY <1>2, <1>6, Bounds DEF ElevateOne, More
    <2>2. addr[t] + 1 \in Slots
      <3>1. pc'[t] = "loop" /\ addr'[t] = addr[t] + 1 /\ counter'[t] = counter[t] + 1
        BY <1>6 DEF ElevateOne
      <3>2. CASE cfg.isolated
        <4>1. addr[t] + 1 = RegionBase(t) + (counter[t] + 1)
          <5>1. addr[t] = RegionBase(t) + counter[t] /\ RegionBase(t) \in Nat
            BY <1>6, <3>2, BaseFacts DEF AddrInv, Active, ElevateOne
          <5> QED BY <2>1, <5>1, Bounds
        <4> QED BY <2>1, <4>1, BaseFacts, Bounds
      <3>3. CASE ~cfg.isolated
        <4>1. addr[t] \in 1..(PoolSlots + counter[t])
          BY <1>6, <3>3 DEF AddrInv, Active, ElevateOne
        <4> QED BY <2>1, <4>1, PoolFacts, Bounds
      <3> QED BY <3>2, <3>3
    <2>3. counter' \in [Tids -> 0..MaxOps] /\ addr' \in [Tids -> Slots \union {NULL}]
      BY <1>6, <2>1, <2>2 DEF ElevateOne
    <2>4. perm' \in [Slots -> {"rw", "ro"}]
      BY <1>6 DEF ElevateOne
    <2> QED BY <1>1, <1>6, <2>3, <2>4 DEF ElevateOne
  <1>7. CASE ElevateFails(t)
    <2>1. vm' \in [Slots -> Tids \union {NoOne}]
      BY <1>7 DEF ElevateFails, MunmapRange
    <2> QED BY <1>1, <1>7, <2>1 DEF ElevateFails, Desert
  <1> QED BY <1>3, <1>4, <1>5, <1>6, <1>7 DEF Worker

LEMMA NextIInv == IInv /\ [Next]_vars => IInv'
  <1> SUFFICES ASSUME IInv, [Next]_vars PROVE IInv'
    OBVIOUS
  <1>1. ASSUME NEW t \in Tids, Worker(t) \/ DieCancelled(t) PROVE IInv'
    BY <1>1, HarnessStep, TypeStep, LoopStep DEF IInv
  <1>2. CASE UNCHANGED vars
    <2>1. HarnessInv'
      BY <1>2, QuietPreserves DEF IInv, vars, harness
    <2>2. TypeOK' /\ LoopInv' /\ AddrInv'
      BY <1>2, <2>1 DEF IInv, TypeOK, HarnessInv, LoopInv, AddrInv, vars, harness, main, NOps,
                        RegionBase
    <2> QED BY <2>1, <2>2 DEF IInv
  <1> QED BY <1>1, <1>2, MainStepIInv DEF Next

LEMMA SpecIInv == Spec => []IInv
  BY InitIInv, NextIInv, PTL DEF Spec

------------------------------------------------------------------------------
(* The mappings: RegionInv, Mapped and Piece. *)

LEMMA InitDInv == Init => DInv
  <1> SUFFICES ASSUME Init PROVE DInv
    OBVIOUS
  <1>1. (\A t \in Tids : pc[t] = "unborn") /\ \A a \in Slots : vm[a] = NoOne
    BY DEF Init, HarnessInit
  <1> QED BY <1>1 DEF DInv, RegionInv, Mapped, Piece, Active

(* An error stays, so a step cannot restore OnePiece. *)
LEMMA ErrorsStay ==
  ASSUME IInv, NEW t \in Tids, Worker(t) \/ DieCancelled(t)
  PROVE  /\ err'[t] = "none" => err[t] = "none"
         /\ OnePiece' => OnePiece
  <1>1. StepOf(t)
    BY EveryStepOf
  <1>2. err'[t] = "none" => err[t] = "none"
    BY DEF Worker, BeginRun, Begin, MapChunk, MapChunkFails, ProtectChunk, ElevateOne,
           ElevateFails, LoopEnd, CallReadyBarrier, ReadyArrive, PassReadyBarrier, ReadyLeave,
           CallEndBarrier, EndArrive, PassEndBarrier, EndLeaveStore, ArriveAt, LeaveFrom,
           DieCancelled, Die, Desert, SetErr, IInv, TypeOK, MainTypeOK
  <1> QED BY <1>1, <1>2 DEF StepOf, OnePiece, NOps

(* The pages of another worker are left alone: by an isolated one because it  *)
(* stays in its region, by the others because they act on pages of their own  *)
(* or free ones.                                                              *)
KeepsOthers(t) ==
  /\ cfg.isolated => \A a \in Slots : a \notin Region(t) => vm'[a] = vm[a] /\ perm'[a] = perm[a]
  /\ ~cfg.isolated /\ OnePiece' =>
       \A a \in Slots : vm[a] \in Tids \ {t} => vm'[a] = vm[a] /\ perm'[a] = perm[a]

(* The limit of the region is far enough for every page and every chunk.      *)
LEMMA Offsets ==
  ASSUME NEW k \in 0..(MaxOps + MaxMem - 1)
  PROVE  k \in 0..(RegionSlots - 1)
  BY Bounds

LEMMA OthersKeep ==
  ASSUME IInv, DInv, NEW t \in Tids, StepOf(t), KeepsOthers(t), OnePiece' => OnePiece,
         NEW u \in Tids \ {t}
  PROVE  Mapped(u)' /\ (OnePiece' => Piece(u)')
  <1>1. /\ pc'[u] = pc[u] /\ addr'[u] = addr[u] /\ off'[u] = off[u] /\ err'[u] = err[u]
        /\ counter'[u] = counter[u] /\ cfg' = cfg /\ RegionBase(u)' = RegionBase(u)
    BY DEF StepOf, RegionBase
  <1>2. ASSUME cfg.isolated \/ OnePiece', NEW a \in Slots, vm[a] = u
        PROVE  vm'[a] = u /\ perm'[a] = perm[a]
    <2>1. CASE cfg.isolated
      <3>1. vm[a] # NoOne
        BY <1>2, PoolInSlots
      <3>2. a \in Region(u)
        BY <1>2, <2>1, <3>1 DEF DInv, RegionInv
      <3>3. a \notin Region(t)
        BY <3>2, RegionsDisjoint
      <3> QED BY <1>2, <2>1, <3>3 DEF KeepsOthers
    <2>2. CASE ~cfg.isolated
      BY <1>2, <2>2 DEF KeepsOthers
    <2> QED BY <2>1, <2>2
  <1>3. Mapped(u)'
    <2> SUFFICES ASSUME cfg.isolated, pc[u] \in Active, NEW k \in 0..(MaxOps + MaxMem - 1),
                        k < off[u] \/ (pc[u] = "mapped" /\ k < off[u] + cfg.mem)
                 PROVE  vm'[RegionBase(u) + k] = u
      BY <1>1 DEF Mapped
    <2>1. vm[RegionBase(u) + k] = u
      BY DEF DInv, Mapped
    <2>2. RegionBase(u) + k \in Slots
      BY Offsets, BaseFacts
    <2> QED BY <1>2, <2>1, <2>2
  <1>4. ASSUME OnePiece' PROVE Piece(u)'
    <2>1. Piece(u) /\ Rest(u)' = Rest(u)
      BY <1>1, <1>4 DEF DInv, Rest
    <2> QED BY <1>1, <1>2, <1>4, <2>1 DEF Piece
  <1> QED BY <1>3, <1>4

(* The steps that only move the worker on. *)
LEMMA StillStep ==
  ASSUME IInv, DInv, NEW t \in Tids,
         \/ BeginRun(t) \/ MapChunkFails(t) \/ LoopEnd(t) \/ CallReadyBarrier(t)
         \/ PassReadyBarrier(t) \/ CallEndBarrier(t) \/ PassEndBarrier(t) \/ DieCancelled(t)
  PROVE  RegionInv' /\ Mapped(t)' /\ (OnePiece' => Piece(t)') /\ KeepsOthers(t)
  <1>1. /\ Moves(t) /\ UNCHANGED <<vm, perm, cfg>> /\ (OnePiece' => OnePiece)
        /\ (err'[t] = "none" => err[t] = "none") /\ RegionBase(t)' = RegionBase(t)
    BY EveryMoves, ErrorsStay
       DEF Worker, BeginRun, MapChunkFails, LoopEnd, CallReadyBarrier, PassReadyBarrier,
           CallEndBarrier, PassEndBarrier, DieCancelled, locals, RegionBase
  <1>2. RegionInv' /\ KeepsOthers(t)
    BY <1>1 DEF DInv, RegionInv, Region, RegionBase, KeepsOthers
  <1>3. /\ UNCHANGED <<off, counter>>
        /\ pc'[t] \in Active =>
             \/ pc'[t] = "setup" /\ off[t] = 0
             \/ UNCHANGED addr /\ pc[t] \in {"ready", "ready_wait"} /\ pc'[t] \in {"ready_wait", "loop"}
    BY DEF BeginRun, Begin, MapChunkFails, LoopEnd, CallReadyBarrier, ReadyArrive, PassReadyBarrier,
           ReadyLeave, CallEndBarrier, EndArrive, PassEndBarrier, EndLeaveStore, ArriveAt,
           LeaveFrom, DieCancelled, Die, Desert, Goto, locals, IInv, TypeOK, MainTypeOK, LoopInv,
           Active
  <1>4. Mapped(t)'
    <2> SUFFICES ASSUME cfg.isolated, pc'[t] \in Active, NEW k \in 0..(MaxOps + MaxMem - 1),
                        k < off[t] \/ (pc'[t] = "mapped" /\ k < off[t] + cfg.mem)
                 PROVE  vm[RegionBase(t) + k] = t
      BY <1>1, <1>3 DEF Mapped
    <2>1. ~(off[t] = 0 /\ k < off[t])
      BY Bounds
    <2> QED BY <1>3, <2>1 DEF DInv, Mapped, Active
  <1>5. ASSUME OnePiece' PROVE Piece(t)'
    <2>1. Piece(t)
      BY <1>1, <1>5 DEF DInv
    <2>2. CASE pc'[t] = "setup" /\ off[t] = 0
      BY <1>3, <2>2 DEF Piece
    <2>3. CASE UNCHANGED addr /\ pc[t] \in {"ready", "ready_wait"} /\ pc'[t] \in {"ready_wait", "loop"}
      <3>1. Rest(t)' = Rest(t)
        BY <1>1, <1>3, <2>3 DEF Rest
      <3> QED BY <1>1, <2>1, <2>3, <3>1 DEF Piece, Active
    <2>4. CASE pc'[t] \notin Active
      BY <2>4 DEF Piece, Active
    <2> QED BY <1>3, <2>2, <2>3, <2>4
  <1> QED BY <1>2, <1>4, <1>5

LEMMA MapStep ==
  ASSUME IInv, DInv, NEW t \in Tids, MapChunk(t)
  PROVE  RegionInv' /\ Mapped(t)' /\ (OnePiece' => Piece(t)') /\ KeepsOthers(t)
  <1>1. /\ UNCHANGED <<cfg, off, counter, err>> /\ pc[t] = "setup" /\ pc'[t] = "mapped"
        /\ (OnePiece' => OnePiece) /\ RegionBase(t)' = RegionBase(t)
    BY ErrorsStay DEF Worker, MapChunk, Goto, IInv, TypeOK, MainTypeOK, RegionBase
  <1>2. PICK a \in Place(t) : /\ MmapRange(t, a)
                              /\ addr' = [addr EXCEPT ![t] = IF @ = NULL THEN a ELSE @]
    BY DEF MapChunk, Place
  <1>3. /\ a \in Slots /\ off[t] \in Nat /\ counter[t] = 0
        /\ cfg.isolated => /\ addr[t] = RegionBase(t) /\ a = RegionBase(t) + off[t]
                           /\ Mem(a) \subseteq Region(t) \intersect Slots
        /\ ~cfg.isolated => a \in Pool /\ Mem(a) \subseteq FreePool
    BY <1>1, PlaceFacts
  <1>4. \A s \in Slots : /\ vm'[s] = IF s \in Mem(a) THEN t ELSE vm[s]
                         /\ perm'[s] = IF s \in Mem(a) THEN "rw" ELSE perm[s]
    BY <1>2 DEF MmapRange
  <1>5. RegionInv'
    BY <1>1, <1>3, <1>4 DEF DInv, RegionInv, Region, RegionBase
  <1>6. KeepsOthers(t)
    <2>1. ~cfg.isolated => \A s \in Mem(a) : vm[s] \notin Tids \ {t}
      BY <1>3, PoolInSlots DEF FreePool
    <2> QED BY <1>3, <1>4, <2>1 DEF KeepsOthers
  <1>7. Mapped(t)'
    <2> SUFFICES ASSUME cfg.isolated, NEW k \in 0..(MaxOps + MaxMem - 1), k < off[t] + cfg.mem
                 PROVE  vm'[RegionBase(t) + k] = t
      <3>1. \A k \in 0..(MaxOps + MaxMem - 1) : k < off[t] => k < off[t] + cfg.mem
        BY <1>3, Limits, Bounds DEF IInv
      <3> QED BY <1>1, <3>1 DEF Mapped
    <2>1. RegionBase(t) + k \in Slots /\ RegionBase(t) \in Nat
      BY Offsets, BaseFacts
    <2>2. CASE k < off[t]
      <3>1. vm[RegionBase(t) + k] = t
        BY <1>1, <2>2 DEF DInv, Mapped, Active
      <3> QED BY <1>4, <2>1, <3>1
    <2>3. CASE ~(k < off[t])
      <3>1. RegionBase(t) + k \in Mem(a)
        BY <1>3, <2>1, <2>3, Limits, Bounds DEF Mem, IInv
      <3> QED BY <1>4, <2>1, <3>1
    <2> QED BY <2>2, <2>3
  <1>8. ASSUME OnePiece' PROVE Piece(t)'
    <2>1. off[t] = 0
      BY <1>1, <1>8 DEF DInv, Piece
    <2>2. addr'[t] = a /\ a \in Nat
      <3>1. a \in Nat
        <4>1. CASE cfg.isolated
          BY <1>3, <4>1, BaseFacts
        <4>2. CASE ~cfg.isolated
          BY <1>3, <4>2 DEF Pool
        <4> QED BY <4>1, <4>2
      <3>2. addr'[t] = IF addr[t] = NULL THEN a ELSE addr[t]
        BY <1>2 DEF IInv, TypeOK
      <3>3. CASE cfg.isolated
        <4>1. a = addr[t]
          <5>1. RegionBase(t) \in Nat
            BY BaseFacts
          <5> QED BY <1>3, <2>1, <3>3, <5>1
        <4> QED BY <3>1, <3>2, <4>1
      <3>4. CASE ~cfg.isolated
        BY <1>1, <2>1, <3>1, <3>2, <3>4 DEF IInv, AddrInv, Active
      <3> QED BY <3>3, <3>4
    <2>3. Rest(t)' = Mem(a)
      BY <1>1, <1>3, <2>2, Limits, Bounds DEF Rest, Mem, IInv
    <2>4. \A s \in Mem(a) : s \in Slots
      BY <1>3, PoolInSlots DEF FreePool
    <2> QED BY <1>1, <1>4, <2>1, <2>3, <2>4 DEF Piece
  <1> QED BY <1>5, <1>6, <1>7, <1>8

(* What a worker finds at addr once the setup has mapped memory there. *)
LEMMA AddrOwn ==
  ASSUME IInv, DInv, NEW t \in Tids, pc[t] = "mapped" \/ (pc[t] = "loop" /\ counter[t] < NOps)
  PROVE  /\ addr[t] \in Slots /\ counter[t] \in Nat /\ counter[t] < NOps
         /\ cfg.isolated => vm[addr[t]] = t /\ Mem(addr[t]) \subseteq Region(t) \intersect Slots
         /\ OnePiece => /\ addr[t] \in Rest(t) /\ vm[addr[t]] = t
                        /\ pc[t] = "loop" /\ err[t] = "none" => perm[addr[t]] = "ro"
  <1>1. addr[t] \in Slots /\ counter[t] \in Nat
    BY AddrInSlots DEF Active
  <1>2. NOps \in 1..MaxOps /\ cfg.mem \in 1..MaxMem /\ off[t] \in Nat
    BY Limits DEF IInv, TypeOK
  <1>3. /\ counter[t] < NOps
        /\ pc[t] = "mapped" => counter[t] = 0
        /\ pc[t] = "loop" => NOps <= off[t]
    BY <1>2 DEF IInv, LoopInv, BeforeBarrier
  <1>4. ASSUME cfg.isolated
        PROVE  vm[addr[t]] = t /\ Mem(addr[t]) \subseteq Region(t) \intersect Slots
    <2>1. addr[t] = RegionBase(t) + counter[t] /\ RegionBase(t) \in Nat
      BY <1>4, BaseFacts DEF IInv, AddrInv, Active
    <2>2. counter[t] \in 0..(MaxOps + MaxMem - 1)
      BY <1>1, <1>2, <1>3, Bounds
    <2>3. counter[t] < off[t] \/ (pc[t] = "mapped" /\ counter[t] < off[t] + cfg.mem)
      BY <1>1, <1>2, <1>3, Bounds
    <2>4. vm[RegionBase(t) + counter[t]] = t
      BY <1>4, <2>2, <2>3 DEF DInv, Mapped, Active
    <2>5. ASSUME NEW s \in Mem(addr[t]) PROVE s \in Region(t) \intersect Slots
      <3>1. s - RegionBase(t) \in 0..(RegionSlots - 1) /\ s = RegionBase(t) + (s - RegionBase(t))
        BY <1>1, <1>2, <1>3, <2>1, Bounds DEF Mem
      <3> QED BY <3>1, BaseFacts
    <2> QED BY <2>1, <2>4, <2>5
  <1>5. ASSUME OnePiece
        PROVE  /\ addr[t] \in Rest(t) /\ vm[addr[t]] = t
               /\ pc[t] = "loop" /\ err[t] = "none" => perm[addr[t]] = "ro"
    <2>1. addr[t] \in Rest(t)
      <3>1. addr[t] \in Nat
        BY <1>1, PlatBounds DEF Slots
      <3> QED BY <1>1, <1>2, <1>3, <1>5, <3>1, Bounds DEF Rest, OnePiece
    <2> QED BY <1>5, <2>1 DEF DInv, Piece, Active
  <1> QED BY <1>1, <1>3, <1>4, <1>5

LEMMA ProtectStep ==
  ASSUME IInv, DInv, NEW t \in Tids, ProtectChunk(t)
  PROVE  RegionInv' /\ Mapped(t)' /\ (OnePiece' => Piece(t)') /\ KeepsOthers(t)
  <1>1. /\ UNCHANGED <<cfg, vm, addr, counter>> /\ pc[t] = "mapped"
        /\ off'[t] = off[t] + cfg.mem
        /\ pc'[t] = IF off[t] + cfg.mem < NOps THEN "setup" ELSE "ready"
        /\ (OnePiece' => OnePiece) /\ (err'[t] = "none" => err[t] = "none")
        /\ RegionBase(t)' = RegionBase(t)
    BY ErrorsStay DEF Worker, ProtectChunk, Goto, IInv, TypeOK, MainTypeOK, RegionBase
  <1>2. /\ \A s \in Slots : perm'[s] = perm[s] \/ s \in Mem(addr[t])
        /\ err'[t] = "none" => \A s \in Slots : s \in Reached(addr[t]) => perm'[s] = "ro"
    <2>1. SetErr(t, "protect") => err'[t] # "none"
      BY DEF SetErr, IInv, TypeOK, MainTypeOK
    <2> QED BY <2>1 DEF ProtectChunk, Reached
  <1>3. /\ counter[t] = 0 /\ NOps \in 1..MaxOps /\ cfg.mem \in 1..MaxMem /\ off[t] \in Nat
        /\ addr[t] \in Slots
    BY <1>1, Limits, AddrOwn DEF IInv, TypeOK, LoopInv, BeforeBarrier
  <1>4. Rest(t) = Mem(addr[t]) /\ Rest(t)' = Rest(t)
    <2>1. addr[t] \in Nat /\ cfg.mem \in Nat
      BY <1>3, PlatBounds, Bounds DEF Slots
    <2> QED BY <1>1, <1>3, <2>1 DEF Rest, Mem
  <1>5. RegionInv'
    BY <1>1 DEF DInv, RegionInv, Region, RegionBase
  <1>6. OnePiece => \A s \in Mem(addr[t]) : s \in Slots /\ vm[s] = t
    BY <1>1, <1>4 DEF DInv, Piece, Active
  <1>7. KeepsOthers(t)
    <2>1. cfg.isolated => Mem(addr[t]) \subseteq Region(t)
      BY <1>1, AddrOwn
    <2> QED BY <1>1, <1>2, <1>6, <2>1 DEF KeepsOthers
  <1>8. Mapped(t)'
    <2> SUFFICES ASSUME cfg.isolated, NEW k \in 0..(MaxOps + MaxMem - 1), k < off[t] + cfg.mem
                 PROVE  vm[RegionBase(t) + k] = t
      BY <1>1 DEF Mapped
    <2> QED BY <1>1 DEF DInv, Mapped, Active
  <1>9. ASSUME OnePiece' PROVE Piece(t)'
    <2>1. off[t] = 0
      BY <1>1, <1>9 DEF DInv, Piece
    <2>2. NOps <= cfg.mem
      BY <1>1, <1>9 DEF OnePiece
    <2>3. pc'[t] = "ready"
      BY <1>1, <1>3, <2>1, <2>2, Bounds
    <2>4. \A s \in Mem(addr[t]) : s \in Reached(addr[t])
      <3>1. ASSUME NEW s \in Mem(addr[t]), NEW r \in addr[t]..s PROVE r \in Mem(addr[t])
        <4>1. addr[t] \in Nat /\ cfg.mem \in Nat
          BY <1>3, PlatBounds, Bounds DEF Slots
        <4> QED BY <3>1, <4>1 DEF Mem
      <3>2. \A r \in Mem(addr[t]) : vm[r] # NoOne
        BY <1>1, <1>6, <1>9, PoolInSlots
      <3> QED BY <3>1, <3>2 DEF Reached
    <2> QED BY <1>1, <1>2, <1>4, <1>6, <1>9, <2>3, <2>4 DEF Piece
  <1> QED BY <1>5, <1>7, <1>8, <1>9

LEMMA ElevateStep ==
  ASSUME IInv, DInv, NEW t \in Tids, ElevateOne(t)
  PROVE  RegionInv' /\ Mapped(t)' /\ (OnePiece' => Piece(t)') /\ KeepsOthers(t)
  <1>1. /\ UNCHANGED <<cfg, vm, off, err>> /\ pc[t] = "loop" /\ pc'[t] = "loop"
        /\ counter[t] < NOps /\ counter'[t] = counter[t] + 1 /\ addr'[t] = addr[t] + 1
        /\ (OnePiece' => OnePiece) /\ RegionBase(t)' = RegionBase(t)
        /\ \A s \in Slots : perm'[s] = perm[s] \/ s = addr[t]
    BY ErrorsStay DEF Worker, ElevateOne, More, IInv, TypeOK, MainTypeOK, RegionBase
  <1>2. /\ addr[t] \in Nat /\ counter[t] \in Nat /\ cfg.mem \in Nat
        /\ cfg.isolated => vm[addr[t]] = t /\ Mem(addr[t]) \subseteq Region(t)
        /\ OnePiece => vm[addr[t]] = t
    <2>1. addr[t] \in Nat /\ cfg.mem \in Nat
      BY <1>1, AddrOwn, Limits, PlatBounds, Bounds DEF Slots, IInv
    <2> QED BY <1>1, <2>1, AddrOwn
  <1>3. RegionInv'
    BY <1>1 DEF DInv, RegionInv, Region, RegionBase
  <1>4. KeepsOthers(t)
    <2>1. cfg.isolated => addr[t] \in Region(t)
      <3>1. addr[t] \in Mem(addr[t])
        BY <1>2, Limits DEF Mem, IInv
      <3> QED BY <1>2, <3>1
    <2> QED BY <1>1, <1>2, <2>1 DEF KeepsOthers
  <1>5. Mapped(t)'
    BY <1>1 DEF DInv, Mapped
  <1>6. ASSUME OnePiece' PROVE Piece(t)'
    <2>1. Piece(t)
      BY <1>1, <1>6 DEF DInv
    <2>2. \A s \in Rest(t)' : s \in Rest(t) /\ s # addr[t]
      BY <1>1, <1>2 DEF Rest
    <2> QED BY <1>1, <2>1, <2>2 DEF Piece, Active
  <1> QED BY <1>3, <1>4, <1>5, <1>6

LEMMA FailStep ==
  ASSUME IInv, DInv, NEW t \in Tids, ElevateFails(t)
  PROVE  RegionInv' /\ Mapped(t)' /\ (OnePiece' => Piece(t)') /\ KeepsOthers(t)
  <1>1. /\ UNCHANGED <<cfg, perm>> /\ pc[t] = "loop" /\ pc'[t] = "exited" /\ counter[t] < NOps
        /\ err'[t] # "none"
        /\ \A s \in Slots : vm'[s] = vm[s] \/ (s \in Mem(addr[t]) /\ vm'[s] = NoOne)
    BY DEF ElevateFails, More, Desert, Goto, SetErr, MunmapRange, IInv, TypeOK, MainTypeOK
  <1>2. RegionInv'
    BY <1>1 DEF DInv, RegionInv, Region, RegionBase
  <1>3. KeepsOthers(t)
    <2>1. cfg.isolated => Mem(addr[t]) \subseteq Region(t)
      BY <1>1, AddrOwn
    <2>2. OnePiece' => cfg.isolated
      BY <1>1 DEF OnePiece
    <2> QED BY <1>1, <2>1, <2>2 DEF KeepsOthers
  <1>4. Mapped(t)' /\ Piece(t)'
    BY <1>1 DEF Mapped, Piece, Active
  <1> QED BY <1>2, <1>3, <1>4

------------------------------------------------------------------------------
LEMMA MainDInv == ASSUME IInv, DInv, MainStep PROVE DInv'
  <1>1. /\ UNCHANGED <<cfg, vm, off, addr, perm, err, counter>>
        /\ \A t \in Tids : pc'[t] = pc[t] \/ (pc[t] = "unborn" /\ pc'[t] = "spawned")
    BY MainShape DEF MainStep, locals, IInv
  <1>2. RegionInv' /\ (OnePiece' <=> OnePiece)
    BY <1>1 DEF DInv, RegionInv, Region, RegionBase, OnePiece, NOps
  <1>3. ASSUME NEW t \in Tids PROVE Mapped(t)' /\ (OnePiece' => Piece(t)')
    <2>1. Rest(t)' = Rest(t) /\ RegionBase(t)' = RegionBase(t)
      BY <1>1 DEF Rest, RegionBase
    <2>2. Mapped(t)'
      BY <1>1, <2>1 DEF DInv, Mapped, Active
    <2>3. OnePiece' => Piece(t)'
      BY <1>1, <1>2, <2>1 DEF DInv, Piece, Active
    <2> QED BY <2>2, <2>3
  <1> QED BY <1>2, <1>3 DEF DInv

LEMMA WorkerDInv ==
  ASSUME IInv, DInv, NEW t \in Tids, Worker(t) \/ DieCancelled(t)
  PROVE  DInv'
  <1>1. StepOf(t) /\ (OnePiece' => OnePiece)
    BY EveryStepOf, ErrorsStay
  <1>2. RegionInv' /\ Mapped(t)' /\ (OnePiece' => Piece(t)') /\ KeepsOthers(t)
    BY StillStep, MapStep, ProtectStep, ElevateStep, FailStep DEF Worker
  <1>3. \A u \in Tids : Mapped(u)' /\ (OnePiece' => Piece(u)')
    BY <1>1, <1>2, OthersKeep
  <1> QED BY <1>2, <1>3 DEF DInv

LEMMA NextDInv == IInv /\ DInv /\ [Next]_vars => DInv'
  <1> SUFFICES ASSUME IInv, DInv, UNCHANGED vars PROVE DInv'
    BY MainDInv, WorkerDInv DEF Next
  <1>1. UNCHANGED <<pc, err, counter, vm, cfg, off, addr, perm>>
    BY DEF vars, harness
  <1> QED BY <1>1 DEF DInv, RegionInv, Region, RegionBase, Mapped, OnePiece, NOps, Piece, Rest

LEMMA SpecDInv == Spec => []DInv
  BY SpecIInv, InitDInv, NextDInv, PTL DEF Spec

(* Every variable of the benchmark stays within its type: the setup ends      *)
(* within the region or the pool, and addr, advanced by every operation, does *)
(* not leave the address space (protectelevate.c:44-66, 77-90).               *)
THEOREM ElevateTypeOK == Spec => []TypeOK
  <1>1. IInv => TypeOK
    BY DEF IInv
  <1> QED BY <1>1, SpecIInv, PTL

(* Where one mapping holds all pages every operation makes a read-only page   *)
(* of its own worker writable (protectelevate.c:62, 79), as long as no worker *)
(* that shares the pool has failed (protectelevate.c:103).                    *)
THEOREM ElevateElevatesReadOnly == Spec => []ElevatesReadOnly
  <1>1. IInv /\ DInv => ElevatesReadOnly
    BY AddrOwn DEF ElevatesReadOnly, Elevating, More, OnePiece
  <1> QED BY <1>1, SpecIInv, SpecDInv, PTL

(* An isolated worker elevates pages it has mapped itself, in its own region, *)
(* in however many pieces they were mapped (protectelevate.c:39-53, 79).      *)
THEOREM ElevateOwnPages == Spec => []OwnPages
  <1>1. IInv /\ DInv => OwnPages
    BY AddrOwn DEF OwnPages, Elevating, More, DInv, RegionInv
  <1> QED BY <1>1, SpecIInv, SpecDInv, PTL

------------------------------------------------------------------------------
(* How the workers of this benchmark move between their control points.       *)
LEMMA EveryWorkerMoves ==
  ASSUME IInv, NEW t \in Tids, Worker(t) \/ DieCancelled(t)
  PROVE  WorkerMoves(t)
  <1> USE DEF WorkerMoves, LocalMove, ArriveMove, LeaveMove, PCs, BeforeBarrier, Measured, Waits, InSetup
  <1>1. CASE BeginRun(t) \/ DieCancelled(t)
    BY <1>1 DEF BeginRun, DieCancelled, Begin, Die, Goto, Desert, IInv, TypeOK, MainTypeOK, locals, main, barrier
  <1>2. CASE MapChunk(t) \/ MapChunkFails(t) \/ ProtectChunk(t)
    BY <1>2 DEF MapChunk, MapChunkFails, ProtectChunk, Goto, Desert, IInv, TypeOK, MainTypeOK, locals, main, barrier
  <1>3. CASE ElevateOne(t) \/ ElevateFails(t) \/ LoopEnd(t)
    BY <1>3 DEF ElevateOne, ElevateFails, LoopEnd, Goto, Desert, IInv, TypeOK, MainTypeOK, locals, main, barrier
  <1>4. CASE CallReadyBarrier(t) \/ CallEndBarrier(t)
    BY <1>4 DEF CallReadyBarrier, CallEndBarrier, ReadyArrive, EndArrive, ArriveAt, LeaveFrom, Goto, main
  <1>5. CASE PassReadyBarrier(t) \/ PassEndBarrier(t)
    BY <1>5 DEF PassReadyBarrier, PassEndBarrier, ReadyLeave, EndLeaveStore, ArriveAt, LeaveFrom, Goto, main
  <1> QED BY <1>1, <1>2, <1>3, <1>4, <1>5 DEF Worker

(* protect-elevate is a fork and a join around one measurement, whichever     *)
(* calls fail (utils.c:331-367, protectelevate.c:70-93).                      *)
THEOREM ElevateImplementsForkJoin == Spec => ImplementsForkJoin
  <1>1. Init => ForkJoinInv /\ F!Init
    BY ForkJoinInvInit, ForkJoinInit DEF Init
  <1>2. IInv /\ ForkJoinInv /\ [Next]_vars => ForkJoinInv' /\ [F!Next]_(F!vars)
    <2> SUFFICES ASSUME IInv, ForkJoinInv, [Next]_vars
                 PROVE  ForkJoinInv' /\ [F!Next]_(F!vars)
      OBVIOUS
    <2>1. Main \/ (\E t \in Tids : WorkerMoves(t)) \/ UNCHANGED harness
      BY EveryWorkerMoves DEF Next, MainStep, vars
    <2> QED BY <2>1, ForkJoinInvStep DEF IInv
  <1> QED BY <1>1, <1>2, SpecIInv, PTL DEF Spec, ImplementsForkJoin, F!Spec
==============================================================================
