-------------------------- MODULE SpinBarrierProofs --------------------------
(***************************************************************************)
(* The barrier of the Barrelfish port, for any number of threads and calls.*)
(* SpinInv is inductive: Waiting, the set of the threads that spin on the  *)
(* current cycle, and counter determine one another, so that the thread    *)
(* that reads max - 1 knows that all others wait and that none of them     *)
(* touches the barrier before the cycle is flipped.                        *)
(***************************************************************************)
EXTENDS SpinBarrier, FiniteSetTheorems, TLAPS

USE SpinAssumption

(* The number of threads is a positive natural number. *)
LEMMA NPositive == N \in Nat /\ N > 0
  <1>1. N \in Nat BY FS_CardinalityType DEF N
  <1>2. N # 0 BY FS_EmptySet DEF N
  <1> QED BY <1>1, <1>2

(* A finite set of arrivals of Threads has at most N members, and a set that  *)
(* misses t has N - 1 members exactly when it is everybody else.              *)
LEMMA ArrivalCount ==
  ASSUME NEW t \in Threads, NEW S \in SUBSET Threads, t \notin S
  PROVE  /\ IsFiniteSet(S)
         /\ Cardinality(S) \in 0..(N - 1)
         /\ Cardinality(S \union {t}) = Cardinality(S) + 1
         /\ Cardinality(S) = N - 1 <=> S \union {t} = Threads
  <1>1. IsFiniteSet(S) /\ Cardinality(S) \in Nat
    BY FS_Subset, FS_CardinalityType
  <1>2. Cardinality(S \union {t}) = Cardinality(S) + 1
    BY <1>1, FS_AddElement
  <1>3. IsFiniteSet(S \union {t}) /\ S \union {t} \subseteq Threads
    BY <1>1, FS_AddElement
  <1>4. Cardinality(S \union {t}) <= N
    BY <1>3, FS_Subset DEF N
  <1>5. Cardinality(S \union {t}) = N => S \union {t} = Threads
    BY <1>3, FS_Subset DEF N
  <1>6. S \union {t} = Threads => Cardinality(S \union {t}) = N
    BY DEF N
  <1>7. Cardinality(S) \in 0..(N - 1)
    BY <1>1, <1>2, <1>4, NPositive
  <1>8. Cardinality(S) = N - 1 <=> Cardinality(S \union {t}) = N
    BY <1>1, <1>2, NPositive
  <1> QED BY <1>1, <1>2, <1>5, <1>6, <1>7, <1>8
------------------------------------------------------------------------------
IInv == TypeOK /\ SpinInv

LEMMA InitIInv == Init => IInv
  <1> SUFFICES ASSUME Init PROVE IInv
    OBVIOUS
  <1>1. TypeOK
    BY NPositive DEF Init, TypeOK, PCs
  <1>2. Arrived = {}
    BY DEF Init, Arrived, Waiting
  <1>3. CounterExact
    BY <1>2, FS_EmptySet DEF Init, CounterExact
  <1>4. CycleFresh /\ LastAlone /\ GhostsAgree /\ SameRound
    BY DEF Init, CycleFresh, LastAlone, GhostsAgree, SameRound, Passed
  <1> QED BY <1>1, <1>3, <1>4 DEF IInv, SpinInv

(* While a thread is about to add itself, nobody is the last arrival yet, and *)
(* the counter is the number of the threads that wait.                        *)
LEMMA BeforeFetchAdd ==
  ASSUME IInv, NEW t \in Threads, pc[t] = "add"
  PROVE  /\ \A u \in Threads : pc[u] \notin {"reset", "flip"}
         /\ Arrived = Waiting
         /\ counter = Cardinality(Waiting)
         /\ counter \in 0..(N - 1)
         /\ counter = N - 1 <=> Waiting \union {t} = Threads
         /\ Cardinality(Waiting \union {t}) = counter + 1
  <1>1. \A u \in Threads : pc[u] \notin {"reset", "flip"}
    BY DEF IInv, SpinInv, LastAlone, Waiting
  <1>2. Arrived = Waiting
    BY <1>1 DEF Arrived
  <1>3. counter = Cardinality(Waiting)
    BY <1>1, <1>2 DEF IInv, SpinInv, CounterExact
  <1>4. Waiting \in SUBSET Threads /\ t \notin Waiting
    BY DEF Waiting
  <1> QED BY <1>1, <1>2, <1>3, <1>4, ArrivalCount

LEMMA EnterIInv ==
  ASSUME IInv, NEW t \in Threads, Enter(t)
  PROVE  IInv'
  <1> USE DEF IInv, SpinInv
  <1>1. TypeOK'
    BY DEF TypeOK, Enter, Goto, PCs
  <1>2. Waiting' = Waiting /\ Arrived' = Arrived
    BY DEF TypeOK, Enter, Goto, Waiting, Arrived
  <1>3. CycleFresh'
    BY DEF TypeOK, Enter, Goto, CycleFresh
  <1>4. LastAlone'
    BY <1>2 DEF TypeOK, Enter, Goto, LastAlone
  <1>5. CounterExact'
    BY <1>2 DEF TypeOK, Enter, Goto, CounterExact
  <1>6. GhostsAgree'
    BY DEF TypeOK, Enter, Goto, GhostsAgree
  <1>7. \A u \in Threads : Passed(u)' = Passed(u)
    BY DEF TypeOK, Enter, Goto, Passed
  <1>8. SameRound'
    BY <1>7 DEF SameRound
  <1> QED BY <1>1, <1>3, <1>4, <1>5, <1>6, <1>8

LEMMA FetchAddIInv ==
  ASSUME IInv, NEW t \in Threads, FetchAdd(t)
  PROVE  IInv'
  <1> USE DEF IInv, SpinInv
  <1>1. pc[t] = "add" /\ mycycle[t] = cycle
    BY DEF FetchAdd, CycleFresh
  <1>2. /\ \A u \in Threads : pc[u] \notin {"reset", "flip"}
        /\ Arrived = Waiting
        /\ counter = Cardinality(Waiting)
        /\ counter \in 0..(N - 1)
        /\ counter = N - 1 <=> Waiting \union {t} = Threads
        /\ Cardinality(Waiting \union {t}) = counter + 1
    BY <1>1, BeforeFetchAdd
  <1>3. TypeOK'
    BY <1>2, NPositive DEF TypeOK, FetchAdd, Goto, PCs
  <1>4. Arrived' = Waiting \union {t}
    BY <1>1, <1>2 DEF TypeOK, FetchAdd, Goto, Waiting, Arrived
  <1>5. \A u \in Threads : pc'[u] # "flip"
    BY <1>2 DEF TypeOK, FetchAdd, Goto
  <1>6. CounterExact'
    BY <1>2, <1>4, <1>5 DEF CounterExact, FetchAdd
  <1>7. CycleFresh'
    BY DEF TypeOK, FetchAdd, Goto, CycleFresh
  <1>8. LastAlone'
    <2>1. CASE counter = N - 1
      <3>1. Threads \ {t} \subseteq Waiting'
        BY <1>2, <2>1 DEF TypeOK, FetchAdd, Goto, Waiting
      <3> QED BY <1>2, <2>1, <3>1 DEF TypeOK, FetchAdd, Goto, LastAlone
    <2>2. CASE counter # N - 1
      BY <1>2, <2>2 DEF TypeOK, FetchAdd, Goto, LastAlone
    <2> QED BY <2>1, <2>2
  <1>9. GhostsAgree'
    BY <1>1 DEF TypeOK, FetchAdd, Goto, GhostsAgree
  <1>10. \A u \in Threads : Passed(u)' = Passed(u)
    BY <1>1 DEF TypeOK, FetchAdd, Goto, Passed
  <1>11. SameRound'
    BY <1>10 DEF SameRound
  <1> QED BY <1>3, <1>6, <1>7, <1>8, <1>9, <1>11

LEMMA ResetCounterIInv ==
  ASSUME IInv, NEW t \in Threads, ResetCounter(t)
  PROVE  IInv'
  <1> USE DEF IInv, SpinInv
  <1>1. TypeOK'
    BY NPositive DEF TypeOK, ResetCounter, Goto, PCs
  <1>2. Waiting' = Waiting
    BY DEF TypeOK, ResetCounter, Goto, Waiting
  <1>3. CycleFresh' /\ LastAlone'
    BY <1>2 DEF TypeOK, ResetCounter, Goto, CycleFresh, LastAlone
  <1>4. pc'[t] = "flip" /\ counter' = 0
    BY DEF TypeOK, ResetCounter, Goto
  <1>5. CounterExact'
    BY <1>4 DEF CounterExact
  <1>6. GhostsAgree'
    BY DEF TypeOK, ResetCounter, Goto, GhostsAgree
  <1>7. \A u \in Threads : Passed(u)' = Passed(u)
    BY DEF TypeOK, ResetCounter, Goto, Passed
  <1>8. SameRound'
    BY <1>7 DEF SameRound
  <1> QED BY <1>1, <1>3, <1>5, <1>6, <1>8

LEMMA FlipCycleIInv ==
  ASSUME IInv, NEW t \in Threads, FlipCycle(t)
  PROVE  IInv'
  <1> USE DEF IInv, SpinInv
  <1>1. TypeOK'
    BY DEF TypeOK, FlipCycle, Goto, PCs
  <1>2. /\ pc[t] = "flip" /\ mycycle[t] = cycle /\ cycle' # cycle
        /\ counter = 0
    BY DEF TypeOK, FlipCycle, CycleFresh, CounterExact
  <1>3. \A u \in Threads \ {t} : pc[u] = "spin" /\ mycycle[u] = cycle
    BY <1>2 DEF LastAlone, Waiting
  <1>4. pc'[t] = "ret" /\ \A u \in Threads \ {t} : pc'[u] = "spin"
    BY <1>3 DEF TypeOK, FlipCycle, Goto
  <1>5. Arrived' = {}
    BY <1>2, <1>3, <1>4 DEF FlipCycle, Arrived, Waiting
  <1>6. counter' = 0
    BY <1>2 DEF FlipCycle
  <1>7. CounterExact'
    BY <1>4, <1>5, <1>6, FS_EmptySet DEF CounterExact
  <1>8. CycleFresh' /\ LastAlone'
    BY <1>4 DEF CycleFresh, LastAlone
  <1>9. GhostsAgree'
    BY <1>2, <1>3, <1>4 DEF FlipCycle, GhostsAgree
  <1>10. \A u \in Threads : Passed(u)' = calls[u] /\ Passed(u) = calls[u] - 1
    BY <1>2, <1>3, <1>4 DEF FlipCycle, Passed
  <1>11. \A u \in Threads : calls[u] \in Int
    BY DEF TypeOK
  <1>12. SameRound'
    BY <1>10, <1>11 DEF SameRound
  <1> QED BY <1>1, <1>7, <1>8, <1>9, <1>12

LEMMA SpinExitIInv ==
  ASSUME IInv, NEW t \in Threads, SpinExit(t)
  PROVE  IInv'
  <1> USE DEF IInv, SpinInv
  <1>1. TypeOK'
    BY DEF TypeOK, SpinExit, Goto, PCs
  <1>2. Waiting' = Waiting /\ Arrived' = Arrived
    BY DEF TypeOK, SpinExit, Goto, Waiting, Arrived
  <1>3. CycleFresh' /\ LastAlone'
    BY <1>2 DEF TypeOK, SpinExit, Goto, CycleFresh, LastAlone
  <1>4. CounterExact'
    BY <1>2 DEF TypeOK, SpinExit, Goto, CounterExact
  <1>5. GhostsAgree'
    BY DEF TypeOK, SpinExit, Goto, GhostsAgree
  <1>6. \A u \in Threads : Passed(u)' = Passed(u)
    BY DEF TypeOK, SpinExit, Goto, Passed
  <1>7. SameRound'
    BY <1>6 DEF SameRound
  <1> QED BY <1>1, <1>3, <1>4, <1>5, <1>7

LEMMA ReturnIInv ==
  ASSUME IInv, NEW t \in Threads, Return(t)
  PROVE  IInv'
  <1> USE DEF IInv, SpinInv
  <1>1. rets[t] + 1 = calls[t]
    BY DEF TypeOK, Return, GhostsAgree
  <1>2. TypeOK'
    BY <1>1 DEF TypeOK, Return, Goto, PCs
  <1>3. Waiting' = Waiting /\ Arrived' = Arrived
    BY DEF TypeOK, Return, Goto, Waiting, Arrived
  <1>4. CycleFresh' /\ LastAlone'
    BY <1>3 DEF TypeOK, Return, Goto, CycleFresh, LastAlone
  <1>5. CounterExact'
    BY <1>3 DEF TypeOK, Return, Goto, CounterExact
  <1>6. GhostsAgree'
    BY <1>1 DEF TypeOK, Return, Goto, GhostsAgree
  <1>7. \A u \in Threads : Passed(u)' = Passed(u)
    BY DEF TypeOK, Return, Goto, Passed
  <1>8. SameRound'
    BY <1>7 DEF SameRound
  <1> QED BY <1>2, <1>4, <1>5, <1>6, <1>8

LEMMA StutterIInv == IInv /\ UNCHANGED vars => IInv'
  BY DEF vars, IInv, SpinInv, TypeOK, CycleFresh, LastAlone, CounterExact, GhostsAgree,
         SameRound, Passed, Arrived, Waiting

LEMMA NextIInv == IInv /\ [Next]_vars => IInv'
  <1> SUFFICES ASSUME IInv, [Next]_vars PROVE IInv'
    OBVIOUS
  <1>1. ASSUME NEW t \in Threads, Enter(t) PROVE IInv'
    BY <1>1, EnterIInv
  <1>2. ASSUME NEW t \in Threads, Inside(t) PROVE IInv'
    BY <1>2, FetchAddIInv, ResetCounterIInv, FlipCycleIInv, SpinExitIInv, ReturnIInv
       DEF Inside
  <1>3. CASE UNCHANGED vars
    BY <1>3, StutterIInv
  <1> QED BY <1>1, <1>2, <1>3 DEF Next, Finished

(* The words of the barrier stay within their ranges: in particular the       *)
(* counter never exceeds the number of participants.                          *)
THEOREM SpinTypeOK == Spec => []TypeOK
  <1>1. IInv => TypeOK
    BY DEF IInv
  <1> QED BY InitIInv, NextIInv, <1>1, PTL DEF Spec

(* The invariant the run checks holds for any number of threads and rounds.   *)
THEOREM SpinBarrierInv == Spec => []SpinInv
  <1>1. IInv => SpinInv
    BY DEF IInv
  <1> QED BY InitIInv, NextIInv, <1>1, PTL DEF Spec

(* No call of the barrier returns before every thread made that call.         *)
THEOREM SpinRoundSync == Spec => []RoundSync
  <1>1. IInv => RoundSync
    <2> SUFFICES ASSUME IInv, NEW t \in Threads, NEW u \in Threads
                 PROVE rets[t] <= calls[u]
      BY DEF RoundSync
    <2>1. calls[t] \in Nat /\ calls[u] \in Nat /\ rets[t] \in Nat
      BY DEF IInv, TypeOK
    <2>2. rets[t] <= Passed(t)
      BY <2>1 DEF IInv, SpinInv, GhostsAgree, Passed
    <2>3. Passed(t) = Passed(u) /\ Passed(u) <= calls[u] /\ Passed(t) \in Int
      BY <2>1 DEF IInv, SpinInv, SameRound, Passed
    <2> QED BY <2>1, <2>2, <2>3
  <1> QED BY InitIInv, NextIInv, <1>1, PTL DEF Spec

------------------------------------------------------------------------------
(* The refinement: what each step of the spin barrier is to the abstract one. *)

(* The arrivals and the blocked threads of the abstract barrier. *)
InCall == {t \in Threads : pc[t] \in {"spin", "ret"}}

(* A thread that is not the last arrives and blocks with its addition; the    *)
(* last one's addition is not visible yet.                                    *)
LEMMA FetchAddSimulates ==
  ASSUME IInv, NEW t \in Threads, FetchAdd(t)
  PROVE  Abstract!Arrive(t) \/ UNCHANGED Abstract!vars
  <1> USE DEF IInv, SpinInv
  <1>1. pc[t] = "add" /\ mycycle[t] = cycle
    BY DEF FetchAdd, CycleFresh
  <1>2. counter = N - 1 <=> Waiting \union {t} = Threads
    BY <1>1, BeforeFetchAdd
  <1>3. CASE counter = N - 1
    <2>1. InCall' = InCall /\ Waiting' = Waiting
      BY <1>1, <1>3 DEF TypeOK, FetchAdd, Goto, InCall, Waiting
    <2> QED BY <2>1 DEF Abstract!vars, InCall
  <1>4. CASE counter # N - 1
    <2>1. InCall' = InCall \union {t} /\ t \notin InCall
      BY <1>1, <1>4 DEF TypeOK, FetchAdd, Goto, InCall
    <2>2. Waiting' = Waiting \union {t}
      BY <1>1, <1>4 DEF TypeOK, FetchAdd, Goto, Waiting
    <2> QED BY <1>2, <1>4, <2>1, <2>2 DEF Abstract!Arrive, InCall
  <1> QED BY <1>3, <1>4

(* The last thread arrives when it flips the cycle, and releases everybody.   *)
LEMMA FlipCycleSimulates ==
  ASSUME IInv, NEW t \in Threads, FlipCycle(t)
  PROVE  Abstract!Arrive(t)
  <1> USE DEF IInv, SpinInv
  <1>1. pc[t] = "flip" /\ mycycle[t] = cycle /\ cycle' # cycle
    BY DEF TypeOK, FlipCycle, CycleFresh
  <1>2. \A u \in Threads \ {t} : pc[u] = "spin" /\ mycycle[u] = cycle
    BY <1>1 DEF LastAlone, Waiting
  <1>3. Waiting \union {t} = Threads
    BY <1>2 DEF Waiting
  <1>4. Waiting' = {}
    BY <1>1, <1>2 DEF TypeOK, FlipCycle, Goto, Waiting
  <1>5. t \notin InCall /\ InCall' = InCall \union {t}
    BY <1>1 DEF TypeOK, FlipCycle, Goto, InCall
  <1> QED BY <1>3, <1>4, <1>5 DEF Abstract!Arrive, InCall

(* A call returns only when the abstract barrier has unblocked the thread.    *)
LEMMA ReturnSimulates ==
  ASSUME IInv, NEW t \in Threads, Return(t)
  PROVE  Abstract!Leave(t)
  <1>1. t \in InCall \ Waiting /\ InCall' = InCall \ {t} /\ Waiting' = Waiting
    BY DEF IInv, TypeOK, Return, Goto, InCall, Waiting
  <1> QED BY <1>1 DEF Abstract!Leave, InCall

(* Every other step of a thread leaves the abstract barrier as it is.         *)
LEMMA InvisibleSteps ==
  ASSUME IInv, NEW t \in Threads, Enter(t) \/ ResetCounter(t) \/ SpinExit(t)
  PROVE  UNCHANGED Abstract!vars
  <1>1. InCall' = InCall /\ Waiting' = Waiting
    BY DEF IInv, TypeOK, Enter, ResetCounter, SpinExit, Goto, InCall, Waiting
  <1> QED BY <1>1 DEF Abstract!vars, InCall

(* The Barrelfish barrier is a barrier: its behaviours, seen through Waiting  *)
(* and InCall, are behaviours of the abstract one, for any number of threads. *)
THEOREM SpinImplementsBarrier == Spec => Abstract!Safe
  <1>1. Init => Abstract!Init
    BY DEF Init, Abstract!Init, Waiting
  <1>2. IInv /\ [Next]_vars => [Abstract!Next]_(Abstract!vars)
    <2> SUFFICES ASSUME IInv, [Next]_vars PROVE [Abstract!Next]_(Abstract!vars)
      OBVIOUS
    <2>1. ASSUME NEW t \in Threads, Enter(t) PROVE UNCHANGED Abstract!vars
      BY <2>1, InvisibleSteps
    <2>2. ASSUME NEW t \in Threads, Inside(t) PROVE Abstract!Next \/ UNCHANGED Abstract!vars
      <3>1. CASE FetchAdd(t)
        BY <3>1, FetchAddSimulates DEF Abstract!Next
      <3>2. CASE FlipCycle(t)
        BY <3>2, FlipCycleSimulates DEF Abstract!Next
      <3>3. CASE Return(t)
        BY <3>3, ReturnSimulates DEF Abstract!Next
      <3>4. CASE ResetCounter(t) \/ SpinExit(t)
        BY <3>4, InvisibleSteps
      <3> QED BY <2>2, <3>1, <3>2, <3>3, <3>4 DEF Inside
    <2>3. CASE UNCHANGED vars
      BY <2>3 DEF vars, Abstract!vars, Waiting
    <2> QED BY <2>1, <2>2, <2>3 DEF Next, Finished
  <1> QED BY InitIInv, NextIInv, <1>1, <1>2, PTL DEF Spec, Abstract!Safe

==============================================================================
