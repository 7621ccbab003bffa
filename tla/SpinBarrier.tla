----------------------------- MODULE SpinBarrier -----------------------------
(***************************************************************************)
(* The barrier of the Barrelfish port, src/platform/barrelfish.c 724-761:  *)
(* a counter of the arrivals and a sense ("cycle") the waiters spin on.    *)
(* One action per access to the shared words, in program order; the words  *)
(* are volatile, the increment is one atomic instruction.  The 0x400-spin  *)
(* yield only gives up the processor and is a stuttering step.             *)
(***************************************************************************)
EXTENDS Integers, FiniteSets

CONSTANTS
  Threads,    \* the max_count participants
  MaxCalls    \* bound: the calls one thread makes

ASSUME SpinAssumption ==
  IsFiniteSet(Threads) /\ Threads # {} /\ MaxCalls \in Nat

N == Cardinality(Threads)

VARIABLES
  cycle,      \* barrier->cycle
  counter,    \* barrier->counter
  pc,         \* the next statement of each thread; "out": not in the call
  mycycle,    \* the local variable cycle of each thread
  calls,      \* ghost: calls made by each thread
  rets        \* ghost: calls of each thread that returned

vars == <<cycle, counter, pc, mycycle, calls, rets>>

PCs == {"out", "add", "reset", "flip", "spin", "ret"}

TypeOK ==
  /\ cycle \in {0, 1}
  /\ counter \in 0..N
  /\ pc \in [Threads -> PCs]
  /\ mycycle \in [Threads -> {0, 1}]
  /\ calls \in [Threads -> 0..MaxCalls]
  /\ rets \in [Threads -> 0..MaxCalls]

Init ==
  /\ cycle = 0
  /\ counter = 0
  /\ pc = [t \in Threads |-> "out"]
  /\ mycycle = [t \in Threads |-> 0]
  /\ calls = [t \in Threads |-> 0]
  /\ rets = [t \in Threads |-> 0]

Goto(t, to) == pc' = [pc EXCEPT ![t] = to]

(* A plausible slip: the sense is a constant of the thread, not read anew. *)
EnterStale(t) ==
  /\ pc[t] = "out"
  /\ calls[t] < MaxCalls
  /\ calls' = [calls EXCEPT ![t] = @ + 1]
  /\ Goto(t, "add")
  /\ UNCHANGED <<cycle, counter, mycycle, rets>>

(* int cycle = barrier->cycle; *)
Enter(t) ==
  /\ pc[t] = "out"
  /\ calls[t] < MaxCalls
  /\ mycycle' = [mycycle EXCEPT ![t] = cycle]
  /\ calls' = [calls EXCEPT ![t] = @ + 1]
  /\ Goto(t, "add")
  /\ UNCHANGED <<cycle, counter, rets>>

(* A plausible slip: the barrier opens one arrival too early. *)
FetchAddEarly(t) ==
  /\ pc[t] = "add"
  /\ counter' = counter + 1
  /\ Goto(t, IF counter + 2 >= N THEN "reset" ELSE "spin")
  /\ UNCHANGED <<cycle, mycycle, calls, rets>>

(* __sync_fetch_and_add(&barrier->counter, 1) == barrier->max - 1 *)
FetchAdd(t) ==
  /\ pc[t] = "add"
  /\ counter' = counter + 1
  /\ Goto(t, IF counter = N - 1 THEN "reset" ELSE "spin")
  /\ UNCHANGED <<cycle, mycycle, calls, rets>>

(* A plausible slip: the counter is not reset. *)
NoReset(t) ==
  /\ pc[t] = "reset"
  /\ Goto(t, "flip")
  /\ UNCHANGED <<cycle, counter, mycycle, calls, rets>>

(* barrier->counter = 0; *)
ResetCounter(t) ==
  /\ pc[t] = "reset"
  /\ counter' = 0
  /\ Goto(t, "flip")
  /\ UNCHANGED <<cycle, mycycle, calls, rets>>

(* barrier->cycle = !barrier->cycle; *)
FlipCycle(t) ==
  /\ pc[t] = "flip"
  /\ cycle' = 1 - cycle
  /\ Goto(t, "ret")
  /\ UNCHANGED <<counter, mycycle, calls, rets>>

(* while (cycle == barrier->cycle) comes to its end. *)
SpinExit(t) ==
  /\ pc[t] = "spin"
  /\ mycycle[t] # cycle
  /\ Goto(t, "ret")
  /\ UNCHANGED <<cycle, counter, mycycle, calls, rets>>

(* return 0; *)
Return(t) ==
  /\ pc[t] = "ret"
  /\ Goto(t, "out")
  /\ rets' = [rets EXCEPT ![t] = @ + 1]
  /\ UNCHANGED <<cycle, counter, mycycle, calls>>

(* The code of the barrier proper: what runs once a thread has entered it. *)
Inside(t) ==
  \/ FetchAdd(t)
  \/ ResetCounter(t)
  \/ FlipCycle(t)
  \/ SpinExit(t)
  \/ Return(t)

(* Bound reached: every thread made and finished its MaxCalls calls. *)
Finished ==
  /\ \A t \in Threads : pc[t] = "out" /\ calls[t] = MaxCalls
  /\ UNCHANGED vars

Next ==
  \/ \E t \in Threads : Enter(t)
  \/ \E t \in Threads : Inside(t)
  \/ Finished

(* A thread inside the call keeps running (it yields while it spins); nothing *)
(* makes a thread call.                                                       *)
Spec == Init /\ [][Next]_vars /\ \A t \in Threads : WF_vars(Inside(t))

------------------------------------------------------------------------------
(* No call returns before every thread has made the call of that round: what  *)
(* the benchmarks rely on when they start to measure after line 46 of         *)
(* mapunmap.c and tear down after line 219.                                   *)
RoundSync == \A t, u \in Threads : rets[t] <= calls[u]

(* When every thread has made its k-th call, every thread's k-th call         *)
(* eventually returns, however fast the released threads come back for the    *)
(* next round and overwrite counter and cycle.                                *)
RoundsComplete ==
  \A k \in 1..MaxCalls :
    (\A u \in Threads : calls[u] >= k) ~> (\A u \in Threads : rets[u] >= k)

(* The threads that spin on a cycle that has not changed yet. *)
Waiting == {t \in Threads : pc[t] = "spin" /\ mycycle[t] = cycle}

(* The spin barrier implements the abstract one: a thread has arrived when it *)
(* spins, the last one when it flips the cycle, which releases everybody.     *)
Abstract == INSTANCE Barrier WITH
  inside <- {t \in Threads : pc[t] \in {"spin", "ret"}},
  blocked <- Waiting
ImplementsBarrier == Abstract!Spec

------------------------------------------------------------------------------
(* The rounds thread t has been let through, returned from or not. *)
Passed(t) ==
  IF pc[t] \in {"out", "ret"} \/ (pc[t] = "spin" /\ mycycle[t] # cycle)
  THEN calls[t] ELSE calls[t] - 1

(* The arrivals the counter counts. *)
Arrived == Waiting \union {t \in Threads : pc[t] = "reset"}

(* Whoever has not been let through read the current cycle; *)
CycleFresh == \A t \in Threads : pc[t] \in {"add", "reset", "flip"} => mycycle[t] = cycle
(* the last arrival finds every other thread waiting; *)
LastAlone ==
  \A t \in Threads : pc[t] \in {"reset", "flip"} => Threads \ {t} \subseteq Waiting
(* counter is the number of arrivals of this round; *)
CounterExact ==
  counter = IF \E t \in Threads : pc[t] = "flip" THEN 0 ELSE Cardinality(Arrived)
(* the ghost counters agree with the control state; *)
GhostsAgree ==
  \A t \in Threads : rets[t] = IF pc[t] = "out" THEN calls[t] ELSE calls[t] - 1
(* and no thread is a round ahead of another. *)
SameRound == \A t, u \in Threads : Passed(t) = Passed(u)

(* Inductive: every access of a released thread to counter and cycle finds    *)
(* them as the round it is in needs them.                                     *)
SpinInv == CycleFresh /\ LastAlone /\ CounterExact /\ GhostsAgree /\ SameRound
==============================================================================
