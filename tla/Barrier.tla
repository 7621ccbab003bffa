------------------------------- MODULE Barrier -------------------------------
(***************************************************************************)
(* What plat_thread_barrier promises its callers (src/platform/linux.c     *)
(* 538-546): a call returns only after every participating thread has      *)
(* called, and the barrier is at once ready for the next round.  On Linux  *)
(* the waiting is done by pthread_barrier_wait of the C library, modelled  *)
(* here from its use; Barrelfish brings its own, modelled step by step in  *)
(* SpinBarrier, which implements this module.                              *)
(***************************************************************************)
CONSTANT Threads   \* the participants the barrier was initialised for

VARIABLES
  inside,    \* threads inside a call of plat_thread_barrier
  blocked    \* those of them that may not return yet

vars == <<inside, blocked>>

Init == inside = {} /\ blocked = {}

(* A call.  The last thread to arrive releases all the others. *)
Arrive(t) ==
  /\ t \notin inside
  /\ inside' = inside \union {t}
  /\ blocked' = IF blocked \union {t} = Threads THEN {} ELSE blocked \union {t}

(* The return of the call. *)
Leave(t) ==
  /\ t \in inside \ blocked
  /\ inside' = inside \ {t}
  /\ UNCHANGED blocked

Next == \E t \in Threads : Arrive(t) \/ Leave(t)

Safe == Init /\ [][Next]_vars

(* A thread that was released is scheduled until it returns. *)
Spec == Safe /\ \A t \in Threads : WF_vars(Leave(t))
==============================================================================
