------------------------------- MODULE Program -------------------------------
(***************************************************************************)
(* The whole process: main (Launch), with plat_init (BfInit) and a         *)
(* benchmark (BfRun) on Barrelfish, and what goes on beside it.            *)
(***************************************************************************)
EXTENDS BfRun

vars == <<launch, span, run>>

Init == LaunchInit /\ BfInitInit /\ BfRunInit

Main ==
  \/ LaunchNext /\ UNCHANGED <<span, run>>
  \/ MainInit /\ UNCHANGED run
  \/ MainRun

Beside == Remote /\ UNCHANGED run

Next ==
  \/ Main
  \/ Beside
  \/ \E t \in DOMAIN worker : Worker(t)

(* Main runs, dispatchers come up and call back, threads are scheduled.       *)
Spec == Init /\ [][Next]_vars /\ WF_vars(Main) /\ WF_vars(Beside)

TypeOK ==
  /\ port \in Ports /\ machine \in {i.machine : i \in Inputs}
  /\ phase \in {"options", "topology", "init", "cnode", "span", "wait", "remote",
                "remote_wait", "config", "dispatch", "prepare", "start", "cancel", "join",
                "report", "exited", "aborted", "crashed"}
  /\ size \in Nat
  /\ turn \in 0..size
  /\ cores_initialized \in 1..(size + 1)
  /\ init_sem \in 0..1
  /\ memobj_slot \in 0..size
  /\ caps \subseteq 0..(memobj_slot - 1)
  /\ ended \in 0..started /\ started \in 0..size
  /\ result \in {"none", "ok", "error"}
  /\ status \in {"none", "success", "failure"}

------------------------------------------------------------------------------
(* Main drops the result of plat_init and goes on.  Still no worker ever maps *)
(* memory after a failed one: the capability cannot be stored, nor sent.      *)
NoMapWithoutInit == (\E t \in DOMAIN maps : maps[t] > 0) => initret = "ok"
InitBeforeUse == SpannedToAll /\ NoMapWithoutInit

(* While no core is listed twice, a vregion backs one mapping at most, lies   *)
(* within a buffer, and is not handed out again.  (Threads of one core share  *)
(* its buffer without any lock.)                                              *)
Backing(t) == vregs[t] \union (IF worker[t] \in {"taken", "link"} THEN {taken[t]} ELSE {})
VregionsDistinct ==
  DistinctCores =>
    \A t \in DOMAIN worker :
      /\ \A v \in Backing(t) : v.buf \in 1..nbufs /\ v.pos \in 0..(NumVregions - 1)
      /\ worker[t] \in {"taken", "link"} => taken[t] \notin vregs[t]
      /\ \A u \in DOMAIN worker \ {t} : Backing(t) \intersect Backing(u) = {}
==============================================================================
