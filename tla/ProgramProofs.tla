--------------------------- MODULE ProgramProofs ---------------------------
(***************************************************************************)
(* Proofs about the whole process, for every machine, command line and set *)
(* of failing calls: what plat_init on Barrelfish promises, that main,     *)
(* which does not look at its result, can rely on it all the same, that    *)
(* the pools of vregions serve the workers without mixing them up, that    *)
(* all counters stay in range, and on which machines plat_get_topology     *)
(* makes the list of cores it is meant to make.                            *)
(***************************************************************************)
EXTENDS Program, FiniteSetTheorems, TLAPS

(* Before any dispatcher is requested, while plat_init spans the cores, what  *)
(* main does after it, and the end.                                           *)
Before == {"options", "topology", "init", "cnode"}
Spanning == {"span", "wait", "remote", "remote_wait"}
After == {"config", "dispatch", "prepare", "start", "cancel", "join", "report"}
Over == {"exited", "aborted", "crashed"}

PhaseInv ==
  /\ phase \in Before \union Spanning \union After \union Over
  /\ phase \in Before \union Spanning => initret = "none"
  /\ phase \in Before =>
       /\ cnode = FALSE /\ turn = 0 /\ init_sem = 0 /\ cores_initialized = 1
       /\ request = <<>> /\ remote = <<>> /\ abort = "none"
  /\ phase \in After /\ cnode => initret = "ok"

(* The dispatchers and remote threads, entry by entry.                        *)
Ready(s) == remote[s] = "done" /\ Up(coreslist[s])
RemoteInv ==
  /\ phase \in Spanning \/ initret = "ok" =>
       /\ request \in [Entries -> {"none", "asked", "up", "called"}]
       /\ remote \in [Entries -> {"none", "live", "done"}]
  /\ phase \in Spanning => turn \in Nat
  /\ phase \in Spanning \ {"span"} => size \in Nat
  /\ phase = "span" => init_sem = 0 /\ \A s \in Entries : remote[s] = "none"
  /\ phase = "wait" => turn = 0 /\ init_sem = 0 /\ \A s \in Entries : remote[s] = "none"
  /\ phase = "remote" =>
       /\ init_sem = 0
       /\ \A s \in Entries : IF s < turn THEN Ready(s) ELSE remote[s] = "none"
  /\ phase = "remote_wait" =>
       /\ turn < size
       /\ Up(coreslist[turn]) /\ remote[turn] \in {"live", "done"}
       /\ init_sem = IF remote[turn] = "done" THEN 1 ELSE 0
       /\ \A s \in Entries \ {turn} : IF s < turn THEN Ready(s) ELSE remote[s] = "none"
  /\ SpannedToAll

(* Only a completed plat_init leads to a memory object that can be mapped.    *)
CapsInv == (caps # {} => initret = "ok") /\ NoMapWithoutInit

InitInv == PhaseInv /\ RemoteInv /\ CapsInv

------------------------------------------------------------------------------
(* What main does outside of plat_init: the list of cores is settled before   *)
(* plat_init, and nobody goes back.                                           *)
LEMMA LaunchPhases ==
  ASSUME LaunchNext
  PROVE  \/ /\ phase \in {"options", "topology"}
            /\ phase' \in {"options", "topology", "init", "exited", "crashed"}
         \/ /\ UNCHANGED <<coreslist, size>>
            /\ phase \in {"init"} \union After
            /\ phase' \in After \union Over
<1>1. CASE ParseOption
  <2>1. phase = "options" /\ phase' \in {"options", "exited"}
    BY <1>1 DEF ParseOption, SetField, ParseCoresList, Exit, options
  <2>. QED  BY <2>1
<1>2. CASE OptionsDone
  BY <1>2 DEF OptionsDone, Exit
<1>3. CASE TopologyNuma \/ TopologyFallback \/ TopologyNodeFails \/ TopologyFails
  BY <1>3 DEF TopologyNuma, TopologyFallback, TopologyNodeFails, TopologyFails,
              TakeList, Crash, Exit
<1>4. CASE LinuxInit \/ Configure \/ Dispatch \/ LinuxBenchmark \/ Report
  BY <1>4 DEF LinuxInit, Configure, Dispatch, LinuxBenchmark, Report, Exit, Crash, options,
              After, Over
<1>. QED  BY <1>1, <1>2, <1>3, <1>4 DEF LaunchNext

LEMMA LaunchKeeps ==
  ASSUME InitInv, LaunchNext, UNCHANGED <<span, run>>
  PROVE  InitInv'
<1>1. PhaseInv'
  BY LaunchPhases DEF InitInv, PhaseInv, Before, Spanning, After, Over, span
<1>2. RemoteInv'
  <2>1. CASE phase \in {"options", "topology"}
    <3>1. phase' \notin Spanning /\ initret' = "none"
      BY <2>1, LaunchPhases DEF InitInv, PhaseInv, Before, Spanning, After, Over, span
    <3>. QED  BY <3>1 DEF RemoteInv, SpannedToAll, Spanning
  <2>2. CASE phase \notin {"options", "topology"}
    <3>1. UNCHANGED <<coreslist, size, span>> /\ phase' \notin Spanning
      BY <2>2, LaunchPhases DEF After, Over, Spanning
    <3>. QED
      BY <3>1 DEF InitInv, RemoteInv, SpannedToAll, Ready, Up, Entries, Spanning, span
  <2>. QED  BY <2>1, <2>2
<1>3. CapsInv'
  BY DEF InitInv, CapsInv, NoMapWithoutInit, run, objects, mappings, span
<1>. QED  BY <1>1, <1>2, <1>3 DEF InitInv

------------------------------------------------------------------------------
(* The steps of plat_init *)

LEMMA ConnectSkbKeeps ==
  ASSUME InitInv, ConnectSkb, UNCHANGED run
  PROVE  InitInv'
<1>1. PhaseInv'
  BY DEF InitInv, PhaseInv, ConnectSkb, Step, OtherThanPhase, Before, Spanning, After, Over
<1>2. RemoteInv'
  BY DEF InitInv, PhaseInv, RemoteInv, SpannedToAll, ConnectSkb, Step, Before, Spanning
<1>3. CapsInv'
  BY DEF InitInv, PhaseInv, CapsInv, NoMapWithoutInit, ConnectSkb, Step, Before,
         run, objects, mappings
<1>. QED  BY <1>1, <1>2, <1>3 DEF InitInv

LEMMA CreateCnodeKeeps ==
  ASSUME InitInv, CreateCnode, UNCHANGED run
  PROVE  InitInv'
<1>1. PhaseInv'
  BY DEF InitInv, PhaseInv, CreateCnode, Step, Before, Spanning, After, Over
<1>2. RemoteInv'
  <2>1. initret' # "ok"
    BY DEF InitInv, PhaseInv, CreateCnode, Step, Before
  <2>2. CASE phase' = "span"
    <3>1. /\ request' = [s \in Entries |-> "none"] /\ remote' = [s \in Entries |-> "none"]
          /\ turn = 0 /\ init_sem = 0 /\ UNCHANGED <<turn, init_sem, coreslist, size>>
      BY <2>2 DEF InitInv, PhaseInv, CreateCnode, Step, OtherThanPhase, options, Before
    <3>. QED  BY <2>1, <2>2, <3>1 DEF RemoteInv, SpannedToAll, Spanning, Entries
  <2>3. CASE phase' # "span"
    BY <2>1, <2>3 DEF RemoteInv, SpannedToAll, CreateCnode, Step, Spanning
  <2>. QED  BY <2>2, <2>3
<1>3. CapsInv'
  BY DEF InitInv, PhaseInv, CapsInv, NoMapWithoutInit, CreateCnode, Step, Before,
         run, objects, mappings
<1>. QED  BY <1>1, <1>2, <1>3 DEF InitInv

LEMMA SpanOneKeeps ==
  ASSUME InitInv, SpanOne, UNCHANGED run
  PROVE  InitInv'
<1>1. PhaseInv'
  BY DEF InitInv, PhaseInv, SpanOne, Step, Before, Spanning, After, Over
<1>2. RemoteInv'
  <2>1. phase = "span" /\ initret' # "ok" /\ phase' \in {"span", "aborted"}
    BY DEF InitInv, PhaseInv, SpanOne, Step, Spanning
  <2>2. CASE phase' = "span"
    <3>1. /\ turn' = turn + 1 /\ UNCHANGED <<coreslist, size, remote, init_sem>>
      BY <2>2 DEF SpanOne, Step, OtherThanPhase, options
    <3>2. PICK a \in {"called", "asked"} : request' = [request EXCEPT ![turn] = a]
      BY <2>2 DEF SpanOne, Step, Answers
    <3>3. request' \in [Entries -> {"none", "asked", "up", "called"}]
      BY <2>1, <3>2 DEF InitInv, RemoteInv, Spanning
    <3>. QED
      BY <2>1, <2>2, <3>1, <3>3 DEF InitInv, RemoteInv, SpannedToAll, Spanning, Entries
  <2>3. CASE phase' # "span"
    BY <2>1, <2>3 DEF RemoteInv, SpannedToAll, Spanning
  <2>. QED  BY <2>2, <2>3
<1>3. CapsInv'
  BY DEF InitInv, CapsInv, NoMapWithoutInit, SpanOne, run, objects, mappings
<1>. QED  BY <1>1, <1>2, <1>3 DEF InitInv

LEMMA SpanDoneKeeps ==
  ASSUME InitInv, SpanDone \/ WaitDone, UNCHANGED run
  PROVE  InitInv'
<1>1. PhaseInv'
  BY DEF InitInv, PhaseInv, SpanDone, WaitDone, Step, span, Before, Spanning, After, Over
<1>2. RemoteInv'
  <2>1. /\ initret' # "ok" /\ turn' = 0
        /\ UNCHANGED <<coreslist, size, request, remote, init_sem>>
        /\ (phase = "span" /\ phase' = "wait" /\ turn = size)
             \/ (phase = "wait" /\ phase' = "remote")
    BY DEF InitInv, PhaseInv, RemoteInv, SpanDone, WaitDone, Step, OtherThanPhase, options, span,
           Spanning
  <2>. QED  BY <2>1 DEF InitInv, RemoteInv, SpannedToAll, Spanning, Entries
<1>3. CapsInv'
  BY DEF InitInv, CapsInv, NoMapWithoutInit, SpanDone, WaitDone, span, run, objects, mappings
<1>. QED  BY <1>1, <1>2, <1>3 DEF InitInv

LEMMA CreateRemoteKeeps ==
  ASSUME InitInv, CreateRemote, UNCHANGED run
  PROVE  InitInv'
<1>1. PhaseInv'
  BY DEF InitInv, PhaseInv, CreateRemote, Step, Before, Spanning, After, Over
<1>2. RemoteInv'
  <2>1. phase = "remote" /\ initret' # "ok" /\ phase' \in {"remote_wait", "aborted"}
    BY DEF InitInv, PhaseInv, CreateRemote, Step, Spanning
  <2>2. CASE phase' = "remote_wait"
    <3>1. /\ turn < size /\ Up(coreslist[turn])
          /\ remote' = [remote EXCEPT ![turn] = "live"]
          /\ UNCHANGED <<coreslist, size, request, turn, init_sem, initret>>
      BY <2>2 DEF CreateRemote, Step, OtherThanPhase, options
    <3>2. turn \in Entries
      BY <2>1, <3>1 DEF InitInv, RemoteInv, Spanning, Entries
    <3>. QED
      BY <2>1, <2>2, <3>1, <3>2
         DEF InitInv, RemoteInv, SpannedToAll, Ready, Up, Spanning, Entries
  <2>3. CASE phase' # "remote_wait"
    BY <2>1, <2>3 DEF RemoteInv, SpannedToAll, Spanning
  <2>. QED  BY <2>2, <2>3
<1>3. CapsInv'
  BY DEF InitInv, CapsInv, NoMapWithoutInit, CreateRemote, run, objects, mappings
<1>. QED  BY <1>1, <1>2, <1>3 DEF InitInv

LEMMA SemWaitKeeps ==
  ASSUME InitInv, SemWait, UNCHANGED run
  PROVE  InitInv'
<1>1. PhaseInv'
  BY DEF InitInv, PhaseInv, SemWait, Step, Before, Spanning, After, Over
<1>2. RemoteInv'
  <2>1. /\ phase = "remote_wait" /\ phase' = "remote" /\ initret' # "ok"
        /\ turn' = turn + 1 /\ init_sem > 0 /\ init_sem' = init_sem - 1
        /\ UNCHANGED <<coreslist, size, request, remote, initret>>
    BY DEF InitInv, PhaseInv, SemWait, Step, OtherThanPhase, options, Spanning
  <2>2. remote[turn] = "done" /\ init_sem' = 0
    BY <2>1 DEF InitInv, RemoteInv
  <2>. QED
    BY <2>1, <2>2 DEF InitInv, RemoteInv, SpannedToAll, Ready, Up, Spanning, Entries
<1>3. CapsInv'
  BY DEF InitInv, CapsInv, NoMapWithoutInit, SemWait, run, objects, mappings
<1>. QED  BY <1>1, <1>2, <1>3 DEF InitInv

LEMMA SpannedAllKeeps ==
  ASSUME InitInv, SpannedAll, UNCHANGED run
  PROVE  InitInv'
<1>1. PhaseInv'
  BY DEF InitInv, PhaseInv, SpannedAll, Step, Before, Spanning, After, Over
<1>2. RemoteInv'
  <2>1. /\ phase = "remote" /\ phase' = "config" /\ turn = size
        /\ UNCHANGED <<coreslist, size, request, remote>>
    BY DEF SpannedAll, Step, OtherThanPhase, options
  <2>. QED
    BY <2>1 DEF InitInv, RemoteInv, SpannedToAll, Ready, Up, Spanning, Entries
<1>3. CapsInv'
  BY DEF CapsInv, NoMapWithoutInit, SpannedAll
<1>. QED  BY <1>1, <1>2, <1>3 DEF InitInv

(* A dispatcher that has come up, or called back, stays.                      *)
LEMMA RequestKeeps ==
  ASSUME InitInv, NEW s \in DOMAIN request, NEW r \in {"up", "called"},
         request' = [request EXCEPT ![s] = r],
         UNCHANGED <<phase, coreslist, size, remote, turn, init_sem, initret, cnode, run>>
  PROVE  InitInv'
<1>1. phase \notin Before
  BY DEF InitInv, PhaseInv
<1>2. PhaseInv'
  BY <1>1 DEF InitInv, PhaseInv
<1>3. \A c : Up(c) => Up(c)'
  BY DEF Up
<1>4. RemoteInv'
  <2>1. phase \in Spanning \/ initret = "ok" =>
          (request \in [Entries -> {"none", "asked", "up", "called"}])'
    BY DEF InitInv, RemoteInv, Entries
  <2>2. \A q \in Entries : Ready(q) => Ready(q)'
    BY <1>3 DEF Ready
  <2>. QED
    BY <1>3, <2>1, <2>2 DEF InitInv, RemoteInv, SpannedToAll, Ready, Entries
<1>5. CapsInv'
  BY DEF InitInv, CapsInv, NoMapWithoutInit, run, objects, mappings
<1>. QED  BY <1>2, <1>4, <1>5 DEF InitInv

(* Dispatchers only come up, and a thread is there only while main waits.     *)
LEMMA RemoteKeeps ==
  ASSUME InitInv, Remote, UNCHANGED run
  PROVE  InitInv'
<1>1. ASSUME NEW s \in DOMAIN request, DispatcherUp(s)  PROVE InitInv'
  BY <1>1, RequestKeeps DEF DispatcherUp, launch
<1>2. ASSUME NEW s \in DOMAIN request, DomainInitDone(s)  PROVE InitInv'
  <2>1. CASE request[s] = "up" /\ UNCHANGED phase
    <3>1. /\ request' = [request EXCEPT ![s] = "called"]
          /\ UNCHANGED <<coreslist, size, remote, turn, init_sem, initret, cnode>>
      BY <1>2, <2>1 DEF DomainInitDone, OtherThanPhase, options
    <3>. QED  BY <2>1, <3>1, RequestKeeps
  <2>2. CASE ~(request[s] = "up" /\ UNCHANGED phase)
    <3>1. /\ phase' = "aborted"
          /\ UNCHANGED <<coreslist, size, request, remote, turn, init_sem, initret, cnode>>
      BY <1>2, <2>2 DEF DomainInitDone, OtherThanPhase, options
    <3>2. PhaseInv'
      BY <3>1 DEF PhaseInv, Before, Spanning, After, Over
    <3>3. RemoteInv'
      BY <3>1 DEF InitInv, RemoteInv, SpannedToAll, Ready, Up, Spanning, Entries
    <3>4. CapsInv'
      BY <3>1 DEF InitInv, CapsInv, NoMapWithoutInit, run, objects, mappings
    <3>. QED  BY <3>2, <3>3, <3>4 DEF InitInv
  <2>. QED  BY <2>1, <2>2
<1>3. ASSUME NEW s \in DOMAIN remote, RemoteInit(s)  PROVE InitInv'
  <2>1. /\ remote[s] = "live" /\ remote' = [remote EXCEPT ![s] = "done"]
        /\ init_sem' = init_sem + 1
        /\ UNCHANGED <<phase, coreslist, size, request, turn, initret, cnode>>
    BY <1>3 DEF RemoteInit, launch, options
  <2>2. phase \notin Before
    BY DEF InitInv, PhaseInv
  <2>3. PhaseInv'
    BY <2>1, <2>2 DEF InitInv, PhaseInv
  <2>4. RemoteInv'
    <3>1. CASE phase = "remote_wait"
      <4>1. s = turn /\ s \in Entries
        BY <2>1, <3>1 DEF InitInv, RemoteInv, Ready, Spanning, Entries
      <4>. QED
        BY <2>1, <3>1, <4>1
           DEF InitInv, PhaseInv, RemoteInv, SpannedToAll, Ready, Up, Spanning, Entries
    <3>2. CASE phase \in Spanning \ {"remote_wait"} \/ initret = "ok"
      BY <2>1, <3>2 DEF InitInv, RemoteInv, SpannedToAll, Ready, Spanning, Entries
    <3>3. CASE phase \notin Spanning /\ initret # "ok"
      BY <2>1, <3>3 DEF RemoteInv, SpannedToAll, Spanning
    <3>. QED  BY <3>1, <3>2, <3>3
  <2>5. CapsInv'
    BY <2>1 DEF InitInv, CapsInv, NoMapWithoutInit, run, objects, mappings
  <2>. QED  BY <2>3, <2>4, <2>5 DEF InitInv
<1>. QED  BY <1>1, <1>2, <1>3 DEF Remote

------------------------------------------------------------------------------
(* The benchmark *)

(* Nothing after plat_init touches the dispatchers or the list of cores.      *)
LEMMA RunKeepsInit ==
  ASSUME InitInv, phase \in After, phase' \in After \union Over,
         UNCHANGED <<span, coreslist, size>>, CapsInv'
  PROVE  InitInv'
<1>1. PhaseInv'
  BY DEF InitInv, PhaseInv, Before, Spanning, After, Over, span
<1>2. RemoteInv'
  BY DEF InitInv, RemoteInv, SpannedToAll, Ready, Up, Entries, Spanning, After, Over, span
<1>. QED  BY <1>1, <1>2 DEF InitInv

LEMMA MainRunPhases ==
  ASSUME MainRun
  PROVE  /\ phase \in After /\ phase' \in After \union Over
         /\ UNCHANGED <<span, coreslist, size>>
<1>1. CASE CreateMemobj \/ CreateMemobjFails \/ Prepopulate
  BY <1>1 DEF CreateMemobj, CreateMemobjFails, Prepopulate, Return, GoOn, OtherThanPhase,
              launch, options, After, Over
<1>2. CASE StartThread \/ StartFails \/ StartPanics \/ AllStarted
  BY <1>2 DEF StartThread, StartFails, StartPanics, AllStarted, GoOn, OtherThanPhase,
              launch, options, After, Over
<1>3. CASE CancelThread \/ AllCancelled \/ JoinThread \/ AllJoined
  BY <1>3 DEF CancelThread, AllCancelled, JoinThread, AllJoined, Return, launch, options,
              After, Over
<1>. QED  BY <1>1, <1>2, <1>3 DEF MainRun

LEMMA MainRunKeeps ==
  ASSUME InitInv, MainRun
  PROVE  InitInv'
<1>1. /\ phase \in After /\ phase' \in After \union Over
      /\ UNCHANGED <<span, coreslist, size>>
  BY MainRunPhases
<1>2. CapsInv'
  <2>1. CASE CreateMemobj
    <3>1. phase = "prepare" /\ (cnode \/ UNCHANGED caps) /\ UNCHANGED <<maps, initret>>
      BY <2>1 DEF CreateMemobj, mappings, span
    <3>. QED  BY <3>1 DEF InitInv, PhaseInv, CapsInv, NoMapWithoutInit, After
  <2>2. CASE Prepopulate
    <3>1. maps' = [t \in Entries |-> 0] /\ UNCHANGED <<caps, initret>>
      BY <2>2 DEF Prepopulate, objects, span
    <3>. QED  BY <3>1 DEF InitInv, CapsInv, NoMapWithoutInit
  <2>3. CASE CreateMemobjFails \/ StartThread \/ StartFails \/ StartPanics \/ AllStarted
               \/ CancelThread \/ AllCancelled \/ JoinThread
    <3>1. UNCHANGED <<caps, maps, initret>>
      BY <2>3 DEF CreateMemobjFails, StartThread, StartFails, StartPanics, AllStarted,
                  CancelThread, AllCancelled, JoinThread, run, objects, mappings, span
    <3>. QED  BY <3>1 DEF InitInv, CapsInv, NoMapWithoutInit
  <2>4. CASE AllJoined
    BY <2>4 DEF AllJoined, InitInv, CapsInv, NoMapWithoutInit, mappings, span
  <2>. QED  BY <2>1, <2>2, <2>3, <2>4 DEF MainRun
<1>. QED  BY <1>1, <1>2, RunKeepsInit

(* A worker does not concern itself with main, ...                            *)
LEMMA WorkerLocal ==
  ASSUME NEW t, Worker(t)
  PROVE  Running /\ UNCHANGED <<launch, span, objects, control>>
BY DEF Worker, RunFn, Map, TakeVregion, AdvanceBuffer, MapFixed, MapFails, Unmap, Finish

(* ... and maps the memory object only when it has one. *)
LEMMA WorkerKeeps ==
  ASSUME InitInv, NEW t, Worker(t)
  PROVE  InitInv'
<1>1. phase \in After /\ UNCHANGED <<phase, span, coreslist, size, caps, initret>>
  BY WorkerLocal DEF Running, launch, options, objects, span, After
<1>2. CapsInv'
  <2>1. CASE Map(t) \/ MapFixed(t)
    <3>1. caps # {}
      BY <2>1 DEF Map, MapFixed
    <3>. QED  BY <1>1, <3>1 DEF InitInv, CapsInv, NoMapWithoutInit
  <2>2. CASE ~(Map(t) \/ MapFixed(t))
    <3>1. UNCHANGED maps
      BY <2>2 DEF Worker, RunFn, TakeVregion, AdvanceBuffer, MapFails, Unmap, Finish, mappings
    <3>. QED  BY <1>1, <3>1 DEF InitInv, CapsInv, NoMapWithoutInit
  <2>. QED  BY <2>1, <2>2
<1>. QED  BY <1>1, <1>2, RunKeepsInit

LEMMA InitInvHolds == Spec => []InitInv
<1>1. Init => InitInv
  <2>. SUFFICES ASSUME Init PROVE InitInv
    OBVIOUS
  <2>1. PhaseInv
    BY DEF Init, LaunchInit, BfInitInit, PhaseInv, Before, Spanning, After
  <2>2. RemoteInv
    BY DEF Init, LaunchInit, BfInitInit, RemoteInv, SpannedToAll, Spanning
  <2>3. CapsInv
    BY DEF Init, BfRunInit, CapsInv, NoMapWithoutInit
  <2>. QED  BY <2>1, <2>2, <2>3 DEF InitInv
<1>2. InitInv /\ [Next]_vars => InitInv'
  <2>. SUFFICES ASSUME InitInv, [Next]_vars PROVE InitInv'
    OBVIOUS
  <2>1. CASE LaunchNext /\ UNCHANGED <<span, run>>
    BY <2>1, LaunchKeeps
  <2>2. CASE MainInit /\ UNCHANGED run
    BY <2>2, ConnectSkbKeeps, CreateCnodeKeeps, SpanOneKeeps, SpanDoneKeeps, CreateRemoteKeeps,
       SemWaitKeeps, SpannedAllKeeps DEF MainInit
  <2>3. CASE MainRun
    BY <2>3, MainRunKeeps
  <2>4. CASE Beside
    BY <2>4, RemoteKeeps DEF Beside
  <2>5. CASE \E t \in DOMAIN worker : Worker(t)
    BY <2>5, WorkerKeeps
  <2>6. CASE UNCHANGED vars
    BY <2>6 DEF vars, launch, options, span, run, objects, mappings, InitInv, PhaseInv,
                RemoteInv, SpannedToAll, Ready, Up, Entries, CapsInv, NoMapWithoutInit
  <2>. QED  BY <2>1, <2>2, <2>3, <2>4, <2>5, <2>6 DEF Next, Main
<1>. QED  BY <1>1, <1>2, PTL DEF Spec

(* Once plat_init has succeeded every listed core has a dispatcher and has run*)
(* its thread, and memory is mapped only then (barrelfish.c 76-153): although *)
(* main.c:216 drops the result of plat_init.                                  *)
THEOREM ProgramInitBeforeUse == Spec => []InitBeforeUse
<1>1. InitInv => InitBeforeUse
  BY DEF InitInv, RemoteInv, CapsInv, InitBeforeUse
<1>. QED  BY <1>1, InitInvHolds, PTL

------------------------------------------------------------------------------
(* Counting the callbacks *)

(* The entries whose dispatcher has called back; the own core's never does.   *)
Called == {s \in Entries : request[s] = "called" /\ coreslist[s] # Own}

CountInv ==
  /\ phase \in Spanning /\ DistinctCores =>
       /\ IsFiniteSet(Called) /\ cores_initialized = 1 + Cardinality(Called)
       /\ \A s \in Entries : request[s] \in {"asked", "up"} => coreslist[s] # Own
  /\ phase = "span" => \A s \in Entries \ (0..(turn - 1)) : request[s] = "none"
  /\ phase \in {"remote", "remote_wait"} /\ OwnListedOnce => \A s \in Entries : Up(coreslist[s])
  /\ NoEarlyThread

LEMMA CountIdle ==
  ASSUME CountInv, UNCHANGED <<coreslist, size, request, cores_initialized, abort>>,
         phase' \notin Spanning \/ UNCHANGED <<phase, turn>>
  PROVE  CountInv'
BY DEF CountInv, NoEarlyThread, OwnListedOnce, DistinctCores, Listed0, Entries, Called, Up, Spanning

(* As many callbacks as there are entries but the own one: they are theirs.   *)
LEMMA AllCalled ==
  ASSUME InitInv, CountInv, phase \in Spanning, size \in Nat, OwnListedOnce, cores_initialized >= size
  PROVE  \A s \in Entries : Up(coreslist[s])
<1>1. PICK o \in Entries : coreslist[o] = Own
  BY DEF OwnListedOnce, Listed0
<1>2. IsFiniteSet(Entries) /\ Cardinality(Entries) = size
  BY FS_Interval DEF Entries
<1>3. IsFiniteSet(Entries \ {o}) /\ Cardinality(Entries \ {o}) = size - 1
  BY <1>1, <1>2, FS_RemoveElement
<1>4. Called \subseteq Entries \ {o}
  BY <1>1 DEF Called
<1>5. /\ IsFiniteSet(Called) /\ Cardinality(Called) \in Nat
      /\ cores_initialized = 1 + Cardinality(Called)
  BY FS_CardinalityType DEF CountInv, OwnListedOnce
<1>6. Cardinality(Called) <= Cardinality(Entries \ {o})
  BY <1>3, <1>4, FS_Subset
<1>7. Cardinality(Called) = Cardinality(Entries \ {o})
  BY <1>3, <1>5, <1>6
<1>8. Called = Entries \ {o}
  BY <1>3, <1>4, <1>7, FS_Subset
<1>9. DOMAIN request = Entries
  BY DEF InitInv, RemoteInv
<1>. QED  BY <1>1, <1>8, <1>9 DEF Called, Up

(* A request that is answered at once is the own core's.                      *)
LEMMA SpanOneCounts ==
  ASSUME InitInv, CountInv, SpanOne
  PROVE  CountInv'
<1>1. phase = "span" /\ phase' \in {"span", "aborted"} /\ UNCHANGED <<coreslist, size, cores_initialized>>
  BY DEF SpanOne, Step, OtherThanPhase, options
<1>2. CASE phase' = "span"
  <2>1. turn' = turn + 1 /\ turn \in Nat /\ UNCHANGED abort
    BY <1>1, <1>2 DEF SpanOne, Step, InitInv, RemoteInv, Spanning
  <2>2. PICK a \in Answers(coreslist[turn]) : request' = [request EXCEPT ![turn] = a]
    BY <1>2 DEF SpanOne, Step
  <2>3. request \in [Entries -> {"none", "asked", "up", "called"}]
    BY <1>1 DEF InitInv, RemoteInv, Spanning
  <2>4. \A s \in Entries \ (0..turn) : request'[s] = "none"
    BY <1>1, <2>1, <2>2, <2>3 DEF CountInv
  <2>5. ASSUME DistinctCores
        PROVE  /\ Called' = Called
               /\ \A s \in Entries : request'[s] \in {"asked", "up"} => coreslist[s] # Own
    <3>1. turn \in Entries => request[turn] = "none" /\ coreslist[turn] # Garbage
      BY <1>1, <2>1, <2>5 DEF CountInv, DistinctCores, Listed0
    <3>2. turn \in Entries => IF coreslist[turn] = Own THEN a = "called" ELSE a = "asked"
      BY <3>1 DEF Answers, Own, Garbage
    <3>. QED
      BY <1>1, <2>2, <2>3, <2>5, <3>1, <3>2 DEF Called, CountInv, Spanning, Entries
  <2>. QED
    BY <1>1, <1>2, <2>1, <2>4, <2>5
       DEF CountInv, NoEarlyThread, OwnListedOnce, DistinctCores, Listed0, Entries, Spanning
<1>3. CASE phase' = "aborted"
  BY <1>1, <1>3 DEF SpanOne, Step, CountInv, NoEarlyThread, Spanning
<1>. QED  BY <1>1, <1>2, <1>3

LEMMA MainInitCounts ==
  ASSUME InitInv, CountInv, MainInit
  PROVE  CountInv'
<1>1. CASE ConnectSkb \/ SpanDone \/ SemWait \/ SpannedAll
  <2>1. /\ UNCHANGED <<coreslist, size, request, cores_initialized, abort>>
        /\ \/ phase' \in {"cnode", "config", "wait"}
           \/ phase = "remote_wait" /\ phase' = "remote"
    BY <1>1 DEF ConnectSkb, SpanDone, SemWait, SpannedAll, Step, OtherThanPhase, options
  <2>2. CASE phase' \in {"cnode", "config"}
    BY <2>1, <2>2, CountIdle DEF Spanning
  <2>3. CASE phase' = "wait"
    <3>1. phase = "span"
      BY <1>1, <2>3 DEF ConnectSkb, SpanDone, SemWait, SpannedAll, Step
    <3>. QED
      BY <2>1, <2>3, <3>1 DEF CountInv, NoEarlyThread, OwnListedOnce, DistinctCores, Listed0,
         Entries, Called, Spanning
  <2>4. CASE phase = "remote_wait" /\ phase' = "remote"
    BY <2>1, <2>4 DEF CountInv, NoEarlyThread, OwnListedOnce, DistinctCores, Listed0,
       Entries, Called, Up, Spanning
  <2>. QED  BY <2>1, <2>2, <2>3, <2>4
<1>2. CASE CreateCnode
  <2>1. UNCHANGED <<coreslist, size, cores_initialized, abort>>
    BY <1>2 DEF CreateCnode, OtherThanPhase, options
  <2>2. CASE phase' = "span"
    <3>1. request' = [s \in Entries |-> "none"] /\ cores_initialized = 1 /\ abort = "none"
      BY <1>2, <2>2 DEF CreateCnode, Step, InitInv, PhaseInv, Before
    <3>2. Called' = {} /\ \A s \in Entries : request'[s] = "none"
      BY <2>1, <3>1 DEF Called, Entries
    <3>. QED
      BY <2>1, <2>2, <3>1, <3>2, FS_EmptySet DEF CountInv, NoEarlyThread, Entries
  <2>3. CASE phase' # "span"
    BY <1>2, <2>1, <2>3
       DEF CreateCnode, Step, CountInv, NoEarlyThread, OwnListedOnce, DistinctCores, Listed0,
           Entries, Spanning
  <2>. QED  BY <2>2, <2>3
<1>3. CASE SpanOne
  BY <1>3, SpanOneCounts
<1>4. CASE WaitDone
  <2>1. /\ phase = "wait" /\ phase' = "remote" /\ cores_initialized >= size
        /\ UNCHANGED <<coreslist, size, span>>
    BY <1>4 DEF WaitDone, Step, OtherThanPhase, options
  <2>2. OwnListedOnce => \A s \in Entries : Up(coreslist[s])
    BY <2>1, AllCalled DEF InitInv, RemoteInv, Spanning
  <2>. QED
    BY <2>1, <2>2 DEF CountInv, NoEarlyThread, OwnListedOnce, DistinctCores, Listed0,
       Entries, Called, Up, Spanning, span
<1>5. CASE CreateRemote
  <2>1. /\ phase = "remote" /\ phase' \in {"remote_wait", "aborted"} /\ turn < size
        /\ UNCHANGED <<coreslist, size, request, cores_initialized>>
    BY <1>5 DEF CreateRemote, Step, OtherThanPhase, options
  <2>2. turn \in Entries
    BY <2>1 DEF InitInv, RemoteInv, Spanning, Entries
  <2>3. NoEarlyThread'
    BY <1>5, <2>1, <2>2 DEF CreateRemote, CountInv, NoEarlyThread, OwnListedOnce, DistinctCores,
       Listed0, Entries
  <2>. QED
    BY <2>1, <2>3 DEF CountInv, OwnListedOnce, DistinctCores, Listed0, Entries, Called, Up,
       Spanning
<1>. QED  BY <1>1, <1>2, <1>3, <1>4, <1>5 DEF MainInit

LEMMA RemoteCounts ==
  ASSUME InitInv, CountInv, Remote
  PROVE  CountInv'
<1>1. ASSUME NEW s \in DOMAIN request, DispatcherUp(s)  PROVE CountInv'
  <2>1. /\ request[s] = "asked" /\ request' = [request EXCEPT ![s] = "up"]
        /\ UNCHANGED <<phase, turn, coreslist, size, cores_initialized, abort>>
    BY <1>1 DEF DispatcherUp, launch, options
  <2>2. phase \in Spanning => Called' = Called
    BY <2>1 DEF InitInv, RemoteInv, Called, Entries
  <2>. QED
    BY <2>1, <2>2 DEF InitInv, RemoteInv, CountInv, NoEarlyThread, OwnListedOnce, DistinctCores,
       Listed0, Entries, Up, Spanning
<1>2. ASSUME NEW s \in DOMAIN request, DomainInitDone(s)  PROVE CountInv'
  <2>1. CASE phase' = "aborted" /\ UNCHANGED <<request, cores_initialized>>
    BY <1>2, <2>1 DEF DomainInitDone, OtherThanPhase, options, CountInv, NoEarlyThread,
       OwnListedOnce, DistinctCores, Listed0, Entries, Spanning
  <2>2. CASE /\ request[s] = "up" /\ request' = [request EXCEPT ![s] = "called"]
             /\ cores_initialized' = cores_initialized + 1
             /\ UNCHANGED <<phase, abort>>
    <3>1. UNCHANGED <<turn, coreslist, size>>
      BY <1>2 DEF DomainInitDone, OtherThanPhase, options
    <3>2. CASE phase \in Spanning
      <4>1. s \in Entries /\ request \in [Entries -> {"none", "asked", "up", "called"}]
        BY <3>2 DEF InitInv, RemoteInv
      <4>2. ASSUME DistinctCores
            PROVE  IsFiniteSet(Called') /\ cores_initialized' = 1 + Cardinality(Called')
        <5>1. coreslist[s] # Own /\ s \notin Called
          BY <2>2, <3>2, <4>1, <4>2 DEF CountInv, Called
        <5>2. Called' = Called \union {s}
          BY <2>2, <3>1, <4>1, <5>1 DEF Called, Entries
        <5>3. IsFiniteSet(Called) /\ cores_initialized = 1 + Cardinality(Called)
          BY <3>2, <4>2 DEF CountInv
        <5>4. Cardinality(Called) \in Nat
          BY <5>3, FS_CardinalityType
        <5>5. IsFiniteSet(Called') /\ Cardinality(Called') = Cardinality(Called) + 1
          BY <5>1, <5>2, <5>3, FS_AddElement
        <5>. QED  BY <2>2, <5>3, <5>4, <5>5
      <4>. QED
        BY <2>2, <3>1, <3>2, <4>1, <4>2 DEF CountInv, NoEarlyThread, OwnListedOnce,
           DistinctCores, Listed0, Entries, Up
    <3>3. CASE phase \notin Spanning
      BY <2>2, <3>1, <3>3 DEF CountInv, NoEarlyThread, OwnListedOnce, DistinctCores, Listed0,
         Entries, Spanning
    <3>. QED  BY <3>2, <3>3
  <2>. QED  BY <1>2, <2>1, <2>2 DEF DomainInitDone
<1>3. ASSUME NEW s \in DOMAIN remote, RemoteInit(s)  PROVE CountInv'
  BY <1>3, CountIdle DEF RemoteInit, launch, options
<1>. QED  BY <1>1, <1>2, <1>3 DEF Remote

LEMMA CountInvHolds == Spec => []CountInv
<1>1. Init => CountInv
  BY DEF Init, LaunchInit, BfInitInit, CountInv, NoEarlyThread, Spanning
<1>2. InitInv /\ CountInv /\ [Next]_vars => CountInv'
  <2>. SUFFICES ASSUME InitInv, CountInv, [Next]_vars PROVE CountInv'
    OBVIOUS
  <2>1. CASE LaunchNext /\ UNCHANGED <<span, run>>
    <3>1. phase' \notin Spanning
      BY <2>1, LaunchPhases DEF Spanning, After, Over
    <3>2. phase \in {"options", "topology"} => abort = "none"
      BY DEF InitInv, PhaseInv, Before
    <3>3. CASE phase \in {"options", "topology"}
      BY <2>1, <3>1, <3>2, <3>3 DEF CountInv, NoEarlyThread, Spanning, span
    <3>4. CASE phase \notin {"options", "topology"}
      BY <2>1, <3>1, <3>4, LaunchPhases, CountIdle DEF span
    <3>. QED  BY <3>3, <3>4
  <2>2. CASE MainInit /\ UNCHANGED run
    BY <2>2, MainInitCounts
  <2>3. CASE MainRun
    BY <2>3, MainRunPhases, CountIdle DEF Spanning, After, Over, span
  <2>4. CASE Beside
    BY <2>4, RemoteCounts DEF Beside
  <2>5. CASE \E t \in DOMAIN worker : Worker(t)
    BY <2>5, WorkerLocal, CountIdle DEF launch, options, span
  <2>6. CASE UNCHANGED vars
    BY <2>6, CountIdle DEF vars, launch, options, span
  <2>. QED  BY <2>1, <2>2, <2>3, <2>4, <2>5, <2>6 DEF Next, Main
<1>. QED  BY <1>1, <1>2, InitInvHolds, PTL DEF Spec

(* No thread is sent to a core without a dispatcher when the own core is in   *)
(* the list once (barrelfish.c 59, 120-134): the count that starts at 1 is    *)
(* then exact, for any number of cores and in whatever order they come up.    *)
THEOREM ProgramNoEarlyThread == Spec => []NoEarlyThread
<1>1. CountInv => NoEarlyThread
  BY DEF CountInv
<1>. QED  BY <1>1, CountInvHolds, PTL

------------------------------------------------------------------------------
(* The per-core pools of vregions (alloc_vregion): workers on different cores *)
(* never get the same one, and no buffer is used past its end, for any number *)
(* of workers, any buffer size and any number of mappings.                    *)

Vregion == [buf : Nat, pos : Nat]
Places == {"unborn", "spawned", "idle", "taken", "link", "wild", "exited"}
Early == Before \union Spanning \union {"config", "dispatch", "prepare"}

Shape ==
  /\ nbufs \in Nat
  /\ phase \in Early => worker = <<>>
  /\ worker # <<>> =>
       /\ worker \in [Entries -> Places]
       /\ vregs \in [Entries -> SUBSET Vregion]
       /\ taken \in [Entries -> Vregion]
       /\ pool \in [Listed0 -> Vregion]

(* A vregion lies in a buffer, and before the position of the pool p.         *)
Within(v) == v.buf \in 1..nbufs /\ v.pos < NumVregions
Behind(v, p) == v.buf = p.buf => v.pos < p.pos

(* What a worker holds, and what its core's pool has still to give.           *)
Fine(t) ==
  LET p == pool[coreslist[t]] IN
    /\ p = Null \/ Within(p)
    /\ \A v \in vregs[t] : Within(v) /\ Behind(v, p)
    /\ worker[t] = "taken" => taken[t] = p /\ p # Null
    /\ worker[t] = "link" => Within(taken[t]) /\ Behind(taken[t], p) /\ taken[t] \notin vregs[t]

(* The buffers of a worker: no other worker has anything of them.             *)
Bufs(t) ==
  {v.buf : v \in Backing(t)} \union ({pool[coreslist[t]].buf} \ {0})

PoolInv ==
  /\ Shape
  /\ DistinctCores =>
       /\ \A t \in DOMAIN worker : Fine(t)
       /\ \A t, u \in DOMAIN worker : t # u => Bufs(t) \intersect Bufs(u) = {}

LEMMA PoolInvDistinct == PoolInv => VregionsDistinct
<1>. SUFFICES ASSUME PoolInv, DistinctCores, NEW t \in DOMAIN worker
              PROVE  /\ \A v \in Backing(t) : v.buf \in 1..nbufs /\ v.pos \in 0..(NumVregions - 1)
                     /\ worker[t] \in {"taken", "link"} => taken[t] \notin vregs[t]
                     /\ \A u \in DOMAIN worker \ {t} : Backing(t) \intersect Backing(u) = {}
  BY DEF VregionsDistinct
<1>1. worker # <<>> /\ DOMAIN worker = Entries
  BY DEF PoolInv, Shape
<1>2. /\ vregs[t] \subseteq Vregion /\ taken[t] \in Vregion
      /\ coreslist[t] \in Listed0 /\ pool[coreslist[t]] \in Vregion
  BY <1>1 DEF PoolInv, Shape, Listed0
<1>3. Fine(t)
  BY DEF PoolInv
<1>4. NumVregions \in Nat /\ nbufs \in Nat
  BY BfRunAssumption DEF PoolInv, Shape
<1>5. ASSUME NEW v \in Backing(t)
      PROVE  v.buf \in 1..nbufs /\ v.pos \in 0..(NumVregions - 1)
  <2>1. v \in Vregion /\ Within(v)
    BY <1>2, <1>3, <1>5 DEF Backing, Fine
  <2>. QED  BY <1>4, <2>1 DEF Within, Vregion
<1>6. worker[t] \in {"taken", "link"} => taken[t] \notin vregs[t]
  BY <1>2, <1>3 DEF Fine, Behind, Vregion
<1>7. ASSUME NEW u \in DOMAIN worker \ {t}
      PROVE  Backing(t) \intersect Backing(u) = {}
  BY DEF PoolInv, Bufs
<1>. QED  BY <1>5, <1>6, <1>7

(* Steps that leave the pools and the workers alone.                          *)
LEMMA PoolIdle ==
  ASSUME PoolInv, UNCHANGED <<coreslist, size, worker, vregs, taken, pool, nbufs>>,
         phase' \in Early => phase \in Early
  PROVE  PoolInv'
<1>1. Entries' = Entries /\ Listed0' = Listed0
  BY DEF Entries, Listed0
<1>2. Shape'
  BY <1>1 DEF PoolInv, Shape
<1>3. DistinctCores' <=> DistinctCores
  BY <1>1 DEF DistinctCores
<1>4. \A t : (Fine(t)' <=> Fine(t)) /\ Bufs(t)' = Bufs(t)
  BY DEF Fine, Within, Bufs, Backing
<1>. QED  BY <1>2, <1>3, <1>4 DEF PoolInv

(* The other workers notice nothing of a step of worker t.                    *)
LEMMA OtherWorker ==
  ASSUME PoolInv, DistinctCores, worker # <<>>, NEW u \in DOMAIN worker,
         UNCHANGED coreslist,
         worker'[u] = worker[u], vregs'[u] = vregs[u], taken'[u] = taken[u],
         pool'[coreslist[u]] = pool[coreslist[u]], nbufs' \in {nbufs, nbufs + 1}
  PROVE  Fine(u)' /\ Bufs(u)' = Bufs(u) /\ Bufs(u) \subseteq 1..nbufs
<1>1. Fine(u) /\ nbufs \in Nat /\ u \in Entries
  BY DEF PoolInv, Shape
<1>2. \A v : Within(v) => Within(v)'
  BY <1>1 DEF Within
<1>3. Fine(u)'
  BY <1>1, <1>2 DEF Fine
<1>4. Bufs(u)' = Bufs(u)
  BY DEF Bufs, Backing
<1>5. Bufs(u) \subseteq 1..nbufs
  BY <1>1 DEF Bufs, Backing, Fine, Within, Null
<1>. QED  BY <1>3, <1>4, <1>5

(* A worker's step keeps the pools in order when it leaves itself in order,   *)
(* and takes no buffer but a new one.                                         *)
LEMMA OwnPool ==
  ASSUME PoolInv, Shape', NEW t \in DOMAIN worker,
         UNCHANGED <<coreslist, size>>,
         \A u \in DOMAIN worker \ {t} :
           /\ worker'[u] = worker[u] /\ vregs'[u] = vregs[u] /\ taken'[u] = taken[u]
           /\ DistinctCores => pool'[coreslist[u]] = pool[coreslist[u]],
         nbufs' \in {nbufs, nbufs + 1},
         DistinctCores => Fine(t)' /\ Bufs(t)' \subseteq Bufs(t) \union ({nbufs'} \ {nbufs}),
         DOMAIN worker' = DOMAIN worker
  PROVE  PoolInv'
<1>. SUFFICES ASSUME DistinctCores
              PROVE  /\ \A u \in DOMAIN worker : Fine(u)'
                     /\ \A u, w \in DOMAIN worker : u # w => Bufs(u)' \intersect Bufs(w)' = {}
  BY DEF PoolInv, DistinctCores, Entries, Listed0
<1>1. worker # <<>> /\ nbufs \in Nat
  BY DEF PoolInv, Shape
<1>2. \A u \in DOMAIN worker \ {t} :
        Fine(u)' /\ Bufs(u)' = Bufs(u) /\ Bufs(u) \subseteq 1..nbufs
  BY <1>1, OtherWorker
<1>3. ASSUME NEW u \in DOMAIN worker, NEW w \in DOMAIN worker, u # w
      PROVE  Bufs(u)' \intersect Bufs(w)' = {}
  <2>1. Bufs(u) \intersect Bufs(w) = {}
    BY <1>3 DEF PoolInv
  <2>2. nbufs' \notin (1..nbufs) \/ {nbufs'} \ {nbufs} = {}
    BY <1>1
  <2>3. CASE u # t /\ w # t
    BY <1>2, <2>1, <2>3
  <2>4. CASE u = t
    BY <1>2, <1>3, <2>1, <2>2, <2>4
  <2>5. CASE w = t
    BY <1>2, <1>3, <2>1, <2>2, <2>5
  <2>. QED  BY <2>3, <2>4, <2>5
<1>. QED  BY <1>2, <1>3

------------------------------------------------------------------------------
(* The steps of a worker *)

LEMMA WorkerTyped ==
  ASSUME PoolInv, NEW t \in DOMAIN worker, Worker(t)
  PROVE  /\ worker # <<>> /\ DOMAIN worker = Entries /\ nbufs \in Nat /\ NumVregions \in Nat
         /\ worker \in [Entries -> Places] /\ vregs \in [Entries -> SUBSET Vregion]
         /\ taken \in [Entries -> Vregion] /\ pool \in [Listed0 -> Vregion]
         /\ coreslist[t] \in Listed0
         /\ UNCHANGED <<phase, coreslist, size>> /\ phase \notin Early
         /\ Entries' = Entries /\ Listed0' = Listed0
         /\ DistinctCores => Fine(t)
<1>1. UNCHANGED <<phase, coreslist, size>> /\ phase \notin Early
  BY WorkerLocal DEF launch, options, Running, Early, Before, Spanning
<1>2. Entries' = Entries /\ Listed0' = Listed0
  BY <1>1 DEF Entries, Listed0
<1>3. worker # <<>>
  OBVIOUS
<1>4. DOMAIN worker = Entries
  BY <1>3 DEF PoolInv, Shape
<1>. QED  BY <1>1, <1>2, <1>3, <1>4, BfRunAssumption DEF PoolInv, Shape, Listed0

(* What a worker does outside of alloc_vregion takes nothing new.             *)
LEMMA LetGo ==
  ASSUME PoolInv, NEW t \in DOMAIN worker, Worker(t),
         UNCHANGED <<taken, pool, nbufs>>,
         NEW p \in Places \ {"taken", "link"}, worker' = [worker EXCEPT ![t] = p],
         NEW V \in SUBSET (vregs[t] \union {v \in {taken[t]} : worker[t] = "link"}),
         vregs' = [vregs EXCEPT ![t] = V]
  PROVE  PoolInv'
<1>1. V \subseteq Vregion
  BY WorkerTyped
<1>2. Shape'
  BY <1>1, WorkerTyped DEF Shape, PoolInv
<1>3. \/ Fine(t)' /\ Bufs(t)' \subseteq Bufs(t)
      \/ ~DistinctCores
  BY WorkerTyped DEF Fine, Bufs, Backing, Within, Behind
<1>. QED  BY <1>2, <1>3, WorkerTyped, OwnPool

LEMMA TakeKeeps ==
  ASSUME PoolInv, NEW t \in DOMAIN worker, TakeVregion(t)
  PROVE  PoolInv'
<1>. DEFINE c == coreslist[t]
<1>1. /\ worker[t] = "idle" /\ worker' = [worker EXCEPT ![t] = "taken"]
      /\ taken' = [taken EXCEPT ![t] = pool'[c]] /\ UNCHANGED vregs
  BY DEF TakeVregion, WorkerGoto
<1>2. Worker(t)
  BY DEF Worker
<1>3. CASE pool[c] = Null
  <2>1. nbufs' = nbufs + 1 /\ pool' = [pool EXCEPT ![c] = [buf |-> nbufs + 1, pos |-> 0]]
    BY <1>3 DEF TakeVregion
  <2>2. pool'[c] = [buf |-> nbufs + 1, pos |-> 0] /\ pool' \in [Listed0 -> Vregion]
    BY <1>2, <2>1, WorkerTyped DEF Vregion
  <2>3. Shape'
    BY <1>1, <1>2, <2>1, <2>2, WorkerTyped DEF Shape, Places
  <2>4. ASSUME DistinctCores PROVE Fine(t)'
    <3>1. PICK new : new = [buf |-> nbufs + 1, pos |-> 0]
      OBVIOUS
    <3>2. Within(new)' /\ new # Null
      BY <1>2, <2>1, <3>1, BfRunAssumption, WorkerTyped DEF Within, Null
    <3>3. \A v \in vregs[t] : Within(v)' /\ Behind(v, new)
      BY <1>2, <2>1, <2>4, <3>1, WorkerTyped DEF Fine, Within, Behind
    <3>4. pool'[c] = new /\ taken'[t] = new /\ vregs'[t] = vregs[t] /\ worker'[t] = "taken"
      BY <1>1, <1>2, <2>2, <3>1, WorkerTyped
    <3>. QED
      BY <1>2, <3>2, <3>3, <3>4, WorkerTyped DEF Fine
  <2>5. Bufs(t)' \subseteq Bufs(t) \union {nbufs'}
    BY <1>1, <1>2, <2>1, <2>2, WorkerTyped DEF Bufs, Backing
  <2>6. \A u \in DOMAIN worker \ {t} : DistinctCores => pool'[coreslist[u]] = pool[coreslist[u]]
    BY <1>2, <2>1, WorkerTyped DEF DistinctCores, Listed0
  <2>7. nbufs' # nbufs
    BY <1>2, <2>1, WorkerTyped
  <2>. QED  BY <1>1, <1>2, <2>1, <2>3, <2>4, <2>5, <2>6, <2>7, WorkerTyped, OwnPool
<1>4. CASE pool[c] # Null
  <2>1. UNCHANGED <<nbufs, pool>>
    BY <1>4 DEF TakeVregion
  <2>2. Shape'
    BY <1>1, <1>2, <2>1, WorkerTyped DEF Shape, Places
  <2>3. DistinctCores => Fine(t)'
    BY <1>1, <1>2, <1>4, <2>1, WorkerTyped DEF Fine, Within
  <2>4. Bufs(t)' \subseteq Bufs(t) \/ ~DistinctCores
    BY <1>1, <1>2, <1>4, <2>1, WorkerTyped DEF Bufs, Backing, Fine, Within
  <2>. QED  BY <1>1, <1>2, <2>1, <2>2, <2>3, <2>4, WorkerTyped, OwnPool
<1>. QED  BY <1>3, <1>4

LEMMA AdvanceKeeps ==
  ASSUME PoolInv, NEW t \in DOMAIN worker, AdvanceBuffer(t)
  PROVE  PoolInv'
<1>. DEFINE c == coreslist[t]
<1>q. PICK q : q = Advanced(pool[c])
  OBVIOUS
<1>1. /\ worker[t] = "taken" /\ worker' = [worker EXCEPT ![t] = "link"]
      /\ pool' = [pool EXCEPT ![c] = q] /\ UNCHANGED <<taken, vregs, nbufs>>
  BY <1>q DEF AdvanceBuffer, WorkerGoto
<1>2. Worker(t)
  BY DEF Worker
<1>3. pool[c] \in Vregion /\ q \in Vregion
  BY <1>q, <1>2, WorkerTyped DEF Advanced, Vregion, Null
<1>4. Shape'
  BY <1>1, <1>2, <1>3, WorkerTyped DEF Shape, Places
<1>5. ASSUME DistinctCores
      PROVE  Fine(t)' /\ Bufs(t)' \subseteq Bufs(t)
  <2>1. taken[t] = pool[c] /\ Within(pool[c]) /\ pool[c] \notin vregs[t]
    <3>1. /\ pool[c] = Null \/ Within(pool[c])
          /\ \A v \in vregs[t] : Behind(v, pool[c])
          /\ taken[t] = pool[c] /\ pool[c] # Null
      BY <1>1, <1>2, <1>5, WorkerTyped DEF Fine
    <3>2. ~Behind(pool[c], pool[c])
      BY <1>3 DEF Behind, Vregion
    <3>. QED  BY <3>1, <3>2
  <2>2. pool'[c] = q
    BY <1>1, <1>2, WorkerTyped
  <2>3. CASE q = Null
    <3>1. Fine(t)'
      BY <1>1, <1>2, <1>5, <2>1, <2>2, <2>3, WorkerTyped DEF Fine, Within, Behind, Null
    <3>2. Bufs(t)' \subseteq Bufs(t)
      BY <1>1, <1>2, <2>1, <2>2, <2>3, WorkerTyped DEF Bufs, Backing, Null
    <3>. QED  BY <3>1, <3>2
  <2>4. CASE q # Null
    <3>1. q.buf = pool[c].buf /\ q.pos = pool[c].pos + 1 /\ q.pos < NumVregions
      BY <1>q, <1>2, <1>3, <2>1, <2>4, WorkerTyped DEF Advanced, Within, Vregion, Null
    <3>2. \A v \in vregs[t] : Within(v)' /\ Behind(v, q)
      BY <1>1, <1>2, <1>3, <1>5, <3>1, WorkerTyped DEF Fine, Within, Behind, Vregion
    <3>3. Within(q)' /\ Within(taken[t])' /\ Behind(taken[t], q)
      BY <1>1, <1>2, <1>3, <2>1, <3>1, WorkerTyped DEF Within, Behind, Vregion
    <3>4. Fine(t)'
      BY <1>1, <1>2, <2>1, <2>2, <3>2, <3>3, WorkerTyped DEF Fine
    <3>5. Bufs(t)' \subseteq Bufs(t)
      BY <1>1, <1>2, <2>1, <2>2, <3>1, WorkerTyped DEF Bufs, Backing
    <3>. QED  BY <3>4, <3>5
  <2>. QED  BY <2>3, <2>4
<1>6. \A u \in DOMAIN worker \ {t} : DistinctCores => pool'[coreslist[u]] = pool[coreslist[u]]
  BY <1>1, <1>2, WorkerTyped DEF DistinctCores, Listed0
<1>. QED  BY <1>1, <1>2, <1>4, <1>5, <1>6, WorkerTyped, OwnPool

LEMMA WorkerPool ==
  ASSUME PoolInv, NEW t \in DOMAIN worker, Worker(t)
  PROVE  PoolInv'
<1>1. CASE TakeVregion(t) \/ AdvanceBuffer(t)
  BY <1>1, TakeKeeps, AdvanceKeeps
<1>2. CASE RunFn(t) \/ Map(t) \/ MapFails(t) \/ Finish(t)
  <2>1. UNCHANGED <<taken, pool, nbufs, vregs>>
    BY <1>2 DEF RunFn, Map, MapFails, Finish, mappings
  <2>2. PICK p \in Places \ {"taken", "link"} : worker' = [worker EXCEPT ![t] = p]
    BY <1>2 DEF RunFn, Map, MapFails, Finish, WorkerGoto, Places
  <2>3. vregs' = [vregs EXCEPT ![t] = vregs[t]]
    BY <2>1, WorkerTyped
  <2>. QED  BY <2>1, <2>2, <2>3, LetGo
<1>3. CASE MapFixed(t)
  <2>1. /\ worker[t] = "link" /\ worker' = [worker EXCEPT ![t] = "idle"]
        /\ vregs' = [vregs EXCEPT ![t] = vregs[t] \union {taken[t]}]
        /\ UNCHANGED <<taken, pool, nbufs>>
    BY <1>3 DEF MapFixed, WorkerGoto
  <2>2. "idle" \in Places \ {"taken", "link"}
    BY DEF Places
  <2>3. vregs[t] \union {taken[t]} \in SUBSET (vregs[t] \union {v \in {taken[t]} : worker[t] = "link"})
    BY <2>1
  <2>. QED  BY <2>1, <2>2, <2>3, LetGo
<1>4. CASE Unmap(t)
  <2>1. worker[t] = "idle" /\ UNCHANGED <<worker, taken, pool, nbufs>>
    BY <1>4 DEF Unmap
  <2>2. PICK v \in vregs[t] : vregs' = [vregs EXCEPT ![t] = vregs[t] \ {v}]
    BY <1>4 DEF Unmap
  <2>3. worker' = [worker EXCEPT ![t] = "idle"] /\ "idle" \in Places \ {"taken", "link"}
    BY <2>1, WorkerTyped DEF Places
  <2>. QED  BY <2>1, <2>2, <2>3, LetGo
<1>. QED  BY <1>1, <1>2, <1>3, <1>4 DEF Worker

(* A vregion backs one mapping at most, lies within a buffer and is not handed*)
(* out again, as long as no core is listed twice (barrelfish.c 440-490).      *)
THEOREM ProgramVregionsDistinct == Spec => []VregionsDistinct
<1>1. Init => PoolInv
  <2>. SUFFICES ASSUME Init PROVE PoolInv
    OBVIOUS
  <2>1. worker = <<>> /\ nbufs = 0
    BY DEF Init, BfRunInit
  <2>. QED  BY <2>1 DEF PoolInv, Shape
<1>2. PoolInv /\ InitInv /\ [Next]_vars => PoolInv'
  <2>. SUFFICES ASSUME PoolInv, InitInv, [Next]_vars PROVE PoolInv'
    OBVIOUS
  <2>1. CASE LaunchNext /\ UNCHANGED <<span, run>>
    <3>1. UNCHANGED <<worker, vregs, taken, pool, nbufs>>
      BY <2>1 DEF run, mappings
    <3>2. CASE phase \in {"options", "topology"}
      <4>1. worker = <<>> /\ worker' = <<>> /\ nbufs' = nbufs
        BY <3>1, <3>2 DEF PoolInv, Shape, Early, Before
      <4>. QED  BY <4>1 DEF PoolInv, Shape
    <3>3. CASE phase \notin {"options", "topology"}
      <4>1. UNCHANGED <<coreslist, size>> /\ (phase' \in Early => phase \in Early)
        <5>1. phase' \in Early => phase \in {"init", "config", "dispatch"}
          BY <2>1, <3>3 DEF LaunchNext, ParseOption, OptionsDone, TopologyNuma, TopologyFallback,
             TopologyNodeFails, TopologyFails, LinuxInit, Configure, Dispatch, LinuxBenchmark,
             Report, Exit, Crash, Early, Before, Spanning
        <5>. QED  BY <2>1, <3>3, <5>1, LaunchPhases DEF Early, Before
      <4>. QED  BY <3>1, <4>1, PoolIdle
    <3>. QED  BY <3>2, <3>3
  <2>2. CASE MainInit /\ UNCHANGED run
    <3>1. UNCHANGED <<coreslist, size>> /\ phase \in Early
      BY <2>2 DEF MainInit, ConnectSkb, CreateCnode, SpanOne, SpanDone, WaitDone, CreateRemote,
         SemWait, SpannedAll, Step, OtherThanPhase, options, Early, Before, Spanning
    <3>. QED  BY <2>2, <3>1, PoolIdle DEF run, mappings
  <2>3. CASE MainRun
    <3>1. CASE Prepopulate
      <4>1. /\ phase' \in {"start", "report"} /\ UNCHANGED <<coreslist, size, nbufs>>
            /\ worker' = [t \in Entries |-> "unborn"] /\ vregs' = [t \in Entries |-> {}]
            /\ taken' = [t \in Entries |-> Null] /\ pool' = [c \in Listed0 |-> Null]
        BY <3>1 DEF Prepopulate, Return, GoOn, OtherThanPhase, options
      <4>2. Entries' = Entries /\ Listed0' = Listed0
        BY <4>1 DEF Entries, Listed0
      <4>3. Shape'
        BY <4>1, <4>2 DEF PoolInv, Shape, Places, Vregion, Null, Early, Before, Spanning
      <4>4. \A t \in Entries : Fine(t)' /\ Bufs(t)' = {}
        BY <4>1 DEF Fine, Bufs, Backing, Listed0, Null
      <4>. QED  BY <4>1, <4>3, <4>4 DEF PoolInv
    <3>2. CASE StartThread
      <4>1. /\ worker' = [worker EXCEPT ![started] = "spawned"]
            /\ UNCHANGED <<phase, coreslist, size, vregs, taken, pool, nbufs>>
            /\ phase = "start"
        BY <3>2 DEF StartThread, launch, options, mappings
      <4>2. /\ Entries' = Entries /\ Listed0' = Listed0 /\ DOMAIN worker' = DOMAIN worker
        <5>1. worker = <<>> => DOMAIN worker' = {} /\ DOMAIN worker = {}
          BY <4>1
        <5>2. worker # <<>> => DOMAIN worker' = DOMAIN worker
          BY <4>1 DEF PoolInv, Shape
        <5>. QED  BY <4>1, <5>1, <5>2 DEF Entries, Listed0
      <4>3. Shape'
        <5>1. CASE worker = <<>>
          <6>1. worker' = <<>>
            BY <4>1, <5>1
          <6>. QED  BY <4>1, <6>1 DEF PoolInv, Shape
        <5>2. CASE worker # <<>>
          <6>1. worker' \in [Entries -> Places]
            BY <4>1, <5>2 DEF PoolInv, Shape, Places
          <6>2. phase' \notin Early
            BY <4>1 DEF Early, Before, Spanning
          <6>. QED  BY <4>1, <4>2, <5>2, <6>1, <6>2 DEF PoolInv, Shape, Vregion
        <5>. QED  BY <5>1, <5>2
      <4>4. \A t \in DOMAIN worker : worker'[t] \in {worker[t], "spawned"}
        <5>. SUFFICES ASSUME NEW t \in DOMAIN worker PROVE worker'[t] \in {worker[t], "spawned"}
          OBVIOUS
        <5>1. worker # <<>>
          OBVIOUS
        <5>2. worker \in [Entries -> Places]
          BY <5>1 DEF PoolInv, Shape
        <5>. QED  BY <4>1, <5>2
      <4>5. \A t \in DOMAIN worker : (Fine(t) => Fine(t)') /\ Bufs(t)' \subseteq Bufs(t)
        BY <4>1, <4>4 DEF Fine, Within, Bufs, Backing
      <4>6. DistinctCores' => DistinctCores
        BY <4>1, <4>2 DEF DistinctCores
      <4>. QED  BY <4>2, <4>3, <4>5, <4>6 DEF PoolInv
    <3>3. CASE ~Prepopulate /\ ~StartThread
      <4>1. UNCHANGED <<coreslist, size, worker, vregs, taken, pool, nbufs>>
            /\ (phase' \in Early => phase \in Early)
        BY <2>3, <3>3, MainRunPhases DEF MainRun, CreateMemobj, CreateMemobjFails, StartFails,
           StartPanics, AllStarted, CancelThread, AllCancelled, JoinThread, AllJoined, Return,
           GoOn, run, mappings, launch, Early, Before, Spanning
      <4>. QED  BY <4>1, PoolIdle
    <3>. QED  BY <3>1, <3>2, <3>3
  <2>4. CASE Beside
    <3>1. UNCHANGED <<coreslist, size, run>> /\ (phase' = phase \/ phase' = "aborted")
      BY <2>4 DEF Beside, Remote, DispatcherUp, DomainInitDone, RemoteInit, OtherThanPhase, launch,
         options
    <3>. QED  BY <3>1, PoolIdle DEF run, mappings, Early, Before, Spanning
  <2>5. CASE \E t \in DOMAIN worker : Worker(t)
    BY <2>5, WorkerPool
  <2>6. CASE UNCHANGED vars
    BY <2>6, PoolIdle DEF vars, launch, options, run, mappings
  <2>. QED  BY <2>1, <2>2, <2>3, <2>4, <2>5, <2>6 DEF Next, Main
<1>. QED  BY <1>1, <1>2, PoolInvDistinct, InitInvHolds, PTL DEF Spec
------------------------------------------------------------------------------
(* The variables of the process keep their types.                             *)

(* A list of cores the user gave: what parse_cores_list makes of it.          *)
UserList ==
  /\ size > 0 /\ DOMAIN coreslist = 0..(size - 1)
  /\ source = "user"
  /\ \A s \in 0..(size - 2) : coreslist[s] # Garbage

(* The rest of the command line is one, on the machine it was given for.      *)
Given ==
  \E i \in Inputs : machine = i.machine /\ argv \in Seq({i.argv[k] : k \in DOMAIN i.argv})

(* What main has read of the command line, and still has to read; there is a  *)
(* core to run on from the time the list is settled.                          *)
OptionsInv ==
  /\ ncores \in Nat /\ size \in Nat
  /\ Given
  /\ phase = "options" => coreslist = NoList \/ UserList
  /\ phase = "topology" => coreslist = NoList /\ ncores > 0
  /\ phase \notin {"options", "topology"} \union Over => size > 0

(* What TypeOK says of plat_init and of the benchmark.                        *)
SpanTypes == turn \in 0..size /\ cores_initialized \in 1..(size + 1) /\ init_sem \in 0..1
RunTypes ==
  /\ memobj_slot \in 0..size /\ caps \subseteq 0..(memobj_slot - 1)
  /\ ended \in 0..started /\ started \in 0..size
  /\ result \in {"none", "ok", "error"}

(* The entries that have called back, the own core's included; nobody is      *)
(* called back twice.                                                         *)
Back == {s \in DOMAIN request : request[s] = "called"}
Counted == IsFiniteSet(Back) /\ cores_initialized - 1 <= Cardinality(Back)

(* How far the benchmark is.                                                  *)
ProgressInv ==
  /\ phase \in Before \union Spanning \union {"config", "dispatch"} => memobj_slot = 0 /\ caps = {}
  /\ phase \in Early => started = 0 /\ ended = 0
  /\ phase = "join" => started = size
  /\ phase \in After /\ initret # "ok" => request = <<>> /\ remote = <<>>
  /\ Counted

TypeInv == TypeOK /\ OptionsInv /\ ProgressInv

(* A machine has a core for the process.                                      *)
LEMMA MachineFacts ==
  ASSUME NEW m, IsMachine(m)
  PROVE  /\ IsFiniteSet(m.task) /\ NProc(m) \in Nat \ {0}
         /\ Cardinality(Cores(m)) \in Nat \ {0}
         /\ NNodes(m) \in Nat \ {0}
<1>1. IsFiniteSet(m.task)
  BY FS_Subset DEF IsMachine
<1>2. NProc(m) \in Nat \ {0}
  BY <1>1, FS_CardinalityType, FS_EmptySet DEF IsMachine, NProc
<1>3. Cores(m) # {}
  BY DEF IsMachine
<1>4. Cardinality(Cores(m)) \in Nat \ {0}
  BY <1>3, FS_CardinalityType, FS_EmptySet DEF IsMachine
<1>5. DOMAIN m.nodes # {}
  BY <1>3 DEF Cores
<1>6. NNodes(m) \in Nat \ {0}
  BY <1>5, FS_CardinalityType, FS_EmptySet DEF IsMachine, NNodes
<1>. QED  BY <1>1, <1>2, <1>4, <1>6

LEMMA TheMachine == OptionsInv => IsMachine(machine)
BY LaunchAssumption DEF OptionsInv, Given

(* The lists of plat_get_topology have an entry for every core asked of it.   *)
LEMMA ListLength ==
  ASSUME NEW m, IsMachine(m), NEW p \in {"linux", "barrelfish"}, NEW interleave
  PROVE  /\ DOMAIN Order(p, m, interleave) = 0..(NProc(m) - 1)
         /\ DOMAIN Fallback(p, m) = 0..(Cardinality(Cores(m)) - 1)
         /\ Cardinality(DOMAIN Order(p, m, interleave)) \in Nat \ {0}
         /\ Cardinality(DOMAIN Fallback(p, m)) \in Nat \ {0}
<1>1. DOMAIN Order(p, m, interleave) = 0..(NProc(m) - 1)
  BY DEF Order, LinuxOrder, BarrelfishOrder, Listed
<1>2. DOMAIN Fallback(p, m) = 0..(Cardinality(Cores(m)) - 1)
  BY DEF Fallback, LinuxFallback, BarrelfishFallback
<1>3. \A n \in Nat \ {0} : Cardinality(0..(n - 1)) = n
  <2>1. SUFFICES ASSUME NEW n \in Nat \ {0} PROVE Cardinality(0..(n - 1)) = n
    OBVIOUS
  <2>2. 0 \in Int /\ n - 1 \in Int
    OBVIOUS
  <2>. QED  BY <2>2, FS_Interval
<1>. QED  BY <1>1, <1>2, <1>3, MachineFacts

(* An option read leaves a list of the user's, or no list, and a number.      *)
LEMMA OptionTypes ==
  ASSUME OptionsInv, ParseOption, status \in {"none", "success", "failure"}
  PROVE  /\ OptionsInv' /\ phase = "options" /\ phase' \in {"options", "exited"}
         /\ status' \in {"none", "success", "failure"} /\ UNCHANGED <<environment, result>>
<1>1. PICK i \in Inputs : machine = i.machine /\ argv \in Seq({i.argv[k] : k \in DOMAIN i.argv})
  BY DEF OptionsInv, Given
<1>. DEFINE O == {i.argv[k] : k \in DOMAIN i.argv}
            o == Head(argv)
<1>2. /\ phase = "options" /\ argv # <<>> /\ argv' = Tail(argv) /\ UNCHANGED <<environment, result>>
      /\ ncores \in Nat /\ size \in Nat /\ (coreslist = NoList \/ UserList)
  BY DEF ParseOption, OptionsInv
<1>3. o \in O /\ argv' \in Seq(O)
  <2>1. \A S : \A s \in Seq(S) : s # <<>> => Head(s) \in S /\ Tail(s) \in Seq(S)
    OBVIOUS
  <2>2. argv \in Seq(O)
    BY <1>1
  <2>. HIDE DEF O
  <2>. QED  BY <1>2, <2>1, <2>2
<1>4. IsOption(o)
  BY <1>3, LaunchAssumption
<1>5. /\ ncores' \in Nat /\ size' \in Nat /\ (coreslist' = NoList \/ UserList')
      /\ phase' \in {"options", "exited"} /\ status' \in {"none", "success", "failure"}
  <2>. DEFINE Same == UNCHANGED <<ncores, coreslist, size, source>>
  <2>1. CASE Same /\ phase' \in {"options", "exited"} /\ status' \in {status, "success", "failure"}
    BY <1>2, <2>1 DEF UserList
  <2>2. CASE o.opt = "p" /\ ncores' = o.arg /\ UNCHANGED <<phase, coreslist, size, cfg, source, status>>
    BY <1>2, <1>4, <2>2 DEF UserList, IsOption
  <2>3. CASE o.opt = "c" /\ ParseCoresList(o.arg)
    <3>. DEFINE entries == o.arg
    <3>1. entries \in Seq(Nat \union {Missing, NotADigit})
      BY <1>4, <2>3 DEF IsOption
    <3>2. CASE UNCHANGED <<coreslist, size, source>>
      <4>1. Same /\ phase' \in {"options", "exited"} /\ status' \in {status, "failure"}
        BY <1>2, <2>3, <3>2 DEF ParseCoresList, Exit
      <4>. QED  BY <2>1, <4>1
    <3>3. CASE /\ StartsRight(entries) /\ UNCHANGED <<ncores, phase, status>>
               /\ \A k \in 2..Len(entries) : entries[k] >= 0 \/ (entries[k] = Missing /\ k = Len(entries))
               /\ coreslist' = [s \in 0..(Len(entries) - 1) |->
                                  IF entries[s + 1] = Missing THEN Garbage ELSE entries[s + 1]]
               /\ size' = Len(entries) /\ source' = "user"
      <4>1. entries # <<>> /\ Len(entries) \in Nat /\ Len(entries) > 0 /\ entries[1] >= 0
        BY <3>1, <3>3 DEF StartsRight
      <4>2. ASSUME NEW s \in 0..(Len(entries) - 2) PROVE entries[s + 1] >= 0
        <5>1. s + 1 \in 1..(Len(entries) - 1)
          BY <4>1
        <5>2. CASE s = 0
          BY <4>1, <5>2
        <5>3. CASE s # 0
          BY <3>3, <4>1, <5>1, <5>3
        <5>. QED  BY <5>2, <5>3
      <4>3. \A s \in 0..(Len(entries) - 2) : coreslist'[s] # Garbage
        <5>. SUFFICES ASSUME NEW s \in 0..(Len(entries) - 2) PROVE coreslist'[s] # Garbage
          OBVIOUS
        <5>1. entries[s + 1] >= 0 /\ s + 1 \in 1..Len(entries) /\ s \in 0..(Len(entries) - 1)
          BY <4>1, <4>2
        <5>2. entries[s + 1] \in Nat \union {Missing, NotADigit}
          BY <3>1, <5>1
        <5>. QED  BY <3>3, <5>1, <5>2 DEF Garbage, Missing, NotADigit
      <4>4. UserList'
        BY <3>3, <4>1, <4>3 DEF UserList
      <4>. QED  BY <1>2, <3>3, <4>1, <4>4
    <3>. QED  BY <1>2, <2>3, <3>2, <3>3 DEF ParseCoresList
  <2>. QED  BY <1>2, <2>1, <2>2, <2>3 DEF ParseOption, SetField, Exit, options
<1>6. OptionsInv'
  <2>1. Given'
    BY <1>1, <1>2, <1>3 DEF Given, environment
  <2>. QED  BY <1>2, <1>5, <2>1 DEF OptionsInv, Over
<1>. QED  BY <1>2, <1>5, <1>6

LEMMA GivenStays == ASSUME Given, UNCHANGED <<machine, argv>> PROVE Given'
BY DEF Given

(* The choice between the list of the user and that of plat_get_topology.     *)
LEMMA TopologyTypes ==
  ASSUME OptionsInv, OptionsDone \/ TopologyNuma \/ TopologyFallback \/ TopologyNodeFails,
         port \in {"linux", "barrelfish"}
  PROVE  OptionsInv'
<1>1. IsMachine(machine)
  BY TheMachine
<1>2. CASE OptionsDone
  <2>1. UNCHANGED <<machine, argv, coreslist, size, source>>
    BY <1>2 DEF OptionsDone, environment
  <2>. QED  BY <1>2, <2>1, GivenStays DEF OptionsDone, Exit, OptionsInv, UserList, Over
<1>3. ASSUME NEW list, NEW from, TakeList(list, from), phase = "topology",
             Cardinality(DOMAIN list) \in Nat \ {0}
      PROVE  OptionsInv'
  <2>1. size' \in Nat \ {0} /\ phase' = "init" /\ UNCHANGED <<machine, argv, ncores>>
    BY <1>3 DEF TakeList, OptionsInv, environment
  <2>. QED  BY <2>1, GivenStays DEF OptionsInv, Over
<1>4. CASE Crash
  BY <1>4, GivenStays DEF Crash, options, OptionsInv, environment, Over
<1>. QED
  BY <1>1, <1>2, <1>3, <1>4, ListLength DEF TopologyNuma, TopologyFallback, TopologyNodeFails

(* Once the list is settled, nobody changes it or reads options again.        *)
LEMMA OptionsIdle ==
  ASSUME OptionsInv, UNCHANGED <<machine, argv, ncores, coreslist, size, source>>,
         \/ UNCHANGED phase \/ phase' \in Over
         \/ phase \notin {"options", "topology"} \union Over /\ phase' \notin {"options", "topology"}
  PROVE  OptionsInv'
<1>1. Given'
  BY GivenStays DEF OptionsInv, environment
<1>. QED  BY <1>1 DEF OptionsInv, UserList, environment, Over

LEMMA OptionsStep ==
  ASSUME OptionsInv, TypeOK, [Next]_vars
  PROVE  OptionsInv'
<1>. DEFINE Same == UNCHANGED <<machine, argv, ncores, coreslist, size, source>>
<1>1. CASE ParseOption
  BY <1>1, OptionTypes DEF TypeOK
<1>2. CASE OptionsDone \/ TopologyNuma \/ TopologyFallback \/ TopologyNodeFails
  BY <1>2, TopologyTypes, LaunchAssumption DEF TypeOK
<1>3. CASE TopologyFails \/ LinuxInit \/ Configure \/ Dispatch \/ LinuxBenchmark \/ Report
  <2>1. Same
    BY <1>3 DEF TopologyFails, LinuxInit, Configure, Dispatch, LinuxBenchmark, Report, Crash,
       environment, options
  <2>2. phase' \in Over \/ (phase \in {"init"} \union After /\ phase' \in After)
    <3>1. CASE TopologyFails \/ LinuxInit \/ Configure \/ LinuxBenchmark \/ Report
      BY <3>1 DEF TopologyFails, LinuxInit, Configure, LinuxBenchmark, Report, Exit, Crash,
         After, Over
    <3>2. CASE Dispatch
      BY <3>2 DEF Dispatch, After
    <3>. QED  BY <1>3, <3>1, <3>2
  <2>. QED  BY <2>1, <2>2, OptionsIdle DEF After, Over
<1>4. CASE MainInit
  <2>1. Same /\ phase \in {"init", "cnode"} \union Spanning
        /\ phase' \in {"cnode"} \union Spanning \union After \union Over
    BY <1>4 DEF MainInit, ConnectSkb, CreateCnode, SpanOne, SpanDone, WaitDone, CreateRemote,
         SemWait, SpannedAll, Step, OtherThanPhase, environment, options, Spanning, After, Over
  <2>. QED  BY <2>1, OptionsIdle DEF After, Over, Spanning
<1>5. CASE MainRun
  <2>1. Same
    BY <1>5 DEF MainRun, CreateMemobj, CreateMemobjFails, Prepopulate, StartThread, StartFails,
       StartPanics, AllStarted, CancelThread, AllCancelled, JoinThread, AllJoined, Return, GoOn,
       OtherThanPhase, launch, environment, options
  <2>. QED  BY <1>5, <2>1, MainRunPhases, OptionsIdle DEF After, Over
<1>6. CASE Beside
  <2>1. Same /\ (UNCHANGED phase \/ phase' \in Over)
    BY <1>6 DEF Beside, Remote, DispatcherUp, DomainInitDone, RemoteInit, OtherThanPhase, launch,
         environment, options, Over
  <2>. QED  BY <2>1, OptionsIdle
<1>7. CASE UNCHANGED vars \/ \E t \in DOMAIN worker : Worker(t)
  <2>1. UNCHANGED launch
    BY <1>7, WorkerLocal DEF vars
  <2>. QED  BY <2>1, OptionsIdle DEF launch, environment, options
<1>. QED  BY <1>1, <1>2, <1>3, <1>4, <1>5, <1>6, <1>7 DEF Next, Main, LaunchNext

LEMMA SpanIdle ==
  ASSUME SpanTypes, Counted, UNCHANGED span, UNCHANGED size
  PROVE  SpanTypes' /\ Counted'
<1>1. Back' = Back
  BY DEF Back, span
<1>. QED  BY <1>1 DEF SpanTypes, Counted, span

LEMMA RunIdle ==
  ASSUME RunTypes, UNCHANGED <<run, size>>, result' \in {result, "ok", "error"}
  PROVE  RunTypes'
BY DEF RunTypes, run, objects, control

(* Where main goes outside of plat_init and a benchmark on Barrelfish.        *)
LEMMA LaunchMoves ==
  ASSUME LaunchNext
  PROVE  /\ \/ /\ phase \in {"options", "topology"} /\ UNCHANGED result
               /\ phase' \in {"options", "topology", "init", "exited", "crashed"}
            \/ /\ UNCHANGED size /\ result' \in {result, "ok", "error"}
               /\ \/ phase = "init" /\ phase' = "config"
                  \/ phase = "config" /\ phase' = "dispatch"
                  \/ phase = "dispatch" /\ phase' \in {"prepare", "report"}
                  \/ phase = "prepare" /\ phase' \in {"report", "crashed"}
                  \/ phase = "report" /\ phase' = "exited"
         /\ UNCHANGED environment /\ status' \in {status, "success", "failure"}
<1>1. CASE ParseOption
  <2>1. phase = "options" /\ phase' \in {"options", "exited"} /\ UNCHANGED <<environment, result>>
        /\ status' \in {status, "success", "failure"}
    BY <1>1 DEF ParseOption, SetField, ParseCoresList, Exit, options
  <2>. QED  BY <2>1
<1>2. CASE OptionsDone
  BY <1>2 DEF OptionsDone, Exit
<1>3. CASE TopologyNuma \/ TopologyFallback \/ TopologyNodeFails \/ TopologyFails
  BY <1>3 DEF TopologyNuma, TopologyFallback, TopologyNodeFails, TopologyFails,
              TakeList, Crash, Exit
<1>4. CASE LinuxInit \/ Configure
  BY <1>4 DEF LinuxInit, Configure, options
<1>5. CASE Dispatch
  BY <1>5 DEF Dispatch
<1>6. CASE LinuxBenchmark \/ Report
  BY <1>6 DEF LinuxBenchmark, Report, Exit, Crash, options
<1>. QED  BY <1>1, <1>2, <1>3, <1>4, <1>5, <1>6 DEF LaunchNext

LEMMA LaunchTypes ==
  ASSUME InitInv, ProgressInv, SpanTypes, RunTypes, size' \in Nat,
         LaunchNext, UNCHANGED <<span, run>>
  PROVE  SpanTypes' /\ RunTypes' /\ ProgressInv'
<1>1. SpanTypes' /\ Counted'
  <2>1. CASE phase \in {"options", "topology"}
    <3>1. turn' = 0 /\ cores_initialized' = 1 /\ init_sem' = 0
      BY <2>1 DEF InitInv, PhaseInv, Before, span
    <3>2. Back' = Back
      BY DEF Back, span
    <3>3. UNCHANGED cores_initialized
      BY DEF span
    <3>4. SpanTypes'
      <4>1. \A n \in Nat : 0 \in 0..n /\ 1 \in 1..(n + 1) /\ 0 \in 0..1
        OBVIOUS
      <4>. QED  BY <3>1, <4>1 DEF SpanTypes
    <3>5. Counted'
      BY <3>2, <3>3 DEF Counted, ProgressInv
    <3>. QED  BY <3>4, <3>5
  <2>2. CASE phase \notin {"options", "topology"}
    <3>1. UNCHANGED size /\ Counted
      BY <2>2, LaunchMoves DEF ProgressInv
    <3>. QED  BY <3>1, SpanIdle
  <2>. QED  BY <2>1, <2>2
<1>2. RunTypes'
  <2>1. CASE phase \in {"options", "topology"}
    <3>1. memobj_slot' = 0 /\ caps' = {} /\ started' = 0 /\ ended' = 0 /\ UNCHANGED result
      BY <2>1, LaunchMoves DEF ProgressInv, Early, Before, run, objects, control
    <3>. QED  BY <3>1 DEF RunTypes
  <2>2. CASE phase \notin {"options", "topology"}
    BY <2>2, LaunchMoves, RunIdle
  <2>. QED  BY <2>1, <2>2
<1>3. UNCHANGED <<initret, request, remote, memobj_slot, caps, started, ended>>
  BY DEF span, run, objects, control
<1>4. /\ phase' \in Before \union Spanning \union {"config", "dispatch"} =>
           phase \in Before \union Spanning \union {"config", "dispatch"}
      /\ phase' \in Early => phase \in Early
      /\ phase' # "join"
      /\ phase' \in After => phase \in After \/ (request = <<>> /\ remote = <<>>)
  BY LaunchMoves DEF InitInv, PhaseInv, Early, Before, Spanning, After
<1>. QED  BY <1>1, <1>2, <1>3, <1>4 DEF ProgressInv, Counted

------------------------------------------------------------------------------
(* plat_init *)

LEMMA EntriesFinite ==
  ASSUME size \in Nat
  PROVE  IsFiniteSet(Entries) /\ Cardinality(Entries) = size
<1>1. 0 \in Int /\ size - 1 \in Int
  OBVIOUS
<1>. QED  BY <1>1, FS_Interval DEF Entries

LEMMA InitTypes ==
  ASSUME InitInv, CountInv, ProgressInv, SpanTypes, size \in Nat, MainInit
  PROVE  SpanTypes' /\ Counted'
<1>1. CASE ConnectSkb \/ SpanDone \/ WaitDone \/ CreateRemote \/ SpannedAll
  <2>1. UNCHANGED <<size, request, cores_initialized, init_sem>> /\ turn' \in {turn, 0}
    BY <1>1 DEF ConnectSkb, SpanDone, WaitDone, CreateRemote, SpannedAll, OtherThanPhase, options, span
  <2>2. Back' = Back
    BY <2>1 DEF Back
  <2>. QED  BY <2>1, <2>2 DEF SpanTypes, ProgressInv, Counted
<1>2. CASE CreateCnode
  <2>1. /\ UNCHANGED <<size, turn, cores_initialized, init_sem>> /\ cores_initialized = 1
        /\ request' = [s \in Entries |-> "none"] \/ UNCHANGED request
    BY <1>2 DEF CreateCnode, Step, OtherThanPhase, options, InitInv, PhaseInv, Before
  <2>2. Back' = {} \/ Back' = Back
    BY <2>1 DEF Back
  <2>3. SpanTypes'
    BY <2>1 DEF SpanTypes
  <2>4. CASE Back' = {}
    <3>1. IsFiniteSet(Back') /\ Cardinality(Back') = 0
      BY <2>4, FS_EmptySet
    <3>. QED  BY <2>1, <2>3, <3>1 DEF Counted
  <2>5. CASE Back' = Back
    BY <2>1, <2>3, <2>5 DEF ProgressInv, Counted
  <2>. QED  BY <2>2, <2>4, <2>5
<1>3. CASE SpanOne
  <2>1. /\ phase = "span" /\ turn < size
        /\ UNCHANGED <<size, cores_initialized, init_sem>> /\ turn' \in {turn, turn + 1}
    BY <1>3 DEF SpanOne, Step, OtherThanPhase, options
  <2>2. request \in [Entries -> {"none", "asked", "up", "called"}]
    BY <2>1 DEF InitInv, RemoteInv, Spanning
  <2>3. SpanTypes'
    BY <2>1 DEF SpanTypes
  <2>4. CASE UNCHANGED request
    BY <2>1, <2>3, <2>4 DEF Back, ProgressInv, Counted
  <2>5. CASE \E a : request' = [request EXCEPT ![turn] = a]
    <3>1. turn \in Entries /\ request[turn] = "none"
      BY <2>1 DEF CountInv, SpanTypes, Entries
    <3>2. Back \subseteq Back' /\ Back' \subseteq Entries
      BY <2>2, <2>5, <3>1 DEF Back
    <3>3. IsFiniteSet(Back')
      BY <3>2, EntriesFinite, FS_Subset
    <3>4. Cardinality(Back) <= Cardinality(Back') /\ Cardinality(Back) \in Nat /\ Cardinality(Back') \in Nat
      BY <3>2, <3>3, FS_Subset, FS_CardinalityType
    <3>. QED  BY <2>1, <2>3, <3>3, <3>4 DEF ProgressInv, Counted, SpanTypes
  <2>. QED  BY <1>3, <2>4, <2>5 DEF SpanOne
<1>4. CASE SemWait
  <2>1. /\ phase = "remote_wait" /\ turn' = turn + 1 /\ init_sem > 0 /\ init_sem' = init_sem - 1
        /\ UNCHANGED <<size, request, cores_initialized>>
    BY <1>4 DEF SemWait, Step, OtherThanPhase, options
  <2>2. turn < size /\ Back' = Back
    BY <2>1 DEF InitInv, RemoteInv, Back
  <2>. QED  BY <2>1, <2>2 DEF SpanTypes, ProgressInv, Counted
<1>. QED  BY <1>1, <1>2, <1>3, <1>4 DEF MainInit

(* A callback is counted once, and a post is taken before the next.           *)
LEMMA RemoteTypes ==
  ASSUME InitInv, ProgressInv, SpanTypes, size \in Nat, Remote
  PROVE  SpanTypes' /\ Counted'
<1>1. phase \in Before \union Spanning \union After
  BY DEF Remote, Alive, InitInv, PhaseInv, Over
<1>2. DOMAIN request # {} \/ DOMAIN remote # {} =>
        /\ request \in [Entries -> {"none", "asked", "up", "called"}]
        /\ remote \in [Entries -> {"none", "live", "done"}]
        /\ phase \in Spanning \/ initret = "ok"
  <2>1. CASE phase \in Spanning \/ initret = "ok"
    BY <2>1 DEF InitInv, RemoteInv
  <2>2. CASE ~(phase \in Spanning \/ initret = "ok")
    BY <1>1, <2>2 DEF InitInv, PhaseInv, ProgressInv
  <2>. QED  BY <2>1, <2>2
<1>3. ASSUME NEW s \in DOMAIN request, NEW r \in {"up", "called"}, request[s] # "called",
             request' = [request EXCEPT ![s] = r],
             cores_initialized' = IF r = "called" THEN cores_initialized + 1 ELSE cores_initialized,
             UNCHANGED <<size, turn, init_sem>>
      PROVE  SpanTypes' /\ Counted'
  <2>1. Back' = IF r = "called" THEN Back \union {s} ELSE Back
    BY <1>2, <1>3 DEF Back
  <2>2. s \notin Back /\ Back' \subseteq Entries
    BY <1>2, <1>3 DEF Back
  <2>3. IsFiniteSet(Back) /\ Cardinality(Back) \in Nat /\ cores_initialized - 1 <= Cardinality(Back)
    BY FS_CardinalityType DEF ProgressInv, Counted
  <2>4. /\ IsFiniteSet(Back')
        /\ Cardinality(Back') = IF r = "called" THEN Cardinality(Back) + 1 ELSE Cardinality(Back)
    BY <2>1, <2>2, <2>3, FS_AddElement
  <2>5. Cardinality(Back') <= size
    BY <2>2, EntriesFinite, FS_Subset
  <2>. QED  BY <1>3, <2>3, <2>4, <2>5 DEF SpanTypes, Counted
<1>4. ASSUME NEW s \in DOMAIN request, DispatcherUp(s)  PROVE SpanTypes' /\ Counted'
  <2>1. /\ request[s] # "called" /\ request' = [request EXCEPT ![s] = "up"]
        /\ UNCHANGED <<cores_initialized, size, turn, init_sem>>
    BY <1>4 DEF DispatcherUp, launch, options
  <2>. QED  BY <1>3, <2>1
<1>5. ASSUME NEW s \in DOMAIN request, DomainInitDone(s)  PROVE SpanTypes' /\ Counted'
  <2>1. UNCHANGED <<size, turn, init_sem>>
    BY <1>5 DEF DomainInitDone, OtherThanPhase, options
  <2>2. CASE UNCHANGED <<request, cores_initialized>>
    BY <2>1, <2>2 DEF SpanTypes, ProgressInv, Counted, Back
  <2>3. CASE /\ request[s] = "up" /\ request' = [request EXCEPT ![s] = "called"]
             /\ cores_initialized' = cores_initialized + 1
    BY <1>3, <2>1, <2>3
  <2>. QED  BY <1>5, <2>2, <2>3 DEF DomainInitDone
<1>6. ASSUME NEW s \in DOMAIN remote, RemoteInit(s)  PROVE SpanTypes' /\ Counted'
  <2>1. /\ remote[s] = "live" /\ init_sem' = init_sem + 1
        /\ UNCHANGED <<size, turn, request, cores_initialized>>
    BY <1>6 DEF RemoteInit, launch, options
  <2>2. init_sem = 0
    <3>1. s \in Entries /\ (phase \in Spanning \/ initret = "ok")
      BY <1>2, <1>6
    <3>2. initret # "ok"
      BY <2>1, <3>1 DEF InitInv, RemoteInv, SpannedToAll
    <3>3. phase \in Spanning
      BY <3>1, <3>2
    <3>4. CASE phase = "remote_wait"
      BY <2>1, <3>1, <3>4 DEF InitInv, RemoteInv, Ready
    <3>5. CASE phase # "remote_wait"
      BY <2>1, <3>1, <3>3, <3>5 DEF InitInv, RemoteInv, Ready, Spanning
    <3>. QED  BY <3>4, <3>5
  <2>3. Back' = Back
    BY <2>1 DEF Back
  <2>. QED  BY <2>1, <2>2, <2>3 DEF SpanTypes, ProgressInv, Counted
<1>. QED  BY <1>4, <1>5, <1>6 DEF Remote

LEMMA MainInitProgress ==
  ASSUME InitInv, CountInv, ProgressInv, SpanTypes, RunTypes, size \in Nat,
         MainInit, UNCHANGED run
  PROVE  SpanTypes' /\ RunTypes' /\ ProgressInv'
<1>1. SpanTypes' /\ Counted'
  BY InitTypes
<1>2. UNCHANGED <<size, result, memobj_slot, caps, started, ended>>
  BY DEF MainInit, ConnectSkb, CreateCnode, SpanOne, SpanDone, WaitDone, CreateRemote,
     SemWait, SpannedAll, OtherThanPhase, options, run, objects, control
<1>3. phase \in {"init", "cnode"} \union Spanning /\ phase' # "join"
  BY DEF MainInit, ConnectSkb, CreateCnode, SpanOne, SpanDone, WaitDone, CreateRemote,
     SemWait, SpannedAll, Step, Spanning
<1>4. phase' \in After => initret' = "ok" \/ (request' = <<>> /\ remote' = <<>>)
  <2>1. CASE ConnectSkb \/ CreateCnode
    BY <2>1 DEF ConnectSkb, CreateCnode, Step, After, InitInv, PhaseInv, Before
  <2>2. CASE SpanOne \/ SpanDone \/ WaitDone \/ CreateRemote \/ SemWait
    BY <2>2 DEF SpanOne, SpanDone, WaitDone, CreateRemote, SemWait, Step, After
  <2>3. CASE SpannedAll
    BY <2>3 DEF SpannedAll
  <2>. QED  BY <2>1, <2>2, <2>3 DEF MainInit
<1>5. RunTypes'
  BY <1>2 DEF RunTypes
<1>. QED  BY <1>1, <1>2, <1>3, <1>4, <1>5 DEF ProgressInv, Early, Before

(* The dispatchers that nobody asked for do nothing.                          *)
LEMMA BesideProgress ==
  ASSUME InitInv, ProgressInv, SpanTypes, RunTypes, size \in Nat, Beside
  PROVE  SpanTypes' /\ RunTypes' /\ ProgressInv'
<1>1. SpanTypes' /\ Counted'
  BY RemoteTypes DEF Beside
<1>2. /\ UNCHANGED <<size, result, initret, memobj_slot, caps, started, ended>>
      /\ (UNCHANGED phase \/ phase' = "aborted")
  BY DEF Beside, Remote, DispatcherUp, DomainInitDone, RemoteInit, OtherThanPhase, launch, options,
     run, objects, control
<1>3. ~(phase \in After /\ initret # "ok")
  BY DEF Beside, Remote, ProgressInv
<1>4. RunTypes'
  BY <1>2 DEF RunTypes
<1>5. "aborted" \notin Before \union Spanning \union {"config", "dispatch", "join"} \union Early \union After
  BY DEF Before, Spanning, Early, After
<1>. QED  BY <1>1, <1>2, <1>3, <1>4, <1>5 DEF ProgressInv

(* An object for each worker at most, and no more threads than entries.       *)
LEMMA MainRunProgress ==
  ASSUME OptionsInv, ProgressInv, SpanTypes, RunTypes, size \in Nat, MainRun
  PROVE  SpanTypes' /\ RunTypes' /\ ProgressInv'
<1>1. phase \in After /\ phase' \in After \union Over /\ UNCHANGED <<span, coreslist, size>>
  BY MainRunPhases
<1>2. SpanTypes' /\ Counted'
  BY <1>1, SpanIdle DEF ProgressInv
<1>3. UNCHANGED <<initret, request, remote>>
  BY <1>1 DEF span
<1>4. phase' \notin Before \union Spanning \union {"config", "dispatch"}
  BY DEF MainRun, CreateMemobj, CreateMemobjFails, Prepopulate, StartThread, StartFails,
     StartPanics, AllStarted, CancelThread, AllCancelled, JoinThread, AllJoined, Return, GoOn,
     launch, Before, Spanning
<1>. SUFFICES /\ RunTypes'
              /\ phase' \in Early => started' = 0 /\ ended' = 0
              /\ phase' = "join" => started' = size'
  BY <1>1, <1>2, <1>3, <1>4 DEF ProgressInv
<1>5. CASE CreateMemobj
  <2>1. /\ phase = "prepare" /\ phase' = "prepare" /\ memobj_slot < Objects
        /\ memobj_slot' = memobj_slot + 1 /\ caps' \subseteq caps \union {memobj_slot}
        /\ UNCHANGED <<size, started, ended, result>>
    BY <1>5 DEF CreateMemobj, launch, options, control
  <2>2. memobj_slot < size
    BY <2>1 DEF OptionsInv, RunTypes, Objects, Over
  <2>3. caps' \subseteq 0..(memobj_slot' - 1)
    BY <2>1 DEF RunTypes
  <2>. QED  BY <2>1, <2>2, <2>3 DEF RunTypes, ProgressInv, Early
<1>6. CASE CreateMemobjFails \/ StartFails \/ StartPanics \/ AllCancelled \/ Prepopulate
  <2>1. /\ UNCHANGED <<size, memobj_slot, caps, started, ended>> /\ result' \in {result, "ok", "error"}
        /\ phase' \in {"start", "cancel"} \union Over \union {"report"}
    BY <1>6 DEF CreateMemobjFails, StartFails, StartPanics, AllCancelled, Prepopulate, Return, GoOn,
       OtherThanPhase, options, run, objects, control, Over
  <2>. QED  BY <2>1 DEF RunTypes, Early, Before, Spanning, Over
<1>7. CASE StartThread
  <2>1. /\ phase' = "start" /\ started < size /\ started' = started + 1
        /\ UNCHANGED <<size, memobj_slot, caps, ended, result>>
    BY <1>7 DEF StartThread, launch, options, objects
  <2>. QED  BY <2>1 DEF RunTypes, Early, Before, Spanning
<1>8. CASE AllStarted
  <2>1. /\ phase' = "join" /\ started = size
        /\ UNCHANGED <<size, memobj_slot, caps, started, ended, result>>
    BY <1>8 DEF AllStarted, GoOn, OtherThanPhase, options, run, objects, control
  <2>. QED  BY <2>1 DEF RunTypes, Early, Before, Spanning
<1>9. CASE CancelThread \/ JoinThread
  <2>1. /\ phase \in {"cancel", "join"} /\ ended' = ended + 1
        /\ phase = "cancel" => ended < started
        /\ phase = "join" => ended < size
        /\ UNCHANGED <<phase, size, memobj_slot, caps, started, result>>
    BY <1>9 DEF CancelThread, JoinThread, launch, options, objects
  <2>2. ended < started
    BY <2>1 DEF ProgressInv
  <2>. QED  BY <2>1, <2>2 DEF RunTypes, ProgressInv, Early, Before, Spanning
<1>10. CASE AllJoined
  <2>1. /\ phase' = "report" /\ result' = "ok" /\ caps' = {}
        /\ UNCHANGED <<size, memobj_slot, started, ended>>
    BY <1>10 DEF AllJoined, Return, options, control
  <2>. QED  BY <2>1 DEF RunTypes, Early, Before, Spanning
<1>. QED  BY <1>5, <1>6, <1>7, <1>8, <1>9, <1>10 DEF MainRun

(* Nothing of what the types are about changes.                               *)
LEMMA ProgressIdle ==
  ASSUME ProgressInv, SpanTypes, RunTypes, UNCHANGED <<launch, span, objects, control>>
  PROVE  SpanTypes' /\ RunTypes' /\ ProgressInv'
<1>1. /\ UNCHANGED <<phase, size, result>>
      /\ UNCHANGED <<initret, request, remote, memobj_slot, caps, started, ended>>
  BY DEF launch, options, span, objects, control
<1>2. SpanTypes' /\ Counted'
  BY <1>1, SpanIdle DEF ProgressInv
<1>. QED  BY <1>1, <1>2 DEF RunTypes, ProgressInv

LEMMA EnvironmentStays ==
  ASSUME [Next]_vars
  PROVE  UNCHANGED environment /\ status' \in {status, "success", "failure"}
<1>1. CASE LaunchNext
  BY <1>1, LaunchMoves
<1>2. CASE MainInit
  BY <1>2 DEF MainInit, ConnectSkb, CreateCnode, SpanOne, SpanDone, WaitDone, CreateRemote,
     SemWait, SpannedAll, OtherThanPhase
<1>3. CASE MainRun
  BY <1>3 DEF MainRun, CreateMemobj, CreateMemobjFails, Prepopulate, StartThread, StartFails,
     StartPanics, AllStarted, CancelThread, AllCancelled, JoinThread, AllJoined, Return, GoOn,
     OtherThanPhase, launch, environment
<1>4. CASE Beside
  BY <1>4 DEF Beside, Remote, DispatcherUp, DomainInitDone, RemoteInit, OtherThanPhase, launch,
     environment
<1>5. CASE UNCHANGED vars \/ \E t \in DOMAIN worker : Worker(t)
  <2>1. UNCHANGED launch
    BY <1>5, WorkerLocal DEF vars
  <2>. QED  BY <2>1 DEF launch, environment
<1>. QED  BY <1>1, <1>2, <1>3, <1>4, <1>5 DEF Next, Main

LEMMA TypeInvHolds == Spec => []TypeInv
<1>1. Init => TypeInv
  <2>. SUFFICES ASSUME Init PROVE TypeInv
    OBVIOUS
  <2>1. PICK i \in Inputs : machine = i.machine /\ argv = i.argv
    BY DEF Init, LaunchInit
  <2>2. Given
    BY <2>1, LaunchAssumption DEF Given
  <2>3. OptionsInv
    BY <2>2 DEF Init, LaunchInit, OptionsInv, Over
  <2>4. Counted
    <3>1. cores_initialized = 1 /\ request = <<>>
      BY DEF Init, BfInitInit
    <3>2. Back = {}
      BY <3>1 DEF Back
    <3>3. IsFiniteSet(Back) /\ Cardinality(Back) = 0
      BY <3>2, FS_EmptySet
    <3>. QED  BY <3>1, <3>3 DEF Counted
  <2>5. ProgressInv
    BY <2>4 DEF Init, LaunchInit, BfInitInit, BfRunInit, ProgressInv, Before, Spanning, Early, After
  <2>6. TypeOK
    BY <2>1 DEF Init, LaunchInit, BfInitInit, BfRunInit, TypeOK
  <2>. QED  BY <2>3, <2>5, <2>6 DEF TypeInv
<1>2. TypeInv /\ InitInv /\ InitInv' /\ CountInv /\ [Next]_vars => TypeInv'
  <2>. SUFFICES ASSUME TypeInv, InitInv, InitInv', CountInv, [Next]_vars PROVE TypeInv'
    OBVIOUS
  <2>1. OptionsInv /\ ProgressInv /\ SpanTypes /\ RunTypes /\ size \in Nat
    BY DEF TypeInv, TypeOK, SpanTypes, RunTypes
  <2>2. OptionsInv'
    BY OptionsStep DEF TypeInv
  <2>3. size' \in Nat
    BY <2>2 DEF OptionsInv
  <2>4. SpanTypes' /\ RunTypes' /\ ProgressInv'
    <3>1. CASE LaunchNext /\ UNCHANGED <<span, run>>
      BY <2>1, <2>3, <3>1, LaunchTypes
    <3>2. CASE MainInit /\ UNCHANGED run
      BY <2>1, <3>2, MainInitProgress
    <3>3. CASE MainRun
      BY <2>1, <3>3, MainRunProgress
    <3>4. CASE Beside
      BY <2>1, <3>4, BesideProgress
    <3>5. CASE UNCHANGED vars \/ \E t \in DOMAIN worker : Worker(t)
      <4>1. UNCHANGED <<launch, span, objects, control>>
        <5>1. CASE UNCHANGED vars
          BY <5>1 DEF vars, run, objects, control
        <5>2. CASE \E t \in DOMAIN worker : Worker(t)
          BY <5>2, WorkerLocal
        <5>. QED  BY <3>5, <5>1, <5>2
      <4>. QED  BY <2>1, <4>1, ProgressIdle
    <3>. QED  BY <3>1, <3>2, <3>3, <3>4, <3>5 DEF Next, Main
  <2>5. TypeOK'
    <3>1. UNCHANGED <<port, machine>> /\ status' \in {"none", "success", "failure"}
      BY EnvironmentStays DEF environment, TypeInv, TypeOK
    <3>2. phase' \in Before \union Spanning \union After \union Over
      BY DEF InitInv, PhaseInv
    <3>. QED
      BY <2>3, <2>4, <3>1, <3>2
         DEF TypeInv, TypeOK, SpanTypes, RunTypes, Before, Spanning, After, Over
  <2>. QED  BY <2>2, <2>4, <2>5 DEF TypeInv
<1>. QED  BY <1>1, <1>2, InitInvHolds, CountInvHolds, PTL DEF Spec

(* The loop variables of plat_init and of the benchmark stay within the list  *)
(* of cores, the callbacks are no more than its entries, and the semaphore    *)
(* counts to one, on any machine, for any command line, and whatever fails    *)
(* (barrelfish.c 45-153, 304-721; main.c).                                    *)
THEOREM ProgramTypeOK == Spec => []TypeOK
<1>1. TypeInv => TypeOK
  BY DEF TypeInv
<1>. QED  BY <1>1, TypeInvHolds, PTL
------------------------------------------------------------------------------
(* The list of cores plat_get_topology makes.                                 *)

LEMMA IntervalSize == \A n \in Nat : IsFiniteSet(0..(n - 1)) /\ Cardinality(0..(n - 1)) = n
<1>. SUFFICES ASSUME NEW n \in Nat PROVE IsFiniteSet(0..(n - 1)) /\ Cardinality(0..(n - 1)) = n
  OBVIOUS
<1>1. 0 \in Int /\ n - 1 \in Int
  OBVIOUS
<1>2. IsFiniteSet(0..(n - 1)) /\ Cardinality(0..(n - 1)) = IF 0 > n - 1 THEN 0 ELSE n - 1 - 0 + 1
  BY <1>1, FS_Interval
<1>. QED  BY <1>2

(* The places of an interleaved list, for K nodes of which node n has z[n]    *)
(* cores.                                                                     *)

Grid(K, z) == {q \in Nat : q \div K < z[q % K]}

LEMMA GridPlace ==
  ASSUME NEW K \in Nat \ {0}, NEW n \in 0..(K - 1), NEW r \in Nat
  PROVE  n + r * K \in Nat /\ (n + r * K) % K = n /\ (n + r * K) \div K = r
<1>1. r * K \in Nat
  OBVIOUS
<1>2. n + r * K \in Nat
  BY <1>1
<1>3. (n + r * K) % K = n
  OBVIOUS
<1>4. (n + r * K) \div K = r
  OBVIOUS
<1>. QED  BY <1>2, <1>3, <1>4

LEMMA GridSplit ==
  ASSUME NEW K \in Nat \ {0}, NEW q \in Nat
  PROVE  q % K \in 0..(K - 1) /\ q \div K \in Nat /\ q = (q % K) + (q \div K) * K
<1>1. q % K \in 0..(K - 1) /\ q \div K \in Nat
  OBVIOUS
<1>2. q = (q % K) + (q \div K) * K
  OBVIOUS
<1>. QED  BY <1>1, <1>2

(* A place comes before another: in an earlier turn, or the same and before.  *)
LEMMA GridOrder ==
  ASSUME NEW K \in Nat \ {0}, NEW n \in 0..(K - 1), NEW r \in Nat,
         NEW k \in 0..(K - 1), NEW s \in Nat
  PROVE  n + r * K < k + s * K <=> r < s \/ (r = s /\ n < k)
<1>1. ASSUME NEW a \in Nat, NEW b \in Nat, a < b  PROVE a * K + K <= b * K
  BY <1>1
<1>2. r * K \in Nat /\ s * K \in Nat
  OBVIOUS
<1>3. CASE r < s
  <2>1. r * K + K <= s * K
    BY <1>1, <1>3
  <2>. QED  BY <1>2, <1>3, <2>1
<1>4. CASE r = s
  BY <1>2, <1>4
<1>5. CASE r > s
  <2>1. s * K + K <= r * K
    BY <1>1, <1>5
  <2>. QED  BY <1>2, <1>5, <2>1
<1>. QED  BY <1>3, <1>4, <1>5

(* The places leave no gap when no node has fewer cores than a later one, nor *)
(* two more.                                                                  *)
LEMMA GridEven ==
  ASSUME NEW K \in Nat \ {0}, NEW z \in [0..(K - 1) -> Nat], NEW P \in Nat,
         IsFiniteSet(Grid(K, z)), Cardinality(Grid(K, z)) = P
  PROVE  Grid(K, z) = 0..(P - 1) <=> \A n, k \in 0..(K - 1) : n < k => z[n] - z[k] \in {0, 1}
<1>. DEFINE F == Grid(K, z)
            N == 0..(K - 1)
<1>1. \A n \in N, r \in Nat : n + r * K \in F <=> r < z[n]
  BY GridPlace DEF Grid
<1>2. ASSUME F = 0..(P - 1), NEW n \in N, NEW k \in N, n < k
      PROVE  z[n] - z[k] \in {0, 1}
  <2>1. \A q \in Nat, x \in F : q < x => q \in F
    BY <1>2
  <2>2. z[n] \in Nat /\ z[k] \in Nat
    BY <1>2
  <2>3. z[k] <= z[n]
    <3>1. CASE z[k] = 0
      BY <2>2, <3>1
    <3>2. CASE z[k] # 0
      <4>. DEFINE r == z[k] - 1
      <4>1. r \in Nat /\ r < z[k]
        BY <2>2, <3>2
      <4>2. k + r * K \in F /\ n + r * K < k + r * K /\ n + r * K \in Nat
        BY <1>1, <1>2, <4>1, GridOrder, GridPlace
      <4>3. n + r * K \in F
        BY <2>1, <4>2
      <4>4. r < z[n]
        BY <1>1, <1>2, <4>1, <4>3
      <4>. QED  BY <2>2, <4>4
    <3>. QED  BY <3>1, <3>2
  <2>4. z[n] < z[k] + 2
    <3>. SUFFICES ASSUME z[n] >= z[k] + 2 PROVE FALSE
      BY <2>2
    <3>. DEFINE r == z[n] - 1
                s == z[k]
    <3>1. r \in Nat /\ r < z[n] /\ s \in Nat /\ s < r
      BY <2>2
    <3>2. n + r * K \in F /\ k + s * K < n + r * K /\ k + s * K \in Nat
      BY <1>1, <1>2, <3>1, GridOrder, GridPlace
    <3>3. k + s * K \in F
      BY <2>1, <3>2
    <3>4. s < z[k]
      BY <1>1, <1>2, <3>1, <3>3
    <3>. QED  BY <3>1, <3>4
  <2>. QED  BY <2>2, <2>3, <2>4
<1>3. ASSUME \A n, k \in N : n < k => z[n] - z[k] \in {0, 1}
      PROVE  F = 0..(P - 1)
  <2>1. ASSUME NEW x \in F, NEW q \in Nat, q < x  PROVE q \in F
    <3>. DEFINE n == x % K
                r == x \div K
                k == q % K
                s == q \div K
    <3>1. /\ n \in N /\ r \in Nat /\ x = n + r * K /\ k \in N /\ s \in Nat /\ q = k + s * K
          /\ r < z[n] /\ x \in Nat
      BY GridSplit DEF Grid
    <3>. HIDE DEF n, r, k, s
    <3>2. s < r \/ (s = r /\ k < n)
      BY <2>1, <3>1, GridOrder
    <3>3. z[n] \in Nat /\ z[k] \in Nat
      BY <3>1
    <3>4. s < z[k]
      <4>1. CASE k < n
        <5>1. z[k] - z[n] \in {0, 1}
          BY <1>3, <3>1, <4>1
        <5>. QED  BY <3>1, <3>2, <3>3, <5>1
      <4>2. CASE k = n
        BY <3>1, <3>2, <3>3, <4>2
      <4>3. CASE k > n
        <5>1. z[n] - z[k] \in {0, 1}
          BY <1>3, <3>1, <4>3
        <5>2. s < r
          BY <3>1, <3>2, <4>3
        <5>. QED  BY <3>1, <3>3, <5>1, <5>2
      <4>. QED  BY <3>1, <4>1, <4>2, <4>3
    <3>. QED  BY <1>1, <3>1, <3>4
  <2>2. ASSUME NEW x \in F PROVE x \in 0..(P - 1)
    <3>1. x \in Nat
      BY DEF Grid
    <3>2. 0..x \subseteq F
      <4>. SUFFICES ASSUME NEW q \in 0..x PROVE q \in F
        OBVIOUS
      <4>1. CASE q = x
        BY <4>1
      <4>2. CASE q # x
        <5>1. q \in Nat /\ q < x
          BY <3>1, <4>2
        <5>. QED  BY <2>1, <5>1
      <4>. QED  BY <4>1, <4>2
    <3>3. 0 \in Int /\ x \in Int
      BY <3>1
    <3>4. Cardinality(0..x) = x + 1
      BY <3>1, <3>3, FS_Interval
    <3>5. Cardinality(0..x) <= P
      BY <3>2, FS_Subset
    <3>. QED  BY <3>1, <3>4, <3>5
  <2>3. IsFiniteSet(0..(P - 1)) /\ Cardinality(0..(P - 1)) = P
    BY IntervalSize
  <2>4. F \in SUBSET (0..(P - 1))
    BY <2>2
  <2>. QED  BY <2>3, <2>4, FS_Subset
<1>. QED  BY <1>2, <1>3

(* A core's rank among the cores of its node counts them through. *)
LEMMA RankFacts ==
  ASSUME NEW m, IsMachine(m), NEW p, NEW n \in DOMAIN m.nodes
  PROVE  /\ IsFiniteSet(Seen(p, m, n)) /\ Size(p, m, n) \in Nat
         /\ \A c \in Seen(p, m, n) : Rank(p, m, n, c) \in 0..(Size(p, m, n) - 1)
         /\ \A c, d \in Seen(p, m, n) : c < d => Rank(p, m, n, c) < Rank(p, m, n, d)
         /\ \A r \in 0..(Size(p, m, n) - 1) : \E c \in Seen(p, m, n) : Rank(p, m, n, c) = r
<1>. DEFINE S == Seen(p, m, n)
            R(c) == Rank(p, m, n, c)
            Below(c) == {d \in S : d < c}
<1>1. S \subseteq Cores(m) /\ S \subseteq Nat
  BY DEF IsMachine, Seen, Cores
<1>2. IsFiniteSet(S) /\ Cardinality(S) \in Nat
  BY <1>1, FS_Subset, FS_CardinalityType DEF IsMachine
<1>3. ASSUME NEW c \in S
      PROVE  IsFiniteSet(Below(c)) /\ R(c) = Cardinality(Below(c)) /\ R(c) \in Nat
  <2>1. Below(c) \in SUBSET S
    OBVIOUS
  <2>. QED  BY <1>2, <2>1, FS_Subset, FS_CardinalityType DEF Rank
<1>. HIDE DEF R
<1>4. ASSUME NEW c \in S PROVE R(c) \in 0..(Cardinality(S) - 1)
  <2>1. Below(c) \union {c} \in SUBSET S /\ c \notin Below(c)
    BY <1>1
  <2>2. Cardinality(Below(c) \union {c}) = R(c) + 1
    BY <1>3, <2>1, FS_AddElement
  <2>3. Cardinality(Below(c) \union {c}) <= Cardinality(S)
    BY <1>2, <2>1, FS_Subset
  <2>. HIDE DEF S, Below
  <2>. QED  BY <1>2, <1>3, <2>2, <2>3
<1>5. ASSUME NEW c \in S, NEW d \in S, c < d PROVE R(c) < R(d)
  <2>1. Below(c) \union {c} \in SUBSET Below(d) /\ c \notin Below(c)
    BY <1>1, <1>5
  <2>2. Cardinality(Below(c) \union {c}) = R(c) + 1
    BY <1>3, <2>1, FS_AddElement
  <2>3. Cardinality(Below(c) \union {c}) <= R(d)
    <3>1. IsFiniteSet(Below(d)) /\ R(d) = Cardinality(Below(d))
      BY <1>3
    <3>. HIDE DEF Below
    <3>. QED  BY <2>1, <3>1, FS_Subset
  <2>4. R(c) \in Nat /\ R(d) \in Nat
    BY <1>3
  <2>. HIDE DEF Below
  <2>. QED  BY <2>2, <2>3, <2>4
<1>6. ASSUME NEW r \in 0..(Cardinality(S) - 1) PROVE \E c \in S : R(c) = r
  <2>. DEFINE f == [c \in S |-> R(c)]
              I == 0..(Cardinality(S) - 1)
  <2>1. f \in [S -> I]
    BY <1>4
  <2>2. \A c, d \in S : f[c] = f[d] => c = d
    <3>. SUFFICES ASSUME NEW c \in S, NEW d \in S, c # d PROVE R(c) # R(d)
      OBVIOUS
    <3>1. c \in Nat /\ d \in Nat /\ R(c) \in Nat /\ R(d) \in Nat
      BY <1>1, <1>3
    <3>. QED  BY <1>5, <3>1
  <2>. HIDE DEF S
  <2>3. IsFiniteSet(I) /\ Cardinality(I) = Cardinality(S)
    BY <1>2, IntervalSize
  <2>4. f \in Injection(S, I)
    BY <2>1, <2>2 DEF Injection, IsInjective
  <2>5. f \in Surjection(S, I)
    BY <2>3, <2>4, FS_Injection
  <2>. QED  BY <2>5 DEF Surjection
<1>. QED  BY <1>2, <1>4, <1>5, <1>6 DEF Size, R

------------------------------------------------------------------------------
(* Where each core that the loops see is written. *)
AllSeen(p, m) == UNION {Seen(p, m, n) : n \in DOMAIN m.nodes}
HomeOf(m, c) == CHOOSE n \in DOMAIN m.nodes : c \in m.nodes[n]
Place(p, m, interleave) == [c \in AllSeen(p, m) |-> Slot(p, m, interleave, HomeOf(m, c), c)]
Sizes(p, m) == [n \in 0..(NNodes(m) - 1) |-> Size(p, m, n)]

LEMMA HomeFacts ==
  ASSUME NEW m, IsMachine(m), NEW c \in Cores(m)
  PROVE  /\ HomeOf(m, c) \in DOMAIN m.nodes /\ c \in m.nodes[HomeOf(m, c)]
         /\ \A n \in DOMAIN m.nodes : c \in m.nodes[n] => n = HomeOf(m, c)
<1>1. \E n \in DOMAIN m.nodes : c \in m.nodes[n]
  BY DEF Cores
<1>2. HomeOf(m, c) \in DOMAIN m.nodes /\ c \in m.nodes[HomeOf(m, c)]
  BY <1>1 DEF HomeOf
<1>. QED  BY <1>2 DEF IsMachine

LEMMA SeenFacts ==
  ASSUME NEW m, IsMachine(m), NEW p
  PROVE  /\ AllSeen(p, m) = {c \in Cores(m) : First(p) <= c /\ c < NProc(m)}
         /\ IsFiniteSet(AllSeen(p, m)) /\ Cardinality(AllSeen(p, m)) \in Nat
         /\ AllSeen(p, m) \subseteq Nat
         /\ \A c \in AllSeen(p, m) : HomeOf(m, c) \in DOMAIN m.nodes /\ c \in Seen(p, m, HomeOf(m, c))
<1>1. AllSeen(p, m) = {c \in Cores(m) : First(p) <= c /\ c < NProc(m)}
  BY DEF AllSeen, Seen, Cores
<1>2. AllSeen(p, m) \in SUBSET Cores(m)
  BY <1>1
<1>3. IsFiniteSet(AllSeen(p, m)) /\ Cardinality(AllSeen(p, m)) \in Nat
  BY <1>2, FS_Subset, FS_CardinalityType DEF IsMachine
<1>4. ASSUME NEW c \in AllSeen(p, m)
      PROVE  HomeOf(m, c) \in DOMAIN m.nodes /\ c \in Seen(p, m, HomeOf(m, c))
  BY <1>1, HomeFacts DEF Seen
<1>. QED  BY <1>1, <1>2, <1>3, <1>4 DEF IsMachine

(* Distinct places are as many as the cores. *)
LEMMA Counting ==
  ASSUME NEW S, IsFiniteSet(S), NEW f, DOMAIN f = S, \A c, d \in S : f[c] = f[d] => c = d
  PROVE  IsFiniteSet({f[c] : c \in S}) /\ Cardinality({f[c] : c \in S}) = Cardinality(S)
<1>. DEFINE I == {f[c] : c \in S}
            g == [c \in S |-> f[c]]
<1>1. g \in [S -> I] /\ \A c, d \in S : g[c] = g[d] => c = d
  OBVIOUS
<1>2. \A q \in I : \E c \in S : g[c] = q
  OBVIOUS
<1>3. g \in Bijection(S, I)
  BY <1>1, <1>2 DEF Bijection, Injection, Surjection, IsInjective
<1>4. ExistsBijection(S, I)
  BY <1>3 DEF ExistsBijection
<1>. QED  BY <1>4, FS_Bijection

(* Interleaved, the places are those of the grid, a column for each node. *)
LEMMA GridPlaces ==
  ASSUME NEW m, IsMachine(m), NEW p
  PROVE  LET f == Place(p, m, TRUE) IN
           /\ DOMAIN f = AllSeen(p, m)
           /\ \A c, d \in AllSeen(p, m) : f[c] = f[d] => c = d
           /\ {f[c] : c \in AllSeen(p, m)} = Grid(NNodes(m), Sizes(p, m))
           /\ \A c \in AllSeen(p, m) : f[c] % NNodes(m) = HomeOf(m, c)
<1>. DEFINE f == Place(p, m, TRUE)
            T == AllSeen(p, m)
            K == NNodes(m)
            H(c) == HomeOf(m, c)
            R(c) == Rank(p, m, H(c), c)
<1>1. K \in Nat \ {0} /\ DOMAIN m.nodes = 0..(K - 1)
  BY MachineFacts DEF IsMachine
<1>2. ASSUME NEW c \in T
      PROVE  /\ H(c) \in 0..(K - 1) /\ c \in Seen(p, m, H(c))
             /\ R(c) \in Nat /\ R(c) < Size(p, m, H(c)) /\ f[c] = H(c) + R(c) * K
  <2>1. H(c) \in DOMAIN m.nodes /\ c \in Seen(p, m, H(c))
    BY SeenFacts
  <2>2. R(c) \in 0..(Size(p, m, H(c)) - 1) /\ Size(p, m, H(c)) \in Nat
    BY <2>1, RankFacts
  <2>3. f[c] = H(c) + R(c) * K
    BY DEF Place, Slot
  <2>4. H(c) \in 0..(K - 1)
    BY <1>1, <2>1
  <2>5. R(c) \in Nat /\ R(c) < Size(p, m, H(c))
    <3>. HIDE DEF R, H
    <3>. QED  BY <2>2
  <2>. HIDE DEF R, H, f, K
  <2>. QED  BY <2>1, <2>3, <2>4, <2>5
<1>3. \A c \in T : f[c] \in Nat /\ f[c] % K = H(c) /\ f[c] \div K = R(c)
  <2>. HIDE DEF K, T, f, H, R
  <2>. QED  BY <1>1, <1>2, GridPlace
<1>4. ASSUME NEW c \in T, NEW d \in T, f[c] = f[d] PROVE c = d
  <2>1. H(c) = H(d) /\ R(c) = R(d)
    BY <1>3, <1>4
  <2>2. c \in Seen(p, m, H(c)) /\ d \in Seen(p, m, H(c)) /\ H(c) \in DOMAIN m.nodes
    BY <1>1, <1>2, <2>1
  <2>3. Rank(p, m, H(c), c) = Rank(p, m, H(c), d) /\ Rank(p, m, H(c), c) \in Nat
    BY <1>2, <2>1
  <2>4. c \in Nat /\ d \in Nat
    BY SeenFacts
  <2>5. ~(c < d) /\ ~(d < c)
    <3>1. /\ c < d => Rank(p, m, H(c), c) < Rank(p, m, H(c), d)
          /\ d < c => Rank(p, m, H(c), d) < Rank(p, m, H(c), c)
      BY <2>2, RankFacts
    <3>. QED  BY <2>3, <3>1
  <2>. QED  BY <2>4, <2>5
<1>5. ASSUME NEW c \in T PROVE f[c] \in Grid(K, Sizes(p, m))
  <2>1. f[c] \in Nat /\ f[c] % K = H(c) /\ f[c] \div K = R(c)
    BY <1>3
  <2>2. R(c) < Sizes(p, m)[H(c)]
    BY <1>2 DEF Sizes
  <2>. QED  BY <2>1, <2>2 DEF Grid
<1>6. ASSUME NEW q \in Grid(K, Sizes(p, m)) PROVE \E c \in T : f[c] = q
  <2>. DEFINE n == q % K
              r == q \div K
  <2>1. q \in Nat /\ r < Sizes(p, m)[n]
    BY DEF Grid
  <2>2. n \in 0..(K - 1) /\ r \in Nat /\ q = n + r * K
    BY <1>1, <2>1, GridSplit
  <2>. HIDE DEF n, r
  <2>3. r \in 0..(Size(p, m, n) - 1) /\ n \in DOMAIN m.nodes
    <3>1. r < Size(p, m, n) /\ n \in DOMAIN m.nodes
      BY <1>1, <2>1, <2>2 DEF Sizes
    <3>2. Size(p, m, n) \in Nat
      BY <3>1, RankFacts
    <3>. QED  BY <2>2, <3>1, <3>2
  <2>4. PICK c \in Seen(p, m, n) : Rank(p, m, n, c) = r
    BY <2>3, RankFacts
  <2>5. c \in T /\ H(c) = n
    <3>1. c \in T /\ c \in m.nodes[n] /\ c \in Cores(m)
      BY <2>3 DEF AllSeen, Seen, Cores
    <3>. QED  BY <2>3, <3>1, HomeFacts
  <2>6. f[c] = q
    BY <1>2, <2>2, <2>4, <2>5
  <2>. QED  BY <2>5, <2>6
<1>7. DOMAIN f = T
  BY DEF Place
<1>. HIDE DEF f, T, K, H, R
<1>8. {f[c] : c \in T} = Grid(K, Sizes(p, m))
  BY <1>5, <1>6
<1>. QED  BY <1>3, <1>4, <1>7, <1>8 DEF f, T, K, H

(* Not interleaved, one node follows the other, without a gap. *)
LEMMA RowPlaces ==
  ASSUME NEW m, IsMachine(m), NEW p
  PROVE  LET f == Place(p, m, FALSE) IN
           /\ DOMAIN f = AllSeen(p, m)
           /\ \A c, d \in AllSeen(p, m) : f[c] = f[d] => c = d
           /\ {f[c] : c \in AllSeen(p, m)} = 0..(Cardinality(AllSeen(p, m)) - 1)
           /\ \A c, d \in AllSeen(p, m) : f[c] <= f[d] => HomeOf(m, c) <= HomeOf(m, d)
<1>. DEFINE f == Place(p, m, FALSE)
            T == AllSeen(p, m)
            K == NNodes(m)
            H(c) == HomeOf(m, c)
            Earlier(n) == UNION {Seen(p, m, k) : k \in 0..(n - 1)}
            Start(n) == Cardinality(Earlier(n))
            Z(n) == Size(p, m, n)
<1>1. K \in Nat \ {0} /\ DOMAIN m.nodes = 0..(K - 1)
  BY MachineFacts DEF IsMachine
<1>2. IsFiniteSet(T) /\ Cardinality(T) \in Nat
  BY SeenFacts
<1>3. ASSUME NEW n \in 0..(K - 1)
      PROVE  /\ Start(n) \in Nat /\ Z(n) \in Nat
             /\ Start(n) + Z(n) <= Cardinality(T)
             /\ \A k \in 0..(K - 1) : n < k => Start(n) + Z(n) <= Start(k)
  <2>. DEFINE S == Seen(p, m, n)
  <2>1. Earlier(n) \in SUBSET T
    BY <1>1 DEF AllSeen
  <2>2. IsFiniteSet(Earlier(n)) /\ Start(n) \in Nat
    BY <1>2, <2>1, FS_Subset, FS_CardinalityType
  <2>3. IsFiniteSet(S) /\ Z(n) = Cardinality(S) /\ Z(n) \in Nat
    BY <1>1, RankFacts DEF Size
  <2>4. Earlier(n) \cap S = {}
    <3>. SUFFICES ASSUME NEW k \in 0..(n - 1) PROVE Seen(p, m, k) \cap S = {}
      OBVIOUS
    <3>1. k \in DOMAIN m.nodes /\ n \in DOMAIN m.nodes /\ k # n
      BY <1>1
    <3>2. m.nodes[k] \cap m.nodes[n] = {}
      BY <3>1 DEF IsMachine
    <3>. QED  BY <3>2 DEF Seen
  <2>5. IsFiniteSet(Earlier(n) \cup S) /\ Cardinality(Earlier(n) \cup S) = Start(n) + Z(n)
    <3>1. Cardinality(Earlier(n) \cap S) = 0
      BY <2>4, FS_EmptySet
    <3>. HIDE DEF Earlier, S
    <3>2. /\ IsFiniteSet(Earlier(n) \cup S)
          /\ Cardinality(Earlier(n) \cup S)
               = Cardinality(Earlier(n)) + Cardinality(S) - Cardinality(Earlier(n) \cap S)
      BY <2>2, <2>3, FS_Union
    <3>. QED  BY <2>2, <2>3, <3>1, <3>2
  <2>6. Start(n) + Z(n) <= Cardinality(T)
    <3>1. Earlier(n) \cup S \in SUBSET T
      BY <1>1, <2>1 DEF AllSeen
    <3>. HIDE DEF Earlier, S, T
    <3>. QED  BY <1>2, <2>5, <3>1, FS_Subset
  <2>7. ASSUME NEW k \in 0..(K - 1), n < k PROVE Start(n) + Z(n) <= Start(k)
    <3>1. n \in 0..(k - 1) /\ \A j \in 0..(n - 1) : j \in 0..(k - 1)
      BY <1>1, <2>7
    <3>2. Earlier(n) \cup S \in SUBSET Earlier(k)
      BY <3>1
    <3>3. Earlier(k) \in SUBSET T
      BY <1>1 DEF AllSeen
    <3>4. IsFiniteSet(Earlier(k))
      BY <1>2, <3>3, FS_Subset
    <3>. HIDE DEF Earlier, S, T
    <3>. QED  BY <2>5, <3>2, <3>4, FS_Subset
  <2>. QED  BY <2>2, <2>3, <2>6, <2>7
<1>4. ASSUME NEW c \in T
      PROVE  /\ H(c) \in 0..(K - 1) /\ c \in Seen(p, m, H(c)) /\ c \in Nat
             /\ Rank(p, m, H(c), c) \in Nat /\ Rank(p, m, H(c), c) < Z(H(c))
             /\ f[c] = Start(H(c)) + Rank(p, m, H(c), c)
  <2>1. H(c) \in DOMAIN m.nodes /\ c \in Seen(p, m, H(c)) /\ c \in Nat
    BY SeenFacts
  <2>2. Rank(p, m, H(c), c) \in 0..(Z(H(c)) - 1) /\ Z(H(c)) \in Nat
    BY <2>1, RankFacts
  <2>3. f[c] = Start(H(c)) + Rank(p, m, H(c), c)
    BY DEF Place, Slot
  <2>4. H(c) \in 0..(K - 1)
    BY <1>1, <2>1
  <2>5. Rank(p, m, H(c), c) \in Nat /\ Rank(p, m, H(c), c) < Z(H(c))
    <3>. HIDE DEF H, Z
    <3>. QED  BY <2>2
  <2>. HIDE DEF H, f, K, Z, Start
  <2>. QED  BY <2>1, <2>3, <2>4, <2>5
<1>. HIDE DEF Earlier, Start, Z, H, f, T
<1>5. ASSUME NEW c \in T
      PROVE  f[c] \in 0..(Cardinality(T) - 1)
  BY <1>2, <1>3, <1>4
<1>6. ASSUME NEW c \in T, NEW d \in T, H(c) < H(d) PROVE f[c] < f[d]
  <2>1. /\ Start(H(c)) \in Nat /\ Z(H(c)) \in Nat /\ Start(H(d)) \in Nat
        /\ Start(H(c)) + Z(H(c)) <= Start(H(d))
    BY <1>3, <1>4, <1>6
  <2>. QED  BY <1>4, <2>1
<1>7. ASSUME NEW c \in T, NEW d \in T, H(c) = H(d), c < d PROVE f[c] < f[d]
  <2>1. c \in Seen(p, m, H(c)) /\ d \in Seen(p, m, H(c)) /\ H(c) \in DOMAIN m.nodes
    BY <1>1, <1>4, <1>7
  <2>2. Rank(p, m, H(c), c) < Rank(p, m, H(c), d)
    BY <1>7, <2>1, RankFacts
  <2>3. Start(H(c)) \in Nat
    BY <1>3, <1>4
  <2>4. /\ f[c] = Start(H(c)) + Rank(p, m, H(c), c) /\ f[d] = Start(H(c)) + Rank(p, m, H(c), d)
        /\ Rank(p, m, H(c), c) \in Nat /\ Rank(p, m, H(c), d) \in Nat
    BY <1>4, <1>7
  <2>. QED  BY <2>2, <2>3, <2>4
<1>8. ASSUME NEW c \in T, NEW d \in T, f[c] = f[d] PROVE c = d
  <2>1. f[c] \in Int /\ f[d] \in Int /\ H(c) \in Int /\ H(d) \in Int /\ c \in Int /\ d \in Int
    BY <1>4, <1>5
  <2>2. H(c) = H(d)
    BY <1>6, <1>8, <2>1
  <2>. QED  BY <1>7, <1>8, <2>1, <2>2
<1>9. ASSUME NEW c \in T, NEW d \in T, f[c] <= f[d] PROVE H(c) <= H(d)
  <2>1. f[c] \in Int /\ f[d] \in Int /\ H(c) \in Int /\ H(d) \in Int
    BY <1>4, <1>5
  <2>. QED  BY <1>6, <1>9, <2>1
<1>10. DOMAIN f = T
  BY DEF f, T, Place
<1>11. {f[c] : c \in T} = 0..(Cardinality(T) - 1)
  <2>1. IsFiniteSet(0..(Cardinality(T) - 1)) /\ Cardinality(0..(Cardinality(T) - 1)) = Cardinality(T)
    BY <1>2, IntervalSize
  <2>2. Cardinality({f[c] : c \in T}) = Cardinality(T)
    BY <1>2, <1>8, <1>10, Counting
  <2>3. {f[c] : c \in T} \in SUBSET (0..(Cardinality(T) - 1))
    BY <1>5
  <2>. QED  BY <2>1, <2>2, <2>3, FS_Subset
<1>. QED  BY <1>8, <1>9, <1>10, <1>11 DEF f, T, H

(* A place of the list has the core written there, or was never written. *)
PlacesDistinct(p, m, il) ==
  \A c, d \in AllSeen(p, m) : Place(p, m, il)[c] = Place(p, m, il)[d] => c = d
Written(p, m, il) ==
  LET f == Place(p, m, il)  L == Listed(p, m, il) IN
    /\ DOMAIN L = 0..(NProc(m) - 1)
    /\ \A s \in 0..(NProc(m) - 1) :
         /\ \A c \in AllSeen(p, m) : f[c] = s => L[s] = c
         /\ (\A c \in AllSeen(p, m) : f[c] # s) => L[s] = Garbage

LEMMA ListedIs ==
  ASSUME NEW m, IsMachine(m), NEW p, NEW il, PlacesDistinct(p, m, il)
  PROVE  Written(p, m, il)
<1>. DEFINE f == Place(p, m, il)
            T == AllSeen(p, m)
            Here(s) == {c \in Cores(m) : \E n \in DOMAIN m.nodes :
                          c \in Seen(p, m, n) /\ Slot(p, m, il, n, c) = s}
<1>1. ASSUME NEW s PROVE Here(s) = {c \in T : f[c] = s}
  <2>1. ASSUME NEW n \in DOMAIN m.nodes, NEW c \in Seen(p, m, n)
        PROVE  c \in T /\ c \in Cores(m) /\ f[c] = Slot(p, m, il, n, c)
    <3>1. c \in T /\ c \in Cores(m) /\ c \in m.nodes[n]
      BY DEF AllSeen, Seen, Cores
    <3>2. n = HomeOf(m, c)
      BY <3>1, HomeFacts
    <3>. QED  BY <3>1, <3>2 DEF Place
  <2>2. \A c \in T : \E n \in DOMAIN m.nodes : c \in Seen(p, m, n)
    BY DEF AllSeen
  <2>. HIDE DEF f, T
  <2>. QED  BY <2>1, <2>2
<1>2. ASSUME NEW s \in 0..(NProc(m) - 1)
      PROVE  Listed(p, m, il)[s] = IF Here(s) = {} THEN Garbage ELSE CHOOSE c \in Here(s) : TRUE
  BY DEF Listed
<1>. HIDE DEF Here, f, T
<1>3. ASSUME NEW s \in 0..(NProc(m) - 1), NEW c \in T, f[c] = s PROVE Listed(p, m, il)[s] = c
  <2>1. Here(s) = {c}
    BY <1>1, <1>3 DEF f, T, PlacesDistinct
  <2>. QED  BY <1>2, <2>1
<1>4. ASSUME NEW s \in 0..(NProc(m) - 1), \A c \in T : f[c] # s PROVE Listed(p, m, il)[s] = Garbage
  <2>1. Here(s) = {}
    BY <1>1, <1>4
  <2>. QED  BY <1>2, <2>1
<1>. QED  BY <1>3, <1>4 DEF Listed, f, T, Written

LEMMA NodeOrder ==
  ASSUME NEW m, NEW list, NEW il
  PROVE  InNodeOrder(m, list, il) <=>
           IF il
           THEN \A s \in DOMAIN list : HomeOf(m, list[s]) = s % NNodes(m)
           ELSE \A s, r \in DOMAIN list :
                  s < r /\ list[r] # 0 => HomeOf(m, list[s]) <= HomeOf(m, list[r])
BY DEF InNodeOrder, HomeOf

------------------------------------------------------------------------------
(* What the loops see when the core ids have no gap. *)
LEMMA DenseFacts ==
  ASSUME NEW m, IsMachine(m), Dense(m.task)
  PROVE  /\ m.task = 0..(NProc(m) - 1) /\ 0 \in Cores(m)
         /\ AllSeen("linux", m) = 0..(NProc(m) - 1)
         /\ Cardinality(AllSeen("linux", m)) = NProc(m)
         /\ AllSeen("barrelfish", m) = 1..(NProc(m) - 1)
         /\ Cardinality(AllSeen("barrelfish", m)) = NProc(m) - 1
<1>. DEFINE P == NProc(m)
<1>1. P \in Nat \ {0} /\ m.task = 0..(P - 1) /\ m.task \subseteq Cores(m) /\ Cores(m) \subseteq Nat
  BY MachineFacts DEF Dense, NProc, IsMachine
<1>. HIDE DEF P
<1>2. AllSeen("linux", m) = 0..(P - 1)
  <2>1. AllSeen("linux", m) = {c \in Cores(m) : 0 <= c /\ c < P}
    BY SeenFacts DEF First, P
  <2>2. ASSUME NEW c \in 0..(P - 1) PROVE c \in Cores(m) /\ 0 <= c /\ c < P
    <3>1. c \in m.task
      BY <1>1
    <3>. QED  BY <1>1, <3>1
  <2>3. ASSUME NEW c \in Cores(m), 0 <= c, c < P PROVE c \in 0..(P - 1)
    <3>1. c \in Nat
      BY <1>1
    <3>. QED  BY <1>1, <2>3, <3>1
  <2>. QED  BY <2>1, <2>2, <2>3
<1>3. AllSeen("barrelfish", m) = 1..(P - 1)
  <2>1. AllSeen("barrelfish", m) = {c \in Cores(m) : 1 <= c /\ c < P}
    BY SeenFacts DEF First, P
  <2>2. ASSUME NEW c \in 1..(P - 1) PROVE c \in Cores(m) /\ 1 <= c /\ c < P
    <3>1. c \in m.task
      BY <1>1
    <3>. QED  BY <1>1, <3>1
  <2>3. ASSUME NEW c \in Cores(m), 1 <= c, c < P PROVE c \in 1..(P - 1)
    <3>1. c \in Nat
      BY <1>1
    <3>. QED  BY <1>1, <2>3, <3>1
  <2>. QED  BY <2>1, <2>2, <2>3
<1>4. 0 \in Int /\ 1 \in Int /\ P - 1 \in Int
  BY <1>1
<1>5. Cardinality(0..(P - 1)) = P
  BY <1>1, <1>4, FS_Interval
<1>6. Cardinality(1..(P - 1)) = P - 1
  BY <1>1, <1>4, FS_Interval
<1>7. 0 \in Cores(m)
  BY <1>1
<1>. QED  BY <1>1, <1>2, <1>3, <1>5, <1>6, <1>7 DEF P

(* A list without anything unwritten has cores up to nproc only. *)
LEMMA DenseNeeded ==
  ASSUME NEW m, IsMachine(m), NEW p \in {"linux", "barrelfish"}, NEW il,
         ListsEach(Order(p, m, il), m.task), PlacesDistinct(p, m, il)
  PROVE  Dense(m.task)
<1>. DEFINE P == NProc(m)
            L == Listed(p, m, il)
<1>1. P \in Nat \ {0} /\ IsFiniteSet(m.task) /\ Cardinality(m.task) = P
  BY MachineFacts DEF NProc
<1>2. \A s \in DOMAIN L : L[s] \in AllSeen(p, m) \union {Garbage}
  <2>1. Written(p, m, il)
    BY ListedIs
  <2>. QED  BY <2>1 DEF Written
<1>3. DOMAIN L = DOMAIN Order(p, m, il)
  BY DEF Order, LinuxOrder, BarrelfishOrder
<1>4. \A s \in DOMAIN L : Order(p, m, il)[s] \in AllSeen(p, m) \union {Garbage, 0}
  <2>1. CASE p = "linux"
    BY <1>2, <2>1 DEF Order, LinuxOrder
  <2>2. CASE p = "barrelfish"
    <3>1. Order(p, m, il) = [L EXCEPT ![ZeroSlot(m, il)] = 0]
      BY <2>2 DEF Order, BarrelfishOrder
    <3>2. \A s \in DOMAIN L : Order(p, m, il)[s] \in {L[s], 0}
      BY <3>1
    <3>. QED  BY <1>2, <3>2
  <2>. QED  BY <2>1, <2>2
<1>5. m.task \subseteq AllSeen(p, m) \union {Garbage, 0}
  BY <1>3, <1>4 DEF ListsEach
<1>6. m.task \subseteq Nat
  BY DEF IsMachine
<1>7. AllSeen(p, m) \subseteq 0..(P - 1)
  <2>1. AllSeen(p, m) = {c \in Cores(m) : First(p) <= c /\ c < P} /\ AllSeen(p, m) \subseteq Nat
    BY SeenFacts
  <2>. HIDE DEF P
  <2>. QED  BY <1>1, <2>1
<1>8. m.task \subseteq 0..(P - 1)
  BY <1>1, <1>5, <1>6, <1>7 DEF Garbage
<1>9. IsFiniteSet(0..(P - 1)) /\ Cardinality(0..(P - 1)) = P
  BY <1>1, IntervalSize
<1>10. m.task = 0..(P - 1)
  BY <1>1, <1>8, <1>9, FS_Subset
<1>. QED  BY <1>1, <1>10 DEF Dense

Right(p, m, il) ==
  ListsEach(Order(p, m, il), m.task) /\ InNodeOrder(m, Order(p, m, il), il)

LEMMA LinuxRow ==
  ASSUME NEW m, IsMachine(m), Dense(m.task), NEW il, ~il
  PROVE  Right("linux", m, il)
<1>. DEFINE f == Place("linux", m, FALSE)
            L == Order("linux", m, il)
            P == NProc(m)
            T == AllSeen("linux", m)
<1>1. L = Listed("linux", m, FALSE)
  BY DEF Order, LinuxOrder, Listed, Slot
<1>2. /\ P \in Nat \ {0} /\ T = 0..(P - 1) /\ m.task = 0..(P - 1) /\ Cardinality(T) = P
      /\ Cardinality(m.task) = P
  BY DenseFacts, MachineFacts DEF NProc
<1>3. /\ \A c, d \in T : f[c] = f[d] => c = d
      /\ {f[c] : c \in T} = 0..(P - 1)
      /\ \A c, d \in T : f[c] <= f[d] => HomeOf(m, c) <= HomeOf(m, d)
  BY <1>2, RowPlaces
<1>4. DOMAIN L = 0..(P - 1) /\ \A s \in 0..(P - 1), c \in T : f[c] = s => L[s] = c
  <2>1. PlacesDistinct("linux", m, FALSE)
    BY <1>3 DEF PlacesDistinct
  <2>2. Written("linux", m, FALSE)
    BY <2>1, ListedIs
  <2>. QED  BY <1>1, <2>2 DEF Written
<1>. HIDE DEF f, L, P, T
<1>5. ASSUME NEW s \in 0..(P - 1) PROVE L[s] \in T /\ f[L[s]] = s
  <2>1. PICK c \in T : f[c] = s
    BY <1>3
  <2>. QED  BY <1>4, <2>1
<1>6. \A c \in T : f[c] \in 0..(P - 1) /\ L[f[c]] = c
  BY <1>3, <1>4
<1>7. ListsEach(L, m.task)
  <2>1. {L[s] : s \in DOMAIN L} = T
    BY <1>4, <1>5, <1>6
  <2>. QED  BY <1>2, <1>4, <2>1 DEF ListsEach
<1>8. ASSUME NEW s \in DOMAIN L, NEW r \in DOMAIN L, s < r
      PROVE  HomeOf(m, L[s]) <= HomeOf(m, L[r])
  <2>1. s <= r /\ s \in 0..(P - 1) /\ r \in 0..(P - 1)
    BY <1>2, <1>4, <1>8
  <2>. QED  BY <1>3, <1>5, <2>1
<1>9. InNodeOrder(m, L, il)
  BY <1>8, NodeOrder
<1>. QED  BY <1>7, <1>9 DEF Right, L

LEMMA BarrelfishRow ==
  ASSUME NEW m, IsMachine(m), Dense(m.task), NEW il, ~il
  PROVE  Right("barrelfish", m, il)
<1>. DEFINE f == Place("barrelfish", m, FALSE)
            M == Listed("barrelfish", m, FALSE)
            L == Order("barrelfish", m, il)
            P == NProc(m)
            T == AllSeen("barrelfish", m)
<1>1. L = [M EXCEPT ![P - 1] = 0]
  <2>1. Listed("barrelfish", m, il) = M
    BY DEF Listed, Slot
  <2>2. ZeroSlot(m, il) = P - 1
    BY DenseFacts DEF ZeroSlot, AllSeen
  <2>. QED  BY <2>1, <2>2 DEF Order, BarrelfishOrder
<1>2. /\ P \in Nat \ {0} /\ T = 1..(P - 1) /\ m.task = 0..(P - 1) /\ Cardinality(T) = P - 1
      /\ Cardinality(m.task) = P
  BY DenseFacts, MachineFacts DEF NProc
<1>3. /\ \A c, d \in T : f[c] = f[d] => c = d
      /\ {f[c] : c \in T} = 0..(P - 1 - 1)
      /\ \A c, d \in T : f[c] <= f[d] => HomeOf(m, c) <= HomeOf(m, d)
  BY <1>2, RowPlaces
<1>4. DOMAIN M = 0..(P - 1) /\ \A s \in 0..(P - 1), c \in T : f[c] = s => M[s] = c
  <2>1. PlacesDistinct("barrelfish", m, FALSE)
    BY <1>3 DEF PlacesDistinct
  <2>2. Written("barrelfish", m, FALSE)
    BY <2>1, ListedIs
  <2>. QED  BY <2>2 DEF Written
<1>. HIDE DEF f, L, P, T, M
<1>5. /\ DOMAIN L = 0..(P - 1) /\ L[P - 1] = 0
      /\ \A s \in 0..(P - 1 - 1) : s \in 0..(P - 1) /\ L[s] = M[s]
  BY <1>1, <1>2, <1>4
<1>6. ASSUME NEW s \in 0..(P - 1 - 1) PROVE L[s] \in T /\ f[L[s]] = s
  <2>1. PICK c \in T : f[c] = s
    BY <1>3
  <2>. QED  BY <1>4, <1>5, <2>1
<1>7. \A c \in T : f[c] \in 0..(P - 1 - 1) /\ L[f[c]] = c
  BY <1>3, <1>4, <1>5
<1>8. \A s \in 0..(P - 1) : s = P - 1 \/ s \in 0..(P - 1 - 1)
  BY <1>2
<1>9. ListsEach(L, m.task)
  <2>1. ASSUME NEW s \in DOMAIN L PROVE L[s] \in m.task
    BY <1>2, <1>5, <1>6, <1>8
  <2>2. ASSUME NEW c \in m.task PROVE \E s \in DOMAIN L : L[s] = c
    <3>1. CASE c = 0
      <4>1. P - 1 \in 0..(P - 1)
        BY <1>2
      <4>. QED  BY <1>5, <3>1, <4>1
    <3>2. CASE c # 0
      <4>1. c \in T
        BY <1>2, <3>2
      <4>. QED  BY <1>5, <1>7, <4>1
    <3>. QED  BY <3>1, <3>2
  <2>3. {L[s] : s \in DOMAIN L} = m.task
    BY <2>1, <2>2
  <2>. QED  BY <1>2, <1>5, <2>3 DEF ListsEach
<1>10. ASSUME NEW s \in DOMAIN L, NEW r \in DOMAIN L, s < r, L[r] # 0
       PROVE  HomeOf(m, L[s]) <= HomeOf(m, L[r])
  <2>1. r # P - 1 /\ s \in 0..(P - 1) /\ r \in 0..(P - 1)
    BY <1>5, <1>10
  <2>2. s <= r /\ s \in 0..(P - 1 - 1) /\ r \in 0..(P - 1 - 1)
    BY <1>2, <1>10, <2>1
  <2>. QED  BY <1>3, <1>6, <2>2
<1>11. InNodeOrder(m, L, il)
  BY <1>10, NodeOrder
<1>. QED  BY <1>9, <1>11 DEF Right, L

(* On Linux an interleaved list is complete when the grid has no gap. *)
LEMMA LinuxGrid ==
  ASSUME NEW m, IsMachine(m), Dense(m.task), NEW il, il
  PROVE  Right("linux", m, il) <=> Even("linux", m)
<1>. DEFINE f == Place("linux", m, TRUE)
            L == Order("linux", m, il)
            P == NProc(m)
            K == NNodes(m)
            T == AllSeen("linux", m)
            G == Grid(K, Sizes("linux", m))
<1>1. L = Listed("linux", m, TRUE)
  BY DEF Order, LinuxOrder, Listed, Slot
<1>2. /\ P \in Nat \ {0} /\ T = 0..(P - 1) /\ m.task = 0..(P - 1) /\ Cardinality(T) = P
      /\ Cardinality(m.task) = P /\ IsFiniteSet(T)
  BY DenseFacts, MachineFacts, SeenFacts DEF NProc
<1>3. /\ DOMAIN f = T /\ \A c, d \in T : f[c] = f[d] => c = d
      /\ {f[c] : c \in T} = G
      /\ \A c \in T : f[c] % K = HomeOf(m, c)
  BY GridPlaces
<1>4. /\ DOMAIN L = 0..(P - 1)
      /\ \A s \in 0..(P - 1) :
           /\ \A c \in T : f[c] = s => L[s] = c
           /\ (\A c \in T : f[c] # s) => L[s] = Garbage
  <2>1. PlacesDistinct("linux", m, TRUE)
    BY <1>3 DEF PlacesDistinct
  <2>2. Written("linux", m, TRUE)
    BY <2>1, ListedIs
  <2>. QED  BY <1>1, <2>2 DEF Written
<1>5. G = 0..(P - 1) <=> Even("linux", m)
  <2>1. K \in Nat \ {0} /\ DOMAIN m.nodes = 0..(K - 1)
    BY MachineFacts DEF IsMachine
  <2>2. Sizes("linux", m) \in [0..(K - 1) -> Nat]
    <3>1. \A n \in 0..(K - 1) : Size("linux", m, n) \in Nat
      BY <2>1, RankFacts
    <3>. QED  BY <3>1 DEF Sizes
  <2>3. IsFiniteSet({f[c] : c \in T}) /\ Cardinality({f[c] : c \in T}) = P
    <3>. HIDE DEF f, T, P, G
    <3>. QED  BY <1>2, <1>3, Counting
  <2>4. IsFiniteSet(G) /\ Cardinality(G) = P
    BY <1>3, <2>3
  <2>5. G = 0..(P - 1) <=>
          \A n, k \in 0..(K - 1) : n < k => Sizes("linux", m)[n] - Sizes("linux", m)[k] \in {0, 1}
    <3>. HIDE DEF K, P
    <3>. QED  BY <1>2, <2>1, <2>2, <2>4, GridEven
  <2>. QED  BY <2>1, <2>5 DEF Even, Sizes
<1>. HIDE DEF f, L, P, T, G
<1>6. IsFiniteSet(G) /\ Cardinality(G) = P
  <2>1. IsFiniteSet({f[c] : c \in T}) /\ Cardinality({f[c] : c \in T}) = P
    BY <1>2, <1>3, Counting
  <2>. QED  BY <1>3, <2>1
<1>7. ASSUME G = 0..(P - 1) PROVE Right("linux", m, il)
  <2>1. ASSUME NEW s \in 0..(P - 1) PROVE L[s] \in T /\ f[L[s]] = s
    <3>1. PICK c \in T : f[c] = s
      BY <1>3, <1>7
    <3>. QED  BY <1>4, <3>1
  <2>2. \A c \in T : f[c] \in 0..(P - 1) /\ L[f[c]] = c
    BY <1>3, <1>4, <1>7
  <2>3. {L[s] : s \in DOMAIN L} = T
    BY <1>4, <2>1, <2>2
  <2>4. ListsEach(L, m.task)
    BY <1>2, <1>4, <2>3 DEF ListsEach
  <2>5. \A s \in DOMAIN L : HomeOf(m, L[s]) = s % K
    BY <1>3, <1>4, <2>1
  <2>6. InNodeOrder(m, L, il)
    BY <2>5, NodeOrder DEF K
  <2>. QED  BY <2>4, <2>6 DEF Right, L
<1>8. ASSUME Right("linux", m, il) PROVE G = 0..(P - 1)
  <2>1. ListsEach(L, m.task)
    BY <1>8 DEF Right, L
  <2>2. \A s \in 0..(P - 1) : L[s] # Garbage
    <3>1. \A s \in 0..(P - 1) : L[s] \in 0..(P - 1)
      <4>1. {L[s] : s \in DOMAIN L} = m.task
        BY <2>1 DEF ListsEach
      <4>. QED  BY <1>2, <1>4, <4>1
    <3>2. Garbage \notin 0..(P - 1)
      BY DEF Garbage
    <3>. QED  BY <3>1, <3>2
  <2>3. 0..(P - 1) \in SUBSET G
    BY <1>3, <1>4, <2>2
  <2>4. Cardinality(0..(P - 1)) = P
    BY <1>2, IntervalSize
  <2>. QED  BY <1>6, <2>3, <2>4, FS_Subset
<1>. QED  BY <1>5, <1>7, <1>8

(* On Barrelfish core 0 closes the gap the others leave. *)
LEMMA BarrelfishGrid ==
  ASSUME NEW m, IsMachine(m), Dense(m.task), NEW il, il
  PROVE  Right("barrelfish", m, il) <=> Even("barrelfish", m)
<1>. DEFINE f == Place("barrelfish", m, TRUE)
            M == Listed("barrelfish", m, TRUE)
            L == Order("barrelfish", m, il)
            P == NProc(m)
            K == NNodes(m)
            T == AllSeen("barrelfish", m)
            b == Sizes("barrelfish", m)
            a == Sizes("linux", m)
            G == Grid(K, b)
            F == Grid(K, a)
            h == HomeOf(m, 0)
            z == ZeroSlot(m, TRUE)
            y == h + b[h] * K
<1>1. K \in Nat \ {0} /\ DOMAIN m.nodes = 0..(K - 1)
  BY MachineFacts DEF IsMachine
<1>2. /\ P \in Nat \ {0} /\ T = 1..(P - 1) /\ m.task = 0..(P - 1) /\ Cardinality(T) = P - 1
      /\ Cardinality(m.task) = P /\ IsFiniteSet(T) /\ 0 \in Cores(m)
  BY DenseFacts, MachineFacts, SeenFacts DEF NProc
<1>3. h \in 0..(K - 1) /\ 0 \in m.nodes[h] /\ \A n \in DOMAIN m.nodes : 0 \in m.nodes[n] => n = h
  BY <1>1, <1>2, HomeFacts
<1>4. b \in [0..(K - 1) -> Nat]
  <2>1. \A n \in 0..(K - 1) : Size("barrelfish", m, n) \in Nat
    BY <1>1, RankFacts
  <2>. QED  BY <2>1 DEF Sizes
<1>5. \A n \in 0..(K - 1) : a[n] = IF n = h THEN b[n] + 1 ELSE b[n]
  <2>. SUFFICES ASSUME NEW n \in 0..(K - 1) PROVE a[n] = IF n = h THEN b[n] + 1 ELSE b[n]
    OBVIOUS
  <2>. DEFINE S == Seen("barrelfish", m, n)
              R == Seen("linux", m, n)
  <2>1. \A c \in m.nodes[n] : c \in Nat
    BY <1>1 DEF IsMachine, Cores
  <2>2. 0 \notin S
    BY DEF Seen, First
  <2>3. IsFiniteSet(S)
    BY <1>1, RankFacts
  <2>4. a[n] = Cardinality(R) /\ b[n] = Cardinality(S)
    BY DEF Sizes, Size
  <2>5. CASE n = h
    <3>1. R = S \cup {0}
      BY <1>2, <1>3, <2>1, <2>5 DEF Seen, First
    <3>2. Cardinality(S \cup {0}) = Cardinality(S) + 1
      BY <2>2, <2>3, FS_AddElement
    <3>. QED  BY <2>4, <2>5, <3>1, <3>2
  <2>6. CASE n # h
    <3>1. 0 \notin m.nodes[n]
      BY <1>1, <1>3, <2>6
    <3>2. R = S
      BY <2>1, <3>1 DEF Seen, First
    <3>. QED  BY <2>4, <2>6, <3>2
  <2>. QED  BY <2>5, <2>6
<1>6. z \in Nat /\ z \in 0..(P - 1)
  <2>1. K - 1 \in DOMAIN m.nodes
    BY <1>1
  <2>2. Seen("barrelfish", m, K - 1) \in SUBSET T
    BY <2>1 DEF AllSeen
  <2>3. z = Cardinality(Seen("barrelfish", m, K - 1))
    BY DEF ZeroSlot
  <2>4. z \in Nat /\ z <= P - 1
    <3>1. IsFiniteSet(Seen("barrelfish", m, K - 1)) /\ z <= P - 1
      BY <1>2, <2>2, <2>3, FS_Subset
    <3>. QED  BY <2>3, <3>1, FS_CardinalityType
  <2>. HIDE DEF z, P
  <2>. QED  BY <1>2, <2>4
<1>7. /\ DOMAIN f = T /\ \A c, d \in T : f[c] = f[d] => c = d
      /\ {f[c] : c \in T} = G
      /\ \A c \in T : f[c] % K = HomeOf(m, c)
  BY GridPlaces
<1>8. /\ DOMAIN M = 0..(P - 1)
      /\ \A s \in 0..(P - 1) :
           /\ \A c \in T : f[c] = s => M[s] = c
           /\ (\A c \in T : f[c] # s) => M[s] = Garbage
  <2>1. PlacesDistinct("barrelfish", m, TRUE)
    BY <1>7 DEF PlacesDistinct
  <2>2. Written("barrelfish", m, TRUE)
    BY <2>1, ListedIs
  <2>. QED  BY <2>2 DEF Written
<1>9. L = [M EXCEPT ![z] = 0]
  BY DEF Order, BarrelfishOrder, Listed, Slot, ZeroSlot
<1>10. Even("barrelfish", m) <=> Even("linux", m) /\ z = y
  BY <1>1, <1>3 DEF Even, Sizes
<1>11. Even("linux", m) <=> \A n, k \in 0..(K - 1) : n < k => a[n] - a[k] \in {0, 1}
  BY <1>1 DEF Even, Sizes
<1>12. IsFiniteSet(G) /\ Cardinality(G) = P - 1
  <2>1. IsFiniteSet({f[c] : c \in T}) /\ Cardinality({f[c] : c \in T}) = P - 1
    <3>. HIDE DEF f, T, P, G
    <3>. QED  BY <1>2, <1>7, Counting
  <2>. QED  BY <1>7, <2>1
<1>13. a \in [0..(K - 1) -> Nat]
  <2>1. \A n \in 0..(K - 1) : Size("linux", m, n) \in Nat
    BY <1>1, RankFacts
  <2>. QED  BY <2>1 DEF Sizes
<1>. HIDE DEF f, M, L, P, T, a, b, h, z, K
(* The grid of all cores is that of the others and a place for core 0. *)
<1>14. y \in Nat /\ y % K = h /\ y \div K = b[h]
  BY <1>1, <1>3, <1>4, GridPlace
<1>15. y \notin G /\ F = G \cup {y}
  <2>1. y \notin G
    <3>1. b[h] \in Nat
      BY <1>3, <1>4
    <3>. QED  BY <1>14, <3>1 DEF Grid
  <2>2. ASSUME NEW q \in Nat PROVE q \in F <=> q \in G \/ q = y
    <3>. DEFINE n == q % K
                r == q \div K
    <3>1. n \in 0..(K - 1) /\ r \in Nat /\ q = n + r * K
      BY <1>1, GridSplit
    <3>2. (q \in F <=> r < a[n]) /\ (q \in G <=> r < b[n])
      BY DEF Grid
    <3>3. q = y <=> n = h /\ r = b[h]
      BY <1>14, <3>1
    <3>. HIDE DEF n, r, y, F, G
    <3>4. a[n] \in Nat /\ b[n] \in Nat
      BY <1>4, <1>13, <3>1
    <3>5. CASE n = h
      <4>1. a[n] = b[n] + 1
        BY <1>3, <1>5, <3>5
      <4>2. r < a[n] <=> r < b[n] \/ r = b[n]
        BY <3>1, <3>4, <4>1
      <4>. QED  BY <3>2, <3>3, <3>5, <4>2
    <3>6. CASE n # h
      <4>1. a[n] = b[n]
        BY <1>5, <3>1, <3>6
      <4>. QED  BY <3>2, <3>3, <3>6, <4>1
    <3>. QED  BY <3>5, <3>6
  <2>3. F \subseteq Nat /\ G \subseteq Nat
    BY DEF Grid
  <2>. QED  BY <1>14, <2>1, <2>2, <2>3
<1>16. IsFiniteSet(F) /\ Cardinality(F) = P
  <2>1. IsFiniteSet(G \cup {y}) /\ Cardinality(G \cup {y}) = P - 1 + 1
    BY <1>12, <1>15, FS_AddElement
  <2>. QED  BY <1>2, <1>15, <2>1
<1>17. F = 0..(P - 1) <=> Even("linux", m)
  BY <1>1, <1>2, <1>11, <1>13, <1>16, GridEven
<1>. HIDE DEF F, G
<1>18. /\ DOMAIN L = 0..(P - 1) /\ L[z] = 0
       /\ \A s \in 0..(P - 1) \ {z} : L[s] = M[s]
  BY <1>6, <1>8, <1>9
<1>19. ASSUME F = 0..(P - 1), z = y PROVE Right("barrelfish", m, il)
  <2>1. G = 0..(P - 1) \ {z}
    BY <1>15, <1>19
  <2>2. ASSUME NEW s \in 0..(P - 1) \ {z} PROVE L[s] \in T /\ f[L[s]] = s
    <3>1. PICK c \in T : f[c] = s
      BY <1>7, <2>1
    <3>. QED  BY <1>8, <1>18, <3>1
  <2>3. ASSUME NEW c \in T PROVE f[c] \in 0..(P - 1) \ {z} /\ L[f[c]] = c
    <3>1. f[c] \in 0..(P - 1) \ {z}
      BY <1>7, <2>1
    <3>. QED  BY <1>8, <1>18, <3>1
  <2>4. ASSUME NEW s \in DOMAIN L PROVE L[s] \in m.task
    <3>1. 0 \in m.task /\ T \subseteq m.task
      BY <1>2
    <3>. QED  BY <1>18, <2>2, <3>1
  <2>5. ASSUME NEW c \in m.task PROVE \E s \in DOMAIN L : L[s] = c
    <3>1. CASE c = 0
      BY <1>6, <1>18, <3>1
    <3>2. CASE c # 0
      <4>1. c \in T
        BY <1>2, <3>2
      <4>. QED  BY <1>18, <2>3, <4>1
    <3>. QED  BY <3>1, <3>2
  <2>6. {L[s] : s \in DOMAIN L} = m.task
    BY <2>4, <2>5
  <2>7. ListsEach(L, m.task)
    BY <1>2, <1>18, <2>6 DEF ListsEach
  <2>8. ASSUME NEW s \in DOMAIN L PROVE HomeOf(m, L[s]) = s % K
    <3>1. CASE s = z
      <4>1. HomeOf(m, L[s]) = h
        BY <1>18, <3>1 DEF h
      <4>. QED  BY <1>14, <1>19, <3>1, <4>1
    <3>2. CASE s # z
      BY <1>7, <1>18, <2>2, <3>2
    <3>. QED  BY <3>1, <3>2
  <2>9. InNodeOrder(m, L, il)
    BY <2>8, NodeOrder DEF K
  <2>. QED  BY <2>7, <2>9 DEF Right, L
<1>20. ASSUME Right("barrelfish", m, il) PROVE F = 0..(P - 1) /\ z = y
  <2>1. ListsEach(L, m.task) /\ InNodeOrder(m, L, il)
    BY <1>20 DEF Right, L
  <2>2. \A s \in 0..(P - 1) : L[s] # Garbage
    <3>1. \A s \in 0..(P - 1) : L[s] \in 0..(P - 1)
      <4>1. {L[s] : s \in DOMAIN L} = m.task
        BY <2>1 DEF ListsEach
      <4>. QED  BY <1>2, <1>18, <4>1
    <3>2. Garbage \notin 0..(P - 1)
      BY DEF Garbage
    <3>. QED  BY <3>1, <3>2
  <2>3. (0..(P - 1)) \ {z} \in SUBSET G
    BY <1>7, <1>8, <1>18, <2>2
  <2>4. Cardinality((0..(P - 1)) \ {z}) = P - 1
    <3>1. IsFiniteSet(0..(P - 1)) /\ Cardinality(0..(P - 1)) = P
      BY <1>2, IntervalSize
    <3>. QED  BY <1>6, <3>1, FS_RemoveElement
  <2>5. G = (0..(P - 1)) \ {z}
    BY <1>12, <2>3, <2>4, FS_Subset
  <2>6. z % K = h
    <3>1. \A s \in DOMAIN L : HomeOf(m, L[s]) = s % K
      BY <2>1, NodeOrder DEF K
    <3>. QED  BY <1>6, <1>18, <3>1 DEF h
  <2>7. z = y
    <3>. DEFINE r == z \div K
    <3>1. r \in Nat /\ z = h + r * K
      BY <1>1, <1>6, <2>6, GridSplit
    <3>2. z \notin G
      BY <2>5
    <3>3. b[h] \in Nat
      BY <1>3, <1>4
    <3>4. ~(r < b[h])
      BY <1>6, <2>6, <3>2 DEF G, Grid
    <3>5. ~(b[h] < r)
      <4>. SUFFICES ASSUME b[h] < r PROVE FALSE
        OBVIOUS
      <4>. HIDE DEF r
      <4>1. y < z
        BY <1>1, <1>3, <3>1, <3>3, GridOrder
      <4>2. y \in 0..(P - 1) /\ y # z
        BY <1>2, <1>6, <1>14, <4>1
      <4>. QED  BY <1>15, <2>5, <4>2
    <3>6. r = b[h]
      <4>. HIDE DEF r
      <4>. QED  BY <3>1, <3>3, <3>4, <3>5
    <3>. QED  BY <3>1, <3>6
  <2>8. F = 0..(P - 1)
    BY <1>6, <1>15, <2>5, <2>7
  <2>. QED  BY <2>7, <2>8
<1>. QED  BY <1>10, <1>17, <1>19, <1>20

(* The list is right on exactly these machines. *)
LEMMA OrderRight ==
  ASSUME NEW m, IsMachine(m), NEW p \in {"linux", "barrelfish"}, NEW il
  PROVE  Right(p, m, il) <=> Dense(m.task) /\ (il => Even(p, m))
<1>1. Right(p, m, il) => Dense(m.task)
  <2>1. PlacesDistinct(p, m, TRUE) /\ PlacesDistinct(p, m, FALSE)
    BY GridPlaces, RowPlaces DEF PlacesDistinct
  <2>2. PlacesDistinct(p, m, il)
    <3>1. CASE il
      <4>1. Place(p, m, il) = Place(p, m, TRUE)
        BY <3>1 DEF Place, Slot
      <4>. QED  BY <2>1, <4>1 DEF PlacesDistinct
    <3>2. CASE ~il
      <4>1. Place(p, m, il) = Place(p, m, FALSE)
        BY <3>2 DEF Place, Slot
      <4>. QED  BY <2>1, <4>1 DEF PlacesDistinct
    <3>. QED  BY <3>1, <3>2
  <2>. QED  BY <2>2, DenseNeeded DEF Right
<1>2. CASE il
  BY <1>1, <1>2, LinuxGrid, BarrelfishGrid
<1>3. CASE ~il
  BY <1>1, <1>3, LinuxRow, BarrelfishRow
<1>. QED  BY <1>2, <1>3

------------------------------------------------------------------------------
(* Without libnuma the list is 0, 1, 2, ..., in some order. *)
LEMMA FallbackRight ==
  ASSUME NEW m, IsMachine(m), NEW p \in {"linux", "barrelfish"}
  PROVE  ListsEach(Fallback(p, m), Cores(m)) <=> Dense(Cores(m))
<1>. DEFINE n == Cardinality(Cores(m))
            L == Fallback(p, m)
<1>1. n \in Nat \ {0}
  BY MachineFacts
<1>2. DOMAIN L = 0..(n - 1)
  BY ListLength
<1>3. {L[s] : s \in DOMAIN L} = 0..(n - 1)
  <2>1. CASE p = "linux"
    BY <1>2, <2>1 DEF Fallback, LinuxFallback
  <2>2. CASE p = "barrelfish"
    <3>1. \A s \in 0..(n - 1) : L[s] = (s + 1) % n
      BY <2>2 DEF Fallback, BarrelfishFallback
    <3>. HIDE DEF L, n
    <3>2. ASSUME NEW s \in 0..(n - 1) PROVE L[s] = IF s = n - 1 THEN 0 ELSE s + 1
      <4>1. CASE s = n - 1
        <5>1. n % n = 0
          BY <1>1
        <5>. QED  BY <1>1, <3>1, <4>1, <5>1
      <4>2. CASE s # n - 1
        <5>1. s + 1 \in 0..(n - 1)
          BY <1>1, <4>2
        <5>2. (s + 1) % n = s + 1
          BY <1>1, <5>1
        <5>. QED  BY <3>1, <4>2, <5>2
      <4>. QED  BY <4>1, <4>2
    <3>3. \A s \in 0..(n - 1) : L[s] \in 0..(n - 1)
      BY <1>1, <3>2
    <3>4. ASSUME NEW c \in 0..(n - 1) PROVE \E s \in 0..(n - 1) : L[s] = c
      <4>1. CASE c = 0
        <5>1. n - 1 \in 0..(n - 1)
          BY <1>1
        <5>. QED  BY <3>2, <4>1, <5>1
      <4>2. CASE c # 0
        <5>1. c - 1 \in 0..(n - 1) /\ c - 1 # n - 1 /\ c - 1 + 1 = c
          BY <1>1, <4>2
        <5>. QED  BY <3>2, <5>1
      <4>. QED  BY <4>1, <4>2
    <3>. QED  BY <1>2, <3>3, <3>4
  <2>. QED  BY <2>1, <2>2
<1>. QED  BY <1>2, <1>3 DEF ListsEach, Dense

(* The list plat_get_topology returns, and what main takes of it. *)
LEMMA TakenRight ==
  ASSUME OptionsInv, phase = "topology", port \in {"linux", "barrelfish"},
         NEW list, NEW from, TakeList(list, from),
         Cardinality(DOMAIN list) \in Nat \ {0},
         \/ from = "numa" /\ list = Order(port, machine, cfg.interleave)
         \/ from = "fallback" /\ list = Fallback(port, machine)
  PROVE  CoresListed'
<1>1. /\ coreslist' = list /\ source' = from /\ UNCHANGED <<port, machine, cfg>>
      /\ 0 < size' /\ size' <= Cardinality(DOMAIN list)
  BY DEF TakeList, OptionsInv, environment
<1>2. IsMachine(machine)
  BY TheMachine
<1>3. CASE from = "numa" /\ list = Order(port, machine, cfg.interleave)
  <2>1. Right(port, machine, cfg.interleave)
          <=> Dense(machine.task) /\ (cfg.interleave => Even(port, machine))
    BY <1>2, OrderRight
  <2>2. NumaListRight'
    BY <1>1, <1>3, <2>1 DEF NumaListRight, Right
  <2>. QED  BY <1>1, <1>3, <2>2 DEF CoresListed
<1>4. CASE from = "fallback" /\ list = Fallback(port, machine)
  <2>1. ListsEach(list, Cores(machine)) <=> Dense(Cores(machine))
    BY <1>2, <1>4, FallbackRight
  <2>. QED  BY <1>1, <1>4, <2>1 DEF CoresListed
<1>. QED  BY <1>3, <1>4

(* plat_init begins with a list that names each core once, node by node or in *)
(* turns, if it comes from plat_get_topology and the machine is one the loops *)
(* were written for; and then only (linux.c 65-182, barrelfish.c 163-296).    *)
THEOREM ProgramCoresListed == Spec => []CoresListed
<1>1. Init => CoresListed
  BY DEF Init, LaunchInit, CoresListed
<1>2. TypeInv /\ CoresListed /\ [Next]_vars => CoresListed'
  <2>. SUFFICES ASSUME TypeInv, CoresListed, [Next]_vars PROVE CoresListed'
    OBVIOUS
  <2>1. OptionsInv /\ port \in {"linux", "barrelfish"}
    BY LaunchAssumption DEF TypeInv, TypeOK
  <2>2. CASE UNCHANGED launch
    BY <2>2 DEF launch, CoresListed, NumaListRight
  <2>3. CASE phase' # "init"
    BY <2>3 DEF CoresListed
  <2>4. CASE phase' = "init" /\ ~UNCHANGED launch
    <3>1. CASE OptionsDone
      <4>1. UserList /\ UNCHANGED <<coreslist, size, source>>
        BY <2>1, <2>4, <3>1 DEF OptionsDone, Exit, OptionsInv
      <4>2. Cardinality(0..(size - 1)) = size
        BY <2>1, IntervalSize DEF OptionsInv
      <4>3. 0 < size /\ size <= Cardinality(DOMAIN coreslist)
        BY <2>1, <4>1, <4>2 DEF UserList, OptionsInv
      <4>. QED  BY <4>1, <4>3 DEF UserList, CoresListed
    <3>2. CASE TopologyNuma \/ TopologyFallback \/ TopologyNodeFails
      <4>1. /\ Cardinality(DOMAIN Order(port, machine, cfg.interleave)) \in Nat \ {0}
            /\ Cardinality(DOMAIN Fallback(port, machine)) \in Nat \ {0}
        BY <2>1, TheMachine, ListLength
      <4>2. /\ phase = "topology"
            /\ \/ TakeList(Order(port, machine, cfg.interleave), "numa")
               \/ TakeList(Fallback(port, machine), "fallback")
        BY <2>4, <3>2 DEF TopologyNuma, TopologyFallback, TopologyNodeFails, Crash
      <4>. QED  BY <2>1, <4>1, <4>2, TakenRight
    <3>3. CASE LaunchNext /\ ~OptionsDone /\ ~TopologyNuma /\ ~TopologyFallback /\ ~TopologyNodeFails
      BY <2>4, <3>3 DEF LaunchNext, ParseOption, SetField, ParseCoresList, Exit, options,
         TopologyFails, LinuxInit, Configure, Dispatch, LinuxBenchmark, Report, Crash
    <3>4. CASE MainInit
      BY <2>4, <3>4 DEF MainInit, ConnectSkb, CreateCnode, SpanOne, SpanDone, WaitDone,
         CreateRemote, SemWait, SpannedAll, Step
    <3>5. CASE MainRun
      BY <2>4, <3>5, MainRunPhases DEF After, Over
    <3>6. CASE Beside
      BY <2>4, <3>6 DEF Beside, Remote, DispatcherUp, DomainInitDone, RemoteInit, OtherThanPhase,
         launch, options, environment
    <3>7. CASE UNCHANGED vars \/ \E t \in DOMAIN worker : Worker(t)
      BY <2>4, <3>7, WorkerLocal DEF vars
    <3>. QED  BY <3>1, <3>2, <3>3, <3>4, <3>5, <3>6, <3>7 DEF Next, Main
  <2>. QED  BY <2>2, <2>3, <2>4
<1>. QED  BY <1>1, <1>2, TypeInvHolds, PTL DEF Spec

(* On Barrelfish, with core 0 on the first node and no node without cores, an *)
(* interleaved list comes out right on one node only, or on two with one and  *)
(* two cores beside core 0: cidx, where core 0 is put, counts the cores of    *)
(* the last node (barrelfish.c 270-284).                                      *)
THEOREM InterleavedBarrelfish ==
  ASSUME NEW m, IsMachine(m), Dense(m.task), NEW il, il,
         0 \in m.nodes[0], \A n \in DOMAIN m.nodes : Seen("linux", m, n) # {}
  PROVE  Right("barrelfish", m, il) <=>
           \/ NNodes(m) = 1
           \/ /\ NNodes(m) = 2
              /\ Size("barrelfish", m, 0) = 1 /\ Size("barrelfish", m, 1) = 2
<1>. DEFINE K == NNodes(m)
            a(n) == Size("linux", m, n)
            b(n) == Size("barrelfish", m, n)
<1>. DEFINE Goal == K = 1 \/ (K = 2 /\ b(0) = 1 /\ b(1) = 2)
<1>. SUFFICES Even("barrelfish", m) <=> Goal
  BY BarrelfishGrid
<1>1. K \in Nat \ {0} /\ DOMAIN m.nodes = 0..(K - 1)
  BY MachineFacts DEF IsMachine
<1>2. ASSUME NEW n \in 0..(K - 1)
      PROVE  a(n) \in Nat \ {0} /\ b(n) \in Nat /\ a(n) = IF n = 0 THEN b(n) + 1 ELSE b(n)
  <2>1. a(n) \in Nat /\ b(n) \in Nat
    BY <1>1, RankFacts
  <2>2. a(n) # 0
    BY <1>1, RankFacts, FS_EmptySet DEF Size
  <2>3. a(n) = IF n = 0 THEN b(n) + 1 ELSE b(n)
    <3>1. \A c \in m.nodes[n] : c \in Nat
      BY <1>1 DEF IsMachine, Cores
    <3>2. IsFiniteSet(Seen("barrelfish", m, n)) /\ 0 \notin Seen("barrelfish", m, n)
      <4>1. IsFiniteSet(Seen("barrelfish", m, n))
        BY <1>1, RankFacts
      <4>2. 0 \notin Seen("barrelfish", m, n)
        BY DEF Seen, First
      <4>. QED  BY <4>1, <4>2
    <3>3. CASE n = 0
      <4>1. 0 < NProc(m)
        BY MachineFacts
      <4>2. Seen("linux", m, n) = Seen("barrelfish", m, n) \cup {0}
        BY <3>1, <3>3, <4>1 DEF Seen, First
      <4>. QED  BY <3>2, <3>3, <4>2, FS_AddElement DEF Size
    <3>4. CASE n # 0
      <4>1. 0 \in DOMAIN m.nodes
        BY <1>1
      <4>2. 0 \notin m.nodes[n]
        BY <1>1, <3>4, <4>1 DEF IsMachine
      <4>3. Seen("linux", m, n) = Seen("barrelfish", m, n)
        BY <3>1, <4>2 DEF Seen, First
      <4>. QED  BY <3>4, <4>3 DEF Size
    <3>. QED  BY <3>3, <3>4
  <2>. QED  BY <2>1, <2>2, <2>3
<1>3. \A h \in DOMAIN m.nodes : 0 \in m.nodes[h] <=> h = 0
  <2>1. 0 \in DOMAIN m.nodes
    BY <1>1
  <2>. QED  BY <1>1, <2>1 DEF IsMachine
<1>4. Even("barrelfish", m) <=>
        /\ \A n, k \in 0..(K - 1) : n < k => a(n) - a(k) \in {0, 1}
        /\ b(K - 1) = b(0) * K
  <2>1. ZeroSlot(m, TRUE) = b(K - 1)
    BY DEF ZeroSlot, Size
  <2>2. 0 \in 0..(K - 1) /\ 0 + b(0) * K = b(0) * K
    BY <1>1, <1>2
  <2>. QED  BY <1>1, <1>3, <2>1, <2>2 DEF Even
<1>. HIDE DEF K, a, b
<1>5. CASE K = 1
  <2>1. b(0) \in Nat /\ \A n, k \in 0..(K - 1) : ~(n < k)
    BY <1>2, <1>5
  <2>. QED  BY <1>4, <1>5, <2>1
<1>6. CASE K = 2
  <2>1. /\ a(0) = b(0) + 1 /\ a(1) = b(1) /\ b(0) \in Nat /\ b(1) \in Nat \ {0}
    BY <1>2, <1>6
  <2>2. (\A n, k \in 0..(K - 1) : n < k => a(n) - a(k) \in {0, 1}) <=> a(0) - a(1) \in {0, 1}
    BY <1>6
  <2>3. Even("barrelfish", m) <=> b(0) + 1 - b(1) \in {0, 1} /\ b(1) = b(0) * 2
    BY <1>4, <1>6, <2>1, <2>2
  <2>4. b(0) + 1 - b(1) \in {0, 1} /\ b(1) = b(0) * 2 <=> b(0) = 1 /\ b(1) = 2
    BY <2>1
  <2>. QED  BY <1>6, <2>3, <2>4
<1>7. CASE K > 2
  <2>1. ASSUME Even("barrelfish", m) PROVE FALSE
    <3>1. 0 \in 0..(K - 1) /\ K - 1 \in 0..(K - 1) /\ 0 < K - 1
      BY <1>1, <1>7
    <3>2. a(0) - a(K - 1) \in {0, 1} /\ b(K - 1) = b(0) * K
      BY <1>4, <2>1, <3>1
    <3>3. /\ a(0) = b(0) + 1 /\ a(K - 1) = b(K - 1) /\ b(0) \in Nat /\ b(K - 1) \in Nat \ {0}
      BY <1>2, <3>1
    <3>4. b(0) # 0
      BY <1>1, <3>2, <3>3
    <3>5. b(K - 1) <= b(0) + 1
      BY <3>2, <3>3
    <3>6. PICK d \in Nat : K = 3 + d
      <4>1. K - 3 \in Nat /\ K = 3 + (K - 3)
        BY <1>1, <1>7
      <4>. QED  BY <4>1
    <3>7. b(0) * K = b(0) * 3 + b(0) * d /\ b(0) * d \in Nat
      BY <3>3, <3>6
    <3>. QED  BY <3>2, <3>3, <3>4, <3>5, <3>7
  <2>. QED  BY <1>7, <2>1
<1>. QED  BY <1>1, <1>5, <1>6, <1>7
=============================================================================
