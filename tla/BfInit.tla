------------------------------- MODULE BfInit -------------------------------
(***************************************************************************)
(* plat_init on Barrelfish (src/platform/barrelfish.c 45-153), where every *)
(* core runs a dispatcher of its own: one is requested for each entry of   *)
(* the list of cores, the dispatchers report back by a callback, then a    *)
(* thread is sent to each core that posts a semaphore.  The program itself *)
(* runs on core 0.  domain_new_dispatcher and domain_thread_create_on are  *)
(* not in the repository; as plat_init uses them, the first calls back     *)
(* once for each other core, and the second needs the core's dispatcher.   *)
(***************************************************************************)
EXTENDS Launch

Own == 0         \* disp_get_core_id() of main

VARIABLES
  cnode,         \* memobj_cnoderef: the table for the memory objects exists
  initret,       \* what plat_init returned: "none", "ok" or "error"
  turn,          \* the loop variable i
  request,       \* per entry: "none", "asked", "up" (the dispatcher runs), "called" (back)
  cores_initialized,
  remote,        \* per entry: the thread running remote_init: "none", "live", "done"
  init_sem,      \* the count of the semaphore
  abort          \* ghost: why an assertion failed: "none", "span", "remote", "early"

span == <<cnode, initret, turn, request, cores_initialized, remote, init_sem, abort>>

Entries == 0..(size - 1)
Listed0 == {coreslist[s] : s \in Entries}

BfInitInit ==
  /\ cnode = FALSE /\ initret = "none" /\ turn = 0
  /\ request = <<>> /\ remote = <<>>
  /\ cores_initialized = 1 /\ init_sem = 0
  /\ abort = "none"

(* A core has a dispatcher of this program. *)
Up(c) == c = Own \/ \E s \in DOMAIN request : coreslist[s] = c /\ request[s] \in {"up", "called"}

Step(from, to) == phase = from /\ phase' = to
OtherThanPhase == <<environment, argv, options, result, status>>

(* skb_client_connect, ... *)
ConnectSkb ==
  /\ port = "barrelfish"
  /\ \/ Step("init", "cnode") /\ UNCHANGED initret
     \/ "skb" \in MayFail /\ Step("init", "config") /\ initret' = "error"
  /\ UNCHANGED <<OtherThanPhase, cnode, turn, request, cores_initialized, remote, init_sem, abort>>

(* ... cnode_create_raw: the error is returned, and main goes on. *)
CreateCnode ==
  /\ \/ /\ Step("cnode", "span")
        /\ cnode' = TRUE
        /\ request' = [s \in Entries |-> "none"]
        /\ remote' = [s \in Entries |-> "none"]
        /\ UNCHANGED initret
     \/ /\ "cnode" \in MayFail
        /\ Step("cnode", "config")
        /\ initret' = "error"
        /\ UNCHANGED <<cnode, request, remote>>
  /\ UNCHANGED <<OtherThanPhase, turn, cores_initialized, init_sem, abort>>

(* The own core is there already.  An entry that was never written is any     *)
(* number: no core, another one, or the own.                                  *)
Answers(c) == {"called" : d \in {c} \intersect {Own, Garbage}}
                \union {"asked" : d \in {c} \ {Own}}

(* domain_new_dispatcher(coreslist[i], domain_init_done, NULL): an assertion  *)
(* fails for a core that does not exist.                                      *)
SpanOne ==
  /\ turn < size
  /\ \/ /\ Step("span", "span")
        /\ coreslist[turn] \in Cores(machine) \union {Garbage}
        /\ \E a \in Answers(coreslist[turn]) : request' = [request EXCEPT ![turn] = a]
        /\ turn' = turn + 1
        /\ UNCHANGED abort
     \/ /\ Step("span", "aborted")
        /\ coreslist[turn] \notin Cores(machine) \/ "span" \in MayFail
        /\ abort' = "span"
        /\ UNCHANGED <<request, turn>>
  /\ UNCHANGED <<OtherThanPhase, cnode, initret, cores_initialized, remote, init_sem>>

SpanDone ==
  /\ turn = size
  /\ Step("span", "wait")
  /\ turn' = 0
  /\ UNCHANGED <<OtherThanPhase, cnode, initret, request, cores_initialized, remote, init_sem, abort>>

(* The monitor brings a dispatcher up, at any time, ...                       *)
DispatcherUp(s) ==
  /\ request[s] = "asked"
  /\ request' = [request EXCEPT ![s] = "up"]
  /\ UNCHANGED <<launch, cnode, initret, turn, cores_initialized, remote, init_sem, abort>>

(* ... and domain_init_done is called while main handles events, with an      *)
(* error, which fails its assertion, when the core has none.                  *)
DomainInitDone(s) ==
  /\ \/ /\ request[s] = "up"
        /\ request' = [request EXCEPT ![s] = "called"]
        /\ cores_initialized' = cores_initialized + 1
        /\ UNCHANGED <<phase, abort>>
     \/ /\ request[s] = "asked" /\ "dispatcher" \in MayFail
        /\ phase' = "aborted" /\ abort' = "span"
        /\ UNCHANGED <<request, cores_initialized>>
  /\ UNCHANGED <<OtherThanPhase, cnode, initret, turn, remote, init_sem>>

(* Plausible slips: nobody waits, or for one callback too many.               *)
NoWait == Step("wait", "remote") /\ UNCHANGED <<OtherThanPhase, span>>
WaitMore ==
  /\ cores_initialized > size
  /\ Step("wait", "remote")
  /\ UNCHANGED <<OtherThanPhase, span>>

(* while (cores_initialized < cfg->corelist_size) thread_yield();             *)
WaitDone ==
  /\ cores_initialized >= size
  /\ Step("wait", "remote")
  /\ UNCHANGED <<OtherThanPhase, span>>

(* domain_thread_create_on(coreslist[i], remote_init, ...): it fails where no *)
(* dispatcher runs, or for its own reasons, and so does the assertion after it.*)
CreateRemote ==
  /\ turn < size
  /\ \/ /\ Step("remote", "remote_wait")
        /\ Up(coreslist[turn])
        /\ remote' = [remote EXCEPT ![turn] = "live"]
        /\ UNCHANGED abort
     \/ /\ Step("remote", "aborted")
        /\ ~Up(coreslist[turn]) \/ "remote" \in MayFail
        /\ abort' = IF Up(coreslist[turn]) THEN "remote" ELSE "early"
        /\ UNCHANGED remote
  /\ UNCHANGED <<OtherThanPhase, cnode, initret, turn, request, cores_initialized, init_sem>>

(* thread_sem_post(&init_sem) on the remote core. *)
RemoteInit(s) ==
  /\ remote[s] = "live"
  /\ remote' = [remote EXCEPT ![s] = "done"]
  /\ init_sem' = init_sem + 1
  /\ UNCHANGED <<launch, cnode, initret, turn, request, cores_initialized, abort>>

(* Plausible slip: the threads are sent off without waiting for each. *)
SemNoWait ==
  /\ Step("remote_wait", "remote")
  /\ turn' = turn + 1
  /\ UNCHANGED <<OtherThanPhase, cnode, initret, request, cores_initialized, remote, init_sem, abort>>

(* thread_sem_wait(&init_sem) *)
SemWait ==
  /\ init_sem > 0
  /\ Step("remote_wait", "remote")
  /\ init_sem' = init_sem - 1
  /\ turn' = turn + 1
  /\ UNCHANGED <<OtherThanPhase, cnode, initret, request, cores_initialized, remote, abort>>

(* "SPANNED TO ALL!" *)
SpannedAll ==
  /\ turn = size
  /\ Step("remote", "config")
  /\ initret' = "ok"
  /\ UNCHANGED <<OtherThanPhase, cnode, turn, request, cores_initialized, remote, init_sem, abort>>

MainInit ==
  \/ ConnectSkb
  \/ CreateCnode
  \/ SpanOne
  \/ SpanDone
  \/ WaitDone
  \/ CreateRemote
  \/ SemWait
  \/ SpannedAll

(* What happens on the other cores, and in callbacks. *)
Alive == phase \notin {"exited", "aborted", "crashed"}

Remote ==
  /\ Alive
  /\ \/ \E s \in DOMAIN request : DispatcherUp(s)
     \/ \E s \in DOMAIN request : DomainInitDone(s)
     \/ \E s \in DOMAIN remote : RemoteInit(s)

------------------------------------------------------------------------------
(* "SPANNED TO ALL!" (barrelfish.c:136), whichever dispatcher was slow and    *)
(* whatever the user listed: once plat_init has succeeded every core in the   *)
(* list has a dispatcher, and its thread has run.                             *)
SpannedToAll ==
  initret = "ok" => \A s \in Entries : remote[s] = "done" /\ Up(coreslist[s])

(* cores_initialized starts at 1, for the own core, which calls nobody back:  *)
(* when that is in the list, and no core twice, no thread is created on a     *)
(* core without a dispatcher.  (Without the own core main waits for one       *)
(* callback too few, and the assertion can fail.)                             *)
DistinctCores ==
  /\ Garbage \notin Listed0
  /\ \A s, r \in Entries : coreslist[s] = coreslist[r] => s = r
OwnListedOnce == Own \in Listed0 /\ DistinctCores
NoEarlyThread == OwnListedOnce => abort # "early"

(* plat_init comes back, or an assertion has ended the process: unless the    *)
(* own core is listed twice, when main waits for a callback nobody makes.     *)
OwnTwice == \E s, r \in Entries : s # r /\ {coreslist[s], coreslist[r]} \subseteq {Own, Garbage}
InPlatInit == phase \in {"init", "cnode", "span", "wait", "remote", "remote_wait"}
InitReturns == InPlatInit ~> (~InPlatInit \/ OwnTwice)
==============================================================================
