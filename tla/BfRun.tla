-------------------------------- MODULE BfRun --------------------------------
(***************************************************************************)
(* A benchmark on Barrelfish: the memory objects, threads and mappings of  *)
(* src/platform/barrelfish.c 304-721 and 839-856, called in the order of   *)
(* vmops_utils_prepare_args, _run_benchmark and _cleanup_args.  A memory   *)
(* object is a capability in a slot of memobj_cnoderef; a thread on        *)
(* another core needs it sent there.  The workers map and unmap as they    *)
(* like (MaxMaps times), so whatever a run function does is included; the  *)
(* barriers they meet at are left out.                                     *)
(***************************************************************************)
EXTENDS BfInit

CONSTANTS
  NumVregions,   \* NUM_VREGION_BUF (2000)
  MaxMaps        \* bound: the mappings one worker makes

ASSUME BfRunAssumption == NumVregions \in Nat \ {0} /\ MaxMaps \in Nat

VARIABLES
  memobj_slot,   \* the next slot, and so the number of memory objects made
  caps,          \* the memory objects whose capability is in its slot
  started, ended,   \* the loop variables of run_benchmark (start; cancel or join)
  handle,        \* of each worker: "null", "live" or "freed"
  worker,        \* where it is: "unborn", "spawned", "idle", "taken", "link", ...
  maps,          \* the mappings it has made
  vregs,         \* the vregions of those in place
  taken,         \* the vregion alloc_vregion is about to give it
  pool,          \* vregion_buf of each core: which buffer (0: NULL), and how far
  nbufs          \* the buffers allocated so far

run == <<memobj_slot, caps, started, ended, handle, worker, maps, vregs, taken, pool, nbufs>>
objects == <<memobj_slot, caps>>
control == <<started, ended, handle>>
mappings == <<maps, vregs, taken, pool, nbufs>>

Null == [buf |-> 0, pos |-> 0]

BfRunInit ==
  /\ memobj_slot = 0 /\ caps = {}
  /\ started = 0 /\ ended = 0
  /\ handle = <<>> /\ worker = <<>>
  /\ maps = <<>> /\ vregs = <<>> /\ taken = <<>>
  /\ pool = <<>> /\ nbufs = 0

Return(r) == phase' = "report" /\ result' = r /\ UNCHANGED <<environment, argv, options, status>>
GoOn(p) == phase' = p /\ UNCHANGED OtherThanPhase

(* args[t].memobj *)
Object(t) == IF cfg.shared THEN 0 ELSE t
Objects == IF cfg.shared THEN 1 ELSE size

------------------------------------------------------------------------------
(* vmops_utils_prepare_args *)

(* Plausible slip: the object keeps the capability it was allocated with. *)
CreateMemobjNoCopy ==
  /\ phase = "prepare" /\ port = "barrelfish" /\ memobj_slot < Objects
  /\ memobj_slot' = memobj_slot + 1
  /\ caps' = caps \union {memobj_slot}
  /\ UNCHANGED <<launch, span, control, worker, mappings>>

(* plat_vm_create: a failed cap_copy, as into a table that does not exist, is *)
(* logged only.                                                               *)
CreateMemobj ==
  /\ phase = "prepare" /\ port = "barrelfish" /\ memobj_slot < Objects
  /\ memobj_slot' = memobj_slot + 1
  /\ \/ cnode /\ caps' = caps \union {memobj_slot}
     \/ (~cnode \/ "cap_copy" \in MayFail) /\ UNCHANGED caps
  /\ UNCHANGED <<launch, span, control, worker, mappings>>

(* malloc, frame_alloc or frame_identify fail: prepare_args returns -1, or crashes in *)
(* plat_vm_destroy(NULL) when it made other objects before (utils.c:233).     *)
CreateMemobjFails ==
  /\ phase = "prepare" /\ port = "barrelfish" /\ memobj_slot < Objects
  /\ {"malloc", "frame_alloc"} \intersect MayFail # {}
  /\ IF memobj_slot = 0 THEN Return("error") ELSE GoOn("crashed")
  /\ UNCHANGED <<span, run>>

(* The mappings before the run, of worker 0's object. *)
Prepopulate ==
  /\ phase = "prepare" /\ port = "barrelfish" /\ memobj_slot = Objects
  /\ \/ 0 \in caps /\ GoOn("start")
     \/ (0 \notin caps \/ "map" \in MayFail) /\ Return("error")
  /\ handle' = [t \in Entries |-> "null"]
  /\ worker' = [t \in Entries |-> "unborn"]
  /\ maps' = [t \in Entries |-> 0]
  /\ vregs' = [t \in Entries |-> {}]
  /\ taken' = [t \in Entries |-> Null]
  /\ pool' = [c \in Listed0 |-> Null]
  /\ UNCHANGED <<span, objects, started, ended, nbufs>>

------------------------------------------------------------------------------
(* vmops_utils_run_benchmark *)

(* plat_thread_start: the capability is sent to another core first.           *)
StartThread ==
  /\ phase = "start" /\ started < size
  /\ LET c == coreslist[started] IN
       /\ c # Own => Up(c) /\ Object(started) \in caps
       /\ Up(c)
  /\ started' = started + 1
  /\ handle' = [handle EXCEPT ![started] = "live"]
  /\ worker' = [worker EXCEPT ![started] = "spawned"]
  /\ UNCHANGED <<launch, span, objects, ended, mappings>>

(* No memory, or domain_send_cap fails: NULL is returned. *)
StartFails ==
  /\ phase = "start" /\ started < size
  /\ LET c == coreslist[started] IN
       \/ "malloc" \in MayFail
       \/ c # Own /\ (~Up(c) \/ Object(started) \notin caps \/ "send_cap" \in MayFail)
  /\ GoOn("cancel")
  /\ UNCHANGED <<span, run>>

(* domain_thread_create_on fails: USER_PANIC. *)
StartPanics ==
  /\ phase = "start" /\ started < size
  /\ "thread_create" \in MayFail
  /\ GoOn("aborted")
  /\ UNCHANGED <<span, run>>

AllStarted ==
  /\ phase = "start" /\ started = size
  /\ GoOn("join")
  /\ UNCHANGED <<span, run>>

(* plat_thread_cancel is not implemented: the handle is zeroed and freed, and *)
(* the thread goes on.                                                        *)
CancelThread ==
  /\ phase = "cancel" /\ ended < started
  /\ handle' = [handle EXCEPT ![ended] = "freed"]
  /\ ended' = ended + 1
  /\ UNCHANGED <<launch, span, objects, started, worker, mappings>>

AllCancelled ==
  /\ phase = "cancel" /\ ended = started
  /\ Return("error")
  /\ UNCHANGED <<span, run>>

(* plat_thread_join: the handle is freed, also when domain_thread_join fails; *)
(* the error is not looked at.                                                *)
JoinThread ==
  /\ phase = "join" /\ ended < size
  /\ worker[ended] = "exited" \/ "join" \in MayFail
  /\ handle' = [handle EXCEPT ![ended] = "freed"]
  /\ ended' = ended + 1
  /\ UNCHANGED <<launch, span, objects, started, worker, mappings>>

(* The CSV, and vmops_utils_cleanup_args: plat_vm_destroy for each object.    *)
AllJoined ==
  /\ phase = "join" /\ ended = size
  /\ Return("ok")
  /\ caps' = {}
  /\ UNCHANGED <<span, memobj_slot, control, worker, mappings>>

MainRun ==
  \/ CreateMemobj
  \/ CreateMemobjFails
  \/ Prepopulate
  \/ StartThread
  \/ StartFails
  \/ StartPanics
  \/ AllStarted
  \/ CancelThread
  \/ AllCancelled
  \/ JoinThread
  \/ AllJoined

------------------------------------------------------------------------------
(* The workers *)

Running == phase \in {"start", "cancel", "join", "report"}
WorkerGoto(t, from, to) == worker[t] = from /\ worker' = [worker EXCEPT ![t] = to]

(* plat_thread_run_fn reads the handle; one that was freed may read as zeroes.*)
RunFn(t) ==
  /\ Running
  /\ \/ WorkerGoto(t, "spawned", "idle")
     \/ handle[t] = "freed" /\ WorkerGoto(t, "spawned", "wild")
  /\ UNCHANGED <<launch, span, objects, control, mappings>>

(* plat_vm_map: the kernel of Barrelfish finds the address and the vregion.   *)
Map(t) ==
  /\ Running /\ ~cfg.isolated /\ maps[t] < MaxMaps
  /\ Object(t) \in caps
  /\ WorkerGoto(t, "idle", "idle")
  /\ maps' = [maps EXCEPT ![t] = @ + 1]
  /\ UNCHANGED <<launch, span, objects, control, vregs, taken, pool, nbufs>>

(* alloc_vregion, for plat_vm_map_fixed: the next vregion of the core's       *)
(* buffer, a new one when there is none, is read first ...                    *)
TakeVregion(t) ==
  LET c == coreslist[t] IN
  /\ Running /\ cfg.isolated /\ maps[t] < MaxMaps
  /\ WorkerGoto(t, "idle", "taken")
  /\ IF pool[c] = Null
     THEN /\ nbufs' = nbufs + 1
          /\ pool' = [pool EXCEPT ![c] = [buf |-> nbufs + 1, pos |-> 0]]
     ELSE UNCHANGED <<nbufs, pool>>
  /\ taken' = [taken EXCEPT ![t] = pool'[c]]
  /\ UNCHANGED <<launch, span, objects, control, maps, vregs>>

(* Plausible slip: the end of the buffer is noticed one vregion too late.     *)
AdvancedLate(p) ==
  IF p.buf # 0 /\ p.pos = NumVregions THEN Null ELSE [buf |-> p.buf, pos |-> p.pos + 1]

(* buf += 1, and at the end no buffer.  (A NULL that a thread of the same core*)
(* has set in between becomes a pointer to nowhere.)                          *)
Advanced(p) ==
  IF p.buf # 0 /\ p.pos + 1 = NumVregions THEN Null ELSE [buf |-> p.buf, pos |-> p.pos + 1]

(* ... and then passed over. *)
AdvanceBuffer(t) ==
  LET c == coreslist[t] IN
  /\ Running
  /\ WorkerGoto(t, "taken", "link")
  /\ pool' = [pool EXCEPT ![c] = Advanced(pool[c])]
  /\ UNCHANGED <<launch, span, objects, control, maps, vregs, taken, nbufs>>

(* vspace_map_one_frame_one_map_fixed_attr_no_malloc *)
MapFixed(t) ==
  /\ Running
  /\ Object(t) \in caps
  /\ WorkerGoto(t, "link", "idle")
  /\ maps' = [maps EXCEPT ![t] = @ + 1]
  /\ vregs' = [vregs EXCEPT ![t] = @ \union {taken[t]}]
  /\ UNCHANGED <<launch, span, objects, control, taken, pool, nbufs>>

(* No capability (the object was not stored, or is destroyed and zeroed), no  *)
(* memory for a buffer, or the mapping fails: the worker ends, and a vregion   *)
(* it was given is lost.                                                      *)
MapFails(t) ==
  /\ Running
  /\ Object(t) \notin caps \/ "map" \in MayFail
  /\ \E p \in {"idle", "link"} : WorkerGoto(t, p, "exited")
  /\ UNCHANGED <<launch, span, objects, control, mappings>>

(* plat_vm_unmap: the vregion is not given back to the pool. *)
Unmap(t) ==
  /\ Running /\ ~cfg.nounmap
  /\ worker[t] = "idle"
  /\ \E v \in vregs[t] : vregs' = [vregs EXCEPT ![t] = @ \ {v}]
  /\ UNCHANGED <<launch, span, objects, control, worker, maps, taken, pool, nbufs>>

(* The run function returns. *)
Finish(t) ==
  /\ Running
  /\ WorkerGoto(t, "idle", "exited")
  /\ UNCHANGED <<launch, span, objects, control, mappings>>

Worker(t) ==
  \/ RunFn(t)
  \/ Map(t)
  \/ TakeVregion(t)
  \/ AdvanceBuffer(t)
  \/ MapFixed(t)
  \/ MapFails(t)
  \/ Unmap(t)
  \/ Finish(t)
==============================================================================
