# Verification of vmops-bench

TLA+ models, TLC runs and TLAPS proofs for vmops-bench, the virtual memory
operations benchmark. One process starts one worker per core; the workers map,
unmap or protect memory as fast as they can and meet at barriers, and the main
thread prints what they did. Line numbers refer to `src/src/...`.

## The system: components and their state

| component | code | state | operations | what makes it correct |
|---|---|---|---|---|
| harness | `benchmarks/utils.c` 331-367 | thread handles, loop index | start, cancel and join the workers | nobody measures after a partial start; arguments outlive the workers; the run returns |
| argument preparation | `utils.c` 184-312 | arguments, memory objects, statistics array | prepare, clean up | every object destroyed once, workers get what they need, errors are returned |
| statistics | `utils.h` 130-149 | index, next sampling time, dry-run count per worker | `vmops_utils_add_stats` | samples stay in the worker's part, at the sampling rate |
| barrier | Linux: `pthread_barrier_t`; Barrelfish: `platform/barrelfish.c` 724-761 | counter, cycle | wait | nobody leaves a round before all have come; every full round is released |
| virtual memory port | `platform/linux.c` 208-405 | the address space of the process | create, destroy, map, map_fixed, protect, unmap | workers do not touch each other's mappings |
| thread port | `linux.c` 415-566 | handles | start, cancel, join, barrier | no use of a freed handle |
| mapunmap, maponly | `benchmarks/mapunmap.c` | `addrs`, counter, count per worker | four run functions | phases disjoint, own pages only, nothing left mapped, complete report |
| tlbshoot | `benchmarks/tlbshoot.c` | `done`, one page per reader | one run function, two roles | readers run during every shootdown and stop afterwards |
| protect | `benchmarks/protect.c` | `addrs`, page permissions | two run functions | permission changes pair up page by page |
| protect-elevate | `benchmarks/protectelevate.c` | `addr`, page permissions | one run function | what is measured is read-only to writable |
| options, main | `main.c`, `utils.c` 32-93 | `cfg`, the list of cores | parse, choose the cores, initialise, dispatch, report | the list is no longer than what was allocated and holds what was asked for |
| topology | `linux.c` 65-182, `barrelfish.c` 163-296 | list of cores | order the cores, or fall back | every usable core once, in node order or in turns |
| Barrelfish initialisation | `barrelfish.c` 45-153 | callbacks counted, semaphore | span the domain | every core has a dispatcher and has run a thread before a benchmark uses it; it comes back |
| Barrelfish memory and threads | `barrelfish.c` 300-721, 839-856 | capabilities, a pool of vregions per core, thread handles | create, destroy, map, unmap, start, cancel, join | nothing is mapped without a capability; a vregion backs one mapping at a time |
| ports `bsd.c`, `bespin.c`, logging, scripts | | none | | nothing to model |

How they interact: `main` turns the command line into `cfg`, gets the list of
cores from it or from the topology, initialises the platform (on Barrelfish: a
dispatcher on each core) and calls one `vmops_bench_run_*` function, which prepares
the arguments and passes its run function to the harness. The harness starts the
workers, which share the barrier, the address space, the memory objects, the
array of statistics and (in tlbshoot) a flag on the main thread's stack. All
else is private to a worker until the main thread has joined it.

What is hard here: the workers run truly in parallel and are synchronised by two
or three barrier calls only; a worker whose system call fails leaves its function
by one of several paths, and not every path makes the barrier calls the others
wait in; the start of a worker may fail while others already run; the kernel
reuses an unmapped address for another worker at once; the Barrelfish barrier is
reused by fast threads while slow ones still leave it. On Barrelfish dispatchers
come up on other cores and call back while main is already counting, and threads
take vregions from pools that nothing locks. The order of the cores is right for
some machines only. `hazards` in PROJECT.json
lists all of it by line.

## Modules

| module | models | uses |
|---|---|---|
| `Barrier` | what a barrier promises: participants are inside, those who may not leave yet are blocked | |
| `SpinBarrier` | the Barrelfish barrier, one action per access to the shared words | implements `Barrier` |
| `ForkJoin` | what the harness and the run functions promise: all workers measure together, once, and have ended before 0 is returned | |
| `BenchRun` | the harness, the Linux threads and the barrier calls of a worker | `Barrier` (INSTANCE); the benchmarks implement `ForkJoin` |
| `PlatVm` | the shared address space and the regions of isolated workers | extends `BenchRun` |
| `MapUnmap`, `TlbShoot`, `Protect`, `Elevate` | one benchmark each | extend `PlatVm` |
| `Args` | preparation, statistics, cleanup | |
| `Topology` | the lists of cores of both ports, as functions of the machine | |
| `Launch` | `main.c` for both ports: options, list of cores, dispatch, exit | extends `Topology` |
| `BfInit` | `plat_init` on Barrelfish, its callbacks and remote threads | extends `Launch` |
| `BfRun` | a benchmark on Barrelfish: memory objects, threads, mappings, vregions | extends `BfInit` |
| `Program` | the whole process: main, what it calls, and what runs beside it | extends `BfRun` |
| `MC*` | instances for TLC | extend one of the above |
| `SpinBarrierProofs`, `BenchRunProofs`, `MapUnmapProofs`, `TlbShootProofs`, `ProtectProofs`, `ElevateProofs`, `ArgsProofs`, `ProgramProofs` | theorems | extend what they are about, those about a benchmark `BenchRunProofs` as well |

A benchmark model is the composition of the main thread (`MainStep`) and the
workers (`Worker(t)`) that the program is: `mpc` is the main thread's place in
`vmops_utils_run_benchmark` and its caller, `pc[t]` the place of worker `t` in
its run function. Every system call and every barrier call is a step; a barrier
call is two, the arrival and the return. What the code does between two of them
is private to the worker and part of the step. Control points are shared by the
run functions (`"ready"`, `"loop"`, `"half"` between the two calls of an
operation, `"end"`, `"clean"`, `"fini"`), and the configuration (`cfg`) decides,
as in the code, which function runs. A call that may fail has an action of its
own for that, enabled by the constant `MayFail`; the error path is the code's:
`return NULL` is `Desert`, `goto cleanup_and_exit` goes to `"end"` and skips the
barrier before the loop when the setup failed. `err` is a ghost that remembers
the first failed call of a worker; no action reads it.

`Program` is a second composition, along the life of the process: `phase` is the
main thread's place in `main`, in `plat_init` or in the benchmark, and beside it
dispatchers come up and call back (`Remote`) and workers run (`Worker(t)`). It
stands for both ports. On Linux a benchmark is one step there, since the modules
above take it apart; on Barrelfish `BfRun` follows the memory objects and the
threads, lets each worker map and unmap as it likes, which includes whatever a run
function does, and leaves out the barriers.

Definitions whose comment begins with "Plausible slip" are used by no action.
Each is a variant of the definition that follows, wrong in the way a bug would
be; substituting it makes the property named in `mutants` fail, which shows that
the property depends on that line.

Abstractions:
* Memory is counted in slots, one slot being one mapping of the run (`PlatVm`)
  or one page (`Elevate`). `vm[a]` says which worker mapped slot `a`. The memory
  object behind a mapping and the offset in it are left out.
* `mmap(NULL)` takes any free slot of a pool (`FreePool`); `MAP_FIXED` replaces
  what was there, up to the end of the address space (`AboveSlots` behind the last
  region), where it fails; `munmap` succeeds where nothing is mapped; `mprotect` fails
  there. The memory of one worker is assumed to fit into its 512 GB (in protect-elevate,
  where each operation goes one page on, its operations with it; in maponly not). The
  128 mappings made before the run (`utils.c:242-249`) are in `Args` only.
* Time: the loop of a timed run may end at any turn but the first, which always
  runs (`t_end > t_start`). In `Args` the clock may be set back while the run
  lasts, but not to before its start.
* A machine is what the ports ask about it: the cores of each NUMA node, the cores
  the process may use, and whether libnuma works. `IsMachine` assumes no more than
  that every core is on one node and the process may use one; nodes may be empty,
  core ids may have gaps. The command line is a sequence of
  options with their values; an entry of a list of cores is a number, missing, or
  not a number. `Garbage` is an entry that was allocated and never written.
* `domain_new_dispatcher` and `domain_thread_create_on` of Barrelfish are not in
  the repository. As `plat_init` uses them, the first calls back once for each core
  but the program's own (`cores_initialized` starts at 1), and the second fails on
  a core without a dispatcher. A dispatcher can be up before its callback is run.
* A memory object on Barrelfish is the capability in its slot: it is missing when
  the copy failed, and nothing can be mapped from it, nor sent to another core. The
  size and the offset of a mapping are left out.
* A reader of tlbshoot touches its page in a loop that changes nothing else, so
  that loop is one waiting state, left when `done` is seen.
* `pthread_cancel` acts at a cancellation point: the message a worker writes
  before a barrier call. Whether it does is not assumed. A thread that has not
  read its handle when `plat_thread_cancel` frees it may read anything: it goes
  on, or goes `"wild"`.
* The Barrelfish barrier is taken as sequentially consistent: its words are
  volatile, its increment atomic; on a machine that reorders the two stores of
  the last thread (lines 746-747) the result does not hold.
* Printing keeps the counts only, and only that they are read after the join.

## Runs

| run | instance | shows |
|---|---|---|
| `spin_barrier` | 4 threads, 3 calls each | threads stay in step, every complete round is released, the abstract barrier is implemented |
| `mapunmap` | 2 workers, 2 pages, 2 operations, up to 5 in isolated maponly; every function, isolated or not, timed or counted; all failures | phases disjoint, foreign mappings hit in two named cases only, complete cleanup and report, `ForkJoin` implemented, return |
| `tlbshoot` | 1 mapping worker, 2 readers, 2 operations | readers run throughout, touch mapped pages, stop, do not outlive `done` |
| `protect` | 2 workers, 2 pages, 2 operations; both functions | changes pair up, hit own pages, nothing is left mapped; `ForkJoin` implemented |
| `elevate` | 2 workers, up to 3 pages in pieces of 1 to 3 | operations hit own pages, and read-only ones if one piece holds them all |
| `args` | 3 workers, 2 samples each | objects destroyed exactly once, samples in place and spaced |
| `program` | 13 machines of up to 4 cores on up to 3 nodes; lists of cores given by number, by name or not at all; 5 kinds of benchmark options; 15 kinds of failure; buffers of 2 vregions, 3 mappings per worker | for which machines the list of cores is right, that no core is used before it is ready, that `plat_init` comes back, that no vregion is handed out twice |
| `mapunmap_result` | violation | a run with failed workers reports success |
| `mapunmap_hang` | violation | a failed unmap makes the run hang |
| `mapunmap_cancel` | violation | a cancelled thread uses its freed handle |
| `elevate_pieces` | violation | with memory in pieces later operations elevate nothing |
| `args_crash` | violation | a failed creation crashes instead of returning -1 |

Why the bounds are enough. Two workers are the smallest number with foreign
mappings and a barrier that can be left half full; tlbshoot has three so that
two readers see `done` at different times. Two pages and two operations make the
page index wrap around and worker 1 start at another page than worker 0, and let
an address be unmapped by one worker, taken by the other and remapped. The pool
has a slot for every mapping the workers hold at once, so a worker never waits
for room. Three calls of the spin barrier let a thread go through two releases
while the cycle bit returns to its first value. In `args` three workers let the
creation fail after zero, one and two objects, and two samples give one distance.
In `mapunmap` a region has 2 slots and isolated maponly makes up to 5 mappings, so that
a worker goes over the whole region of the next one, and the last worker up to the end
of the address space. In `program`
the machines have nodes of even and uneven size, nodes in turns, gaps in the core
ids, cores (core 0 among them) the process may not use, core 0 on another node than
the first, and a node without cores; they meet every branch of both orders. The
lists of the user have each core, the own core absent, alone, twice, a core that
does not exist, and each kind of malformed entry. With 2 vregions to a buffer a
third mapping needs a second buffer, and two workers give two pools; `NUM_VREGION_BUF`
is 2000 in the code, and `ProgramProofs` covers every size.

Deadlock is checked for the barrier. The other programs may stop: they end, they
crash, abort (`program`), or hang where the violations show it, so their runs state as a
liveness property that they return (`ReturnsUnlessDeserted`,
`ReturnsUnlessFailed`, and `InitReturns` for `plat_init`), with the failures after which the code does hang spelled
out in it.

Fairness: weak fairness of the main thread and of each worker, that is, the
kernel runs every thread that can run; in `Program`, of the main thread and of what
happens on the other cores (`Beside`): a requested dispatcher comes up and its
callback is run. That is an assumption about Barrelfish, which is not in the
repository: main only yields while it waits (`barrelfish.c` 120-122) and handles no
events itself, so that `InitReturns` says that the count is right, not that the
callbacks come. `Args` states none and no liveness. It is not assumed that a call succeeds,
that a cancellation takes effect or, in the spin barrier, that a thread makes
another call. That readers of tlbshoot see `done` is fairness of their loop: it
stores to memory through a pointer of the flag's type, so the compiler has to
load the flag anew.

## Proofs

`SpinBarrierProofs`, for every finite set of threads and any number of calls:
* `SpinBarrierInv`: `SpinInv` is inductive together with `TypeOK`
  (`SpinTypeOK`). It says that whoever has not been let through read the current
  cycle, that the last arrival finds all others waiting, that `counter` is
  exactly the number of arrivals of the round, and that all threads have passed
  the same number of rounds. Without the exact counter the last arrival could not
  be identified; the counter's step needs the cardinality of the set of arrivals.
* `SpinRoundSync` follows: no thread returns from a call before every thread has
  made the call of the same number.
* `SpinImplementsBarrier`: initial states and steps map to those of `Barrier`,
  where a thread is inside while it spins or returns, and blocked while the cycle
  it read is current. So what is proved with `Barrier` holds on both platforms.

`BenchRunProofs` proves that `HarnessInv` is kept by every step of the main
thread and by each kind of worker step (local, arrive, leave, begin, die). Its
parts: the barrier's participants are exactly the workers inside a call; main has
started the first `i` workers and joined the first `j`; and as long as a worker is
not started everybody inside the barrier is blocked and nobody is past it. The last
part is what makes `PartialStartIdle` inductive: the barrier opens for all `N` only.
It also has what all benchmarks need about memory and cancellation: `CancelInv` (workers
are cancelled only when one could not be started, so that a cancelled worker never
gets past a barrier), and that the regions of isolated workers
lie in the address space, in the order of the workers, above the pool and apart
(`RegionInSlots`, `RegionsBelow`, `RegionsDisjoint`); these are products of two
variables, which the SMT solver has to be led through (`TimesMonotonic`).

Refinement: `MapUnmap`, `TlbShoot`, `Protect` and `Elevate` each implement `ForkJoin`
(`MapUnmapImplementsForkJoin` and so on), under a mapping of their control points to
stages (`StageOf`) and of `ret` to the outcome: the workers measure once each and none
before the last has been started and has finished or given up its setup, 0 is returned
only when all have ended, and -1 only when not all were started, after which none will
ever measure. (In particular nobody measures after a partial start, and the arguments outlive the
workers.) TLC checks it in the runs `mapunmap` and `protect`, whose run functions
differ most in what they do after a failure; it is proved for all four.
`ForkJoin` knows no barrier, so this says that the barriers are in the
right places whatever calls fail. Most of the proof is shared, in `BenchRunProofs`: a
benchmark shows that its workers move from control point to control point as
`WorkerMoves` allows; `FirstInv` says that the barrier opens for the first time only
when nobody is before it any more, a worker with a failed setup included, whose first
barrier call is the end barrier; with it and `CancelInv` each such move, and each step of
the main thread, is a step of `ForkJoin` or a stutter (`ForkJoinInvStep`).

`MapUnmapProofs`, for any number of workers, pages and operations and every
subset of failures: `MapUnmapTypeOK`, `MapUnmapHarnessInv`,
`MapUnmapPartialStartIdle` and `MapUnmapArgsOutlive`. The inductive invariant
`IInv` adds `LoopInv`, the bounds of the loop variables at each control point,
which give that `addrs` is never indexed outside its bounds.

The same module proves what `MapUnmap` promises about the address space and the
phases, in its second invariant `DInv`, which is inductive relative to `IInv`:
* `ErrInv` says which errors a worker can have at which control point. `PhaseInv` says
  that at any time all workers are `Early` (no barrier has opened), all `Middle` (the
  first has) or all `Late` (the second has). The three sets of control points take a
  worker whose setup failed one barrier ahead: its call of the end barrier is the first
  one, and while the others measure it cleans up and waits in its last.
  `MapUnmapPhasesDisjoint` follows.
* `VmInv`: the mappings of isolated workers are the first slots from their bases on
  (`RegionInv`); no address is noted before its page is mapped (`FreshInv`); each address
  noted, not given up and not stale is the worker's own, and two pages never share one
  (`OwnedInv`); a page of a page-by-page worker is nowhere else than noted
  (`AccountedInv`). The distinctness is not part of any property, and yet without it
  unmapping one page could take another. `MapUnmapAddrsOwned`, `MapUnmapOwnRegion`,
  `MapUnmapNothingLeft` and the action property `MapUnmapNoForeignUnmap` follow, the last
  by cases over every kind of step.
* None of these is restricted to runs without failures, nor is the number of operations
  bounded by the size of a region: `MaxOps` is any number, and what really goes wrong is
  named in the property. A worker whose remap failed unmaps its stale address in the
  cleanup (`StaleUnmap`); another worker may have its page there, and does not find it
  any more when it cleans up itself (`Undone`, `Kept`). By `PhaseInv` that is later than
  everyone's last operation (`UndoneLate`), so that no mapping is made there again. In
  isolated maponly the extent of a worker grows with each operation, and the one after
  `RegionSlots` operations lies in the next worker's region (`Overrun`; `OwnInRegion` says
  that there is no other way out of a region). What is assumed is that the memory of one
  worker, `NMaps` pages, fits into its 512 GB.
* `ReportInv`: what main has written of the CSV are final counts, since it joined the
  workers before; `MapUnmapReportComplete` follows.

`ProtectProofs` proves all four invariants of the `protect` run, with `HarnessInv` and
`LoopInv` (bounds of the loop variables) in `IInv` and four parts in `DInv`: `Filled`
(which entries of `addrs` are set at each control point), `Owned` (they are the
worker's own mappings and distinct), `AtReadOnly` (a read-only page is the one its
worker is at, and only between its two calls), `Accounted` (while nothing failed, no
mapping is forgotten). `ProtectOneReadOnly` rests on `AtReadOnly`, `ProtectProtectsOwn`
on `Filled` and `Owned`, `ProtectNothingLeft` on `Accounted`.

`ElevateProofs` proves all three invariants of the `elevate` run. `AddrInv` in `IInv`
says that `addr` has come exactly `counter` pages beyond the first mapping, so with
`LoopInv` that it stays in the address space. `DInv` adds `Mapped` (an isolated worker
has mapped everything from its base to `off`) and `Piece`: where one mapping holds all
pages, those from `addr` to the end of it are the worker's own and still read-only.
`ElevateOwnPages` and `ElevateElevatesReadOnly` are the first page of these ranges.
`Piece` is kept only while no worker of a shared pool has failed, because the error
path unmaps pages behind the mapping (`OnePiece`).

`ArgsProofs` proves all five invariants of the `args` run, for any number of workers
and samples. `ObjInv` says at each point of the preparation and cleanup which objects
exist and who holds them: with one object for all, object 1 is in every worker's
arguments and destroyed when the first is passed, since only there it differs from the
previous worker's (`CleanupInv`); hence `ArgsObjectsReleased` and `ArgsReadyToRun`.
`RecordInv` ties `next` to the last sample taken, which makes `SamplesSpaced` inductive;
that the parts of the array are apart (`ArgsSamplesInPart`) is again a fact about
products.

`TlbShootProofs`, for any number of readers and operations and every subset of
failures, proves all four invariants of the `tlbshoot` run: `TlbShootTypeOK`,
`TlbShootReadersRun`, `TlbShootTouchMapped` and `TlbShootDoneOutlives`. Besides
`HarnessInv` the inductive invariant has four parts. `RolesInv`: worker 0 alone
measures and the others alone read. `PhaseInv`: the barrier before the loop opens
for all at once, which one sees from any worker behind it or released in it, and
until worker 0 has set `done` nobody else gets past the touching loop. `MappedInv`:
a reader's page is in the kernel's pool and its own, and what worker 0 unmaps next
is its own; that worker 0's fixed region lies above the pool is the lemma `Places`.
`FailedInv`: a failed start leaves a worker unborn, so that by `HarnessInv` nobody
is reading when the function returns early.

`ProgramProofs`, for every machine, command line and set of failing calls:
* `ProgramInitBeforeUse`: a successful `plat_init` has spanned to every listed core,
  and after a failed one, whose result main drops, no worker maps memory. `PhaseInv`
  says what holds before, during and after `plat_init`; `RemoteInv` follows the
  remote threads entry by entry and says that the semaphore is exactly whether the
  current one has posted, so that no wait takes an earlier post; `CapsInv` says that
  a capability is stored only after a successful `plat_init`.
* `ProgramNoEarlyThread`: when the list has the own core once and no core twice, the
  callbacks counted are exactly the entries called back (`CountInv`, with the
  cardinality of that set), so the count is reached only when all have called. With
  the own core missing it is reached one callback early, and the statement is false.
* `ProgramVregionsDistinct`, for every size of the buffers and any number of mappings.
  `PoolInv` says that each worker's vregions lie before the position of its core's pool
  (`Fine`), and that no two workers have anything of the same buffer (`Bufs`). It needs
  the cores to be distinct: two workers of one core share a pool that nothing locks, and
  they do get the same vregion.
* `ProgramTypeOK`: every counter stays in range, on any machine and whatever fails.
  `OptionsInv` says that what is left of the command line is one for the given machine,
  that the topology is asked only without a list of the user's, and that main goes on
  with one core or more; `ProgressInv` says how far the benchmark is in each phase, and
  (`Counted`) that no more callbacks are counted than entries have called back, which
  bounds `cores_initialized` by the cardinality of that set.
* `ProgramCoresListed`, for any number of nodes and cores: `plat_init` starts with a
  list that has each core once and in the order asked for on exactly the machines with
  dense core ids and, interleaved, `Even` nodes; likewise for the fallback. Both
  directions are proved (`OrderRight`, `FallbackRight`), so the theorem also says that on
  every other machine the list comes out wrong. The argument counts and needs no
  induction: ranks enumerate the cores of a node without a gap (`RankFacts`), filling
  node by node is a bijection onto the list exactly when the ids are dense (`RowPlaces`,
  `DenseNeeded`), and in turns exactly when the occupied cells of the grid of nodes and
  ranks are an initial interval, row by row (`GridPlaces`, `GridEven`).
* `InterleavedBarrelfish` makes the condition on core 0 concrete (see Observations).

All of these rest on the assumptions on the constants only (`BenchRunAssumption`,
`PlatVmAssumption`, `MapUnmapAssumption`, `TlbShootAssumption`, `ProtectAssumption`,
`ElevateAssumption`, `ArgsAssumption`, `LaunchAssumption`, `BfRunAssumption`,
`SpinAssumption`), which TLC evaluates in the runs. Each inductive invariant was
also checked with TLC as an invariant of the run of its module.

Model-checked only: liveness (`RoundsComplete`, `ReturnsUnlessDeserted`,
`ReturnsUnlessFailed`, `InitReturns`, and the fairness of the abstract barrier in
`ImplementsBarrier`), which with everything that depends on ENABLED is out of the
prover's reach. Every invariant and every action property that a passing run checks
is proved.

## Findings

1. `mapunmap.c:430`: 0 is returned whatever the workers did (documented: -1 on error).
2. `mapunmap.c:92` (also 62, 68, 87): a worker that fails leaves without the end
   barrier and the benchmark hangs (documented: -1 on failure).
3. `linux.c:482`: `plat_thread_cancel` frees a handle the thread still uses.
4. `protectelevate.c:62`: the setup protects the first piece only.
5. `utils.c:233`: the error path destroys `args[i]`, which is NULL, not `args[j]`.

## Observations

What the models of the whole program show and nothing in the repository denies, so
that it is stated in the properties rather than as a finding:

* The interleaved order of the cores is right only for even nodes: on Linux
  (`linux.c:162`) no node may have fewer cores than a later one, nor two more than
  it; on Barrelfish (`barrelfish.c:272-283`) moreover the number of cores seen in the
  last node, which is where core 0 is put, has to be the place behind the others of its
  own node. If core 0 is on the first node and no node is empty, that leaves one node,
  or two with one and two cores beside core 0 (`InterleavedBarrelfish`). For other machines entries stay unwritten, a core
  is written behind the array, or core 0 replaces another one (`CoresListed`).
* Both orders, and the fallback without libnuma, take the core ids to be
  `0 .. nproc-1`: a gap, or a process bound to some cores, leaves entries unwritten.
* A list of cores that ends in a comma has an uninitialised last entry (`main.c:91`).
* `plat_init` on Barrelfish waits for one callback less than it asked for
  dispatchers. With a list that lacks the own core it may create a thread on a core
  without a dispatcher; with the own core listed twice it waits forever
  (`NoEarlyThread`, `InitReturns`).
* The result of `plat_init` is dropped (`main.c:216`); the benchmark then fails
  later, at its first mapping (`InitBeforeUse`). The exit status does not depend on
  the benchmark's result either (`main.c:283`).
* After a failed remap `addrs` keeps the address that was unmapped (`mapunmap.c:201-205`),
  and the cleanup unmaps it once more (`mapunmap.c:223`): in the default mode another
  worker's page may be there by then (`StaleUnmap` in `NoForeignUnmap`).
* Isolated maponly advances its address without a limit (`mapunmap.c:275`, 348): after
  512 GB it maps over the next worker's memory, and that worker over its (`Overrun`).
* A worker whose setup failed meets the first barrier of the others with its second call
  (`mapunmap.c:149`) and cleans up while they measure (`PhasesDisjoint`).
* Two threads of one core race on the pool of vregions (`barrelfish.c:484`).
* When `numa_node_to_cpus` fails, masks not yet allocated are freed (`linux.c:177`).

## Not modelled, and why

* Formatting: log messages, the CSV, the printing of statistics, `plat_save_logs`.
  They keep no state.
* Numbers derived from times. The duration a reader of tlbshoot reports is computed
  from the intended end (`tlbshoot.c` 45, 58), and the rates from it. A clock set back
  to before the start of a run makes elapsed times wrap around (`linux.c:599`).
* The memory file behind a memory object on Linux: it is not closed when the object
  is destroyed (`linux.c:266-281`) and stays until the process ends. Offsets, sizes
  and huge pages of a mapping; a call refused for one of them is a failed `map`.
* `plat_vm_protect` and the clock of Barrelfish, which change nothing `BfRun` keeps;
  barriers in `BfRun`: `SpinBarrier` and `BenchRun` are about them.
* The 4k variant of tlbshoot, which is compiled out.
* Memory below one page (`mapunmap.c:177` divides by the number of pages) and a run
  neither timed nor counted (`mapunmap.c:57`): excluded by the assumptions on the
  configurations.
* `bsd.c` and `bespin.c` are empty; scripts and build files drive test machines.

What is left of the sources is comments, includes, declarations and the parts named
here.

## What could be proved next

That `BfRun`, which stands for every benchmark on Barrelfish, implements `ForkJoin` too,
once its workers meet at a barrier; and the preparation of the arguments (`Args`) as a
specification of its own that both `BenchRun` and `BfRun` rely on.
