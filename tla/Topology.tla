------------------------------ MODULE Topology ------------------------------
(***************************************************************************)
(* The list of cores the program uses when the user names none:            *)
(* plat_get_topology of the two ports (src/platform/linux.c 65-182,        *)
(* src/platform/barrelfish.c 163-296), as functions of the machine.  A     *)
(* machine is a record: nodes, the set of cores of each NUMA node, counted *)
(* from 0; task, the cores the process may use (numa_num_task_cpus tells   *)
(* the port only how many); numa, whether libnuma works on it.             *)
(***************************************************************************)
EXTENDS Integers, FiniteSets

Garbage == -1    \* an entry of the malloc'ed list that was never written

Cores(m) == UNION {m.nodes[n] : n \in DOMAIN m.nodes}
NProc(m) == Cardinality(m.task)
NNodes(m) == Cardinality(DOMAIN m.nodes)

(* Every core is on one node, some nodes may have none; a process may use at  *)
(* least the core it runs on.                                                 *)
IsMachine(m) ==
  /\ IsFiniteSet(DOMAIN m.nodes) /\ DOMAIN m.nodes = 0..(NNodes(m) - 1)
  /\ IsFiniteSet(Cores(m)) /\ Cores(m) \subseteq Nat
  /\ \A n, k \in DOMAIN m.nodes : n # k => m.nodes[n] \intersect m.nodes[k] = {}
  /\ m.task \subseteq Cores(m) /\ m.task # {}

(* The first core the loops look at: Barrelfish leaves core 0 for the end.    *)
First(port) == IF port = "linux" THEN 0 ELSE 1

(* for (c = first; c < nproc; c++) if (numa_bitmask_isbitset(nodecpus[n], c)) *)
Seen(port, m, n) == {c \in m.nodes[n] : First(port) <= c /\ c < NProc(m)}
Rank(port, m, n, c) == Cardinality({d \in Seen(port, m, n) : d < c})

(* Plausible slip: all nodes are filled from the start of the list. *)
SlotOver(port, m, interleave, n, c) ==
  IF interleave THEN n + Rank(port, m, n, c) * NNodes(m) ELSE Rank(port, m, n, c)

(* Where core c of node n is written: cids[cidx++], counting through all      *)
(* nodes, or cids[n + (cidx++) * nnodes], counting anew in every node.        *)
Slot(port, m, interleave, n, c) ==
  IF interleave
  THEN n + Rank(port, m, n, c) * NNodes(m)
  ELSE Cardinality(UNION {Seen(port, m, k) : k \in 0..(n - 1)}) + Rank(port, m, n, c)

(* The loops over the nodes; no two cores are written to the same place.      *)
Listed(port, m, interleave) ==
  [s \in 0..(NProc(m) - 1) |->
     LET here == {c \in Cores(m) : \E n \in DOMAIN m.nodes :
                    c \in Seen(port, m, n) /\ Slot(port, m, interleave, n, c) = s}
     IN  IF here = {} THEN Garbage ELSE CHOOSE c \in here : TRUE]

(* A core written behind the end of the list: the array has nproc entries.    *)
Overruns(port, m, interleave) ==
  \E n \in DOMAIN m.nodes : \E c \in Seen(port, m, n) :
    Slot(port, m, interleave, n, c) >= NProc(m)

(* Barrelfish: cids[cidx++] = 0; where cidx is what the last loop left.       *)
ZeroSlot(m, interleave) ==
  IF interleave
  THEN Cardinality(Seen("barrelfish", m, NNodes(m) - 1))
  ELSE Cardinality(UNION {Seen("barrelfish", m, n) : n \in DOMAIN m.nodes})

LinuxOrder(m, interleave) == Listed("linux", m, interleave)
BarrelfishOrder(m, interleave) ==
  [Listed("barrelfish", m, interleave) EXCEPT ![ZeroSlot(m, interleave)] = 0]

(* get_topolocy_no_numa: 0, 1, 2, ... of all cores of the machine, on         *)
(* Barrelfish with core 0 at the end.                                         *)
LinuxFallback(m) == [s \in 0..(Cardinality(Cores(m)) - 1) |-> s]
BarrelfishFallback(m) ==
  LET n == Cardinality(Cores(m)) IN [s \in 0..(n - 1) |-> (s + 1) % n]

Order(port, m, interleave) ==
  IF port = "linux" THEN LinuxOrder(m, interleave) ELSE BarrelfishOrder(m, interleave)
Fallback(port, m) == IF port = "linux" THEN LinuxFallback(m) ELSE BarrelfishFallback(m)

------------------------------------------------------------------------------
(* "array of core ids to be used, ordered by supplied numa/cores"             *)
(* (platform.h:86): what a list should be, said without its construction.     *)

ListsEach(list, cores) ==
  /\ DOMAIN list = 0..(Cardinality(cores) - 1)
  /\ {list[s] : s \in DOMAIN list} = cores

(* Node by node, or one of each node in turn; core 0 of Barrelfish has no place*)
(* in a list filled node by node.                                             *)
InNodeOrder(m, list, interleave) ==
  LET NodeOf(c) == CHOOSE n \in DOMAIN m.nodes : c \in m.nodes[n] IN
    IF interleave
    THEN \A s \in DOMAIN list : NodeOf(list[s]) = s % NNodes(m)
    ELSE \A s, r \in DOMAIN list : s < r /\ list[r] # 0 => NodeOf(list[s]) <= NodeOf(list[r])

(* Core ids without a gap, from 0. *)
Dense(cores) == cores = 0..(Cardinality(cores) - 1)

(* The machines whose interleaved list comes out right: no node has fewer     *)
(* cores than a later one, nor two more than it, and the place Barrelfish     *)
(* gives core 0, the number of cores seen in the last node, is the one behind *)
(* the others of its own node.  (That leaves one node, or two with one and    *)
(* two cores beside core 0, when core 0 is on node 0 and no node is empty.)   *)
Size(port, m, n) == Cardinality(Seen(port, m, n))
Even(port, m) ==
  /\ \A n, k \in DOMAIN m.nodes : n < k => Size("linux", m, n) - Size("linux", m, k) \in {0, 1}
  /\ port = "barrelfish" =>
       \A h \in DOMAIN m.nodes : 0 \in m.nodes[h] =>
         ZeroSlot(m, TRUE) = h + Size("barrelfish", m, h) * NNodes(m)
==============================================================================
