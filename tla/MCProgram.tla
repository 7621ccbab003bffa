----------------------------- MODULE MCProgram -----------------------------
(* Small machines and command lines for TLC.                                  *)
EXTENDS Program

Machine(nodes, task, numa) == [nodes |-> nodes, task |-> task, numa |-> numa]
One(a) == [n \in {0} |-> a]
Two(a, b) == [n \in {0, 1} |-> IF n = 0 THEN a ELSE b]
Three(a, b, c) == [n \in 0..2 |-> CASE n = 0 -> a [] n = 1 -> b [] n = 2 -> c]

(* Even and uneven nodes, nodes in turns, core ids with a gap, a process that *)
(* may use some cores only, core 0 on another node than the first, an empty   *)
(* node, a machine without libnuma.                                           *)
MCMachines ==
  {Machine(One(0..1), 0..1, TRUE), Machine(One(0..2), 0..2, FALSE),
   Machine(Two({0, 1}, {2, 3}), 0..3, TRUE), Machine(Two({0, 1}, {2, 3}), {0, 2}, TRUE),
   Machine(Two({0, 2}, {1, 3}), 0..3, TRUE), Machine(Two({0, 1}, {2}), 0..2, TRUE),
   Machine(Two({0}, {1, 2}), 0..2, TRUE), Machine(One({0, 2}), {0, 2}, TRUE),
   Machine(One({0, 2}), {0, 2}, FALSE), Machine(Two({0, 1}, {2, 3}), 1..3, TRUE),
   Machine(Two({1}, {0, 2, 3}), 0..3, TRUE), Machine(Two({0}, {}), {0}, TRUE),
   Machine(Three({1}, {0}, {2}), 0..2, TRUE)}

Opt(o, a) == [opt |-> o, arg |-> a]
B(name, opts) == Opt("b", [name |-> name, opts |-> opts])
C(entries) == Opt("c", entries)

Small == Machine(One(0..1), 0..1, TRUE)

(* A benchmark that does not exist: the list of cores, and plat_init for it.  *)
NoBenchmark == B("none", {})
TopologyLines ==
  {<<NoBenchmark>>, <<Opt("p", 9), NoBenchmark>>, <<Opt("i", 0), Opt("p", 9), NoBenchmark>>}
ListLines ==
  {<<C(l), NoBenchmark>> :
     l \in {<<0>>, <<1, 0>>, <<2>>, <<1, Missing>>, <<0, 1, Missing>>, <<0, 0>>, <<1, 1>>,
            <<>>, <<Missing, 1>>, <<0, Missing, 1>>, <<0, NotADigit>>}}
  \union {<<Opt("p", 1), C(<<1>>)>>, <<Opt("h", 0)>>, <<Opt("?", 0)>>}

(* Benchmarks on one or two cores.                                            *)
RunLines ==
  {<<C(l), B("mapunmap", o)>> :
     l \in {<<1>>, <<0, 1>>},
     o \in {{"isolated"}, {"independent"}, {"shared", "independent"}, {"unknown"}}}
  \union {<<B("maponly", {"isolated"})>>,
          <<Opt("l", 0), Opt("m", 4), Opt("n", 5), Opt("t", 0), Opt("s", 2), Opt("r", 5),
            Opt("o", 0), Opt("z", 0), B("protect", {})>>}

MCInputs ==
  [machine : MCMachines, argv : TopologyLines]
  \union [machine : {Small}, argv : ListLines \union RunLines]
MCPorts == {"linux", "barrelfish"}
MCMayFail ==
  {"malloc", "topology", "numa_node_to_cpus", "skb", "cnode", "dispatcher", "span", "remote",
   "cap_copy", "frame_alloc", "map", "send_cap", "thread_create", "join", "fopen"}
============================================================================
