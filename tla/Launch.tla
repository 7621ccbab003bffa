------------------------------- MODULE Launch -------------------------------
(***************************************************************************)
(* src/main.c, for both ports: the command line becomes a configuration,   *)
(* the list of cores is taken from it or from plat_get_topology, the       *)
(* platform is initialised, one benchmark is run, and the process ends.    *)
(***************************************************************************)
EXTENDS Topology, Sequences

CONSTANTS
  Inputs,         \* what the program is started with: [machine, argv], the machine
                  \* as in Topology, the command line a sequence of [opt, arg]
  Ports,          \* "linux", "barrelfish"
  MayFail         \* the calls that may fail, among LaunchFailures and the ports'

NoList == <<>>      \* coreslist == NULL
Missing == -2       \* an empty entry of the argument of -c
NotADigit == -3     \* an entry with another character than a digit

(* The arguments main looks into: strtoul returns a number, and a list of     *)
(* cores is taken apart at its commas.                                        *)
IsOption(o) ==
  /\ o.opt = "p" => o.arg \in Nat
  /\ o.opt = "c" => o.arg \in Seq(Nat \union {Missing, NotADigit})

ASSUME LaunchAssumption ==
  /\ Ports \subseteq {"linux", "barrelfish"}
  /\ \A i \in Inputs :
       /\ IsMachine(i.machine)
       /\ i.argv \in Seq({i.argv[k] : k \in DOMAIN i.argv})
       /\ \A k \in DOMAIN i.argv : IsOption(i.argv[k])

HugePage == 512     \* memsize is in base pages
Unset == -1         \* cfg.rate without -r
DefaultRate == 0    \* DEFAULT_SAMPLING_RATE_MS

VARIABLES
  port, machine,  \* what the program was built for, and runs on
  argv,           \* the options getopt has still to return
  phase,          \* the next statement of main, or of what it calls
  ncores,         \* the argument of -p
  coreslist, size,   \* cfg.coreslist and cfg.corelist_size
  cfg,            \* the other fields of cfg, and in out the files of -o and -z
  source,         \* ghost: where coreslist comes from
  result,         \* what the benchmark returned: "none", "ok" (0), "error" (-1)
  status          \* the exit status of the process, or "none"

launch == <<port, machine, argv, phase, ncores, coreslist, size, cfg, source, result, status>>
environment == <<port, machine>>
options == <<ncores, coreslist, size, cfg, source>>

LaunchInit ==
  /\ port \in Ports
  /\ \E i \in Inputs : machine = i.machine /\ argv = i.argv
  /\ phase = "options"
  /\ ncores = 0 /\ coreslist = NoList /\ size = 0
  /\ cfg = [interleave |-> FALSE, huge |-> FALSE, memsize |-> 1, timed |-> TRUE, nops |-> 0,
            bench |-> "mapunmap", opts |-> {}, nounmap |-> FALSE, shared |-> TRUE,
            isolated |-> FALSE, map4k |-> FALSE, stats |-> 0, rate |-> Unset, out |-> {}]
  /\ source = "none" /\ result = "none" /\ status = "none"

(* exit(s) *)
Exit(s) == phase' = "exited" /\ status' = s

------------------------------------------------------------------------------
(* The options *)

SetField(f, v) ==
  /\ cfg' = [cfg EXCEPT ![f] = v]
  /\ UNCHANGED <<phase, ncores, coreslist, size, source, status>>

(* A digit comes first. *)
StartsRight(entries) == entries # <<>> /\ Head(entries) >= 0

(* parse_cores_list: as many entries as there are commas and one; the entry   *)
(* after a last comma is counted, but the loop ends before it.  Without       *)
(* memory it returns -1, which nobody looks at.                               *)
ParseCoresList(entries) ==
  /\ UNCHANGED <<ncores, cfg>>
  /\ \/ /\ ~StartsRight(entries)
        /\ Exit("failure") /\ UNCHANGED <<coreslist, size, source>>
     \/ /\ StartsRight(entries)
        /\ "malloc" \in MayFail
        /\ UNCHANGED <<phase, coreslist, size, source, status>>
     \/ /\ StartsRight(entries)
        /\ \E k \in 2..Len(entries) :
             entries[k] = NotADigit \/ (entries[k] = Missing /\ k < Len(entries))
        /\ Exit("failure") /\ UNCHANGED <<coreslist, size, source>>
     \/ /\ StartsRight(entries)
        /\ \A k \in 2..Len(entries) : entries[k] >= 0 \/ (entries[k] = Missing /\ k = Len(entries))
        /\ coreslist' = [s \in 0..(Len(entries) - 1) |->
                           IF entries[s + 1] = Missing THEN Garbage ELSE entries[s + 1]]
        /\ size' = Len(entries)
        /\ source' = "user"
        /\ UNCHANGED <<phase, status>>

(* One turn of the loop around getopt. *)
ParseOption ==
  /\ phase = "options" /\ argv # <<>>
  /\ argv' = Tail(argv)
  /\ LET o == Head(argv) IN
       \/ o.opt = "l" /\ SetField("huge", TRUE)
       \/ o.opt = "p" /\ ncores' = o.arg /\ UNCHANGED <<phase, coreslist, size, cfg, source, status>>
       \/ o.opt = "c" /\ ParseCoresList(o.arg)
       \/ o.opt = "i" /\ SetField("interleave", TRUE)
       \/ o.opt = "m" /\ SetField("memsize", o.arg)
       \/ /\ o.opt = "n"
          /\ cfg' = [cfg EXCEPT !.nops = o.arg, !.timed = FALSE]
          /\ UNCHANGED <<phase, ncores, coreslist, size, source, status>>
       \/ /\ o.opt = "b"
          /\ cfg' = [cfg EXCEPT !.bench = o.arg.name, !.opts = o.arg.opts]
          /\ UNCHANGED <<phase, ncores, coreslist, size, source, status>>
       \/ o.opt = "t" /\ SetField("timed", o.arg > 0)
       \/ o.opt = "s" /\ SetField("stats", o.arg)
       \/ o.opt = "r" /\ SetField("rate", o.arg)
       \/ o.opt \in {"o", "z"} /\ SetField("out", cfg.out \union {o.opt})
       \/ o.opt \in {"o", "z"} /\ "fopen" \in MayFail /\ SetField("out", cfg.out \ {o.opt})
       \/ o.opt = "h" /\ Exit("success") /\ UNCHANGED options
       \/ o.opt = "?" /\ Exit("failure") /\ UNCHANGED options
  /\ UNCHANGED <<environment, result>>

------------------------------------------------------------------------------
(* The list of cores *)

OptionsDone ==
  /\ phase = "options" /\ argv = <<>>
  /\ \/ ncores # 0 /\ coreslist # NoList /\ Exit("failure") /\ UNCHANGED ncores
     \/ ncores = 0 /\ coreslist # NoList /\ phase' = "init" /\ UNCHANGED <<ncores, status>>
     \/ /\ coreslist = NoList /\ phase' = "topology"
        /\ ncores' = IF ncores = 0 THEN 1 ELSE ncores
        /\ UNCHANGED status
  /\ UNCHANGED <<environment, argv, coreslist, size, cfg, source, result>>

(* plat_get_topology returns a list; main takes all of it when more cores are *)
(* asked for than it has.                                                     *)
TakeList(list, from) ==
  /\ coreslist' = list
  /\ size' = IF ncores > Cardinality(DOMAIN list) THEN Cardinality(DOMAIN list) ELSE ncores
  /\ source' = from
  /\ phase' = "init"
  /\ UNCHANGED <<environment, argv, ncores, cfg, result, status>>

(* What a write through NULL or behind the array does shows here or not at all. *)
Crash == phase' = "crashed" /\ UNCHANGED <<environment, argv, options, result, status>>

(* The loops; malloc of the list is not checked. *)
TopologyNuma ==
  /\ phase = "topology" /\ machine.numa
  /\ \/ TakeList(Order(port, machine, cfg.interleave), "numa")
     \/ (Overruns(port, machine, cfg.interleave) \/ "malloc" \in MayFail) /\ Crash

(* No libnuma on this machine, or ... *)
TopologyFallback ==
  /\ phase = "topology" /\ ~machine.numa
  /\ TakeList(Fallback(port, machine), "fallback")

(* ... numa_node_to_cpus fails for node n: err_out_1 frees the masks of all   *)
(* nodes, also those after n, which were not allocated yet.                   *)
TopologyNodeFails ==
  /\ phase = "topology" /\ machine.numa
  /\ "numa_node_to_cpus" \in MayFail
  /\ \E n \in DOMAIN machine.nodes :
       \/ TakeList(Fallback(port, machine), "fallback")
       \/ n < NNodes(machine) - 1 /\ Crash

(* malloc, numa_allocate_cpumask or the knowledge base fail. *)
TopologyFails ==
  /\ phase = "topology"
  /\ "topology" \in MayFail
  /\ Exit("failure")
  /\ UNCHANGED <<environment, argv, options, result>>

------------------------------------------------------------------------------
(* Running the benchmark *)

(* plat_init on Linux does nothing. *)
LinuxInit ==
  /\ phase = "init" /\ port = "linux"
  /\ phase' = "config"
  /\ UNCHANGED <<environment, argv, options, result, status>>

(* A memory object of huge pages holds one at least. *)
Configure ==
  /\ phase = "config"
  /\ phase' = "dispatch"
  /\ cfg' = [cfg EXCEPT !.memsize = IF cfg.huge /\ @ < HugePage THEN HugePage ELSE @,
                        !.rate = IF @ = Unset THEN DefaultRate ELSE @]
  /\ UNCHANGED <<environment, argv, ncores, coreslist, size, source, result, status>>

Benchmarks == {"mapunmap", "maponly", "protect", "elevate", "tlbshoot"}

(* The name selects a benchmark; it starts with vmops_utils_parse_options.    *)
(* An unknown name leaves r at 0.                                             *)
Dispatch ==
  /\ phase = "dispatch"
  /\ \/ cfg.bench \notin Benchmarks /\ phase' = "report" /\ result' = "ok" /\ UNCHANGED cfg
     \/ /\ cfg.bench \in Benchmarks
        /\ {"shared", "independent"} \subseteq cfg.opts \/ "unknown" \in cfg.opts
        /\ phase' = "report" /\ result' = "error" /\ UNCHANGED cfg
     \/ /\ cfg.bench \in Benchmarks
        /\ ~({"shared", "independent"} \subseteq cfg.opts \/ "unknown" \in cfg.opts)
        /\ cfg' = [cfg EXCEPT !.nounmap = (cfg.bench = "maponly"),
                              !.shared = "independent" \notin cfg.opts,
                              !.isolated = "isolated" \in cfg.opts,
                              !.map4k = "4k" \in cfg.opts]
        /\ phase' = "prepare"
        /\ UNCHANGED result
  /\ UNCHANGED <<environment, argv, ncores, coreslist, size, source, status>>

(* A benchmark on Linux: the subject of the other modules. *)
LinuxBenchmark ==
  /\ phase = "prepare" /\ port = "linux"
  /\ \/ /\ phase' = "report"
        /\ result' \in {"ok", "error"}
        /\ UNCHANGED <<environment, argv, options, status>>
     \/ Crash

(* The result is printed, and dropped; the files are closed. *)
Report ==
  /\ phase = "report"
  /\ Exit("success")
  /\ cfg' = [cfg EXCEPT !.out = {}]
  /\ UNCHANGED <<environment, argv, ncores, coreslist, size, source, result>>

LaunchNext ==
  \/ ParseOption
  \/ OptionsDone
  \/ TopologyNuma
  \/ TopologyFallback
  \/ TopologyNodeFails
  \/ TopologyFails
  \/ LinuxInit
  \/ Configure
  \/ Dispatch
  \/ LinuxBenchmark
  \/ Report

------------------------------------------------------------------------------
(* The list that is handed to plat_init.  One from plat_get_topology has each *)
(* core the process may use once, node by node or one of each node in turn,   *)
(* for exactly the machines whose core ids have no gap and, interleaved,      *)
(* whose nodes are even (linux.c:162, barrelfish.c:272-283); one from the     *)
(* user has no entry that was not parsed unless it ended in a comma.  Never   *)
(* is size larger than the list.                                              *)
NumaListRight ==
  LET m == machine IN
    (ListsEach(coreslist, m.task) /\ InNodeOrder(m, coreslist, cfg.interleave))
      <=> (Dense(m.task) /\ (cfg.interleave => Even(port, m)))

CoresListed ==
  phase = "init" =>
    /\ 0 < size /\ size <= Cardinality(DOMAIN coreslist)
    /\ source = "numa" => NumaListRight
    /\ source = "fallback" => (ListsEach(coreslist, Cores(machine)) <=> Dense(Cores(machine)))
    /\ source = "user" => \A s \in 0..(size - 2) : coreslist[s] # Garbage
==============================================================================
