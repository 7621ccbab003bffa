----------------------------- MODULE MCMapUnmap -----------------------------
(* Every run function, isolated and not, for a number of operations and for a *)
(* time; two workers with two pages each and any call that may fail failing   *)
(* at any time.  The pool has a slot for every mapping the workers can hold.  *)
EXTENDS MapUnmap

(* A timed run may stop anywhere, so it covers the shorter ones.  Isolated    *)
(* maponly runs on until the kernel has no address left for worker 1, and over*)
(* the region of worker 1 before; the others do two operations, the costliest *)
(* (4k, kernel-chosen addresses) timed only.                                  *)
MCConfigs ==
  {c \in AllConfigs :
     IF c.isolated /\ c.nounmap THEN c.timed /\ c.nops = 0
     ELSE c.nops = 2 /\ (c.timed \/ c.nounmap \/ c.isolated \/ ~c.map4k)}

(* maponly-4k, which goes to its end barrier after a failed map, *)
LenientConfigs ==
  {[map4k |-> TRUE, nounmap |-> TRUE, isolated |-> FALSE, timed |-> FALSE, nops |-> MaxOps]}
(* and mapunmap, the default benchmark, which does not. *)
DefaultConfigs ==
  {[map4k |-> FALSE, nounmap |-> FALSE, isolated |-> FALSE, timed |-> TRUE, nops |-> 0]}
==============================================================================
