----------------------------- MODULE MCProtect -----------------------------
(* Both functions, isolated and not, for a time and (but the costliest) for a *)
(* number of operations; two workers with two pages each, so that the page    *)
(* index wraps around.                                                        *)
EXTENDS Protect

MCConfigs ==
  {c \in AllConfigs : \/ c.timed /\ c.nops = 0
                      \/ ~c.timed /\ c.nops = MaxOps /\ (c.isolated \/ ~c.map4k)}
==============================================================================
