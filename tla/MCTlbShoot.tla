------------------------------ MODULE MCTlbShoot ------------------------------
(* One worker that maps and two that touch, isolated and not, for a number of *)
(* operations and for a time.                                                 *)
EXTENDS TlbShoot

MCConfigs == {c \in AllConfigs : (c.timed /\ c.nops = 0) \/ (~c.timed /\ c.nops = MaxOps)}
==============================================================================
