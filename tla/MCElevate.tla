------------------------------ MODULE MCElevate ------------------------------
(* Memory in one piece and in several, also more of it than there are         *)
(* operations; isolated for all sizes, the kernel choosing for two operations.*)
EXTENDS Elevate

MCConfigs == {c \in AllConfigs : IF c.isolated THEN c.nops # 1 ELSE c.nops = 2}

(* Isolated workers with the default memsize of one page. *)
OnePageConfigs == [isolated : {TRUE}, timed : {FALSE}, nops : {2}, mem : {1}]
==============================================================================
