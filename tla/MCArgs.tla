------------------------------- MODULE MCArgs -------------------------------
(* Three workers, so that a memory object can fail to be created after none,  *)
(* one and two others; two samples each, the third operation being the first  *)
(* recorded (Dryrun is 1, operations are counted from 0 before it).           *)
EXTENDS Args
==============================================================================
