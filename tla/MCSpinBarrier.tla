---------------------------- MODULE MCSpinBarrier ----------------------------
(* Four threads, three rounds each: the cycle takes both values twice and a  *)
(* fast thread can be back in the next round while slow ones still spin.  *)
EXTENDS SpinBarrier
==============================================================================
