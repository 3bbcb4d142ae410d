------------------------------ MODULE MCCoreTimer ------------------------------
(* Instances of CoreTimer for TLC: two timers, one with twice the other's period, *)
(* in the loop's alphabetical order.                                              *)
EXTENDS CoreTimer, TLC

MCTimers == <<[job |-> "digest", every |-> 2], [job |-> "tick", every |-> 1]>>
MCOneTimer == <<[job |-> "tick", every |-> 1]>>
===============================================================================
