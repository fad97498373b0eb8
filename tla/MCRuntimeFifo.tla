---------------------------- MODULE MCRuntimeFifo ----------------------------
(* One shape of request and one lane, so that only the order can differ.   *)
EXTENDS RuntimeFifo

CONSTANTS t1, t2, t3, cpu

ThreeTasks == {t1, t2, t3}
OneLane == {cpu}
OneSlot == cpu :> 1
NoHardDeadline == {Never}
OneShape == {[lane |-> cpu, units |-> 1, background |-> FALSE,
              supported |-> TRUE, deadline |-> Never]}
=============================================================================
