---------------------------- MODULE MCExecSession ----------------------------
(* Three user messages and a wake-up.  The runs are the union of two       *)
(* scenarios: both lanes, with one message and the wake-up; and the P1     *)
(* goroutine alone, with all three messages.                               *)
EXTENDS ExecSession, TLC

CONSTANTS msgA, msgB, msgC, wake

MCItem == {msgA, msgB, msgC, wake}
MCMessages == {msgA, msgB, msgC}
MCWake == {wake}
MCPriority == [i \in Item |-> IF i = wake THEN 3 ELSE 1]
MCSalience == [i \in Item |-> 0]

(* Bounds on conversations, so that fallbacks and restarts do not          *)
(* multiply; no memory_reset in the second scenario.                       *)
BothLanes == newest <= 2 /\ Cardinality(Added \cap MCMessages) <= 1
OneLane == newest <= 4 /\ wake \notin Added /\ reset = "none"
Scenarios == BothLanes \/ OneLane

Messages == Permutations(MCMessages)
=============================================================================
