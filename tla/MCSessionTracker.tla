-------------------------- MODULE MCSessionTracker --------------------------
(* A user message and a wake-up, over one midnight.                        *)
EXTENDS SessionTracker, TLC

CONSTANTS msgA, wake

MCLanes == {msgA, wake}
MCWake == {wake}
MCPriority == [i \in Item |-> IF i = wake THEN 3 ELSE 1]
MCSalience == [i \in Item |-> 0]

(* Bound on tracking IDs: two turns, or a turn and a restart or reset; the *)
(* retry after a fallback, which draws no ID, only in the first turn and   *)
(* before midnight.  Once a save failed or a start could not read the      *)
(* file, no retry, memory_reset or signal: none of them saves.             *)
Retrying == \E t \in Thread : pc[t] = "rebuild"
Signalled == signalDoneActive \/ \E t \in Thread : sessDone[t]
FewIDs ==
  /\ sessionID <= 2 /\ (Retrying => sessionID = 1 /\ day = 0)
  /\ unsaved \/ spoiled => ~Retrying /\ ~Signalled /\ reset = "none"
=============================================================================
