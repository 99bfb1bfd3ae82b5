---------------------------- MODULE MCExecutive ----------------------------
(* A user message, a due task and a wake-up on a queue of one, so that     *)
(* every kind of turn meets every other and trimming happens.              *)
EXTENDS Executive, TLC

CONSTANTS msgA, due, wake

MCItem == {msgA, due, wake}
MCPair == {msgA, due}
MCPriority == [i \in Item |-> CASE i = msgA -> 1
                                [] i = due -> 2
                                [] i = wake -> 3]
MCWake == {wake} \cap Item
MCSalience == [i \in Item |-> 0]
=============================================================================
