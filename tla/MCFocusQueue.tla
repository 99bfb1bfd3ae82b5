---------------------------- MODULE MCFocusQueue ----------------------------
(* Two urgent and three background items on a queue of capacity 2: the     *)
(* queue overflows with background items only, with urgent items only and  *)
(* with both; two background items tie on priority.                        *)
EXTENDS FocusQueue, TLC
CONSTANTS alarm, msg, due, wakeA, wakeB

MCItem == {alarm, msg, due, wakeA, wakeB}
MCPriority == (alarm :> 0) @@ (msg :> 1) @@ (due :> 2) @@ (wakeA :> 3)
              @@ (wakeB :> 3)
MCSalience == (alarm :> 1) @@ (msg :> 1) @@ (due :> 1) @@ (wakeA :> 1)
              @@ (wakeB :> 2)
=============================================================================
