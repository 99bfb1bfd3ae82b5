----------------------------- MODULE MCReplies -----------------------------
(* Two user messages, a short reply, a background task and a wake-up.  The *)
(* runs are the union of three scenarios: replies of the two messages'     *)
(* turns, which may follow each other, and of the background task, which   *)
(* may run, reply or be retried around them; handoff notes of two          *)
(* turns, with a restart; and the first prompt over every log of Logs.     *)
(* None has a memory_reset: what it does to a turn, signal_done does too.  *)
EXTENDS Prompts, TLC

CONSTANTS msgA, msgB, ok, due, wake

MCItem == {msgA, msgB, ok, due, wake}
MCWake == {wake}
MCMinimal == {ok}
MCPriority == (msgA :> 1) @@ (msgB :> 1) @@ (ok :> 1) @@ (due :> 2) @@ (wake :> 3)
MCSalience == [i \in MCItem |-> 0]

(* Episodes: a long one without summaries and not yet counted, long ones   *)
(* with some or all summaries, and a short one.                            *)
Ep(full, c32, c16, c8, count, open) ==
  [full |-> full, c32 |-> c32, c16 |-> c16, c8 |-> c8, count |-> count, open |-> open]
MCEpisodes == {Ep(4, 0, 0, 0, 0, TRUE), Ep(4, 3, 2, 0, 4, FALSE),
               Ep(4, 3, 2, 1, 4, TRUE), Ep(1, 0, 0, 0, 1, FALSE)}
MCLogs == UNION {[1..n -> MCEpisodes] : n \in 0..5}

NoReset == reset = "none"
RepliesCount == log = <<>> /\ noted = 0 /\ restarts = 0 /\ Added \subseteq {msgA, msgB, due}
OtherScenarios ==
  /\ mcpToolCalled = {} /\ heard = {}
  /\ Added \subseteq {msgA, ok, wake}
Notes ==
  /\ log = <<>> /\ (Added \subseteq {msgA, ok} \/ Added \subseteq {msgA, wake})
  /\ restarts + noted <= 2
  /\ signalDoneActive => noted > 0
  /\ (\E t \in Thread : sessDone[t]) => noted > 0
FirstPrompt ==
  /\ noted = 0 /\ restarts = 0
  /\ Cardinality(Added) <= 1 /\ signalDoneCancel = Nil /\ sessDone = Each(FALSE)
Scenarios ==
  NoReset /\ (RepliesCount \/ (OtherScenarios /\ (Notes \/ FirstPrompt)))

Messages == Permutations({msgA, msgB})
=============================================================================
