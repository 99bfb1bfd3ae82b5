----------------------------- MODULE MCSubagents -----------------------------
(* One session that may ask twice and be stopped, and one that may ask     *)
(* once and stage a thought, on notification channels of one place.        *)
EXTENDS Subagents, TLC

CONSTANTS a, b

MCQuestions == (a :> 2) @@ (b :> 1)
MCThoughts == (a :> 0) @@ (b :> 1)

(* Bound: the second session is never stopped, and Spawn never times out   *)
(* on it.                                                                  *)
OneStopped == ~stopping[b] /\ spawn[b] # "temp"
=============================================================================
