------------------------- MODULE MCProviderSessions --------------------------
(* The union of three scenarios: the executive's two goroutines; one       *)
(* subagent, with permissions and a question; two subagents that start     *)
(* the server together, after it came up for the executive and went down.  *)
(* Agents have a provider of their own, as with an agent model of their    *)
(* own in the configuration.                                               *)
EXTENDS ProviderSessions, TLC

CONSTANTS p1, bg, a, b, ofExec, ofAgents

MCSession == {a, b}
MCTurn == {p1, bg}
MCPrompter == {p1, bg, a, b}
MCObject == {exec, a, b}
MCProvider == {ofExec, ofAgents}
MCObjectOf == [q \in MCPrompter |-> IF q \in MCTurn THEN exec ELSE q]
MCProviderOf == (exec :> ofExec) @@ (a :> ofAgents) @@ (b :> ofAgents)
MCAsks == [q \in MCPrompter |-> CASE q = a -> 2 [] q \in MCTurn -> 1 [] q = b -> 0]
MCQuestions == (a :> 2) @@ (b :> 0)
MCThoughts == (a :> 1) @@ (b :> 0)

Idle(S) == \A s \in S : spawn[s] = "none"
ExecutiveOnly == Idle({a, b}) /\ server = "up" /\ ~ctxDone[bg]
Sent(q) == at[q] \notin {"none", "create"}
OneSubagent ==
  /\ Idle({b}) /\ at[p1] = "none" /\ at[bg] = "none"
  /\ spawn[a] # "temp" /\ server = "up"
  /\ asked[a] <= 2 /\ (asked[a] = 0 \/ thoughts[a] = 0)
StartingTogether ==
  /\ \A q \in MCPrompter : ~Sent(q) /\ ~ctxDone[q]
  /\ at[p1] = "none" /\ at[bg] = "none"
Scenarios == ExecutiveOnly \/ OneSubagent \/ StartingTogether
=============================================================================
