------------------------------- MODULE Percepts -------------------------------
(***************************************************************************)
(* What the program does with a percept (processPercept in                 *)
(* cmd/bud/main.go), each in the goroutine it arrived in: reload the       *)
(* reflexes, try those that match, run the extensions' pattern triggers,   *)
(* and hand what no reflex answered to the executive.  Around it: the MCP  *)
(* tools that run, create and delete workflows, edits of the files, and    *)
(* restarts of the program.                                                *)
(***************************************************************************)
EXTENDS Triggers

CONSTANTS
  Percept,      \* percepts, and the goroutines they come in
  Origin,       \* [type, subtype] of the inbox message each was made from
  Slash,        \* its slash command, or ""
  Data,         \* the variables it brings
  Fits,         \* Fits[f]: the percepts a flow's source, type and pattern let through
  PatternFits,  \* likewise for the pattern_match behaviours
  Invocation,   \* calls of the invoke_workflow tool, and their goroutines
  Invokes,      \* [name, params] of each
  Create,       \* bound: the names whose files change, with what create_reflex or an edit writes
  MaxRestart    \* bound: restarts

ASSUME PerceptConstants ==
  /\ Percept \cup Invocation \cup Timed = Thread
  /\ Percept \cap Invocation = {} /\ (Percept \cup Invocation) \cap Timed = {}
  /\ Create \subseteq Name \X Flow /\ \A c \in Create : Def[c[2]].name = c[1]
  /\ MaxRestart \in Nat

VARIABLES
  stage,      \* of each percept or call
  cands,      \* the reflexes still to be tried
  results,    \* what Process returns: results, and whether it was handled
  handled,
  trig,       \* the subscribers still to be called
  fate,       \* what became of the percept
  owed,       \* percepts one of whose reflexes has escalated
  canWork,    \* CanDoAutonomousWork: whether the daily budget is not used up
  restarts

perceptVars == <<stage, cands, results, handled, trig, fate, owed, canWork, restarts>>
vars == <<extensionVars, workflowVars, triggerVars, perceptVars>>

Init ==
  /\ ExtensionInit /\ WorkflowInit /\ TriggerInit
  /\ stage = [t \in Percept \cup Invocation |-> "new"]
  /\ cands = [p \in Percept |-> {}] /\ results = [p \in Percept |-> <<>>]
  /\ handled = [p \in Percept |-> FALSE] /\ trig = [p \in Percept |-> <<>>]
  /\ fate = [p \in Percept |-> "none"] /\ owed = {}
  /\ canWork \in BOOLEAN /\ restarts = 0

(* The source ToPercept gives it, as the parts between colons: an impulse  *)
(* keeps its own behind a prefix, a thought is the program's, any other    *)
(* message is from the inbox.                                              *)
Source(p) ==
  CASE Origin[p].type = "impulse" -> <<"impulse", Origin[p].subtype>>
    [] Origin[p].type # "impulse" /\ Origin[p].subtype = "thought" -> <<"bud">>
    [] OTHER -> <<"inbox">>

Ready == begun # Never
NextStage(p, s) == stage' = [stage EXCEPT ![p] = s]
Engine == <<fileVars, memoryVars, runVars, countVars>>

-----------------------------------------------------------------------------
Receive(p) ==
  /\ Ready /\ stage[p] = "new"
  /\ CheckForUpdates
  /\ NextStage(p, "match")
  /\ UNCHANGED <<fileVars, runVars, stats, fired, extensionVars, triggerVars>>
  /\ UNCHANGED <<cands, results, handled, trig, fate, owed, canWork, restarts>>

(* A slash command is for its own reflexes only, everything else for those *)
(* without one.                                                            *)
Candidate(n) == [obj |-> registry[n], flow |-> objects[n][registry[n]].flow]
Match(o, p) == ~Def[o.flow].callable /\ p \in Fits[o.flow] /\ Def[o.flow].slash = Slash[p]

MatchPercept(p) ==
  /\ stage[p] = "match"
  /\ cands' = [cands EXCEPT ![p] = {o \in {Candidate(n) : n \in {x \in Name : registry[x] # 0}} : Match(o, p)}]
  /\ NextStage(p, "reflexes")
  /\ UNCHANGED <<results, handled, trig, fate, owed, canWork, restarts>>
  /\ UNCHANGED <<Engine, extensionVars, triggerVars>>

Trying(p) == stage[p] = "reflexes" /\ depth[p] = 0 /\ outcome[p] = ""
HandledBy(p, yes) ==
  /\ handled' = [handled EXCEPT ![p] = yes]
  /\ trig' = [trig EXCEPT ![p] = subs]
  /\ NextStage(p, "triggers")

(* The next candidate by priority; a classifier may fail or find that the  *)
(* percept is not for it.                                                  *)
TryReflex(p) ==
  /\ Trying(p)
  /\ \E o \in cands[p] :
       /\ \A c \in cands[p] : Def[c.flow].prio <= Def[o.flow].prio
       /\ cands' = [cands EXCEPT ![p] = @ \ {o}]
       /\ \/ Push(p, o.obj, o.flow, Data[p])
          \/ Def[o.flow].classifier /\ UNCHANGED <<depth, frame, muddled>>
  /\ UNCHANGED <<fileVars, memoryVars, sem, outcome, raised, stats, fired>>
  /\ UNCHANGED <<stage, results, handled, trig, fate, owed, canWork, restarts>>
  /\ UNCHANGED <<extensionVars, triggerVars>>

ReflexReturned(p) ==
  /\ stage[p] = "reflexes" /\ depth[p] = 0 /\ outcome[p] # ""
  /\ results' = [results EXCEPT ![p] = Append(@, outcome[p])]
  /\ outcome' = [outcome EXCEPT ![p] = ""]
  /\ owed' = IF p \in raised THEN owed \cup {p} ELSE owed
  /\ IF outcome[p] = "failed" THEN UNCHANGED <<stage, handled, trig>>
     ELSE HandledBy(p, outcome[p] # "escalate")
  /\ UNCHANGED <<fileVars, memoryVars, sem, depth, frame, raised, countVars>>
  /\ UNCHANGED <<cands, fate, canWork, restarts, extensionVars, triggerVars>>

NoReflex(p) ==
  /\ Trying(p) /\ cands[p] = {}
  /\ HandledBy(p, FALSE)
  /\ UNCHANGED <<cands, results, fate, owed, canWork, restarts>>
  /\ UNCHANGED <<Engine, extensionVars, triggerVars>>

(* FirePercept: every subscriber in turn, each to the end of its workflow, *)
(* whose result nobody looks at.                                           *)
FirePercept(p) ==
  /\ stage[p] = "triggers" /\ depth[p] = 0 /\ trig[p] # <<>>
  /\ trig' = [trig EXCEPT ![p] = Tail(@)]
  /\ IF p \in PatternFits[Head(trig[p])]
     THEN RunWorkflow(p, Runs[Head(trig[p])], Data[p])
     ELSE UNCHANGED <<depth, frame, muddled>>
  /\ UNCHANGED <<fileVars, memoryVars, sem, outcome, raised, stats, fired>>
  /\ UNCHANGED <<stage, cands, results, handled, fate, owed, canWork, restarts>>
  /\ UNCHANGED <<extensionVars, triggerVars>>

(* The routing looks at the first result.  "impulse" and "system" are the  *)
(* sources the budget is for; ToPercept makes neither.                     *)
Answered(p) == handled[p] /\ Head(results[p]) = "success"
Autonomous(p) == Source(p) \in {<<"impulse">>, <<"system">>}

Destination(p) ==
  IF Answered(p) THEN "answered"
  ELSE IF Autonomous(p) /\ ~canWork THEN "blocked"
  ELSE IF Source(p) = <<"bud">> THEN "kept"
  ELSE "queued"

Route(p) ==
  /\ stage[p] = "triggers" /\ depth[p] = 0 /\ trig[p] = <<>>
  /\ fate' = [fate EXCEPT ![p] = Destination(p)]
  /\ NextStage(p, "done")
  /\ UNCHANGED <<cands, results, handled, trig, owed, canWork, restarts>>
  /\ UNCHANGED <<Engine, extensionVars, triggerVars>>

-----------------------------------------------------------------------------
InvokeWorkflow(t) ==
  /\ Ready /\ stage[t] = "new"
  /\ NextStage(t, "done")
  /\ RunWorkflow(t, Invokes[t].name, Invokes[t].params)
  /\ UNCHANGED <<fileVars, memoryVars, sem, outcome, raised, stats, fired>>
  /\ UNCHANGED <<cands, results, handled, trig, fate, owed, canWork, restarts>>
  /\ UNCHANGED <<extensionVars, triggerVars>>

FilesChange ==
  /\ Ready
  /\ \E c \in Create : \/ SaveReflex(c[1], c[2]) \/ EditFile(c[1], c[2])
                       \/ Delete(c[1]) \/ EditFile(c[1], NoFlow)
  /\ UNCHANGED <<extensionVars, triggerVars, perceptVars>>

(* The program ends at any moment and starts again.                        *)
Restart ==
  /\ Ready /\ restarts < MaxRestart
  /\ restarts' = restarts + 1
  /\ Load
  /\ sem' = [e \in DOMAIN sem |-> Nobody]
  /\ depth' = [t \in Thread |-> 0] /\ frame' = [t \in Thread |-> [d \in Level |-> NoFrame]]
  /\ outcome' = [t \in Thread |-> ""] /\ raised' = {}
  /\ exts' = <<>> /\ visit' = [e \in Extension |-> "unvisited"] /\ path' = <<>> /\ order' = <<>>
  /\ cycled' = {} /\ loading' = "dirs"
  /\ active' = {} /\ subs' = <<>> /\ tick' = [b \in Timed |-> FALSE]
  /\ lastFired' = [b \in Timed |-> Never] /\ begun' = Never
  /\ firedIn' = [b \in Timed |-> [m \in Minute |-> 0]] /\ busyAt' = [b \in Timed |-> {}]
  /\ stage' = [t \in DOMAIN stage |-> IF stage[t] = "new" THEN "new" ELSE "done"]
  /\ trig' = [p \in Percept |-> <<>>]
  /\ UNCHANGED <<disk, stamp, countVars, now>>
  /\ UNCHANGED <<cands, results, handled, fate, owed, canWork>>

Engines(t) == Running(t) /\ UNCHANGED <<extensionVars, triggerVars, perceptVars>>
TimesOut(p) == stage[p] = "reflexes" /\ ContextDone(p) /\ UNCHANGED <<extensionVars, triggerVars, perceptVars>>

Process(p) ==
  \/ Receive(p) \/ MatchPercept(p) \/ TryReflex(p) \/ ReflexReturned(p) \/ NoReflex(p)
  \/ FirePercept(p) \/ Route(p)

Next ==
  \/ LoadAll /\ UNCHANGED <<workflowVars, triggerVars, perceptVars>>
  \/ RegisterAll /\ UNCHANGED perceptVars
  \/ HalfMinute /\ UNCHANGED perceptVars
  \/ \E b \in Timed : Tick(b) /\ UNCHANGED perceptVars
  \/ \E p \in Percept : Process(p) \/ TimesOut(p)
  \/ \E t \in Invocation : InvokeWorkflow(t)
  \/ \E t \in Thread : Engines(t)
  \/ FilesChange
  \/ Restart

(* Every goroutine goes on, and a wait with a timeout ends. *)
Spec ==
  /\ Init /\ [][Next]_vars
  /\ \A t \in Thread : WF_vars(Engines(t))
  /\ \A p \in Percept : WF_vars(stage[p] # "new" /\ Process(p))

-----------------------------------------------------------------------------
(* Every run ends, also one that waits for an extension that its own       *)
(* goroutine holds.                                                        *)
WorkflowsEnd ==
  /\ \A t \in Thread \ Percept : depth[t] > 0 ~> depth[t] = 0
  /\ \A p \in Percept : stage[p] # "new" ~> stage[p] = "done"

(* When a step of a reflex escalates, and no step around it is being       *)
(* retried, the executive gets the percept, however deep the reflex was    *)
(* invoked and whatever ran before.                                        *)
EscalationReachesExecutive ==
  \A p \in Percept : p \in owed => ~handled[p] /\ fate[p] \in {"none", "queued", "kept"}
=============================================================================
