------------------------------ MODULE Workflows ------------------------------
(***************************************************************************)
(* The reflex engine (internal/reflex/engine.go, actions.go): the reflexes *)
(* it has loaded from files, how it notices that the files change, and the *)
(* runs of their pipelines, which are synchronous in the goroutine that    *)
(* starts them, may invoke other reflexes, and wait for the semaphore of   *)
(* the extension they belong to.                                           *)
(*                                                                         *)
(* A reflex is in the file of its name.  The values that pass between      *)
(* steps are left out; which variables exist is kept.                      *)
(***************************************************************************)
EXTENDS Extensions

CONSTANTS
  Thread,       \* the goroutines that run workflows
  Name,         \* names of reflexes
  Def,          \* Def[f]: what a reflex file may hold, [name, ext, slash, prio, callable,
                \*   classifier, required, defaults, steps]; a step is [do, to, gives, output,
                \*   missing, onError, retries]
  Default,      \* the flow in the defaults directory, for the names that have one
  CapFile,      \* the workflow capabilities of the extensions: the flow in the file,
  CapOwner,     \*   and the extension
  MaxDepth,     \* nested invocations the engine allows, 5 in the code
  MaxObject,    \* bound: reflexes made for one name between two restarts
  MaxStamp      \* bound: writes to a file of the state directory

Flow == DOMAIN Def
NoFlow == "none"
NoExt == ""
Level == 1..(MaxDepth + 1)

ASSUME WorkflowConstants ==
  /\ MaxDepth \in Nat /\ MaxObject \in Nat /\ MaxStamp \in Nat
  /\ NoFlow \notin Flow
  /\ DOMAIN Default \subseteq Name /\ DOMAIN CapFile \subseteq Name
  /\ \A n \in DOMAIN Default : Default[n] \in Flow
  /\ \A n \in DOMAIN CapFile : CapFile[n] \in Flow /\ CapOwner[n] \in Extension
  /\ \A f \in Flow : LET steps == Def[f].steps IN
       /\ Len(steps) \in Nat
       /\ \A i \in 1..Len(steps) : steps[i].do \in {"invoke", "invoke_reflex"} => steps[i].to \in Name

VARIABLES
  disk,       \* the flow in the state directory's file of each name, or NoFlow
  stamp,      \* how often each file was written: its modification time
  objects,    \* objects[n]: the reflexes in memory that a name has had, each with its
              \*   flow and fire count
  registry,   \* e.reflexes: which of them is registered, 0 for none
  known,      \* e.fileModTime: the stamp the file had when it was loaded, 0 for not there
  stats,      \* reflex-stats.json: the fire count of each name, 0 for not there
  sem,        \* e.extSems: the frame that holds an extension, Nobody when free
  depth,      \* how many frames each goroutine has
  frame,      \* frame[t][d]: Execute's own variables
  outcome,    \* what a goroutine's outermost Execute returned, "" before
  raised,     \* goroutines in which an escalation left a step that is not being retried
  fired,      \* runs of each name that counted, for CountsKept
  muddled     \* names some run of which overlapped with a change or another, was not of the registered reflex,
              \*   or was not saved

fileVars == <<disk, stamp>>
memoryVars == <<objects, registry, known>>
runVars == <<sem, depth, frame, outcome, raised>>
countVars == <<stats, fired, muddled>>
workflowVars == <<fileVars, memoryVars, runVars, countVars>>

Nobody == <<>>
NoFrame == [flow |-> NoFlow, obj |-> 0, at |-> "", pc |-> 0, tries |-> 0, seen |-> 0, res |-> "", vars |-> {}]

-----------------------------------------------------------------------------
(* The files and the registry.                                             *)

(* Two steps with the same named output: the file is refused. *)
Loads(f) ==
  LET steps == Def[f].steps IN
    \A i, j \in DOMAIN steps :
      i # j /\ steps[i].output \notin {"", "_"} => steps[i].output # steps[j].output

(* The file the merged directory has for a name.                           *)
Merged(n) == IF disk[n] # NoFlow THEN disk[n]
             ELSE IF n \in DOMAIN Default THEN Default[n] ELSE NoFlow

Reads(n) == Merged(n) # NoFlow /\ Loads(Merged(n))

Made(f, count) == [flow |-> f, count |-> count]
First(n, counts) == IF Reads(n) THEN <<Made(Merged(n), counts[n])>> ELSE <<>>

Load ==
  /\ objects' = [n \in Name |-> First(n, stats)]
  /\ registry' = [n \in Name |-> IF Reads(n) THEN 1 ELSE 0]
  /\ known' = [n \in Name |-> IF Reads(n) /\ disk[n] # NoFlow THEN stamp[n] ELSE 0]

(* What CheckForUpdates finds: files of the state directory that are new   *)
(* or newer and can be read, and those that are gone.                      *)
Modified == {n \in Name : disk[n] # NoFlow /\ stamp[n] > known[n] /\ Loads(disk[n])}
Removed == {n \in Name : disk[n] = NoFlow /\ known[n] # 0}

Forgotten(n) == 0     \* variant
CountOf(n) == IF registry[n] = 0 THEN 0 ELSE objects[n][registry[n]].count

InFlight(n) == \E t \in Thread, d \in Level : d <= depth[t] /\ Def[frame[t][d].flow].name = n

CheckForUpdates ==
  /\ \A n \in Modified : Len(objects[n]) < MaxObject
  /\ objects' = [n \in Name |-> IF n \in Modified THEN Append(objects[n], Made(disk[n], CountOf(n)))
                                ELSE objects[n]]
  /\ registry' = [n \in Name |-> IF n \in Modified THEN Len(objects[n]) + 1
                                 ELSE IF n \in Removed THEN 0 ELSE registry[n]]
  /\ known' = [n \in Name |-> IF n \in Modified THEN stamp[n]
                              ELSE IF n \in Removed THEN 0 ELSE known[n]]
  /\ muddled' = muddled \cup {n \in Modified : InFlight(n) \/ (registry[n] = 0 /\ stats[n] # 0)}

(* create_reflex: the file and the registry, but not the time of the file, *)
(* so the next CheckForUpdates loads it again.                             *)
SaveReflex(n, f) ==
  /\ stamp[n] < MaxStamp /\ Len(objects[n]) < MaxObject
  /\ disk' = [disk EXCEPT ![n] = f]
  /\ stamp' = [stamp EXCEPT ![n] = @ + 1]
  /\ objects' = [objects EXCEPT ![n] = Append(@, Made(f, 0))]
  /\ registry' = [registry EXCEPT ![n] = Len(objects[n]) + 1]
  /\ muddled' = IF InFlight(n) \/ stats[n] # 0 THEN muddled \cup {n} ELSE muddled
  /\ UNCHANGED <<known, runVars, stats, fired>>

(* delete_reflex.  *)
Delete(n) ==
  /\ registry[n] # 0
  /\ registry' = [registry EXCEPT ![n] = 0]
  /\ disk' = [disk EXCEPT ![n] = NoFlow]
  /\ UNCHANGED <<stamp, objects, known, runVars, countVars>>

(* Somebody edits the files themselves.                                    *)
EditFile(n, f) ==
  /\ stamp[n] < MaxStamp /\ disk[n] # f
  /\ disk' = [disk EXCEPT ![n] = f]
  /\ stamp' = [stamp EXCEPT ![n] = IF f = NoFlow THEN @ ELSE @ + 1]
  /\ UNCHANGED <<memoryVars, runVars, countVars>>

-----------------------------------------------------------------------------
(* Runs.                                                                   *)
Top(t) == frame[t][depth[t]]
FlowOf(fr) == Def[fr.flow]
StepOf(fr) == FlowOf(fr).steps[fr.pc]
SetTop(t, fr) == frame' = [frame EXCEPT ![t][depth[t]] = fr]

(* Execute up to the semaphore: required parameters, then defaults.        *)
Entered(o, f, vars) ==
  LET ready == Def[f].required \subseteq vars IN
    [NoFrame EXCEPT !.flow = f, !.obj = o, !.pc = 1, !.vars = vars \cup Def[f].defaults,
       !.at = IF ~ready THEN "leave" ELSE IF Def[f].ext = NoExt THEN "step" ELSE "sem",
       !.res = IF ready THEN "" ELSE "failed"]

Push(t, o, f, vars) ==
  /\ depth' = [depth EXCEPT ![t] = @ + 1]
  /\ frame' = [frame EXCEPT ![t][depth[t] + 1] = Entered(o, f, vars)]
  /\ muddled' = IF InFlight(Def[f].name) \/ o \notin {registry[Def[f].name]} \ {0} THEN muddled \cup {Def[f].name} ELSE muddled

(* A goroutine runs a registered reflex, or one it has read from a file    *)
(* itself: object 0, which nobody else will find, and counts from 0.       *)
Registered(t, n, vars) == registry[n] # 0 /\ Push(t, registry[n], objects[n][registry[n]].flow, vars)
FromFile(t, f, vars) == Push(t, 0, f, vars)

AcquireExtSem(t) ==
  /\ depth[t] > 0 /\ Top(t).at = "sem"
  /\ sem[FlowOf(Top(t)).ext] = Nobody
  /\ sem' = [sem EXCEPT ![FlowOf(Top(t)).ext] = <<t, depth[t]>>]
  /\ SetTop(t, [Top(t) EXCEPT !.at = "step"])
  /\ UNCHANGED <<fileVars, memoryVars, depth, outcome, raised, countVars>>

NoTimeout(t) == FALSE     \* variant
(* Thirty seconds passed and somebody still holds the extension, perhaps   *)
(* an outer frame of this very goroutine.                                  *)
SemTimeout(t) ==
  /\ depth[t] > 0 /\ Top(t).at = "sem"
  /\ sem[FlowOf(Top(t)).ext] # Nobody
  /\ SetTop(t, [Top(t) EXCEPT !.at = "leave", !.res = "failed"])
  /\ UNCHANGED <<fileVars, memoryVars, sem, depth, outcome, raised, countVars>>

(* What a step's result does to its frame.  While a step is retried every  *)
(* error is a failed attempt, also those that are signals at first.        *)
Retrying(fr) == fr.tries > 0

Settled(fr, result) ==
  LET s == StepOf(fr)
      next == [fr EXCEPT !.pc = @ + 1, !.tries = 0, !.at = "step", !.vars = @ \cup {s.output}]
      again == [fr EXCEPT !.at = "wait", !.tries = @ + 1]
      failed == [fr EXCEPT !.at = "leave", !.res = "failed"]
  IN  CASE result = "ok" -> next
        [] result # "ok" /\ Retrying(fr) -> IF fr.tries < s.retries THEN again ELSE failed
        [] result = "stop" /\ ~Retrying(fr) -> [fr EXCEPT !.at = "fired", !.res = "stopped"]
        [] result = "escalate" /\ ~Retrying(fr) -> [fr EXCEPT !.at = "leave", !.res = "escalate"]
        [] result = "error" /\ ~Retrying(fr) ->
             CASE s.onError = "skip" -> next [] s.onError = "retry" -> again [] OTHER -> failed

(* An escalation that no retry anywhere in the goroutine is around of.     *)
Escalates(t, result) ==
  raised' = IF result = "escalate" /\ \A d \in Level : d <= depth[t] => frame[t][d].tries = 0
            THEN raised \cup {t} ELSE raised

Settle(t, result) ==
  /\ SetTop(t, Settled(Top(t), result))
  /\ Escalates(t, result)

AtStep(t) == depth[t] > 0 /\ Top(t).at = "step" /\ Top(t).pc <= Len(FlowOf(Top(t)).steps)

(* A step that calls the outside, a gate, and the escalate action.         *)
Results(kind) == CASE kind = "act" -> {"ok", "error"} [] kind = "gate" -> {"ok", "stop"}
                   [] kind = "escalate" -> {"escalate"} [] OTHER -> {}

RunStep(t) ==
  /\ AtStep(t)
  /\ \E result \in Results(StepOf(Top(t)).do) : Settle(t, result)
  /\ UNCHANGED <<fileVars, memoryVars, sem, depth, outcome, countVars>>

(* invoke and invoke_reflex.  Only invoke falls back on the extensions.    *)
Capability(n) == n \in DOMAIN CapFile /\ CapOwner[n] \in DOMAIN exts /\ Loads(CapFile[n])
InvokesFile(s) == s.do = "invoke" /\ Capability(s.to)

Invoke(t) ==
  /\ AtStep(t) /\ StepOf(Top(t)).do \in {"invoke", "invoke_reflex"}
  /\ depth[t] - 1 < MaxDepth
  /\ LET s == StepOf(Top(t)) IN
       \/ Registered(t, s.to, Top(t).vars \cup s.gives)
       \/ registry[s.to] = 0 /\ InvokesFile(s) /\ FromFile(t, CapFile[s.to], Top(t).vars \cup s.gives)
  /\ UNCHANGED <<fileVars, memoryVars, sem, outcome, raised, stats, fired>>

InvokesNothing(t) ==
  /\ AtStep(t) /\ StepOf(Top(t)).do \in {"invoke", "invoke_reflex"}
  /\ LET s == StepOf(Top(t)) IN
       \/ depth[t] - 1 >= MaxDepth /\ Settle(t, "error")
       \/ /\ depth[t] - 1 < MaxDepth
          /\ registry[s.to] = 0 /\ ~InvokesFile(s)
          /\ Settle(t, CASE s.missing = "escalate" -> "escalate"
                         [] s.missing = "continue" /\ s.do = "invoke_reflex" -> "ok"
                         [] OTHER -> "error")
  /\ UNCHANGED <<fileVars, memoryVars, sem, depth, outcome, countVars>>

RetryWait(t) ==
  /\ depth[t] > 0 /\ Top(t).at = "wait"
  /\ SetTop(t, [Top(t) EXCEPT !.at = "step"])
  /\ UNCHANGED <<fileVars, memoryVars, sem, depth, outcome, raised, countVars>>

(* The percept's thirty seconds end; only the wait between two attempts    *)
(* looks at them.                                                          *)
ContextDone(t) ==
  /\ depth[t] > 0 /\ Top(t).at = "wait"
  /\ SetTop(t, [Top(t) EXCEPT !.at = "leave", !.res = "failed"])
  /\ UNCHANGED <<fileVars, memoryVars, sem, depth, outcome, raised, countVars>>

PipelineEnds(t) ==
  /\ depth[t] > 0 /\ Top(t).at = "step" /\ Top(t).pc > Len(FlowOf(Top(t)).steps)
  /\ SetTop(t, [Top(t) EXCEPT !.at = "fired", !.res = "success"])
  /\ UNCHANGED <<fileVars, memoryVars, sem, depth, outcome, raised, countVars>>

(* FireCount++ without a lock.  *)
Count(fr) == IF fr.obj = 0 THEN 0 ELSE objects[FlowOf(fr).name][fr.obj].count

ReadCount(t) ==
  /\ depth[t] > 0 /\ Top(t).at = "fired"
  /\ SetTop(t, [Top(t) EXCEPT !.at = "counted", !.seen = Count(Top(t))])
  /\ UNCHANGED <<fileVars, memoryVars, sem, depth, outcome, raised, countVars>>

WriteCount(t) ==
  /\ depth[t] > 0 /\ Top(t).at = "counted"
  /\ objects' = IF Top(t).obj = 0 THEN objects
                ELSE [objects EXCEPT ![FlowOf(Top(t)).name][Top(t).obj].count = Top(t).seen + 1]
  /\ SetTop(t, [Top(t) EXCEPT !.at = "save"])
  /\ UNCHANGED <<fileVars, registry, known, sem, depth, outcome, raised, countVars>>

(* One file for all names, written in place, errors ignored: a write may   *)
(* leave it as it was, or cut short, and then nothing in it can be read.   *)
SaveReflexStats(t) ==
  /\ depth[t] > 0 /\ Top(t).at = "save"
  /\ LET n == FlowOf(Top(t)).name IN
       /\ \/ /\ stats' = [stats EXCEPT ![n] = IF Top(t).obj = 0 THEN 1 ELSE Count(Top(t))]
             /\ UNCHANGED muddled
          \/ UNCHANGED stats /\ muddled' = muddled \cup {n}
          \/ stats' = [x \in Name |-> 0] /\ muddled' = Name
       /\ fired' = [fired EXCEPT ![n] = @ + 1]
  /\ SetTop(t, [Top(t) EXCEPT !.at = "leave"])
  /\ UNCHANGED <<fileVars, memoryVars, sem, depth, outcome, raised>>

(* Execute returns: the deferred release, then what the invoking step      *)
(* makes of the result.                                                    *)
ReleasedAnyway(t) == {FlowOf(Top(t)).ext} \cap DOMAIN sem     \* variant: also after a timeout
Released(t) == {e \in DOMAIN sem : sem[e] = <<t, depth[t]>>}

InvokeFails(res) == IF res \in {"success", "stopped"} THEN "ok" ELSE "error"     \* variant
InvokeResult(res) ==
  CASE res \in {"success", "stopped"} -> "ok" [] res = "escalate" -> "escalate" [] OTHER -> "error"

Return(t) ==
  /\ depth[t] > 0 /\ Top(t).at = "leave"
  /\ sem' = [e \in DOMAIN sem |-> IF e \in Released(t) THEN Nobody ELSE sem[e]]
  /\ depth' = [depth EXCEPT ![t] = @ - 1]
  /\ IF depth[t] = 1
     THEN /\ outcome' = [outcome EXCEPT ![t] = Top(t).res]
          /\ frame' = [frame EXCEPT ![t][1] = NoFrame]
          /\ UNCHANGED raised
     ELSE /\ frame' = [frame EXCEPT ![t][depth[t]] = NoFrame,
                                    ![t][depth[t] - 1] = Settled(@, InvokeResult(Top(t).res))]
          /\ UNCHANGED <<outcome, raised>>
  /\ UNCHANGED <<fileVars, memoryVars, countVars>>

Running(t) ==
  \/ AcquireExtSem(t) \/ SemTimeout(t) \/ RunStep(t) \/ Invoke(t) \/ InvokesNothing(t) \/ RetryWait(t)
  \/ PipelineEnds(t) \/ ReadCount(t) \/ WriteCount(t) \/ SaveReflexStats(t) \/ Return(t)

WorkflowInit ==
  /\ disk = [n \in Name |-> NoFlow] /\ stamp = [n \in Name |-> 0]
  /\ stats = [n \in Name |-> 0]
  /\ objects = [n \in Name |-> First(n, stats)]
  /\ registry = [n \in Name |-> IF Reads(n) THEN 1 ELSE 0]
  /\ known = [n \in Name |-> 0]
  /\ sem = [e \in {Def[f].ext : f \in Flow} \ {NoExt} |-> Nobody]
  /\ depth = [t \in Thread |-> 0] /\ frame = [t \in Thread |-> [d \in Level |-> NoFrame]]
  /\ outcome = [t \in Thread |-> ""] /\ raised = {}
  /\ fired = [n \in Name |-> 0] /\ muddled = {}

-----------------------------------------------------------------------------
(* The workflows of an extension run one at a time.                        *)
Inside ==
  {x \in Thread \X Level : LET fr == frame[x[1]][x[2]] IN
     x[2] <= depth[x[1]] /\ FlowOf(fr).ext # NoExt /\ fr.at \notin {"sem", "leave"}}
OneRunPerExtension ==
  \A x, y \in Inside : x # y => FlowOf(frame[x[1]][x[2]]).ext # FlowOf(frame[y[1]][y[2]]).ext

(* A name whose runs never overlapped an edit of its file or one another,  *)
(* and were all saved, has as many fires on file as runs that ended well,  *)
(* whatever was reloaded and however often the program was restarted       *)
(* since, unless the file of all names was cut short by a write that       *)
(* failed.                                                                 *)
CountsKept ==
  \A n \in Name \ muddled : stats[n] = fired[n]
=============================================================================
