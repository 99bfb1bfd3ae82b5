------------------------------- MODULE Triggers -------------------------------
(***************************************************************************)
(* The Dispatcher of the extensions' behaviours                            *)
(* (internal/extensions/triggers.go, events.go), as the program uses it:   *)
(* everything is registered once, after the extensions are loaded; a       *)
(* schedule and a condition have a goroutine each; a pattern_match is      *)
(* asked about every percept, in Percepts; slash commands and events are   *)
(* subscribed to topics nobody publishes, so they run nothing.             *)
(***************************************************************************)
EXTENDS Workflows

CONSTANTS
  Behaviour,    \* the behaviours of all extensions
  Kind,         \* "schedule", "condition", "pattern_match", "slash_command", "event", "manual"
  Behaviours,   \* those of each extension, in the order of its manifest
  Runs,         \* the workflow of each
  Cron,         \* of a schedule: [minute, hour, dom, month, dow], each a set of parts
  Disabled,     \* extensions that are switched off
  Calendar,     \* Calendar[m]: the fields of the m-th minute, and whether conditions hold
  MaxHalf       \* bound: half minutes the program runs

Timed == {b \in Behaviour : Kind[b] \in {"schedule", "condition"}}
Minute == DOMAIN Calendar

ASSUME TriggerConstants ==
  /\ Timed \subseteq Thread /\ MaxHalf \in Nat \ {0}
  /\ 0..(MaxHalf \div 2) \subseteq Minute /\ Minute \subseteq Nat

VARIABLES
  active,     \* behaviours registered and running
  subs,       \* the subscribers to the percepts' topic, in order
  now,        \* half minutes since some full minute
  begun,      \* now when the behaviours were registered, Never before
  tick,       \* ticker.C of each timed behaviour: something is in it
  lastFired,  \* the minute each schedule last fired in, or Never
  firedIn,    \* how often each timed behaviour fired in each minute
  busyAt      \* half minutes at which it was running its workflow

triggerVars == <<active, subs, now, begun, tick, lastFired, firedIn, busyAt>>
Never == MaxHalf + 1

TriggerInit ==
  /\ active = {} /\ subs = <<>> /\ now \in {0, 1} /\ begun = Never
  /\ tick = [b \in Timed |-> FALSE] /\ lastFired = [b \in Timed |-> Never]
  /\ firedIn = [b \in Timed |-> [m \in Minute |-> 0]] /\ busyAt = [b \in Timed |-> {}]

(* One part of a field: "*", every n-th, a range, whose ends are not       *)
(* compared with the field's limits, or a value, which is.                 *)
Limits == [minute |-> 0..59, hour |-> 0..23, dom |-> 1..31, month |-> 1..12, dow |-> 0..6]

ParsesPart(part, limits) ==
  CASE part.kind = "step" -> part.n > 0 [] part.kind = "value" -> part.n \in limits [] OTHER -> TRUE
ParseCron(c) == \A field \in DOMAIN Limits : \A part \in c[field] : ParsesPart(part, Limits[field])

PartMatches(part, v) ==
  CASE part.kind = "any" -> TRUE
    [] part.kind = "step" -> v % part.n = 0
    [] part.kind = "range" -> v \in part.lo..part.hi
    [] part.kind = "value" -> v = part.n
CronMatches(c, time) ==
  \A field \in DOMAIN Limits : \E part \in c[field] : PartMatches(part, time[field])

Registers(b) == Kind[b] = "schedule" => ParseCron(Cron[b])

(* RegisterAll: the enabled extensions, in the order they were loaded.     *)
RegisterAll ==
  /\ loading = "loaded" /\ begun = Never
  /\ LET listed == FlattenSeq([i \in DOMAIN order |->
                     IF order[i] \in Disabled \/ order[i] \notin DOMAIN Behaviours THEN <<>>
                     ELSE SelectSeq(Behaviours[order[i]], Registers)]) IN
       /\ active' = ToSet(listed)
       /\ subs' = SelectSeq(listed, LAMBDA b : Kind[b] = "pattern_match")
  /\ begun' = now
  /\ UNCHANGED <<now, tick, lastFired, firedIn, busyAt, extensionVars, workflowVars>>

(* RunWorkflow: the capability has to be loaded; a reflex of the same name *)
(* goes before its file.                                                   *)
Known(n) == n \in DOMAIN CapFile /\ CapOwner[n] \in DOMAIN exts

RunWorkflow(t, n, vars) ==
  IF Known(n) /\ registry[n] # 0 THEN Registered(t, n, vars)
  ELSE IF Known(n) /\ Loads(CapFile[n]) THEN FromFile(t, CapFile[n], vars)
  ELSE UNCHANGED <<depth, frame, muddled>>     \* logged

-----------------------------------------------------------------------------
(* Time.  A goroutine that waits for its ticker takes a tick well within   *)
(* the half minute before the next.                                        *)
Waits(b) == b \in active /\ depth[b] = 0

HalfMinute ==
  /\ now < MaxHalf /\ active \cap Timed # {}
  /\ \A b \in Timed : Waits(b) => ~tick[b]
  /\ now' = now + 1
  /\ tick' = [b \in Timed |-> b \in active]
  /\ busyAt' = [b \in Timed |-> IF depth[b] > 0 THEN busyAt[b] \cup {now + 1} ELSE busyAt[b]]
  /\ UNCHANGED <<active, subs, begun, lastFired, firedIn, extensionVars, workflowVars>>

This == now \div 2
EveryTick(b) == CronMatches(Cron[b], Calendar[This])     \* variant: no lastFired
ScheduleDue(b) == CronMatches(Cron[b], Calendar[This]) /\ lastFired[b] # This

Due(b) == IF Kind[b] = "schedule" THEN ScheduleDue(b) ELSE Calendar[This].holds

Tick(b) ==
  /\ Waits(b) /\ tick[b]
  /\ tick' = [tick EXCEPT ![b] = FALSE]
  /\ IF Due(b)
     THEN /\ lastFired' = [lastFired EXCEPT ![b] = This]
          /\ firedIn' = [firedIn EXCEPT ![b][This] = @ + 1]
          /\ RunWorkflow(b, Runs[b], {})
     ELSE UNCHANGED <<lastFired, firedIn, depth, frame, muddled>>
  /\ UNCHANGED <<active, subs, now, begun, busyAt, extensionVars>>
  /\ UNCHANGED <<fileVars, memoryVars, sem, outcome, raised, stats, fired>>

-----------------------------------------------------------------------------
(* A schedule fires at most once in a minute, and in every minute of its,  *)
(* unless its last run was going on at both of that minute's ticks.        *)
ScheduleKept ==
  \A b \in active \cap Timed : Kind[b] = "schedule" => \A m \in Minute :
    /\ firedIn[b][m] <= 1
    /\ CronMatches(Cron[b], Calendar[m]) /\ begun < 2 * m + 1 /\ now >= 2 * m + 2 =>
         firedIn[b][m] = 1 \/ {2 * m, 2 * m + 1} \subseteq busyAt[b]
=============================================================================
