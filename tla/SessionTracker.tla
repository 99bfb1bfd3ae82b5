--------------------------- MODULE SessionTracker ---------------------------
(***************************************************************************)
(* The session tracker of the daily budget (internal/budget/sessions.go),  *)
(* fed by the turns of module Executive.  Each turn rotates the tracking   *)
(* ID of the one SimpleSession; StartSession, CompleteSession and          *)
(* SetSessionUsage are called with whatever ID the session has then.       *)
(*                                                                         *)
(* IDs are numbered in the order they are drawn, so sessionID + 1 is a     *)
(* fresh one.  A token count is represented by the turn that used it (its  *)
(* ID), so that a count recorded twice or for another turn shows.  The     *)
(* calls CompleteSession and SetSessionUsage of a turn's bookkeeping are   *)
(* taken together.                                                         *)
(*                                                                         *)
(* sessions.json is written in place and every error is ignored: a save    *)
(* may leave the file as it was, or cut short, which a start cannot read.  *)
(* A crash in the middle of a save is one that fails, and then a restart.  *)
(***************************************************************************)
EXTENDS Executive, Sequences, Integers

CONSTANT MaxDay   \* bound: days the clock goes through

VARIABLES
  sessionID,          \* s.sessionID
  usageOf,            \* s.lastUsage: the turn it belongs to, 0 for nil
  mine,               \* history: the ID each running turn drew
  active,             \* t.active: IDs
  completed,          \* t.completed: [id, used (0: none yet), day it ended]
  today,              \* t.today
  file,               \* sessions.json
  unsaved,            \* history: the file is not what memory holds
  spoiled,            \* history: so it was when bud started again today
  ended,              \* history: IDs completed today, the day noticed
  day                 \* the clock

recordVars == <<active, completed, today, file, unsaved, spoiled, ended>>
trackerVars == <<sessionID, usageOf, mine, recordVars, day>>

Record(d, a, c) == [date |-> d, active |-> a, completed |-> c]

(* No file, or contents that cannot be read or parsed: of no day.          *)
Unreadable == Record(-1, {}, <<>>)

TrackerInit ==
  /\ Init
  /\ sessionID = 0 /\ usageOf = 0 /\ mine = Each(0)
  /\ active = {} /\ completed = <<>>
  /\ today = 0 /\ day = 0
  /\ file = Unreadable
  /\ unsaved = FALSE /\ spoiled = FALSE /\ ended = {}

(* os.WriteFile: the whole record, or what was there (left), or part of it. *)
SaveOver(left) ==
  \/ file' = Record(today', active', completed') /\ unsaved' = FALSE
  \/ file' \in left \cup {Unreadable} /\ unsaved' = TRUE
Save == SaveOver({file})
NotSaved == UNCHANGED <<file, unsaved>>

(* checkDayRollover *)
Rollover == IF day # today THEN completed' = <<>> /\ today' = day
                           ELSE UNCHANGED <<completed, today>>

StartSession(id) ==
  /\ Rollover
  /\ active' = active \cup {id}
  /\ Save

OnlyDeleted(id) == [active |-> active \ {id}, completed |-> completed]   \* variant

(* An ID that is not active is ignored; the day is not checked here. *)
AfterCompletion(id) ==
  IF id \in active
  THEN [active |-> active \ {id},
        completed |-> Append(completed, [id |-> id, used |-> 0, day |-> day])]
  ELSE [active |-> active, completed |-> completed]

Ends(id) == ended' = IF id \in active /\ today = day THEN ended \cup {id} ELSE ended

CompleteSession(id) ==
  /\ active' = AfterCompletion(id).active
  /\ completed' = AfterCompletion(id).completed /\ UNCHANGED today
  /\ IF id \in active THEN Save ELSE NotSaved
  /\ Ends(id)

(* SetSessionUsage: the most recent completed session of that ID. *)
WithUsage(c, id, u) ==
  [k \in DOMAIN c |->
     IF c[k].id = id /\ \A j \in k + 1 .. Len(c) : c[j].id # id
     THEN [c[k] EXCEPT !.used = u] ELSE c[k]]

(* Its save follows that of CompleteSession, if that made one.             *)
CompletionSaved(id) ==
  IF id \in active
  THEN {Record(today, AfterCompletion(id).active, AfterCompletion(id).completed)} ELSE {}

SaveUsage(id) ==
  IF \E k \in DOMAIN completed' : completed'[k].id = id
  THEN SaveOver({file} \cup CompletionSaved(id)) ELSE NotSaved

-----------------------------------------------------------------------------
(* Turns: Prepare draws an ID, Build registers the one the session has.    *)

RotateID(t) ==
  /\ Prepare(t)
  /\ sessionID' = sessionID + 1
  /\ mine' = [mine EXCEPT ![t] = sessionID']
  /\ UNCHANGED <<usageOf, recordVars, day>>

Start(t) ==
  /\ Build(t)
  /\ StartSession(sessionID)
  /\ UNCHANGED <<sessionID, usageOf, mine, spoiled, ended, day>>

(* The stream shows the session's signal_done: toolComplete. *)
ToolComplete(t) ==
  /\ Running(t)
  /\ CompleteSession(sessionID)
  /\ UNCHANGED <<execVars, sessionID, usageOf, mine, spoiled, day>>

(* With or without a ResultMessage, which carries the usage. *)
ReturnWithUsage(t) ==
  /\ SendReturns(t)
  /\ usageOf' \in IF pc'[t] \in {"validate", "rebuild"}
                  THEN {usageOf, mine[t]} ELSE {usageOf}
  /\ UNCHANGED <<sessionID, mine, recordVars, day>>

(* A turn that ended normally. *)
Bookkeep(t) ==
  /\ Validate(t)
  /\ active' = AfterCompletion(sessionID).active
  /\ Ends(sessionID)
  /\ UNCHANGED <<sessionID, usageOf, mine, today, spoiled, day>>
  /\ IF usageOf # 0
     THEN /\ completed' = WithUsage(AfterCompletion(sessionID).completed, sessionID, usageOf)
          /\ SaveUsage(sessionID)
     ELSE /\ completed' = AfterCompletion(sessionID).completed
          /\ IF sessionID \in active THEN Save ELSE NotSaved

(* Reset draws an ID too, and forgets the usage. *)
ResetID ==
  /\ ResetSession
  /\ sessionID' = sessionID + 1
  /\ usageOf' = 0
  /\ UNCHANGED <<mine, recordVars, day>>

(* TodayTokenUsage and TodayThinkingMinutes, for the budget.  Of the new   *)
(* day there is nothing to save.                                           *)
Query ==
  /\ day # today
  /\ Rollover /\ unsaved' = FALSE
  /\ UNCHANGED <<execVars, sessionID, usageOf, mine, active, file, spoiled, ended, day>>

Midnight ==
  /\ day < MaxDay
  /\ day' = day + 1
  /\ spoiled' = FALSE /\ ended' = {}
  /\ UNCHANGED <<execVars, sessionID, usageOf, mine, active, completed, today, file, unsaved>>

LoadAnyDay == TRUE                               \* variant: date not compared
SameDay == file.date = day

(* NewSessionTracker and load, in a new process.  A file that cannot be    *)
(* read or parsed counts as none; reading may fail though it is sound.     *)
Loaded(read) == IF read /\ SameDay THEN file ELSE Unreadable

RestartTracker ==
  /\ LoopRestart
  /\ sessionID' = sessionID + 1 /\ usageOf' = 0 /\ mine' = Each(0)
  /\ \E read \in BOOLEAN :
       /\ active' = Loaded(read).active /\ completed' = Loaded(read).completed
       /\ unsaved' = (SameDay /\ ~read)
       /\ spoiled' = (spoiled \/ (unsaved /\ today = day) \/ (SameDay /\ ~read))
  /\ today' = day
  /\ UNCHANGED <<file, ended, day>>

TurnOfTracker(t) ==
  RotateID(t) \/ Start(t) \/ ToolComplete(t) \/ ReturnWithUsage(t) \/ Bookkeep(t)

NotTracked ==
  /\ \/ P1Step \/ BgStep
     \/ \E t \in Thread : \/ Register(t) \/ SendPrompt(t) \/ Interrupted(t)
                          \/ Rebuild(t) \/ Leave(t) \/ SignalDone(t) \/ MemoryReset(t)
     \/ \E i \in Item : AddPending(i)
     \/ InterruptCurrentSession \/ WakeTimeout \/ ResetSignalsDone
  /\ UNCHANGED trackerVars

TrackerNext ==
  \/ \E t \in Thread : TurnOfTracker(t)
  \/ ResetID \/ Query \/ Midnight \/ RestartTracker
  \/ NotTracked

TrackerSpec == TrackerInit /\ [][TrackerNext]_<<execVars, trackerVars>>

-----------------------------------------------------------------------------
CompletedEntry == [id : 0..sessionID, used : 0..sessionID, day : 0..day]

(* Type invariant of sessions.go: IDs were drawn, usage was reported by a  *)
(* turn, and no date lies ahead of the clock, in memory or on disk.        *)
TrackerTypeOK ==
  /\ sessionID \in Nat /\ usageOf \in 0..sessionID /\ mine \in [Thread -> 0..sessionID]
  /\ active \subseteq 0..sessionID /\ completed \in Seq(CompletedEntry)
  /\ day \in Nat /\ today \in 0..day
  /\ file.date \in {-1} \cup 0..day /\ file.active \subseteq 0..sessionID
  /\ file.completed \in Seq(CompletedEntry)
  /\ unsaved \in BOOLEAN /\ spoiled \in BOOLEAN /\ ended \subseteq 0..sessionID

(* Unless its last save failed, or its file could not be read when bud     *)
(* started, what the tracker knows of the day is on disk, at every step: a *)
(* restart that can read it counts the same sessions and the same usage.   *)
RecordSurvivesRestart ==
  ~unsaved => IF file.date = today
              THEN file.completed = completed /\ file.active = active
              ELSE completed = <<>>

(* The budget is never charged with another day: once the day was checked, *)
(* every session counted ended on it, also when an old file was reloaded.  *)
CountsOnlyToday ==
  today = day => \A k \in DOMAIN completed : completed[k].day = day

(* Every session completed on this day is counted, however often bud was   *)
(* restarted since, with two exceptions.  A restart today that found the   *)
(* file behind memory, or could not read it, loses sessions (spoiled).  A  *)
(* session completed after midnight, before a start or a query noticed the *)
(* new day, is wiped by it: CompleteSession does not check the day, and    *)
(* such a session is not in ended.                                         *)
EndedAreCounted ==
  ~spoiled => \A id \in ended : \E k \in DOMAIN completed : completed[k].id = id

(* What the day is charged with: all that ended on it and nothing else,    *)
(* over restarts, within the exceptions that the three parts name.         *)
RecordsKept == RecordSurvivesRestart /\ CountsOnlyToday /\ EndedAreCounted

(* simple_session.go:983: the ID is rotated so that the caller records the *)
(* correct one.  A turn that ends normally has its own session completed,  *)
(* unless another turn or a reset drew an ID meanwhile, or midnight passed *)
(* (the clock starts on day 0).                                            *)
RecordedUnlessOverlapped ==
  [][\A t \in Thread :
       pc[t] = "validate" /\ pc'[t] = "leave" /\ sessionID = mine[t] /\ day = 0
         => \E k \in DOMAIN completed' : completed'[k].id = mine[t]]_<<execVars, trackerVars>>
=============================================================================
