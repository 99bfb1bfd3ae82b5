---------------------------- MODULE CalendarSense ----------------------------
(***************************************************************************)
(* The calendar sense (internal/senses/calendar.go) over the calendar      *)
(* client: one goroutine polls, announces the day's agenda in the morning, *)
(* reminds of meetings that are about to start, and announces clusters of  *)
(* sprint meetings, and keeps what it has announced in memory and on disk. *)
(* A poll takes no time: the clock moves between polls only.               *)
(***************************************************************************)
EXTENDS Integers, Sequences, FiniteSets

CONSTANTS
  Event, Calendar,   \* identifiers of events; the calendars, as a sequence
  Versions,          \* Versions[e]: what the event can be edited into
  Keyword,           \* "sprint review" and "sprint planning"
  Mentions,          \* Mentions[k]: the titles with keyword k in them
  Day, Morning,      \* length of a day, and the hours of it for the agenda
  Poll, Ahead, BriefAhead, Horizon,   \* pollInterval, reminderBefore, sprintBriefBefore, 8 h
  MaxMeetings, MaxBriefs,             \* 10 and 30
  Wakes, MaxNow,     \* the hour the clock starts at; bound: the last hour
  MaxFaults,         \* bound: crashes, failed saves and calendars that do not answer
  MaxChanges         \* bound: edits of the calendar

ASSUME CalendarConstants ==
  /\ Day \in Nat \ {0} /\ Morning \subseteq 1..(Day - 1) /\ Wakes \in Nat
  /\ Poll \in 1..Ahead /\ {Ahead, BriefAhead, Horizon, MaxMeetings, MaxBriefs} \subseteq Nat
  /\ IsFiniteSet(Event) /\ "meeting" \notin Keyword /\ "agenda" \notin Keyword
  /\ \A e \in Event : \A v \in Versions[e] :
       /\ v.id = e /\ {v.start, v.end} \subseteq Int /\ v.start < v.end
       /\ \E i \in 1..Len(Calendar) : Calendar[i] = v.calendar

VARIABLES
  now,
  cal,         \* each event as the service has it
  notified,    \* notifiedEvents and notifiedBriefs: pairs of a key and when
  agendaAt,    \* lastDailyAgenda, 0 before the first
  disk,        \* the state file
  at,          \* how far the poll has got, "down" when the program does not run
  todo,        \* events of the poll's last answer that are still to be looked at
  notice,      \* what is about to be sent
  nextPoll,
  sent,        \* what has been sent, and when
  faults, changes,
  upset,       \* when something last went wrong or the calendar changed
  lost,        \* keys on disk of what a crash kept from being sent
  unsaved      \* what has gone wrong with saving

calVars == <<now, cal, notified, agendaAt, disk, at, todo, notice, nextPoll, sent,
             faults, changes, upset, lost, unsaved>>
pollVars == <<at, todo, notice, nextPoll>>
stateVars == <<notified, agendaAt, disk>>
envVars == <<now, cal, changes>>

Today == now \div Day
Midnight == Today * Day
Empty == [notified |-> {}, agendaAt |-> 0]
Torn == [Empty EXCEPT !.agendaAt = -1]

CalendarInit ==
  /\ now = Wakes
  /\ cal \in [Event -> UNION {Versions[e] : e \in Event}] /\ \A e \in Event : cal[e] \in Versions[e]
  /\ notified = {} /\ agendaAt = 0 /\ disk = Empty
  /\ at = "idle" /\ todo = {} /\ notice = <<>> /\ nextPoll = Wakes /\ sent = <<>>
  /\ faults = 0 /\ changes = 0 /\ upset = Wakes /\ lost = {} /\ unsaved = {}

-----------------------------------------------------------------------------
(* ListEvents.  A calendar that fails is passed over without an error; of  *)
(* events with one title and start the first calendar's is kept; the rest, *)
(* by start, is cut at max (as the service cuts each answer).              *)
Rank(v) == CHOOSE i \in 1..Len(Calendar) : Calendar[i] = v.calendar
Alike(v, w) == v.title = w.title /\ v.start = w.start
InRange(v, from, to) == v.end > from /\ v.start < to

Listing(answering, from, to, max) ==
  LET found == {v \in {cal[e] : e \in Event} : v.calendar \in answering /\ InRange(v, from, to)}
      Deduplicated(R) == /\ \A v, w \in R : Alike(v, w) => v = w
                         /\ \A v \in found : \E w \in R : Alike(v, w) /\ Rank(w) <= Rank(v)
      Cut(T, R) == /\ Cardinality(T) <= max /\ (T = R \/ Cardinality(T) = max)
                   /\ \A v \in T, w \in R \ T : v.start <= w.start
  IN {T \in SUBSET found : \E R \in SUBSET found : T \subseteq R /\ Deduplicated(R) /\ Cut(T, R)}

(* The calendars that answer this time.                                    *)
Every == {Calendar[i] : i \in 1..Len(Calendar)}
Answering(A) ==
  /\ A = Every \/ faults < MaxFaults
  /\ faults' = IF A = Every THEN faults ELSE faults + 1
  /\ upset' = IF A = Every THEN upset ELSE now

-----------------------------------------------------------------------------
(* Save, and what it saves: the write may fail, or be cut short by a crash *)
(* and leave part of a file.                                               *)
GoOn(step) == at' = step
KeepState(n, a) ==
  /\ notified' = n /\ agendaAt' = a
  /\ disk' = [notified |-> n, agendaAt |-> a] /\ UNCHANGED <<faults, upset, unsaved>>

SaveFails(n, a) ==
  /\ faults < MaxFaults /\ faults' = faults + 1 /\ unsaved' = unsaved \cup {"failed"}
  /\ notified' = n /\ agendaAt' = a /\ UNCHANGED <<disk, upset>>

SaveTorn ==
  /\ faults < MaxFaults /\ faults' = faults + 1 /\ unsaved' = unsaved \cup {"torn"}
  /\ disk' = Torn /\ upset' = now /\ UNCHANGED <<notified, agendaAt>>

NeverSaved(n, a, step) ==     \* variant: kept in memory only
  /\ GoOn(step) /\ notified' = n /\ agendaAt' = a /\ UNCHANGED <<disk, faults, upset, unsaved>>
Save(n, a, step) ==
  \/ GoOn(step) /\ (KeepState(n, a) \/ SaveFails(n, a))
  \/ GoOn("down") /\ SaveTorn

Send(n) == sent' = Append(sent, [what |-> n, at |-> now])

-----------------------------------------------------------------------------
PollStarts ==
  /\ at = "idle" /\ nextPoll = now
  /\ at' = "agenda" /\ nextPoll' = now + Poll
  /\ UNCHANGED <<envVars, stateVars, todo, notice, sent, faults, upset, lost, unsaved>>

(* The day's agenda: not outside the morning nor twice a day.  With no     *)
(* events listed the day is done without one; otherwise it is sent first   *)
(* and the day marked as done afterwards.                                  *)
AgendaDue == (now % Day) \in Morning /\ ~(agendaAt > Midnight)
Listed(v) == ~v.cancelled /\ v.title # "" /\ (v.allDay => v.start \div Day = Today)

NoAgendaNow ==
  /\ at = "agenda" /\ ~AgendaDue /\ at' = "meetings"
  /\ UNCHANGED <<envVars, stateVars, todo, notice, nextPoll, sent, faults, upset, lost, unsaved>>

FetchAgenda ==
  /\ at = "agenda" /\ AgendaDue
  /\ \E A \in SUBSET Every : Answering(A) /\ \E T \in Listing(A, Midnight, Midnight + Day, 100) :
       /\ todo' = {v \in T : Listed(v)}
       /\ at' = IF todo' = {} THEN "mark agenda" ELSE "send agenda"
  /\ UNCHANGED <<envVars, stateVars, notice, nextPoll, sent, lost, unsaved>>

SendAgenda ==
  /\ at = "send agenda" /\ at' = "mark agenda"
  /\ Send(<<"agenda", "", Today>>)
  /\ UNCHANGED <<envVars, stateVars, todo, notice, nextPoll, faults, upset, lost, unsaved>>

MarkAgenda ==
  /\ at = "mark agenda"
  /\ Save(notified, now, "meetings") /\ todo' = {}
  /\ UNCHANGED <<envVars, notice, nextPoll, sent, lost>>

-----------------------------------------------------------------------------
(* Reminders: the key is the event and the day it starts on.               *)
UndatedKey(kind, who, day) == <<kind, who, 0>>     \* variant
Key(kind, who, day) == <<kind, who, day>>
Known(key) == \E x \in notified : x[1] = key
MeetingKey(v) == Key("meeting", v.id, v.start \div Day)

FetchMeetings ==
  /\ at = "meetings" /\ at' = "meeting"
  /\ \E A \in SUBSET Every : Answering(A) /\ todo' \in Listing(A, now, now + Ahead + Poll, MaxMeetings)
  /\ UNCHANGED <<envVars, stateVars, notice, nextPoll, sent, lost, unsaved>>

Soon(v, ahead) == v.start - now \in 0..ahead
Wanted(v) == ~v.cancelled /\ ~v.allDay /\ v.going \notin {"needsAction", "declined"}
Due(v) == Wanted(v) /\ Soon(v, Ahead) /\ ~Known(MeetingKey(v))
Earliest(v) == v \in todo /\ \A w \in todo : v.start <= w.start

SkipMeeting ==
  /\ at = "meeting" /\ \E v \in todo : Earliest(v) /\ ~Due(v) /\ todo' = todo \ {v}
  /\ UNCHANGED <<envVars, stateVars, at, notice, nextPoll, sent, faults, upset, lost, unsaved>>

MarkMeeting ==
  /\ at = "meeting"
  /\ \E v \in todo : /\ Earliest(v) /\ Due(v) /\ todo' = todo \ {v}
                     /\ notice' = <<"meeting", v.id, v.start>>
                     /\ Save(notified \cup {<<MeetingKey(v), now>>}, agendaAt, "remind")
  /\ UNCHANGED <<envVars, nextPoll, sent, lost>>

SendMeetingReminder ==
  /\ at = "remind" /\ at' = "meeting" /\ Send(notice) /\ notice' = <<>>
  /\ UNCHANGED <<envVars, stateVars, todo, nextPoll, faults, upset, lost, unsaved>>

-----------------------------------------------------------------------------
(* Two sprint meetings of one kind on a day are announced before the first.*)
FetchBriefs ==
  /\ at = "meeting" /\ todo = {} /\ at' = "brief"
  /\ \E A \in SUBSET Every : Answering(A) /\ todo' \in Listing(A, now, now + Horizon, MaxBriefs)
  /\ UNCHANGED <<envVars, stateVars, notice, nextPoll, sent, lost, unsaved>>

Cluster(k, d) == {v \in todo : ~v.cancelled /\ ~v.allDay /\ v.title \in Mentions[k] /\ v.start \div Day = d}
BriefDue(k, d) ==
  /\ Cardinality(Cluster(k, d)) >= 2 /\ ~Known(Key(k, "", d))
  /\ \E v \in Cluster(k, d) : Soon(v, BriefAhead) /\ \A w \in Cluster(k, d) : v.start <= w.start
ClusterDays == {v.start \div Day : v \in todo}

MarkBrief ==
  /\ at = "brief"
  /\ \E k \in Keyword, d \in ClusterDays : /\ BriefDue(k, d) /\ notice' = <<k, "", d>>
                                          /\ Save(notified \cup {<<Key(k, "", d), now>>}, agendaAt, "send brief")
  /\ UNCHANGED <<envVars, todo, nextPoll, sent, lost>>

SendBrief ==
  /\ at = "send brief" /\ at' = "brief" /\ Send(notice) /\ notice' = <<>>
  /\ UNCHANGED <<envVars, stateVars, todo, nextPoll, faults, upset, lost, unsaved>>

(* Records older than a day go, and the file is written if any did.        *)
CleanupNotifications ==
  /\ at = "brief" /\ \A k \in Keyword, d \in ClusterDays : ~BriefDue(k, d)
  /\ LET old == {x \in notified : x[2] < now - Day} IN
       IF old = {} THEN GoOn("idle") /\ UNCHANGED <<stateVars, faults, upset, unsaved>>
                   ELSE Save(notified \ old, agendaAt, "idle")
  /\ todo' = {}
  /\ UNCHANGED <<envVars, notice, nextPoll, sent, lost>>

PollSteps ==
  \/ PollStarts \/ NoAgendaNow \/ FetchAgenda \/ SendAgenda \/ MarkAgenda
  \/ FetchMeetings \/ SkipMeeting \/ MarkMeeting \/ SendMeetingReminder
  \/ FetchBriefs \/ MarkBrief \/ SendBrief \/ CleanupNotifications

-----------------------------------------------------------------------------
(* The program stops with what the poll had got to, also between writing   *)
(* the file and sending; Load gives up on a file it cannot parse.          *)
StopCalendar ==
  /\ at # "down" /\ at' = "down" /\ faults < MaxFaults /\ faults' = faults + 1
  /\ upset' = now
  /\ lost' = CASE at = "remind" -> lost \cup {<<"meeting", notice[2], notice[3] \div Day>>}
               [] at = "send brief" -> lost \cup {notice}
               [] OTHER -> lost
  /\ unsaved' = IF at = "mark agenda" /\ todo # {} THEN unsaved \cup {"agenda"} ELSE unsaved
  /\ UNCHANGED <<envVars, stateVars, todo, notice, nextPoll, sent>>

Loaded == IF disk = Torn THEN Empty ELSE disk
Load ==
  /\ at = "down" /\ at' = "idle" /\ nextPoll' = now /\ upset' = now
  /\ todo' = {} /\ notice' = <<>>
  /\ notified' = Loaded.notified /\ agendaAt' = Loaded.agendaAt
  /\ UNCHANGED <<envVars, disk, sent, faults, lost, unsaved>>

(* What people do with their calendars, and time.                          *)
Edit(e) ==
  /\ changes < MaxChanges /\ changes' = changes + 1
  /\ \E v \in Versions[e] : v # cal[e] /\ cal' = [cal EXCEPT ![e] = v]
  /\ upset' = now
  /\ UNCHANGED <<now, stateVars, pollVars, sent, faults, lost, unsaved>>

Tick ==
  /\ at \in {"idle", "down"} /\ (at = "idle" => nextPoll > now) /\ now < MaxNow
  /\ now' = now + 1
  /\ UNCHANGED <<cal, changes, stateVars, pollVars, sent, faults, upset, lost, unsaved>>

-----------------------------------------------------------------------------
(* Nothing is announced twice within a day, across restarts too, unless a  *)
(* save has failed or been cut short, or the program stopped between       *)
(* sending an agenda and noting it (which the agenda alone can then        *)
(* repeat).                                                                *)
NotifiedOnce ==
  \A i, j \in 1..Len(sent) :
    i < j /\ sent[i].what = sent[j].what /\ sent[j].at <= sent[i].at + Day =>
      unsaved \cap {"failed", "torn"} # {} \/ (unsaved # {} /\ sent[i].what[1] = "agenda")

(* A meeting the user has not turned down has been announced by the time   *)
(* it starts, if from Ahead before its start the program ran, the          *)
(* calendars answered and were left alone: unless a crash had kept that    *)
(* day's reminder from being sent, the list was full of earlier events,    *)
(* or another event of that title starts at the same time.                 *)
Crowded(v) == Cardinality({e \in Event : cal[e].start <= v.start /\ cal[e].end > v.start - Ahead}) > MaxMeetings
Shadowed(v) == \E e \in Event \ {v.id} : Alike(cal[e], v)
Reminded(e, d) == \E i \in 1..Len(sent) : sent[i].what[1] = "meeting" /\ sent[i].what[2] = e /\ sent[i].what[3] \div Day = d

NoReminderMissed ==
  \A e \in Event : LET v == cal[e] IN
    at # "down" /\ Wanted(v) /\ now > v.start /\ upset <= v.start - Ahead =>
      \/ Reminded(e, v.start \div Day) \/ Crowded(v) \/ Shadowed(v)
      \/ <<"meeting", e, v.start \div Day>> \in lost
=============================================================================
