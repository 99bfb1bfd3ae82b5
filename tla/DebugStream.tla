------------------------------ MODULE DebugStream ------------------------------
(***************************************************************************)
(* The debug stream: the events of the executive's sessions                *)
(* (internal/executive/executive_v2.go, notifyDebug and the listeners)     *)
(* shown live in a thread of Discord that /debug-executive opens and       *)
(* leaves (cmd/bud/debug_executive.go).                                    *)
(*                                                                         *)
(* Each command runs in a goroutine of its own, as does each dispatcher.   *)
(* Commands are numbered as they get d.mu; a stream, its thread, its two   *)
(* channels and its dispatcher have the number of the command that began   *)
(* it, and 0 stands for nil.  Events are numbered as they are emitted.     *)
(***************************************************************************)
EXTENDS Naturals, SequencesExt

CONSTANTS
  Notifier,    \* the goroutines in which sessions run
  Texts,       \* the events that are pieces of text, which are batched
  HistoryMax,  \* debugHistoryMax
  BufferMax,   \* places in d.eventCh
  MaxEvents,   \* bound: events emitted
  MaxToggles   \* bound: commands

ASSUME DebugConstants ==
  /\ HistoryMax \in Nat \ {0} /\ BufferMax \in Nat \ {0}
  /\ MaxEvents \in Nat /\ MaxToggles \in Nat /\ Notifier \cap 1 .. MaxToggles = {}

Stream == 1 .. MaxToggles
Goroutine == Notifier \cup Stream

VARIABLES
  listening,     \* e.debugListeners has the debugger's callback
  debugHistory,
  emitted,
  notifying,     \* per notifier, the event it is about to call the listener with
  active, eventCh, done,   \* of the debugger; d.threadID is eventCh while active, else empty
  closed,        \* the done channels that were closed
  calling,       \* the command that waits for ThreadStart with d.mu held
  command,       \* per command "not yet", "add", "replay" or "over"
  replays,       \* per command, the history it has yet to hand over
  target,        \* per goroutine in handleEvent, the channel it has read; 0 before
  buffer,        \* per stream, what its eventCh holds
  dropped,       \* per stream, the events for which its eventCh had no room
  dispatcher,    \* per stream, where its dispatcher is and what it holds
  shown          \* per thread, the events posted (once: a post that fails is not repeated)

fanVars == <<debugHistory, emitted, notifying>>
streamVars == <<listening, active, eventCh, done, closed>>
commandVars == <<calling, command, replays>>
channelVars == <<target, buffer, dropped>>
readerVars == <<dispatcher, shown>>
debugVars == <<fanVars, streamVars, commandVars, channelVars, readerVars>>

NoDispatcher == [at |-> "none", thread |-> 0, ch |-> 0, done |-> 0, text |-> {}]

DebugInit ==
  /\ debugHistory = <<>> /\ emitted = 0 /\ notifying = [n \in Notifier |-> 0]
  /\ listening = FALSE /\ active = FALSE /\ eventCh = 0 /\ done = 0 /\ closed = {}
  /\ calling = 0 /\ command = [s \in Stream |-> "not yet"] /\ replays = [s \in Stream |-> <<>>]
  /\ target = [g \in Goroutine |-> 0]
  /\ buffer = [s \in Stream |-> <<>>] /\ dropped = [s \in Stream |-> {}]
  /\ dispatcher = [s \in Stream |-> NoDispatcher] /\ shown = [s \in Stream |-> {}]

DebuggerFree == calling = 0     \* d.mu

-----------------------------------------------------------------------------
(* The executive.  Its listener is called after debugMu is released.       *)
Latest(h) == SubSeq(h, Len(h) - HistoryMax + 1, Len(h))
Recorded(e) ==
  LET h == Append(debugHistory, e) IN IF Len(h) > HistoryMax THEN Latest(h) ELSE h

NotifyDebug(n) ==
  /\ notifying[n] = 0 /\ emitted < MaxEvents
  /\ emitted' = emitted + 1
  /\ debugHistory' = Recorded(emitted + 1)
  /\ notifying' = [notifying EXCEPT ![n] = IF listening THEN emitted + 1 ELSE 0]
  /\ UNCHANGED <<streamVars, commandVars, channelVars, readerVars>>

(* handleEvent: d.eventCh is read under the lock, and sent to after, if     *)
(* there is room.  It is not nil once there is a listener, and stays when  *)
(* the stream stops.                                                       *)
ReadChannel(g) ==
  /\ target[g] = 0 /\ DebuggerFree
  /\ target' = [target EXCEPT ![g] = eventCh]
  /\ UNCHANGED <<buffer, dropped>>

SendEvent(g, e) ==
  /\ target[g] # 0
  /\ target' = [target EXCEPT ![g] = 0]
  /\ IF Len(buffer[target[g]]) < BufferMax
     THEN buffer' = [buffer EXCEPT ![target[g]] = Append(@, e)] /\ UNCHANGED dropped
     ELSE dropped' = [dropped EXCEPT ![target[g]] = @ \cup {e}] /\ UNCHANGED buffer

CallListener(n) ==
  /\ notifying[n] # 0
  /\ \/ ReadChannel(n) /\ UNCHANGED notifying
     \/ SendEvent(n, notifying[n]) /\ notifying' = [notifying EXCEPT ![n] = 0]
  /\ UNCHANGED <<debugHistory, emitted, streamVars, commandVars, readerVars>>

-----------------------------------------------------------------------------
(* A command: Toggle.                                                      *)
Comes(s) == command[s] = "not yet" /\ (\A t \in 1 .. s - 1 : command[t] # "not yet") /\ DebuggerFree

StopLocked(s) ==
  /\ Comes(s) /\ active
  /\ listening' = FALSE /\ active' = FALSE
  /\ closed' = closed \cup ({done} \ {0}) /\ done' = 0
  /\ command' = [command EXCEPT ![s] = "over"]
  /\ UNCHANGED <<eventCh, fanVars, calling, replays, channelVars, readerVars>>

ThreadStart(s) ==
  /\ Comes(s) /\ ~active
  /\ calling' = s
  /\ command' = [command EXCEPT ![s] = "add"]
  /\ UNCHANGED <<replays, fanVars, streamVars, channelVars, readerVars>>

ThreadFails(s) ==
  /\ calling = s
  /\ calling' = 0
  /\ command' = [command EXCEPT ![s] = "over"]
  /\ UNCHANGED <<replays, fanVars, streamVars, channelVars, readerVars>>

ThreadStarted(s) ==
  /\ calling = s /\ dispatcher[s].at = "none"
  /\ active' = TRUE /\ eventCh' = s /\ done' = s
  /\ dispatcher' = [dispatcher EXCEPT ![s].at = "begin"]
  /\ calling' = 0
  /\ UNCHANGED <<listening, closed, command, replays, fanVars, channelVars, shown>>

ReplayFirst(s) ==     \* variant
  /\ \/ /\ command[s] = "add" /\ dispatcher[s].at # "none"
        /\ replays' = [replays EXCEPT ![s] = debugHistory]
        /\ command' = [command EXCEPT ![s] = "replay"]
        /\ UNCHANGED listening
     \/ /\ command[s] = "replay" /\ replays[s] = <<>>
        /\ command' = [command EXCEPT ![s] = "over"]
        /\ listening' = TRUE /\ UNCHANGED replays
  /\ UNCHANGED <<active, eventCh, done, closed, calling, fanVars, channelVars, readerVars>>

(* The history is copied and the listener registered under debugMu.        *)
AddDebugListener(s) ==
  /\ command[s] = "add" /\ dispatcher[s].at # "none"
  /\ listening' = TRUE
  /\ replays' = [replays EXCEPT ![s] = debugHistory]
  /\ command' = [command EXCEPT ![s] = "replay"]
  /\ UNCHANGED <<active, eventCh, done, closed, calling, fanVars, channelVars, readerVars>>

Replay(s) ==
  /\ command[s] = "replay" /\ replays[s] # <<>>
  /\ \/ ReadChannel(s) /\ UNCHANGED replays
     \/ SendEvent(s, Head(replays[s])) /\ replays' = [replays EXCEPT ![s] = Tail(@)]
  /\ UNCHANGED <<calling, command, fanVars, streamVars, readerVars>>

Replayed(s) ==
  /\ command[s] = "replay" /\ replays[s] = <<>>
  /\ command' = [command EXCEPT ![s] = "over"]
  /\ UNCHANGED <<calling, replays, fanVars, streamVars, channelVars, readerVars>>

ToggleSteps(s) ==
  ThreadFails(s) \/ ThreadStarted(s) \/ AddDebugListener(s) \/ Replay(s) \/ Replayed(s)

-----------------------------------------------------------------------------
(* A dispatcher: runDispatcher.                                            *)
Dispatcher(s, at, d) == dispatcher[s].at = at /\ dispatcher' = [dispatcher EXCEPT ![s] = d]
Post(s, E) == shown' = [t \in Stream |-> IF t = dispatcher[s].thread THEN shown[t] \cup E ELSE shown[t]]

(* Its thread and channel are those of the time it gets the lock.          *)
DispatcherBegins(s) ==
  /\ DebuggerFree
  /\ Dispatcher(s, "begin",
       [dispatcher[s] EXCEPT !.at = "loop", !.thread = IF active THEN eventCh ELSE 0, !.ch = eventCh])
  /\ UNCHANGED <<shown, fanVars, streamVars, commandVars, channelVars>>

(* select takes d.done as it is, without the lock: nil after a stop, or    *)
(* the one of a later stream.                                              *)
EntersSelect(s) ==
  /\ Dispatcher(s, "loop", [dispatcher[s] EXCEPT !.at = "select", !.done = done])
  /\ UNCHANGED <<shown, fanVars, streamVars, commandVars, channelVars>>

(* Texts are batched; other events are posted after what is batched.       *)
TakeEvent(s) ==
  LET d == dispatcher[s] IN
  /\ d.at = "select" /\ buffer[d.ch] # <<>>
  /\ buffer' = [buffer EXCEPT ![d.ch] = Tail(@)]
  /\ LET batch == d.text \cup {Head(buffer[d.ch])} IN
       \/ /\ Head(buffer[d.ch]) \in Texts
          /\ Dispatcher(s, "select", [d EXCEPT !.at = "loop", !.text = batch])
          /\ UNCHANGED shown
       \/ /\ Dispatcher(s, "select", [d EXCEPT !.at = "loop", !.text = {}])
          /\ Post(s, batch)
  /\ UNCHANGED <<target, dropped, fanVars, streamVars, commandVars>>

FlushText(s) ==
  /\ Dispatcher(s, "select", [dispatcher[s] EXCEPT !.at = "loop", !.text = {}])
  /\ Post(s, dispatcher[s].text)
  /\ UNCHANGED <<fanVars, streamVars, commandVars, channelVars>>

DispatcherEnds(s) ==
  /\ dispatcher[s].done \in closed
  /\ Dispatcher(s, "select", [dispatcher[s] EXCEPT !.at = "ended", !.text = {}])
  /\ Post(s, dispatcher[s].text)
  /\ UNCHANGED <<fanVars, streamVars, commandVars, channelVars>>

DispatcherSteps(s) == DispatcherBegins(s) \/ EntersSelect(s) \/ TakeEvent(s) \/ FlushText(s) \/ DispatcherEnds(s)

-----------------------------------------------------------------------------
DebugSteps ==
  \/ \E n \in Notifier : NotifyDebug(n) \/ CallListener(n)
  \/ \E s \in Stream : StopLocked(s) \/ ThreadStart(s) \/ ToggleSteps(s) \/ DispatcherSteps(s)

(* A stop of the program takes everything with it; the threads stay.       *)
StopDebugging ==
  /\ debugHistory' = <<>> /\ notifying' = [n \in Notifier |-> 0]
  /\ listening' = FALSE /\ active' = FALSE /\ eventCh' = 0 /\ done' = 0 /\ closed' = {}
  /\ calling' = 0 /\ replays' = [s \in Stream |-> <<>>]
  /\ command' = [s \in Stream |-> IF command[s] = "not yet" THEN "not yet" ELSE "over"]
  /\ target' = [g \in Goroutine |-> 0]
  /\ buffer' = [s \in Stream |-> <<>>] /\ dispatcher' = [s \in Stream |-> NoDispatcher]
  /\ UNCHANGED <<emitted, dropped, shown>>

-----------------------------------------------------------------------------
(* executive_v2.go:721: "the listener is already registered above, so no   *)
(* live events will be missed".  Each event of the history since a stream  *)
(* got its listener is in its thread, in its channel, in somebody's hands  *)
(* on the way there, or found the channel full: whatever is emitted and    *)
(* replayed meanwhile and whichever dispatchers an earlier stop has left   *)
(* behind.                                                                 *)
Live(s) == active /\ eventCh = s /\ command[s] \in {"replay", "over"}
OnItsWay(s) ==
  ToSet(buffer[s])
    \cup (UNION {dispatcher[t].text : t \in {r \in Stream : dispatcher[r].thread = s}})
    \cup (UNION {ToSet(replays[t]) : t \in Stream})
    \cup Range(notifying)
EventsAccountedFor ==
  \A s \in Stream : Live(s) => ToSet(debugHistory) \subseteq shown[s] \cup dropped[s] \cup OnItsWay(s)
=============================================================================
