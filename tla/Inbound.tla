------------------------------- MODULE Inbound -------------------------------
(***************************************************************************)
(* What reaches the program from outside, wired as in cmd/bud/main.go: the *)
(* Discord sense and the calendar sense with their callbacks into          *)
(* processInboxMessage, the messages becoming episodes as they come, the   *)
(* replies as the effector sends them, /debug-executive, which the handler *)
(* of interactions serves itself, and the program stopping and starting    *)
(* again.                                                                  *)
(***************************************************************************)
EXTENDS Episodes, DiscordSense, CalendarSense, DebugStream

CONSTANT
  Reply      \* bound: replies the effector sends; an episode is <<message or reply, how often it was seen>>

ASSUME InboundConstants == \A e \in Episode : e[1] \in Message \cup Reply /\ e[2] \in Nat

vars == <<episodeVars, senseVars, calVars, debugVars>>

Init == EpisodeInit /\ SenseInit /\ CalendarInit /\ DebugInit

Running == at # "down"

(* Messages and slash commands are ingested in a goroutine of their own    *)
(* each time they are handed over; their percepts are in Percepts.         *)
Seen(m) == Cardinality({s \in Session : <<m, s>> \in handed})
ProcessInboxMessage(m, s) ==
  /\ Running
  /\ HandsOver(m, s)
  /\ Ingest(<<m, Seen(m) + 1>>)
  /\ UNCHANGED <<calVars, debugVars>>

(* The effector tells of each message it has sent (SetOnSend).             *)
CaptureResponse(r) == Running /\ Ingest(<<r, 1>>) /\ UNCHANGED <<senseVars, calVars, debugVars>>

Ingesting == Running /\ Episodes /\ UNCHANGED <<senseVars, calVars, debugVars>>
Sensing == Running /\ Sense /\ UNCHANGED <<episodeVars, calVars, debugVars>>
Polling ==
  /\ PollSteps \/ Tick \/ \E e \in Event : Edit(e)
  /\ UNCHANGED <<episodeVars, senseVars, debugVars>>

(* Commands come, and sessions emit events, at any time.                   *)
Debugging == Running /\ DebugSteps /\ UNCHANGED <<episodeVars, senseVars, calVars>>

(* A crash, also in the middle of writing the calendar state, and a stop.  *)
Crash ==
  /\ \/ StopCalendar
     \/ at' = "down" /\ (MarkAgenda \/ MarkMeeting \/ MarkBrief \/ CleanupNotifications)
  /\ ForgetEpisodes /\ StopSense /\ StopDebugging

Restart == Load /\ Start /\ UNCHANGED <<episodeVars, debugVars>>

Next ==
  \/ \E m \in Message, s \in Session : ProcessInboxMessage(m, s)
  \/ \E r \in Reply : CaptureResponse(r)
  \/ Ingesting \/ Sensing \/ Debugging \/ (Polling /\ (Running => at' # "down")) \/ Crash \/ Restart

(* The health monitor ticks; handlers the library has started run; and if  *)
(* new sessions are tried again and again, Discord accepts one of them.    *)
(* The program is a service that is started again (launchd's KeepAlive).   *)
Fairness ==
  /\ WF_vars(Restart)
  /\ WF_vars(HealthCheck /\ UNCHANGED <<episodeVars, calVars, debugVars>>)
  /\ \A s \in Session, k \in {"connect", "disconnect"} :
       WF_vars(HandleEvent(<<s, k>>) /\ UNCHANGED <<episodeVars, calVars, debugVars>>)
  /\ SF_vars(HardReset /\ UNCHANGED <<episodeVars, calVars, debugVars>>)

Spec == Init /\ [][Next]_vars /\ Fairness
=============================================================================
