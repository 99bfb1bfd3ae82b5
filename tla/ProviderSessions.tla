--------------------------- MODULE ProviderSessions ---------------------------
(***************************************************************************)
(* The executive and its subagents on an opencode provider: the provider   *)
(* branch of processItem (internal/executive/executive_v2.go), in which    *)
(* both goroutines send their prompts through one OpenCodeSession without  *)
(* a lock, and runProviderSession (subagent_session.go), whose permission  *)
(* handler runs in the poller's goroutine and puts a question to the       *)
(* executive.  Module Subagents gives the manager, its channels and what   *)
(* the executive may do with a session; OpenCode the provider.             *)
(*                                                                         *)
(* The tool calls a response reports arrive after the prompt is done, each *)
(* perhaps twice: Questions and Thoughts bound the calls reported.         *)
(***************************************************************************)
EXTENDS Subagents, OpenCode

CONSTANTS
  Turn,      \* the executive's goroutines
  exec       \* its OpenCodeSession

ASSUME ProviderConstants ==
  /\ Prompter = Session \cup Turn /\ Object = Session \cup {exec} /\ exec \notin Session
  /\ \A s \in Session : ObjectOf[s] = s
  /\ \A t \in Turn : ObjectOf[t] = exec

VARIABLE asking   \* where a subagent's OnPermission is

allVars == <<vars, ocVars, asking>>

ProviderInit ==
  /\ Init /\ OpenCodeInit
  /\ asking = All("no")

-----------------------------------------------------------------------------
(* The executive.  Its handler allows everything at once.  When it gets no *)
(* session, executive and subagents fall back to Claude.                   *)

ExecutiveStarts == Serving(exec) /\ UNCHANGED <<vars, asking>>

TurnPrompts(t) ==
  /\ Prompting(t) \/ QueryToolCalls(t) \/ PromptReturns(t) \/ Cancel(t)
  /\ UNCHANGED <<vars, asking>>

TurnPolls(t) ==
  /\ PollerStep(t) \/ HandlerReturns(t) \/ \E p \in Permission : Take(t, p)
  /\ UNCHANGED <<vars, asking>>

ResetSession == Reset(exec) /\ UNCHANGED <<vars, asking>>

-----------------------------------------------------------------------------
(* runProviderSession.                                                     *)

SessionStarts(s) ==
  /\ pc[s] = "connect"
  /\ Serving(s)
  /\ UNCHANGED <<vars, asking>>

(* The new ID goes to Spawn and into the map; the temporary one stays      *)
(* there, since session.ID was overwritten before the delete.              *)
Connected(s) ==
  /\ pc[s] = "connect"
  /\ SendPrompt(s)
  /\ pc' = Set(pc, s, "running")
  /\ claudeIDReady' = Set(claudeIDReady, s, TRUE)
  /\ keys' = Set(keys, s, keys[s] \cup {"claude"})
  /\ UNCHANGED <<asking, status, stopping, stopped, cancelled, spawn, askVars, chanVars, memVars>>

NoSession(s) ==
  /\ pc[s] = "connect" /\ newSession[s] = "refused"
  /\ pc' = Set(pc, s, "report")
  /\ status' = Set(status, s, "failed")
  /\ UNCHANGED <<asking, ocVars, stopping, stopped, cancelled, askVars, idVars, chanVars, memVars>>

SessionPrompts(s) ==
  /\ pc[s] = "running"
  /\ \/ CreateSession(s) \/ CreateFails(s) \/ PostMessage(s) \/ AskPermission(s)
     \/ MessageReturns(s) \/ MessageFails(s) \/ QueryToolCalls(s) \/ PromptReturns(s)
  /\ UNCHANGED <<vars, asking>>

(* OnTool. *)
ReportToolCall(s) ==
  /\ ReportsTools(s)
  /\ Ask(s) \/ AddStagedMemory(s)
  /\ UNCHANGED <<ocVars, asking>>

TakesAnswer(s) ==
  /\ answerReady[s] # 0
  /\ answerReady' = Set(answerReady, s, 0)
  /\ status' = Set(status, s, "running")
  /\ pendingQuestion' = Set(pendingQuestion, s, 0)

ToolAnswered(s) ==
  /\ pc[s] = "wait"
  /\ TakesAnswer(s)
  /\ pc' = Set(pc, s, "running")
  /\ UNCHANGED <<ocVars, asking, stopping, stopped, cancelled, asked, idVars, chanVars, memVars>>

ToolWaits(s) ==
  /\ NotifyQuestion(s) \/ GiveUp(s)
  /\ UNCHANGED <<ocVars, asking>>

(* OnPermission, in the poller's goroutine, whatever the session's own     *)
(* goroutine does meanwhile.                                               *)
PutToExecutive(s) ==
  /\ \E p \in Permission : Take(s, p)
  /\ asking' = Set(asking, s, "notify")
  /\ asked' = Set(asked, s, asked[s] + 1)
  /\ pendingQuestion' = Set(pendingQuestion, s, asked[s] + 1)
  /\ status' = Set(status, s, "waiting")
  /\ UNCHANGED <<pc, stopping, stopped, cancelled, answerReady, idVars, chanVars, memVars>>

PermissionNotifies(s) ==
  /\ asking[s] = "notify"
  /\ questionNotify' \in Sends(questionNotify, s)
  /\ asking' = Set(asking, s, "wait")
  /\ UNCHANGED <<ocVars, doneNotify, announced, reports, lifeVars, askVars, idVars, memVars>>

PermissionAnswered(s) ==
  /\ asking[s] = "wait"
  /\ TakesAnswer(s)
  /\ HandlerReturns(s)
  /\ asking' = Set(asking, s, "no")
  /\ UNCHANGED <<pc, stopping, stopped, cancelled, asked, idVars, chanVars, memVars>>

SaysRunning(s) ==                        \* variant: the status is reset
  status' = Set(status, s, "running")
LeavesStatus(s) == UNCHANGED status

(* The context has ended: the permission is denied. *)
PermissionGivesUp(s) ==
  /\ asking[s] \in {"notify", "wait"}
  /\ ctxDone[s]
  /\ HandlerReturns(s)
  /\ asking' = Set(asking, s, "no")
  /\ LeavesStatus(s)
  /\ UNCHANGED <<pc, stopping, stopped, cancelled, askVars, idVars, chanVars, memVars>>

SessionPolls(s) ==
  /\ PollerStep(s)
  /\ UNCHANGED <<vars, asking>>

Finished(s) ==
  /\ pc[s] = "running" /\ at[s] = "returned"
  /\ SetFinal(s, IF failed[s] THEN "failed" ELSE "completed")
  /\ UNCHANGED <<ocVars, asking>>

(* The goroutine ends with its report, and with it the context. *)
ContextEnds(s) ==
  /\ pc[s] = "done" /\ ~ctxDone[s]
  /\ Cancel(s)
  /\ UNCHANGED <<vars, asking>>

StopSession(s) ==
  /\ Stop(s) /\ Cancel(s)
  /\ UNCHANGED asking

-----------------------------------------------------------------------------
RunProviderSession(s) ==
  \/ SessionStarts(s) \/ Connected(s) \/ NoSession(s) \/ SessionPrompts(s)
  \/ ReportToolCall(s) \/ ToolAnswered(s) \/ ToolWaits(s)
  \/ PutToExecutive(s) \/ PermissionNotifies(s) \/ PermissionAnswered(s)
  \/ PermissionGivesUp(s) \/ SessionPolls(s) \/ Finished(s) \/ ContextEnds(s)
  \/ SendDone(s) /\ UNCHANGED <<ocVars, asking>>

SpawnOnProvider(s) == Spawn(s) /\ newSession[exec] = "ready"

Manage(s) ==
  /\ \/ SpawnOnProvider(s) \/ SpawnRekeys(s) \/ SpawnTimesOut(s)
     \/ Answer(s) \/ StopRequest(s) \/ ApproveMemories(s) \/ Cleanup(s)
  /\ UNCHANGED <<ocVars, asking>>

Watch == (WatchQuestions \/ WatchDone) /\ UNCHANGED <<ocVars, asking>>

ProviderNext ==
  \/ \E s \in Session : RunProviderSession(s) \/ Manage(s) \/ StopSession(s)
  \/ \E t \in Turn : TurnPrompts(t) \/ TurnPolls(t)
  \/ ExecutiveStarts \/ ResetSession \/ Watch
  \/ ServerChanges /\ UNCHANGED <<vars, asking>>

(* The poller ticks every 500ms, and the executive's handler returns. *)
ProviderSpec ==
  /\ ProviderInit /\ [][ProviderNext]_allVars
  /\ \A t \in Turn : WF_allVars(TurnPolls(t))

-----------------------------------------------------------------------------
(* A permission that the executive's prompt waits for is put to the        *)
(* handler, also when signal_done, /stop or a user message has cancelled   *)
(* the turn meanwhile (opencode_serve.go:320), as long as the server is up *)
(* and nothing has taken the object away from the prompt: the other        *)
(* goroutine's prompt and memory_reset do, and then it waits for ever.     *)
PermissionsServed ==
  \A t \in Turn : \A n \in 1 .. Asks[t] :
    <<t, n>> \in pending ~>
      \/ put[<<t, n>>] > 0
      \/ at[t] # "message" \/ sentTo[t] # ocSessionID[exec] \/ server # "up"

(* The status a provider session ends with is changed afterwards only by a *)
(* poller that a failed prompt left behind: it goes on with the            *)
(* permissions it had fetched, or takes an answer given before.            *)
FinalChangedOnlyByPoller ==
  [][\A s \in Session : status[s] \in Final /\ status'[s] # status[s] =>
       /\ failed[s]
       /\ \/ poller[s] = "listed" /\ status'[s] = "waiting"
          \/ asking[s] = "wait" /\ answerReady[s] # 0 /\ status'[s] = "running"]_allVars
=============================================================================
