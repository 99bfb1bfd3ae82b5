------------------------------ MODULE Subagents ------------------------------
(***************************************************************************)
(* Subagent sessions on the Claude SDK (internal/executive/                *)
(* subagent_session.go), the two watchers that put their questions and     *)
(* results in the queue and the operations the MCP tools call              *)
(* (executive_v2.go, mcp/tools/register.go).  Each session has its own     *)
(* goroutine; inside it a tool call that asks the user blocks in the       *)
(* CanUseTool hook.                                                        *)
(*                                                                         *)
(* Questions and thoughts are numbered within their session.  Not here:    *)
(* provider sessions (opencode), the event log, the text of prompts and    *)
(* results.  Assumed of the SDK: it calls the hook only while the receive  *)
(* loop runs, one call at a time, with a context the session's cancel      *)
(* reaches.                                                                *)
(***************************************************************************)
EXTENDS Naturals, Sequences

CONSTANTS
  Session,
  Questions,    \* bound: questions each session may ask
  Thoughts,     \* bound: save_thought calls each session may make
  NotifySize    \* capacity of QuestionNotify and of DoneNotify

ASSUME SubagentConstants ==
  /\ Questions \in [Session -> Nat] /\ Thoughts \in [Session -> Nat]
  /\ NotifySize \in Nat \ {0}

VARIABLES
  pc,               \* where each session's goroutine is
  status,           \* s.status
  pendingQuestion,  \* s.pendingQuestion, 0 for ""
  asked,            \* number of the last question
  answerReady,      \* buffer of one: the question an answer was taken for, or 0
  stopping,         \* a Stop call that has found the session unfinished
  stopped,          \* s.stopped
  cancelled,        \* the session's context
  keys,             \* IDs under which m.sessions holds the session
  claudeIDReady,    \* buffer of one
  spawn,            \* the Spawn call: "none", "waiting", or the ID it returned
  questionNotify, doneNotify,
  announced,        \* history: <<session, question>> put in the queue
  reports,          \* history: labels of the "subagent-done" items of each
  thoughts,         \* number of the last thought
  stagedMemories,   \* s.stagedMemories
  saved             \* history: how often each thought went to Engram

lifeVars == <<pc, status, stopping, stopped, cancelled>>
askVars == <<pendingQuestion, asked, answerReady>>
idVars == <<keys, claudeIDReady, spawn>>
chanVars == <<questionNotify, doneNotify, announced, reports>>
memVars == <<thoughts, stagedMemories, saved>>
vars == <<lifeVars, askVars, idVars, chanVars, memVars>>

Final == {"completed", "failed", "stopped"}
Set(f, s, v) == [f EXCEPT ![s] = v]
All(v) == [s \in Session |-> v]

Init ==
  /\ pc = All("none") /\ status = All("none")
  /\ stopping = All(FALSE) /\ stopped = All(FALSE) /\ cancelled = All(FALSE)
  /\ pendingQuestion = All(0) /\ asked = All(0) /\ answerReady = All(0)
  /\ keys = All({}) /\ claudeIDReady = All(FALSE) /\ spawn = All("none")
  /\ questionNotify = <<>> /\ doneNotify = <<>>
  /\ announced = {} /\ reports = All(<<>>)
  /\ thoughts = All(0) /\ stagedMemories = All({})
  /\ saved = [s \in Session |-> [n \in 1 .. Thoughts[s] |-> 0]]

-----------------------------------------------------------------------------
(* Agent_spawn_async and its wait for the ID of the first StreamEvent.     *)

Spawn(s) ==
  /\ spawn[s] = "none"
  /\ spawn' = Set(spawn, s, "waiting")
  /\ keys' = Set(keys, s, {"temp"})
  /\ pc' = Set(pc, s, "connect")
  /\ status' = Set(status, s, "running")
  /\ UNCHANGED <<stopping, stopped, cancelled, claudeIDReady>>
  /\ UNCHANGED <<askVars, chanVars, memVars>>

(* A non-blocking send.  Later events fill a buffer nobody reads again. *)
StreamEvent(s) ==
  /\ pc[s] = "running" /\ spawn[s] = "waiting"
  /\ claudeIDReady' = Set(claudeIDReady, s, TRUE)
  /\ UNCHANGED <<keys, spawn, lifeVars, askVars, chanVars, memVars>>

SpawnRekeys(s) ==
  /\ spawn[s] = "waiting" /\ claudeIDReady[s]
  /\ claudeIDReady' = Set(claudeIDReady, s, FALSE)
  /\ keys' = Set(keys, s, (keys[s] \ {"temp"}) \cup {"claude"})
  /\ spawn' = Set(spawn, s, "claude")
  /\ UNCHANGED <<lifeVars, askVars, chanVars, memVars>>

(* Ten seconds without an ID: the session keeps the temporary one. *)
SpawnTimesOut(s) ==
  /\ spawn[s] = "waiting"
  /\ spawn' = Set(spawn, s, "temp")
  /\ UNCHANGED <<keys, claudeIDReady, lifeVars, askVars, chanVars, memVars>>

-----------------------------------------------------------------------------
(* The session's goroutine: runClaudeSession.                              *)

SetFinal(s, unlessStopped) ==
  /\ status' = Set(status, s, IF stopped[s] THEN "stopped" ELSE unlessStopped)
  /\ pc' = Set(pc, s, "report")
  /\ UNCHANGED <<stopping, stopped, cancelled>>
  /\ UNCHANGED <<askVars, idVars, chanVars, memVars>>

Connect(s) ==
  /\ pc[s] = "connect"
  /\ \/ /\ pc' = Set(pc, s, "running")
        /\ UNCHANGED <<status, stopping, stopped, cancelled>>
        /\ UNCHANGED <<askVars, idVars, chanVars, memVars>>
     \/ SetFinal(s, "failed")

(* The receive loop ends: a result, the context, or a closed stream (also  *)
(* while the hook waits for its answer); its error is dropped.             *)
Finish(s) ==
  /\ pc[s] \in {"running", "wait"}
  /\ SetFinal(s, "completed")

(* The hook: AskUserQuestion ... *)
Ask(s) ==
  /\ pc[s] = "running"
  /\ asked[s] < Questions[s]
  /\ asked' = Set(asked, s, asked[s] + 1)
  /\ pendingQuestion' = Set(pendingQuestion, s, asked[s] + 1)
  /\ status' = Set(status, s, "waiting")
  /\ pc' = Set(pc, s, "notify")
  /\ UNCHANGED <<answerReady, stopping, stopped, cancelled>>
  /\ UNCHANGED <<idVars, chanVars, memVars>>

(* ... its blocking sends on the notification channels ... *)
DropsWhenFull(c, s) == IF Len(c) < NotifySize THEN {Append(c, s)} ELSE {c}   \* variant
Sends(c, s) == IF Len(c) < NotifySize THEN {Append(c, s)} ELSE {}

NotifyQuestion(s) ==
  /\ pc[s] = "notify"
  /\ questionNotify' \in Sends(questionNotify, s)
  /\ pc' = Set(pc, s, "wait")
  /\ UNCHANGED <<status, stopping, stopped, cancelled, doneNotify, announced, reports>>
  /\ UNCHANGED <<askVars, idVars, memVars>>

(* ... and its wait for the answer, or for the end of the context.         *)
TakeAnswer(s) ==
  /\ pc[s] = "wait"
  /\ answerReady[s] # 0
  /\ answerReady' = Set(answerReady, s, 0)
  /\ pc' = Set(pc, s, "running")
  /\ UNCHANGED <<status, stopping, stopped, cancelled, pendingQuestion, asked>>
  /\ UNCHANGED <<idVars, chanVars, memVars>>

GiveUp(s) ==
  /\ pc[s] \in {"notify", "wait"}
  /\ cancelled[s]
  /\ pc' = Set(pc, s, "running")
  /\ UNCHANGED <<status, stopping, stopped, cancelled>>
  /\ UNCHANGED <<askVars, idVars, chanVars, memVars>>

(* save_thought is kept for approval. *)
AddStagedMemory(s) ==
  /\ pc[s] = "running"
  /\ thoughts[s] < Thoughts[s]
  /\ thoughts' = Set(thoughts, s, thoughts[s] + 1)
  /\ stagedMemories' = Set(stagedMemories, s, stagedMemories[s] \cup {thoughts[s] + 1})
  /\ UNCHANGED <<saved, lifeVars, askVars, idVars, chanVars>>

SendDone(s) ==
  /\ pc[s] = "report"
  /\ doneNotify' \in Sends(doneNotify, s)
  /\ pc' = Set(pc, s, "done")
  /\ UNCHANGED <<status, stopping, stopped, cancelled, questionNotify, announced, reports>>
  /\ UNCHANGED <<askVars, idVars, memVars>>

-----------------------------------------------------------------------------
(* The watchers of executive_v2.go.                                        *)

(* A question that was answered meanwhile is skipped. *)
WatchQuestions ==
  /\ questionNotify # <<>>
  /\ questionNotify' = Tail(questionNotify)
  /\ LET s == Head(questionNotify) IN
       announced' = IF pendingQuestion[s] = 0 THEN announced
                    ELSE announced \cup {<<s, pendingQuestion[s]>>}
  /\ UNCHANGED <<doneNotify, reports, lifeVars, askVars, idVars, memVars>>

FailedOrNot(st) == IF st = "failed" THEN "failed" ELSE "completed"     \* variant
Label(st) == IF st \in {"failed", "stopped"} THEN st ELSE "completed"

WatchDone ==
  /\ doneNotify # <<>>
  /\ doneNotify' = Tail(doneNotify)
  /\ LET s == Head(doneNotify) IN
       reports' = Set(reports, s, Append(reports[s], Label(status[s])))
  /\ UNCHANGED <<questionNotify, announced, lifeVars, askVars, idVars, memVars>>

-----------------------------------------------------------------------------
(* What the executive may do with a session it finds, at any time.         *)

Listed(s) == keys[s] # {}

WhenListed(s) == Listed(s)                                 \* variant: no check
WhenWaiting(s) == Listed(s) /\ status[s] = "waiting"

Answer(s) ==
  /\ WhenWaiting(s)
  /\ status' = Set(status, s, "running")
  /\ pendingQuestion' = Set(pendingQuestion, s, 0)
  /\ answerReady' = IF answerReady[s] = 0 THEN Set(answerReady, s, asked[s])
                                          ELSE answerReady
  /\ UNCHANGED <<pc, stopping, stopped, cancelled, asked>>
  /\ UNCHANGED <<idVars, chanVars, memVars>>

(* Stop looks at the status first (a second one would change nothing) ... *)
StopRequest(s) ==
  /\ Listed(s) /\ status[s] \notin Final /\ ~cancelled[s]
  /\ stopping' = Set(stopping, s, TRUE)
  /\ UNCHANGED <<pc, status, stopped, cancelled>>
  /\ UNCHANGED <<askVars, idVars, chanVars, memVars>>

(* ... then marks the session and cancels it. *)
Stop(s) ==
  /\ stopping[s]
  /\ stopping' = Set(stopping, s, FALSE)
  /\ stopped' = Set(stopped, s, TRUE)
  /\ cancelled' = Set(cancelled, s, TRUE)
  /\ UNCHANGED <<pc, status>>
  /\ UNCHANGED <<askVars, idVars, chanVars, memVars>>

Peeked(s) == stagedMemories[s]                             \* variant
Drained(s) == {}

(* approve_subagent_memories drains all; it saves the approved ones, of    *)
(* which some may fail.                                                    *)
ApproveMemories(s) ==
  /\ Listed(s) /\ stagedMemories[s] # {}
  /\ stagedMemories' = Set(stagedMemories, s, Drained(s))
  /\ \E ok \in SUBSET stagedMemories[s] :
       saved' = [saved EXCEPT ![s] =
                   [n \in DOMAIN @ |-> IF n \in ok THEN @[n] + 1 ELSE @[n]]]
  /\ UNCHANGED <<thoughts, lifeVars, askVars, idVars, chanVars>>

(* A finished session spawned over an hour ago (so Spawn, which waits ten  *)
(* seconds, has returned) is forgotten.                                    *)
Cleanup(s) ==
  /\ Listed(s) /\ status[s] \in Final /\ spawn[s] # "waiting"
  /\ keys' = Set(keys, s, {})
  /\ UNCHANGED <<claudeIDReady, spawn, lifeVars, askVars, chanVars, memVars>>

-----------------------------------------------------------------------------
SpawnStep(s) == Spawn(s) \/ StreamEvent(s) \/ SpawnRekeys(s) \/ SpawnTimesOut(s)

RunStep(s) ==
  \/ Connect(s) \/ Ask(s) \/ NotifyQuestion(s) \/ TakeAnswer(s) \/ GiveUp(s)
  \/ AddStagedMemory(s) \/ Finish(s) \/ SendDone(s)

Next ==
  \/ \E s \in Session :
       \/ SpawnStep(s) \/ RunStep(s) \/ Answer(s) \/ StopRequest(s) \/ Stop(s) \/ ApproveMemories(s) \/ Cleanup(s)
  \/ WatchQuestions
  \/ WatchDone

Spec == Init /\ [][Next]_vars

-----------------------------------------------------------------------------
Status == {"none", "running", "waiting"} \cup Final

(* Type invariant of subagent_session.go: a session's status is one of the *)
(* SubagentStatus values, and only such a status is reported.              *)
SubagentTypeOK ==
  /\ pc \in [Session -> {"none", "connect", "running", "notify", "wait", "report", "done"}]
  /\ status \in [Session -> Status]
  /\ stopping \in [Session -> BOOLEAN] /\ stopped \in [Session -> BOOLEAN]
  /\ cancelled \in [Session -> BOOLEAN]
  /\ asked \in [Session -> Nat] /\ pendingQuestion \in [Session -> Nat]
  /\ answerReady \in [Session -> Nat]
  /\ keys \in [Session -> SUBSET {"temp", "claude"}]
  /\ claudeIDReady \in [Session -> BOOLEAN]
  /\ spawn \in [Session -> {"none", "waiting", "temp", "claude"}]
  /\ questionNotify \in Seq(Session) /\ doneNotify \in Seq(Session)
  /\ announced \subseteq Session \X Nat
  /\ reports \in [Session -> Seq(Final)]
  /\ thoughts \in [Session -> Nat] /\ stagedMemories \in [Session -> SUBSET Nat]
  /\ \A s \in Session : saved[s] \in [1 .. Thoughts[s] -> Nat]

(* The executive always learns of a question a session is blocked on: it   *)
(* was put in the queue, or the session is still in the channel.  (A stale *)
(* notification of an earlier question is what makes this delicate.)       *)
NoQuestionLost ==
  \A s \in Session : pc[s] = "wait" /\ pendingQuestion[s] # 0 =>
    \/ <<s, pendingQuestion[s]>> \in announced
    \/ \E k \in DOMAIN questionNotify : questionNotify[k] = s

(* An answer taken for one question never waits for, or is handed to, a    *)
(* later one, as long as the session was not cancelled.                    *)
AnswersItsQuestion ==
  \A s \in Session : pc[s] \in {"running", "notify", "wait"} /\ ~cancelled[s] =>
    answerReady[s] = 0 \/ (pc[s] # "running" /\ answerReady[s] = asked[s])

(* The status a session ends with is the one it keeps: neither a late      *)
(* answer nor a late stop revives or relabels it.                          *)
FinalStatusStays ==
  [][\A s \in Session : status[s] \in Final => status'[s] = status[s]]_vars

(* Every finished session is reported to the executive at most once, as    *)
(* what it is.                                                             *)
ReportedOnceAsIs ==
  \A s \in Session : reports[s] = <<>> \/ reports[s] = <<status[s]>>

(* The ID that Agent_spawn_async gave the executive finds the session until*)
(* it is cleaned up, whenever the Claude ID arrives.                       *)
ReturnedIDResolves ==
  \A s \in Session : spawn[s] \in {"temp", "claude"} /\ Listed(s) => spawn[s] \in keys[s]

(* No thought goes to Engram twice, however often memories are approved    *)
(* while the session goes on.                                              *)
SavedOnce == \A s \in Session : \A n \in DOMAIN saved[s] : saved[s][n] <= 1
=============================================================================
