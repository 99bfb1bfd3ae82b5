----------------------------- MODULE ExecSession -----------------------------
(***************************************************************************)
(* What the one SimpleSession remembers between prompts                    *)
(* (internal/executive/simple_session.go), on top of the turns of module   *)
(* Executive: the Claude conversation to resume, on disk as well, whether  *)
(* the next prompt resumes it, the usage last reported, and the display    *)
(* IDs of the memories shown.  Executive's turns are unchanged; a prompt   *)
(* is "short" when buildPrompt left the static context out of it.          *)
(*                                                                         *)
(* Conversations are numbered in the order they begin.  Claude is assumed  *)
(* to report a resumed conversation under its own ID.                      *)
(***************************************************************************)
EXTENDS Executive

VARIABLES
  claudeSessionID,    \* conversation to resume, 0 for ""
  isResuming,         \* s.isResuming
  lastUsage,          \* s.lastUsage: whose it is and how much
  onDisk,             \* claude_session_id in executive-session.json
  plan,               \* processItem's local `resuming', once it has read it
  prompt,             \* what each turn's prompt contains
  conv,               \* conversation of each running prompt
  evalMap,            \* turns whose memory display IDs are in memoryIDMap
  newest,             \* history: conversations begun
  headless,           \* history: conversations begun with a short prompt
  forgotten,          \* history: conversations up to this one were reset
  restored            \* history: ID loaded at the start, until a reset

sessionVars == <<claudeSessionID, isResuming, lastUsage, onDisk, plan, prompt,
                 conv, evalMap, newest, headless, forgotten, restored>>
sessVars == <<execVars, sessionVars>>

NoUsage == [of |-> 0, size |-> "none"]
Usage(c, size) == [of |-> c, size |-> size]

ShouldReset == lastUsage.size = "full"

(* A fresh SimpleSession; LoadSessionFromDisk sets claudeSessionID only.   *)
(* Either nothing was saved, or one conversation of an earlier process. *)
SessionInit ==
  /\ Init
  /\ onDisk \in {0, 1}
  /\ claudeSessionID = onDisk /\ isResuming = FALSE /\ lastUsage = NoUsage
  /\ plan = Each("none") /\ prompt = Each("none") /\ conv = Each(0)
  /\ evalMap = {}
  /\ newest = onDisk
  /\ headless = {}
  /\ forgotten = 0 /\ restored = onDisk

(* processItem reads the session without the lock ...                      *)
Decide(t) ==
  /\ pc[t] = "prepare"
  /\ plan[t] = "none"
  /\ plan' = [plan EXCEPT ![t] =
       IF claudeSessionID # 0 /\ ~ShouldReset THEN "resume" ELSE "new"]
  /\ UNCHANGED <<execVars, claudeSessionID, isResuming, lastUsage, onDisk,
                 prompt, conv, evalMap, newest, headless, forgotten, restored>>

KeepID == UNCHANGED claudeSessionID              \* variant: not cleared
ClearID == claudeSessionID' = 0

(* ... and then waits for it in PrepareForResume or PrepareNewSession.     *)
PrepareSession(t) ==
  /\ plan[t] # "none"
  /\ Prepare(t)
  /\ isResuming' = (plan[t] = "resume")
  /\ IF plan[t] = "new" THEN ClearID ELSE UNCHANGED claudeSessionID
  /\ evalMap' = {}
  /\ UNCHANGED <<lastUsage, onDisk, plan, prompt, conv, newest, headless, forgotten, restored>>

PromptNow == IF isResuming THEN "short" ELSE "full"

(* buildPrompt gives the memories it shows display IDs (a wake-up shows    *)
(* none).                                                                  *)
AssignDisplayIDs(t) ==
  evalMap' = IF batch[t] \subseteq WakeItem THEN evalMap ELSE evalMap \cup {t}

(* SaveSessionToDisk of a new session, then buildContext and buildPrompt.  *)
BuildPrompt(t) ==
  /\ Build(t)
  /\ onDisk' = IF plan[t] = "new" THEN claudeSessionID ELSE onDisk
  /\ prompt' = [prompt EXCEPT ![t] = PromptNow]
  /\ AssignDisplayIDs(t)
  /\ plan' = [plan EXCEPT ![t] = "none"]
  /\ UNCHANGED <<claudeSessionID, isResuming, lastUsage, conv, newest, headless, forgotten, restored>>

SendKeepsMap == UNCHANGED evalMap

(* --resume when there is an ID and the turn resumes; otherwise Claude     *)
(* begins a conversation.                                                  *)
Send(t) ==
  /\ SendPrompt(t)
  /\ IF claudeSessionID # 0 /\ isResuming
     THEN /\ conv' = [conv EXCEPT ![t] = claudeSessionID]
          /\ UNCHANGED <<newest, headless>>
     ELSE /\ newest' = newest + 1
          /\ conv' = [conv EXCEPT ![t] = newest + 1]
          /\ headless' = IF prompt[t] = "short" THEN headless \cup {newest + 1}
                                                ELSE headless
  /\ SendKeepsMap
  /\ UNCHANGED <<claudeSessionID, isResuming, lastUsage, onDisk, plan, prompt, forgotten, restored>>

(* The first StreamEvent carries the conversation's ID. *)
StreamEvent(t) ==
  /\ Running(t)
  /\ claudeSessionID = 0
  /\ claudeSessionID' = conv[t]
  /\ UNCHANGED <<execVars, isResuming, lastUsage, onDisk, plan, prompt, conv,
                 evalMap, newest, headless, forgotten, restored>>

StillResuming == UNCHANGED isResuming            \* variant: flag left set
StopResuming == isResuming' = FALSE

(* Session not found, or a resumed prompt with a report of zero turns (the *)
(* report may be an earlier one's).                                        *)
Fallback(t) ==
  /\ isResuming
  /\ \/ UNCHANGED lastUsage
     \/ lastUsage' = Usage(conv[t], "zero")
  /\ claudeSessionID' = 0
  /\ StopResuming

(* The ResultMessage arrived. *)
Result(t) ==
  /\ \E size \in {"zero", "small", "full"} :
       /\ size = "zero" => ~isResuming \/ Cancelled(t)
       /\ lastUsage' = Usage(conv[t], size)
  /\ claudeSessionID' = conv[t]
  /\ UNCHANGED isResuming

(* The receive loop ended without one. *)
NoResult(t) ==
  /\ lastUsage.size = "zero" => ~isResuming \/ Cancelled(t)
  /\ UNCHANGED <<claudeSessionID, lastUsage, isResuming>>

Return(t) ==
  /\ SendReturns(t)
  /\ \/ pc'[t] = "validate" /\ (Result(t) \/ NoResult(t))
     \/ pc'[t] = "rebuild" /\ Fallback(t)
     \/ pc'[t] = "leave" /\ retried[t] /\ Fallback(t)
     \/ pc'[t] \in {"interrupted", "leave"}
        /\ UNCHANGED <<claudeSessionID, lastUsage, isResuming>>
  /\ conv' = [conv EXCEPT ![t] = 0]
  /\ UNCHANGED <<onDisk, plan, prompt, evalMap, newest, headless, forgotten, restored>>

RebuildPrompt(t) ==
  /\ Rebuild(t)
  /\ prompt' = [prompt EXCEPT ![t] = PromptNow]
  /\ AssignDisplayIDs(t)
  /\ UNCHANGED <<claudeSessionID, isResuming, lastUsage, onDisk, plan, conv,
                 newest, headless, forgotten, restored>>

(* After a turn that ended normally: SaveSessionToDisk. *)
SaveSession(t) ==
  /\ Validate(t)
  /\ onDisk' = claudeSessionID
  /\ UNCHANGED <<claudeSessionID, isResuming, lastUsage, plan, prompt, conv,
                 evalMap, newest, headless, forgotten, restored>>

Finish(t) ==
  /\ Leave(t)
  /\ prompt' = [prompt EXCEPT ![t] = "none"]
  /\ UNCHANGED <<claudeSessionID, isResuming, lastUsage, onDisk, plan, conv,
                 evalMap, newest, headless, forgotten, restored>>

(* SimpleSession.Reset, under the lock; the file is left as it is. *)
Reset ==
  /\ ResetSession
  /\ ClearID
  /\ isResuming' = FALSE
  /\ lastUsage' = NoUsage
  /\ evalMap' = {}
  /\ forgotten' = newest /\ restored' = 0
  /\ UNCHANGED <<onDisk, plan, prompt, conv, newest, headless>>

(* The process dies and NewExecutiveV2 starts from what is on disk. *)
Restart ==
  /\ LoopRestart
  /\ claudeSessionID' = onDisk /\ isResuming' = FALSE /\ lastUsage' = NoUsage
  /\ plan' = Each("none") /\ prompt' = Each("none") /\ conv' = Each(0)
  /\ evalMap' = {} /\ restored' = onDisk
  /\ UNCHANGED <<onDisk, newest, headless, forgotten>>

TurnOfSession(t) ==
  \/ Decide(t) \/ PrepareSession(t) \/ BuildPrompt(t) \/ Send(t) \/ StreamEvent(t)
  \/ Return(t) \/ RebuildPrompt(t) \/ SaveSession(t) \/ Finish(t)

Elsewhere ==
  /\ \/ P1Step \/ BgStep
     \/ \E t \in Thread : Register(t) \/ Interrupted(t) \/ SignalDone(t) \/ MemoryReset(t)
     \/ \E i \in Item : AddPending(i)
     \/ InterruptCurrentSession \/ WakeTimeout \/ ResetSignalsDone
  /\ UNCHANGED sessionVars

SessionNext ==
  \/ \E t \in Thread : TurnOfSession(t)
  \/ Reset
  \/ Restart
  \/ Elsewhere

SessionSpec == SessionInit /\ [][SessionNext]_sessVars

-----------------------------------------------------------------------------
(* Type invariant of simple_session.go: every ID kept, saved, resumed or   *)
(* measured is that of a conversation that did begin.                      *)
SessionTypeOK ==
  /\ newest \in Nat /\ forgotten \in 0..newest
  /\ claudeSessionID \in 0..newest /\ onDisk \in 0..newest
  /\ restored \in 0..newest /\ isResuming \in BOOLEAN
  /\ lastUsage \in [of : 0..newest, size : {"none", "zero", "small", "full"}]
  /\ plan \in [Thread -> {"none", "resume", "new"}]
  /\ prompt \in [Thread -> {"none", "short", "full"}]
  /\ conv \in [Thread -> 0..newest]
  /\ evalMap \subseteq Thread
  /\ headless \subseteq 1..newest

(* A conversation that memory_reset put away is resumed again only when a  *)
(* later start found it on disk: Reset waits for the running prompt, whose *)
(* result would otherwise bring the old ID back.                           *)
ForgottenOnlyByRestart ==
  claudeSessionID # 0 /\ claudeSessionID <= forgotten => claudeSessionID = restored

(* The background goroutine has not worked yet, nor has memory_reset.      *)
Alone == (\A i \in taken : Urgent(i)) /\ reset = "none" /\ forgotten = 0

(* A conversation always begins with the static context in its prompt.     *)
(* executive_v2.go:833: buildPrompt skips only what is already in the      *)
(* Claude session history.                                                 *)
BeginsWithContext == headless = {}

(* The ID kept while a prompt runs is that prompt's own conversation, so a *)
(* signal_done that cuts it short does not lose it (simple_session.go,     *)
(* OnStreamEvent).                                                         *)
CapturesOwnConversation ==
  \A t \in Thread : Running(t) => claudeSessionID \in {0, conv[t]}

(* executive_v2.go:811: the display IDs survive until signal_done resolves *)
(* the ratings of the memories the running prompt showed.                  *)
EvalResolvable ==
  \A t \in Thread : Running(t) /\ ~(batch[t] \subseteq WakeItem) => t \in evalMap

(* As long as one goroutine alone has used the session, over any number of *)
(* fallbacks, cancellations and restarts: conversations begin with their   *)
(* context, the ID kept is that of the running prompt, and its ratings can *)
(* be resolved.  None of the three is true once both goroutines have.      *)
SoundWhenAlone ==
  Alone => BeginsWithContext /\ CapturesOwnConversation /\ EvalResolvable
=============================================================================
