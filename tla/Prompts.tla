------------------------------ MODULE Prompts ------------------------------
(***************************************************************************)
(* What a prompt carries beside the static context, on top of the turns of *)
(* module Replies: the recent conversation (buildContext, once per turn)   *)
(* and the handoff notes that signal_done leaves for a later session in    *)
(* system/autonomous-handoff.md.  buildPrompt reads that file and          *)
(* truncates it, without a lock, in both goroutines; signal_done appends   *)
(* to it.  Prompts for short replies ("yes", "ok") and for subagent items  *)
(* carry neither.  A prompt keeps its notes until SendPromptWithCfg        *)
(* returns, with them sent or given up with the prompt: the file is empty  *)
(* by then, so no later prompt has them.                                   *)
(*                                                                         *)
(* Notes are numbered as they are written.  What Engram returns does not   *)
(* change during a run of the model.  Recalled memories are left out, and  *)
(* so is that a resumed prompt omits the conversation (ExecSession).  The  *)
(* file can always be read and truncated.                                  *)
(***************************************************************************)
EXTENDS Replies, Conversation

CONSTANTS
  MinimalItem,        \* short replies and subagent items
  Logs,               \* what Engram may return for the channel
  MaxNotes,           \* bound on the notes written
  MaxRestarts         \* bound on restarts

ASSUME NotesBound == MaxNotes \in Nat /\ MaxRestarts \in Nat
ASSUME LogsType == \A l \in Logs : l \in Seq(Episode)

VARIABLES
  log,                \* the channel's episodes, newest first
  bundle,             \* per turn: BufferContent or WakeSessionContext
  minimal,            \* per turn: skipContext of its prompt
  handoff,            \* notes in autonomous-handoff.md
  noted,              \* notes written so far
  reading,            \* buildPrompt has read the file and will truncate it
  carried,            \* notes in the prompt each goroutine builds or sends
  delivered,          \* history: notes in a prompt whose query went out
  givenUp,            \* history: notes in a prompt whose call failed
  overlapped,         \* history: notes appended while a prompt was reading
  crashed,            \* history: notes in a prompt under way when bud stopped
  restarts            \* history: restarts so far

noteVars ==
  <<handoff, noted, reading, carried, delivered, givenUp, overlapped, crashed>>
promptVars == <<log, bundle, minimal, noteVars, restarts>>
allVars == <<execVars, replyVars, promptVars>>

NoTalk == [of |-> <<>>, shown |-> <<>>]

PromptsInit ==
  /\ RepliesInit
  /\ log \in Logs
  /\ bundle = Each(NoTalk) /\ minimal = Each(FALSE)
  /\ handoff = {} /\ noted = 0
  /\ reading = Each(FALSE) /\ carried = Each({})
  /\ delivered = {} /\ givenUp = {} /\ overlapped = {} /\ crashed = {}
  /\ restarts = 0

(* buildContext: a failed query leaves the conversation out.               *)
Context(i, answer) ==
  IF i \in WakeItem THEN WakeConversation(answer) ELSE RecentConversation(answer)

(* buildPrompt, up to the read of the file.                                *)
Truncates(t, skip) == handoff # {}               \* variant: minimal ones too
TakesNotes(t, skip) == ~skip /\ handoff # {}

ReadHandoff(t, skip) ==
  /\ carried' = [carried EXCEPT ![t] = IF skip THEN {} ELSE handoff]
  /\ reading' = [reading EXCEPT ![t] = TakesNotes(t, skip)]
  /\ UNCHANGED <<handoff, noted, delivered, givenUp, overlapped, crashed>>

BuildContextAndPrompt(t) ==
  /\ InstallCallbacks(t)
  /\ \E i \in batch[t], answer \in {log, <<>>} :
       /\ IsFirst(i, batch[t])
       /\ bundle' = [bundle EXCEPT ![t] = [of |-> answer, shown |-> Context(i, answer)]]
       /\ minimal' = [minimal EXCEPT ![t] = i \in MinimalItem]
       /\ ReadHandoff(t, i \in MinimalItem)
  /\ UNCHANGED <<log, restarts>>

(* The retry builds its prompt from the same bundle.                       *)
BuildPromptAgain(t) ==
  /\ Retry(t)
  /\ ReadHandoff(t, minimal[t])
  /\ UNCHANGED <<log, bundle, minimal, restarts>>

TruncateHandoff(t) ==
  /\ reading[t]
  /\ handoff' = {}
  /\ reading' = [reading EXCEPT ![t] = FALSE]
  /\ UNCHANGED <<execVars, replyVars, log, bundle, minimal, noted, carried,
                 delivered, givenUp, overlapped, crashed, restarts>>

(* SendPromptWithCfg returns.  Nil says that the query went out, or that   *)
(* sending failed on an unknown message type; any other result gives the   *)
(* prompt up: a fallback, a turn cancelled or failed before its query.     *)
SendingEnds(t) ==
  /\ SendReturns(t)
  /\ \/ /\ pc'[t] = "validate"
        /\ delivered' = delivered \cup carried[t] /\ UNCHANGED givenUp
     \/ givenUp' = givenUp \cup carried[t] /\ UNCHANGED delivered
  /\ carried' = [carried EXCEPT ![t] = {}]
  /\ UNCHANGED <<replyVars, log, bundle, minimal, handoff, noted, reading,
                 overlapped, crashed, restarts>>

(* signal_done with a handoff_note: append, then SendSignal("done").       *)
LeaveNote(t) ==
  /\ noted < MaxNotes
  /\ SignalDone(t)
  /\ noted' = noted + 1
  /\ handoff' = handoff \cup {noted + 1}
  /\ overlapped' = IF \E u \in Thread : reading[u]
                   THEN overlapped \cup {noted + 1} ELSE overlapped
  /\ UNCHANGED <<replyVars, log, bundle, minimal, reading, carried, delivered,
                 givenUp, crashed, restarts>>

EndPrompt(t) ==
  /\ EndTurn(t)
  /\ bundle' = [bundle EXCEPT ![t] = NoTalk]
  /\ minimal' = [minimal EXCEPT ![t] = FALSE]
  /\ UNCHANGED <<log, noteVars, restarts>>

(* The process dies and main starts again; the file stays.                 *)
RestartPrompts ==
  /\ restarts < MaxRestarts
  /\ restarts' = restarts + 1
  /\ LoopRestart
  /\ handler' = Nil /\ mcpToolCalled' = {} /\ heard' = {}
  /\ bundle' = Each(NoTalk) /\ minimal' = Each(FALSE)
  /\ reading' = Each(FALSE) /\ carried' = Each({})
  /\ crashed' = crashed \cup UNION {carried[t] : t \in Thread}
  /\ UNCHANGED <<outcome, log, handoff, noted, delivered, givenUp, overlapped>>

(* Everything else a turn or the rest of the program does; a goroutine     *)
(* between the read and the truncation does nothing else.                  *)
RepliesOnly ==
  /\ \/ \E t \in Thread : Respond(t) \/ Conclude(t)
     \/ /\ \/ Outside \/ P1Step \/ BgStep
           \/ \E t \in Thread : \/ Prepare(t) \/ Interrupted(t)
                                \/ ~reading[t] /\ (Register(t) \/ SendPrompt(t))
        /\ UNCHANGED replyVars
  /\ UNCHANGED promptVars

PromptsNext ==
  \/ \E t \in Thread : \/ BuildContextAndPrompt(t) \/ BuildPromptAgain(t)
                       \/ TruncateHandoff(t) \/ SendingEnds(t)
                       \/ LeaveNote(t) \/ EndPrompt(t)
  \/ RestartPrompts
  \/ RepliesOnly

PromptsSpec == PromptsInit /\ [][PromptsNext]_allVars

-----------------------------------------------------------------------------
(* Type invariant of what prompts carry: notes are those written, and only *)
(* a goroutine that builds a prompt is between its read and truncation.    *)
PromptsTypeOK ==
  /\ log \in Logs /\ noted \in 0..MaxNotes /\ handoff \subseteq 1..noted
  /\ minimal \in [Thread -> BOOLEAN] /\ reading \in [Thread -> BOOLEAN]
  /\ carried \in [Thread -> SUBSET (1..noted)]
  /\ delivered \subseteq 1..noted /\ givenUp \subseteq 1..noted
  /\ overlapped \subseteq 1..noted /\ crashed \subseteq 1..noted
  /\ restarts \in 0..MaxRestarts

(* A note left for the next session is in the file until a prompt takes    *)
(* it, and in that prompt until its query has gone out.  Lost are only     *)
(* - notes appended while the other goroutine was between its read and its *)
(*   truncation (overlapped);                                              *)
(* - notes in a prompt under way when the process dies (crashed);          *)
(* - notes in a prompt that is given up, because the session fell back,    *)
(*   and the retry finds the file empty (executive_v2.go:1037), or because *)
(*   the turn was cancelled or failed before its query (givenUp).          *)
NotesReachPrompts ==
  \A n \in 1..noted :
    \/ n \in handoff \cup delivered \cup overlapped \cup crashed \cup givenUp
    \/ \E t \in Thread : n \in carried[t]

(* The conversation in a prompt has no holes: it is the longest run of     *)
(* candidates (the base, then what is not consolidated) from the newest on *)
(* that the token budget allows, oldest first.                             *)
ConversationHasNoHoles ==
  \A t \in Thread : bundle[t].of # <<>> =>
    LET isWake == batch[t] \subseteq WakeItem
        of == Fetch(bundle[t].of, IF isWake THEN WakeLimit ELSE FetchLimit)
    IN NewestThatFit(IF isWake THEN WakeOffer(of) ELSE Offer(of),
                     IF isWake THEN WakeBudget ELSE TokenBudget,
                     bundle[t].shown)
=============================================================================
