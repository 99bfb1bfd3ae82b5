------------------------------- MODULE Replies -------------------------------
(***************************************************************************)
(* How the executive knows that a user message was answered, on top of the *)
(* turns of module Executive.  Two records are shared by the goroutines:   *)
(* the OnToolCall closure installed in the one SimpleSession, which sets   *)
(* userGotResponse of the turn that installed it, and e.mcpToolCalled,     *)
(* written by the MCP server for whatever session made the call.  Both are *)
(* kept as the sets of sessions whose reply was recorded.                  *)
(*                                                                         *)
(* The background turn's own userGotResponse decides nothing (its batch    *)
(* has no user item) and is left out.                                      *)
(***************************************************************************)
EXTENDS Executive

VARIABLES
  handler,            \* whose OnToolCall closure is installed, or Nil
  mcpToolCalled,      \* sessions whose reply is recorded in e.mcpToolCalled
  heard,              \* sessions that set userGotResponse of the P1 turn
  outcome             \* history: how the turn of each user item ended

replyVars == <<handler, mcpToolCalled, heard, outcome>>

(* User input in a batch: priority P1 (sources discord and inbox give it). *)
UserItems(b) == {i \in b : Priority[i] = P1UserInput}

RepliesInit ==
  /\ Init
  /\ handler = Nil
  /\ mcpToolCalled = {} /\ heard = {}
  /\ outcome = [i \in Item |-> "none"]

KeepReplies == UNCHANGED mcpToolCalled         \* variant: not cleared
ClearReplies == mcpToolCalled' = {}

(* A fresh userGotResponse, a cleared mcpToolCalled, new callbacks. *)
InstallCallbacks(t) ==
  /\ Build(t)
  /\ ClearReplies
  /\ handler' = t
  /\ heard' = IF t = "p1" THEN {} ELSE heard
  /\ UNCHANGED outcome

(* The retry forgets the recorded MCP calls, not userGotResponse. *)
Retry(t) ==
  /\ Rebuild(t)
  /\ ClearReplies
  /\ UNCHANGED <<handler, heard, outcome>>

(* talk_to_user or discord_react: the MCP server records the call, the     *)
(* stream shows it to the installed closure.  A closure whose turn is over *)
(* sets a variable that nothing reads.                                     *)
HasLocals(t) == pc[t] \in {"register", "send", "running", "interrupted",
                           "rebuild", "validate", "leave"}

Respond(t) ==
  /\ Running(t)
  /\ outcome' = [i \in Item |-> IF i \in UserItems(batch[t])
                                THEN "answered" ELSE outcome[i]]
  /\ mcpToolCalled' = mcpToolCalled \cup {t}
  /\ heard' = IF handler = "p1" /\ HasLocals("p1") THEN heard \cup {t} ELSE heard
  /\ UNCHANGED <<execVars, handler>>

(* VALIDATION: a user message without a recorded reply gets the fallback   *)
(* message.                                                                *)
RepliedByMcp == mcpToolCalled # {}             \* variant: stream ignored
Replied == heard # {} \/ mcpToolCalled # {}

Verdict(i) == CASE ~Replied -> "fallback"
                [] Replied /\ outcome[i] = "answered" -> "answered"
                [] OTHER -> "silent"

Conclude(t) ==
  /\ Validate(t)
  /\ outcome' = [i \in Item |-> IF i \in UserItems(batch[t])
                                THEN Verdict(i) ELSE outcome[i]]
  /\ UNCHANGED <<handler, mcpToolCalled, heard>>

EndTurn(t) ==
  /\ Leave(t)
  /\ heard' = IF t = "p1" THEN {} ELSE heard
  /\ UNCHANGED <<handler, mcpToolCalled, outcome>>

RepliesNext ==
  \/ \E t \in Thread : \/ InstallCallbacks(t) \/ Retry(t)
                       \/ Respond(t) \/ Conclude(t) \/ EndTurn(t)
  \/ /\ Outside \/ P1Step \/ BgStep \/ \E t \in Thread : SendingStep(t)
     /\ UNCHANGED replyVars

-----------------------------------------------------------------------------
(* Type invariant of the reply records: who replied is a goroutine, and a  *)
(* turn ends answered, with the fallback message, or silent.               *)
RepliesTypeOK ==
  /\ handler \in Thread \cup {Nil} /\ mcpToolCalled \subseteq Thread
  /\ heard \subseteq Thread
  /\ outcome \in [Item -> {"none", "answered", "fallback", "silent"}]

(* A user turn that ends normally with neither a reply of its own nor a    *)
(* fallback message was taken as answered because of a reply of the        *)
(* background session: replies of earlier user turns never count.          *)
SilentOnlyIfMasked ==
  [][\A i \in Item : outcome'[i] = "silent" /\ outcome[i] # "silent"
        => "bg" \in heard \cup mcpToolCalled]_<<execVars, replyVars>>

(* A user item that got the fallback although its own session answered:    *)
(* only when the background turn had replaced the closure, and cleared the *)
(* recorded MCP calls (fallback retry) after the answer.                   *)
FallbackAfterAnswerOnlyIfStolen ==
  [][\A i \in Item : outcome'[i] = "fallback" /\ outcome[i] = "answered"
        => handler = "bg"]_<<execVars, replyVars>>
=============================================================================
