----------------------------- MODULE TurnProofs -----------------------------
(***************************************************************************)
(* Theorems about what a turn of the executive carries, says and leaves on *)
(* record: handoff notes, replies, the session tracker, the conversation   *)
(* it shows and the Claude session it resumes, for every set of items and  *)
(* any number of notes, turns, days, logs, retries, resets and restarts.   *)
(***************************************************************************)
EXTENDS Prompts, ExecSession, SessionTracker, ExecutiveProofs, Induction, SequenceTheorems

(* The steps of module Replies are the executive's.                        *)
LEMMA RepliesStep == RepliesNext => [Next]_execVars
<1> SUFFICES ASSUME RepliesNext PROVE [Next]_execVars
  OBVIOUS
<1>1. ASSUME NEW t \in Thread,
             InstallCallbacks(t) \/ Retry(t) \/ Conclude(t) \/ EndTurn(t)
      PROVE  Next
  BY <1>1 DEF InstallCallbacks, Retry, Conclude, EndTurn, Next, TurnStep, RecordingStep
<1>2. ASSUME NEW t \in Thread, Respond(t) PROVE UNCHANGED execVars
  BY <1>2 DEF Respond
<1>3. ASSUME NEW t \in Thread, SendingStep(t) PROVE Next
  BY <1>3 DEF Next, TurnStep
<1> QED BY <1>1, <1>2, <1>3 DEF RepliesNext, Next

LEMMA PromptsStep == [PromptsNext]_allVars => [Next]_execVars \/ LoopRestart
<1> SUFFICES ASSUME [PromptsNext]_allVars PROVE [Next]_execVars \/ LoopRestart
  OBVIOUS
<1>1. ASSUME NEW t \in Thread, BuildContextAndPrompt(t) \/ BuildPromptAgain(t) \/ EndPrompt(t)
      PROVE  RepliesNext
  BY <1>1 DEF BuildContextAndPrompt, BuildPromptAgain, EndPrompt, RepliesNext
<1>2. ASSUME NEW t \in Thread, SendingEnds(t) \/ LeaveNote(t) PROVE Next
  BY <1>2 DEF SendingEnds, LeaveNote, Next, Outside, TurnStep, SendingStep
<1>3. ASSUME NEW t \in Thread, TruncateHandoff(t) PROVE UNCHANGED execVars
  BY <1>3 DEF TruncateHandoff
<1>4. CASE RestartPrompts BY <1>4 DEF RestartPrompts
<1>5. CASE RepliesOnly
  <2>1. ASSUME NEW t \in Thread, Respond(t) \/ Conclude(t) PROVE RepliesNext
    BY <2>1 DEF RepliesNext
  <2>2. ASSUME NEW t \in Thread,
               Prepare(t) \/ Interrupted(t) \/ Register(t) \/ SendPrompt(t)
        PROVE  Next
    BY <2>2 DEF Next, TurnStep, SendingStep
  <2> QED BY <1>5, <2>1, <2>2, RepliesStep DEF RepliesOnly, Next
<1>6. CASE UNCHANGED allVars BY <1>6 DEF allVars
<1> QED BY <1>1, <1>2, <1>3, <1>4, <1>5, <1>6, RepliesStep DEF PromptsNext

LEMMA PromptsLoopTypes == PromptsSpec => []LoopTypeOK
<1>1. PromptsInit => QueueInit /\ LoopTypeOK
  BY LoopTypeInit DEF PromptsInit, RepliesInit, Init
<1>2. [PromptsNext]_allVars => [QueueNext]_queueVars
  <2>1. LoopRestart => QueueNext BY DEF LoopRestart, QueueNext
  <2> QED BY <2>1, PromptsStep, QueueStep
<1>3. PromptsSpec => []QueueTypeOK
  BY <1>1, <1>2, TypeCorrect, PTL DEF PromptsSpec, QueueSpec
<1>4. LoopTypeOK /\ QueueTypeOK /\ [PromptsNext]_allVars => LoopTypeOK'
  BY PromptsStep, LoopTypeStep, RestartTypes
<1> QED BY <1>1, <1>3, <1>4, PTL DEF PromptsSpec

-----------------------------------------------------------------------------
(***************************************************************************)
(* Notes.  NotesReachPrompts is not inductive: the truncation empties the  *)
(* file.  It is true because what the file holds then was read, or was     *)
(* appended since (Covered), and because a goroutine has truncated before  *)
(* it sends, and carries notes only until its call returns, so that it     *)
(* overwrites none when it builds the next prompt (OnTheWay).              *)
(***************************************************************************)
NotesTypeOK ==
  /\ noted \in Nat
  /\ reading \in [Thread -> BOOLEAN]
  /\ carried \in [Thread -> SUBSET Nat]

OnTheWay ==
  \A t \in Thread :
    /\ reading[t] => pc[t] \in {"register", "send"}
    /\ carried[t] # {} => pc[t] \in {"register", "send", "running"}

Covered == \A t \in Thread : reading[t] => handoff \subseteq carried[t] \cup overlapped

NotesInv ==
  /\ NotesTypeOK /\ handoff \subseteq Nat
  /\ OnTheWay /\ Covered /\ NotesReachPrompts

LEMMA NotesInit == PromptsInit => NotesInv
BY DEF PromptsInit, NotesInv, NotesTypeOK, OnTheWay, Covered, NotesReachPrompts, Each

(* A step that leaves the notes alone and keeps whoever reads or carries   *)
(* some where it may.                                                      *)
LEMMA NotesStay ==
  ASSUME NotesInv, UNCHANGED noteVars,
         \A t \in Thread :
           /\ reading[t] => pc'[t] = pc[t]
           /\ pc[t] \in {"register", "send", "running"} =>
                pc'[t] \in {"register", "send", "running"}
  PROVE  NotesInv'
BY DEF NotesInv, NotesTypeOK, OnTheWay, Covered, NotesReachPrompts, noteVars

LEMMA NotesBuilt ==
  ASSUME NotesInv, LoopTypeOK, NEW t \in Thread, NEW skip,
         ReadHandoff(t, skip), pc[t] \in {"build", "rebuild"},
         pc' \in {[pc EXCEPT ![t] = "register"], [pc EXCEPT ![t] = "send"]}
  PROVE  NotesInv'
<1>1. ~reading[t] /\ carried[t] = {} BY DEF NotesInv, OnTheWay
<1>2. NotesTypeOK' /\ handoff' \subseteq Nat
  BY DEF ReadHandoff, NotesInv, NotesTypeOK, TakesNotes
<1>3. OnTheWay'
  BY DEF ReadHandoff, NotesInv, OnTheWay, NotesTypeOK, LoopTypeOK
<1>4. Covered'
  BY DEF ReadHandoff, NotesInv, Covered, NotesTypeOK, TakesNotes
<1>5. NotesReachPrompts'
  BY <1>1 DEF ReadHandoff, NotesInv, NotesReachPrompts, NotesTypeOK
<1> QED BY <1>2, <1>3, <1>4, <1>5 DEF NotesInv

LEMMA NotesStep ==
  ASSUME LoopTypeOK, NotesInv, [PromptsNext]_allVars
  PROVE  NotesInv'
<1>1. ASSUME NEW t \in Thread, BuildContextAndPrompt(t) PROVE NotesInv'
  <2>1. PICK skip : ReadHandoff(t, skip)
    BY <1>1 DEF BuildContextAndPrompt
  <2>2. pc[t] = "build" /\ pc' = [pc EXCEPT ![t] = "register"]
    BY <1>1 DEF BuildContextAndPrompt, InstallCallbacks, Build, Advance, Goto
  <2> QED BY <2>1, <2>2, NotesBuilt
<1>2. ASSUME NEW t \in Thread, BuildPromptAgain(t) PROVE NotesInv'
  <2>1. PICK skip : ReadHandoff(t, skip)
    BY <1>2 DEF BuildPromptAgain
  <2>2. pc[t] = "rebuild" /\ pc' = [pc EXCEPT ![t] = "send"]
    BY <1>2 DEF BuildPromptAgain, Retry, Rebuild, Goto
  <2> QED BY <2>1, <2>2, NotesBuilt
<1>3. ASSUME NEW t \in Thread, TruncateHandoff(t) PROVE NotesInv'
  <2> USE <1>3 DEF TruncateHandoff, NotesInv
  <2>1. UNCHANGED <<pc, noted, carried, delivered, givenUp, overlapped, crashed>>
    BY DEF execVars
  <2>2. NotesTypeOK' /\ handoff' \subseteq Nat BY <2>1 DEF NotesTypeOK
  <2>3. OnTheWay' BY <2>1 DEF OnTheWay, NotesTypeOK
  <2>4. Covered' BY DEF Covered
  <2>5. NotesReachPrompts' BY <2>1 DEF NotesReachPrompts, Covered
  <2> QED BY <2>2, <2>3, <2>4, <2>5
<1>4. ASSUME NEW t \in Thread, SendingEnds(t) PROVE NotesInv'
  <2> USE <1>4 DEF SendingEnds, NotesInv
  <2>1. pc[t] = "running" /\ \A u \in Thread : u # t => pc'[u] = pc[u]
    BY DEF SendReturns, Running, Advance, Goto, LoopTypeOK
  <2>2. NotesTypeOK' /\ handoff' \subseteq Nat BY DEF NotesTypeOK
  <2>3. ~reading[t] BY <2>1 DEF OnTheWay
  <2>4. OnTheWay' BY <2>1, <2>3 DEF OnTheWay, NotesTypeOK
  <2>5. Covered' BY <2>3 DEF Covered, NotesTypeOK
  <2>6. carried[t] \subseteq delivered' \cup givenUp'
        /\ delivered \subseteq delivered' /\ givenUp \subseteq givenUp'
    OBVIOUS
  <2>7. NotesReachPrompts' BY <2>6 DEF NotesReachPrompts, NotesTypeOK
  <2> QED BY <2>2, <2>4, <2>5, <2>7
<1>5. ASSUME NEW t \in Thread, LeaveNote(t) PROVE NotesInv'
  <2> USE <1>5 DEF LeaveNote, NotesInv
  <2>1. UNCHANGED pc BY DEF SignalDone
  <2>2. NotesTypeOK' /\ handoff' \subseteq Nat BY DEF NotesTypeOK
  <2>3. OnTheWay' BY <2>1 DEF OnTheWay
  <2>4. Covered' BY DEF Covered
  <2>5. NotesReachPrompts' BY DEF NotesReachPrompts, NotesTypeOK
  <2> QED BY <2>2, <2>3, <2>4, <2>5
<1>6. ASSUME NEW t \in Thread, EndPrompt(t) PROVE NotesInv'
  <2>1. pc[t] = "leave" /\ pc' = [pc EXCEPT ![t] = "exit"]
    BY <1>6 DEF EndPrompt, EndTurn, Leave, Goto
  <2>2. ~reading[t] BY <2>1 DEF NotesInv, OnTheWay
  <2> QED BY <1>6, <2>1, <2>2, NotesStay DEF EndPrompt, LoopTypeOK
<1>7. CASE RestartPrompts
  <2> USE <1>7 DEF RestartPrompts, NotesInv, Each
  <2>1. NotesTypeOK' /\ handoff' \subseteq Nat BY DEF NotesTypeOK
  <2>2. OnTheWay' /\ Covered' BY DEF OnTheWay, Covered
  <2>3. NotesReachPrompts' BY DEF NotesReachPrompts
  <2> QED BY <2>1, <2>2, <2>3
<1>8. CASE RepliesOnly
  <2>1. UNCHANGED noteVars BY <1>8 DEF RepliesOnly, promptVars
  <2>2. ASSUME NEW u \in Thread, pc[u] \in {"register", "send", "running"}
        PROVE  /\ reading[u] => pc'[u] = pc[u]
               /\ pc'[u] \in {"register", "send", "running"}
    <3>1. CASE Outside \/ \E t \in Thread : Respond(t)
      BY <2>2, <3>1, OutsideStays DEF Respond, execVars
    <3>2. CASE P1Step
      BY <2>2, <3>2 DEF P1Step, P1Wake, RequestBackgroundInterrupt, P1Pop,
         P1Activate, P1Exit, DrainAgain, Goto, LoopTypeOK
    <3>3. CASE BgStep
      BY <2>2, <3>3 DEF BgStep, BgCheck, BgPop, BgRegister, BgExit, Advance,
         Goto, LoopTypeOK
    <3>4. ASSUME NEW t \in Thread,
                 Conclude(t) \/ Prepare(t) \/ Interrupted(t)
          PROVE  pc'[u] = pc[u]
      BY <2>2, <3>4 DEF Conclude, Validate, Prepare, Interrupted, Advance, Goto, LoopTypeOK
    <3>5. ASSUME NEW t \in Thread, ~reading[t], Register(t) \/ SendPrompt(t)
          PROVE  /\ u # t => pc'[u] = pc[u]
                 /\ pc'[u] \in {"register", "send", "running"}
      BY <2>2, <3>5 DEF Register, SendPrompt, Goto, LoopTypeOK
    <3> QED BY <1>8, <2>2, <3>1, <3>2, <3>3, <3>4, <3>5 DEF RepliesOnly
  <2>3. \A u \in Thread : reading[u] => pc[u] \in {"register", "send"}
    BY DEF NotesInv, OnTheWay
  <2> QED BY <2>1, <2>2, <2>3, NotesStay
<1>9. CASE UNCHANGED allVars
  BY <1>9, NotesStay DEF allVars, promptVars, execVars
<1> QED BY <1>1, <1>2, <1>3, <1>4, <1>5, <1>6, <1>7, <1>8, <1>9 DEF PromptsNext

(* A note left for the next session is not lost, but by an append between  *)
(* the other goroutine's read and truncation, or with its prompt: when bud *)
(* dies during the call, or the call falls back, is cancelled or fails.    *)
THEOREM NotesAreNotLost == PromptsSpec => []NotesReachPrompts
<1>1. LoopTypeOK /\ NotesInv /\ [PromptsNext]_allVars => NotesInv' BY NotesStep
<1>2. NotesInv => NotesReachPrompts BY DEF NotesInv
<1> QED BY <1>1, <1>2, NotesInit, PromptsLoopTypes, PTL DEF PromptsSpec

-----------------------------------------------------------------------------
(***************************************************************************)
(* Replies.  Whether a turn ends silent or with the fallback message is    *)
(* decided from the two records, so the invariant says what the records    *)
(* mean while the P1 turn lasts (RecordsTell): a recorded reply of its own *)
(* answered all its items, and an answer is on record unless the closure   *)
(* was replaced.  It holds from the start of the turn because no item was  *)
(* answered before it was popped (Unanswered, FreshBatch).                 *)
(***************************************************************************)
InTurn == pc["p1"] \in {"register", "send", "running", "interrupted",
                        "rebuild", "validate"}

NoUserInBackground == UserItems(batch["bg"]) = {}
BatchTaken == batch["p1"] \subseteq taken
Unanswered == \A i \in Item : stamp[i] = 0 \/ i \in queued => outcome[i] = "none"
FreshBatch ==
  pc["p1"] \in {"taken", "prepare", "build"} =>
    \A i \in batch["p1"] : outcome[i] = "none"

RecordsTell ==
  InTurn =>
    /\ handler \in Thread
    /\ \A i \in UserItems(batch["p1"]) :
         /\ "p1" \in heard \cup mcpToolCalled => outcome[i] = "answered"
         /\ outcome[i] = "answered" => "p1" \in heard \/ handler = "bg"

ReplyInv ==
  /\ RepliesTypeOK /\ NoUserInBackground /\ BatchTaken
  /\ Unanswered /\ FreshBatch /\ RecordsTell

LEMMA ReplyInit == PromptsInit => ReplyInv
<1> SUFFICES ASSUME PromptsInit PROVE ReplyInv
  OBVIOUS
<1> USE DEF PromptsInit, RepliesInit, Init, QueueInit, LoopInit, Thread
<1>1. RepliesTypeOK BY DEF RepliesTypeOK
<1>2. NoUserInBackground /\ BatchTaken BY DEF NoUserInBackground, BatchTaken, UserItems
<1>3. Unanswered /\ FreshBatch BY DEF Unanswered, FreshBatch
<1>4. RecordsTell BY DEF RecordsTell, InTurn
<1> QED BY <1>1, <1>2, <1>3, <1>4 DEF ReplyInv

(* Prompts and notes leave the reply records to module Replies; a restart  *)
(* empties them.                                                           *)
ForgetReplies ==
  /\ LoopRestart
  /\ handler' = Nil /\ mcpToolCalled' = {} /\ heard' = {}
  /\ UNCHANGED outcome

LEMMA PromptsReply ==
  [PromptsNext]_allVars => [RepliesNext]_<<execVars, replyVars>> \/ ForgetReplies
<1> SUFFICES ASSUME [PromptsNext]_allVars
             PROVE  [RepliesNext]_<<execVars, replyVars>> \/ ForgetReplies
  OBVIOUS
<1>1. ASSUME NEW t \in Thread, BuildContextAndPrompt(t) \/ BuildPromptAgain(t) \/ EndPrompt(t)
      PROVE  RepliesNext
  BY <1>1 DEF BuildContextAndPrompt, BuildPromptAgain, EndPrompt, RepliesNext
<1>2. ASSUME NEW t \in Thread, SendingEnds(t) \/ LeaveNote(t) PROVE RepliesNext
  BY <1>2 DEF SendingEnds, LeaveNote, RepliesNext, Outside, SendingStep
<1>3. ASSUME NEW t \in Thread, TruncateHandoff(t) PROVE UNCHANGED <<execVars, replyVars>>
  BY <1>3 DEF TruncateHandoff
<1>4. CASE RestartPrompts BY <1>4 DEF RestartPrompts, ForgetReplies
<1>5. CASE RepliesOnly
  <2>1. ASSUME NEW t \in Thread, Respond(t) \/ Conclude(t) PROVE RepliesNext
    BY <2>1 DEF RepliesNext
  <2>2. ASSUME NEW t \in Thread, UNCHANGED replyVars,
               Prepare(t) \/ Interrupted(t) \/ Register(t) \/ SendPrompt(t)
        PROVE  RepliesNext
    BY <2>2 DEF RepliesNext, SendingStep
  <2>3. ASSUME UNCHANGED replyVars, Outside \/ P1Step \/ BgStep PROVE RepliesNext
    BY <2>3 DEF RepliesNext
  <2> QED BY <1>5, <2>1, <2>2, <2>3 DEF RepliesOnly
<1>6. CASE UNCHANGED allVars BY <1>6 DEF allVars
<1> QED BY <1>1, <1>2, <1>3, <1>4, <1>5, <1>6 DEF PromptsNext

(* A turn's step that records nothing about replies and starts nothing.    *)
LEMMA TurnGoesOn ==
  ASSUME LoopTypeOK, ReplyInv, NEW t \in Thread, NEW l,
         UNCHANGED <<batch, queueVars, handler, outcome>>,
         pc' = [pc EXCEPT ![t] = l],
         t = "p1" => \/ /\ pc[t] = "prepare" /\ l = "build"
                     \/ /\ InTurn
                        /\ l \notin {"taken", "prepare", "build"}
                     \/ l \in {"leave", "exit"},
         heard' \in SUBSET Thread, mcpToolCalled' \in SUBSET Thread,
         InTurn /\ InTurn' => heard' = heard,
         mcpToolCalled' \subseteq mcpToolCalled
  PROVE  ReplyInv'
<1> USE DEF LoopTypeOK, ReplyInv, queueVars
<1>1. RepliesTypeOK' BY DEF RepliesTypeOK
<1>2. NoUserInBackground' /\ BatchTaken' /\ Unanswered'
  BY DEF NoUserInBackground, BatchTaken, Unanswered, UserItems
<1>3. FreshBatch' BY DEF FreshBatch, InTurn, Thread
<1>4. RecordsTell' BY DEF RecordsTell, InTurn, Thread, UserItems
<1> QED BY <1>1, <1>2, <1>3, <1>4

LEMMA ReplyTurnStep ==
  ASSUME LoopTypeOK, ItemsConserved, QueueTypeOK, ReplyInv, NEW t \in Thread,
         \/ InstallCallbacks(t) \/ Retry(t) \/ Respond(t) \/ Conclude(t) \/ EndTurn(t)
         \/ SendingStep(t) /\ UNCHANGED replyVars
  PROVE  ReplyInv'
<1> USE DEF LoopTypeOK
<1>1. CASE InstallCallbacks(t)
  <2> USE <1>1 DEF InstallCallbacks, ReplyInv
  <2>1. pc[t] = "build" /\ pc' = [pc EXCEPT ![t] = "register"]
        /\ UNCHANGED <<batch, queueVars>>
    BY DEF Build, Advance, Goto, laneVars
  <2>2. mcpToolCalled' = {} BY DEF ClearReplies
  <2>3. RepliesTypeOK' BY <2>2 DEF RepliesTypeOK
  <2>4. NoUserInBackground' /\ BatchTaken' /\ Unanswered'
    BY <2>1 DEF NoUserInBackground, BatchTaken, Unanswered, UserItems, queueVars
  <2>5. FreshBatch' BY <2>1 DEF FreshBatch, Thread
  <2>6. RecordsTell'
    <3>1. CASE t = "p1"
      BY <2>1, <2>2, <3>1 DEF RecordsTell, InTurn, FreshBatch, UserItems
    <3>2. CASE t = "bg"
      BY <2>1, <2>2, <3>2 DEF RecordsTell, InTurn, UserItems, Thread
    <3> QED BY <3>1, <3>2 DEF Thread
  <2> QED BY <2>3, <2>4, <2>5, <2>6
<1>2. CASE Retry(t)
  <2>1. pc[t] = "rebuild" /\ pc' = [pc EXCEPT ![t] = "send"]
        /\ UNCHANGED <<batch, queueVars, handler, outcome, heard>>
    BY <1>2 DEF Retry, Rebuild, Goto, laneVars
  <2>2. mcpToolCalled' = {} BY <1>2 DEF Retry, ClearReplies
  <2> QED BY <2>1, <2>2, TurnGoesOn DEF InTurn, ReplyInv, RepliesTypeOK
<1>3. CASE Respond(t)
  <2> USE <1>3 DEF Respond, ReplyInv
  <2>1. UNCHANGED <<pc, batch, queueVars, handler>> /\ pc[t] = "running"
    BY DEF execVars, laneVars, Running
  <2>2. RepliesTypeOK' BY DEF RepliesTypeOK
  <2>3. NoUserInBackground' /\ BatchTaken'
    BY <2>1 DEF NoUserInBackground, BatchTaken, UserItems, queueVars
  <2>4. CASE t = "bg"
    <3>1. outcome' = outcome
      BY <2>4 DEF NoUserInBackground, RepliesTypeOK
    <3>2. "p1" \in heard' \cup mcpToolCalled' <=> "p1" \in heard \cup mcpToolCalled
      BY <2>4
    <3>3. "p1" \in heard => "p1" \in heard' OBVIOUS
    <3> QED BY <2>1, <2>2, <2>3, <3>1, <3>2, <3>3
            DEF Unanswered, FreshBatch, RecordsTell, InTurn, UserItems, queueVars
  <2>5. CASE t = "p1"
    <3>1. Unanswered'
      BY <2>1, <2>5 DEF Unanswered, BatchTaken, UserItems, ItemsConserved, Added, queueVars
    <3>2. FreshBatch' BY <2>1, <2>5 DEF FreshBatch
    <3>3. InTurn /\ HasLocals("p1") BY <2>1, <2>5 DEF InTurn, HasLocals
    <3>4. handler = "p1" => "p1" \in heard' BY <2>5, <3>3
    <3>5. \A i \in UserItems(batch["p1"]) : i \in Item
      BY DEF BatchTaken, UserItems, QueueTypeOK
    <3>6. RecordsTell'
      BY <2>1, <2>5, <3>3, <3>4, <3>5 DEF RecordsTell, InTurn, UserItems, Thread
    <3> QED BY <2>2, <2>3, <3>1, <3>2, <3>6
  <2> QED BY <2>4, <2>5 DEF Thread
<1>4. CASE Conclude(t)
  <2> USE <1>4 DEF Conclude, ReplyInv
  <2>1. pc[t] = "validate" /\ pc' = [pc EXCEPT ![t] = "leave"]
        /\ UNCHANGED <<batch, queueVars, handler, mcpToolCalled, heard>>
    BY DEF Validate, Advance, Goto, laneVars
  <2>2. CASE t = "bg"
    <3>1. UNCHANGED outcome BY <2>2 DEF NoUserInBackground, RepliesTypeOK
    <3> QED BY <2>1, <2>2, <3>1, TurnGoesOn DEF RepliesTypeOK
  <2>3. CASE t = "p1"
    <3>1. RepliesTypeOK' BY <2>1 DEF RepliesTypeOK, Verdict
    <3>2. NoUserInBackground' /\ BatchTaken'
      BY <2>1 DEF NoUserInBackground, BatchTaken, UserItems, queueVars
    <3>3. Unanswered'
      BY <2>1, <2>3 DEF Unanswered, BatchTaken, UserItems, ItemsConserved, Added, queueVars
    <3>4. FreshBatch' /\ RecordsTell'
      BY <2>1, <2>3 DEF FreshBatch, RecordsTell, InTurn, Thread
    <3> QED BY <3>1, <3>2, <3>3, <3>4
  <2> QED BY <2>2, <2>3 DEF Thread
<1>5. CASE EndTurn(t)
  <2>1. pc[t] = "leave" /\ pc' = [pc EXCEPT ![t] = "exit"]
        /\ UNCHANGED <<batch, queueVars, handler, mcpToolCalled, outcome>>
    BY <1>5 DEF EndTurn, Leave, Goto, laneVars
  <2>2. heard' \in SUBSET Thread /\ (InTurn => heard' = heard)
    BY <1>5, <2>1 DEF EndTurn, InTurn, ReplyInv, RepliesTypeOK
  <2> QED BY <2>1, <2>2, TurnGoesOn DEF ReplyInv, RepliesTypeOK
<1>6. CASE SendingStep(t) /\ UNCHANGED replyVars
  <2>1. UNCHANGED <<batch, queueVars>>
    BY <1>6 DEF SendingStep, Prepare, Register, SendPrompt, SendReturns,
       Interrupted, Advance, laneVars
  <2>2. PICK l : /\ pc' = [pc EXCEPT ![t] = l]
                 /\ \/ pc[t] = "prepare" /\ l = "build"
                    \/ /\ pc[t] \in {"register", "send", "running", "interrupted"}
                       /\ l \notin {"taken", "prepare", "build"}
    BY <1>6 DEF SendingStep, Prepare, Register, SendPrompt, SendReturns,
       Interrupted, Running, Advance, Goto
  <2> QED BY <1>6, <2>1, <2>2, TurnGoesOn DEF InTurn, ReplyInv, RepliesTypeOK, replyVars
<1> QED BY <1>1, <1>2, <1>3, <1>4, <1>5, <1>6

LEMMA ReplyLoopStep ==
  ASSUME LoopTypeOK, QueueTypeOK, ReplyInv, Outside \/ P1Step \/ BgStep, UNCHANGED replyVars
  PROVE  ReplyInv'
<1> USE DEF LoopTypeOK, ReplyInv, replyVars
<1>1. RepliesTypeOK' BY DEF RepliesTypeOK
<1>2. CASE Outside
  <2>1. UNCHANGED <<pc, batch>>
    BY <1>2 DEF Outside, AddPending, SignalDone, MemoryReset,
       InterruptCurrentSession, WakeTimeout, ResetSession, ResetSignalsDone, laneVars
  <2>2. taken' = taken /\ Unanswered'
    <3>1. ASSUME NEW i \in Item, AddPending(i) PROVE taken' = taken /\ Unanswered'
      BY <3>1 DEF AddPending, Add, Unanswered, QueueTypeOK
    <3>2. CASE UNCHANGED queueVars BY <3>2 DEF queueVars, Unanswered
    <3> QED BY <1>2, <3>1, <3>2 DEF Outside, SignalDone, MemoryReset,
            InterruptCurrentSession, WakeTimeout, ResetSession, ResetSignalsDone
  <2> QED BY <1>1, <2>1, <2>2
          DEF NoUserInBackground, BatchTaken, FreshBatch, RecordsTell, InTurn, UserItems
<1>3. CASE P1Step
  <2>1. CASE P1Pop
    <3>1. NoUserInBackground' BY <2>1 DEF P1Pop, NoUserInBackground, UserItems, Thread
    <3>2. BatchTaken' BY <2>1 DEF P1Pop, PopAllMaxPriority, BatchTaken, Thread
    <3>3. Unanswered' BY <2>1 DEF P1Pop, PopAllMaxPriority, Unanswered
    <3>4. FreshBatch'
      BY <2>1 DEF P1Pop, PopAllMaxPriority, FreshBatch, Unanswered, UrgentItems,
         QueueTypeOK, Thread
    <3>5. RecordsTell' BY <2>1 DEF P1Pop, Goto, RecordsTell, InTurn, Thread
    <3> QED BY <1>1, <3>1, <3>2, <3>3, <3>4, <3>5
  <2>2. CASE P1Exit
    BY <1>1, <2>2 DEF P1Exit, DrainAgain, Goto, NoUserInBackground, BatchTaken, Unanswered,
       FreshBatch, RecordsTell, InTurn, UserItems, queueVars, Thread
  <2>3. CASE P1Wake \/ RequestBackgroundInterrupt \/ P1Activate
    <3>1. UNCHANGED <<batch, queued, stamp, taken>>
      BY <2>3 DEF P1Wake, Receive, RequestBackgroundInterrupt, P1Activate,
         laneVars, queueVars
    <3>2. pc'["p1"] \in {"interrupt", "drain"} \/ (pc["p1"] = "taken" /\ pc'["p1"] = "prepare")
      BY <2>3 DEF P1Wake, RequestBackgroundInterrupt, P1Activate, Goto, Thread
    <3> QED BY <1>1, <3>1, <3>2 DEF NoUserInBackground, BatchTaken, Unanswered,
            FreshBatch, RecordsTell, InTurn, UserItems
  <2> QED BY <1>3, <2>1, <2>2, <2>3 DEF P1Step
<1>4. CASE BgStep
  <2>1. pc'["p1"] = pc["p1"] /\ batch'["p1"] = batch["p1"]
    BY <1>4 DEF BgStep, BgCheck, BgPop, BgRegister, BgExit, Advance, Goto,
       laneVars, Thread
  <2>2. NoUserInBackground'
    BY <1>4 DEF BgStep, BgCheck, BgPop, BgRegister, BgExit, Advance, laneVars,
       NoUserInBackground, UserItems, PopHighestMinPriority, P2DueTask, P1UserInput, Thread
  <2>3. taken \subseteq taken' /\ queued' \subseteq queued /\ stamp' = stamp
    BY <1>4 DEF BgStep, BgCheck, BgPop, BgRegister, BgExit, Advance,
       PopHighestMinPriority, queueVars
  <2> QED BY <1>1, <2>1, <2>2, <2>3
          DEF BatchTaken, Unanswered, FreshBatch, RecordsTell, InTurn, UserItems
<1> QED BY <1>2, <1>3, <1>4

LEMMA ReplyStep ==
  ASSUME LoopTypeOK, ItemsConserved, QueueTypeOK, ReplyInv, [PromptsNext]_allVars
  PROVE  ReplyInv'
<1>1. CASE RepliesNext
  BY <1>1, ReplyTurnStep, ReplyLoopStep DEF RepliesNext
<1>2. CASE ForgetReplies
  <2> USE <1>2 DEF ForgetReplies, LoopRestart, Load, Each, ReplyInv, Thread
  <2>1. RepliesTypeOK' BY DEF RepliesTypeOK
  <2>2. NoUserInBackground' /\ BatchTaken' BY DEF NoUserInBackground, BatchTaken, UserItems
  <2>3. Unanswered' BY DEF Unanswered
  <2>4. FreshBatch' /\ RecordsTell' BY DEF FreshBatch, RecordsTell, InTurn
  <2> QED BY <2>1, <2>2, <2>3, <2>4
<1>3. CASE UNCHANGED <<execVars, replyVars>>
  BY <1>3 DEF execVars, laneVars, replyVars, queueVars, ReplyInv, RepliesTypeOK,
     NoUserInBackground, BatchTaken, Unanswered, FreshBatch, RecordsTell, InTurn, UserItems
<1> QED BY <1>1, <1>2, <1>3, PromptsReply

LEMMA ReplyInvariant == PromptsSpec => [](LoopTypeOK /\ ReplyInv)
<1>1. PromptsInit => QueueInit BY DEF PromptsInit, RepliesInit, Init
<1>2. [PromptsNext]_allVars => [QueueNext]_queueVars
  <2>1. LoopRestart => QueueNext BY DEF LoopRestart, QueueNext
  <2> QED BY <2>1, PromptsStep, QueueStep
<1>3. PromptsSpec => []QueueTypeOK /\ []ItemsConserved
  BY <1>1, <1>2, TypeCorrect, ItemsAccountedFor, PTL DEF PromptsSpec, QueueSpec
<1>4. LoopTypeOK /\ ItemsConserved /\ QueueTypeOK /\ ReplyInv /\ [PromptsNext]_allVars => ReplyInv'
  BY ReplyStep
<1> QED BY <1>3, <1>4, ReplyInit, PromptsLoopTypes, PTL DEF PromptsSpec

(* What becomes of a user item changes when its own session answers or its *)
(* turn is validated.                                                      *)
LEMMA WhoDecides ==
  ASSUME LoopTypeOK, ReplyInv, [PromptsNext]_allVars, NEW i \in Item,
         outcome'[i] # outcome[i]
  PROVE  \/ outcome'[i] = "answered"
         \/ /\ pc["p1"] = "validate" /\ i \in UserItems(batch["p1"])
            /\ outcome'[i] = Verdict(i)
<1>1. PICK t \in Thread : Respond(t) \/ Conclude(t)
  <2>1. ~ForgetReplies BY DEF ForgetReplies
  <2>2. ~UNCHANGED <<execVars, replyVars>> BY DEF replyVars
  <2>3. RepliesNext BY <2>1, <2>2, PromptsReply
  <2> QED BY <2>3 DEF RepliesNext, InstallCallbacks, Retry, EndTurn, replyVars
<1>2. CASE Respond(t) BY <1>2 DEF Respond
<1>3. CASE Conclude(t)
  <2>1. t = "p1" BY <1>3 DEF Conclude, ReplyInv, NoUserInBackground, Thread
  <2> QED BY <1>3, <2>1 DEF Conclude, Validate
<1> QED BY <1>1, <1>2, <1>3

(* A user turn ends silent only when a reply of the background session was *)
(* taken for one of its own.                                               *)
THEOREM SilenceIsMasked == PromptsSpec => SilentOnlyIfMasked
<1>1. ASSUME LoopTypeOK, ReplyInv, [PromptsNext]_allVars, NEW i \in Item,
             outcome'[i] = "silent", outcome[i] # "silent"
      PROVE  "bg" \in heard \cup mcpToolCalled
  <2>1. /\ pc["p1"] = "validate" /\ i \in UserItems(batch["p1"])
        /\ Replied /\ outcome[i] # "answered"
    BY <1>1, WhoDecides DEF Verdict
  <2>2. heard \cup mcpToolCalled # {} /\ heard \cup mcpToolCalled \subseteq Thread
    BY <1>1, <2>1 DEF Replied, ReplyInv, RepliesTypeOK
  <2>3. "p1" \notin heard \cup mcpToolCalled
    BY <1>1, <2>1 DEF ReplyInv, RecordsTell, InTurn
  <2> QED BY <2>2, <2>3 DEF Thread
<1>2. LoopTypeOK /\ ReplyInv /\ [PromptsNext]_allVars =>
        [\A i \in Item : outcome'[i] = "silent" /\ outcome[i] # "silent"
           => "bg" \in heard \cup mcpToolCalled]_<<execVars, replyVars>>
  BY <1>1
<1> QED BY <1>2, ReplyInvariant, PTL DEF PromptsSpec, SilentOnlyIfMasked

(* A user gets the fallback message after an answer only when the          *)
(* background turn had replaced the closure that would have recorded it.   *)
THEOREM FallbackIsStolen == PromptsSpec => FallbackAfterAnswerOnlyIfStolen
<1>1. ASSUME LoopTypeOK, ReplyInv, [PromptsNext]_allVars, NEW i \in Item,
             outcome'[i] = "fallback", outcome[i] = "answered"
      PROVE  handler = "bg"
  <2>1. /\ pc["p1"] = "validate" /\ i \in UserItems(batch["p1"])
        /\ ~Replied
    BY <1>1, WhoDecides DEF Verdict
  <2> QED BY <1>1, <2>1 DEF ReplyInv, RecordsTell, InTurn, Replied
<1>2. LoopTypeOK /\ ReplyInv /\ [PromptsNext]_allVars =>
        [\A i \in Item : outcome'[i] = "fallback" /\ outcome[i] = "answered"
           => handler = "bg"]_<<execVars, replyVars>>
  BY <1>1
<1> QED BY <1>2, ReplyInvariant, PTL DEF PromptsSpec, FallbackAfterAnswerOnlyIfStolen

-----------------------------------------------------------------------------
LEMMA ReadTypes ==
  ASSUME PromptsTypeOK, NEW t \in Thread, NEW skip \in BOOLEAN, ReadHandoff(t, skip)
  PROVE  /\ carried' \in [Thread -> SUBSET (1..noted)]
         /\ reading' \in [Thread -> BOOLEAN]
         /\ UNCHANGED <<handoff, noted, delivered, givenUp, overlapped, crashed>>
<1>1. TakesNotes(t, skip) \in BOOLEAN BY DEF TakesNotes
<1> QED BY <1>1 DEF PromptsTypeOK, ReadHandoff

LEMMA PromptsTypeStep ==
  ASSUME PromptsTypeOK, [PromptsNext]_allVars
  PROVE  PromptsTypeOK'
<1>1. ASSUME NEW t \in Thread, BuildContextAndPrompt(t) PROVE PromptsTypeOK'
  <2>1. PICK skip \in BOOLEAN : ReadHandoff(t, skip) /\ minimal' = [minimal EXCEPT ![t] = skip]
    <3>1. \A i : (i \in MinimalItem) \in BOOLEAN OBVIOUS
    <3> QED BY <1>1, <3>1 DEF BuildContextAndPrompt
  <2>2. minimal' \in [Thread -> BOOLEAN] BY <2>1 DEF PromptsTypeOK
  <2> QED BY <1>1, <2>1, <2>2, ReadTypes, ZenonT(60) DEF BuildContextAndPrompt, PromptsTypeOK
<1>2. ASSUME NEW t \in Thread, BuildPromptAgain(t) PROVE PromptsTypeOK'
  <2>1. minimal[t] \in BOOLEAN BY DEF PromptsTypeOK
  <2> QED BY <1>2, <2>1, ReadTypes DEF BuildPromptAgain, PromptsTypeOK
<1>3. ASSUME NEW t \in Thread, TruncateHandoff(t) PROVE PromptsTypeOK'
  BY <1>3 DEF TruncateHandoff, PromptsTypeOK
<1>4. ASSUME NEW t \in Thread, SendingEnds(t) PROVE PromptsTypeOK'
  BY <1>4 DEF SendingEnds, PromptsTypeOK
<1>5. ASSUME NEW t \in Thread, LeaveNote(t) PROVE PromptsTypeOK'
  <2>1. noted' = noted + 1 /\ noted \in 0..MaxNotes /\ noted < MaxNotes
    BY <1>5 DEF LeaveNote, PromptsTypeOK
  <2>2. noted' \in 0..MaxNotes /\ 1..noted \subseteq 1..noted' /\ noted + 1 \in 1..noted'
    BY <2>1, NotesBound
  <2>3. handoff' \subseteq 1..noted' /\ overlapped' \subseteq 1..noted'
    BY <1>5, <2>2 DEF LeaveNote, PromptsTypeOK
  <2>4. carried' \in [Thread -> SUBSET (1..noted')] BY <1>5, <2>2 DEF LeaveNote, PromptsTypeOK
  <2> QED BY <1>5, <2>2, <2>3, <2>4 DEF LeaveNote, PromptsTypeOK
<1>6. ASSUME NEW t \in Thread, EndPrompt(t) PROVE PromptsTypeOK'
  BY <1>6 DEF EndPrompt, noteVars, PromptsTypeOK
<1>7. CASE RestartPrompts
  <2>1. minimal' \in [Thread -> BOOLEAN] /\ reading' \in [Thread -> BOOLEAN]
        /\ carried' \in [Thread -> SUBSET (1..noted)]
    BY <1>7 DEF RestartPrompts, Each
  <2>2. crashed' \subseteq 1..noted BY <1>7 DEF RestartPrompts, PromptsTypeOK
  <2>3. restarts' \in 0..MaxRestarts BY <1>7, NotesBound DEF RestartPrompts, PromptsTypeOK
  <2> QED BY <1>7, <2>1, <2>2, <2>3 DEF RestartPrompts, PromptsTypeOK
<1>8. CASE RepliesOnly \/ UNCHANGED allVars
  BY <1>8 DEF RepliesOnly, allVars, promptVars, noteVars, PromptsTypeOK
<1> QED BY <1>1, <1>2, <1>3, <1>4, <1>5, <1>6, <1>7, <1>8 DEF PromptsNext

(* Only notes that were written are read, delivered or lost.               *)
THEOREM PromptsTypeCorrect == PromptsSpec => []PromptsTypeOK
<1>1. PromptsInit => PromptsTypeOK
  <2> SUFFICES ASSUME PromptsInit PROVE PromptsTypeOK
    OBVIOUS
  <2>1. /\ minimal = [t \in Thread |-> FALSE] /\ reading = [t \in Thread |-> FALSE]
        /\ carried = [t \in Thread |-> {}]
    BY DEF PromptsInit, Each
  <2>2. /\ log \in Logs /\ noted = 0 /\ restarts = 0 /\ handoff = {}
        /\ delivered = {} /\ givenUp = {} /\ overlapped = {} /\ crashed = {}
    BY DEF PromptsInit
  <2>3. noted \in 0..MaxNotes /\ restarts \in 0..MaxRestarts BY <2>2, NotesBound
  <2>4. carried \in [Thread -> SUBSET (1..noted)] BY <2>1
  <2>5. minimal \in [Thread -> BOOLEAN] /\ reading \in [Thread -> BOOLEAN] BY <2>1
  <2> QED BY <2>2, <2>3, <2>4, <2>5 DEF PromptsTypeOK
<1> QED BY <1>1, PromptsTypeStep, PTL DEF PromptsSpec

-----------------------------------------------------------------------------
(* The session tracker.                                                    *)
trackerAllVars == <<execVars, trackerVars>>

(* The tracker's steps are the executive's, or a restart.                  *)
LEMMA TrackerStep == [TrackerNext]_trackerAllVars => [Next]_execVars \/ LoopRestart
<1> SUFFICES ASSUME [TrackerNext]_trackerAllVars PROVE [Next]_execVars \/ LoopRestart
  OBVIOUS
<1>1. ASSUME NEW t \in Thread, TurnOfTracker(t) PROVE [Next]_execVars
  BY <1>1 DEF TurnOfTracker, RotateID, Start, ToolComplete, ReturnWithUsage, Bookkeep,
              Next, TurnStep, RecordingStep, SendingStep
<1>2. CASE ResetID BY <1>2 DEF ResetID, Next, Outside
<1>3. CASE Query \/ Midnight BY <1>3 DEF Query, Midnight
<1>4. CASE RestartTracker BY <1>4 DEF RestartTracker
<1>5. CASE NotTracked
  BY <1>5 DEF NotTracked, Next, Outside, TurnStep, SendingStep, RecordingStep
<1>6. CASE UNCHANGED trackerAllVars BY <1>6 DEF trackerAllVars
<1> QED BY <1>1, <1>2, <1>3, <1>4, <1>5, <1>6 DEF TrackerNext

LEMMA TrackerUsesQueue == TrackerSpec => QueueSpec
<1>1. TrackerInit => QueueInit BY DEF TrackerInit, Init
<1>2. [TrackerNext]_trackerAllVars => [QueueNext]_queueVars
  <2>1. LoopRestart => QueueNext BY DEF LoopRestart, QueueNext
  <2> QED BY <2>1, TrackerStep, QueueStep
<1> QED BY <1>1, <1>2, PTL DEF TrackerSpec, QueueSpec, trackerAllVars

LEMMA TrackerLoopTypes == TrackerSpec => []LoopTypeOK
<1>1. TrackerInit => LoopTypeOK BY LoopTypeInit DEF TrackerInit
<1>2. LoopTypeOK /\ QueueTypeOK /\ [TrackerNext]_trackerAllVars => LoopTypeOK'
  BY TrackerStep, LoopTypeStep, RestartTypes
<1>3. TrackerSpec => []QueueTypeOK BY TrackerUsesQueue, TypeCorrect, PTL
<1> QED BY <1>1, <1>2, <1>3, PTL DEF TrackerSpec, trackerAllVars

-----------------------------------------------------------------------------
(* What completing a session and setting its usage make of the list.       *)
LEMMA CompletionTypes ==
  ASSUME TrackerTypeOK
  PROVE  /\ AfterCompletion(sessionID).active \subseteq 0..sessionID
         /\ AfterCompletion(sessionID).completed \in Seq(CompletedEntry)
<1>1. [id |-> sessionID, used |-> 0, day |-> day] \in CompletedEntry BY DEF TrackerTypeOK, CompletedEntry
<1>2. Append(completed, [id |-> sessionID, used |-> 0, day |-> day]) \in Seq(CompletedEntry)
  BY <1>1 DEF TrackerTypeOK
<1> QED BY <1>2 DEF TrackerTypeOK, AfterCompletion

LEMMA UsageTypes ==
  ASSUME NEW c \in Seq(CompletedEntry), TrackerTypeOK, NEW id, NEW u \in 0..sessionID
  PROVE  /\ WithUsage(c, id, u) \in Seq(CompletedEntry)
         /\ DOMAIN WithUsage(c, id, u) = DOMAIN c
         /\ \A k \in DOMAIN c : /\ WithUsage(c, id, u)[k].id = c[k].id
                                /\ WithUsage(c, id, u)[k].day = c[k].day
         /\ (\A k \in DOMAIN c : c[k].id # id) => WithUsage(c, id, u) = c
<1>1. c \in [1..Len(c) -> CompletedEntry] /\ DOMAIN c = 1..Len(c) /\ Len(c) \in Nat OBVIOUS
<1>2. \A k \in DOMAIN c : [c[k] EXCEPT !.used = u] \in CompletedEntry
  BY <1>1 DEF CompletedEntry, TrackerTypeOK
<1>3. WithUsage(c, id, u) \in [1..Len(c) -> CompletedEntry] BY <1>1, <1>2 DEF WithUsage
<1>4. \A k \in DOMAIN c : [c[k] EXCEPT !.used = u].id = c[k].id /\ [c[k] EXCEPT !.used = u].day = c[k].day
  BY <1>1 DEF CompletedEntry
<1>5. \A k \in DOMAIN c : WithUsage(c, id, u)[k] \in {c[k], [c[k] EXCEPT !.used = u]}
  BY DEF WithUsage
<1>6. ASSUME \A k \in DOMAIN c : c[k].id # id PROVE WithUsage(c, id, u) = c
  BY <1>1, <1>6 DEF WithUsage
<1>7. WithUsage(c, id, u) \in Seq(CompletedEntry) BY <1>1, <1>3
<1>8. DOMAIN WithUsage(c, id, u) = DOMAIN c BY <1>1, <1>3
<1>9. \A k \in DOMAIN c : /\ WithUsage(c, id, u)[k].id = c[k].id
                          /\ WithUsage(c, id, u)[k].day = c[k].day
  BY <1>4, <1>5
<1> QED BY <1>6, <1>7, <1>8, <1>9

-----------------------------------------------------------------------------
(***************************************************************************)
(* What memory and disk hold.  That the day's record is on disk depends on *)
(* the file never being of a later day than the tracker's, and that no     *)
(* other day is counted, over restarts, on what the file says of its own   *)
(* day (FileOK), because a save may fail; that what ended today is counted *)
(* depends on nothing having ended on a day not noticed yet (EndedToday).  *)
(***************************************************************************)
FileOK(f, d) ==
  /\ f.date \in {-1} \cup 0..day /\ f.date <= d
  /\ f.active \subseteq 0..sessionID /\ f.completed \in Seq(CompletedEntry)
  /\ f.date = day => \A k \in DOMAIN f.completed : f.completed[k].day = day

EndedToday == ended # {} => today = day
CountedIn(ids, c) == \A id \in ids : \E k \in DOMAIN c : c[k].id = id

RecordInv ==
  /\ TrackerTypeOK /\ FileOK(file, today)
  /\ RecordSurvivesRestart /\ CountsOnlyToday
  /\ EndedToday /\ EndedAreCounted

LEMMA RecordInit == TrackerInit => RecordInv
<1> SUFFICES ASSUME TrackerInit PROVE RecordInv
  OBVIOUS
<1>1. mine = [t \in Thread |-> 0] /\ file = [date |-> -1, active |-> {}, completed |-> <<>>]
  BY DEF TrackerInit, Each, Unreadable, Record
<1>2. <<>> \in Seq(CompletedEntry) OBVIOUS
<1>3. /\ sessionID = 0 /\ usageOf = 0 /\ active = {} /\ completed = <<>>
      /\ today = 0 /\ day = 0 /\ unsaved = FALSE /\ spoiled = FALSE /\ ended = {}
  BY DEF TrackerInit
<1>4. TrackerTypeOK
  <2>1. mine \in [Thread -> 0..sessionID] BY <1>1, <1>3
  <2>2. /\ file.date \in {-1} \cup 0..day /\ file.active \subseteq 0..sessionID
        /\ file.completed = <<>>
    BY <1>1
  <2>3. completed \in Seq(CompletedEntry) /\ file.completed \in Seq(CompletedEntry)
    BY <1>2, <1>3, <2>2
  <2>4. /\ sessionID \in Nat /\ usageOf \in 0..sessionID /\ active \subseteq 0..sessionID
        /\ day \in Nat /\ today \in 0..day
    BY <1>3
  <2>5. unsaved \in BOOLEAN /\ spoiled \in BOOLEAN /\ ended \subseteq 0..sessionID
    BY <1>3, Zenon
  <2> QED BY <2>1, <2>2, <2>3, <2>4, <2>5 DEF TrackerTypeOK
<1>5. FileOK(file, today) BY <1>1, <1>2, <1>3 DEF FileOK
<1> QED BY <1>1, <1>3, <1>4, <1>5
        DEF RecordInv, RecordSurvivesRestart, CountsOnlyToday, EndedToday, EndedAreCounted

(* A later day or a later ID leaves every entry well typed.                *)
LEMMA EntriesStay ==
  ASSUME TrackerTypeOK, sessionID' \in Nat, day' \in Nat, sessionID <= sessionID', day <= day'
  PROVE  Seq(CompletedEntry) \subseteq Seq(CompletedEntry')
<1>1. 0..sessionID \subseteq 0..sessionID' /\ 0..day \subseteq 0..day'
  BY DEF TrackerTypeOK
<1>2. CompletedEntry \subseteq CompletedEntry' BY <1>1 DEF CompletedEntry
<1> QED BY <1>2

LEMMA UnreadableIsOK == ASSUME today' \in Nat PROVE FileOK(Unreadable, today')
<1>1. <<>> \in Seq(CompletedEntry) OBVIOUS
<1> QED BY <1>1 DEF FileOK, Unreadable, Record

(* After a save the file is what memory holds, or one of those it may be   *)
(* left as.                                                                *)
LEMMA SavedRecord ==
  ASSUME RecordInv, NEW left, SaveOver(left), \A f \in left : FileOK(f, today'),
         UNCHANGED <<sessionID, usageOf, mine, spoiled, day>>,
         active' \subseteq 0..sessionID, completed' \in Seq(CompletedEntry), today' \in 0..day,
         today' = day => \A k \in DOMAIN completed' : completed'[k].day = day,
         ended' \subseteq 0..sessionID, ended' # {} => today' = day,
         ~spoiled => CountedIn(ended', completed')
  PROVE  RecordInv'
<1> DEFINE whole == [date |-> today', active |-> active', completed |-> completed']
<1>1. FileOK(whole, today') BY DEF RecordInv, TrackerTypeOK, FileOK
<1>2. \/ file' = whole /\ unsaved' = FALSE
      \/ file' \in left \cup {Unreadable} /\ unsaved' = TRUE
  BY DEF SaveOver, Record
<1>3. FileOK(file', today')
  <2>1. today' \in Nat BY DEF RecordInv, TrackerTypeOK
  <2> QED BY <1>1, <1>2, <2>1, UnreadableIsOK
<1>4. CompletedEntry' = CompletedEntry BY DEF CompletedEntry
<1>5. (FileOK(file, today))' BY <1>3, <1>4 DEF FileOK
<1>6. TrackerTypeOK' BY <1>2, <1>3, <1>4 DEF RecordInv, TrackerTypeOK, FileOK
<1>7. RecordSurvivesRestart' BY <1>2 DEF RecordSurvivesRestart
<1>8. CountsOnlyToday' /\ EndedToday' /\ EndedAreCounted'
  BY DEF CountsOnlyToday, EndedToday, EndedAreCounted, CountedIn
<1> QED BY <1>5, <1>6, <1>7, <1>8 DEF RecordInv

LEMMA RecordKept ==
  ASSUME RecordInv, UNCHANGED <<recordVars, day>>,
         sessionID' \in {sessionID, sessionID + 1}, usageOf' \in 0..sessionID',
         mine' \in [Thread -> 0..sessionID']
  PROVE  RecordInv'
<1> USE DEF recordVars
<1>1. Seq(CompletedEntry) \subseteq Seq(CompletedEntry') BY EntriesStay DEF RecordInv, TrackerTypeOK
<1>2. TrackerTypeOK' BY <1>1 DEF RecordInv, TrackerTypeOK
<1>3. FileOK(file, today)' BY <1>1 DEF RecordInv, TrackerTypeOK, FileOK
<1>4. CountsOnlyToday' /\ EndedToday' /\ EndedAreCounted' /\ RecordSurvivesRestart'
  BY DEF RecordInv, CountsOnlyToday, EndedToday, EndedAreCounted, RecordSurvivesRestart
<1> QED BY <1>2, <1>3, <1>4 DEF RecordInv

(* Completing the session keeps who is counted, adds it if it was active,  *)
(* and is of today.                                                        *)
LEMMA CompletionCounts ==
  ASSUME RecordInv
  PROVE  LET c == AfterCompletion(sessionID).completed IN
         /\ \A id : CountedIn({id}, completed) => CountedIn({id}, c)
         /\ sessionID \in active => CountedIn({sessionID}, c)
         /\ today = day => \A k \in DOMAIN c : c[k].day = day
<1> DEFINE e == [id |-> sessionID, used |-> 0, day |-> day]
           c == AfterCompletion(sessionID).completed
<1>1. CASE sessionID \notin active
  BY <1>1 DEF RecordInv, CountsOnlyToday, AfterCompletion, CountedIn
<1>2. CASE sessionID \in active
  <2>1. c = Append(completed, e) BY <1>2 DEF AfterCompletion
  <2>2. /\ Len(completed) + 1 \in DOMAIN c /\ c[Len(completed) + 1] = e
        /\ \A k \in DOMAIN completed : k \in DOMAIN c /\ c[k] = completed[k]
        /\ \A k \in DOMAIN c : k = Len(completed) + 1 \/ k \in DOMAIN completed
    BY <2>1 DEF RecordInv, TrackerTypeOK
  <2>3. today = day => \A k \in DOMAIN c : c[k].day = day
    BY <2>2 DEF RecordInv, CountsOnlyToday
  <2>4. CountedIn({sessionID}, c) BY <2>2 DEF CountedIn
  <2>5. \A id : CountedIn({id}, completed) => CountedIn({id}, c)
    BY <2>2, Zenon DEF CountedIn
  <2> QED BY <2>3, <2>4, <2>5
<1> QED BY <1>1, <1>2

LEMMA EndsToday ==
  ASSUME RecordInv, Ends(sessionID)
  PROVE  /\ ended' \subseteq 0..sessionID
         /\ ended' # {} => today = day
         /\ ~spoiled => CountedIn(ended', AfterCompletion(sessionID).completed)
         /\ sessionID \notin active => UNCHANGED ended
<1>1. ended' \subseteq ended \cup {sessionID} /\ (sessionID \in ended' => sessionID \in ended \cup active)
  BY DEF Ends
<1>2. ended' # {} => today = day BY DEF Ends, RecordInv, EndedToday
<1>3. ended' \subseteq 0..sessionID BY <1>1 DEF RecordInv, TrackerTypeOK
<1>4. ~spoiled => \A id \in ended : CountedIn({id}, completed)
  BY DEF RecordInv, EndedAreCounted, CountedIn
<1>5. ASSUME ~spoiled, NEW id \in ended'
      PROVE CountedIn({id}, AfterCompletion(sessionID).completed)
  BY <1>1, <1>4, <1>5, CompletionCounts
<1> QED BY <1>2, <1>3, <1>5 DEF CountedIn, Ends

LEMMA BookkeepRecord ==
  ASSUME RecordInv, NEW t \in Thread, Bookkeep(t)
  PROVE  RecordInv'
<1> USE DEF RecordInv
<1> DEFINE after == AfterCompletion(sessionID)
           c == after.completed
<1>0. /\ sessionID \in Nat /\ day \in Nat /\ today \in 0..day
      /\ usageOf \in 0..sessionID /\ mine \in [Thread -> 0..sessionID]
      /\ UNCHANGED <<sessionID, usageOf, mine, today, spoiled, day>> /\ active' = after.active
  BY DEF TrackerTypeOK, Bookkeep
<1>1. c \in Seq(CompletedEntry) /\ after.active \subseteq 0..sessionID BY CompletionTypes
<1>2. /\ completed' \in Seq(CompletedEntry)
      /\ DOMAIN completed' = DOMAIN c
      /\ \A k \in DOMAIN c : completed'[k].id = c[k].id /\ completed'[k].day = c[k].day
      /\ (\A k \in DOMAIN c : c[k].id # sessionID) => completed' = c
  <2>1. CASE usageOf # 0
    <3>1. completed' = WithUsage(c, sessionID, usageOf) BY <2>1 DEF Bookkeep
    <3> QED BY <1>0, <1>1, <3>1, UsageTypes
  <2>2. CASE usageOf = 0
    <3>1. completed' = c BY <2>2 DEF Bookkeep
    <3> QED BY <1>1, <3>1
  <2> QED BY <2>1, <2>2
<1>3. today = day => \A k \in DOMAIN c : c[k].day = day BY CompletionCounts
<1>4. today' = day => \A k \in DOMAIN completed' : completed'[k].day = day
  BY <1>0, <1>2, <1>3
<1>5. /\ ended' \subseteq 0..sessionID /\ (ended' # {} => today' = day)
      /\ ~spoiled => CountedIn(ended', completed')
      /\ sessionID \notin active => UNCHANGED ended
  <2>1. Ends(sessionID) BY DEF Bookkeep
  <2>2. ~spoiled => CountedIn(ended', c) BY <2>1, EndsToday
  <2>3. CountedIn(ended', c) => CountedIn(ended', completed') BY <1>2 DEF CountedIn
  <2> QED BY <1>0, <2>1, <2>2, <2>3, EndsToday
<1>6. CASE \E left \in SUBSET ({file} \cup CompletionSaved(sessionID)) : SaveOver(left)
  <2>1. PICK left \in SUBSET ({file} \cup CompletionSaved(sessionID)) : SaveOver(left)
    BY <1>6
  <2>2. \A f \in CompletionSaved(sessionID) : FileOK(f, today)
    BY <1>0, <1>1, <1>3 DEF CompletionSaved, Record, FileOK
  <2>3. \A f \in left : FileOK(f, today') BY <1>0, <2>1, <2>2
  <2> QED BY <1>0, <1>1, <1>2, <1>4, <1>5, <2>1, <2>3, SavedRecord
<1>7. CASE ~\E left \in SUBSET ({file} \cup CompletionSaved(sessionID)) : SaveOver(left)
  <2>1. ~SaveOver({file} \cup CompletionSaved(sessionID)) /\ ~SaveOver({file}) BY <1>7
  <2>2. NotSaved BY <2>1 DEF Bookkeep, SaveUsage, Save
  <2>3. sessionID \notin active /\ completed' = c
    <3>1. CASE usageOf = 0 BY <2>1, <3>1 DEF Bookkeep, Save
    <3>2. CASE usageOf # 0
      <4>1. \A k \in DOMAIN c : c[k].id # sessionID
        BY <1>2, <2>1, <3>2 DEF Bookkeep, SaveUsage
      <4>2. sessionID \notin active BY <4>1, CompletionCounts DEF CountedIn
      <4> QED BY <1>2, <4>1, <4>2
    <3> QED BY <3>1, <3>2
  <2>4. UNCHANGED recordVars
    BY <1>0, <1>5, <2>2, <2>3 DEF AfterCompletion, NotSaved, recordVars
  <2> QED BY <1>0, <2>4, RecordKept
<1> QED BY <1>6, <1>7

LEMMA RecordStep ==
  ASSUME RecordInv, [TrackerNext]_trackerAllVars
  PROVE  RecordInv'
<1> USE DEF RecordInv
<1>0. /\ sessionID \in Nat /\ day \in Nat /\ today \in 0..day
      /\ usageOf \in 0..sessionID /\ mine \in [Thread -> 0..sessionID]
  BY DEF TrackerTypeOK
<1>1. ASSUME NEW t \in Thread, TurnOfTracker(t) PROVE RecordInv'
  <2>1. CASE RotateID(t)
    BY <1>0, <2>1, RecordKept DEF RotateID
  <2>2. CASE Start(t)
    <3>1. \/ completed' = completed /\ today' = today
          \/ completed' = <<>> /\ today' = day /\ day # today
      BY <2>2 DEF Start, StartSession, Rollover
    <3>2. completed' \in Seq(CompletedEntry)
      <4>1. <<>> \in Seq(CompletedEntry) OBVIOUS
      <4> QED BY <3>1, <4>1 DEF TrackerTypeOK
    <3>3. active' \subseteq 0..sessionID
      <4>1. active' = active \cup {sessionID} BY <2>2 DEF Start, StartSession
      <4>2. sessionID \in 0..sessionID BY <1>0
      <4> QED BY <4>1, <4>2 DEF TrackerTypeOK
    <3>4. today' = day => \A k \in DOMAIN completed' : completed'[k].day = day
      BY <3>1 DEF CountsOnlyToday
    <3>5. /\ ended' = ended /\ ended \subseteq 0..sessionID /\ (ended # {} => today' = day)
          /\ ~spoiled => CountedIn(ended, completed')
      BY <2>2, <3>1 DEF Start, EndedToday, EndedAreCounted, CountedIn, TrackerTypeOK
    <3>6. today' \in 0..day /\ FileOK(file, today') BY <1>0, <3>1 DEF FileOK
    <3>7. /\ SaveOver({file}) /\ UNCHANGED <<sessionID, usageOf, mine, spoiled, day>>
      BY <2>2 DEF Start, StartSession, Save
    <3> QED BY <3>2, <3>3, <3>4, <3>5, <3>6, <3>7, SavedRecord
  <2>3. CASE ToolComplete(t)
    <3> DEFINE after == AfterCompletion(sessionID)
    <3>1. /\ active' = after.active /\ completed' = after.completed
          /\ UNCHANGED <<sessionID, usageOf, mine, today, spoiled, day>> /\ Ends(sessionID)
      BY <2>3 DEF ToolComplete, CompleteSession
    <3>2. CASE sessionID \in active
      <4>1. SaveOver({file}) BY <2>3, <3>2 DEF ToolComplete, CompleteSession, Save
      <4>2. today' = day => \A k \in DOMAIN completed' : completed'[k].day = day
        BY <3>1, CompletionCounts
      <4>3. active' \subseteq 0..sessionID /\ completed' \in Seq(CompletedEntry)
        BY <3>1, CompletionTypes
      <4>4. /\ ended' \subseteq 0..sessionID /\ (ended' # {} => today' = day)
            /\ ~spoiled => CountedIn(ended', completed')
        BY <3>1, EndsToday
      <4> QED BY <1>0, <3>1, <4>1, <4>2, <4>3, <4>4, SavedRecord
    <3>3. CASE sessionID \notin active
      <4>1. UNCHANGED recordVars
        BY <2>3, <3>1, <3>3, EndsToday
           DEF ToolComplete, CompleteSession, AfterCompletion, NotSaved, recordVars
      <4> QED BY <1>0, <3>1, <4>1, RecordKept
    <3> QED BY <3>2, <3>3
  <2>4. CASE ReturnWithUsage(t)
    <3>1. usageOf' \in 0..sessionID BY <1>0, <2>4 DEF ReturnWithUsage
    <3> QED BY <1>0, <2>4, <3>1, RecordKept DEF ReturnWithUsage
  <2> QED BY <1>1, <2>1, <2>2, <2>3, <2>4, BookkeepRecord DEF TurnOfTracker
<1>2. CASE ResetID
  BY <1>0, <1>2, RecordKept DEF ResetID
<1>3. CASE Query
  <2>1. completed' = <<>> /\ today' = day /\ today < day /\ file.date < day /\ ended = {}
    BY <1>0, <1>3 DEF Query, Rollover, FileOK, EndedToday
  <2>2. CompletedEntry' = CompletedEntry BY <1>3 DEF Query, CompletedEntry
  <2>3. <<>> \in Seq(CompletedEntry) OBVIOUS
  <2>4. TrackerTypeOK'
    <3>1. UNCHANGED <<sessionID, usageOf, mine, active, file, spoiled, ended, day>> /\ unsaved' = FALSE
      BY <1>3 DEF Query
    <3>2. today' \in 0..day' /\ completed' \in Seq(CompletedEntry)' BY <1>0, <2>1, <2>2, <2>3, <3>1
    <3> QED BY <2>2, <3>1, <3>2 DEF TrackerTypeOK
  <2>5. FileOK(file, today)' BY <1>0, <1>3, <2>1, <2>2 DEF Query, FileOK
  <2> QED BY <1>0, <1>3, <2>1, <2>4, <2>5
          DEF Query, RecordSurvivesRestart, CountsOnlyToday, EndedToday, EndedAreCounted
<1>4. CASE Midnight
  <2>1. Seq(CompletedEntry) \subseteq Seq(CompletedEntry') BY <1>0, <1>4, EntriesStay DEF Midnight
  <2>2. TrackerTypeOK'
    <3>1. /\ UNCHANGED <<sessionID, usageOf, mine, active, completed, today, file, unsaved>>
          /\ day' = day + 1 /\ spoiled' = FALSE /\ ended' = {}
      BY <1>4 DEF Midnight
    <3>2. today' \in 0..day' /\ day' \in Nat /\ file'.date \in {-1} \cup 0..day'
      BY <1>0, <3>1 DEF TrackerTypeOK
    <3>3. completed' \in Seq(CompletedEntry') /\ file'.completed \in Seq(CompletedEntry')
      BY <2>1, <3>1 DEF TrackerTypeOK
    <3> QED BY <3>1, <3>2, <3>3 DEF TrackerTypeOK
  <2>3. FileOK(file, today)' BY <1>0, <1>4, <2>1 DEF Midnight, FileOK
  <2> QED BY <1>0, <1>4, <2>2, <2>3
          DEF Midnight, RecordSurvivesRestart, CountsOnlyToday, EndedToday, EndedAreCounted
<1>5. CASE RestartTracker
  <2>1. Seq(CompletedEntry) \subseteq Seq(CompletedEntry') BY <1>0, <1>5, EntriesStay DEF RestartTracker
  <2>2. mine' \in [Thread -> 0..sessionID'] BY <1>0, <1>5 DEF RestartTracker, Each
  <2>3. PICK read \in BOOLEAN :
          /\ active' = Loaded(read).active /\ completed' = Loaded(read).completed
          /\ unsaved' = (SameDay /\ ~read)
          /\ spoiled' = (spoiled \/ (unsaved /\ today = day) \/ (SameDay /\ ~read))
    BY <1>5 DEF RestartTracker
  <2>4. \/ SameDay /\ read /\ active' = file.active /\ completed' = file.completed
        \/ ~(SameDay /\ read) /\ active' = {} /\ completed' = <<>>
    BY <2>3 DEF Loaded, Unreadable, Record
  <2>5. /\ sessionID' = sessionID + 1 /\ usageOf' = 0 /\ today' = day
        /\ UNCHANGED <<file, ended, day>>
    BY <1>5 DEF RestartTracker
  <2>6. unsaved' \in BOOLEAN /\ spoiled' \in BOOLEAN BY <2>3
  <2>7. active' \subseteq 0..sessionID' /\ completed' \in Seq(CompletedEntry')
    <3>1. <<>> \in Seq(CompletedEntry') OBVIOUS
    <3>2. 0..sessionID \subseteq 0..sessionID' BY <1>0, <2>5
    <3>3. CASE SameDay /\ read BY <2>1, <2>4, <3>2, <3>3 DEF TrackerTypeOK
    <3>4. CASE ~(SameDay /\ read) BY <2>4, <3>1, <3>4
    <3> QED BY <3>3, <3>4
  <2>8. TrackerTypeOK' BY <1>0, <2>1, <2>2, <2>5, <2>6, <2>7 DEF TrackerTypeOK
  <2>9. FileOK(file, today)' BY <1>0, <2>1, <2>5 DEF FileOK
  <2>10. CountsOnlyToday' BY <2>4, <2>5 DEF SameDay, CountsOnlyToday, FileOK
  <2>11. RecordSurvivesRestart' BY <2>3, <2>4, <2>5 DEF SameDay, RecordSurvivesRestart
  <2>12. EndedToday' BY <2>5 DEF EndedToday
  <2>13. EndedAreCounted'
    <3>1. SUFFICES ASSUME ~spoiled', ended # {} PROVE CountedIn(ended, completed')
      BY <2>5 DEF EndedAreCounted, CountedIn
    <3>2. ~spoiled /\ ~(unsaved /\ today = day) /\ ~(SameDay /\ ~read) BY <2>3, <3>1
    <3>3. today = day BY <3>1 DEF EndedToday
    <3>4. completed' = completed
      <4>1. ~unsaved BY <3>2, <3>3
      <4> QED BY <2>4, <3>2, <3>3, <4>1 DEF RecordSurvivesRestart, SameDay
    <3> QED BY <3>2, <3>4 DEF EndedAreCounted, CountedIn
  <2> QED BY <2>8, <2>9, <2>10, <2>11, <2>12, <2>13
<1>6. CASE NotTracked \/ UNCHANGED trackerAllVars
  BY <1>0, <1>6, RecordKept DEF NotTracked, trackerAllVars, trackerVars
<1> QED BY <1>1, <1>2, <1>3, <1>4, <1>5, <1>6 DEF TrackerNext

LEMMA RecordHolds == TrackerSpec => []RecordInv
BY RecordInit, RecordStep, PTL DEF TrackerSpec, trackerAllVars

(* Every reachable state of the tracker is well typed.                     *)
THEOREM TrackerTypeCorrect == TrackerSpec => []TrackerTypeOK
BY RecordHolds, PTL DEF RecordInv

(* sessions.json holds what the tracker knows of the day, at every step    *)
(* after a save that worked or a start that could read it.                 *)
THEOREM RecordIsOnDisk == TrackerSpec => []RecordSurvivesRestart
BY RecordHolds, PTL DEF RecordInv

(* The budget is not charged with sessions that ended on another day.      *)
THEOREM OtherDaysAreNotCounted == TrackerSpec => []CountsOnlyToday
BY RecordHolds, PTL DEF RecordInv

(* With those that ended today and were noticed on it: what the day is     *)
(* charged with outlives restarts that find it on disk, and ends with the  *)
(* day.                                                                    *)
THEOREM RecordsAreKept == TrackerSpec => []RecordsKept
<1>1. RecordInv => RecordsKept
  BY DEF RecordInv, RecordsKept
<1> QED BY <1>1, RecordHolds, PTL

-----------------------------------------------------------------------------
(***************************************************************************)
(* A turn's own session is recorded: from Build on, the ID it drew is      *)
(* active or completed as long as it is the session's, and stays so while  *)
(* no day ends.                                                            *)
(***************************************************************************)
Charged(id) == id \in active \/ \E k \in DOMAIN completed : completed[k].id = id
Started == {"register", "send", "running", "interrupted", "rebuild", "validate", "leave"}

OwnCharged ==
  \A t \in Thread :
    pc[t] \in Started /\ sessionID = mine[t] /\ day = 0 => Charged(sessionID)

(* A session that is completed stays charged, also with its usage set.     *)
LEMMA CompletionCharges ==
  ASSUME RecordInv, NEW id, Charged(id)
  PROVE  \/ id \in AfterCompletion(sessionID).active
         \/ \E k \in DOMAIN AfterCompletion(sessionID).completed :
              AfterCompletion(sessionID).completed[k].id = id
<1> DEFINE e == [id |-> sessionID, used |-> 0, day |-> day]
<1>1. CASE sessionID \notin active BY <1>1 DEF AfterCompletion, Charged
<1>2. CASE sessionID \in active
  <2>1. /\ AfterCompletion(sessionID).completed = Append(completed, e)
        /\ AfterCompletion(sessionID).active = active \ {sessionID}
    BY <1>2 DEF AfterCompletion
  <2>2. /\ Len(completed) + 1 \in DOMAIN Append(completed, e)
        /\ Append(completed, e)[Len(completed) + 1] = e
        /\ \A k \in DOMAIN completed : k \in DOMAIN Append(completed, e)
                                       /\ Append(completed, e)[k] = completed[k]
    BY DEF RecordInv, TrackerTypeOK
  <2> QED BY <2>1, <2>2 DEF Charged
<1> QED BY <1>1, <1>2

LEMMA BookkeepingCharges ==
  ASSUME RecordInv, NEW t \in Thread, Bookkeep(t), NEW id, Charged(id)
  PROVE  Charged(id)'
<1> DEFINE c == AfterCompletion(sessionID).completed
<1>1. c \in Seq(CompletedEntry) BY CompletionTypes DEF RecordInv
<1>2. /\ DOMAIN completed' = DOMAIN c
      /\ \A k \in DOMAIN c : completed'[k].id = c[k].id
  <2>1. CASE usageOf # 0
    <3>1. completed' = WithUsage(c, sessionID, usageOf) BY <2>1 DEF Bookkeep
    <3> QED BY <1>1, <3>1, UsageTypes, SMTT(30) DEF RecordInv, TrackerTypeOK
  <2>2. CASE usageOf = 0 BY <2>2 DEF Bookkeep
  <2> QED BY <2>1, <2>2
<1>3. active' = AfterCompletion(sessionID).active BY DEF Bookkeep
<1> QED BY <1>2, <1>3, CompletionCharges DEF Charged

(* Only Build brings a turn to where its session is started.               *)
LEMMA StartedStays ==
  ASSUME LoopTypeOK,
         NotTracked \/ \E u \in Thread : SendReturns(u) \/ Validate(u) \/ Prepare(u)
  PROVE  \A t \in Thread : pc'[t] \in Started => pc[t] \in Started
<1> USE DEF LoopTypeOK, Started
<1>1. CASE P1Step
  BY <1>1 DEF P1Step, P1Wake, RequestBackgroundInterrupt, P1Pop, P1Activate,
              P1Exit, DrainAgain, Goto
<1>2. CASE BgStep
  BY <1>2 DEF BgStep, BgCheck, BgPop, BgRegister, BgExit, Advance, Goto
<1>3. ASSUME NEW u \in Thread,
             \/ Register(u) \/ SendPrompt(u) \/ SendReturns(u) \/ Interrupted(u)
             \/ Rebuild(u) \/ Validate(u) \/ Leave(u) \/ Prepare(u)
      PROVE \A t \in Thread : pc'[t] \in Started => pc[t] \in Started
  BY <1>3 DEF Register, SendPrompt, SendReturns, Running, Interrupted, Rebuild,
              Validate, Leave, Prepare, Advance, Goto
<1>4. CASE Outside BY <1>4, OutsideStays
<1> QED BY <1>1, <1>2, <1>3, <1>4 DEF NotTracked, Outside

LEMMA ChargedKept ==
  ASSUME OwnCharged, UNCHANGED <<sessionID, mine>>, day' = 0 => day = 0,
         Charged(sessionID) => Charged(sessionID)',
         \A t \in Thread : pc'[t] \in Started => pc[t] \in Started
  PROVE  OwnCharged'
BY DEF OwnCharged, Charged

LEMMA OwnChargedStep ==
  ASSUME LoopTypeOK, RecordInv, OwnCharged, [TrackerNext]_trackerAllVars
  PROVE  OwnCharged'
<1>0. /\ sessionID \in Nat /\ day \in Nat /\ today \in 0..day
      /\ mine \in [Thread -> 0..sessionID]
  BY DEF RecordInv, TrackerTypeOK
<1>1. ASSUME NEW t \in Thread, TurnOfTracker(t) PROVE OwnCharged'
  <2>1. CASE RotateID(t)
    <3>1. \A u \in Thread : u # t => mine'[u] # sessionID'
      BY <1>0, <2>1 DEF RotateID
    <3>2. pc'[t] = "build" BY <2>1 DEF RotateID, Prepare, Advance, Goto, LoopTypeOK
    <3> QED BY <3>1, <3>2 DEF OwnCharged, Started
  <2>2. CASE Start(t)
    BY <2>2 DEF Start, StartSession, OwnCharged, Charged
  <2>3. CASE ToolComplete(t)
    <3>1. UNCHANGED <<pc, sessionID, mine, day>> BY <2>3 DEF ToolComplete, execVars
    <3>2. Charged(sessionID) => Charged(sessionID)'
      BY <2>3, CompletionCharges DEF ToolComplete, CompleteSession, Charged
    <3> QED BY <3>1, <3>2, ChargedKept
  <2>4. CASE ReturnWithUsage(t)
    BY <2>4, StartedStays, ChargedKept DEF ReturnWithUsage, Charged, recordVars
  <2>5. CASE Bookkeep(t)
    <3>1. Charged(sessionID) => Charged(sessionID)'
      BY <2>5, BookkeepingCharges DEF Bookkeep, Charged
    <3> QED BY <2>5, <3>1, StartedStays, ChargedKept DEF Bookkeep
  <2> QED BY <1>1, <2>1, <2>2, <2>3, <2>4, <2>5 DEF TurnOfTracker
<1>2. CASE ResetID
  BY <1>0, <1>2 DEF ResetID, OwnCharged
<1>3. CASE Query
  <2>1. day # 0 /\ UNCHANGED day BY <1>0, <1>3 DEF Query
  <2> QED BY <2>1 DEF OwnCharged
<1>4. CASE Midnight
  <2>1. day' # 0 BY <1>0, <1>4 DEF Midnight
  <2> QED BY <2>1 DEF OwnCharged
<1>5. CASE RestartTracker
  <2>1. \A t \in Thread : pc'[t] = "wait" BY <1>5 DEF RestartTracker, LoopRestart, Each
  <2> QED BY <2>1 DEF OwnCharged, Started
<1>6. CASE NotTracked
  BY <1>6, StartedStays, ChargedKept DEF NotTracked, trackerVars, recordVars, Charged
<1>7. CASE UNCHANGED trackerAllVars
  BY <1>7, ChargedKept DEF trackerAllVars, execVars, trackerVars, recordVars, Charged
<1> QED BY <1>1, <1>2, <1>3, <1>4, <1>5, <1>6, <1>7 DEF TrackerNext

(* Only the bookkeeping takes a goroutine from "validate" to "leave".      *)
LEMMA OnlyBookkeepLeaves ==
  ASSUME LoopTypeOK, [TrackerNext]_trackerAllVars, NEW t \in Thread,
         pc[t] = "validate", pc'[t] = "leave"
  PROVE  Bookkeep(t)
<1> USE DEF LoopTypeOK
<1>1. ASSUME NEW u \in Thread, RotateID(u) \/ Start(u) \/ ToolComplete(u) \/ ReturnWithUsage(u)
      PROVE FALSE
  BY <1>1 DEF RotateID, Start, ToolComplete, ReturnWithUsage, Prepare, Build, SendReturns,
              Running, Advance, Goto, execVars
<1>2. ASSUME NEW u \in Thread, Bookkeep(u) PROVE Bookkeep(t)
  BY <1>2 DEF Bookkeep, Validate, Advance, Goto
<1>3. CASE ResetID \/ Query \/ Midnight \/ RestartTracker \/ UNCHANGED trackerAllVars
  BY <1>3 DEF ResetID, ResetSession, Query, Midnight, RestartTracker, LoopRestart, Each,
              trackerAllVars, execVars
<1>4. CASE NotTracked
  <2>1. CASE P1Step
    BY <2>1 DEF P1Step, P1Wake, RequestBackgroundInterrupt, P1Pop, P1Activate,
                P1Exit, DrainAgain, Goto
  <2>2. CASE BgStep
    BY <2>2 DEF BgStep, BgCheck, BgPop, BgRegister, BgExit, Advance, Goto
  <2>3. CASE Outside BY <2>3, OutsideStays
  <2>4. ASSUME NEW u \in Thread, Register(u) \/ SendPrompt(u) \/ Interrupted(u)
                                 \/ Rebuild(u) \/ Leave(u)
        PROVE FALSE
    BY <2>4 DEF Register, SendPrompt, Interrupted, Rebuild, Leave, Advance, Goto
  <2> QED BY <1>4, <2>1, <2>2, <2>3, <2>4 DEF NotTracked, Outside
<1> QED BY <1>1, <1>2, <1>3, <1>4 DEF TrackerNext, TurnOfTracker

(* A turn that ends normally has its own session completed, unless another *)
(* drew an ID meanwhile or the day has ended.                              *)
THEOREM OwnSessionRecorded == TrackerSpec => RecordedUnlessOverlapped
<1>1. TrackerInit => OwnCharged
  BY DEF TrackerInit, Init, LoopInit, OwnCharged, Started
<1>2. TrackerSpec => []OwnCharged
  BY <1>1, OwnChargedStep, TrackerLoopTypes, RecordHolds, PTL DEF TrackerSpec, trackerAllVars
<1>3. ASSUME LoopTypeOK, RecordInv, OwnCharged, [TrackerNext]_trackerAllVars, NEW t \in Thread,
             pc[t] = "validate", pc'[t] = "leave", sessionID = mine[t], day = 0
      PROVE \E k \in DOMAIN completed' : completed'[k].id = mine[t]
  <2>1. Bookkeep(t) BY <1>3, OnlyBookkeepLeaves
  <2>2. Charged(sessionID)
    BY <1>3 DEF OwnCharged, Started
  <2>3. sessionID' = sessionID BY <2>1 DEF Bookkeep
  <2>4. Charged(sessionID)' BY <1>3, <2>1, <2>2, <2>3, BookkeepingCharges DEF Charged
  <2>5. sessionID \notin active' BY <2>1 DEF Bookkeep, AfterCompletion
  <2> QED BY <1>3, <2>3, <2>4, <2>5 DEF Charged
<1> DEFINE Recorded == \A t \in Thread :
       pc[t] = "validate" /\ pc'[t] = "leave" /\ sessionID = mine[t] /\ day = 0
         => \E k \in DOMAIN completed' : completed'[k].id = mine[t]
<1>4. LoopTypeOK /\ RecordInv /\ OwnCharged /\ [TrackerNext]_trackerAllVars => [Recorded]_trackerAllVars
  BY <1>3
<1> QED BY <1>2, <1>4, TrackerLoopTypes, RecordHolds, PTL
        DEF TrackerSpec, RecordedUnlessOverlapped, trackerAllVars


-----------------------------------------------------------------------------
(***************************************************************************)
(* The conversation in a prompt.  By induction over the log, the buffer    *)
(* holds after each episode the candidates up to some episode, which is    *)
(* the one just looked at unless the budget ended the buffer before.       *)
(***************************************************************************)
Offers == {offer \in [candidates : SUBSET (Nat \ {0}), tokens : Seq(Nat)] :
             offer.candidates \subseteq DOMAIN offer.tokens}
Buffers == [used : Nat, shown : Seq(Nat), exceeded : BOOLEAN]

TakenIn(offer, budget, n, buf) ==
  IF n \in offer.candidates THEN Take(buf, n, offer.tokens[n], budget) ELSE buf

LEMMA TakenIsBuffer ==
  ASSUME NEW offer \in Offers, NEW budget \in Nat, NEW n \in Nat, NEW buf \in Buffers
  PROVE  TakenIn(offer, budget, n, buf) \in Buffers
<1>1. CASE n \notin offer.candidates BY <1>1 DEF TakenIn
<1>2. CASE n \in offer.candidates
  <2>1. offer.tokens[n] \in Nat BY <1>2 DEF Offers
  <2>2. buf.used \in Nat /\ buf.shown \in Seq(Nat) BY DEF Buffers
  <2>3. <<n>> \o buf.shown \in Seq(Nat) /\ buf.used + offer.tokens[n] \in Nat
    BY <2>1, <2>2
  <2> QED BY <1>2, <2>3 DEF TakenIn, Take, Buffers
<1> QED BY <1>1, <1>2

LEMMA FillingAdvances ==
  ASSUME NEW offer \in Offers, NEW budget \in Nat
  PROVE  /\ Filling(offer, budget)[0] = NoParts
         /\ \A n \in Nat : Filling(offer, budget)[n + 1]
              = TakenIn(offer, budget, n + 1, Filling(offer, budget)[n])
<1> DEFINE g == [n \in Nat |-> [b \in Buffers |-> TakenIn(offer, budget, n, b)]]
           body(f) == [n \in Nat |-> IF n = 0 THEN NoParts ELSE TakenIn(offer, budget, n, f[n - 1])]
<1>1. NoParts \in Buffers
  <2>1. <<>> \in Seq(Nat)
    OBVIOUS
  <2> QED BY <2>1 DEF NoParts, Buffers
<1>2. g \in [Nat -> [Buffers -> Buffers]] BY TakenIsBuffer
<1>3. \A n \in Nat, b \in Buffers : g[n][b] = TakenIn(offer, budget, n, b)
  OBVIOUS
<1> HIDE DEF g
<1>4. PICK f : Follows(f, Buffers, NoParts, g) BY <1>1, <1>2, Recursion
<1>5. f = body(f)
  <2>0. /\ f \in [Nat -> Buffers] /\ f[0] = NoParts
        /\ \A n \in Nat : f[n + 1] = g[n + 1][f[n]]
    BY <1>4 DEF Follows
  <2>1. ASSUME NEW n \in Nat PROVE f[n] = body(f)[n]
    <3>1. CASE n = 0 BY <2>0, <3>1
    <3>2. CASE n # 0
      <4>1. n - 1 \in Nat /\ (n - 1) + 1 = n BY <3>2
      <4>2. f[n] = g[n][f[n - 1]] BY <2>0, <4>1
      <4> QED BY <1>3, <2>0, <3>2, <4>1, <4>2
    <3> QED BY <3>1, <3>2
  <2> QED BY <2>0, <2>1
<1>6. Filling(offer, budget) = CHOOSE r : r = body(r) BY DEF Filling, TakenIn
<1>7. Filling(offer, budget) = body(Filling(offer, budget)) BY <1>5, <1>6
<1> HIDE DEF body
<1>8. Filling(offer, budget)[0] = NoParts BY <1>7 DEF body
<1>9. ASSUME NEW n \in Nat
      PROVE  Filling(offer, budget)[n + 1] = TakenIn(offer, budget, n + 1, Filling(offer, budget)[n])
  <2>1. n + 1 \in Nat /\ n + 1 # 0 /\ (n + 1) - 1 = n
    OBVIOUS
  <2> QED BY <1>7, <2>1 DEF body
<1> QED BY <1>8, <1>9

(* The tokens of the candidates up to each episode.                        *)
Cost(offer, n) == IF n \in offer.candidates THEN offer.tokens[n] ELSE 0

LEMMA TotalsAdvance ==
  ASSUME NEW offer \in Offers
  PROVE  /\ Totals(offer)[0] = 0
         /\ \A n \in Nat : Totals(offer)[n + 1] = Totals(offer)[n] + Cost(offer, n + 1)
<1> DEFINE g == [n \in Nat |-> [b \in Nat |-> b + Cost(offer, n)]]
           body(f) == [n \in Nat |-> IF n = 0 THEN 0 ELSE f[n - 1] + Cost(offer, n)]
<1>2. g \in [Nat -> [Nat -> Nat]]
  <2>1. ASSUME NEW n \in Nat PROVE Cost(offer, n) \in Nat BY DEF Cost, Offers
  <2> QED BY <2>1
<1>3. \A n \in Nat, b \in Nat : g[n][b] = b + Cost(offer, n)
  OBVIOUS
<1> HIDE DEF g
<1>4. PICK f : Follows(f, Nat, 0, g) BY <1>2, Recursion
<1>5. f = body(f)
  <2>0. /\ f \in [Nat -> Nat] /\ f[0] = 0
        /\ \A n \in Nat : f[n + 1] = g[n + 1][f[n]]
    BY <1>4 DEF Follows
  <2>1. ASSUME NEW n \in Nat PROVE f[n] = body(f)[n]
    <3>1. CASE n = 0 BY <2>0, <3>1
    <3>2. CASE n # 0
      <4>1. n - 1 \in Nat /\ (n - 1) + 1 = n BY <3>2
      <4>2. f[n] = g[n][f[n - 1]] BY <2>0, <4>1
      <4> QED BY <1>3, <2>0, <3>2, <4>1, <4>2
    <3> QED BY <3>1, <3>2
  <2> QED BY <2>0, <2>1
<1>6. Totals(offer) = CHOOSE r : r = body(r) BY DEF Totals, Cost
<1>7. Totals(offer) = body(Totals(offer)) BY <1>5, <1>6
<1> HIDE DEF body
<1>8. Totals(offer)[0] = 0 BY <1>7 DEF body
<1>9. ASSUME NEW n \in Nat PROVE Totals(offer)[n + 1] = Totals(offer)[n] + Cost(offer, n + 1)
  <2>1. n + 1 \in Nat /\ n + 1 # 0 /\ (n + 1) - 1 = n
    OBVIOUS
  <2> QED BY <1>7, <2>1 DEF body
<1> QED BY <1>8, <1>9

(* What the buffer holds after n episodes.                                 *)
UpTo(offer, budget, k, buf) ==
  /\ {buf.shown[j] : j \in DOMAIN buf.shown} = {i \in offer.candidates : i <= k}
  /\ \A j, l \in DOMAIN buf.shown : j < l => buf.shown[j] > buf.shown[l]
  /\ buf.used = Totals(offer)[k] /\ Totals(offer)[k] <= budget
Filled(offer, budget, n, buf) ==
  /\ buf \in Buffers
  /\ \E k \in 0 .. n :
       /\ UpTo(offer, budget, k, buf)
       /\ IF buf.exceeded
          THEN k < n /\ k + 1 \in offer.candidates /\ Totals(offer)[k + 1] > budget
          ELSE k = n

LEMMA ShownGrows ==
  ASSUME NEW s \in Seq(Nat), NEW n \in Nat, \A j \in DOMAIN s : s[j] <= n,
         \A j, l \in DOMAIN s : j < l => s[j] > s[l]
  PROVE  LET t == <<n + 1>> \o s IN
         /\ t \in Seq(Nat)
         /\ {t[j] : j \in DOMAIN t} = {s[j] : j \in DOMAIN s} \cup {n + 1}
         /\ \A j, l \in DOMAIN t : j < l => t[j] > t[l]
<1> DEFINE t == <<n + 1>> \o s
<1>1. /\ t \in Seq(Nat) /\ Len(s) \in Nat /\ DOMAIN s = 1 .. Len(s)
      /\ DOMAIN t = 1 .. Len(s) + 1 /\ t[1] = n + 1
      /\ \A j \in 1 .. Len(s) : t[1 + j] = s[j]
  OBVIOUS
<1> HIDE DEF t
<1>2. \A j \in 1 .. Len(s) + 1 : j = 1 \/ (j - 1 \in 1 .. Len(s) /\ t[j] = s[j - 1])
  <2> SUFFICES ASSUME NEW j \in 1 .. Len(s) + 1, j # 1
               PROVE  j - 1 \in 1 .. Len(s) /\ t[j] = s[j - 1]
    OBVIOUS
  <2>1. j - 1 \in 1 .. Len(s) /\ 1 + (j - 1) = j BY <1>1
  <2> QED BY <1>1, <2>1
<1>3. \A j \in 1 .. Len(s) : 1 + j \in 1 .. Len(s) + 1 BY <1>1
<1>4. 1 \in 1 .. Len(s) + 1 BY <1>1
<1>5. {s[j] : j \in DOMAIN s} \cup {n + 1} \subseteq {t[j] : j \in DOMAIN t}
  <2>1. \A j \in 1 .. Len(s) : 1 + j \in DOMAIN t /\ t[1 + j] = s[j] BY <1>1, <1>3
  <2>2. 1 \in DOMAIN t /\ t[1] = n + 1 BY <1>1, <1>4
  <2>3. ASSUME NEW j \in DOMAIN s PROVE s[j] \in {t[i] : i \in DOMAIN t}
    <3>1. j \in 1 .. Len(s) BY <1>1
    <3> QED BY <2>1, <3>1
  <2>4. n + 1 \in {t[i] : i \in DOMAIN t} BY <2>2
  <2> QED BY <2>3, <2>4
<1>6. {t[j] : j \in DOMAIN t} \subseteq {s[j] : j \in DOMAIN s} \cup {n + 1}
  <2>1. ASSUME NEW j \in DOMAIN t PROVE t[j] \in {s[i] : i \in DOMAIN s} \cup {n + 1}
    <3>1. j \in 1 .. Len(s) + 1 BY <1>1
    <3>2. CASE j = 1 BY <1>1, <3>2
    <3>3. CASE j # 1
      <4>1. j - 1 \in DOMAIN s /\ t[j] = s[j - 1] BY <1>1, <1>2, <3>1, <3>3
      <4> QED BY <4>1
    <3> QED BY <3>2, <3>3
  <2> QED BY <2>1
<1>7. ASSUME NEW j \in DOMAIN t, NEW l \in DOMAIN t, j < l PROVE t[j] > t[l]
  <2>1. l # 1 /\ l - 1 \in 1 .. Len(s) /\ t[l] = s[l - 1] BY <1>1, <1>2, <1>7, SMTT(30)
  <2>2. s[l - 1] \in Nat BY <1>1, <2>1, SMTT(30)
  <2>3. CASE j = 1 BY <1>1, <2>1, <2>2, <2>3
  <2>4. CASE j # 1
    <3>1. j - 1 \in 1 .. Len(s) /\ t[j] = s[j - 1] /\ j - 1 < l - 1 BY <1>1, <1>2, <1>7, <2>4, SMTT(30)
    <3> QED BY <1>1, <2>1, <3>1
  <2> QED BY <2>3, <2>4
<1> QED BY <1>1, <1>5, <1>6, <1>7 DEF t


LEMMA TotalsAreNat ==
  ASSUME NEW offer \in Offers PROVE \A n \in Nat : Totals(offer)[n] \in Nat
<1> DEFINE S == {n \in Nat : Totals(offer)[n] \in Nat}
<1>1. 0 \in S BY TotalsAdvance
<1>2. ASSUME NEW n \in Nat, n \in S PROVE n + 1 \in S
  <2>1. Cost(offer, n + 1) \in Nat BY DEF Cost, Offers
  <2> QED BY <1>2, <2>1, TotalsAdvance
<1> HIDE DEF S
<1>3. Nat \subseteq S BY <1>1, <1>2, NaturalsBySteps
<1> QED BY <1>3 DEF S

LEMMA FilledStep ==
  ASSUME NEW offer \in Offers, NEW budget \in Nat, NEW n \in Nat, NEW buf,
         Filled(offer, budget, n, buf)
  PROVE  Filled(offer, budget, n + 1, TakenIn(offer, budget, n + 1, buf))
<1> DEFINE m == n + 1
           T == Totals(offer)
           new == TakenIn(offer, budget, m, buf)
<1>1. PICK k \in 0 .. n :
        /\ UpTo(offer, budget, k, buf)
        /\ IF buf.exceeded
           THEN k < n /\ k + 1 \in offer.candidates /\ T[k + 1] > budget
           ELSE k = n
  BY DEF Filled
<1>2. buf \in Buffers BY DEF Filled
<1>3. new \in Buffers BY <1>2, TakenIsBuffer
<1>4. T[m] = T[n] + Cost(offer, m) /\ T[n] \in Nat /\ T[m] \in Nat /\ m \in Nat
  BY TotalsAdvance, TotalsAreNat
<1>5. offer.candidates \subseteq Nat BY DEF Offers
<1> HIDE DEF T, new, m
<1>a. m = n + 1 BY DEF m
<1>6. CASE m \notin offer.candidates
  <2>1. new = buf BY <1>6 DEF new, TakenIn
  <2>2. CASE buf.exceeded
    <3>1. k \in 0 .. m /\ k < m BY <1>a, <1>1
    <3> QED BY <1>1, <1>3, <2>1, <2>2, <3>1 DEF Filled, new, m, T
  <2>3. CASE ~buf.exceeded
    <3>1. k = n /\ T[m] = T[k] BY <1>1, <1>4, <1>6, <2>3 DEF Cost
    <3>2. {i \in offer.candidates : i <= k} = {i \in offer.candidates : i <= m}
      BY <1>a, <1>5, <1>6, <3>1
    <3>3. UpTo(offer, budget, m, buf) BY <1>1, <3>1, <3>2 DEF UpTo, T
    <3>4. m \in 0 .. m BY <1>4
    <3> QED BY <1>3, <2>1, <2>3, <3>3, <3>4 DEF Filled, new, m, T
  <2> QED BY <2>2, <2>3
<1>7. CASE m \in offer.candidates
  <2> DEFINE tokens == offer.tokens[m]
  <2>1. tokens \in Nat /\ Cost(offer, m) = tokens BY <1>7 DEF Offers, Cost
  <2>2. new = Take(buf, m, tokens, budget) BY <1>7 DEF new, TakenIn
  <2> HIDE DEF tokens
  <2>3. buf.used \in Nat /\ buf.shown \in Seq(Nat) /\ buf.exceeded \in BOOLEAN
    BY <1>2 DEF Buffers
  <2>4. CASE buf.exceeded
    <3>1. new = [buf EXCEPT !.exceeded = TRUE] BY <2>2, <2>4 DEF Take
    <3>2. new.shown = buf.shown /\ new.used = buf.used /\ new.exceeded
      BY <1>2, <3>1 DEF Buffers
    <3>3. k \in 0 .. m /\ k < m BY <1>a, <1>1
    <3>4. UpTo(offer, budget, k, new) BY <1>1, <3>2 DEF UpTo
    <3> QED BY <1>1, <1>3, <2>4, <3>2, <3>3, <3>4 DEF Filled, new, m, T
  <2>5. CASE ~buf.exceeded /\ buf.used + tokens > budget
    <3>1. new = [buf EXCEPT !.exceeded = TRUE] BY <2>2, <2>5 DEF Take
    <3>2. new.shown = buf.shown /\ new.used = buf.used /\ new.exceeded
      BY <1>2, <3>1 DEF Buffers
    <3>3. k = n /\ buf.used = T[n] BY <1>1, <2>5 DEF UpTo, T
    <3>4. T[k + 1] > budget /\ k + 1 \in offer.candidates /\ k \in 0 .. m /\ k < m
      BY <1>a, <1>4, <1>7, <2>1, <2>5, <3>3
    <3>5. UpTo(offer, budget, k, new) BY <1>1, <3>2 DEF UpTo
    <3> QED BY <1>3, <3>2, <3>4, <3>5 DEF Filled, new, m, T
  <2>6. CASE ~buf.exceeded /\ ~(buf.used + tokens > budget)
    <3>1. new = [buf EXCEPT !.used = buf.used + tokens, !.shown = <<m>> \o buf.shown]
      BY <2>2, <2>6 DEF Take
    <3>2. new.shown = <<m>> \o buf.shown /\ new.used = buf.used + tokens /\ ~new.exceeded
      BY <1>2, <2>6, <3>1 DEF Buffers
    <3>3. k = n /\ UpTo(offer, budget, n, buf) BY <1>1, <2>6
    <3>4. new.used = T[m] /\ T[m] <= budget BY <1>4, <2>1, <2>3, <2>6, <3>2, <3>3 DEF UpTo, T
    <3>5. /\ {buf.shown[j] : j \in DOMAIN buf.shown} = {i \in offer.candidates : i <= n}
          /\ \A j, l \in DOMAIN buf.shown : j < l => buf.shown[j] > buf.shown[l]
      BY <3>3 DEF UpTo
    <3>6. \A j \in DOMAIN buf.shown : buf.shown[j] <= n BY <3>5
    <3> DEFINE t == <<n + 1>> \o buf.shown
    <3>7. /\ {t[j] : j \in DOMAIN t} = {buf.shown[j] : j \in DOMAIN buf.shown} \cup {n + 1}
          /\ \A j, l \in DOMAIN t : j < l => t[j] > t[l]
      BY <2>3, <3>5, <3>6, ShownGrows
    <3>8. new.shown = t BY <1>a, <3>2
    <3> HIDE DEF t
    <3>9. {i \in offer.candidates : i <= m} = {i \in offer.candidates : i <= n} \cup {n + 1}
      BY <1>a, <1>5, <1>7
    <3>10. UpTo(offer, budget, m, new) BY <3>4, <3>5, <3>7, <3>8, <3>9 DEF UpTo, T
    <3>11. m \in 0 .. m BY <1>4
    <3> QED BY <1>3, <3>2, <3>10, <3>11 DEF Filled, new, m, T
  <2> QED BY <2>3, <2>4, <2>5, <2>6
<1> QED BY <1>6, <1>7

LEMMA FillHasNoHoles ==
  ASSUME NEW offer \in Offers, NEW budget \in Nat
  PROVE  NewestThatFit(offer, budget, Fill(offer, budget))
<1> DEFINE f == Filling(offer, budget)
           S == {n \in Nat : Filled(offer, budget, n, f[n])}
<1>1. f[0] = NoParts /\ \A n \in Nat : f[n + 1] = TakenIn(offer, budget, n + 1, f[n])
  BY FillingAdvances
<1> HIDE DEF f
<1>2. 0 \in S
  <2>1. NoParts \in Buffers
    <3>1. <<>> \in Seq(Nat)
      OBVIOUS
    <3> QED BY <3>1 DEF NoParts, Buffers
  <2>2. \A i \in offer.candidates : i > 0 BY DEF Offers
  <2>3. Totals(offer)[0] = 0 BY TotalsAdvance
  <2>4. {i \in offer.candidates : i <= 0} = {} BY <2>2 DEF Offers
  <2>5. UpTo(offer, budget, 0, NoParts) BY <2>3, <2>4 DEF UpTo, NoParts
  <2>6. Filled(offer, budget, 0, NoParts) BY <2>1, <2>5 DEF Filled, NoParts
  <2> QED BY <1>1, <2>6
<1>3. ASSUME NEW n \in Nat, n \in S PROVE n + 1 \in S
  <2>1. Filled(offer, budget, n, f[n]) BY <1>3
  <2>2. Filled(offer, budget, n + 1, TakenIn(offer, budget, n + 1, f[n])) BY <2>1, FilledStep
  <2> QED BY <1>1, <2>2
<1> HIDE DEF S
<1>4. Nat \subseteq S BY <1>2, <1>3, NaturalsBySteps
<1>5. Len(offer.tokens) \in Nat BY DEF Offers
<1>6. Filled(offer, budget, Len(offer.tokens), f[Len(offer.tokens)]) BY <1>4, <1>5 DEF S
<1>7. Fill(offer, budget) = f[Len(offer.tokens)].shown BY DEF Fill, f
<1>8. PICK k \in 0 .. Len(offer.tokens) :
        /\ UpTo(offer, budget, k, f[Len(offer.tokens)])
        /\ k < Len(offer.tokens) =>
             k + 1 \in offer.candidates /\ Totals(offer)[k + 1] > budget
  BY <1>5, <1>6 DEF Filled
<1> QED BY <1>7, <1>8 DEF NewestThatFit, UpTo


(* The logs that Engram returns offer what the two loops can use.          *)
LEMMA TokensAreNat ==
  ASSUME NEW ep \in Episode, NEW forms \in Seq({"full", "c32", "c16", "c8", "count"})
  PROVE  Tokens(ep, forms) \in Nat
<1> DEFINE had == {k \in DOMAIN forms : ep[forms[k]] > 0}
<1>1. CASE had = {} BY <1>1 DEF Tokens
<1>2. CASE had # {}
  <2>1. had \in SUBSET Nat
    OBVIOUS
  <2>2. PICK k \in had : \A j \in had : k <= j
    <3> HIDE DEF had
    <3> QED BY <1>2, <2>1, LeastElement
  <2> DEFINE first == CHOOSE i \in had : \A j \in had : i <= j
  <2>3. first \in had BY <2>2
  <2>4. ep[forms[first]] \in Nat
    <3>1. first \in DOMAIN forms BY <2>3
    <3>2. forms[first] \in {"full", "c32", "c16", "c8", "count"} BY <3>1
    <3> HIDE DEF first
    <3> QED BY <3>2 DEF Episode
  <2>5. Tokens(ep, forms) = ep[forms[first]] BY <1>2 DEF Tokens
  <2> HIDE DEF first
  <2> QED BY <2>4, <2>5
<1> QED BY <1>1, <1>2

LEMMA FetchedLog ==
  ASSUME NEW l \in Seq(Episode), NEW limit \in Nat
  PROVE  Fetch(l, limit) \in Seq(Episode)
<1>1. CASE Len(l) <= limit BY <1>1 DEF Fetch
<1>2. CASE ~(Len(l) <= limit)
  <2>1. SubSeq(l, 1, limit) \in Seq(Episode)
    <3> HIDE DEF Episode
    <3>1. \A i \in 1 .. limit : l[i] \in Episode BY <1>2
    <3> QED BY <3>1, SubSeqProperties
  <2> QED BY <1>2, <2>1 DEF Fetch
<1> QED BY <1>1, <1>2

LEMMA FunctionIsSequence ==
  ASSUME NEW S, NEW n \in Nat, NEW f \in [1 .. n -> S] PROVE f \in Seq(S)
BY SeqDef

LEMMA OffersMade ==
  ASSUME NEW l \in Seq(Episode)
  PROVE  Offer(l) \in Offers /\ WakeOffer(l) \in Offers
<1> DEFINE tokens == [i \in DOMAIN l |-> Tokens(l[i], Forms(i))]
           wakeTokens == [i \in DOMAIN l |-> Tokens(l[i], WakeForms)]
<1>1. Len(l) \in Nat /\ DOMAIN l = 1 .. Len(l) /\ \A i \in DOMAIN l : l[i] \in Episode
  <2> HIDE DEF Episode
  <2> QED
    OBVIOUS
<1>2. ASSUME NEW i \in DOMAIN l PROVE Tokens(l[i], Forms(i)) \in Nat
  <2>1. Forms(i) \in {<<"full">>, <<"c32", "c8", "full">>, <<"c8", "full">>, <<"c8", "count">>}
    BY <1>1, ConversationConstants DEF Forms, Base
  <2>2. /\ <<"full">> \in Seq({"full", "c32", "c16", "c8", "count"})
        /\ <<"c32", "c8", "full">> \in Seq({"full", "c32", "c16", "c8", "count"})
        /\ <<"c8", "full">> \in Seq({"full", "c32", "c16", "c8", "count"})
        /\ <<"c8", "count">> \in Seq({"full", "c32", "c16", "c8", "count"})
    OBVIOUS
  <2>3. Forms(i) \in Seq({"full", "c32", "c16", "c8", "count"}) BY <2>1, <2>2
  <2> QED BY <1>1, <2>3, TokensAreNat
<1>3. ASSUME NEW i \in DOMAIN l PROVE Tokens(l[i], WakeForms) \in Nat
  <2>1. WakeForms \in Seq({"full", "c32", "c16", "c8", "count"}) BY DEF WakeForms
  <2> QED BY <1>1, <2>1, TokensAreNat
<1>4. tokens \in [1 .. Len(l) -> Nat] /\ wakeTokens \in [1 .. Len(l) -> Nat]
  BY <1>1, <1>2, <1>3
<1>5. Offer(l) = [candidates |-> {i \in DOMAIN l : i <= Base \/ l[i].open}, tokens |-> tokens]
      /\ WakeOffer(l) = [candidates |-> DOMAIN l, tokens |-> wakeTokens]
  BY DEF Offer, WakeOffer
<1> HIDE DEF tokens, wakeTokens
<1>6. tokens \in Seq(Nat) /\ wakeTokens \in Seq(Nat) /\ DOMAIN tokens = DOMAIN l
      /\ DOMAIN wakeTokens = DOMAIN l
  <2>1. tokens \in Seq(Nat) BY <1>1, <1>4, FunctionIsSequence
  <2>2. wakeTokens \in Seq(Nat) BY <1>1, <1>4, FunctionIsSequence
  <2>3. DOMAIN tokens = 1 .. Len(l) /\ DOMAIN wakeTokens = 1 .. Len(l) BY <1>4
  <2> QED BY <1>1, <2>1, <2>2, <2>3
<1>7. DOMAIN l \subseteq Nat \ {0} BY <1>1
<1> QED BY <1>5, <1>6, <1>7 DEF Offers

(* What is shown of a log in a turn on the item, as the property says it.  *)
HasNoHoles(l, isWake, shown) ==
  LET of == Fetch(l, IF isWake THEN WakeLimit ELSE FetchLimit)
  IN NewestThatFit(IF isWake THEN WakeOffer(of) ELSE Offer(of),
                   IF isWake THEN WakeBudget ELSE TokenBudget, shown)

LEMMA ContextHasNoHoles ==
  ASSUME NEW l \in Seq(Episode), NEW i
  PROVE  HasNoHoles(l, i \in WakeItem, Context(i, l))
<1>1. CASE i \in WakeItem
  <2>1. WakeOffer(Fetch(l, WakeLimit)) \in Offers
    BY ConversationConstants, FetchedLog, OffersMade
  <2> QED BY <1>1, <2>1, ConversationConstants, FillHasNoHoles
          DEF HasNoHoles, Context, WakeConversation
<1>2. CASE i \notin WakeItem
  <2>1. Offer(Fetch(l, FetchLimit)) \in Offers
    BY ConversationConstants, FetchedLog, OffersMade
  <2> QED BY <1>2, <2>1, ConversationConstants, FillHasNoHoles
          DEF HasNoHoles, Context, RecentConversation
<1> QED BY <1>1, <1>2

(* The bundle belongs to the turn: its items are all wake-ups or none is,  *)
(* and they stay the same until the turn ends.                             *)
Talking(t) == pc[t] \in {"register", "send", "running", "interrupted", "rebuild",
                         "validate", "leave"}
AlikeBatches ==
  \A t \in Thread : \A i, j \in batch[t] : i \in WakeItem => j \in WakeItem
BundlesFit ==
  \A t \in Thread : bundle[t].of # <<>> =>
    Talking(t) /\ HasNoHoles(bundle[t].of, batch[t] \subseteq WakeItem, bundle[t].shown)
TalkInv ==
  /\ log \in Logs /\ DOMAIN bundle = Thread
  /\ AlikeBatches /\ BundlesFit

LEMMA TalkInit == PromptsInit => TalkInv
<1> SUFFICES ASSUME PromptsInit PROVE TalkInv
  OBVIOUS
<1>1. /\ log \in Logs /\ batch = [t \in Thread |-> {}]
      /\ bundle = [t \in Thread |-> NoTalk]
  BY DEF PromptsInit, RepliesInit, Init, LoopInit, Each
<1> QED BY <1>1 DEF TalkInv, AlikeBatches, BundlesFit, NoTalk

(* Nothing is built, and no turn with a bundle ends or gets other items.   *)
LEMMA TalkGoesOn ==
  ASSUME TalkInv, UNCHANGED <<log, bundle>>,
         \A t \in Thread : Talking(t) => pc'[t] \in {"register", "send", "running",
             "interrupted", "rebuild", "validate", "leave"} /\ batch'[t] = batch[t],
         AlikeBatches'
  PROVE  TalkInv'
BY DEF TalkInv, BundlesFit, Talking


LEMMA LoopKeepsTalking ==
  ASSUME LoopTypeOK, AlikeBatches, P1Step \/ BgStep
  PROVE  /\ AlikeBatches'
         /\ \A t \in Thread : Talking(t) => pc'[t] = pc[t] /\ batch'[t] = batch[t]
<1> USE DEF LoopTypeOK
<1>1. CASE P1Pop
  <2>1. /\ batch' = [batch EXCEPT !["p1"] = UrgentItems] /\ pc["p1"] = "drain"
        /\ \A t \in Thread : t # "p1" => pc'[t] = pc[t]
    BY <1>1 DEF P1Pop, Goto
  <2>2. \A i \in UrgentItems : i \notin WakeItem
    BY WakeItemType, PriorityType DEF UrgentItems, Background, P1UserInput, P2DueTask
  <2>3. AlikeBatches' BY <2>1, <2>2 DEF AlikeBatches, Thread
  <2> QED BY <2>1, <2>3 DEF Talking, Thread
<1>2. CASE BgPop
  <2>1. /\ pc["bg"] = "pop" /\ \A t \in Thread : t # "bg" => pc'[t] = pc[t]
        /\ \/ batch' = batch
           \/ \E i \in Item : batch' = [batch EXCEPT !["bg"] = {i}]
    BY <1>2 DEF BgPop, Goto
  <2>2. AlikeBatches' BY <2>1 DEF AlikeBatches, Thread
  <2> QED BY <2>1, <2>2 DEF Talking, Thread
<1>3. CASE P1Exit \/ BgExit
  <2>1. PICK u \in Thread : /\ batch' = [batch EXCEPT ![u] = {}] /\ pc[u] = "exit"
                            /\ \A t \in Thread : t # u => pc'[t] = pc[t]
    BY <1>3 DEF P1Exit, BgExit, DrainAgain, Goto, Thread
  <2>2. AlikeBatches' BY <2>1 DEF AlikeBatches
  <2> QED BY <2>1, <2>2 DEF Talking
<1>4. CASE P1Wake \/ RequestBackgroundInterrupt \/ P1Activate \/ BgCheck \/ BgRegister
  <2>1. PICK u \in Thread : /\ batch' = batch
                            /\ pc[u] \in {"wait", "interrupt", "taken"}
                            /\ \A t \in Thread : t # u => pc'[t] = pc[t]
    BY <1>4 DEF P1Wake, RequestBackgroundInterrupt, P1Activate, BgCheck, BgRegister,
                Advance, Goto, laneVars, Thread
  <2>2. AlikeBatches' BY <2>1 DEF AlikeBatches
  <2> QED BY <2>1, <2>2 DEF Talking
<1> QED BY <1>1, <1>2, <1>3, <1>4 DEF P1Step, BgStep

LEMMA TurnKeepsTalking ==
  ASSUME LoopTypeOK, NEW u \in Thread, SendingStep(u) \/ Rebuild(u) \/ Validate(u)
  PROVE  /\ UNCHANGED batch
         /\ \A t \in Thread : Talking(t) =>
              pc'[t] \in {"register", "send", "running", "interrupted", "rebuild",
                          "validate", "leave"}
<1>1. CASE Prepare(u) \/ Interrupted(u) \/ Validate(u) \/ SendReturns(u)
  <2>1. /\ UNCHANGED batch
        /\ \/ pc[u] = "prepare" /\ pc' = [pc EXCEPT ![u] = "build"]
           \/ \E l \in {"interrupted", "rebuild", "validate", "leave"} :
                pc' = [pc EXCEPT ![u] = l]
    BY <1>1 DEF Prepare, Interrupted, Validate, SendReturns, Running, Advance, Goto, laneVars
  <2> QED BY <2>1 DEF LoopTypeOK, Talking
<1>2. CASE Register(u) \/ SendPrompt(u) \/ Rebuild(u)
  <2>1. UNCHANGED batch /\ \E l \in {"send", "running"} : pc' = [pc EXCEPT ![u] = l]
    BY <1>2 DEF Register, SendPrompt, Rebuild, Goto, laneVars
  <2> QED BY <2>1 DEF LoopTypeOK, Talking
<1> QED BY <1>1, <1>2 DEF SendingStep

LEMMA OutsideKeepsTalking == Outside => UNCHANGED <<pc, batch>>
BY OutsideStays DEF Outside, AddPending, SignalDone, MemoryReset, InterruptCurrentSession,
   WakeTimeout, ResetSession, ResetSignalsDone, laneVars

(* A step that leaves bundles alone.                                       *)
LEMMA TalkKept ==
  ASSUME LoopTypeOK, TalkInv, UNCHANGED <<log, bundle>>,
         \/ Outside \/ P1Step \/ BgStep
         \/ UNCHANGED <<pc, batch>>
         \/ \E u \in Thread : SendingStep(u) \/ Rebuild(u) \/ Validate(u)
  PROVE  TalkInv'
<1>0. ASSUME UNCHANGED batch PROVE AlikeBatches' BY <1>0 DEF TalkInv, AlikeBatches
<1>1. CASE P1Step \/ BgStep
  <2>1. AlikeBatches BY DEF TalkInv
  <2>2. /\ AlikeBatches'
        /\ \A t \in Thread : Talking(t) => pc'[t] = pc[t] /\ batch'[t] = batch[t]
    BY <1>1, <2>1, LoopKeepsTalking
  <2> QED BY <2>2, TalkGoesOn DEF Talking
<1>2. CASE UNCHANGED <<pc, batch>> BY <1>0, <1>2, TalkGoesOn DEF Talking
<1>3. ASSUME NEW u \in Thread, SendingStep(u) \/ Rebuild(u) \/ Validate(u) PROVE TalkInv'
  BY <1>0, <1>3, TurnKeepsTalking, TalkGoesOn
<1> QED BY <1>1, <1>2, <1>3, OutsideKeepsTalking

LEMMA TalkBuilt ==
  ASSUME LoopTypeOK, TalkInv, NEW t \in Thread, BuildContextAndPrompt(t)
  PROVE  TalkInv'
<1>1. PICK i \in batch[t], answer \in {log, <<>>} :
        bundle' = [bundle EXCEPT ![t] = [of |-> answer, shown |-> Context(i, answer)]]
  BY DEF BuildContextAndPrompt
<1>2. UNCHANGED <<log, batch>> /\ pc' = [pc EXCEPT ![t] = "register"]
  BY DEF BuildContextAndPrompt, InstallCallbacks, Build, Advance, Goto, laneVars
<1>3. AlikeBatches' BY <1>2 DEF TalkInv, AlikeBatches
<1>4. answer # <<>> => HasNoHoles(answer, batch[t] \subseteq WakeItem, Context(i, answer))
  <2> SUFFICES ASSUME answer # <<>>
               PROVE  HasNoHoles(answer, batch[t] \subseteq WakeItem, Context(i, answer))
    OBVIOUS
  <2>1. answer \in Seq(Episode) BY LogsType DEF TalkInv
  <2>2. (i \in WakeItem) = (batch[t] \subseteq WakeItem) BY <1>1 DEF TalkInv, AlikeBatches
  <2>3. HasNoHoles(answer, i \in WakeItem, Context(i, answer)) BY <2>1, ContextHasNoHoles
  <2> QED BY <2>2, <2>3
<1>5. /\ bundle'[t] = [of |-> answer, shown |-> Context(i, answer)]
      /\ \A u \in Thread : u # t => bundle'[u] = bundle[u]
      /\ DOMAIN bundle' = Thread
  BY <1>1 DEF TalkInv
<1>6. \A u \in Thread : Talking(u) \/ u = t => pc'[u] \in {"register", "send", "running",
            "interrupted", "rebuild", "validate", "leave"}
  BY <1>2 DEF LoopTypeOK, Talking
<1>7. BundlesFit'
  <2> SUFFICES ASSUME NEW u \in Thread, bundle'[u].of # <<>>
               PROVE  Talking(u)' /\ HasNoHoles(bundle'[u].of, batch'[u] \subseteq WakeItem,
                                                bundle'[u].shown)
    BY DEF BundlesFit
  <2>1. CASE u = t BY <1>2, <1>4, <1>5, <1>6, <2>1 DEF Talking
  <2>2. CASE u # t BY <1>2, <1>5, <1>6, <2>2 DEF Talking, TalkInv, BundlesFit
  <2> QED BY <2>1, <2>2
<1> QED BY <1>2, <1>3, <1>5, <1>7 DEF TalkInv

LEMMA TalkStep ==
  ASSUME LoopTypeOK, TalkInv, [PromptsNext]_allVars
  PROVE  TalkInv'
<1>1. ASSUME NEW t \in Thread, BuildContextAndPrompt(t) PROVE TalkInv'
  BY <1>1, TalkBuilt
<1>2. ASSUME NEW t \in Thread, BuildPromptAgain(t) PROVE TalkInv'
  BY <1>2, TalkKept DEF BuildPromptAgain, Retry
<1>3. ASSUME NEW t \in Thread, TruncateHandoff(t) PROVE TalkInv'
  BY <1>3, TalkKept DEF TruncateHandoff, execVars, laneVars
<1>4. ASSUME NEW t \in Thread, SendingEnds(t) PROVE TalkInv'
  BY <1>4, TalkKept DEF SendingEnds, SendingStep
<1>5. ASSUME NEW t \in Thread, LeaveNote(t) PROVE TalkInv'
  <2>1. Outside BY <1>5 DEF LeaveNote, Outside
  <2> QED BY <1>5, <2>1, TalkKept DEF LeaveNote
<1>6. ASSUME NEW t \in Thread, EndPrompt(t) PROVE TalkInv'
  <2>1. /\ bundle' = [bundle EXCEPT ![t] = NoTalk] /\ UNCHANGED <<log, batch>>
        /\ pc' = [pc EXCEPT ![t] = "exit"]
    BY <1>6 DEF EndPrompt, EndTurn, Leave, Goto, laneVars
  <2>2. /\ DOMAIN bundle' = Thread /\ bundle'[t].of = <<>>
        /\ \A u \in Thread : u # t => bundle'[u] = bundle[u] /\ pc'[u] = pc[u]
    BY <2>1 DEF TalkInv, NoTalk, LoopTypeOK
  <2> QED BY <2>1, <2>2 DEF TalkInv, AlikeBatches, BundlesFit, Talking
<1>7. CASE RestartPrompts
  <2>1. /\ bundle' = [t \in Thread |-> NoTalk] /\ UNCHANGED log
        /\ batch' = [t \in Thread |-> {}]
    BY <1>7 DEF RestartPrompts, LoopRestart, Each
  <2> QED BY <2>1 DEF TalkInv, AlikeBatches, BundlesFit, NoTalk
<1>8. CASE RepliesOnly
  <2>1. UNCHANGED <<log, bundle>> BY <1>8 DEF RepliesOnly, promptVars
  <2>2. ASSUME NEW t \in Thread, Respond(t) \/ Conclude(t)
        PROVE  Validate(t) \/ UNCHANGED <<pc, batch>>
    BY <2>2 DEF Respond, Conclude, execVars, laneVars
  <2>3. ASSUME NEW t \in Thread,
               Prepare(t) \/ Interrupted(t) \/ Register(t) \/ SendPrompt(t)
        PROVE  SendingStep(t)
    BY <2>3 DEF SendingStep
  <2>4. \/ Outside \/ P1Step \/ BgStep
        \/ UNCHANGED <<pc, batch>>
        \/ \E u \in Thread : SendingStep(u) \/ Rebuild(u) \/ Validate(u)
    BY <1>8, <2>2, <2>3 DEF RepliesOnly
  <2> QED BY <2>1, <2>4, TalkKept
<1>9. CASE UNCHANGED allVars
  BY <1>9, TalkKept DEF allVars, promptVars, execVars, laneVars
<1> QED BY <1>1, <1>2, <1>3, <1>4, <1>5, <1>6, <1>7, <1>8, <1>9 DEF PromptsNext

(* The conversation in a prompt is the longest run of candidates from the  *)
(* newest on that the budget allows, oldest first: for logs, tiers and     *)
(* budgets of any size.                                                    *)
THEOREM ConversationIsWhole == PromptsSpec => []ConversationHasNoHoles
<1>1. LoopTypeOK /\ TalkInv /\ [PromptsNext]_allVars => TalkInv' BY TalkStep
<1>2. TalkInv => ConversationHasNoHoles
  BY DEF TalkInv, BundlesFit, HasNoHoles, ConversationHasNoHoles
<1> QED BY <1>1, <1>2, TalkInit, PromptsLoopTypes, PTL DEF PromptsSpec


-----------------------------------------------------------------------------
(* What the Claude session remembers between prompts.                      *)

(* The session's steps are the executive's, or a restart.                  *)
LEMMA SessionStep == [SessionNext]_sessVars => [Next]_execVars \/ LoopRestart
<1> SUFFICES ASSUME [SessionNext]_sessVars PROVE [Next]_execVars \/ LoopRestart
  OBVIOUS
<1>1. ASSUME NEW t \in Thread, TurnOfSession(t) PROVE [Next]_execVars
  <2>1. CASE Decide(t) \/ StreamEvent(t)
    BY <2>1 DEF Decide, StreamEvent
  <2>2. CASE PrepareSession(t) \/ BuildPrompt(t) \/ Send(t) \/ Return(t)
    BY <2>2 DEF PrepareSession, BuildPrompt, Send, Return, Next, TurnStep,
                RecordingStep, SendingStep
  <2>3. CASE RebuildPrompt(t) \/ SaveSession(t) \/ Finish(t)
    BY <2>3 DEF RebuildPrompt, SaveSession, Finish, Next, TurnStep, RecordingStep
  <2> QED BY <1>1, <2>1, <2>2, <2>3 DEF TurnOfSession
<1>2. CASE Reset BY <1>2 DEF Reset, Next, Outside
<1>3. CASE Restart BY <1>3 DEF Restart
<1>4. CASE Elsewhere
  BY <1>4 DEF Elsewhere, Next, Outside, TurnStep, SendingStep
<1>5. CASE UNCHANGED sessVars BY <1>5 DEF sessVars
<1> QED BY <1>1, <1>2, <1>3, <1>4, <1>5 DEF SessionNext

LEMMA SessionUsesQueue == SessionSpec => QueueSpec
<1>1. SessionInit => QueueInit BY DEF SessionInit, Init
<1>2. [SessionNext]_sessVars => [QueueNext]_queueVars
  <2>1. LoopRestart => QueueNext BY DEF LoopRestart, QueueNext
  <2> QED BY <2>1, SessionStep, QueueStep
<1> QED BY <1>1, <1>2, PTL DEF SessionSpec, QueueSpec

(* The goroutines stay well typed over resumes, retries and restarts.      *)
THEOREM SessionLoopTypeCorrect == SessionSpec => []LoopTypeOK
<1>1. SessionInit => LoopTypeOK BY LoopTypeInit DEF SessionInit
<1>2. LoopTypeOK /\ QueueTypeOK /\ [SessionNext]_sessVars => LoopTypeOK'
  BY SessionStep, LoopTypeStep, RestartTypes
<1>3. SessionSpec => []QueueTypeOK BY SessionUsesQueue, TypeCorrect, PTL
<1> QED BY <1>1, <1>2, <1>3, PTL DEF SessionSpec

(* The sessions exclude each other over restarts as well.                  *)
THEOREM SessionOneAtATime == SessionSpec => []OneSessionAtATime
<1>1. SessionInit => OneSessionAtATime
  BY DEF SessionInit, Init, LoopInit, OneSessionAtATime, Running
<1>2. LoopTypeOK /\ OneSessionAtATime /\ [SessionNext]_sessVars => OneSessionAtATime'
  <2>1. LoopRestart => OneSessionAtATime'
    BY DEF LoopRestart, Each, OneSessionAtATime, Running
  <2> QED BY <2>1, SessionStep, ExclusiveStep
<1> QED BY <1>1, <1>2, SessionLoopTypeCorrect, PTL DEF SessionSpec

-----------------------------------------------------------------------------
(***************************************************************************)
(* ForgottenOnlyByRestart is not inductive: a running prompt brings its    *)
(* conversation back when its result arrives.  What makes it true is that  *)
(* such a conversation is itself not forgotten, because Reset waits for    *)
(* the mutex that every running prompt holds.                              *)
(***************************************************************************)
IDs ==
  /\ newest \in Nat /\ forgotten \in 0..newest
  /\ claudeSessionID \in 0..newest /\ onDisk \in 0..newest
  /\ conv \in [Thread -> 0..newest]

Known(c) == c = 0 \/ c > forgotten \/ c = restored

Remembered ==
  /\ Known(claudeSessionID)
  /\ \A t \in Thread : conv[t] # 0 => Running(t) /\ Known(conv[t])

LEMMA RememberedInit == SessionInit => IDs /\ Remembered
<1> SUFFICES ASSUME SessionInit PROVE IDs /\ Remembered
  OBVIOUS
<1>1. conv = [t \in Thread |-> 0] BY DEF SessionInit, Each
<1> QED BY <1>1 DEF SessionInit, IDs, Remembered, Known

(* Steps that are not the session's leave running prompts running.         *)
LEMMA OthersKeepRunning ==
  ASSUME LoopTypeOK,
         \/ P1Step \/ BgStep
         \/ \E t \in Thread : Register(t) \/ Interrupted(t) \/ SignalDone(t) \/ MemoryReset(t)
         \/ \E i \in Item : AddPending(i)
         \/ InterruptCurrentSession \/ WakeTimeout \/ ResetSignalsDone
  PROVE  \A t \in Thread : Running(t) => Running(t)'
<1> USE DEF Running, LoopTypeOK
<1>1. CASE P1Step
  BY <1>1 DEF P1Step, P1Wake, RequestBackgroundInterrupt, P1Pop, P1Activate,
              P1Exit, DrainAgain, Goto
<1>2. CASE BgStep
  BY <1>2 DEF BgStep, BgCheck, BgPop, BgRegister, BgExit, Advance, Goto
<1>3. ASSUME NEW u \in Thread, Register(u) \/ Interrupted(u)
      PROVE \A t \in Thread : Running(t) => Running(t)'
  BY <1>3 DEF Register, Interrupted, Advance, Goto
<1>4. CASE Outside
  BY <1>4, OutsideStays
<1> QED BY <1>1, <1>2, <1>3, <1>4 DEF Outside

(* Steps that change neither the IDs nor who runs.                         *)
LEMMA Untouched ==
  ASSUME IDs, Remembered,
         UNCHANGED <<claudeSessionID, conv, newest, forgotten, restored>>,
         onDisk' \in {onDisk, claudeSessionID},
         \A t \in Thread : Running(t) => Running(t)'
  PROVE  IDs' /\ Remembered'
BY DEF IDs, Remembered, Known

LEMMA RememberedStep ==
  ASSUME LoopTypeOK, IDs, Remembered, [SessionNext]_sessVars
  PROVE  IDs' /\ Remembered'
<1> USE DEF sessionVars
<1>1. ASSUME NEW t \in Thread, TurnOfSession(t) PROVE IDs' /\ Remembered'
  <2>1. CASE Decide(t)
    <3>1. UNCHANGED pc BY <2>1 DEF Decide, execVars
    <3> QED BY <2>1, <3>1, Untouched DEF Decide, Running
  <2>2. CASE PrepareSession(t)
    <3>1. pc' = [pc EXCEPT ![t] = "build"] /\ pc[t] = "prepare"
      BY <2>2 DEF PrepareSession, Prepare, Advance, Goto
    <3>2. \A u \in Thread : Running(u) => Running(u)' BY <3>1 DEF Running, LoopTypeOK
    <3>3. claudeSessionID' \in {0, claudeSessionID} BY <2>2 DEF PrepareSession, ClearID
    <3> QED BY <2>2, <3>2, <3>3 DEF PrepareSession, IDs, Remembered, Known
  <2>3. CASE BuildPrompt(t)
    <3>1. pc' = [pc EXCEPT ![t] = "register"] /\ pc[t] = "build"
      BY <2>3 DEF BuildPrompt, Build, Advance, Goto
    <3>2. \A u \in Thread : Running(u) => Running(u)' BY <3>1 DEF Running, LoopTypeOK
    <3> QED BY <2>3, <3>2, Untouched DEF BuildPrompt
  <2>4. CASE Send(t)
    <3>1. pc' = [pc EXCEPT ![t] = "running"] /\ pc[t] = "send"
      BY <2>4 DEF Send, SendPrompt, Goto
    <3>2. \A u \in Thread : Running(u) => Running(u)' BY <3>1 DEF Running, LoopTypeOK
    <3>3. Running(t)' BY <3>1 DEF Running, LoopTypeOK
    <3>4. CASE claudeSessionID # 0 /\ isResuming
      BY <2>4, <3>2, <3>3, <3>4 DEF Send, IDs, Remembered, Known
    <3>5. CASE ~(claudeSessionID # 0 /\ isResuming)
      BY <2>4, <3>2, <3>3, <3>5 DEF Send, IDs, Remembered, Known
    <3> QED BY <3>4, <3>5
  <2>5. CASE StreamEvent(t)
    <3>1. UNCHANGED pc BY <2>5 DEF StreamEvent, execVars
    <3>2. claudeSessionID' = conv[t]
          /\ UNCHANGED <<onDisk, conv, newest, forgotten, restored>>
      BY <2>5 DEF StreamEvent
    <3> QED BY <3>1, <3>2 DEF IDs, Remembered, Known, Running
  <2>6. CASE Return(t)
    <3>1. PICK l \in TurnLabel : pc' = [pc EXCEPT ![t] = l]
      BY <2>6, TurnMoves DEF Return, TurnStep, SendingStep
    <3>2. \A u \in Thread : u # t /\ Running(u) => Running(u)'
      BY <3>1 DEF Running, LoopTypeOK
    <3>3. claudeSessionID' \in {0, claudeSessionID, conv[t]}
      BY <2>6 DEF Return, Result, NoResult, Fallback
    <3>4. conv' = [conv EXCEPT ![t] = 0]
          /\ UNCHANGED <<onDisk, newest, forgotten, restored>>
      BY <2>6 DEF Return
    <3>5. Known(conv[t]) BY DEF Remembered, Known
    <3> QED BY <3>2, <3>3, <3>4, <3>5 DEF IDs, Remembered, Known
  <2>7. CASE RebuildPrompt(t)
    <3>1. pc' = [pc EXCEPT ![t] = "send"] /\ pc[t] = "rebuild"
      BY <2>7 DEF RebuildPrompt, Rebuild, Goto
    <3>2. \A u \in Thread : Running(u) => Running(u)' BY <3>1 DEF Running, LoopTypeOK
    <3> QED BY <2>7, <3>2, Untouched DEF RebuildPrompt
  <2>8. CASE SaveSession(t)
    <3>1. pc' = [pc EXCEPT ![t] = "leave"] /\ pc[t] = "validate"
      BY <2>8 DEF SaveSession, Validate, Advance, Goto
    <3>2. \A u \in Thread : Running(u) => Running(u)' BY <3>1 DEF Running, LoopTypeOK
    <3> QED BY <2>8, <3>2, Untouched DEF SaveSession
  <2>9. CASE Finish(t)
    <3>1. pc' = [pc EXCEPT ![t] = "exit"] /\ pc[t] = "leave"
      BY <2>9 DEF Finish, Leave, Goto
    <3>2. \A u \in Thread : Running(u) => Running(u)' BY <3>1 DEF Running, LoopTypeOK
    <3> QED BY <2>9, <3>2, Untouched DEF Finish
  <2> QED BY <1>1, <2>1, <2>2, <2>3, <2>4, <2>5, <2>6, <2>7, <2>8, <2>9
          DEF TurnOfSession
<1>2. CASE Reset
  <2>1. ~Locked /\ UNCHANGED pc BY <1>2 DEF Reset, ResetSession
  <2>2. \A t \in Thread : conv[t] = 0 BY <2>1 DEF Locked, Remembered
  <2>3. claudeSessionID' = 0 /\ forgotten' = newest
        /\ UNCHANGED <<onDisk, conv, newest>>
    BY <1>2 DEF Reset, ClearID
  <2> QED BY <2>2, <2>3 DEF IDs, Remembered, Known
<1>3. CASE Restart
  <2>1. conv' = [t \in Thread |-> 0] BY <1>3 DEF Restart, Each
  <2> QED BY <1>3, <2>1 DEF Restart, IDs, Remembered, Known
<1>4. CASE Elsewhere
  <2>1. \A t \in Thread : Running(t) => Running(t)'
    BY <1>4, OthersKeepRunning DEF Elsewhere
  <2> QED BY <1>4, <2>1, Untouched DEF Elsewhere
<1>5. CASE UNCHANGED sessVars
  BY <1>5, Untouched DEF sessVars, execVars, Running
<1> QED BY <1>1, <1>2, <1>3, <1>4, <1>5 DEF SessionNext

(* A conversation that memory_reset put away comes back only through the   *)
(* file that Reset left behind.                                            *)
THEOREM ForgottenStaysForgotten == SessionSpec => []ForgottenOnlyByRestart
<1>1. IDs /\ Remembered => ForgottenOnlyByRestart
  BY DEF IDs, Remembered, Known, ForgottenOnlyByRestart
<1>2. LoopTypeOK /\ IDs /\ Remembered /\ [SessionNext]_sessVars => IDs' /\ Remembered'
  BY RememberedStep
<1> QED BY <1>1, <1>2, RememberedInit, SessionLoopTypeCorrect, PTL DEF SessionSpec

-----------------------------------------------------------------------------
LEMMA SessionTypeStep ==
  ASSUME SessionTypeOK, [SessionNext]_sessVars
  PROVE  SessionTypeOK'
<1> USE DEF SessionTypeOK
<1>0. 0 \in 0..newest /\ newest \in 0..newest OBVIOUS
<1>1. ASSUME NEW t \in Thread, TurnOfSession(t) PROVE SessionTypeOK'
  <2>1. CASE Decide(t) BY <2>1 DEF Decide
  <2>2. CASE PrepareSession(t)
    BY <2>2 DEF PrepareSession, ClearID
  <2>3. CASE BuildPrompt(t)
    BY <2>3 DEF BuildPrompt, PromptNow, AssignDisplayIDs
  <2>4. CASE Send(t)
    <3>1. newest' \in {newest, newest + 1} /\ conv' \in [Thread -> 0..newest']
      BY <2>4 DEF Send
    <3>2. headless' \subseteq 1..newest'
      <4>1. \/ headless' = headless
            \/ headless' = headless \cup {newest + 1} /\ newest' = newest + 1
        BY <2>4 DEF Send
      <4>2. CASE headless' = headless
        <5>1. 1..newest \subseteq 1..newest' BY <3>1
        <5> QED BY <4>2, <5>1
      <4>3. CASE headless' = headless \cup {newest + 1} /\ newest' = newest + 1
        <5>1. 1..newest \subseteq 1..(newest + 1) /\ newest + 1 \in 1..(newest + 1) OBVIOUS
        <5> QED BY <4>3, <5>1
      <4> QED BY <4>1, <4>2, <4>3
    <3> QED BY <2>4, <3>1, <3>2 DEF Send, SendKeepsMap
  <2>5. CASE StreamEvent(t) BY <2>5 DEF StreamEvent
  <2>6. CASE Return(t)
    <3>1. \A size \in {"zero", "small", "full"} :
            Usage(conv[t], size) \in [of : 0..newest, size : {"none", "zero", "small", "full"}]
      BY DEF Usage
    <3>2. lastUsage' \in [of : 0..newest, size : {"none", "zero", "small", "full"}]
          /\ claudeSessionID' \in 0..newest /\ isResuming' \in BOOLEAN
      <4>1. CASE Result(t) BY <3>1, <4>1 DEF Result
      <4>2. CASE Fallback(t)
        <5>1. lastUsage' \in {lastUsage, Usage(conv[t], "zero")} /\ claudeSessionID' = 0 /\ ~isResuming'
          BY <4>2 DEF Fallback, StopResuming
        <5>2. isResuming' \in BOOLEAN BY <4>2 DEF Fallback, StopResuming
        <5> QED BY <1>0, <3>1, <5>1, <5>2
      <4>3. CASE UNCHANGED <<claudeSessionID, lastUsage, isResuming>> BY <4>3
      <4> QED BY <2>6, <4>1, <4>2, <4>3 DEF Return, NoResult
    <3>3. conv' \in [Thread -> 0..newest] BY <2>6 DEF Return
    <3> QED BY <2>6, <3>2, <3>3 DEF Return
  <2>7. CASE RebuildPrompt(t)
    BY <2>7 DEF RebuildPrompt, PromptNow, AssignDisplayIDs
  <2>8. CASE SaveSession(t) BY <2>8 DEF SaveSession
  <2>9. CASE Finish(t) BY <2>9 DEF Finish
  <2> QED BY <1>1, <2>1, <2>2, <2>3, <2>4, <2>5, <2>6, <2>7, <2>8, <2>9
          DEF TurnOfSession
<1>2. NoUsage \in [of : 0..newest, size : {"none", "zero", "small", "full"}]
  BY DEF NoUsage
<1>3. CASE Reset
  <2>1. /\ claudeSessionID' = 0 /\ isResuming' = FALSE /\ lastUsage' = NoUsage
        /\ evalMap' = {} /\ forgotten' = newest /\ restored' = 0
        /\ UNCHANGED <<onDisk, plan, prompt, conv, newest, headless>>
    BY <1>3 DEF Reset, ClearID
  <2>2. /\ claudeSessionID' \in 0..newest' /\ forgotten' \in 0..newest'
        /\ restored' \in 0..newest' /\ onDisk' \in 0..newest' /\ newest' \in Nat
    BY <1>0, <2>1
  <2>3. lastUsage' \in [of : 0..newest', size : {"none", "zero", "small", "full"}]
    BY <1>2, <2>1
  <2>4. conv' \in [Thread -> 0..newest'] BY <2>1
  <2> QED BY <2>1, <2>2, <2>3, <2>4
<1>4. CASE Restart
  <2>1. /\ plan' \in [Thread -> {"none", "resume", "new"}]
        /\ prompt' \in [Thread -> {"none", "short", "full"}]
        /\ conv' \in [Thread -> 0..newest]
    BY <1>4 DEF Restart, Each
  <2> QED BY <1>2, <1>4, <2>1 DEF Restart
<1>5. CASE Elsewhere \/ UNCHANGED sessVars
  BY <1>5 DEF Elsewhere, sessVars, sessionVars
<1> QED BY <1>1, <1>3, <1>4, <1>5 DEF SessionNext

(* Every ID kept, saved, resumed or measured is that of a conversation     *)
(* that did begin.                                                         *)
THEOREM SessionTypeCorrect == SessionSpec => []SessionTypeOK
<1>1. SessionInit => SessionTypeOK
  <2> SUFFICES ASSUME SessionInit PROVE SessionTypeOK
    OBVIOUS
  <2>1. /\ plan = [t \in Thread |-> "none"] /\ prompt = [t \in Thread |-> "none"]
        /\ conv = [t \in Thread |-> 0] /\ lastUsage = [of |-> 0, size |-> "none"]
    BY DEF SessionInit, Each, NoUsage
  <2>2. /\ onDisk \in {0, 1} /\ newest = onDisk /\ claudeSessionID = onDisk /\ restored = onDisk
        /\ isResuming = FALSE /\ evalMap = {} /\ headless = {} /\ forgotten = 0
    BY DEF SessionInit
  <2>3. newest \in Nat /\ onDisk \in 0..newest /\ 0 \in 0..newest BY <2>2
  <2>4. lastUsage \in [of : 0..newest, size : {"none", "zero", "small", "full"}] BY <2>1, <2>3
  <2>5. conv \in [Thread -> 0..newest] BY <2>1, <2>3
  <2> QED BY <2>1, <2>2, <2>3, <2>4, <2>5 DEF SessionTypeOK
<1> QED BY <1>1, SessionTypeStep, PTL DEF SessionSpec

-----------------------------------------------------------------------------
(***************************************************************************)
(* As long as the P1 goroutine alone has worked, what it decided when it   *)
(* prepared a turn still holds when it sends the prompt: it resumes just   *)
(* when there is a conversation to resume, and only then is the prompt     *)
(* short.  (forgotten is 0 until a memory_reset is through.)               *)
(***************************************************************************)
Sole == (\A i \in taken : Urgent(i)) /\ forgotten = 0

Decided ==
  /\ plan["p1"] # "none" => pc["p1"] \in {"prepare", "build"}
  /\ plan["p1"] = "resume" => claudeSessionID # 0
  /\ pc["p1"] = "build" => plan["p1"] # "none" /\ isResuming = (plan["p1"] = "resume")
  /\ pc["p1"] \in {"build", "register", "send", "rebuild"} => isResuming = (claudeSessionID # 0)
  /\ pc["p1"] \in {"register", "send"} => prompt["p1"] # "short" \/ isResuming

OwnPrompt ==
  /\ Running("p1") => claudeSessionID \in {0, conv["p1"]}
  /\ pc["p1"] \in {"register", "send", "running"} => batch["p1"] \subseteq WakeItem \/ "p1" \in evalMap

SoleLane == headless = {} /\ pc["bg"] \in {"wait", "pop"} /\ Decided /\ OwnPrompt

(* A prompt that runs has a conversation, so a reset has one to forget.    *)
Begun ==
  /\ \A t \in Thread : Running(t) => conv[t] # 0
  /\ reset = "blocked" => newest > 0

SoleInv == Begun /\ (Sole => SoleLane)


LEMMA TakenStays == [SessionNext]_sessVars => taken \subseteq taken'
<1>1. [QueueNext]_queueVars => taken \subseteq taken'
  BY DEF QueueNext, queueVars, Add, PopAllMaxPriority, PopHighestMinPriority, Receive, Load
<1>2. LoopRestart => [QueueNext]_queueVars BY DEF LoopRestart, QueueNext
<1> QED BY <1>1, <1>2, SessionStep, QueueStep

(* Only a step of the session's own changes what it remembers.             *)
LEMMA ForgottenStays ==
  ASSUME [SessionNext]_sessVars, ~Reset
  PROVE  forgotten' = forgotten
<1>1. ASSUME NEW t \in Thread, TurnOfSession(t) PROVE forgotten' = forgotten
  BY <1>1 DEF TurnOfSession, Decide, PrepareSession, BuildPrompt, Send, StreamEvent, Return,
              RebuildPrompt, SaveSession, Finish
<1>2. Restart => forgotten' = forgotten BY DEF Restart
<1>3. Elsewhere => forgotten' = forgotten BY DEF Elsewhere, sessionVars
<1>4. UNCHANGED sessVars => forgotten' = forgotten BY DEF sessVars, sessionVars
<1> QED BY <1>1, <1>2, <1>3, <1>4 DEF SessionNext

LEMMA SoleBefore ==
  ASSUME SessionTypeOK, Begun, [SessionNext]_sessVars, Sole'
  PROVE  Sole /\ ~Reset
<1>1. ~Reset
  <2> SUFFICES ASSUME Reset PROVE FALSE
    OBVIOUS
  <2>1. reset = "blocked" /\ forgotten' = newest BY DEF Reset, ResetSession
  <2> QED BY <2>1 DEF Begun, SessionTypeOK, Sole
<1>2. forgotten = 0 BY <1>1, ForgottenStays DEF Sole
<1>3. \A i \in taken : Urgent(i) BY TakenStays DEF Sole, Urgent
<1> QED BY <1>1, <1>2, <1>3 DEF Sole

(* Which session steps move the goroutine that makes them, and how.        *)
LEMMA BegunStep ==
  ASSUME LoopTypeOK, SessionTypeOK, Begun, [SessionNext]_sessVars
  PROVE  Begun'
<1>0. newest' >= newest /\ newest \in Nat /\ newest' \in Nat
  <2>1. SessionTypeOK' BY SessionTypeStep
  <2>2. ASSUME NEW t \in Thread, TurnOfSession(t) PROVE newest' \in {newest, newest + 1}
    BY <2>2 DEF TurnOfSession, Decide, PrepareSession, BuildPrompt, Send, StreamEvent, Return,
                RebuildPrompt, SaveSession, Finish
  <2>3. Reset \/ Restart \/ Elsewhere \/ UNCHANGED sessVars => newest' = newest
    BY DEF Reset, Restart, Elsewhere, sessVars, sessionVars
  <2> QED BY <2>1, <2>2, <2>3 DEF SessionTypeOK, SessionNext
<1>1. (\A t \in Thread : Running(t)' => (Running(t) /\ conv'[t] = conv[t]) \/ conv'[t] # 0)
      /\ (reset' = "blocked" => reset = "blocked" \/ \E t \in Thread : Running(t))
  <2>1. ASSUME NEW t \in Thread, TurnOfSession(t)
        PROVE  (\A u \in Thread : Running(u)' => (Running(u) /\ conv'[u] = conv[u]) \/ conv'[u] # 0) /\ reset' = reset
    <3>1. CASE Decide(t) \/ StreamEvent(t)
      BY <3>1 DEF Decide, StreamEvent, execVars, resetVars, Running
    <3>2. CASE PrepareSession(t) \/ BuildPrompt(t) \/ SaveSession(t)
      <4>1. PICK l \in {"build", "register", "leave"} : pc' = [pc EXCEPT ![t] = l] /\ UNCHANGED <<conv, reset>>
        BY <3>2 DEF PrepareSession, Prepare, BuildPrompt, Build, SaveSession, Validate, Advance, Goto, resetVars
      <4> QED BY <4>1 DEF Running, LoopTypeOK
    <3>3. CASE RebuildPrompt(t) \/ Finish(t)
      <4>1. PICK l \in {"send", "exit"} : pc' = [pc EXCEPT ![t] = l] /\ UNCHANGED <<conv, reset>>
        BY <3>3 DEF RebuildPrompt, Rebuild, Finish, Leave, Goto, resetVars
      <4> QED BY <4>1 DEF Running, LoopTypeOK
    <3>4. CASE Send(t)
      <4>1. pc' = [pc EXCEPT ![t] = "running"] /\ reset' = reset BY <3>4 DEF Send, SendPrompt, Goto, resetVars
      <4>2. /\ \A u \in Thread : u # t => conv'[u] = conv[u]
            /\ conv'[t] # 0
        BY <3>4 DEF Send, SessionTypeOK
      <4> QED BY <4>1, <4>2 DEF Running, LoopTypeOK
    <3>5. CASE Return(t)
      <4>1. PICK l \in {"validate", "leave", "interrupted", "rebuild"} : pc' = [pc EXCEPT ![t] = l] /\ reset' = reset
        BY <3>5 DEF Return, SendReturns, Advance, Goto, resetVars
      <4>2. \A u \in Thread : u # t => conv'[u] = conv[u] BY <3>5 DEF Return
      <4> QED BY <4>1, <4>2 DEF Running, LoopTypeOK
    <3> QED BY <2>1, <3>1, <3>2, <3>3, <3>4, <3>5 DEF TurnOfSession
  <2>2. CASE Reset
    BY <2>2 DEF Reset, ResetSession, Running
  <2>3. CASE Restart
    BY <2>3 DEF Restart, LoopRestart, Each, Running
  <2>4. CASE Elsewhere
    <3>1. UNCHANGED conv BY <2>4 DEF Elsewhere, sessionVars
    <3>2. CASE P1Step \/ BgStep
      <4>1. PICK u \in Thread, l \in Label \ {"running"} : pc' = [pc EXCEPT ![u] = l] /\ reset' = reset
        BY <3>2 DEF P1Step, BgStep, P1Wake, RequestBackgroundInterrupt, P1Pop, P1Activate, P1Exit, DrainAgain,
                    BgCheck, BgPop, BgRegister, BgExit, Advance, Goto, resetVars, Thread, Label
      <4> QED BY <3>1, <4>1 DEF Running, LoopTypeOK
    <3>3. ASSUME NEW u \in Thread, Register(u) \/ Interrupted(u)
          PROVE  (\A t \in Thread : Running(t)' => Running(t)) /\ reset' = reset
      BY <3>3 DEF Register, Interrupted, Advance, Goto, Running, LoopTypeOK, resetVars
    <3>4. CASE Outside
      <4>1. UNCHANGED pc BY <3>4, OutsideStays
      <4>2. reset' = "blocked" => reset = "blocked" \/ \E t \in Thread : Running(t)
        BY <3>4 DEF Outside, AddPending, SignalDone, MemoryReset, InterruptCurrentSession, WakeTimeout,
                    ResetSession, ResetSignalsDone, resetVars
      <4> QED BY <3>1, <4>1, <4>2 DEF Running
    <3> QED BY <2>4, <3>1, <3>2, <3>3, <3>4 DEF Elsewhere, Outside
  <2>5. CASE UNCHANGED sessVars BY <2>5 DEF sessVars, sessionVars, execVars, resetVars, Running
  <2> QED BY <2>1, <2>2, <2>3, <2>4, <2>5 DEF SessionNext
<1>2. \A t \in Thread : Running(t) => newest > 0
  BY DEF Begun, SessionTypeOK
<1>3. \A t \in Thread : Running(t)' => conv'[t] # 0 BY <1>1 DEF Begun
<1>4. reset' = "blocked" => newest' > 0 BY <1>0, <1>1, <1>2 DEF Begun
<1> QED BY <1>3, <1>4 DEF Begun


(* The background goroutine has no turn to work on.                        *)
LEMMA BackgroundIdle ==
  ASSUME SoleLane
  PROVE  ~TurnOfSession("bg")
<1>1. pc["bg"] \in {"wait", "pop"} BY DEF SoleLane
<1> QED BY <1>1 DEF TurnOfSession, Decide, PrepareSession, Prepare, BuildPrompt, Build, Send, SendPrompt, StreamEvent,
                    Return, SendReturns, RebuildPrompt, Rebuild, SaveSession, Validate, Finish, Leave, Running

LEMMA SoleTurn ==
  ASSUME LoopTypeOK, SessionTypeOK, SoleLane, TurnOfSession("p1")
  PROVE  SoleLane'
<1> USE DEF LoopTypeOK, SessionTypeOK
<1> DEFINE t == "p1"
<1>0. t \in Thread /\ "bg" \in Thread BY DEF Thread
<1>1. headless = {} /\ pc["bg"] \in {"wait", "pop"} /\ Decided /\ OwnPrompt BY DEF SoleLane
<1>2. CASE Decide(t)
  <2>1. /\ pc[t] = "prepare" /\ UNCHANGED <<pc, batch>>
        /\ plan' = [plan EXCEPT ![t] = IF claudeSessionID # 0 /\ ~ShouldReset THEN "resume" ELSE "new"]
        /\ UNCHANGED <<claudeSessionID, isResuming, prompt, conv, evalMap, headless>>
    BY <1>2 DEF Decide, execVars, laneVars
  <2>2. plan'[t] \in {"resume", "new"} /\ (plan'[t] = "resume" => claudeSessionID # 0) BY <1>0, <2>1
  <2> QED BY <1>1, <2>1, <2>2 DEF SoleLane, Decided, OwnPrompt, Running
<1>3. CASE PrepareSession(t)
  <2>1. /\ pc[t] = "prepare" /\ pc' = [pc EXCEPT ![t] = "build"] /\ plan[t] # "none"
        /\ isResuming' = (plan[t] = "resume")
        /\ claudeSessionID' = IF plan[t] = "new" THEN 0 ELSE claudeSessionID
        /\ UNCHANGED <<plan, prompt, conv, headless>>
    BY <1>3 DEF PrepareSession, Prepare, Advance, Goto, ClearID
  <2>2. pc'[t] = "build" /\ pc'["bg"] = pc["bg"] BY <1>0, <2>1
  <2>3. plan[t] \in {"resume", "new"} BY <1>0, <2>1
  <2> QED BY <1>1, <2>1, <2>2, <2>3 DEF SoleLane, Decided, OwnPrompt, Running
<1>4. CASE BuildPrompt(t)
  <2>1. /\ pc[t] = "build" /\ pc' = [pc EXCEPT ![t] = "register"] /\ UNCHANGED batch
        /\ plan' = [plan EXCEPT ![t] = "none"] /\ prompt' = [prompt EXCEPT ![t] = PromptNow]
        /\ evalMap' = (IF batch[t] \subseteq WakeItem THEN evalMap ELSE evalMap \cup {t})
        /\ UNCHANGED <<claudeSessionID, isResuming, conv, headless>>
    BY <1>4 DEF BuildPrompt, Build, Advance, Goto, AssignDisplayIDs, laneVars
  <2>2. pc'[t] = "register" /\ pc'["bg"] = pc["bg"] /\ plan'[t] = "none" /\ prompt'[t] = PromptNow BY <1>0, <2>1
  <2>3. prompt'[t] = "short" => isResuming BY <2>2 DEF PromptNow
  <2> QED BY <1>1, <2>1, <2>2, <2>3 DEF SoleLane, Decided, OwnPrompt, Running
<1>5. CASE Send(t)
  <2>1. /\ pc[t] = "send" /\ pc' = [pc EXCEPT ![t] = "running"] /\ UNCHANGED batch
        /\ UNCHANGED <<plan, prompt, claudeSessionID, isResuming, evalMap>>
    BY <1>5 DEF Send, SendPrompt, Goto, SendKeepsMap
  <2>2. pc'[t] = "running" /\ pc'["bg"] = pc["bg"] BY <1>0, <2>1
  <2>3. isResuming = (claudeSessionID # 0) /\ (prompt[t] = "short" => isResuming) BY <1>1, <2>1 DEF Decided
  <2>4. headless' = {} /\ claudeSessionID \in {0, conv'[t]}
    <3>1. CASE claudeSessionID # 0
      <4>1. conv' = [conv EXCEPT ![t] = claudeSessionID] /\ headless' = headless BY <1>5, <2>3, <3>1 DEF Send
      <4> QED BY <1>0, <1>1, <4>1
    <3>2. CASE claudeSessionID = 0
      <4>1. headless' = headless BY <1>5, <2>3, <3>2 DEF Send
      <4> QED BY <1>1, <3>2, <4>1
    <3> QED BY <3>1, <3>2
  <2> QED BY <1>1, <2>1, <2>2, <2>4 DEF SoleLane, Decided, OwnPrompt, Running
<1>6. CASE StreamEvent(t)
  <2>1. /\ pc[t] = "running" /\ UNCHANGED <<pc, batch>> /\ claudeSessionID = 0 /\ claudeSessionID' = conv[t]
        /\ UNCHANGED <<plan, prompt, conv, isResuming, evalMap, headless>>
    BY <1>6 DEF StreamEvent, Running, execVars, laneVars
  <2> QED BY <1>1, <2>1 DEF SoleLane, Decided, OwnPrompt, Running
<1>7. CASE Return(t)
  <2>1. PICK l \in {"validate", "leave", "interrupted", "rebuild"} : pc' = [pc EXCEPT ![t] = l]
    BY <1>7 DEF Return, SendReturns, Advance, Goto
  <2>2. pc[t] = "running" /\ UNCHANGED <<plan, prompt, evalMap, headless>> BY <1>7 DEF Return, SendReturns, Running
  <2>3. pc'[t] = l /\ pc'["bg"] = pc["bg"] BY <1>0, <2>1
  <2>4. l = "rebuild" => claudeSessionID' = 0 /\ isResuming' = FALSE
    BY <1>7, <2>3 DEF Return, Fallback, StopResuming
  <2>5. plan[t] = "none" BY <1>1, <2>2 DEF Decided
  <2> QED BY <1>1, <2>2, <2>3, <2>4, <2>5 DEF SoleLane, Decided, OwnPrompt, Running
<1>8. CASE RebuildPrompt(t)
  <2>1. /\ pc[t] = "rebuild" /\ pc' = [pc EXCEPT ![t] = "send"] /\ UNCHANGED batch
        /\ prompt' = [prompt EXCEPT ![t] = PromptNow]
        /\ evalMap' = (IF batch[t] \subseteq WakeItem THEN evalMap ELSE evalMap \cup {t})
        /\ UNCHANGED <<claudeSessionID, isResuming, conv, plan, headless>>
    BY <1>8 DEF RebuildPrompt, Rebuild, Goto, AssignDisplayIDs, laneVars
  <2>2. pc'[t] = "send" /\ pc'["bg"] = pc["bg"] /\ prompt'[t] = PromptNow BY <1>0, <2>1
  <2>3. prompt'[t] = "short" => isResuming BY <2>2 DEF PromptNow
  <2> QED BY <1>1, <2>1, <2>2, <2>3 DEF SoleLane, Decided, OwnPrompt, Running
<1>9. CASE SaveSession(t)
  <2>1. /\ pc[t] = "validate" /\ pc' = [pc EXCEPT ![t] = "leave"]
        /\ UNCHANGED <<claudeSessionID, isResuming, conv, plan, prompt, evalMap, headless>>
    BY <1>9 DEF SaveSession, Validate, Advance, Goto
  <2>2. pc'[t] = "leave" /\ pc'["bg"] = pc["bg"] BY <1>0, <2>1
  <2> QED BY <1>1, <2>1, <2>2 DEF SoleLane, Decided, OwnPrompt, Running
<1>10. CASE Finish(t)
  <2>1. /\ pc[t] = "leave" /\ pc' = [pc EXCEPT ![t] = "exit"]
        /\ UNCHANGED <<claudeSessionID, isResuming, conv, plan, evalMap, headless>>
    BY <1>10 DEF Finish, Leave, Goto
  <2>2. pc'[t] = "exit" /\ pc'["bg"] = pc["bg"] BY <1>0, <2>1
  <2> QED BY <1>1, <2>1, <2>2 DEF SoleLane, Decided, OwnPrompt, Running
<1> QED BY <1>2, <1>3, <1>4, <1>5, <1>6, <1>7, <1>8, <1>9, <1>10 DEF TurnOfSession

LEMMA SoleElsewhere ==
  ASSUME LoopTypeOK, SoleLane, Sole', Elsewhere
  PROVE  SoleLane'
<1> USE DEF LoopTypeOK
<1>0. "p1" \in Thread /\ "bg" \in Thread BY DEF Thread
<1>1. headless = {} /\ pc["bg"] \in {"wait", "pop"} /\ Decided /\ OwnPrompt BY DEF SoleLane
<1>2. UNCHANGED <<claudeSessionID, isResuming, conv, plan, prompt, evalMap, headless>> BY DEF Elsewhere, sessionVars
<1>3. CASE UNCHANGED <<pc, batch>> BY <1>1, <1>2, <1>3 DEF SoleLane, Decided, OwnPrompt, Running
<1>4. CASE P1Step
  <2>1. PICK l \in {"interrupt", "drain", "wait", "taken", "prepare"} :
          /\ pc["p1"] \in {"wait", "interrupt", "drain", "taken", "exit"} /\ pc' = [pc EXCEPT !["p1"] = l]
    BY <1>4 DEF P1Step, P1Wake, RequestBackgroundInterrupt, P1Pop, P1Activate, P1Exit, DrainAgain, Goto
  <2>2. pc'["p1"] = l /\ pc'["bg"] = pc["bg"] BY <1>0, <2>1
  <2> QED BY <1>1, <1>2, <2>1, <2>2 DEF SoleLane, Decided, OwnPrompt, Running
<1>5. CASE BgStep
  <2>1. ~BgRegister /\ ~BgExit BY <1>1 DEF BgRegister, BgExit
  <2>2. CASE BgCheck
    <3>1. pc' = [pc EXCEPT !["bg"] = "pop"] /\ UNCHANGED batch BY <2>2 DEF BgCheck, Advance, Goto, laneVars
    <3>2. pc'["p1"] = pc["p1"] /\ pc'["bg"] = "pop" BY <1>0, <3>1
    <3> QED BY <1>1, <1>2, <3>1, <3>2 DEF SoleLane, Decided, OwnPrompt, Running
  <2>3. CASE BgPop
    <3>1. ASSUME NEW i \in Item, PopHighestMinPriority(i) PROVE FALSE
      <4>1. i \in taken' /\ Priority[i] >= P2DueTask BY <3>1 DEF PopHighestMinPriority
      <4>2. Priority[i] <= P1UserInput BY <4>1 DEF Sole, Urgent
      <4> QED BY <4>1, <4>2, PriorityType DEF P1UserInput, P2DueTask
    <3>2. pc' = [pc EXCEPT !["bg"] = "wait"] /\ UNCHANGED batch BY <2>3, <3>1 DEF BgPop, Goto
    <3>3. pc'["p1"] = pc["p1"] /\ pc'["bg"] = "wait" BY <1>0, <3>2
    <3> QED BY <1>1, <1>2, <3>2, <3>3 DEF SoleLane, Decided, OwnPrompt, Running
  <2> QED BY <1>5, <2>1, <2>2, <2>3 DEF BgStep
<1>6. ASSUME NEW u \in Thread, Register(u) \/ Interrupted(u) PROVE SoleLane'
  <2>1. u = "p1" BY <1>1, <1>6 DEF Register, Interrupted, Thread
  <2>2. CASE Register(u)
    <3>1. pc[u] = "register" /\ pc' = [pc EXCEPT ![u] = "send"] /\ UNCHANGED batch
      BY <2>2 DEF Register, Goto, laneVars
    <3>2. pc'["p1"] = "send" /\ pc'["bg"] = pc["bg"] BY <1>0, <2>1, <3>1
    <3> QED BY <1>1, <1>2, <2>1, <3>1, <3>2 DEF SoleLane, Decided, OwnPrompt, Running
  <2>3. CASE Interrupted(u)
    <3>1. PICK l \in {"validate", "leave"} : pc[u] = "interrupted" /\ pc' = [pc EXCEPT ![u] = l]
      BY <2>3 DEF Interrupted, Advance, Goto
    <3>2. pc'["p1"] = l /\ pc'["bg"] = pc["bg"] BY <1>0, <2>1, <3>1
    <3> QED BY <1>1, <1>2, <2>1, <3>1, <3>2 DEF SoleLane, Decided, OwnPrompt, Running
  <2> QED BY <1>6, <2>2, <2>3
<1>7. ASSUME NEW u \in Thread, SignalDone(u) \/ MemoryReset(u) PROVE SoleLane'
  BY <1>3, <1>7, OutsideKeepsTalking DEF Outside
<1>8. CASE (\E i \in Item : AddPending(i)) \/ InterruptCurrentSession \/ WakeTimeout \/ ResetSignalsDone
  BY <1>3, <1>8, OutsideKeepsTalking DEF Outside
<1> QED BY <1>4, <1>5, <1>6, <1>7, <1>8 DEF Elsewhere

LEMMA SoleStep ==
  ASSUME LoopTypeOK, SessionTypeOK, SoleInv, [SessionNext]_sessVars
  PROVE  SoleInv'
<1>1. Begun' BY BegunStep DEF SoleInv
<1>2. ASSUME Sole' PROVE SoleLane'
  <2>1. Sole /\ ~Reset BY <1>2, SoleBefore DEF SoleInv
  <2>2. SoleLane BY <2>1 DEF SoleInv
  <2>3. ASSUME NEW t \in Thread, TurnOfSession(t) PROVE SoleLane'
    BY <2>2, <2>3, BackgroundIdle, SoleTurn DEF Thread
  <2>4. CASE Elsewhere BY <1>2, <2>2, <2>4, SoleElsewhere
  <2>5. CASE Restart
    <3>1. /\ pc' = [t \in Thread |-> "wait"] /\ plan' = [t \in Thread |-> "none"] /\ headless' = headless
      BY <2>5 DEF Restart, LoopRestart, Each
    <3> QED BY <2>2, <3>1 DEF SoleLane, Decided, OwnPrompt, Running, Thread
  <2>6. CASE UNCHANGED sessVars
    BY <2>2, <2>6 DEF sessVars, sessionVars, execVars, laneVars, SoleLane, Decided, OwnPrompt, Running
  <2> QED BY <2>1, <2>3, <2>4, <2>5, <2>6 DEF SessionNext
<1> QED BY <1>1, <1>2 DEF SoleInv

(* As long as the P1 goroutine alone has worked, conversations begin with  *)
(* their context, the ID kept is that of the running prompt, and the       *)
(* memories it showed can be rated.                                        *)
THEOREM SoundWhileAlone == SessionSpec => []SoundWhenAlone
<1>1. SessionInit => SoleInv
  <2> SUFFICES ASSUME SessionInit PROVE SoleInv
    OBVIOUS
  <2>1. /\ pc = [t \in Thread |-> "wait"] /\ plan = [t \in Thread |-> "none"] /\ headless = {} /\ reset = "none"
    BY DEF SessionInit, Init, LoopInit, Each
  <2> QED BY <2>1 DEF SoleInv, Begun, SoleLane, Decided, OwnPrompt, Running, Thread
<1>2. SoleInv => SoundWhenAlone
  <2> SUFFICES ASSUME SoleInv, Alone PROVE BeginsWithContext /\ CapturesOwnConversation /\ EvalResolvable
    BY DEF SoundWhenAlone
  <2>1. headless = {} /\ pc["bg"] \in {"wait", "pop"} /\ OwnPrompt BY DEF SoleInv, Alone, Sole, SoleLane
  <2>2. \A t \in Thread : Running(t) => t = "p1" BY <2>1 DEF Running, Thread
  <2> QED BY <2>1, <2>2 DEF BeginsWithContext, CapturesOwnConversation, EvalResolvable, OwnPrompt, Running
<1>3. LoopTypeOK /\ SessionTypeOK /\ SoleInv /\ [SessionNext]_sessVars => SoleInv' BY SoleStep
<1> QED BY <1>1, <1>2, <1>3, SessionLoopTypeCorrect, SessionTypeCorrect, PTL DEF SessionSpec
=============================================================================
