------------------------------ MODULE Executive ------------------------------
(***************************************************************************)
(* The two executive goroutines of cmd/bud/main.go and the session state   *)
(* they share (internal/executive/executive_v2.go).  "p1" drains urgent    *)
(* items when notifyCh fires; "bg" polls for background items every 500ms. *)
(* Both run processItem on the one SimpleSession, whose mutex s.mu is held *)
(* for the whole of SendPromptWithCfg (pc = "running") and for an instant  *)
(* in PrepareNewSession, PrepareForResume and Reset.                       *)
(*                                                                         *)
(* A step is what happens between two points where another goroutine may   *)
(* see or change shared state.  Not here: what the Claude session           *)
(* remembers (module ExecSession), what the session tracker records        *)
(* (SessionTracker), whether a user was answered (Replies), and providers  *)
(* other than claude-code.                                                 *)
(* buildPrompt always writes the focus header, so the "Empty prompt" early *)
(* return of processItem cannot be taken.                                  *)
(***************************************************************************)
EXTENDS FocusQueue

CONSTANT WakeItem   \* items of type "wake": their turns have a time limit

ASSUME WakeItemType == WakeItem \subseteq Item /\ \A i \in WakeItem : Background(i)

Thread == {"p1", "bg"}
Nil == "nil"

VARIABLES
  pc,                 \* where each goroutine is
  batch,              \* items each goroutine is processing
  p1Active,           \* e.p1Active
  backgroundCancel,   \* e.backgroundCancel # nil
  bgCtxDone,          \* the context behind backgroundCancel is cancelled
  sessDone,           \* sessionCtx of each goroutine's turn is cancelled
  signalDoneCancel,   \* whose sessionCancel e.signalDoneCancel holds, or Nil
  signalDoneActive,   \* e.signalDoneActive
  retried,            \* per turn: second attempt after ErrSessionFallback
  reset,              \* memory_reset: "none", "blocked" on s.mu, "cleared"
  overtakes           \* history: background prompts sent since p1Active was set

laneVars == <<batch, p1Active, backgroundCancel, bgCtxDone, overtakes>>
cancelVars == <<sessDone, signalDoneCancel, signalDoneActive, retried>>
resetVars == <<reset>>
execVars == <<queueVars, pc, laneVars, cancelVars, resetVars>>

Running(t) == pc[t] = "running"
Locked == \E t \in Thread : Running(t)          \* s.mu is held
Goto(t, l) == pc' = [pc EXCEPT ![t] = l]
Advance(t, l) == Goto(t, l) /\ UNCHANGED <<queueVars, laneVars, cancelVars, resetVars>>
Cancelled(t) == sessDone[t] \/ (t = "bg" /\ bgCtxDone)

LoopInit ==
  /\ pc = [t \in Thread |-> "wait"]
  /\ batch = [t \in Thread |-> {}]
  /\ p1Active = FALSE /\ backgroundCancel = FALSE /\ bgCtxDone = FALSE
  /\ sessDone = [t \in Thread |-> FALSE]
  /\ signalDoneCancel = Nil /\ signalDoneActive = FALSE
  /\ retried = [t \in Thread |-> FALSE]
  /\ reset = "none"
  /\ overtakes = 0

Init == QueueInit /\ LoopInit

(* Any sense, subagent watcher or timer: exec.AddPending(item).            *)
AddPending(i) ==
  /\ Add(i)
  /\ UNCHANGED <<pc, laneVars, cancelVars, resetVars>>

-----------------------------------------------------------------------------
(* The P1 goroutine of main.go.                                            *)

P1Wake ==
  /\ pc["p1"] = "wait"
  /\ Receive
  /\ Goto("p1", "interrupt")
  /\ UNCHANGED <<laneVars, cancelVars, resetVars>>

RequestBackgroundInterrupt ==
  /\ pc["p1"] = "interrupt"
  /\ bgCtxDone' = (bgCtxDone \/ backgroundCancel)
  /\ Goto("p1", "drain")
  /\ UNCHANGED <<batch, p1Active, backgroundCancel, overtakes>>
  /\ UNCHANGED <<queueVars, cancelVars, resetVars>>

(* ProcessNextP1: pop, then set p1Active. *)
P1Pop ==
  /\ pc["p1"] = "drain"
  /\ PopAllMaxPriority
  /\ batch' = [batch EXCEPT !["p1"] = UrgentItems]
  /\ Goto("p1", IF UrgentItems = {} THEN "wait" ELSE "taken")
  /\ UNCHANGED <<p1Active, backgroundCancel, bgCtxDone, overtakes>>
  /\ UNCHANGED <<cancelVars, resetVars>>

P1Activate ==
  /\ pc["p1"] = "taken"
  /\ p1Active' = TRUE
  /\ Goto("p1", "prepare")
  /\ UNCHANGED <<batch, backgroundCancel, bgCtxDone, overtakes>>
  /\ UNCHANGED <<queueVars, cancelVars, resetVars>>

DrainAgain == Goto("p1", "drain")

P1Exit ==
  /\ pc["p1"] = "exit"
  /\ p1Active' = FALSE
  /\ batch' = [batch EXCEPT !["p1"] = {}]
  /\ overtakes' = 0
  /\ DrainAgain
  /\ UNCHANGED <<backgroundCancel, bgCtxDone>>
  /\ UNCHANGED <<queueVars, cancelVars, resetVars>>

-----------------------------------------------------------------------------
(* The background goroutine: ProcessNextBackground at each tick.           *)

Unguarded == TRUE                                          \* variant
UnlessSignalled == ~p1Active /\ ~signalDoneActive          \* variant
MayStartBackground == ~p1Active

BgCheck ==
  /\ pc["bg"] = "wait"
  /\ MayStartBackground
  /\ Advance("bg", "pop")

BgPop ==
  /\ pc["bg"] = "pop"
  /\ \/ /\ \A i \in queued : Urgent(i)
        /\ Goto("bg", "wait")
        /\ UNCHANGED <<queueVars, batch>>
     \/ \E i \in Item :
          /\ PopHighestMinPriority(i)
          /\ batch' = [batch EXCEPT !["bg"] = {i}]
          /\ Goto("bg", "taken")
  /\ UNCHANGED <<p1Active, backgroundCancel, bgCtxDone, overtakes>>
  /\ UNCHANGED <<cancelVars, resetVars>>

BgRegister ==
  /\ pc["bg"] = "taken"
  /\ backgroundCancel' = TRUE
  /\ Goto("bg", "prepare")
  /\ UNCHANGED <<batch, p1Active, bgCtxDone, overtakes>>
  /\ UNCHANGED <<queueVars, cancelVars, resetVars>>

BgExit ==
  /\ pc["bg"] = "exit"
  /\ backgroundCancel' = FALSE
  /\ bgCtxDone' = FALSE
  /\ batch' = [batch EXCEPT !["bg"] = {}]
  /\ Goto("bg", "wait")
  /\ UNCHANGED <<p1Active, overtakes>>
  /\ UNCHANGED <<queueVars, cancelVars, resetVars>>

-----------------------------------------------------------------------------
(* processItem, run by either goroutine.                                   *)

(* PrepareForResume or PrepareNewSession: wait for s.mu. *)
Prepare(t) ==
  /\ pc[t] = "prepare"
  /\ ~Locked
  /\ Advance(t, "build")

(* Build the context and the prompt, install the callbacks (module         *)
(* Replies says what these record).                                        *)
Build(t) ==
  /\ pc[t] = "build"
  /\ Advance(t, "register")

(* A new sessionCtx becomes the one that signal_done and /stop cancel.     *)
Register(t) ==
  /\ pc[t] = "register"
  /\ signalDoneCancel' = t
  /\ signalDoneActive' = FALSE
  /\ Goto(t, "send")
  /\ UNCHANGED <<sessDone, retried>>
  /\ UNCHANGED <<queueVars, laneVars, resetVars>>

SendPrompt(t) ==
  /\ pc[t] = "send"
  /\ ~Locked
  /\ Goto(t, "running")
  /\ overtakes' = IF t = "bg" /\ p1Active /\ ~retried[t]
                  THEN overtakes + 1 ELSE overtakes
  /\ UNCHANGED <<batch, p1Active, backgroundCancel, bgCtxDone>>
  /\ UNCHANGED <<queueVars, cancelVars, resetVars>>

(***************************************************************************)
(* SendPromptWithCfg returns and s.mu is released: nil (the receive loop   *)
(* also returns nil when its context ends), ErrInterrupted (the context    *)
(* was cancelled before the receive loop), ErrSessionFallback (only the    *)
(* first attempt resumes), or another error.                               *)
(***************************************************************************)
SendReturns(t) ==
  /\ Running(t)
  /\ \/ Advance(t, "validate")
     \/ Cancelled(t) /\ Advance(t, IF retried[t] THEN "leave" ELSE "interrupted")
     \/ ~retried[t] /\ Advance(t, "rebuild")
     \/ ~Cancelled(t) /\ Advance(t, "leave")

(* ErrInterrupted: a turn ended by signal_done goes on to bookkeeping, any *)
(* other interruption abandons it.                                         *)
Interrupted(t) ==
  /\ pc[t] = "interrupted"
  /\ Advance(t, IF signalDoneActive THEN "validate" ELSE "leave")

(* ErrSessionFallback: rebuild the prompt and send once more. *)
Rebuild(t) ==
  /\ pc[t] = "rebuild"
  /\ retried' = [retried EXCEPT ![t] = TRUE]
  /\ Goto(t, "send")
  /\ UNCHANGED <<sessDone, signalDoneCancel, signalDoneActive>>
  /\ UNCHANGED <<queueVars, laneVars, resetVars>>

(* Bookkeeping and VALIDATION of a turn that ended normally. *)
Validate(t) ==
  /\ pc[t] = "validate"
  /\ Advance(t, "leave")

Deregister == signalDoneCancel' = Nil

(***************************************************************************)
(* The deferred function of processItem.  The turn's locals end with it:   *)
(* its context and the retry.                                              *)
(***************************************************************************)
Leave(t) ==
  /\ pc[t] = "leave"
  /\ sessDone' = [sessDone EXCEPT ![t] = FALSE]
  /\ Deregister
  /\ retried' = [retried EXCEPT ![t] = FALSE]
  /\ Goto(t, "exit")
  /\ UNCHANGED signalDoneActive
  /\ UNCHANGED <<queueVars, laneVars, resetVars>>

-----------------------------------------------------------------------------
(* What a running Claude session and the user do.                          *)

CancelRegistered ==
  sessDone' = [t \in Thread |-> sessDone[t] \/ signalDoneCancel = t]

(* signal_done: SignalDone runs in the MCP server. *)
SignalDone(t) ==
  /\ Running(t)
  /\ signalDoneActive' = TRUE
  /\ CancelRegistered
  /\ UNCHANGED <<signalDoneCancel, retried>>
  /\ UNCHANGED <<queueVars, pc, laneVars, resetVars>>

(* /stop, or a PreToolUse hook that blocks: cancel what is registered.     *)
InterruptCurrentSession ==
  /\ CancelRegistered
  /\ UNCHANGED <<signalDoneCancel, signalDoneActive, retried>>
  /\ UNCHANGED <<queueVars, pc, laneVars, resetVars>>

(* MaxAutonomousSessionDuration passes since the context of a turn on a    *)
(* "wake" item was made.                                                   *)
WakeTimeout ==
  /\ pc["bg"] \in {"send", "running", "interrupted", "rebuild"}
  /\ batch["bg"] \subseteq WakeItem
  /\ sessDone' = [sessDone EXCEPT !["bg"] = TRUE]
  /\ UNCHANGED <<signalDoneCancel, signalDoneActive, retried>>
  /\ UNCHANGED <<queueVars, pc, laneVars, resetVars>>

(* memory_reset: the handler calls ResetSession, which waits for s.mu      *)
(* (bound: one reset waits at a time) ...                                  *)
MemoryReset(t) ==
  /\ Running(t)
  /\ reset = "none"
  /\ reset' = "blocked"
  /\ UNCHANGED <<queueVars, pc, laneVars, cancelVars>>

(* ... clears the session once it has it ...                               *)
ResetSession ==
  /\ reset = "blocked"
  /\ ~Locked
  /\ reset' = "cleared"
  /\ UNCHANGED <<queueVars, pc, laneVars, cancelVars>>

(* ... and then calls SignalDone.                                          *)
ResetSignalsDone ==
  /\ reset = "cleared"
  /\ reset' = "none"
  /\ signalDoneActive' = TRUE
  /\ CancelRegistered
  /\ UNCHANGED <<signalDoneCancel, retried>>
  /\ UNCHANGED <<queueVars, pc, laneVars>>

(* The process dies and main starts again: all of the above is as in Init. *)
(* Not a step of Next: the modules about what survives a crash add it.     *)
Each(v) == [t \in Thread |-> v]

LoopRestart ==
  /\ Load
  /\ pc' = Each("wait") /\ batch' = Each({})
  /\ p1Active' = FALSE /\ backgroundCancel' = FALSE /\ bgCtxDone' = FALSE
  /\ sessDone' = Each(FALSE) /\ retried' = Each(FALSE)
  /\ signalDoneCancel' = Nil /\ signalDoneActive' = FALSE
  /\ reset' = "none" /\ overtakes' = 0

-----------------------------------------------------------------------------
RecordingStep(t) == Build(t) \/ Rebuild(t) \/ Validate(t) \/ Leave(t)
SendingStep(t) ==
  Prepare(t) \/ Register(t) \/ SendPrompt(t) \/ SendReturns(t) \/ Interrupted(t)
TurnStep(t) == RecordingStep(t) \/ SendingStep(t)

P1Step == P1Wake \/ RequestBackgroundInterrupt \/ P1Pop \/ P1Activate \/ P1Exit
BgStep == BgCheck \/ BgPop \/ BgRegister \/ BgExit

Outside ==
  \/ \E i \in Item : AddPending(i)
  \/ \E t \in Thread : SignalDone(t) \/ MemoryReset(t)
  \/ InterruptCurrentSession
  \/ WakeTimeout
  \/ ResetSession
  \/ ResetSignalsDone

Next == Outside \/ P1Step \/ BgStep \/ \E t \in Thread : TurnStep(t)

Spec == Init /\ [][Next]_execVars

(* Each goroutine keeps running and a prompt ends: SendPromptWithCfg has a *)
(* 30-minute timeout, so SendReturns cannot stay enabled for ever.         *)
Fairness ==
  /\ WF_execVars(P1Step) /\ WF_execVars(BgStep)
  /\ \A t \in Thread : WF_execVars(TurnStep(t))

FairSpec == Spec /\ Fairness

-----------------------------------------------------------------------------
Label == {"wait", "interrupt", "drain", "pop", "taken", "prepare", "build",
          "register", "send", "running", "interrupted", "rebuild",
          "validate", "leave", "exit"}

LoopTypeOK ==
  /\ pc \in [Thread -> Label]
  /\ batch \in [Thread -> SUBSET Item]
  /\ p1Active \in BOOLEAN /\ backgroundCancel \in BOOLEAN /\ bgCtxDone \in BOOLEAN
  /\ sessDone \in [Thread -> BOOLEAN]
  /\ signalDoneCancel \in Thread \cup {Nil} /\ signalDoneActive \in BOOLEAN
  /\ retried \in [Thread -> BOOLEAN]
  /\ reset \in {"none", "blocked", "cleared"}
  /\ overtakes \in Nat

(* Type invariant of the goroutines of main.go and of what they share:     *)
(* batches hold items, and only a goroutine owns the cancel function.      *)
ExecTypeOK == QueueTypeOK /\ LoopTypeOK

(* An urgent item is never stranded: as long as one is queued, a token     *)
(* waits in the one-slot channel or the P1 goroutine is on its way round   *)
(* to pop it (Add's non-blocking send against the drain loop of main.go).  *)
NoLostWakeup == UrgentItems # {} => notifyCh \/ pc["p1"] # "wait"

(* The two goroutines never have a Claude subprocess open at once.         *)
OneSessionAtATime == \A t, u \in Thread : Running(t) /\ Running(u) => t = u

(* p1Active is tested before the pop, so a background turn may slip in     *)
(* front of a waiting user batch, but only one.                            *)
OvertakenAtMostOnce == overtakes <= 1

(* What signal_done and /stop would cancel is never the context of a turn  *)
(* that is over: whoever is registered is between Register and Leave.      *)
RegisteredIsLive ==
  signalDoneCancel # Nil =>
    pc[signalDoneCancel] \in {"send", "running", "interrupted", "rebuild",
                              "validate", "leave"}

(* The executive's steps are steps of the queue, so what the queue         *)
(* guarantees holds here.                                                  *)
UsesQueue == QueueSpec

(* Every urgent item is handed to the P1 goroutine, and every background   *)
(* item to the other one, unless it was trimmed: neither goroutine can     *)
(* keep the other from its work for ever.                                  *)
EveryItemServed ==
  \A i \in Item :
    i \in queued ~> i \in taken \/ (Background(i) /\ i \in dropped)

-----------------------------------------------------------------------------
(* What a comment of the code says of it, and the code does not keep.      *)

(* executive_v2.go:756: SignalDone cancels the running subprocess, so the  *)
(* cancel function of the running session is the one registered.           *)
RunningSessionCancellable ==
  \A t \in Thread : Running(t) => signalDoneCancel = t
=============================================================================
