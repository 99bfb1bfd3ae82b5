# Verification of bud2

TLA+ models of bud2, the TLC configurations that check them on small instances, and theorems about them that
TLAPS checks for every value of the constants. bud2 is a personal agent that runs as one Go process: senses
(Discord, calendar) and timers produce items, a pending queue holds them, two executive goroutines turn them
into prompts of one Claude session, and the tools that session calls come back through an MCP server, start
subagent sessions, run workflows, send messages, or reset and stop the session itself.

Contents: [the system](#the-system) · [the modules](#the-modules) · [runs](#runs) · [fairness](#fairness) ·
[proofs](#proofs) · [what the code does not keep](#what-the-code-does-not-keep) ·
[not modelled](#not-modelled) · [plan](#plan)

## The system

Paths are below `src/`. "Hard" names what makes a component difficult to test, "correct" what makes it right.

| Component | State | Operations | Interacts with | Hard | Correct when |
|---|---|---|---|---|---|
| Pending queue `internal/focus/queue.go` | slice of items, capacity, one-slot channel; all under one mutex | Add (with notification and trim), PopAllMaxPriority (P0/P1), PopHighestMinPriority (P2 and below), NotifyChannel, Load | producers: senses, timers, subagent watchers; consumers: both executive goroutines | trim under load, token coalescing, restart | no item lost or popped twice, urgent items never trimmed, the consumer is always woken |
| Executive loop `internal/executive/executive_v2.go`, `cmd/bud/main.go` | p1Active, backgroundCancel, signalDoneCancel/Active, the turns' contexts | P1 and background goroutines, processItem, SignalDone, InterruptCurrentSession, ResetSession | queue, session, MCP tools (`signal_done`, `memory_reset`), Discord `/stop` | two goroutines, one session, cancellation from anywhere | turns exclude each other, urgent work is served, nothing waits for ever |
| Reply validation (same file) | OnToolCall closure, mcpToolCalled, userGotResponse | callbacks, VALIDATION, fallback message | session stream, MCP server | replies of one turn seen by the other | a user message is answered or gets the fallback |
| Recent conversation and handoff notes (same file) | `autonomous-handoff.md`; the bundle of a turn | buildContext, buildRecentConversation, read and truncate, append | Engram, `signal_done` | two limits and several tiers; unlocked file | the newest part of the conversation without holes; a note reaches a prompt |
| Claude session `internal/executive/simple_session.go` | conversation ID (memory and disk), isResuming, lastUsage, memoryIDMap | Prepare*, SendPrompt, capture, fallback, save, Reset, load | both goroutines, Claude SDK | unlocked reads, retry, crash | a conversation starts with the static context and is resumed only as intended |
| Session tracker `internal/budget` | active map, completed list, date, `sessions.json` | Start, Complete, SetSessionUsage, day rollover, save, load | processItem, autonomous budget | midnight, crash, error paths | the day's usage is counted once, and survives a restart |
| Subagents `internal/executive/subagent_session.go` | per session: status, question, answer buffer, staged memories; registry | Spawn, Answer, Stop, Cleanup, drain, hook, two watchers | MCP tools, queue, Claude SDK | three goroutines per session, timeouts | questions reach the executive, answers the right question, ends are final |
| Provider sessions `internal/executive/provider` | server process, opencode session, permissions replied | start, create, SendPrompt, permission poller, Reset | executive, subagents | detached context, a poller beside each prompt, shared objects | as for the Claude path; each permission answered once |
| Discord effector `internal/effectors` | pending actions, retry states, pending interactions, typing channels | Submit, poll, send in chunks, retry, give up | MCP tools, reflexes, Discord | partial sends, lost answers, backoff, limits | each action done or reported as failed, in order but for retries |
| Discord and calendar senses `internal/senses` | connection state, sessions; notified events, agenda date, state file | handlers, health monitor, hard reset; polling, reminders | inbox callback | reconnects, crash between mark and send | every message passed on once, every reminder once |
| Debug stream `cmd/bud/debug_executive.go` | listener, history, active stream, its channel and dispatcher | Toggle, fan-out, replay, dispatch | executive's events, Discord threads | a start in two steps, fields read unlocked | every event of a live stream reaches its thread |
| Memory ingest `cmd/bud/main.go` | last episode per channel | ingestToMemoryGraph, captureResponse | Engram | a goroutine per message | one chain of episodes per channel |
| Percept routing `cmd/bud/main.go` | – | processInboxMessage, processPercept, budget gate | all producers, reflexes, triggers, queue | concurrent callbacks, escalation through errors | a percept is answered by a reflex or reaches the executive |
| Reflex engine `internal/reflex` | loaded reflexes, their files and counts, semaphores of extensions | load, reload, match, execute, invoke, save | percepts, triggers, MCP tools | nested invocation, reload under a run, retries | workflows end, one at a time per extension, counts survive |
| Extensions and triggers `internal/extensions` | registry, order; registered behaviours, subscriptions | LoadAll; register, publish, schedule, evaluate, stop | reflex engine | map order; two ticks a minute | dependencies first; a schedule fires once in its minute |
| MCP server, proxies, GK pool `internal/mcp` | tools, session tokens; process per database | dispatch, request and response, evict, cleanup, close | Claude, external servers | blocking reads, eviction in use | each caller gets its own answer, from the right database |
| Engram, GitHub, embedding clients; activity log; eval; configuration; terminals; other commands | little or none | requests, file I/O | external services | – | – |

How they interact, in one turn: a sense calls `processInboxMessage`, which ingests the message and passes its
percept to the reflexes, the pattern triggers and `exec.AddPending`; `Add` posts the token; the P1 goroutine
wakes, interrupts a background session, pops all urgent items and runs `processItem`; that prepares the
session, builds the prompt, installs the callbacks, registers the turn's cancel function, sends the prompt under
the session mutex, and does the bookkeeping. The background goroutine does the same for one item at a time,
every 500 ms, unless a user turn is active. Tool calls reach the MCP server in goroutines of their own while the
prompt runs; those that speak to the user submit actions to the effector, which tells the memory ingest what it
has sent.

`PROJECT.json` lists all components with what is modelled of each, and the hazards by line.

## The modules

```
QueuePromise <-implements- FocusQueue <- Executive <-+- Replies <- Prompts -> Conversation
                                             |       +- ExecSession
                                             |       +- SessionTracker
                                      ExecutiveProofs <- TurnProofs (of all of these)

Subagents, OpenCode <- ProviderSessions <- SubagentProofs
ProxyClient <- ToolServer <- ToolProofs
Chunking, Typing <- Outbox <- OutboxProofs
Extensions <- Workflows <- Triggers <- Percepts <- ReflexProofs
Episodes, DiscordSense, CalendarSense, DebugStream <- Inbound <- InboundProofs
Induction <- TurnProofs, OutboxProofs, ReflexProofs
```

An arrow points at the module that is extended. Each `MCx` module gives the constants of module `x` their
values. Definitions marked "variant" are the mutants of `PROJECT.json`: slips that the next definition could
contain. No action uses them. A step is everywhere the code between two points where another goroutine can see or
change shared state: a section under a lock, one unlocked access, a call to the outside.

**QueuePromise / FocusQueue.** `FocusQueue` has one action per method, since each holds `q.mu` throughout.
The slice only grows at its end and is otherwise filtered, so slice order is order of arrival: it is kept as
a set with a stamp per item. `Add` contains the non-blocking send on the notification channel and the trim.
`taken`, `dropped`, `lost` are history. `QueuePromise` is what producers and consumers rely on, without ages,
trim rule and channel; `KeepsPromise` is the refinement.

**Executive.** `pc` says where each goroutine is; `p1Active`, the pop and `backgroundCancel` are steps of their
own, as in the code. `running` is the extent of `SendPromptWithCfg`, and with it the session mutex. `SignalDone`,
`InterruptCurrentSession` (`/stop`), `MemoryReset` and `WakeTimeout` may come at any time their callers can
make them. `SendReturns` covers the returns of `SendPromptWithCfg`: normal, interrupted, fallback, error.

**Replies, ExecSession, SessionTracker** each add variables to `Executive` and conjoin to its actions what the
same lines of the code do to them. They do not change the turns, and leave each other's state out: this keeps
every state space small and is sound since none of that state guards a step of the others (the guard
`ShouldReset` chooses only between the two Prepare calls, which `Executive` treats alike). `ExecSession` and
`SessionTracker` also add a restart, in which the process dies at any point and starts from its files.
`sessions.json` is written in place with errors ignored, so each of the tracker's saves may leave the file as it was
or cut it short (`SaveOver`), and a start may find it unreadable or fail to read it (`Loaded`).

**Conversation / Prompts.** `Conversation` is `buildRecentConversation` and its variant for wake-ups as pure
operators on a log of episodes, each known by the tokens its forms take. `Offer` says which episodes may be shown and in
which form: tiers of full texts and summaries, then what is not yet consolidated; `Filling` is the two loops
over the budget, round by round; `NewestThatFit` is the reference definition. `Prompts`
superposes on `Replies` what a turn's prompt carries: the bundle of `buildContext`, and the handoff notes that
`buildPrompt` reads and truncates in two steps while `signal_done` appends; it adds `Restart` too. A prompt carries its
notes until `SendPromptWithCfg` returns: delivered when it returned nil, given up otherwise (`SendingEnds`), since no
later prompt finds them in the emptied file.

**Subagents.** One goroutine per session (`pc`), the `Spawn` call, the `CanUseTool` hook that blocks for an
answer, the two watchers of `executive_v2.go`, and the operations behind `Agent_spawn_async`,
`answer_subagent`, `stop_subagent` and `approve_subagent_memories`. `StopRequest` and `Stop` are the two halves
of `Stop`, which releases the lock between. The queue the watchers feed is not part of it: `announced` and
`reports` are what they add.

**OpenCode / ProviderSessions.** `OpenCode` has the provider (`server`, `attempted`), session objects, one
prompt per goroutine that sends one, and the poller beside each prompt: it lists what is pending, puts each
permission it has not replied to to a handler, and replies. `ProviderSessions` composes it with `Subagents`: the
provider branch of `processItem`, in which both goroutines use one object without a lock, and
`runProviderSession`, whose handler waits for an answer in the poller's goroutine and whose tool calls arrive
after the prompt.

**Chunking / Typing / Outbox.** `Outbox` has the effector's goroutine tick by tick: the snapshot of the pending
list, each action skipped or executed, its chunks one by one, and the rest put back in front. `settled`,
`posted`, `captured` are what it tells others. A call may fail before or after Discord took it. `Chunking` cuts a
text of marks (letter, blank, newline, fence) as `chunkMessage` does, offsets included, as a recursive function;
`Plain` are the texts that should come out whole and once. `Typing` has the indicator goroutines and the map
through which they are stopped.

**ProxyClient / ToolServer.** `ProxyClient` has the client's mutex, the two pipes and the child process, which
answers in order, hangs, fails a request or ends. `ToolServer` has one goroutine per request: session token to
domain and domain to database (two spellings of a domain may be one), dispatch, `getOrStart` under the pool's mutex,
the call, eviction; the idle sweeper, the shutdown, and the proxied server that is started before serving. Three
kinds of request go to the pool: the GK tools, resource requests, and the built-in `read_resource`, which takes the
root when it is given no domain, whichever session calls it.

**Extensions / Workflows / Triggers / Percepts.** `Extensions` is `LoadAll`: both directories, then the depth-first
search from every map order, whose calls in progress are `path`, and the filtering of the order (`Filtered`).
`Required` is the reference definition of what an extension requires indirectly: what is in every set that is
closed under requirements. `Workflows` keeps, per goroutine, a stack of frames: a run of a reflex with its
position, variables and retries, the semaphore it holds, and the object it was started on, which a reload may have
replaced. Its save of the fire counts may fail or cut the file of all names short. `Triggers` is the dispatcher's
schedules and conditions over a clock of half minutes. `Percepts` is `processPercept` over all of it, with the MCP
tools that run, create and delete workflows, edits of the files, and restarts.

**Episodes, DiscordSense, CalendarSense, DebugStream / Inbound.** `Episodes` is the ingest of a message, with the
per-channel lock taken for the swap of the last episode only. `DiscordSense` separates the sessions of the
library (open, redialling) from what the program believes of them (`connected`), with events handled in any order
and the monitor that replaces a session. `CalendarSense` has a poll step by step: listing, agenda, reminders,
sprint briefs, each marked, saved and sent in the order of the code. `DebugStream` has the commands of
`/debug-executive` as the steps between which the debugger's lock is free, the fan-out of events to the listener,
the replay of the history, and the dispatchers, which read `d.done` without the lock. `Inbound` wires the four
together and lets the process crash, in the middle of a write too, and start again.

## Runs

Deadlock is not checked: the instances are finite (each item is added, each request made, each minute passed
once), and when everything is handled nothing is left to do. Item priorities follow their producers: P1 for
Discord and inbox messages, P2 for due tasks, P3 for wake-ups; nothing produces P0, but the queue's own run
includes one.

| Run | Instance and bounds | Distinct states | Shows |
|---|---|---|---|
| `focus_queue` | five items (P0, P1, P2, two P3) on capacity 2; restarts at any time | 48 thousand | `KeepsPromise`: conservation, no urgent item dropped, background ones only when there is no room |
| `executive` | a message, a due task, a wake-up; capacity 1 | 435 thousand | `NoLostWakeup`; `OvertakenAtMostOnce`: at most one background prompt is sent while a user batch waits or runs; `EveryItemServed`: every item is taken, or trimmed if it is not urgent |
| `executive_cancel` | the same | – | a violation: see below |
| `replies` | two messages and a due task, for the replies; a message, a short reply and a wake-up with two notes or restarts; a first prompt over 1365 logs of up to five episodes | 2.0 million | `SilentOnlyIfMasked`, `FallbackAfterAnswerOnlyIfStolen`: what can go wrong with replies, and nothing else can; `NotesReachPrompts`: a note is in the file, on its way in a prompt, delivered, or lost in one of three ways; `ConversationHasNoHoles` |
| `exec_session` | a message and a wake-up in both lanes, two conversations, with `memory_reset`; three messages in the P1 goroutine alone, four conversations | 2.3 million | `ForgottenOnlyByRestart`; `SoundWhenAlone`: context, capture and memory ratings are right as long as one goroutine alone has used the session |
| `tracker` | a message and a wake-up; one midnight; two tracking IDs; a retry in the first turn only; any save of the file failing or cut short, or the file unreadable at a start, after which there is no retry, reset or signal | 3.4 million | `RecordsKept`: unless a save failed, the file holds what is known of the day; what ended on a day it had noticed is counted, and nothing else; `RecordedUnlessOverlapped` |
| `subagents` | one session with two questions that may be stopped, one with a question and a thought; channels of one place | 1.8 million | `NoQuestionLost`, `AnswersItsQuestion`, `FinalStatusStays`, `ReportedOnceAsIs`, `SavedOnce` |
| `providers` | the executive's two goroutines on one session; a subagent with two permissions, questions and a thought; two subagents that start the server together | 457 thousand | `PutOnce`, `PermissionsServed`, `FinalChangedOnlyByPoller` |
| `outbox` | two messages, or a message and a reaction, for one channel, failing at every point, with a slash command's token and the stop; or one message of each `Plain` text of 6 or 7 marks, cut at 5; four units of time until an action is given up, backoff at most 2; typing on its own | 115 thousand | `ActionsAccountedFor`, `OvertakenOnlyWhileRetrying`, `PrefixRepeatedOnlyByRetry`, `EveryActionResolved`, `ChunksFit` |
| `tools` | three requests for one database under two spellings, two by a subagent; or a call and a subagent's `read_resource` for two databases, with sweeper and shutdown; or proxied, built-in and unknown tools; three processes of which one may hang | 35 thousand | `OneProcessPerDatabase`, `AnswersBelong`, `CallsEndUnlessHung` |
| `reflexes` | extensions that require one another in circles; a percept whose reflexes invoke and escalate; edits of a file or a restart around two percepts; a schedule and a condition of one extension over four half minutes, or with a call of `invoke_workflow`; nesting one deep; any save of the counts failing or cut short | 57 thousand | `DependenciesFirst`, `OneRunPerExtension`, `CountsKept`, `ScheduleKept`, `EscalationReachesExecutive`, `WorkflowsEnd` |
| `inbound` | connections lost twice; a message around one loss; two messages and two replies without; a day and a half of two calendars with three events, one failure, one change and a crash; three debug commands beside two events of one session, on a history and a channel of one place | 552 thousand | `HandedOverOnce`, `EpisodesFormOneChain`, `NotifiedOnce`, `NoReminderMissed`, `EventsAccountedFor`, `ConnectionRecovers` |

Why the bounds are enough. The interesting cases are pairs: two goroutines, two turns in a row in one of them,
a full queue with either kind of item, two requests for one process, two workflows of one extension, two sessions
of which one replaces the other. Five items on two places fill the queue with urgent items, background items and
both. One item per lane and one more puts a turn before, beside and after another; the third item is needed for
overtaking and trimming. Two conversations are what it takes for an old one to come back, and two tracking IDs
for one turn to take another's. One place in the notification channels makes the hook and the final report
block, as sixteen do in the program. Texts of seven marks cut at five hold every combination of a fence, a
blank and a newline near the limit; they are the `Plain` ones, for which the theorem is stated, and half of five
leaves no room for a language after a fence. Five episodes give every tier of the conversation, scaled, its first and
last entry. A day and a half with a poll per sixth of a day repeats a daily event once.

Several runs are a union of scenarios, a `CONSTRAINT` called `Scenarios`: each is an instance of its own (other
producers quiet, or a fault only here), and together they are checked in one state space, because the product of
everything with everything would be too large and would mostly repeat what the parts show. A behaviour that
leaves all scenarios is cut off there, after its last state has been checked. What one scenario leaves out
another has: messages of arbitrary text are sent without failures, which the two fixed actions have; what follows
the start (`reflexes`) is explored behind one search order, all of which are explored for the property about
order; the subagent on a provider has questions or a thought; a crash ends the debug scenario, where nothing is
kept. `NoReset` in `replies` leaves out `memory_reset`, which does to a turn what `signal_done` does. Symmetry is
over items with equal priority and salience and is used only with safety properties.

### Fairness

The goroutines are ordinary Go goroutines in loops, so an enabled step is taken: weak fairness of each
goroutine's steps. Beyond that:

- `executive`: `SendPromptWithCfg` runs under a 30-minute timeout, so a prompt ends; waiting for the session mutex
  is not starved, since Go's `sync.Mutex` hands over in order after a millisecond, and weak fairness is all that is
  needed because each lane adds finitely many items. None is assumed of producers, tools, users or resets. That a
  session returns is assumed, so the wait of a `memory_reset` for the mutex its own caller holds ends by that
  timeout at the latest; `EveryItemServed` says nothing of how long that takes.
- `outbox`: weak fairness of the loop, whose calls return one way or the other; strong fairness of the clock,
  which can advance between ticks only. None of submissions, `Stop`, or of Discord ever accepting a call.
- `tools`: strong fairness of each request's goroutine, since a mutex that is released again and again is
  eventually obtained; weak fairness of the sweeper and of processes that neither hang nor end. None of
  anything that could free a hung process: nothing can.
- `reflexes`: weak fairness per goroutine; actions return, and waiting for a semaphore ends after 30 seconds.
- `inbound`: weak fairness of the monitor's tick and of each handler the library has started; strong fairness of
  a hard reset that succeeds, that is, Discord does not refuse new sessions for ever; weak fairness of the
  start of the service (launchd `KeepAlive`, systemd `Restart`). Handlers run within one tick of the monitor.
- `providers`: weak fairness of the executive's pollers only. None of the server or of prompts.

## Proofs

Every invariant and every action property of the runs, and the refinement, is a theorem for every value of the
constants; `ChunksFit`, which is not true of all messages, for those that are `Plain`. The theorems are in one
module per group of components. In each the invariant of a run is not inductive as it stands: what is proved is a
stronger invariant, written as a conjunction of named parts, and the property follows from it. The stronger
invariants were given to TLC on the runs' instances before they were proved. `PROJECT.json` lists the theorems with
the property each states.

### Assumptions

All are `ASSUME`s of the module that declares the constants, and TLC evaluates them in the runs.

- `FocusQueue`: finitely many items, priorities in 0..4, natural saliences, a positive capacity. `WakeItemType`:
  wake-ups are items of background priority (the code makes them P3).
- Bounds (notes, restarts, events, retries and so on) are natural numbers; capacities of channels and histories are
  positive (`SubagentConstants`, `OutboxConstants`, `DebugConstants`, `ClientConstants`, `TypingConstants`).
- Types of what is configured: `ToolConstants`, `OpenCodeConstants`, `EpisodeConstants`, `ExtensionConstants` (a
  loadable extension requires a sequence of names), `WorkflowConstants` (steps and defaults name reflexes that have a
  name, not that exist), `TriggerConstants` (minutes), `PerceptConstants` (a reflex's file is written under its
  name; goroutines of percepts, calls and behaviours are different ones), `LogsType`, `ConversationConstants`.
- `ProviderConstants`: each subagent has an object of its own, the executive's goroutines share one.
- `CalendarConstants`: an event's ID stays, it starts before it ends and is of a calendar that is asked; and
  `Poll \in 1..Ahead`, which holds of the defaults, five and fifteen minutes, the only values `main` uses.
- `SenseConstants`: the health monitor waits at least one tick.

### Queue and executive: `ExecutiveProofs`

- `TypeCorrect`, `ExecutiveTypeCorrect`: the type invariants. The executive's needs only `LoopTypeOK`, because
  every step is a step of the queue (`QueueStep`), whose invariant carries over.
- `ItemsAccountedFor`: the inductive invariant is `Ledger`, conservation together with "no trimmed item is
  urgent"; neither conjunct is disturbed by the other's steps, but conservation needs the types.
- `OverflowIsUrgent`: the lemma `TrimBounds` says what trim leaves: at most the capacity, or nothing droppable.
- `OldestTrimmed`: an action property; a trimmed item has a smaller stamp than any that stays.
- `PromiseKept`: initial states map to initial states and each step to a step of `QueuePromise` or a stutter,
  under the type and overflow invariants.
- `ExecutiveUsesQueue`, `ExecutiveKeepsItems`: the executive inherits what the queue guarantees.
- `NoUrgentItemStranded`: inductive with the types. The point of the argument is that the P1 goroutine goes
  back to sleep only after a pop that found nothing urgent (`SleepsOnlyEmpty`), and that every later `Add` posts
  a token.
- `SessionsExclusive`: only `SendPrompt` enters `running`, and it needs the mutex (`OnlyTurnsRun`).
- `UserBatchOvertakenOnce`: "at most one" is not inductive. `OvertakeInv` ties `p1Active` to the position of the
  P1 goroutine and adds that after one overtaking the background goroutine has already sent its prompt: its
  next turn is held back by `p1Active`.
- `CancelTargetsLiveTurn`: whoever is registered is between `Register` and `Leave`.

### Turns: `TurnProofs`

- `NotesAreNotLost` rests on `Covered`: what the file holds while a goroutine is between its read and its
  truncation is in the prompt it builds or was appended meanwhile, and `OnTheWay`: notes are carried only between
  the building of a prompt and the return of its `SendPromptWithCfg`, and the file is truncated before it is sent. So
  a prompt that is built never replaces one that still carries notes, and a return decides over all it carried.
  `PromptsTypeCorrect` is the type invariant.
- `SilenceIsMasked` and `FallbackIsStolen` rest on `ReplyInv`: the batch of the P1 goroutine was taken from the queue
  and so is not answered yet (`BatchTaken`, `Unanswered`, `FreshBatch`, by the queue's conservation), the background
  goroutine has no user item, a recorded reply of its own turn answered all its items, and an answer is on record
  unless the closure was replaced (`RecordsTell`).
- `ConversationIsWhole`: at every length the rounds of `Filling` have taken all candidates so far or have stopped at
  one that did not fit (`Filled`), by induction over the rounds; the reference's `k` is where they stopped.
  `TalkInv` carries that to the bundle: it belongs to a turn whose items are all wake-ups or none is, and they
  stay the same until the turn ends. The case of wake-ups is why `WakeItemType` is needed: a user batch, which may
  be several items, has none.
- `TrackerTypeCorrect` and `RecordsAreKept` are parts of one inductive invariant, `RecordInv`: unless the last save
  failed, what memory holds is what the file holds; the file, whether whole, old or cut short, is of no later day than
  memory and all of a day's was completed on it (`FileOK`), so that a start cannot charge the day with another; and
  what ended on a day was ended after the tracker noticed it (`EndedToday`) and is still counted, unless a start
  found the file behind or unreadable. That every call saves what it leaves in memory is `SavedRecord`, that a
  completion and its usage keep what is counted `CompletionCounts`. `OwnSessionRecorded` follows
  from `OwnCharged`: from `Start` to the bookkeeping a turn's ID is active, unless another goroutine has drawn an
  ID or the day has ended since.
- `SessionLoopTypeCorrect`, `SessionOneAtATime`, `SessionTypeCorrect` carry the types and the mutual exclusion over
  restarts. `ForgottenStaysForgotten` needs two facts together: `IDs`, that nothing refers to a conversation that
  has not begun, and `Remembered`, that the conversation in use, or the one a running prompt talks to, was begun
  after the last reset or came out of the file. A running conversation cannot be forgotten under its prompt because
  `Reset` waits for the mutex.
- `SoundWhileAlone`: `SoleInv` holds while only urgent items were taken and nothing was forgotten (`Sole`, which a
  waiting `memory_reset` leaves alone): the background goroutine is outside its turn, and what the P1 goroutine
  decided when it prepared (`Decided`) still holds when it sends, so no conversation begins with a short prompt;
  what it captures and shows is its own (`OwnPrompt`).

### Subagents and provider sessions: `SubagentProofs`

- `SubagentTypeCorrect`: `TypeInv` is the type invariant in three parts, so that a step need only be looked at
  for the parts it touches, and says in addition that `saved` is a function on the sessions.
- `AnswersTheRightQuestion`, `ReturnedIDIsGood`, `FinalStatusIsFinal` rest on one inductive invariant, `LifeInv`:
  per session, `Ends` (a goroutine has left its loop exactly when the status is final), `IDs` (what the map
  holds at each stage of the spawn) and `Turn` (while not cancelled, a filled answer buffer belongs to the
  question being waited on). A step of one session leaves the `Life` of the others alone (`OthersKept`).
- `ReportsAreTrue`: `ReportInv` adds that a session is in `doneNotify` at most once, only when done, and not
  after it was reported; that the label is right then follows from the final status being final.
- `QuestionsReachTheExecutive` is inductive with the types; the argument is about the sequence in the channel
  (`HoldsAppended`, `HoldsTail`): the watcher that takes a session's notification reads its current question.
- `ThoughtsSavedOnce`: a thought that is staged or not yet thought has not been saved.
- `PermissionsPutOnce`: `OcInv` says that no two objects have one opencode session (`SessionNumbers`), that only a
  message that reached a session asks (`Requests`), that a poller lists permissions of its own object only
  (`OwnPermissions`), and that what was put to a handler in the object's present session is marked (`Handed`). It
  is for any number of prompters, objects and pollers left over.
- `FinalStatusOnProvider`, an action property, adds to it `Course`, where goroutine, prompt and status stand to each
  other, and `OwnPending`: a subagent's object is its own, so what its poller fetched is still pending, and a poller
  that goes on after the end belongs to a prompt that failed.

### Effector: `OutboxProofs`

- `EveryActionIsAccountedFor`: `OutboxInv` says list by list what the property says of all three at once, and
  adds that the tick's own lists are empty between ticks, without which `Snapshot` would overwrite actions. The
  steps rest on lemmas about sequences without repetition (`AppendElements`, `TailElements`, `ConcatElements`).
- `OvertakingIsRetrying`: what is kept, what is left of the tick and what waits are, in this order, always in the
  order of submission (`ListsOrdered`), and only the head of the tick's list is posted (`OnlyHeadIsPosted`). So an
  earlier action that is not settled is among those kept, and what is kept has failed (`KeptHasFailed`).
- `PrefixesAreRetries`: what Discord got is a `Ladder` of runs down from the first chunk; there are no more runs than
  failed attempts and one for the attempt being made, once its first chunk is out (`Received`, `Begun`). That
  `ChunkMessage` returns a sequence of at least one chunk, for any text, is by induction over its rounds.
- `ChunksFitTheLimit`: of messages of any length that are `Plain`: they do not begin with a blank, and from a code
  fence to the end of its line there are fewer marks than half the limit (a thousand characters) and no letter.
  `CuttingKeepsTheText` is what the rounds do to a text, and allows letters after a fence: cutting ends, the chunks fit
  and none is blank, and every letter is sent, more than once only if it is in a line that is repeated. A cut takes
  more than half the limit (`WhereToCut`) and so more than the fence line it puts back (`OpenFenceShort`, `OneCut`), and
  what is left has short fence lines again (`FencedFrom`, `FencedAgain`). Without the premise it is false: a fence
  line about as long as the limit is opened again by every cut ([below](#what-the-code-does-not-keep)).
- `TypingCanBeStopped`: a typing goroutine that has not been told to stop is in the map.

### MCP server and processes: `ToolProofs`

`ToolInv` is inductive. `ClientInv` describes a client's pipes: while somebody holds the mutex they carry his
request or the answer to it, and otherwise nothing, unless the process is gone. `PoolHeld` says who may hold the
pool's mutex and where; `Owned`, that a process that runs is an entry's, the one being started or the proxied
server, and that one being started is nobody else's (`New`); `Belongs`, per request, how its place, database,
process, result and hook agree, and that its database is the right one (`MeantIsAsked`: that of the domain meant,
but for a `read_resource` without one). `ProcessesAreOwned` and `AnswersAreOnesOwn` read off the properties. The
proof shows why an answer cannot go astray without its ID being compared: a client whose request failed is down
before the mutex is free.

### What comes in: `InboundProofs`

Each part has an invariant of its own, which the steps of the others leave alone.

- `EpisodesAreChained`: the invariant speaks of `Links`, the edges there would be if Engram refused none, of which
  the edges are a part. The last episode of a channel is followed by nobody but the one that has read it under the
  lock (`LastOne`), so a new link neither branches nor closes a circle (`NoCircle`: every set of links has a first
  one).
- `MessagesHandedOverOnce`: until a session that is redialling is replaced, at most the current session is
  connected or becomes so (`OneListens`), hence no message is on its way to two.
- `NoticesAreSentOnce`: `NoticeInv`, as long as no save went wrong: the file holds what memory does, and what was sent
  within the last day is remembered under its key, so that what is about to be sent was not sent for a day.
  `AgendaInv`: a day's agenda that was sent is noted, or is about to be and no other is fetched.
- `RemindersAreSent`: `KnownInv` says that a key that is remembered was sent, is about to be, or was lost by a crash;
  `ReminderInv`, at each stage of a poll, that the last undisturbed poll dealt with a meeting less than `Ahead` away.
  Two polls are at most `Poll <= Ahead` apart, so one of them saw it. That a listing holds the meeting unless
  others take its place (`ListedUnless`) is proved for any number of calendars and events.
- `StreamMissesNothing`: `StreamOrder` says that while a stream is live nothing else becomes `d.eventCh`, so whoever
  reads the channel finds this stream's and posts to its thread; `Accounted` says where each event of the history is.

### Reflexes: `ReflexProofs`

- `EngineInvariant`: `Stacks` (frames are runs, a frame that has called another waits at its step, the depth is
  bounded), `Files`, `Calls`. All that follows uses a division of the next-state relation by what a step does to the
  engine (`Steps`), so that the many actions of `Percepts` are looked at once.
- `ExtensionsRunOneAtATime`: whoever is in the steps of an extension's flow holds its semaphore (`Holding`); a wait
  that timed out does not enter them.
- `FiresAreCountedOnce`: a name that is not muddled (its runs overlapped nothing, no save of its count failed, and the
  file was not cut short) has one run, whose object is the registered one or the one that
  was, and what that run has read and will write agrees with the file (`Tallied`, `RunCounts`, `RegisteredCounts`).
- `EscalationsReachTheExecutive`: an escalation that counts is on its way out of the goroutine's frames, none of which
  is retrying, or is what `Execute` has returned (`Reaching`, `Leaving`).
- `SchedulesAreKept`: a half minute at which a schedule was idle and whose tick it has taken made it fire, if its
  minute was one of its own (`WasDue`, `Kept`).
- `ExtensionsLoadInOrder`: while the search runs, the calls in progress are a `Trail`: each requires all after it and
  is being visited, and has done its part truthfully (`Honest`: if it may still succeed, what it has done with is
  visited; if not, it is unsound, that is, requires a cycle). What is visited and sound is in the order, after all
  it requires (`Ordered`). A call that meets one in progress has found a cycle (`CycleFound`), and unsoundness
  spreads to what requires it (`UnsoundSpreads`). Filtering keeps the order (`FilterChooses`, by induction).

### Induction: `Induction`

Two facts of mathematics that the other proofs rest on; they say nothing of the system, and `PROJECT.json` does not list
them. The provers cannot be given the library's induction rule, which takes an operator. `NaturalsBySteps` is the same
rule for a set, from the well-foundedness of `<` on the naturals, and `Recursion` shows with it that a function
defined by its value at 0 and a step exists, which is what the definitions `Rounds`, `Filling` and `Filtered`
need. That is why those are recursive functions on the naturals and not operators.

### Only model-checked

- `EveryItemServed`, `EveryActionResolved`, `CallsEndUnlessHung`, `WorkflowsEnd`, `PermissionsServed`,
  `ConnectionRecovers`: liveness under fairness, and ENABLED, are outside the prover's reach.

Neither checked nor proved is `ChunksFit` for messages that are not `Plain`. When a fence line names a language,
its letters go out with each reopened block; what holds of these messages is `CuttingKeepsTheText`. Of fence lines of
half the limit and more nothing is claimed.

## What the code does not keep

One statement of a comment is shown violated by a run of its own:

- `executive_cancel`: both goroutines share one `signalDoneCancel`, set before the session mutex is taken and
  cleared by whoever leaves; the running session is not always the one `signal_done` and `/stop` reach
  (`executive_v2.go:967` against line 756).

The other disagreements with comments and docs follow from the models, where most appear as the exception in a
property, without which the property fails. `findings` in `PROJECT.json` quotes the lines.

- `memory_reset` waits for the mutex its own caller holds before it signals done, so the session it is meant to
  end runs on, and the signal then cancels whichever turn has registered by then.
- The record of MCP replies and the closure are shared, so a background reply can stand for the user's.
- Usage of an earlier conversation outlives it, and the next one is given up for it; memories of a short reply
  are marked as seen though the prompt left them out; nothing is ever excluded from the recent conversation,
  whose extension has limits that the comment about a safety net does not mention.
- Handoff notes go to whichever prompt is built next, not to the next autonomous session.
- Effector: a refused message is retried until the maximal duration because the error is wrapped; a fence opened
  after the cut is closed and opened once too often, and a fence line about as long as the limit keeps
  `chunkMessage` from ending.
- GK pool: a tool's own error evicts its process; `read_resource` without a domain reads from the root, also when a
  subagent of another domain calls it. Proxy: the response is not matched by its ID; it is right
  because a failed process is closed before another request reads (`AnswersBelong`).
- Extensions: members of a cycle stay in the registry. Reflexes: a stop or an escalation inside a retried step
  counts as a failure; only the first of several results decides whether the executive sees the percept.
- No autonomous work is ever blocked by the budget, since impulses have another source than the gate asks for.
- Calendar: what a restart repeats is not deduplicated; a morning on which no calendar answers is a day without
  agenda.
- Discord: a late event of a closed session changes what is believed of its successor (when it says connected, the
  monitor sees no outage to end, which `ConnectionRecovers` says nothing of), and a session replaced
  while redialling may come back and deliver messages a second time.
- Debug stream: a stop between the start of a thread and the registration of the listener leaves the listener
  behind, and a dispatcher that reads `d.done` after the stop has set it to nil waits for ever. Events are not
  handed over without blocking: `handleEvent` waits for the lock that is held while the thread is created.
- opencode: all sessions talk to the MCP URL registered first, and without a handler permissions are denied,
  not approved.

Smaller things seen while modelling, without an entry in `findings`:

- Queue: trim removes the *oldest* droppable items, not the lowest priority (`queue.go:135` against the comments
  at lines 48 and 121); nothing writes `pending_queue.json`, so the queue does not survive a restart
  (`queue.go:146`, `docs/attention-salience-computation.md:73`).
- Executive: every `Add`, of any priority, wakes the P1 goroutine and interrupts the background session
  (`main.go:1504`), and a background session that starts after the one interrupt request is not interrupted at
  all; `LastUserInputTime` counts impulses. `mcpToolCalled`, `seenMemoryIDs` and `memoryIDMap` are read and written
  without a lock.
- Session: with both goroutines at work, each part of `SoundWhenAlone` fails: `isResuming`, the conversation ID
  and `memoryIDMap` belong to one session and are changed by the other turn between a turn's reads. `Reset` leaves
  `executive-session.json`, so a restart resumes the conversation that was reset. A session that begins with a
  short reply or a subagent's item never gets the conversation so far, memories are searched for the first item
  of a batch only. A handoff note is lost with the prompt that took it, when the session falls back (the retry finds
  the file empty) or the turn is cancelled or fails before its query: one of the exceptions in `NotesReachPrompts`.
- Tracker: a turn's end is recorded under the session's current ID, which the other goroutine may have rotated; a
  turn cut short is charged the usage of the previous one; a failed turn stays active until a restart on another
  day; a session that ends after midnight, before a start or a query noticed the new day, is wiped with yesterday's
  by the next one that does (`sessions.go:75`, `:162`). The result of writing `sessions.json` is ignored (`:221`),
  and a file that cannot be read or parsed counts as none, so the sessions of the day are lost by a restart after a
  failed write.
- Subagents: a session that ran for over an hour is forgotten, with its staged memories, at the next cleanup,
  because its age counts from the spawn (`docs/subagent-orchestration.md:138` promises a window for queries);
  approval also drains thoughts that arrived after the executive last looked; a subprocess that dies is
  reported as completed, since the receive loop's error is dropped. On a provider: a second session on the same
  object orphans the permissions of the first, a reply that failed is never sent again, a server that died is
  never restarted, an entry under the temporary ID stays when the spawn times out, a left-over poller can change
  a final status, and a question asked in a response blocks although the prompt is over.
- Effector: a text of blanks only becomes an empty chunk; the chunks sent before a failure are sent again; a
  typing goroutine whose first call fails leaves its entry, and the channel shows no typing until it is stopped; a
  second slash command replaces the token of the first.
- Reflexes and triggers: a workflow that invokes another of its own extension waits for itself for 30 seconds and
  then fails; slash-command and event triggers have topics nobody publishes; `HandleOnResult` is never
  called; a deleted override gives way to the default only after a restart; a workflow run from a file counts from
  zero; a reload loses the count of a run in flight; a restart within a minute can fire its schedule again; an
  escalation in a behaviour's workflow is dropped. `reflex-stats.json` is written in place with errors ignored
  (`engine.go:842-877`), so a write that is cut short loses the counts of all reflexes.
- Senses: messages carry no timestamp of their own; a meeting moved within its day is not announced again; the
  deduplication over calendars may hide the copy that was accepted; ten ongoing events crowd out the next.

## Not modelled

Texts of prompts, messages and logs; SDK options; plugin and skill files. In the executive: the attention slot (one
pointer read only by observability), recalled memories and `seenMemoryIDs`, the wait for `reset.pending` (a delay
of at most ten seconds), errors in reading or truncating the handoff file. In `Subagents`: the capped event log,
workflow fields, ages. In the effector: tables and images, and the drop of actions for another effector
(`discord.go:173`), which no producer makes. In the reflex engine: what actions compute, templates, and an error in
reading the file of counts; in the triggers: cron fields beyond sets of values. In the MCP server: stdio and JSON,
and the tool handlers that only pass a request on. In the calendar sense: `checkPredictionReview`, which is
disabled, requests, tokens, and the tools that write events. The Skill tool and the lists of workflows and skills
only read the registry.

Of the outside it is assumed: a resumed Claude conversation keeps its ID, the hook is called one call at a time
while the receive loop runs, and its context ends with the session's; an opencode message returns when nothing of
its prompt is pending, or fails; MCP servers answer in order and send no requests; Discord may refuse a call or
lose its answer; Engram may refuse any call.

HTTP clients, file inspection, configuration, terminal drivers, parsers and validators of single files, the
evaluation judge and the separate commands are plain I/O or pure functions without a protocol between actors;
`PROJECT.json` gives the reason for each.

## Plan

Every module is written, and every invariant and action property of the runs is a theorem. What is left:

1. The sharpest bound on fence lines for which `chunkMessage` ends: `CuttingKeepsTheText` has half the limit, which is
   what a cut takes at least; most cuts take nearly all of it.
2. An abstract specification of the session's mutual exclusion, which `Executive` and `ExecSession` implement, in
   place of `OneSessionAtATime` in two modules.
3. What the liveness properties rest on and can be proved as safety: that a request waits only for a mutex
   somebody holds (`PoolHeld` has it in part), that a percept that is not done has a goroutine.
4. Shorter proofs where lemmas about stacks and notices are used once.
