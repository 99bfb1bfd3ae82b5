-------------------------------- MODULE Outbox --------------------------------
(***************************************************************************)
(* The Discord effector (internal/effectors/discord.go): actions are       *)
(* submitted by the callbacks main.go gives the MCP tools, the reflexes    *)
(* and the executive; one goroutine executes them, keeps those that fail   *)
(* for a retry with exponential backoff, and gives up after a while.       *)
(*                                                                         *)
(* Time is counted in units of the first backoff.  A tick reads the clock  *)
(* once, when it starts, so time is let pass between ticks only.  Not      *)
(* here: the conversion of tables, which is layout.  External: Discord,    *)
(* which may refuse a call or lose its answer.                             *)
(***************************************************************************)
EXTENDS Chunking, Typing
Sequence == INSTANCE SequencesExt

CONSTANTS
  Action,
  Kind,        \* "message", "reaction" or "file"
  To,          \* the channel an action goes to
  Contents,    \* bound: the texts of the actions a behaviour submits, as functions
  MaxRetry,    \* maxRetryDuration
  MaxBackoff,
  MaxSlashes   \* bound: slash commands received

ASSUME OutboxConstants ==
  /\ Kind \in [Action -> {"message", "reaction", "file"}]
  /\ To \in [Action -> Channel]
  /\ \A f \in Contents : DOMAIN f \subseteq Action /\ \A a \in DOMAIN f : f[a] \in Seq(Mark)
  /\ MaxRetry \in Nat \ {0} /\ MaxBackoff \in Nat \ {0} /\ MaxSlashes \in Nat

VARIABLES
  content,     \* the actions this behaviour submits, and their texts
  accepted,    \* history: the actions submitted, in order
  pending,     \* e.pending
  toProcess, stillPending,     \* of the tick that runs; its head is being executed
  pc,          \* the goroutine: "idle", "pick", "send", "returned"
  chunks,      \* what is left to send of the message
  retryStates, \* e.retryStates: attempts, age of the first failure, time to the next
  settled,     \* history: how actions ended, "done" or "failed"
  posted,      \* history: the chunks of each action that reached Discord
  captured,    \* history: the messages ingested as Bud's own
  token,       \* pendingInteractions: "none", "live" or "expired" per channel
  slashes, stopping

loopVars == <<accepted, pending, toProcess, stillPending, pc>>
sendVars == <<chunks, posted>>
endVars == <<retryStates, settled, captured>>
outboxVars == <<content, loopVars, sendVars, endVars, token, slashes, stopping>>

OutboxInit ==
  /\ content \in Contents
  /\ accepted = <<>> /\ pending = <<>> /\ toProcess = <<>> /\ stillPending = <<>>
  /\ pc = "idle" /\ chunks = <<>>
  /\ retryStates = <<>> /\ settled = <<>> /\ captured = {}
  /\ posted = [a \in Action |-> <<>>]
  /\ token = [c \in Channel |-> "none"] /\ slashes = 0 /\ stopping = FALSE

Elements(s) == {s[i] : i \in DOMAIN s}
Without(f, a) == [b \in DOMAIN f \ {a} |-> f[b]]
Put(f, a, v) == [b \in DOMAIN f \cup {a} |-> IF b = a THEN v ELSE f[b]]

-----------------------------------------------------------------------------
(* Around the loop.                                                        *)

Submit(a) ==
  /\ a \in DOMAIN content \ Elements(accepted)
  /\ accepted' = Append(accepted, a)
  /\ pending' = Append(pending, a)
  /\ UNCHANGED <<content, toProcess, stillPending, pc, sendVars, endVars>>
  /\ UNCHANGED <<token, slashes, stopping>>

(* A slash command is acknowledged and its token kept for one reply. *)
StorePendingInteraction(c) ==
  /\ slashes < MaxSlashes
  /\ slashes' = slashes + 1
  /\ token' = [token EXCEPT ![c] = "live"]
  /\ UNCHANGED <<content, loopVars, sendVars, endVars, stopping>>

TokenExpires(c) ==
  /\ token[c] = "live"
  /\ token' = [token EXCEPT ![c] = "expired"]
  /\ UNCHANGED <<content, loopVars, sendVars, endVars, slashes, stopping>>

Stop ==
  /\ ~stopping /\ stopping' = TRUE
  /\ UNCHANGED <<content, loopVars, sendVars, endVars, token, slashes>>

Less(n) == IF n = 0 THEN 0 ELSE n - 1
More(n) == IF n < MaxRetry THEN n + 1 ELSE n

Elapse ==
  /\ pc = "idle" /\ retryStates # <<>>
  /\ retryStates' = [a \in DOMAIN retryStates |->
       [retryStates[a] EXCEPT !.wait = Less(@), !.age = More(@)]]
  /\ UNCHANGED <<content, loopVars, sendVars, settled, captured>>
  /\ UNCHANGED <<token, slashes, stopping>>

-----------------------------------------------------------------------------
(* processActions.                                                         *)

Snapshot ==
  /\ pc = "idle"
  /\ pending # <<>>
  /\ toProcess' = pending /\ pending' = <<>> /\ stillPending' = <<>>
  /\ pc' = "pick"
  /\ UNCHANGED <<content, accepted, sendVars, endVars, token, slashes, stopping>>

ShouldRetryNow(a) == a \in DOMAIN retryStates => retryStates[a].wait = 0

Skip ==
  /\ pc = "pick" /\ toProcess # <<>>
  /\ ~ShouldRetryNow(Head(toProcess))
  /\ stillPending' = Append(stillPending, Head(toProcess))
  /\ toProcess' = Tail(toProcess)
  /\ UNCHANGED <<content, accepted, pending, pc, sendVars, endVars>>
  /\ UNCHANGED <<token, slashes, stopping>>

(* The chunks of the texts that are sent. *)
Chunked == [t \in UNION {{f[a] : a \in DOMAIN f} : f \in Contents} |-> ChunkMessage(t)]

(* A message takes the channel's token, expired or not; an unexpired one   *)
(* has its first chunk edit the deferred response.  All of it is cut up    *)
(* before the first chunk is sent.                                         *)
ExecuteAction(a) ==
  /\ pc = "pick" /\ toProcess # <<>> /\ a = Head(toProcess)
  /\ ShouldRetryNow(a)
  /\ pc' = "send"
  /\ IF Kind[a] = "message"
     THEN /\ chunks' = Chunked[content[a]].chunks
          /\ token' = [token EXCEPT ![To[a]] = "none"]
     ELSE chunks' = <<content[a]>> /\ UNCHANGED token
  /\ UNCHANGED <<content, accepted, pending, toProcess, stillPending, posted, endVars>>
  /\ UNCHANGED <<slashes, stopping>>

(* The next chunk goes out; after the last one the message is captured     *)
(* and the retry state cleared.                                            *)
Post(a) == posted' = [posted EXCEPT ![a] = Append(@, Len(chunks))]

PostChunkOrNot ==    \* variant: the error of a chunk is not looked at
  /\ pc = "send" /\ Len(chunks) > 1
  /\ Post(Head(toProcess)) \/ UNCHANGED posted
  /\ chunks' = Tail(chunks)
  /\ UNCHANGED <<content, loopVars, endVars, token, slashes, stopping>>

PostChunk ==
  /\ pc = "send" /\ Len(chunks) > 1
  /\ Post(Head(toProcess)) /\ chunks' = Tail(chunks)
  /\ UNCHANGED <<content, loopVars, endVars, token, slashes, stopping>>

SettleKeepsState(a, how) ==    \* variant: clearRetryState forgotten
  /\ settled' = Put(settled, a, how)
  /\ UNCHANGED retryStates
Settle(a, how) ==
  /\ settled' = Put(settled, a, how)
  /\ retryStates' = Without(retryStates, a)

PostLast(a) ==
  /\ pc = "send" /\ Len(chunks) = 1 /\ a = Head(toProcess)
  /\ Post(a) /\ chunks' = <<>>
  /\ Settle(a, "done")
  /\ captured' = IF Kind[a] = "message" THEN captured \cup {a} ELSE captured
  /\ toProcess' = Tail(toProcess) /\ pc' = "pick"
  /\ UNCHANGED <<content, accepted, pending, stillPending>>
  /\ UNCHANGED <<token, slashes, stopping>>

(* Only a reaction's error arrives unwrapped: for the others the test for  *)
(* a client error never succeeds.                                          *)
IsNonRetryable(a, error) == error = "client" /\ Kind[a] = "reaction"

Backoff(attempts) ==
  LET doubled == 2 ^ (attempts - 1) IN IF doubled \in 1 .. MaxBackoff THEN doubled ELSE MaxBackoff

RetryState(a) ==
  IF a \in DOMAIN retryStates THEN retryStates[a] ELSE [attempts |-> 0, age |-> 0, wait |-> 0]

FailedAnew(state) ==     \* variant: each failure counts as the first
  [attempts |-> 1, age |-> 0, wait |-> Backoff(1) + 1]
Failed(state) ==
  [state EXCEPT !.attempts = @ + 1, !.wait = Backoff(state.attempts + 1) + 1]

(* A call fails; Discord may have taken the chunk all the same.  The       *)
(* chunks that were sent are sent again by the retry.                      *)
HandleActionError(a, error) ==
  /\ pc = "send" /\ a = Head(toProcess)
  /\ Post(a) \/ UNCHANGED posted
  /\ chunks' = <<>>
  /\ toProcess' = Tail(toProcess) /\ pc' = "pick"
  /\ IF IsNonRetryable(a, error) \/ RetryState(a).age >= MaxRetry
     THEN Settle(a, "failed") /\ UNCHANGED stillPending
     ELSE /\ retryStates' = Put(retryStates, a, Failed(RetryState(a)))
          /\ stillPending' = Append(stillPending, a)
          /\ UNCHANGED settled
  /\ UNCHANGED <<content, accepted, pending, captured>>
  /\ UNCHANGED <<token, slashes, stopping>>

PutAfter(first, second) == second \o first    \* variant
PutBefore(first, second) == first \o second

PutBack ==
  /\ pc = "pick" /\ toProcess = <<>>
  /\ pending' = PutBefore(stillPending, pending) /\ stillPending' = <<>>
  /\ pc' = "idle"
  /\ UNCHANGED <<content, accepted, toProcess, sendVars, endVars, token, slashes, stopping>>

PollLoopReturns ==
  /\ pc = "idle" /\ stopping
  /\ pc' = "returned"
  /\ UNCHANGED <<content, accepted, pending, toProcess, stillPending, sendVars, endVars>>
  /\ UNCHANGED <<token, slashes, stopping>>

-----------------------------------------------------------------------------
Fails == \E a \in Action, error \in {"client", "other"} : HandleActionError(a, error)
Sends == \E a \in Action : ExecuteAction(a) \/ PostLast(a)
Loop == Snapshot \/ Skip \/ Sends \/ PostChunk \/ PutBack \/ PollLoopReturns

OutboxNext ==
  \/ Loop \/ Fails \/ Elapse \/ Stop
  \/ \E a \in Action : Submit(a)
  \/ \E c \in Channel : StorePendingInteraction(c) \/ TokenExpires(c)

vars == <<outboxVars, typingVars>>
Init == OutboxInit /\ TypingInit
Next ==
  \/ OutboxNext /\ UNCHANGED typingVars
  \/ TypingNext /\ UNCHANGED outboxVars

(* The goroutine goes on as long as the process lives, calls return one    *)
(* way or the other, and time passes between two ticks.                    *)
LoopGoesOn == (Loop \/ Fails) /\ UNCHANGED typingVars
TimePasses == Elapse /\ UNCHANGED typingVars
Spec == Init /\ [][Next]_vars /\ WF_vars(LoopGoesOn) /\ SF_vars(TimePasses)

-----------------------------------------------------------------------------
(* An action accepted is in exactly one place: waiting, in the tick that   *)
(* runs, kept by it for later, or settled.  Retry states belong to         *)
(* actions that still wait, and messages are captured iff they were sent.  *)
Waiting == pending \o toProcess \o stillPending
ActionsAccountedFor ==
  /\ Elements(accepted) = Elements(Waiting) \cup DOMAIN settled
  /\ Elements(Waiting) \cap DOMAIN settled = {}
  /\ \A i, j \in DOMAIN Waiting : Waiting[i] = Waiting[j] => i = j
  /\ DOMAIN retryStates \subseteq Elements(Waiting)
  /\ captured = {a \in DOMAIN settled : settled[a] = "done" /\ Kind[a] = "message"}
  /\ \A a \in DOMAIN retryStates :
       retryStates[a] \in [attempts : Nat \ {0}, age : 0 .. MaxRetry, wait : 0 .. MaxBackoff + 1]

(* A message reaches its channel before one that was submitted earlier     *)
(* only if the earlier one has failed and either is not due for its retry  *)
(* in this tick or has failed again in it.                                 *)
Before(a, b) == \E i, j \in DOMAIN accepted : i < j /\ accepted[i] = a /\ accepted[j] = b
OvertakenOnlyWhileRetrying ==
  [][ \A a, b \in Elements(accepted) :
        (/\ Before(a, b) /\ To[a] = To[b]
         /\ posted'[b] # posted[b] /\ a \notin DOMAIN settled)
        => a \in DOMAIN retryStates /\ a \in Elements(stillPending) ]_vars

(* What Discord got of an action are its chunks from the first on, in      *)
(* order; they start over only after an attempt failed, and an action      *)
(* that is done got its last chunk out last.                               *)
First(a) == IF Kind[a] = "message" THEN Len(Chunked[content[a]].chunks) ELSE 1
Starts(a) == {i \in DOMAIN posted[a] : posted[a][i] = First(a)}
PrefixRepeatedOnlyByRetry ==
  \A a \in Action : posted[a] # <<>> =>
    /\ \A i \in DOMAIN posted[a] : i \in Starts(a) \/ (i > 1 /\ posted[a][i] = posted[a][i - 1] - 1)
    /\ a \in DOMAIN retryStates =>
         Cardinality(Starts(a)) <= retryStates[a].attempts + 1
    /\ a \in DOMAIN settled /\ settled[a] = "done" => posted[a][Len(posted[a])] = 1

(* Every action accepted is in the end done or reported as failed, unless  *)
(* the program stops: cutting ends, and retrying ends.                     *)
EveryActionResolved ==
  \A a \in Action :
    a \in Elements(accepted) ~> a \in DOMAIN settled \/ stopping

(* Cutting a message comes to an end; the chunks fit Discord's limit, none *)
(* is blank, and together they hold every letter of the message.           *)
ChunksFit ==
  pc = "send" /\ Kind[Head(toProcess)] = "message" =>
    LET cut == Chunked[content[Head(toProcess)]] IN
      /\ cut.rest = <<>>
      /\ \A i \in DOMAIN cut.chunks : Len(cut.chunks[i]) \in 1 .. MaxLength
      /\ Letters(content[Head(toProcess)]) = Letters(Sequence!FlattenSeq(cut.chunks))
=============================================================================
