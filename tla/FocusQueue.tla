----------------------------- MODULE FocusQueue -----------------------------
(***************************************************************************)
(* The pending-items queue (internal/focus/queue.go).  The slice q.items   *)
(* only ever grows at its end and shrinks by removal, so slice order is    *)
(* the order of arrival: it is kept here as the set of queued items with   *)
(* a stamp of arrival per item (0 = never added).  Every operation holds   *)
(* q.mu from start to end and is one action.                               *)
(*                                                                         *)
(* taken, dropped and lost are history variables: what became of the items *)
(* that left the queue by a Pop, by trim, or with the process.             *)
(***************************************************************************)
EXTENDS Integers, FiniteSets

CONSTANTS
  Item,       \* the *PendingItem values producers add, each once
  Priority,   \* item -> 0..4 (P0Critical .. P4Exploration)
  Salience,   \* item -> computed importance
  MaxSize     \* capacity given to NewQueue (100 in the program)

ASSUME ItemFinite == IsFiniteSet(Item)
ASSUME PriorityType == Priority \in [Item -> 0..4]
ASSUME SalienceType == Salience \in [Item -> Nat]
ASSUME MaxSizeType == MaxSize \in Nat \ {0}

P1UserInput == 1
P2DueTask == 2

VARIABLES
  queued,     \* q.items as a set
  stamp,      \* item -> arrival number, 0 before Add
  notifyCh,   \* TRUE: the one-slot notification channel holds a token
  taken,      \* history: items returned by a Pop
  dropped,    \* history: items removed by trim
  lost        \* history: items in memory when the process stopped

queueVars == <<queued, stamp, notifyCh, taken, dropped, lost>>

Urgent(i) == Priority[i] <= P1UserInput
Background(i) == Priority[i] >= P2DueTask

Added == {i \in Item : stamp[i] > 0}

QueueInit ==
  /\ queued = {}
  /\ stamp = [i \in Item |-> 0]
  /\ notifyCh = FALSE
  /\ taken = {} /\ dropped = {} /\ lost = {}

(***************************************************************************)
(* A definition marked "variant" is a slip the definition after it could   *)
(* contain; the model does not use it.                                     *)
(*                                                                         *)
(* trim: walking the slice from its oldest element, skip items with        *)
(* priority > P1 until `excess' of them are gone.  The slice q has the     *)
(* ages `age'; `out' is what the walk leaves out.                          *)
(***************************************************************************)
Droppable(q) == {i \in q : Priority[i] > P1UserInput}

Excess(q) == Cardinality(q) - MaxSize

Before(age, o, k) == age[o] < age[k]

Trims(q, age, out) ==
  IF Excess(q) <= 0
  THEN out = {}
  ELSE /\ out \subseteq Droppable(q)
       /\ \A o \in out, k \in Droppable(q) \ out : Before(age, o, k)
       /\ Cardinality(out) <= Excess(q)
       /\ out # Droppable(q) => Cardinality(out) = Excess(q)

NotifyIfEmpty == notifyCh' = (notifyCh \/ queued = {})   \* variant: first item only
Notify == notifyCh' = TRUE

(* Add: append, trim when over capacity, non-blocking send on notifyCh. *)
Add(i) ==
  /\ stamp[i] = 0
  /\ stamp' = [stamp EXCEPT ![i] = Cardinality(Added) + 1]
  /\ \E out \in SUBSET (queued \cup {i}) :
       /\ Trims(queued \cup {i}, stamp', out)
       /\ queued' = (queued \cup {i}) \ out
       /\ dropped' = dropped \cup out
  /\ Notify
  /\ UNCHANGED <<taken, lost>>

UrgentItems == {i \in queued : Priority[i] <= P1UserInput}

(* PopAllMaxPriority(P1UserInput): every urgent item leaves at once. *)
PopAllMaxPriority ==
  /\ queued' = queued \ UrgentItems
  /\ taken' = taken \cup UrgentItems
  /\ UNCHANGED <<stamp, notifyCh, dropped, lost>>

(* The first of a batch sorted by priority, then salience; sort.Slice is   *)
(* not stable, so any of several equal items may come first.               *)
IsFirst(i, batch) ==
  /\ i \in batch
  /\ \A j \in batch : \/ Priority[i] < Priority[j]
                      \/ Priority[i] = Priority[j] /\ Salience[i] >= Salience[j]

(* The scan of PopHighestMinPriority: a later item replaces the best so    *)
(* far only when strictly better, so the oldest of equals wins.            *)
LowestFirst(i, j) == Priority[i] >= Priority[j]      \* variant
Beats(i, j) ==
  \/ Priority[i] < Priority[j]
  \/ Priority[i] = Priority[j] /\ Salience[i] > Salience[j]
  \/ Priority[i] = Priority[j] /\ Salience[i] = Salience[j] /\ stamp[i] <= stamp[j]

PopHighestMinPriority(i) ==
  /\ i \in queued
  /\ Priority[i] >= P2DueTask
  /\ \A j \in queued : Priority[j] >= P2DueTask => Beats(i, j)
  /\ queued' = queued \ {i}
  /\ taken' = taken \cup {i}
  /\ UNCHANGED <<stamp, notifyCh, dropped, lost>>

(* <-q.NotifyChannel() *)
Receive ==
  /\ notifyCh
  /\ notifyCh' = FALSE
  /\ UNCHANGED <<queued, stamp, taken, dropped, lost>>

(* The process stops and starts again: Load reads pending_queue.json,      *)
(* which no operation writes, so the new queue is empty.                   *)
Load ==
  /\ queued' = {}
  /\ lost' = lost \cup queued
  /\ notifyCh' = FALSE
  /\ UNCHANGED <<stamp, taken, dropped>>

QueueNext ==
  \/ \E i \in Item : Add(i)
  \/ PopAllMaxPriority
  \/ \E i \in Item : PopHighestMinPriority(i)
  \/ Receive
  \/ Load

QueueSpec == QueueInit /\ [][QueueNext]_queueVars

-----------------------------------------------------------------------------
(* Type invariant of queue.go: the slice holds items that were added, the  *)
(* ages of arrival are numbers and the channel holds a token or none.      *)
QueueTypeOK ==
  /\ queued \subseteq Item
  /\ stamp \in [Item -> Nat]
  /\ notifyCh \in BOOLEAN
  /\ taken \subseteq Item /\ dropped \subseteq Item /\ lost \subseteq Item

(* Every accepted item is in exactly one place: waiting, handed to a       *)
(* consumer, trimmed, or gone with a stopped process.  Nothing is popped   *)
(* twice and nothing vanishes (the removals of queue.go 67-143).           *)
ItemsConserved ==
  /\ Added = queued \cup taken \cup dropped \cup lost
  /\ queued \cap (taken \cup dropped \cup lost) = {}
  /\ taken \cap (dropped \cup lost) = {}
  /\ dropped \cap lost = {}

(* trim never sacrifices a time-critical or user item.                     *)
UrgentNeverDropped == \A i \in dropped : ~Urgent(i)

(* The capacity can be exceeded only by urgent items: as soon as one       *)
(* background item is queued, the queue is within MaxSize.                 *)
OverflowOnlyUrgent ==
  Cardinality(queued) > MaxSize => \A i \in queued : Urgent(i)

(* Backpressure falls on the oldest background item: whoever is trimmed    *)
(* is older than every background item that stays.                         *)
TrimsOldestFirst ==
  [][\A o \in dropped' \ dropped : \A k \in queued' :
        Background(k) => stamp'[o] < stamp'[k]]_queueVars

(* The queue keeps QueuePromise. *)
Promise == INSTANCE QueuePromise WITH
  Capacity <- MaxSize, waiting <- queued, delivered <- taken,
  discarded <- dropped, forgotten <- lost

KeepsPromise == Promise!Spec
=============================================================================
