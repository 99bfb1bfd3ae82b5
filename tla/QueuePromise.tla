---------------------------- MODULE QueuePromise ----------------------------
(***************************************************************************)
(* What the pending-items queue of internal/focus promises its users,      *)
(* without ages, the trim rule or the notification channel: an accepted    *)
(* item waits until it is delivered, discarded or lost with the process.   *)
(* Urgent items (P0, P1) are never discarded, nothing is discarded while   *)
(* there is room, and a background item is delivered only when no waiting  *)
(* background item has a more urgent priority.                             *)
(***************************************************************************)
EXTENDS Integers, FiniteSets

CONSTANTS Item, Priority, Capacity

VARIABLES waiting, delivered, discarded, forgotten

promiseVars == <<waiting, delivered, discarded, forgotten>>

Urgent(i) == Priority[i] <= 1

Known == waiting \cup delivered \cup discarded \cup forgotten

Init == waiting = {} /\ delivered = {} /\ discarded = {} /\ forgotten = {}

(* Accept i, discarding background items only when the queue is full. *)
Accept(i) ==
  /\ i \notin Known
  /\ \E out \in SUBSET (waiting \cup {i}) :
       /\ \A d \in out : ~Urgent(d)
       /\ out # {} => Cardinality(waiting \cup {i}) > Capacity
       /\ waiting' = (waiting \cup {i}) \ out
       /\ discarded' = discarded \cup out
  /\ UNCHANGED <<delivered, forgotten>>

DeliverUrgent ==
  LET out == {i \in waiting : Urgent(i)} IN
  /\ waiting' = waiting \ out
  /\ delivered' = delivered \cup out
  /\ UNCHANGED <<discarded, forgotten>>

DeliverBackground(i) ==
  /\ i \in waiting
  /\ ~Urgent(i)
  /\ \A j \in waiting : ~Urgent(j) => Priority[i] <= Priority[j]
  /\ waiting' = waiting \ {i}
  /\ delivered' = delivered \cup {i}
  /\ UNCHANGED <<discarded, forgotten>>

Forget ==
  /\ waiting' = {}
  /\ forgotten' = forgotten \cup waiting
  /\ UNCHANGED <<delivered, discarded>>

Next ==
  \/ \E i \in Item : Accept(i) \/ DeliverBackground(i)
  \/ DeliverUrgent
  \/ Forget

Spec == Init /\ [][Next]_promiseVars
=============================================================================
