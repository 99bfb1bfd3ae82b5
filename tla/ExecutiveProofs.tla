--------------------------- MODULE ExecutiveProofs ---------------------------
(***************************************************************************)
(* Theorems about the pending-items queue and the executive that serves    *)
(* it, for every set of items, every assignment of priorities and salience *)
(* and every capacity.                                                     *)
(***************************************************************************)
EXTENDS Executive, FiniteSetTheorems, TLAPS

(* The queue is always a set of items. *)
THEOREM TypeCorrect == QueueSpec => []QueueTypeOK
<1>1. QueueInit => QueueTypeOK
  <2> SUFFICES ASSUME QueueInit PROVE QueueTypeOK
    OBVIOUS
  <2>1. stamp \in [Item -> Nat] BY DEF QueueInit
  <2> QED BY <2>1 DEF QueueInit, QueueTypeOK
<1>2. QueueTypeOK /\ [QueueNext]_queueVars => QueueTypeOK'
  <2> SUFFICES ASSUME QueueTypeOK, [QueueNext]_queueVars
               PROVE  QueueTypeOK'
    OBVIOUS
  <2> USE DEF QueueTypeOK
  <2>1. ASSUME NEW i \in Item, Add(i) PROVE QueueTypeOK'
    <3>1. Added \subseteq Item BY DEF Added
    <3>2. Cardinality(Added) + 1 \in Nat
      BY <3>1, ItemFinite, FS_Subset, FS_CardinalityType
    <3>3. stamp' \in [Item -> Nat] BY <2>1, <3>2 DEF Add
    <3>4. PICK out \in SUBSET (queued \cup {i}) :
             /\ queued' = (queued \cup {i}) \ out
             /\ dropped' = dropped \cup out
      BY <2>1 DEF Add
    <3>5. queued' \subseteq Item /\ dropped' \subseteq Item BY <3>4
    <3> QED BY <2>1, <3>3, <3>5 DEF Add, Notify
  <2>2. CASE PopAllMaxPriority BY <2>2 DEF PopAllMaxPriority, UrgentItems
  <2>3. ASSUME NEW i \in Item, PopHighestMinPriority(i) PROVE QueueTypeOK'
    BY <2>3 DEF PopHighestMinPriority
  <2>4. CASE Receive BY <2>4 DEF Receive
  <2>5. CASE Load BY <2>5 DEF Load
  <2>6. CASE UNCHANGED queueVars BY <2>6 DEF queueVars
  <2> QED BY <2>1, <2>2, <2>3, <2>4, <2>5, <2>6 DEF QueueNext
<1> QED BY <1>1, <1>2, PTL DEF QueueSpec

(***************************************************************************)
(* What trim leaves of a finite queue q: within capacity, or nothing that  *)
(* it may remove.                                                          *)
(***************************************************************************)
LEMMA TrimBounds ==
  ASSUME NEW q \in SUBSET Item, NEW age, NEW out \in SUBSET q,
         Trims(q, age, out),
         Cardinality(q \ out) > MaxSize
  PROVE  \A i \in q \ out : Urgent(i)
<1> DEFINE low == {i \in q : Priority[i] > P1UserInput}
<1>1. IsFiniteSet(q) BY ItemFinite, FS_Subset
<1>2. IsFiniteSet(out) BY <1>1, FS_Subset
<1>3. /\ Cardinality(q) \in Nat /\ Cardinality(out) \in Nat
  BY <1>1, <1>2, FS_CardinalityType
<1>4. Cardinality(q \ out) = Cardinality(q) - Cardinality(out)
  <2>1. q \cap out = out OBVIOUS
  <2> QED BY <2>1, <1>1, FS_Difference
<1>5. MaxSize \in Nat BY MaxSizeType
<1>6. out = low
  <2>1. CASE Cardinality(q) - MaxSize <= 0
    <3>1. Cardinality(q \ out) <= MaxSize
      BY <2>1, <1>3, <1>4, <1>5
    <3> QED BY <3>1, <1>3, <1>4, <1>5
  <2>2. CASE ~(Cardinality(q) - MaxSize <= 0)
    <3>1. out # low => Cardinality(out) = Cardinality(q) - MaxSize
      BY <2>2 DEF Trims, Droppable, Excess, Before
    <3>2. out # low => Cardinality(q \ out) = MaxSize
      BY <3>1, <1>3, <1>4, <1>5
    <3> QED BY <3>2, <1>3, <1>4, <1>5
  <2> QED BY <2>1, <2>2
<1>7. ASSUME NEW i \in q \ out PROVE Urgent(i)
  <2>1. ~(Priority[i] > P1UserInput) BY <1>6
  <2>2. Priority[i] \in 0..4 BY PriorityType
  <2> QED BY <2>1, <2>2 DEF Urgent, P1UserInput
<1> QED BY <1>7

(* Only urgent items ever take the queue over its capacity. *)
THEOREM OverflowIsUrgent == QueueSpec => []OverflowOnlyUrgent
<1>1. QueueInit => OverflowOnlyUrgent
  BY DEF QueueInit, OverflowOnlyUrgent
<1>2. QueueTypeOK /\ OverflowOnlyUrgent /\ [QueueNext]_queueVars
        => OverflowOnlyUrgent'
  <2> SUFFICES ASSUME QueueTypeOK, OverflowOnlyUrgent, [QueueNext]_queueVars
               PROVE  OverflowOnlyUrgent'
    OBVIOUS
  <2>0. IsFiniteSet(queued) /\ Cardinality(queued) \in Nat
    BY ItemFinite, FS_Subset, FS_CardinalityType DEF QueueTypeOK
  <2>a. ASSUME NEW gone, queued' = queued \ gone PROVE OverflowOnlyUrgent'
    <3>1. queued \ gone \in SUBSET queued OBVIOUS
    <3>2. /\ Cardinality(queued \ gone) \in Nat
          /\ Cardinality(queued \ gone) <= Cardinality(queued)
      BY <2>0, <3>1, FS_Subset, FS_CardinalityType
    <3>3. Cardinality(queued') > MaxSize => Cardinality(queued) > MaxSize
      BY <2>0, <2>a, <3>2, MaxSizeType
    <3> QED BY <2>a, <3>3 DEF OverflowOnlyUrgent, Urgent
  <2>1. ASSUME NEW i \in Item, Add(i) PROVE OverflowOnlyUrgent'
    <3>1. PICK out \in SUBSET (queued \cup {i}) :
             /\ Trims(queued \cup {i}, stamp', out)
             /\ queued' = (queued \cup {i}) \ out
      BY <2>1 DEF Add
    <3>2. queued \cup {i} \in SUBSET Item BY DEF QueueTypeOK
    <3>3. Cardinality((queued \cup {i}) \ out) > MaxSize
            => \A j \in (queued \cup {i}) \ out : Urgent(j)
      BY <3>1, <3>2, TrimBounds
    <3> QED BY <3>1, <3>3 DEF OverflowOnlyUrgent, Urgent
  <2>2. CASE PopAllMaxPriority BY <2>2, <2>a DEF PopAllMaxPriority
  <2>3. ASSUME NEW i \in Item, PopHighestMinPriority(i)
        PROVE  OverflowOnlyUrgent'
    BY <2>3, <2>a DEF PopHighestMinPriority
  <2>4. CASE Receive
    <3>1. queued' = queued \ {} BY <2>4 DEF Receive
    <3> QED BY <3>1, <2>a
  <2>5. CASE Load
    <3>1. queued' = queued \ queued BY <2>5 DEF Load
    <3> QED BY <3>1, <2>a
  <2>6. CASE UNCHANGED queueVars
    <3>1. queued' = queued \ {} BY <2>6 DEF queueVars
    <3> QED BY <3>1, <2>a
  <2> QED BY <2>1, <2>2, <2>3, <2>4, <2>5, <2>6 DEF QueueNext
<1> QED BY <1>1, <1>2, TypeCorrect, PTL DEF QueueSpec

(***************************************************************************)
(* Each accepted item is in one place, and what trim removed was never     *)
(* urgent.  The two are inductive together with the type invariant.        *)
(***************************************************************************)
Ledger == ItemsConserved /\ UrgentNeverDropped

LEMMA LedgerStep ==
  QueueTypeOK /\ Ledger /\ [QueueNext]_queueVars => Ledger'
<1> SUFFICES ASSUME QueueTypeOK, Ledger, [QueueNext]_queueVars
             PROVE  Ledger'
  OBVIOUS
<1> USE DEF Ledger
<1>1. ASSUME NEW i \in Item, Add(i) PROVE Ledger'
  <2>1. PICK out \in SUBSET (queued \cup {i}) :
           /\ Trims(queued \cup {i}, stamp', out)
           /\ queued' = (queued \cup {i}) \ out
           /\ dropped' = dropped \cup out
    BY <1>1 DEF Add
  <2>2. Cardinality(Added) \in Nat
    BY ItemFinite, FS_Subset, FS_CardinalityType DEF Added
  <2>3. Added' = Added \cup {i}
    <3>1. stamp'[i] > 0 BY <1>1, <2>2 DEF Add, QueueTypeOK
    <3>2. \A j \in Item \ {i} : stamp'[j] = stamp[j]
      BY <1>1 DEF Add, QueueTypeOK
    <3> QED BY <3>1, <3>2 DEF Added
  <2>4. i \notin Added BY <1>1 DEF Add, Added
  <2>5. taken' = taken /\ lost' = lost BY <1>1 DEF Add
  <2>6. ItemsConserved'
    <3>1. i \notin queued \cup taken \cup dropped \cup lost
      BY <2>4 DEF ItemsConserved
    <3>2. Added' = queued' \cup taken' \cup dropped' \cup lost'
      BY <2>1, <2>3, <2>5 DEF ItemsConserved
    <3>3. queued' \cap (taken' \cup dropped' \cup lost') = {}
      BY <2>1, <2>5, <3>1 DEF ItemsConserved
    <3>4. /\ taken' \cap (dropped' \cup lost') = {}
          /\ dropped' \cap lost' = {}
      BY <2>1, <2>5, <3>1 DEF ItemsConserved
    <3> QED BY <3>2, <3>3, <3>4 DEF ItemsConserved
  <2>7. UrgentNeverDropped'
    <3>1. ASSUME NEW d \in out PROVE ~Urgent(d)
      <4>1. Priority[d] > P1UserInput BY <2>1 DEF Trims, Droppable, Excess, Before
      <4>2. d \in Item BY DEF QueueTypeOK
      <4>3. Priority[d] \in 0..4 BY <4>2, PriorityType
      <4> QED BY <4>1, <4>3 DEF Urgent, P1UserInput
    <3> QED BY <2>1, <3>1 DEF UrgentNeverDropped, Urgent
  <2> QED BY <2>6, <2>7
<1>2. CASE PopAllMaxPriority
  BY <1>2 DEF PopAllMaxPriority, UrgentItems, ItemsConserved,
              UrgentNeverDropped, Added, Urgent
<1>3. ASSUME NEW i \in Item, PopHighestMinPriority(i) PROVE Ledger'
  BY <1>3 DEF PopHighestMinPriority, ItemsConserved, UrgentNeverDropped,
              Added, Urgent
<1>4. CASE Receive
  BY <1>4 DEF Receive, ItemsConserved, UrgentNeverDropped, Added, Urgent
<1>5. CASE Load
  BY <1>5 DEF Load, ItemsConserved, UrgentNeverDropped, Added, Urgent
<1>6. CASE UNCHANGED queueVars
  BY <1>6 DEF queueVars, ItemsConserved, UrgentNeverDropped, Added, Urgent
<1> QED BY <1>1, <1>2, <1>3, <1>4, <1>5, <1>6 DEF QueueNext

LEMMA LedgerInit == QueueInit => Ledger
BY DEF QueueInit, Ledger, ItemsConserved, UrgentNeverDropped, Added

(* No accepted item disappears or is handed out twice, and no urgent item  *)
(* is ever trimmed.                                                        *)
THEOREM ItemsAccountedFor == QueueSpec => [](ItemsConserved /\ UrgentNeverDropped)
<1>1. Ledger => ItemsConserved /\ UrgentNeverDropped BY DEF Ledger
<1> QED BY <1>1, LedgerInit, LedgerStep, TypeCorrect, PTL DEF QueueSpec

(* Trimming falls on the oldest background items.                          *)
THEOREM OldestTrimmed == QueueSpec => TrimsOldestFirst
<1> DEFINE Step == \A o \in dropped' \ dropped : \A k \in queued' :
                      Background(k) => stamp'[o] < stamp'[k]
<1>1. QueueTypeOK /\ [QueueNext]_queueVars => [Step]_queueVars
  <2> SUFFICES ASSUME QueueTypeOK, QueueNext PROVE Step
    OBVIOUS
  <2>1. ASSUME NEW i \in Item, Add(i) PROVE Step
    <3>1. PICK out \in SUBSET (queued \cup {i}) :
             /\ Trims(queued \cup {i}, stamp', out)
             /\ queued' = (queued \cup {i}) \ out
             /\ dropped' = dropped \cup out
      BY <2>1 DEF Add
    <3>2. ASSUME NEW o \in dropped' \ dropped, NEW k \in queued', Background(k)
          PROVE  stamp'[o] < stamp'[k]
      <4>1. o \in out BY <3>1, <3>2
      <4>2. k \in Item /\ k \in queued \cup {i} /\ k \notin out
        BY <3>1 DEF QueueTypeOK
      <4>3. Priority[k] > P1UserInput
        BY <3>2, <4>2, PriorityType DEF Background, P1UserInput, P2DueTask
      <4> QED BY <3>1, <4>1, <4>2, <4>3 DEF Trims, Droppable, Excess, Before
    <3> QED BY <3>2
  <2>2. CASE PopAllMaxPriority BY <2>2 DEF PopAllMaxPriority
  <2>3. ASSUME NEW i \in Item, PopHighestMinPriority(i) PROVE Step
    BY <2>3 DEF PopHighestMinPriority
  <2>4. CASE Receive BY <2>4 DEF Receive
  <2>5. CASE Load BY <2>5 DEF Load
  <2> QED BY <2>1, <2>2, <2>3, <2>4, <2>5 DEF QueueNext
<1> QED BY <1>1, TypeCorrect, PTL DEF QueueSpec, TrimsOldestFirst

(* QueuePromise counts items with the Cardinality of its own instance.     *)
LEMMA SameCount == \A S : Promise!Cardinality(S) = Cardinality(S)
BY DEF Promise!Cardinality, Cardinality

(***************************************************************************)
(* The queue implements QueuePromise: every operation is the promised step *)
(* on the items that wait, were delivered, discarded or forgotten.         *)
(***************************************************************************)
THEOREM PromiseKept == QueueSpec => KeepsPromise
<1>1. QueueInit => Promise!Init
  BY DEF QueueInit, Promise!Init
<1>2. QueueTypeOK /\ Ledger /\ [QueueNext]_queueVars
        => [Promise!Next]_(Promise!promiseVars)
  <2> SUFFICES ASSUME QueueTypeOK, Ledger, [QueueNext]_queueVars
               PROVE  [Promise!Next]_(Promise!promiseVars)
    OBVIOUS
  <2> USE DEF Promise!Next, Promise!promiseVars
  <2>1. ASSUME NEW i \in Item, Add(i) PROVE Promise!Accept(i)
    <3>1. PICK out \in SUBSET (queued \cup {i}) :
             /\ Trims(queued \cup {i}, stamp', out)
             /\ queued' = (queued \cup {i}) \ out
             /\ dropped' = dropped \cup out
      BY <2>1 DEF Add
    <3>2. i \notin Promise!Known
      BY <2>1 DEF Add, Promise!Known, Ledger, ItemsConserved, Added
    <3>3. \A d \in out : ~Promise!Urgent(d)
      <4> SUFFICES ASSUME NEW d \in out PROVE ~Promise!Urgent(d)
        OBVIOUS
      <4>1. Priority[d] > P1UserInput BY <3>1 DEF Trims, Droppable, Excess, Before
      <4>2. Priority[d] \in 0..4 BY PriorityType DEF QueueTypeOK
      <4> QED BY <4>1, <4>2 DEF Promise!Urgent, P1UserInput
    <3>4. out # {} => Cardinality(queued \cup {i}) > MaxSize
      <4>1. queued \cup {i} \in SUBSET Item BY DEF QueueTypeOK
      <4>2. Cardinality(queued \cup {i}) \in Nat
        BY <4>1, ItemFinite, FS_Subset, FS_CardinalityType
      <4>3. out # {} => ~(Cardinality(queued \cup {i}) - MaxSize <= 0)
        BY <3>1 DEF Trims, Droppable, Excess, Before
      <4> QED BY <4>2, <4>3, MaxSizeType
    <3> QED BY <2>1, <3>1, <3>2, <3>3, <3>4, SameCount DEF Promise!Accept, Add
  <2>2. CASE PopAllMaxPriority
    BY <2>2 DEF PopAllMaxPriority, UrgentItems, P1UserInput,
                Promise!DeliverUrgent, Promise!Urgent
  <2>3. ASSUME NEW i \in Item, PopHighestMinPriority(i)
        PROVE  Promise!DeliverBackground(i)
    <3>1. ASSUME NEW j \in queued, ~Promise!Urgent(j)
          PROVE  Priority[i] <= Priority[j]
      <4>1. Priority[j] \in 0..4 /\ Priority[i] \in 0..4
        BY PriorityType DEF QueueTypeOK
      <4>2. Priority[j] >= P2DueTask
        BY <3>1, <4>1 DEF Promise!Urgent, P2DueTask
      <4>3. Beats(i, j) BY <2>3, <4>2 DEF PopHighestMinPriority
      <4> QED BY <4>1, <4>3 DEF Beats
    <3>2. ~Promise!Urgent(i)
      <4>1. Priority[i] >= 2 BY <2>3 DEF PopHighestMinPriority, P2DueTask
      <4>2. Priority[i] \in 0..4 BY PriorityType
      <4> QED BY <4>1, <4>2 DEF Promise!Urgent
    <3> QED BY <2>3, <3>1, <3>2
            DEF PopHighestMinPriority, Promise!DeliverBackground
  <2>4. CASE Receive BY <2>4 DEF Receive
  <2>5. CASE Load BY <2>5 DEF Load, Promise!Forget
  <2>6. CASE UNCHANGED queueVars BY <2>6 DEF queueVars
  <2> QED BY <2>1, <2>2, <2>3, <2>4, <2>5, <2>6 DEF QueueNext
<1> QED BY <1>1, <1>2, TypeCorrect, LedgerInit, LedgerStep, PTL
        DEF QueueSpec, KeepsPromise, Promise!Spec

-----------------------------------------------------------------------------
(***************************************************************************)
(* Every step of the executive is a step of the queue or leaves it alone,  *)
(* so what was shown of the queue holds inside the program.                *)
(***************************************************************************)
LEMMA QueueStep == [Next]_execVars => [QueueNext]_queueVars
<1> SUFFICES ASSUME [Next]_execVars PROVE [QueueNext]_queueVars
  OBVIOUS
<1>1. CASE Outside
  <2>1. ASSUME NEW i \in Item, AddPending(i) PROVE QueueNext
    BY <2>1 DEF AddPending, QueueNext
  <2>2. ASSUME NEW t \in Thread, SignalDone(t) \/ MemoryReset(t)
        PROVE UNCHANGED queueVars
    BY <2>2 DEF SignalDone, MemoryReset
  <2>3. CASE InterruptCurrentSession BY <2>3 DEF InterruptCurrentSession
  <2>4. CASE WakeTimeout BY <2>4 DEF WakeTimeout
  <2>5. CASE ResetSession BY <2>5 DEF ResetSession
  <2>6. CASE ResetSignalsDone BY <2>6 DEF ResetSignalsDone
  <2> QED BY <1>1, <2>1, <2>2, <2>3, <2>4, <2>5, <2>6 DEF Outside
<1>2. CASE P1Step
  <2>1. CASE P1Wake BY <2>1 DEF P1Wake, QueueNext
  <2>2. CASE RequestBackgroundInterrupt BY <2>2 DEF RequestBackgroundInterrupt
  <2>3. CASE P1Pop BY <2>3 DEF P1Pop, QueueNext
  <2>4. CASE P1Activate BY <2>4 DEF P1Activate
  <2>5. CASE P1Exit BY <2>5 DEF P1Exit, DrainAgain
  <2> QED BY <1>2, <2>1, <2>2, <2>3, <2>4, <2>5 DEF P1Step
<1>3. CASE BgStep
  <2>1. CASE BgCheck BY <2>1 DEF BgCheck, MayStartBackground, Advance
  <2>2. CASE BgPop BY <2>2 DEF BgPop, QueueNext
  <2>3. CASE BgRegister BY <2>3 DEF BgRegister
  <2>4. CASE BgExit BY <2>4 DEF BgExit
  <2> QED BY <1>3, <2>1, <2>2, <2>3, <2>4 DEF BgStep
<1>4. ASSUME NEW t \in Thread, TurnStep(t) PROVE UNCHANGED queueVars
  BY <1>4 DEF TurnStep, RecordingStep, SendingStep, Prepare, Build, Register,
              SendPrompt, SendReturns, Interrupted, Rebuild, Validate, Leave, Advance
<1>5. CASE UNCHANGED execVars BY <1>5 DEF execVars
<1> QED BY <1>1, <1>2, <1>3, <1>4, <1>5 DEF Next

(* The goroutines use the queue through its methods only.                 *)
THEOREM ExecutiveUsesQueue == Spec => UsesQueue
<1>1. Init => QueueInit BY DEF Init
<1> QED BY <1>1, QueueStep, PTL DEF Spec, QueueSpec, UsesQueue

(* No accepted item is lost or handed out twice, and no urgent one trimmed,*)
(* with both goroutines at work.                                           *)
THEOREM ExecutiveKeepsItems == Spec => [](ItemsConserved /\ UrgentNeverDropped)
BY ExecutiveUsesQueue, ItemsAccountedFor, PTL DEF UsesQueue

-----------------------------------------------------------------------------
LEMMA LoopTypeInit == Init => LoopTypeOK
<1> SUFFICES ASSUME Init PROVE LoopTypeOK
  OBVIOUS
<1>1. pc \in [Thread -> Label] BY DEF Init, LoopInit, Label
<1>2. batch \in [Thread -> SUBSET Item] BY DEF Init, LoopInit
<1>3. sessDone \in [Thread -> BOOLEAN] /\ retried \in [Thread -> BOOLEAN]
  BY DEF Init, LoopInit
<1> QED BY <1>1, <1>2, <1>3 DEF Init, LoopInit, LoopTypeOK

LEMMA LoopTypeStep ==
  LoopTypeOK /\ QueueTypeOK /\ [Next]_execVars => LoopTypeOK'
<1> SUFFICES ASSUME LoopTypeOK, QueueTypeOK, [Next]_execVars PROVE LoopTypeOK'
  OBVIOUS
<1> USE DEF LoopTypeOK
<1>0. \A t \in Thread, l \in Label : Goto(t, l) => pc' \in [Thread -> Label]
  BY DEF Goto
<1>1. CASE Outside
  <2>1. ASSUME NEW i \in Item, AddPending(i) PROVE LoopTypeOK'
    BY <2>1 DEF AddPending, laneVars, cancelVars, resetVars
  <2>2. CancelRegistered => sessDone' \in [Thread -> BOOLEAN]
    BY DEF CancelRegistered
  <2>3. ASSUME NEW t \in Thread, SignalDone(t) PROVE LoopTypeOK'
    BY <2>2, <2>3 DEF SignalDone, laneVars, resetVars
  <2>4. ASSUME NEW t \in Thread, MemoryReset(t) PROVE LoopTypeOK'
    BY <2>4 DEF MemoryReset, laneVars, cancelVars
  <2>5. CASE InterruptCurrentSession
    BY <2>2, <2>5 DEF InterruptCurrentSession, laneVars, resetVars
  <2>6. CASE WakeTimeout BY <2>6 DEF WakeTimeout, laneVars, resetVars
  <2>7. CASE ResetSession BY <2>7 DEF ResetSession, laneVars, cancelVars
  <2>8. CASE ResetSignalsDone BY <2>2, <2>8 DEF ResetSignalsDone, laneVars
  <2> QED BY <1>1, <2>1, <2>3, <2>4, <2>5, <2>6, <2>7, <2>8 DEF Outside
<1>2. CASE P1Step
  <2>1. CASE P1Wake
    BY <1>0, <2>1 DEF P1Wake, Thread, Label, laneVars, cancelVars, resetVars
  <2>2. CASE RequestBackgroundInterrupt
    BY <1>0, <2>2 DEF RequestBackgroundInterrupt, Thread, Label, cancelVars, resetVars
  <2>3. CASE P1Pop
    <3>1. UrgentItems \subseteq Item BY DEF UrgentItems, QueueTypeOK
    <3>2. batch' \in [Thread -> SUBSET Item] BY <2>3, <3>1 DEF P1Pop
    <3> QED BY <1>0, <2>3, <3>2 DEF P1Pop, Thread, Label, cancelVars, resetVars
  <2>4. CASE P1Activate
    BY <1>0, <2>4 DEF P1Activate, Thread, Label, cancelVars, resetVars
  <2>5. CASE P1Exit
    BY <1>0, <2>5 DEF P1Exit, DrainAgain, Thread, Label, cancelVars, resetVars
  <2> QED BY <1>2, <2>1, <2>2, <2>3, <2>4, <2>5 DEF P1Step
<1>3. CASE BgStep
  <2>1. CASE BgCheck
    BY <1>0, <2>1 DEF BgCheck, Advance, Thread, Label, laneVars, cancelVars, resetVars
  <2>2. CASE BgPop
    BY <1>0, <2>2 DEF BgPop, Thread, Label, cancelVars, resetVars
  <2>3. CASE BgRegister
    BY <1>0, <2>3 DEF BgRegister, Thread, Label, cancelVars, resetVars
  <2>4. CASE BgExit
    BY <1>0, <2>4 DEF BgExit, Thread, Label, cancelVars, resetVars
  <2> QED BY <1>3, <2>1, <2>2, <2>3, <2>4 DEF BgStep
<1>4. ASSUME NEW t \in Thread, TurnStep(t) PROVE LoopTypeOK'
  <2> USE <1>0 DEF laneVars, cancelVars, resetVars, Label
  <2>1. \A l \in Label : Advance(t, l) => LoopTypeOK' BY DEF Advance
  <2>2. CASE Prepare(t) \/ Build(t) \/ Interrupted(t) \/ Validate(t)
    BY <2>1, <2>2 DEF Prepare, Build, Interrupted, Validate
  <2>3. CASE SendReturns(t) BY <2>1, <2>3 DEF SendReturns
  <2>4. CASE Register(t) BY <2>4 DEF Register
  <2>5. CASE SendPrompt(t) BY <2>5 DEF SendPrompt
  <2>6. CASE Rebuild(t) BY <2>6 DEF Rebuild
  <2>7. CASE Leave(t) BY <2>7 DEF Leave, Deregister
  <2> QED BY <1>4, <2>2, <2>3, <2>4, <2>5, <2>6, <2>7
          DEF TurnStep, RecordingStep, SendingStep
<1>5. CASE UNCHANGED execVars
  BY <1>5 DEF execVars, laneVars, cancelVars, resetVars
<1> QED BY <1>1, <1>2, <1>3, <1>4, <1>5 DEF Next

LEMMA RestartTypes == LoopRestart => LoopTypeOK'
<1> SUFFICES ASSUME LoopRestart PROVE LoopTypeOK'
  OBVIOUS
<1>1. pc' \in [Thread -> Label] BY DEF LoopRestart, Each, Label
<1>2. batch' \in [Thread -> SUBSET Item] BY DEF LoopRestart, Each
<1>3. sessDone' \in [Thread -> BOOLEAN] /\ retried' \in [Thread -> BOOLEAN]
  BY DEF LoopRestart, Each
<1> QED BY <1>1, <1>2, <1>3 DEF LoopRestart, LoopTypeOK

(* Every reachable state of the executive is well typed.                   *)
THEOREM ExecutiveTypeCorrect == Spec => []ExecTypeOK
<1>1. Spec => []QueueTypeOK
  BY ExecutiveUsesQueue, TypeCorrect, PTL DEF UsesQueue
<1> QED BY <1>1, LoopTypeInit, LoopTypeStep, PTL DEF Spec, ExecTypeOK

-----------------------------------------------------------------------------
(* Where a step of a turn leads.                                           *)
TurnLabel == {"build", "register", "send", "running", "interrupted", "rebuild",
              "validate", "leave", "exit"}

LEMMA TurnMoves ==
  ASSUME LoopTypeOK, NEW t \in Thread, TurnStep(t)
  PROVE  /\ pc[t] \notin {"wait", "interrupt", "drain", "pop", "taken", "exit"}
         /\ \E l \in TurnLabel : pc' = [pc EXCEPT ![t] = l]
         /\ pc'[t] = "running" => ~Locked
<1> USE DEF LoopTypeOK, TurnLabel, Goto
<1>1. CASE Prepare(t) \/ Build(t) \/ Interrupted(t) \/ Validate(t)
  BY <1>1 DEF Prepare, Build, Interrupted, Validate, Advance
<1>2. CASE SendReturns(t) BY <1>2 DEF SendReturns, Advance, Running
<1>3. CASE Register(t) BY <1>3 DEF Register
<1>4. CASE SendPrompt(t) BY <1>4 DEF SendPrompt
<1>5. CASE Rebuild(t) BY <1>5 DEF Rebuild
<1>6. CASE Leave(t) BY <1>6 DEF Leave, Deregister
<1> QED BY <1>1, <1>2, <1>3, <1>4, <1>5, <1>6
        DEF TurnStep, RecordingStep, SendingStep

(* Steps from outside leave both goroutines where they are.                *)
LEMMA OutsideStays == Outside => UNCHANGED pc
BY DEF Outside, AddPending, SignalDone, MemoryReset, InterruptCurrentSession,
       WakeTimeout, ResetSession, ResetSignalsDone

(* Which queue operation a step is: urgent items appear with a token and   *)
(* leave together, and only the P1 goroutine takes the token.              *)
LEMMA UrgentMoves ==
  ASSUME LoopTypeOK, [Next]_execVars
  PROVE  \/ notifyCh'
         \/ pc["p1"] = "wait" /\ pc'["p1"] = "interrupt"
         \/ UrgentItems' = {}
         \/ UrgentItems' \subseteq UrgentItems /\ notifyCh' = notifyCh
<1> DEFINE Same == UrgentItems' \subseteq UrgentItems /\ notifyCh' = notifyCh
<1>0. UNCHANGED queueVars => Same BY DEF queueVars, UrgentItems
<1>1. ASSUME Outside PROVE notifyCh' \/ Same
  <2>1. ASSUME NEW i \in Item, AddPending(i) PROVE notifyCh'
    BY <2>1 DEF AddPending, Add, Notify
  <2>2. CASE UNCHANGED queueVars BY <1>0, <2>2
  <2> QED BY <1>1, <2>1, <2>2
      DEF Outside, SignalDone, MemoryReset, InterruptCurrentSession, WakeTimeout,
          ResetSession, ResetSignalsDone
<1>2. CASE P1Wake
  BY <1>2 DEF P1Wake, Goto, LoopTypeOK, Thread
<1>3. ASSUME P1Pop PROVE UrgentItems' = {}
  BY <1>3 DEF P1Pop, PopAllMaxPriority, UrgentItems
<1>4. ASSUME RequestBackgroundInterrupt \/ P1Activate \/ P1Exit PROVE Same
  BY <1>0, <1>4 DEF RequestBackgroundInterrupt, P1Activate, P1Exit
<1>5. ASSUME BgStep PROVE Same
  <2>1. CASE BgPop
    BY <1>0, <2>1 DEF BgPop, PopHighestMinPriority, UrgentItems, queueVars
  <2>2. CASE BgCheck \/ BgRegister \/ BgExit
    BY <1>0, <2>2 DEF BgCheck, BgRegister, BgExit, Advance
  <2> QED BY <1>5, <2>1, <2>2 DEF BgStep
<1>6. ASSUME NEW t \in Thread, TurnStep(t) PROVE Same
  BY <1>0, <1>6 DEF TurnStep, RecordingStep, SendingStep, Prepare, Build,
     Register, SendPrompt, SendReturns, Interrupted, Rebuild, Validate, Leave, Advance
<1>7. ASSUME UNCHANGED execVars PROVE Same BY <1>0, <1>7 DEF execVars
<1> QED BY <1>1, <1>2, <1>3, <1>4, <1>5, <1>6, <1>7 DEF Next, P1Step

(* The P1 goroutine goes to sleep only by finding nothing to pop.          *)
LEMMA SleepsOnlyEmpty ==
  ASSUME LoopTypeOK, [Next]_execVars, pc["p1"] # "wait", pc'["p1"] = "wait"
  PROVE  UrgentItems' = {}
<1>1. CASE Outside BY <1>1, OutsideStays
<1>2. CASE P1Pop BY <1>2 DEF P1Pop, PopAllMaxPriority, UrgentItems
<1>3. CASE P1Wake \/ RequestBackgroundInterrupt \/ P1Activate \/ P1Exit
  BY <1>3 DEF P1Wake, RequestBackgroundInterrupt, P1Activate, P1Exit,
              DrainAgain, Goto,
              LoopTypeOK, Thread
<1>4. CASE BgStep
  BY <1>4 DEF BgStep, BgCheck, BgPop, BgRegister, BgExit, Advance, Goto,
              LoopTypeOK, Thread
<1>5. ASSUME NEW t \in Thread, TurnStep(t) PROVE FALSE
  <2>1. PICK l \in TurnLabel : pc' = [pc EXCEPT ![t] = l] BY <1>5, TurnMoves
  <2> QED BY <2>1 DEF TurnLabel, LoopTypeOK, Thread
<1>6. CASE UNCHANGED execVars BY <1>6 DEF execVars
<1> QED BY <1>1, <1>2, <1>3, <1>4, <1>5, <1>6 DEF Next, P1Step

(* An urgent item that waits will be noticed.                              *)
THEOREM NoUrgentItemStranded == Spec => []NoLostWakeup
<1>1. Init => NoLostWakeup BY DEF Init, QueueInit, NoLostWakeup, UrgentItems
<1>2. LoopTypeOK /\ NoLostWakeup /\ [Next]_execVars => NoLostWakeup'
  <2> SUFFICES ASSUME LoopTypeOK, NoLostWakeup, [Next]_execVars,
                      UrgentItems' # {}, ~notifyCh', pc'["p1"] = "wait"
               PROVE  FALSE
    BY DEF NoLostWakeup
  <2>1. UrgentItems' \subseteq UrgentItems /\ notifyCh' = notifyCh
    BY UrgentMoves
  <2>2. pc["p1"] = "wait" BY SleepsOnlyEmpty
  <2> QED BY <2>1, <2>2 DEF NoLostWakeup
<1> QED BY <1>1, <1>2, ExecutiveTypeCorrect, PTL DEF Spec, ExecTypeOK

-----------------------------------------------------------------------------
(* A step that is not a turn's step starts no prompt.                      *)
LEMMA OnlyTurnsRun ==
  ASSUME LoopTypeOK, Outside \/ P1Step \/ BgStep \/ UNCHANGED execVars
  PROVE  \A t \in Thread : Running(t)' => Running(t)
<1> USE DEF Running, LoopTypeOK
<1>1. CASE Outside \/ UNCHANGED execVars BY <1>1, OutsideStays DEF execVars
<1>2. CASE P1Step
  BY <1>2 DEF P1Step, P1Wake, RequestBackgroundInterrupt, P1Pop, P1Activate,
              P1Exit, DrainAgain, Goto
<1>3. CASE BgStep
  BY <1>3 DEF BgStep, BgCheck, BgPop, BgRegister, BgExit, Advance, Goto
<1> QED BY <1>1, <1>2, <1>3

LEMMA ExclusiveStep ==
  ASSUME LoopTypeOK, OneSessionAtATime, [Next]_execVars
  PROVE  OneSessionAtATime'
<1>1. CASE Outside \/ P1Step \/ BgStep \/ UNCHANGED execVars
  BY <1>1, OnlyTurnsRun DEF OneSessionAtATime
<1>2. ASSUME NEW t \in Thread, TurnStep(t) PROVE OneSessionAtATime'
  <2>1. PICK l \in TurnLabel : pc' = [pc EXCEPT ![t] = l] BY <1>2, TurnMoves
  <2>2. \A u \in Thread : u # t => pc'[u] = pc[u] BY <2>1 DEF LoopTypeOK
  <2>3. pc'[t] = "running" => ~Locked BY <1>2, TurnMoves
  <2> QED BY <2>2, <2>3 DEF OneSessionAtATime, Running, Locked
<1> QED BY <1>1, <1>2 DEF Next

(* s.mu keeps the two goroutines' Claude sessions apart.                   *)
THEOREM SessionsExclusive == Spec => []OneSessionAtATime
<1>1. Init => OneSessionAtATime BY DEF Init, LoopInit, OneSessionAtATime, Running
<1>2. LoopTypeOK /\ OneSessionAtATime /\ [Next]_execVars => OneSessionAtATime'
  BY ExclusiveStep
<1> QED BY <1>1, <1>2, ExecutiveTypeCorrect, PTL DEF Spec, ExecTypeOK

-----------------------------------------------------------------------------
(***************************************************************************)
(* A background turn that has been let past a waiting user batch has sent  *)
(* its prompt; the next one is held back by p1Active until the user batch  *)
(* is over.  Passed says where the background goroutine then is, and the   *)
(* invariant ties p1Active to the position of the P1 goroutine.            *)
(***************************************************************************)
P1Serving == pc["p1"] \in {"prepare", "build", "register", "send", "running",
                           "interrupted", "rebuild", "validate", "leave", "exit"}

Passed ==
  \/ pc["bg"] \in {"wait", "running", "interrupted", "rebuild", "validate",
                    "leave", "exit"}
  \/ pc["bg"] = "send" /\ retried["bg"]

OvertakeInv ==
  /\ p1Active <=> P1Serving
  /\ overtakes <= 1
  /\ overtakes = 1 => p1Active /\ Passed

LEMMA OvertakeStep ==
  LoopTypeOK /\ OvertakeInv /\ [Next]_execVars => OvertakeInv'
<1> SUFFICES ASSUME LoopTypeOK, OvertakeInv, [Next]_execVars PROVE OvertakeInv'
  OBVIOUS
<1> USE DEF LoopTypeOK, OvertakeInv
<1>1. ASSUME UNCHANGED <<pc, laneVars, retried>> PROVE OvertakeInv'
  BY <1>1 DEF laneVars, P1Serving, Passed
<1>2. CASE Outside \/ UNCHANGED execVars
  BY <1>1, <1>2 DEF Outside, AddPending, SignalDone, MemoryReset,
     InterruptCurrentSession, WakeTimeout, ResetSession, ResetSignalsDone,
     cancelVars, execVars
<1>3. CASE P1Step
  <2> USE DEF Goto, Thread, P1Serving, Passed, cancelVars, laneVars
  <2>1. CASE P1Wake BY <2>1 DEF P1Wake
  <2>2. CASE RequestBackgroundInterrupt BY <2>2 DEF RequestBackgroundInterrupt
  <2>3. CASE P1Pop BY <2>3 DEF P1Pop
  <2>4. CASE P1Activate BY <2>4 DEF P1Activate
  <2>5. CASE P1Exit BY <2>5 DEF P1Exit, DrainAgain
  <2> QED BY <1>3, <2>1, <2>2, <2>3, <2>4, <2>5 DEF P1Step
<1>4. CASE BgStep
  <2> USE DEF Goto, Thread, P1Serving, Passed, cancelVars, laneVars
  <2>1. CASE BgCheck BY <2>1 DEF BgCheck, MayStartBackground, Advance
  <2>2. CASE BgPop BY <2>2 DEF BgPop
  <2>3. CASE BgRegister BY <2>3 DEF BgRegister
  <2>4. CASE BgExit BY <2>4 DEF BgExit
  <2> QED BY <1>4, <2>1, <2>2, <2>3, <2>4 DEF BgStep
<1>5. ASSUME NEW t \in Thread, TurnStep(t) PROVE OvertakeInv'
  <2> USE DEF Goto, Thread, P1Serving, Passed, cancelVars, laneVars
  <2>1. CASE Prepare(t) BY <2>1 DEF Prepare, Advance
  <2>2. CASE Build(t) BY <2>2 DEF Build, Advance
  <2>3. CASE Register(t) BY <2>3 DEF Register
  <2>4. CASE SendPrompt(t) BY <2>4 DEF SendPrompt
  <2>5. CASE SendReturns(t) BY <2>5 DEF SendReturns, Advance, Running
  <2>6. CASE Interrupted(t) BY <2>6 DEF Interrupted, Advance
  <2>7. CASE Rebuild(t) BY <2>7 DEF Rebuild
  <2>8. CASE Validate(t) BY <2>8 DEF Validate, Advance
  <2>9. CASE Leave(t) BY <2>9 DEF Leave, Deregister
  <2> QED BY <1>5, <2>1, <2>2, <2>3, <2>4, <2>5, <2>6, <2>7, <2>8, <2>9
          DEF TurnStep, RecordingStep, SendingStep
<1> QED BY <1>2, <1>3, <1>4, <1>5 DEF Next

(* At most one background prompt goes ahead of a waiting user batch.       *)
THEOREM UserBatchOvertakenOnce == Spec => []OvertakenAtMostOnce
<1>1. Init => OvertakeInv
  BY DEF Init, LoopInit, OvertakeInv, P1Serving, Passed, Thread
<1>2. OvertakeInv => OvertakenAtMostOnce
  BY DEF OvertakeInv, OvertakenAtMostOnce
<1> QED BY <1>1, <1>2, OvertakeStep, ExecutiveTypeCorrect, PTL DEF Spec, ExecTypeOK

-----------------------------------------------------------------------------
(* Only Register puts a turn in signalDoneCancel, and Leave, the only way  *)
(* out of the labels after it, empties it.                                 *)
THEOREM CancelTargetsLiveTurn == Spec => []RegisteredIsLive
<1>1. Init => RegisteredIsLive BY DEF Init, LoopInit, RegisteredIsLive
<1>2. LoopTypeOK /\ RegisteredIsLive /\ [Next]_execVars => RegisteredIsLive'
  <2> SUFFICES ASSUME LoopTypeOK, RegisteredIsLive, [Next]_execVars
               PROVE  RegisteredIsLive'
    OBVIOUS
  <2> USE DEF LoopTypeOK, RegisteredIsLive, Thread, cancelVars
  <2>1. CASE Outside \/ UNCHANGED execVars
    BY <2>1, OutsideStays DEF Outside, AddPending, SignalDone, MemoryReset,
       InterruptCurrentSession, WakeTimeout, ResetSession, ResetSignalsDone, execVars
  <2>2. CASE P1Step
    BY <2>2 DEF P1Step, P1Wake, RequestBackgroundInterrupt, P1Pop, P1Activate,
                P1Exit, DrainAgain, Goto
  <2>3. CASE BgStep
    BY <2>3 DEF BgStep, BgCheck, BgPop, BgRegister, BgExit, Advance, Goto
  <2>4. ASSUME NEW t \in Thread, TurnStep(t) PROVE RegisteredIsLive'
    <3> USE DEF Goto, Advance
    <3>1. CASE Prepare(t) BY <3>1 DEF Prepare
    <3>2. CASE Build(t) BY <3>2 DEF Build
    <3>3. CASE Register(t) BY <3>3 DEF Register
    <3>4. CASE SendPrompt(t) BY <3>4 DEF SendPrompt
    <3>5. CASE SendReturns(t) BY <3>5 DEF SendReturns, Running
    <3>6. CASE Interrupted(t) BY <3>6 DEF Interrupted
    <3>7. CASE Rebuild(t) BY <3>7 DEF Rebuild
    <3>8. CASE Validate(t) BY <3>8 DEF Validate
    <3>9. CASE Leave(t) BY <3>9 DEF Leave, Deregister
    <3> QED BY <2>4, <3>1, <3>2, <3>3, <3>4, <3>5, <3>6, <3>7, <3>8, <3>9
            DEF TurnStep, RecordingStep, SendingStep
  <2> QED BY <2>1, <2>2, <2>3, <2>4 DEF Next
<1> QED BY <1>1, <1>2, ExecutiveTypeCorrect, PTL DEF Spec, ExecTypeOK
=============================================================================
