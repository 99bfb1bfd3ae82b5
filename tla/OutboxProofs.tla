---------------------------- MODULE OutboxProofs ----------------------------
(***************************************************************************)
(* Theorems about the Discord effector, for every set of channels, actions *)
(* and texts and any number of goroutines, retries and failures.           *)
(***************************************************************************)
EXTENDS Outbox, Induction, SequenceTheorems, FiniteSetTheorems, TLAPS

LEMMA TypingStep == TypersCanBeStopped /\ [TypingNext]_typingVars => TypersCanBeStopped'
<1> SUFFICES ASSUME TypersCanBeStopped, [TypingNext]_typingVars
             PROVE  TypersCanBeStopped'
  OBVIOUS
<1> USE DEF TypersCanBeStopped
<1>1. ASSUME NEW c \in Channel, StartTyping(c) PROVE TypersCanBeStopped'
  <2>1. started' = started + 1 /\ started' \in 0 .. MaxTypers /\ started \in Nat
    BY <1>1, TypingConstants DEF StartTyping
  <2>2. 0 .. started \subseteq 0 .. started' /\ 1 .. started \subseteq 1 .. started'
        /\ started' \in 0 .. started' /\ started' \in 1 .. started'
    BY <2>1
  <2>3. typingChans' = [typingChans EXCEPT ![c] = started'] /\ typingChans[c] = 0
        /\ typers' = typers \cup {started'} /\ closed' = closed
    BY <1>1 DEF StartTyping
  <2>4. typingChans' \in [Channel -> 0 .. started'] /\ typers' \subseteq 1 .. started'
    BY <2>2, <2>3
  <2>5. ASSUME NEW g \in typers' \ closed' PROVE \E d \in Channel : typingChans'[d] = g
    <3>1. CASE g = started' BY <2>3, <3>1
    <3>2. CASE g # started'
      <4>1. PICK d \in Channel : typingChans[d] = g BY <2>3, <2>5, <3>2
      <4>2. d # c BY <2>1, <2>3, <2>5, <3>2, <4>1
      <4> QED BY <2>3, <4>1, <4>2
    <3> QED BY <3>1, <3>2
  <2> QED BY <2>1, <2>4, <2>5
<1>2. ASSUME NEW c \in Channel, StopTyping(c) PROVE TypersCanBeStopped'
  <2>1. typingChans' = [typingChans EXCEPT ![c] = 0] /\ closed' = closed \cup {typingChans[c]}
        /\ UNCHANGED <<typers, started>>
    BY <1>2 DEF StopTyping
  <2>2. typingChans' \in [Channel -> 0 .. started'] BY <2>1
  <2>3. ASSUME NEW g \in typers' \ closed' PROVE \E d \in Channel : typingChans'[d] = g
    <3>1. PICK d \in Channel : typingChans[d] = g BY <2>1, <2>3
    <3>2. d # c BY <2>1, <2>3, <3>1
    <3> QED BY <2>1, <3>1, <3>2
  <2> QED BY <2>1, <2>2, <2>3
<1>3. CASE StopAllTyping
  <2>1. typingChans' = [c \in Channel |-> 0] /\ UNCHANGED <<typers, started>>
        /\ closed' = closed \cup {typingChans[c] : c \in {d \in Channel : typingChans[d] # 0}}
    BY <1>3 DEF StopAllTyping
  <2>2. typingChans' \in [Channel -> 0 .. started'] BY <2>1
  <2>3. ASSUME NEW g \in typers' \ closed' PROVE FALSE
    <3>1. PICK d \in Channel : typingChans[d] = g BY <2>1, <2>3
    <3>2. g # 0 BY <2>1, <2>3
    <3> QED BY <2>1, <2>3, <3>1, <3>2
  <2> QED BY <2>1, <2>2, <2>3
<1>4. ASSUME NEW g \in typers, TyperEnds(g) PROVE TypersCanBeStopped'
  BY <1>4 DEF TyperEnds
<1>5. CASE UNCHANGED typingVars BY <1>5 DEF typingVars
<1> QED BY <1>1, <1>2, <1>3, <1>4, <1>5 DEF TypingNext

(* No goroutine goes on typing in a channel with nobody able to stop it.   *)
THEOREM TypingCanBeStopped == Spec => []TypersCanBeStopped
<1>1. Init => TypersCanBeStopped
  BY TypingConstants DEF Init, TypingInit, TypersCanBeStopped
<1>2. [Next]_vars => [TypingNext]_typingVars BY DEF Next, vars
<1> QED BY <1>1, <1>2, TypingStep, PTL DEF Spec

-----------------------------------------------------------------------------
(* Sequences without repetition.                                           *)
Injective(s) == \A i, j \in DOMAIN s : s[i] = s[j] => i = j

LEMMA AppendElements ==
  ASSUME NEW S, NEW s \in Seq(S), NEW e \in S
  PROVE  /\ Append(s, e) \in Seq(S) /\ Elements(Append(s, e)) = Elements(s) \cup {e}
         /\ Injective(s) /\ e \notin Elements(s) => Injective(Append(s, e))
<1>1. /\ Append(s, e) \in Seq(S) /\ Len(Append(s, e)) = Len(s) + 1 /\ Len(s) \in Nat
      /\ \A i \in 1 .. Len(s) : Append(s, e)[i] = s[i]
      /\ Append(s, e)[Len(s) + 1] = e
      /\ DOMAIN s = 1 .. Len(s) /\ DOMAIN Append(s, e) = 1 .. Len(s) + 1
  OBVIOUS
<1>2. Elements(Append(s, e)) = Elements(s) \cup {e}
  <2>1. \A i \in 1 .. Len(s) + 1 : i \in 1 .. Len(s) \/ i = Len(s) + 1 BY <1>1
  <2>2. Len(s) + 1 \in 1 .. Len(s) + 1 /\ 1 .. Len(s) \subseteq 1 .. Len(s) + 1 BY <1>1
  <2> QED BY <1>1, <2>1, <2>2 DEF Elements
<1>3. Injective(s) /\ e \notin Elements(s) => Injective(Append(s, e))
  BY <1>1 DEF Injective, Elements
<1> QED BY <1>1, <1>2, <1>3

LEMMA TailElements ==
  ASSUME NEW S, NEW s \in Seq(S), s # <<>>
  PROVE  /\ Tail(s) \in Seq(S) /\ Head(s) \in S
         /\ Elements(s) = {Head(s)} \cup Elements(Tail(s))
         /\ Injective(s) => Injective(Tail(s)) /\ Head(s) \notin Elements(Tail(s))
<1>1. /\ Tail(s) \in Seq(S) /\ Head(s) = s[1] /\ Len(s) \in Nat /\ Len(s) >= 1
      /\ Len(Tail(s)) = Len(s) - 1
      /\ \A i \in 1 .. Len(s) - 1 : Tail(s)[i] = s[i + 1]
      /\ DOMAIN s = 1 .. Len(s) /\ DOMAIN Tail(s) = 1 .. Len(s) - 1
  OBVIOUS
<1>2. Elements(s) = {Head(s)} \cup Elements(Tail(s))
  <2>1. \A i \in 1 .. Len(s) : i = 1 \/ (i - 1 \in 1 .. Len(s) - 1 /\ Tail(s)[i - 1] = s[i])
    BY <1>1
  <2>2. \A i \in 1 .. Len(s) - 1 : i + 1 \in 1 .. Len(s) /\ Tail(s)[i] = s[i + 1] BY <1>1
  <2>3. 1 \in 1 .. Len(s) BY <1>1
  <2>4. Elements(Tail(s)) \subseteq Elements(s) BY <1>1, <2>2 DEF Elements
  <2>5. Head(s) \in Elements(s) BY <1>1, <2>3 DEF Elements
  <2>6. ASSUME NEW i \in 1 .. Len(s), i # 1 PROVE s[i] \in Elements(Tail(s))
    BY <1>1, <2>1, <2>6 DEF Elements
  <2>7. Elements(s) \subseteq {Head(s)} \cup Elements(Tail(s)) BY <1>1, <2>6 DEF Elements
  <2> QED BY <2>4, <2>5, <2>7
<1>3. Injective(s) => Injective(Tail(s)) /\ Head(s) \notin Elements(Tail(s))
  BY <1>1 DEF Injective, Elements
<1> QED BY <1>1, <1>2, <1>3

LEMMA ConcatElements ==
  ASSUME NEW S, NEW s \in Seq(S), NEW t \in Seq(S)
  PROVE  /\ s \o t \in Seq(S) /\ Elements(s \o t) = Elements(s) \cup Elements(t)
         /\ Injective(s) /\ Injective(t) /\ Elements(s) \cap Elements(t) = {}
              => Injective(s \o t)
<1>1. /\ s \o t \in Seq(S) /\ Len(s) \in Nat /\ Len(t) \in Nat
      /\ Len(s \o t) = Len(s) + Len(t)
      /\ \A i \in 1 .. Len(s) : (s \o t)[i] = s[i]
      /\ \A i \in 1 .. Len(t) : (s \o t)[Len(s) + i] = t[i]
      /\ DOMAIN s = 1 .. Len(s) /\ DOMAIN t = 1 .. Len(t)
      /\ DOMAIN (s \o t) = 1 .. Len(s) + Len(t)
  OBVIOUS
<1>2. \A i \in 1 .. Len(s) + Len(t) : \/ i \in 1 .. Len(s) /\ (s \o t)[i] = s[i]
                                      \/ i - Len(s) \in 1 .. Len(t) /\ (s \o t)[i] = t[i - Len(s)]
  BY <1>1
<1>3. Elements(s \o t) = Elements(s) \cup Elements(t)
  <2>1. \A i \in 1 .. Len(t) : Len(s) + i \in 1 .. Len(s) + Len(t) BY <1>1
  <2>2. 1 .. Len(s) \subseteq 1 .. Len(s) + Len(t) BY <1>1
  <2>3. Elements(s) \cup Elements(t) \subseteq Elements(s \o t) BY <1>1, <2>1, <2>2 DEF Elements
  <2>4. Elements(s \o t) \subseteq Elements(s) \cup Elements(t) BY <1>1, <1>2 DEF Elements
  <2> QED BY <2>3, <2>4
<1>4. ASSUME Injective(s), Injective(t), Elements(s) \cap Elements(t) = {}
      PROVE  Injective(s \o t)
  <2> SUFFICES ASSUME NEW i \in 1 .. Len(s) + Len(t), NEW j \in 1 .. Len(s) + Len(t),
                      (s \o t)[i] = (s \o t)[j]
               PROVE  i = j
    BY <1>1 DEF Injective
  <2>1. \A k \in 1 .. Len(s), l \in 1 .. Len(t) : s[k] # t[l] BY <1>1, <1>4 DEF Elements
  <2>2. \/ i \in 1 .. Len(s) /\ (s \o t)[i] = s[i]
        \/ i - Len(s) \in 1 .. Len(t) /\ (s \o t)[i] = t[i - Len(s)]
    BY <1>2
  <2>3. \/ j \in 1 .. Len(s) /\ (s \o t)[j] = s[j]
        \/ j - Len(s) \in 1 .. Len(t) /\ (s \o t)[j] = t[j - Len(s)]
    BY <1>2
  <2>4. CASE i \in 1 .. Len(s) /\ j \in 1 .. Len(s) /\ s[i] = s[j]
    BY <1>1, <1>4, <2>4 DEF Injective
  <2>5. CASE i - Len(s) \in 1 .. Len(t) /\ j - Len(s) \in 1 .. Len(t) /\ t[i - Len(s)] = t[j - Len(s)]
    <3>1. i - Len(s) = j - Len(s) BY <1>1, <1>4, <2>5 DEF Injective
    <3> QED BY <1>1, <3>1
  <2> QED BY <2>1, <2>2, <2>3, <2>4, <2>5
<1> QED BY <1>1, <1>3, <1>4

LEMMA EmptyElements == <<>> \in Seq(Action) /\ Elements(<<>>) = {} /\ Injective(<<>>)
BY DEF Elements, Injective

-----------------------------------------------------------------------------
(* The ledger: where an action accepted can be.  That the tick's two lists *)
(* are empty between ticks is what lets Snapshot overwrite them.           *)
RetryRecord == [attempts : Nat \ {0}, age : 0 .. MaxRetry, wait : 0 .. MaxBackoff + 1]
InTick == Elements(toProcess) \cup Elements(stillPending)

ListsOK ==
  /\ DOMAIN content \subseteq Action
  /\ accepted \in Seq(Action) /\ pending \in Seq(Action)
  /\ toProcess \in Seq(Action) /\ stillPending \in Seq(Action)
  /\ pc \in {"idle", "returned"} => toProcess = <<>> /\ stillPending = <<>>
  /\ pc = "send" => toProcess # <<>>

Apart ==
  /\ Injective(pending) /\ Injective(toProcess) /\ Injective(stillPending)
  /\ Elements(pending) \cap InTick = {}
  /\ Elements(toProcess) \cap Elements(stillPending) = {}

Ledger ==
  /\ Elements(accepted) = Elements(pending) \cup InTick \cup DOMAIN settled
  /\ (Elements(pending) \cup InTick) \cap DOMAIN settled = {}
  /\ DOMAIN retryStates \subseteq Elements(pending) \cup InTick

Endings ==
  /\ captured = {a \in DOMAIN settled : settled[a] = "done" /\ Kind[a] = "message"}
  /\ \A a \in DOMAIN retryStates : retryStates[a] \in RetryRecord

OutboxInv == ListsOK /\ Apart /\ Ledger /\ Endings

LEMMA OutboxInvInit == Init => OutboxInv
BY EmptyElements, OutboxConstants
   DEF Init, OutboxInit, OutboxInv, ListsOK, Apart, Ledger, Endings, InTick

LEMMA BackoffBounded == ASSUME NEW n \in Nat PROVE Backoff(n) \in 1 .. MaxBackoff
BY OutboxConstants DEF Backoff

(* The head of the tick's list, and what is left when it is taken off.     *)
LEMMA HeadOfTick ==
  ASSUME OutboxInv, toProcess # <<>>
  PROVE  /\ Head(toProcess) \in Action /\ Tail(toProcess) \in Seq(Action)
         /\ Elements(toProcess) = {Head(toProcess)} \cup Elements(Tail(toProcess))
         /\ Head(toProcess) \notin Elements(Tail(toProcess))
         /\ Head(toProcess) \notin Elements(stillPending)
         /\ Head(toProcess) \notin Elements(pending)
         /\ Head(toProcess) \notin DOMAIN settled
         /\ Injective(Tail(toProcess))
<1>1. toProcess \in Seq(Action) /\ Injective(toProcess) BY DEF OutboxInv, ListsOK, Apart
<1>2. /\ Tail(toProcess) \in Seq(Action) /\ Head(toProcess) \in Action
      /\ Elements(toProcess) = {Head(toProcess)} \cup Elements(Tail(toProcess))
      /\ Injective(Tail(toProcess)) /\ Head(toProcess) \notin Elements(Tail(toProcess))
  BY <1>1, TailElements
<1> QED BY <1>2 DEF OutboxInv, Apart, Ledger, InTick

LEMMA SubmitStep ==
  ASSUME OutboxInv, NEW a \in Action, Submit(a)
  PROVE  OutboxInv'
<1>1. /\ accepted' = Append(accepted, a) /\ pending' = Append(pending, a)
      /\ a \notin Elements(accepted)
      /\ UNCHANGED <<content, toProcess, stillPending, pc, retryStates, settled, captured>>
  BY DEF Submit, endVars
<1>2. pending \in Seq(Action) /\ accepted \in Seq(Action) /\ a \notin Elements(pending)
      /\ a \notin InTick /\ a \notin DOMAIN settled
  BY <1>1 DEF OutboxInv, ListsOK, Ledger
<1>3. /\ accepted' \in Seq(Action) /\ Elements(accepted') = Elements(accepted) \cup {a}
      /\ pending' \in Seq(Action) /\ Elements(pending') = Elements(pending) \cup {a}
  BY <1>1, <1>2, AppendElements
<1>4. Injective(pending') BY <1>1, <1>2, AppendElements DEF OutboxInv, Apart
<1>5. Elements(toProcess)' = Elements(toProcess) /\ Elements(stillPending)' = Elements(stillPending)
      /\ Elements(accepted)' = Elements(accepted') /\ Elements(pending)' = Elements(pending')
  BY <1>1 DEF Elements
<1>6. ListsOK' BY <1>1, <1>3 DEF OutboxInv, ListsOK
<1>7. Apart'
  BY <1>1, <1>2, <1>3, <1>4, <1>5 DEF OutboxInv, Apart, InTick, Injective
<1>8. Ledger' BY <1>1, <1>2, <1>3, <1>5 DEF OutboxInv, Ledger, InTick
<1>9. Endings' BY <1>1 DEF OutboxInv, Endings
<1> QED BY <1>6, <1>7, <1>8, <1>9 DEF OutboxInv

LEMMA SnapshotStep ==
  ASSUME OutboxInv, Snapshot
  PROVE  OutboxInv'
<1>1. /\ toProcess' = pending /\ pending' = <<>> /\ stillPending' = <<>> /\ pc' = "pick"
      /\ UNCHANGED <<content, accepted, retryStates, settled, captured>>
      /\ toProcess = <<>> /\ stillPending = <<>>
  BY DEF Snapshot, endVars, OutboxInv, ListsOK
<1>2. ListsOK' BY <1>1, EmptyElements DEF OutboxInv, ListsOK
<1>3. Elements(pending') = {} /\ Elements(stillPending') = {} /\ Elements(toProcess') = Elements(pending)
      /\ InTick = {} /\ Elements(accepted') = Elements(accepted)
      /\ Injective(pending') /\ Injective(stillPending') /\ Injective(toProcess')
  BY <1>1, EmptyElements DEF InTick, OutboxInv, Apart
<1>4. Apart' BY <1>3 DEF Apart, InTick
<1>5. Ledger' BY <1>1, <1>3 DEF OutboxInv, Ledger, InTick
<1>6. Endings' BY <1>1 DEF OutboxInv, Endings
<1> QED BY <1>2, <1>4, <1>5, <1>6 DEF OutboxInv

LEMMA SkipStep ==
  ASSUME OutboxInv, Skip
  PROVE  OutboxInv'
<1> DEFINE h == Head(toProcess)
<1>1. /\ toProcess # <<>> /\ toProcess' = Tail(toProcess) /\ pc = "pick"
      /\ stillPending' = Append(stillPending, h)
      /\ UNCHANGED <<content, accepted, pending, pc, retryStates, settled, captured>>
  BY DEF Skip, endVars
<1>2. /\ h \in Action /\ Tail(toProcess) \in Seq(Action)
      /\ Elements(toProcess) = {h} \cup Elements(toProcess')
      /\ h \notin Elements(toProcess') /\ h \notin Elements(stillPending)
      /\ h \notin Elements(pending) /\ Injective(toProcess')
  BY <1>1, HeadOfTick
<1>3. /\ stillPending \in Seq(Action) /\ Injective(stillPending)
  BY DEF OutboxInv, ListsOK, Apart
<1>4. /\ stillPending' \in Seq(Action) /\ Injective(stillPending')
      /\ Elements(stillPending') = Elements(stillPending) \cup {h}
  BY <1>1, <1>2, <1>3, AppendElements
<1>5. ListsOK' BY <1>1, <1>2, <1>4 DEF OutboxInv, ListsOK
<1>6. Elements(pending') = Elements(pending) /\ Elements(accepted') = Elements(accepted)
      /\ (Injective(pending) => Injective(pending'))
  BY <1>1
<1>7. Apart' BY <1>2, <1>4, <1>6 DEF OutboxInv, Apart, InTick
<1>8. Ledger' BY <1>1, <1>2, <1>4, <1>6 DEF OutboxInv, Ledger, InTick
<1>9. Endings' BY <1>1 DEF OutboxInv, Endings
<1> QED BY <1>5, <1>7, <1>8, <1>9 DEF OutboxInv

(* The head is settled, one way or the other, and leaves the tick.         *)
LEMMA SettleStep ==
  ASSUME OutboxInv, toProcess # <<>>, NEW how \in {"done", "failed"}, Settle(Head(toProcess), how),
         toProcess' = Tail(toProcess), pc' = "pick",
         captured' = IF how = "done" /\ Kind[Head(toProcess)] = "message"
                     THEN captured \cup {Head(toProcess)} ELSE captured,
         UNCHANGED <<content, accepted, pending, stillPending>>
  PROVE  OutboxInv'
<1> DEFINE h == Head(toProcess)
<1>1. /\ h \in Action /\ Tail(toProcess) \in Seq(Action)
      /\ Elements(toProcess) = {h} \cup Elements(toProcess')
      /\ h \notin Elements(toProcess') /\ h \notin Elements(stillPending)
      /\ h \notin Elements(pending) /\ h \notin DOMAIN settled /\ Injective(toProcess')
  BY HeadOfTick
<1>2. /\ DOMAIN settled' = DOMAIN settled \cup {h} /\ settled'[h] = how
      /\ \A a \in DOMAIN settled : settled'[a] = settled[a]
  BY <1>1 DEF Settle, Put
<1>3. /\ DOMAIN retryStates' = DOMAIN retryStates \ {h}
      /\ \A a \in DOMAIN retryStates' : retryStates'[a] = retryStates[a]
  BY DEF Settle, Without
<1>4. ListsOK' BY <1>1 DEF OutboxInv, ListsOK
<1>5. /\ Elements(pending') = Elements(pending) /\ Elements(accepted') = Elements(accepted)
      /\ Elements(stillPending') = Elements(stillPending)
      /\ (Injective(pending) => Injective(pending'))
      /\ (Injective(stillPending) => Injective(stillPending'))
  OBVIOUS
<1>6. Apart' BY <1>1, <1>5 DEF OutboxInv, Apart, InTick
<1>7. Ledger' BY <1>1, <1>2, <1>3, <1>5 DEF OutboxInv, Ledger, InTick
<1>8. Endings'
  <2>1. captured = {a \in DOMAIN settled : settled[a] = "done" /\ Kind[a] = "message"}
    BY DEF OutboxInv, Endings
  <2>2. captured' = {a \in DOMAIN settled' : settled'[a] = "done" /\ Kind[a] = "message"}
    BY <1>1, <1>2, <2>1
  <2>3. \A a \in DOMAIN retryStates' : retryStates'[a] \in RetryRecord
    BY <1>3 DEF OutboxInv, Endings
  <2> QED BY <2>2, <2>3 DEF Endings, RetryRecord
<1> QED BY <1>4, <1>6, <1>7, <1>8 DEF OutboxInv

(* The head failed and is kept for a later tick.                           *)
LEMMA RetryStep ==
  ASSUME OutboxInv, toProcess # <<>>,
         retryStates' = Put(retryStates, Head(toProcess), Failed(RetryState(Head(toProcess)))),
         stillPending' = Append(stillPending, Head(toProcess)),
         toProcess' = Tail(toProcess), pc' = "pick",
         UNCHANGED <<content, accepted, pending, settled, captured>>
  PROVE  OutboxInv'
<1> DEFINE h == Head(toProcess)
<1>1. /\ h \in Action /\ Tail(toProcess) \in Seq(Action)
      /\ Elements(toProcess) = {h} \cup Elements(toProcess')
      /\ h \notin Elements(toProcess') /\ h \notin Elements(stillPending)
      /\ h \notin Elements(pending) /\ h \notin DOMAIN settled /\ Injective(toProcess')
  BY HeadOfTick
<1>2. stillPending \in Seq(Action) /\ Injective(stillPending) BY DEF OutboxInv, ListsOK, Apart
<1>3. /\ stillPending' \in Seq(Action) /\ Injective(stillPending')
      /\ Elements(stillPending') = Elements(stillPending) \cup {h}
  BY <1>1, <1>2, AppendElements
<1>4. /\ DOMAIN retryStates' = DOMAIN retryStates \cup {h}
      /\ retryStates'[h] = Failed(RetryState(h))
      /\ \A a \in DOMAIN retryStates \ {h} : retryStates'[a] = retryStates[a]
  BY DEF Put
<1>5. Failed(RetryState(h)) \in RetryRecord
  <2>1. RetryState(h) \in [attempts : Nat, age : 0 .. MaxRetry, wait : 0 .. MaxBackoff + 1]
    BY OutboxConstants DEF RetryState, OutboxInv, Endings, RetryRecord
  <2> DEFINE n == RetryState(h).attempts + 1
  <2>2. n \in Nat \ {0} BY <2>1
  <2>3. Backoff(n) \in 1 .. MaxBackoff BY <2>2, BackoffBounded
  <2>4. Backoff(n) + 1 \in 0 .. MaxBackoff + 1 BY <2>3, OutboxConstants
  <2> QED BY <2>1, <2>2, <2>4 DEF Failed, RetryRecord
<1>6. ListsOK' BY <1>1, <1>3 DEF OutboxInv, ListsOK
<1>7. /\ Elements(pending') = Elements(pending) /\ Elements(accepted') = Elements(accepted)
      /\ (Injective(pending) => Injective(pending'))
  OBVIOUS
<1>8. Apart' BY <1>1, <1>3, <1>7 DEF OutboxInv, Apart, InTick
<1>9. Ledger' BY <1>1, <1>3, <1>4, <1>7 DEF OutboxInv, Ledger, InTick
<1>10. Endings' BY <1>4, <1>5 DEF OutboxInv, Endings, RetryRecord
<1> QED BY <1>6, <1>8, <1>9, <1>10 DEF OutboxInv

LEMMA PutBackStep ==
  ASSUME OutboxInv, PutBack
  PROVE  OutboxInv'
<1>1. /\ toProcess = <<>> /\ toProcess' = <<>> /\ pending' = stillPending \o pending
      /\ stillPending' = <<>> /\ pc' = "idle"
      /\ UNCHANGED <<content, accepted, retryStates, settled, captured>>
  BY DEF PutBack, PutBefore, endVars
<1>2. /\ stillPending \in Seq(Action) /\ pending \in Seq(Action)
      /\ Injective(stillPending) /\ Injective(pending)
      /\ Elements(stillPending) \cap Elements(pending) = {}
  BY DEF OutboxInv, ListsOK, Apart, InTick
<1>3. /\ pending' \in Seq(Action) /\ Injective(pending')
      /\ Elements(pending') = Elements(stillPending) \cup Elements(pending)
  BY <1>1, <1>2, ConcatElements
<1>4. Elements(toProcess) = {} /\ Elements(toProcess') = {} /\ Elements(stillPending') = {}
      /\ Injective(toProcess') /\ Injective(stillPending') /\ Elements(accepted') = Elements(accepted)
  BY <1>1, EmptyElements
<1>5. ListsOK' BY <1>1, <1>3, EmptyElements DEF OutboxInv, ListsOK
<1>6. Apart' BY <1>3, <1>4 DEF Apart, InTick
<1>7. Ledger' BY <1>1, <1>3, <1>4 DEF OutboxInv, Ledger, InTick
<1>8. Endings' BY <1>1 DEF OutboxInv, Endings
<1> QED BY <1>5, <1>6, <1>7, <1>8 DEF OutboxInv

LEMMA SameLists ==
  ASSUME ListsOK, Apart, UNCHANGED <<content, accepted, pending, toProcess, stillPending>>,
         \/ pc' = pc
         \/ pc' = "send" /\ toProcess # <<>>
         \/ pc' = "returned" /\ pc = "idle"
  PROVE  /\ ListsOK' /\ Apart' /\ Elements(accepted)' = Elements(accepted)
         /\ Elements(pending)' = Elements(pending) /\ InTick' = InTick
<1>1. ListsOK' BY DEF ListsOK
<1>2. /\ Elements(accepted)' = Elements(accepted) /\ Elements(pending)' = Elements(pending)
      /\ Elements(toProcess)' = Elements(toProcess)
      /\ Elements(stillPending)' = Elements(stillPending)
  BY DEF Elements
<1>3. /\ Injective(pending) => Injective(pending)'
      /\ Injective(toProcess) => Injective(toProcess)'
      /\ Injective(stillPending) => Injective(stillPending)'
  BY DEF Injective
<1>4. InTick' = InTick BY <1>2 DEF InTick
<1>5. Apart' BY <1>2, <1>3, <1>4 DEF Apart
<1> QED BY <1>1, <1>2, <1>4, <1>5

LEMMA ElapseStep ==
  ASSUME OutboxInv, Elapse
  PROVE  OutboxInv'
<1>1. /\ UNCHANGED <<content, accepted, pending, toProcess, stillPending, pc, settled, captured>>
      /\ DOMAIN retryStates' = DOMAIN retryStates
      /\ \A a \in DOMAIN retryStates :
           retryStates'[a] = [retryStates[a] EXCEPT !.wait = Less(@), !.age = More(@)]
  BY DEF Elapse, loopVars
<1>2. ASSUME NEW r \in RetryRecord
      PROVE  [r EXCEPT !.wait = Less(@), !.age = More(@)] \in RetryRecord
  <2>1. r.attempts \in Nat \ {0} /\ r.age \in 0 .. MaxRetry /\ r.wait \in 0 .. MaxBackoff + 1
    BY DEF RetryRecord
  <2>2. Less(r.wait) \in 0 .. MaxBackoff + 1 BY <2>1, OutboxConstants DEF Less
  <2>3. More(r.age) \in 0 .. MaxRetry BY <2>1, OutboxConstants DEF More
  <2> QED BY <2>1, <2>2, <2>3 DEF RetryRecord
<1>3. Endings' BY <1>1, <1>2 DEF OutboxInv, Endings, RetryRecord
<1>4. ListsOK' /\ Apart' /\ Elements(accepted)' = Elements(accepted)
      /\ Elements(pending)' = Elements(pending) /\ InTick' = InTick
  BY <1>1, SameLists DEF OutboxInv
<1>5. Ledger' BY <1>1, <1>4 DEF OutboxInv, Ledger
<1> QED BY <1>3, <1>4, <1>5 DEF OutboxInv

(* Steps that touch no list and nothing of an action's end.                *)
LEMMA OtherStep ==
  ASSUME OutboxInv,
         UNCHANGED <<content, accepted, pending, toProcess, stillPending, endVars>>,
         \/ pc' = pc
         \/ pc' = "send" /\ toProcess # <<>>
         \/ pc' = "returned" /\ pc = "idle"
  PROVE  OutboxInv'
<1>1. ListsOK' /\ Apart' /\ Elements(accepted)' = Elements(accepted)
      /\ Elements(pending)' = Elements(pending) /\ InTick' = InTick
  BY SameLists DEF OutboxInv
<1>2. UNCHANGED <<retryStates, settled, captured>> BY DEF endVars
<1>3. Ledger' BY <1>1, <1>2 DEF OutboxInv, Ledger
<1>4. Endings' BY <1>2 DEF OutboxInv, Endings
<1> QED BY <1>1, <1>3, <1>4 DEF OutboxInv

LEMMA OutboxInvStep == OutboxInv /\ [Next]_vars => OutboxInv'
<1> SUFFICES ASSUME OutboxInv, [Next]_vars
             PROVE  OutboxInv'
  OBVIOUS
<1>1. ASSUME NEW a \in Action, Submit(a) PROVE OutboxInv' BY <1>1, SubmitStep
<1>2. CASE Snapshot BY <1>2, SnapshotStep
<1>3. CASE Skip BY <1>3, SkipStep
<1>4. ASSUME NEW a \in Action, ExecuteAction(a) PROVE OutboxInv'
  BY <1>4, OtherStep DEF ExecuteAction
<1>5. ASSUME NEW a \in Action, PostLast(a) PROVE OutboxInv'
  <2>1. toProcess # <<>> BY <1>5 DEF PostLast, OutboxInv, ListsOK
  <2> QED BY <1>5, <2>1, SettleStep DEF PostLast
<1>6. CASE PostChunk BY <1>6, OtherStep DEF PostChunk, loopVars
<1>7. ASSUME NEW a \in Action, NEW error \in {"client", "other"}, HandleActionError(a, error)
      PROVE  OutboxInv'
  <2>1. toProcess # <<>> /\ a = Head(toProcess) BY <1>7 DEF HandleActionError, OutboxInv, ListsOK
  <2>2. CASE Settle(a, "failed") /\ UNCHANGED stillPending
    BY <1>7, <2>1, <2>2, SettleStep DEF HandleActionError
  <2>3. CASE /\ retryStates' = Put(retryStates, a, Failed(RetryState(a)))
             /\ stillPending' = Append(stillPending, a) /\ UNCHANGED settled
    BY <1>7, <2>1, <2>3, RetryStep DEF HandleActionError
  <2> QED BY <1>7, <2>2, <2>3 DEF HandleActionError
<1>8. CASE PutBack BY <1>8, PutBackStep
<1>9. CASE PollLoopReturns BY <1>9, OtherStep DEF PollLoopReturns
<1>10. CASE Elapse BY <1>10, ElapseStep
<1>11. CASE Stop BY <1>11, OtherStep DEF Stop, loopVars
<1>12. ASSUME NEW c \in Channel, StorePendingInteraction(c) \/ TokenExpires(c) PROVE OutboxInv'
  BY <1>12, OtherStep DEF StorePendingInteraction, TokenExpires, loopVars
<1>13. CASE UNCHANGED outboxVars BY <1>13, OtherStep DEF outboxVars, loopVars
<1> QED BY <1>1, <1>2, <1>3, <1>4, <1>5, <1>6, <1>7, <1>8, <1>9, <1>10, <1>11, <1>12, <1>13
        DEF Next, OutboxNext, Loop, Sends, Fails, vars

(* The invariant says it list by list, the property of all three at once.  *)
LEMMA LedgerAccounts == OutboxInv => ActionsAccountedFor
<1> SUFFICES ASSUME OutboxInv PROVE ActionsAccountedFor OBVIOUS
<1>1. /\ pending \in Seq(Action) /\ toProcess \in Seq(Action) /\ stillPending \in Seq(Action)
      /\ Injective(pending) /\ Injective(toProcess) /\ Injective(stillPending)
      /\ Elements(pending) \cap Elements(toProcess) = {}
  BY DEF OutboxInv, ListsOK, Apart, InTick
<1>2. /\ pending \o toProcess \in Seq(Action) /\ Injective(pending \o toProcess)
      /\ Elements(pending \o toProcess) = Elements(pending) \cup Elements(toProcess)
  BY <1>1, ConcatElements
<1>3. Elements(pending \o toProcess) \cap Elements(stillPending) = {}
  BY <1>2 DEF OutboxInv, Apart, InTick
<1>4. /\ Injective((pending \o toProcess) \o stillPending)
      /\ Elements((pending \o toProcess) \o stillPending)
           = Elements(pending \o toProcess) \cup Elements(stillPending)
  <2> DEFINE taken == pending \o toProcess
  <2>1. taken \in Seq(Action) /\ Injective(taken) /\ Elements(taken) \cap Elements(stillPending) = {}
    BY <1>2, <1>3
  <2>2. stillPending \in Seq(Action) /\ Injective(stillPending) BY <1>1
  <2> HIDE DEF taken
  <2>3. Injective(taken \o stillPending)
        /\ Elements(taken \o stillPending) = Elements(taken) \cup Elements(stillPending)
    BY <2>1, <2>2, ConcatElements
  <2> QED BY <2>3 DEF taken
<1>5. Waiting = (pending \o toProcess) \o stillPending BY DEF Waiting
<1>6. Injective(Waiting) /\ Elements(Waiting) = Elements(pending) \cup InTick
  BY <1>2, <1>4, <1>5 DEF InTick
<1> QED BY <1>6 DEF OutboxInv, Ledger, Endings, RetryRecord, ActionsAccountedFor, Injective

(* No action is lost between the goroutine's lists, none is in two of them *)
(* or both waiting and ended, and a message is remembered as Bud's own iff *)
(* its last chunk went out: for any number of actions, submitted while a   *)
(* tick runs or not, and any failures.                                     *)
THEOREM EveryActionIsAccountedFor == Spec => []ActionsAccountedFor
<1> QED BY OutboxInvInit, OutboxInvStep, LedgerAccounts, PTL DEF Spec
-----------------------------------------------------------------------------
(* The order: what is kept for later, what the tick still has to do and    *)
(* what waits for the next tick are, in this order, in the order in which  *)
(* they were submitted.                                                    *)
After == [a \in Action |-> {b \in Action : Before(a, b)}]
OrderedBy(s, R) == \A i, j \in DOMAIN s : i < j => s[j] \in R[s[i]]
AllBefore(A, B, R) == \A x \in A, y \in B : y \in R[x]

ListsOrdered ==
  /\ Injective(accepted)
  /\ OrderedBy(stillPending, After) /\ OrderedBy(toProcess, After) /\ OrderedBy(pending, After)
  /\ AllBefore(Elements(stillPending), Elements(toProcess), After)
  /\ AllBefore(Elements(stillPending), Elements(pending), After)
  /\ AllBefore(Elements(toProcess), Elements(pending), After)

KeptHasFailed ==
  /\ Elements(stillPending) \subseteq DOMAIN retryStates
  /\ DOMAIN posted = Action

OrderInv == OutboxInv /\ ListsOrdered /\ KeptHasFailed

LEMMA OrderedAppend ==
  ASSUME NEW S, NEW s \in Seq(S), NEW e \in S, NEW R, OrderedBy(s, R), AllBefore(Elements(s), {e}, R)
  PROVE  OrderedBy(Append(s, e), R)
<1>1. /\ Len(s) \in Nat /\ DOMAIN s = 1 .. Len(s) /\ DOMAIN Append(s, e) = 1 .. Len(s) + 1
      /\ \A i \in 1 .. Len(s) : Append(s, e)[i] = s[i]
      /\ Append(s, e)[Len(s) + 1] = e
  OBVIOUS
<1> SUFFICES ASSUME NEW i \in 1 .. Len(s) + 1, NEW j \in 1 .. Len(s) + 1, i < j
             PROVE  Append(s, e)[j] \in R[Append(s, e)[i]]
  BY <1>1 DEF OrderedBy
<1>2. i \in 1 .. Len(s) BY <1>1
<1>3. CASE j = Len(s) + 1 BY <1>1, <1>2, <1>3 DEF AllBefore, Elements
<1>4. CASE j \in 1 .. Len(s) BY <1>1, <1>2, <1>4 DEF OrderedBy
<1> QED BY <1>1, <1>3, <1>4

LEMMA OrderedTail ==
  ASSUME NEW S, NEW s \in Seq(S), s # <<>>, NEW R, OrderedBy(s, R)
  PROVE  OrderedBy(Tail(s), R) /\ AllBefore({Head(s)}, Elements(Tail(s)), R)
<1>1. /\ Head(s) = s[1] /\ Len(s) \in Nat /\ Len(s) >= 1
      /\ \A i \in 1 .. Len(s) - 1 : Tail(s)[i] = s[i + 1]
      /\ DOMAIN s = 1 .. Len(s) /\ DOMAIN Tail(s) = 1 .. Len(s) - 1
  OBVIOUS
<1>2. OrderedBy(Tail(s), R)
  <2> SUFFICES ASSUME NEW i \in 1 .. Len(s) - 1, NEW j \in 1 .. Len(s) - 1, i < j
               PROVE  Tail(s)[j] \in R[Tail(s)[i]]
    BY <1>1 DEF OrderedBy
  <2>1. i + 1 \in 1 .. Len(s) /\ j + 1 \in 1 .. Len(s) /\ i + 1 < j + 1 BY <1>1
  <2> QED BY <1>1, <2>1 DEF OrderedBy
<1>3. ASSUME NEW i \in 1 .. Len(s) - 1 PROVE Tail(s)[i] \in R[Head(s)]
  <2>1. 1 \in 1 .. Len(s) /\ i + 1 \in 1 .. Len(s) /\ 1 < i + 1 BY <1>1
  <2> QED BY <1>1, <2>1 DEF OrderedBy
<1> QED BY <1>1, <1>2, <1>3 DEF AllBefore, Elements

LEMMA OrderedConcat ==
  ASSUME NEW S, NEW s \in Seq(S), NEW t \in Seq(S), NEW R,
         OrderedBy(s, R), OrderedBy(t, R), AllBefore(Elements(s), Elements(t), R)
  PROVE  OrderedBy(s \o t, R)
<1>1. /\ Len(s) \in Nat /\ Len(t) \in Nat
      /\ \A i \in 1 .. Len(s) : (s \o t)[i] = s[i]
      /\ \A i \in 1 .. Len(t) : (s \o t)[Len(s) + i] = t[i]
      /\ DOMAIN s = 1 .. Len(s) /\ DOMAIN t = 1 .. Len(t)
      /\ DOMAIN (s \o t) = 1 .. Len(s) + Len(t)
  OBVIOUS
<1> SUFFICES ASSUME NEW i \in 1 .. Len(s) + Len(t), NEW j \in 1 .. Len(s) + Len(t), i < j
             PROVE  (s \o t)[j] \in R[(s \o t)[i]]
  BY <1>1 DEF OrderedBy
<1>2. \A k \in 1 .. Len(s) + Len(t) : \/ k \in 1 .. Len(s) /\ (s \o t)[k] = s[k]
                                      \/ k - Len(s) \in 1 .. Len(t) /\ (s \o t)[k] = t[k - Len(s)]
  BY <1>1
<1>3. CASE i \in 1 .. Len(s) /\ j \in 1 .. Len(s) BY <1>1, <1>3 DEF OrderedBy
<1>4. CASE /\ i \in 1 .. Len(s)
           /\ j - Len(s) \in 1 .. Len(t) /\ (s \o t)[j] = t[j - Len(s)]
  BY <1>1, <1>4 DEF AllBefore, Elements
<1>5. CASE /\ i - Len(s) \in 1 .. Len(t) /\ (s \o t)[i] = t[i - Len(s)]
           /\ j - Len(s) \in 1 .. Len(t) /\ (s \o t)[j] = t[j - Len(s)]
  <2> DEFINE k == i - Len(s)
             l == j - Len(s)
  <2>1. k < l /\ k \in DOMAIN t /\ l \in DOMAIN t BY <1>1, <1>5
  <2>2. t[l] \in R[t[k]] BY <2>1 DEF OrderedBy
  <2> QED BY <1>5, <2>2
<1> QED BY <1>1, <1>2, <1>3, <1>4, <1>5

(* A submission comes after all that were submitted before it.             *)
LEMMA OrderOfSubmission ==
  ASSUME accepted \in Seq(Action), NEW a \in Action, accepted' = Append(accepted, a)
  PROVE  /\ \A x \in Action : After[x] \subseteq After'[x]
         /\ AllBefore(Elements(accepted), {a}, After')
<1>1. /\ Len(accepted) \in Nat /\ DOMAIN accepted = 1 .. Len(accepted)
      /\ DOMAIN accepted' = 1 .. Len(accepted) + 1
      /\ \A i \in 1 .. Len(accepted) : accepted'[i] = accepted[i] /\ accepted[i] \in Action
      /\ accepted'[Len(accepted) + 1] = a
  OBVIOUS
<1>2. ASSUME NEW x \in Action, NEW y \in Action, Before(x, y) PROVE Before(x, y)'
  <2>1. PICK i, j \in DOMAIN accepted : i < j /\ accepted[i] = x /\ accepted[j] = y
    BY <1>2 DEF Before
  <2>2. i \in DOMAIN accepted' /\ j \in DOMAIN accepted'
        /\ accepted'[i] = x /\ accepted'[j] = y
    BY <1>1, <2>1
  <2> QED BY <2>1, <2>2 DEF Before
<1>3. ASSUME NEW i \in DOMAIN accepted PROVE Before(accepted[i], a)'
  <2>1. i \in DOMAIN accepted' /\ Len(accepted) + 1 \in DOMAIN accepted' /\ i < Len(accepted) + 1
        /\ accepted'[i] = accepted[i]
    BY <1>1, <1>3
  <2>2. \E k, l \in DOMAIN accepted' : k < l /\ accepted'[k] = accepted[i] /\ accepted'[l] = a
    BY <1>1, <2>1
  <2> QED BY <2>1, <2>2 DEF Before
<1> QED BY <1>1, <1>2, <1>3 DEF After, AllBefore, Elements

LEMMA OrderInvInit == Init => OrderInv
<1> SUFFICES ASSUME Init PROVE OrderInv OBVIOUS
<1>1. /\ accepted = <<>> /\ pending = <<>> /\ toProcess = <<>> /\ stillPending = <<>>
      /\ DOMAIN posted = Action
  BY DEF Init, OutboxInit
<1>2. \A R : OrderedBy(<<>>, R) BY DEF OrderedBy
<1> QED BY <1>1, <1>2, OutboxInvInit, EmptyElements DEF OrderInv, ListsOrdered, KeptHasFailed, AllBefore

(* The head goes to the end of the list of what is kept.                   *)
LEMMA KeepStep ==
  ASSUME OutboxInv, ListsOrdered, toProcess # <<>>,
         stillPending' = Append(stillPending, Head(toProcess)), toProcess' = Tail(toProcess),
         UNCHANGED <<accepted, pending>>
  PROVE  ListsOrdered'
<1> DEFINE h == Head(toProcess)
<1>1. /\ h \in Action /\ toProcess \in Seq(Action) /\ stillPending \in Seq(Action)
      /\ Elements(toProcess) = {h} \cup Elements(toProcess')
  BY HeadOfTick DEF OutboxInv, ListsOK
<1>2. Elements(stillPending') = Elements(stillPending) \cup {h}
  BY <1>1, AppendElements
<1>3. After' = After BY DEF After, Before
<1>4. OrderedBy(toProcess', After) /\ AllBefore({h}, Elements(toProcess'), After)
  BY <1>1, OrderedTail DEF ListsOrdered
<1>5. AllBefore(Elements(stillPending), {h}, After) BY <1>1 DEF ListsOrdered, AllBefore
<1>6. OrderedBy(stillPending', After) BY <1>1, <1>5, OrderedAppend DEF ListsOrdered
<1>7. Elements(pending') = Elements(pending) /\ Injective(accepted')
      /\ OrderedBy(pending', After)
  BY DEF ListsOrdered
<1>8. /\ AllBefore(Elements(stillPending'), Elements(toProcess'), After)
      /\ AllBefore(Elements(stillPending'), Elements(pending'), After)
      /\ AllBefore(Elements(toProcess'), Elements(pending'), After)
  BY <1>1, <1>2, <1>4, <1>7 DEF ListsOrdered, AllBefore
<1> QED BY <1>3, <1>4, <1>6, <1>7, <1>8 DEF ListsOrdered

(* The head leaves the tick.                                               *)
LEMMA DropStep ==
  ASSUME OutboxInv, ListsOrdered, toProcess # <<>>, toProcess' = Tail(toProcess),
         UNCHANGED <<accepted, pending, stillPending>>
  PROVE  ListsOrdered'
<1>1. toProcess \in Seq(Action) /\ Elements(toProcess') \subseteq Elements(toProcess)
  BY HeadOfTick DEF OutboxInv, ListsOK
<1>2. OrderedBy(toProcess', After) BY <1>1, OrderedTail DEF ListsOrdered
<1>3. After' = After BY DEF After, Before
<1>4. /\ Elements(pending') = Elements(pending) /\ Elements(stillPending') = Elements(stillPending)
      /\ Injective(accepted') /\ OrderedBy(pending', After) /\ OrderedBy(stillPending', After)
  BY DEF ListsOrdered
<1>5. /\ AllBefore(Elements(stillPending'), Elements(toProcess'), After)
      /\ AllBefore(Elements(stillPending'), Elements(pending'), After)
      /\ AllBefore(Elements(toProcess'), Elements(pending'), After)
  BY <1>1, <1>4 DEF ListsOrdered, AllBefore
<1> QED BY <1>2, <1>3, <1>4, <1>5 DEF ListsOrdered

LEMMA SubmitKeepsOrder ==
  ASSUME OutboxInv, ListsOrdered, NEW a \in Action, Submit(a)
  PROVE  ListsOrdered'
<1>1. /\ accepted' = Append(accepted, a) /\ pending' = Append(pending, a)
      /\ a \notin Elements(accepted) /\ UNCHANGED <<toProcess, stillPending>>
      /\ accepted \in Seq(Action) /\ pending \in Seq(Action)
  BY DEF Submit, OutboxInv, ListsOK
<1>2. (\A x \in Action : After[x] \subseteq After'[x]) /\ AllBefore(Elements(accepted), {a}, After')
  BY <1>1, OrderOfSubmission
<1>3. Injective(accepted') BY <1>1, AppendElements DEF ListsOrdered
<1>4. /\ Elements(pending) \subseteq Elements(accepted)
      /\ Elements(toProcess) \subseteq Elements(accepted)
      /\ Elements(stillPending) \subseteq Elements(accepted)
      /\ Elements(pending') = Elements(pending) \cup {a}
  BY <1>1, AppendElements DEF OutboxInv, Ledger, InTick
<1>5. OrderedBy(pending', After')
  <2>1. OrderedBy(pending, After') BY <1>1, <1>2 DEF ListsOrdered, OrderedBy
  <2>2. AllBefore(Elements(pending), {a}, After') BY <1>2, <1>4 DEF AllBefore
  <2> QED BY <1>1, <2>1, <2>2, OrderedAppend
<1>6. /\ Elements(toProcess') = Elements(toProcess) /\ Elements(stillPending') = Elements(stillPending)
      /\ OrderedBy(toProcess', After') /\ OrderedBy(stillPending', After')
  <2>1. toProcess \in Seq(Action) /\ stillPending \in Seq(Action) BY DEF OutboxInv, ListsOK
  <2>2. ASSUME NEW s \in Seq(Action), OrderedBy(s, After) PROVE OrderedBy(s, After')
    <3>1. \A i \in DOMAIN s : s[i] \in Action OBVIOUS
    <3> QED BY <1>2, <2>2, <3>1 DEF OrderedBy
  <2>3. OrderedBy(toProcess, After') /\ OrderedBy(stillPending, After')
    BY <2>1, <2>2 DEF ListsOrdered
  <2> QED BY <1>1, <2>3
<1>7. /\ AllBefore(Elements(stillPending'), Elements(toProcess'), After')
      /\ AllBefore(Elements(stillPending'), Elements(pending'), After')
      /\ AllBefore(Elements(toProcess'), Elements(pending'), After')
  <2>1. Elements(accepted) \subseteq Action BY <1>1 DEF Elements
  <2> QED BY <1>2, <1>4, <1>6, <2>1 DEF ListsOrdered, AllBefore
<1> QED BY <1>3, <1>5, <1>6, <1>7 DEF ListsOrdered

LEMMA OrderInvStep == OrderInv /\ [Next]_vars => OrderInv'
<1> SUFFICES ASSUME OrderInv, [Next]_vars
             PROVE  OrderInv'
  OBVIOUS
<1>0. OutboxInv' BY OutboxInvStep DEF OrderInv
<1>p. OutboxInv /\ ListsOrdered /\ KeptHasFailed BY DEF OrderInv
<1> SUFFICES ListsOrdered' /\ KeptHasFailed' BY <1>0 DEF OrderInv
<1>1. ASSUME NEW a \in Action, Submit(a) PROVE ListsOrdered' /\ KeptHasFailed'
  BY <1>p, <1>1, SubmitKeepsOrder DEF KeptHasFailed, Submit, sendVars, endVars
<1>2. CASE Snapshot
  <2>1. /\ toProcess = <<>> /\ stillPending = <<>> /\ toProcess' = pending
        /\ pending' = <<>> /\ stillPending' = <<>>
        /\ UNCHANGED <<accepted, posted>>
    BY <1>p, <1>2 DEF Snapshot, OutboxInv, ListsOK, sendVars
  <2>2. After' = After /\ (\A R : OrderedBy(<<>>, R)) BY <2>1 DEF After, Before, OrderedBy
  <2> QED BY <1>p, <2>1, <2>2, EmptyElements DEF ListsOrdered, KeptHasFailed, AllBefore
<1>3. CASE Skip
  <2>1. ListsOrdered' BY <1>p, <1>3, KeepStep DEF Skip
  <2>2. /\ toProcess # <<>> /\ Head(toProcess) \in DOMAIN retryStates
        /\ stillPending' = Append(stillPending, Head(toProcess)) /\ UNCHANGED <<retryStates, posted>>
    BY <1>3 DEF Skip, ShouldRetryNow, sendVars, endVars
  <2>3. Elements(stillPending') = Elements(stillPending) \cup {Head(toProcess)}
    BY <1>p, <2>2, HeadOfTick, AppendElements DEF OutboxInv, ListsOK
  <2> QED BY <1>p, <2>1, <2>2, <2>3 DEF KeptHasFailed
<1>4. ASSUME NEW a \in Action, PostLast(a) PROVE ListsOrdered' /\ KeptHasFailed'
  <2>1. toProcess # <<>> /\ a = Head(toProcess) BY <1>p, <1>4 DEF PostLast, OutboxInv, ListsOK
  <2>2. ListsOrdered' BY <1>p, <1>4, <2>1, DropStep DEF PostLast
  <2>3. a \notin Elements(stillPending) BY <1>p, <2>1, HeadOfTick
  <2> QED BY <1>p, <1>4, <2>2, <2>3 DEF KeptHasFailed, PostLast, Post, Settle, Without
<1>5. ASSUME NEW a \in Action, NEW error \in {"client", "other"}, HandleActionError(a, error)
      PROVE  ListsOrdered' /\ KeptHasFailed'
  <2>1. toProcess # <<>> /\ a = Head(toProcess) BY <1>p, <1>5 DEF HandleActionError, OutboxInv, ListsOK
  <2>2. DOMAIN posted' = Action BY <1>p, <1>5 DEF HandleActionError, Post, KeptHasFailed
  <2>3. CASE Settle(a, "failed") /\ UNCHANGED stillPending
    <3>1. ListsOrdered' BY <1>p, <1>5, <2>1, <2>3, DropStep DEF HandleActionError
    <3>2. a \notin Elements(stillPending) BY <1>p, <2>1, HeadOfTick
    <3> QED BY <1>p, <2>2, <2>3, <3>1, <3>2 DEF KeptHasFailed, Settle, Without
  <2>4. CASE /\ retryStates' = Put(retryStates, a, Failed(RetryState(a)))
             /\ stillPending' = Append(stillPending, a)
    <3>1. ListsOrdered' BY <1>p, <1>5, <2>1, <2>4, KeepStep DEF HandleActionError
    <3>2. Elements(stillPending') = Elements(stillPending) \cup {a}
      BY <1>p, <2>1, <2>4, HeadOfTick, AppendElements DEF OutboxInv, ListsOK
    <3>3. DOMAIN retryStates' = DOMAIN retryStates \cup {a} BY <2>4 DEF Put
    <3> QED BY <1>p, <2>2, <3>1, <3>2, <3>3 DEF KeptHasFailed
  <2> QED BY <1>5, <2>3, <2>4 DEF HandleActionError
<1>6. CASE PutBack
  <2>1. /\ toProcess = <<>> /\ toProcess' = <<>> /\ pending' = stillPending \o pending
        /\ stillPending' = <<>> /\ UNCHANGED <<accepted, posted>>
        /\ stillPending \in Seq(Action) /\ pending \in Seq(Action)
    BY <1>p, <1>6 DEF PutBack, PutBefore, sendVars, OutboxInv, ListsOK
  <2>2. After' = After /\ (\A R : OrderedBy(<<>>, R)) BY <2>1 DEF After, Before, OrderedBy
  <2>3. OrderedBy(pending', After) BY <1>p, <2>1, OrderedConcat DEF ListsOrdered
  <2> QED BY <1>p, <2>1, <2>2, <2>3, EmptyElements DEF ListsOrdered, KeptHasFailed, AllBefore
<1>7. ASSUME UNCHANGED <<accepted, pending, toProcess, stillPending>>,
             DOMAIN retryStates' = DOMAIN retryStates, DOMAIN posted' = DOMAIN posted
      PROVE  ListsOrdered' /\ KeptHasFailed'
  BY <1>p, <1>7 DEF ListsOrdered, KeptHasFailed, After, Before
<1>8. CASE \E a \in Action : ExecuteAction(a) BY <1>7, <1>8 DEF ExecuteAction, endVars
<1>9. CASE PostChunk BY <1>7, <1>9 DEF PostChunk, Post, loopVars, endVars
<1>10. CASE Elapse BY <1>7, <1>10 DEF Elapse, loopVars, sendVars
<1>11. CASE \/ Stop
            \/ \E c \in Channel : StorePendingInteraction(c) \/ TokenExpires(c)
  BY <1>7, <1>11 DEF Stop, StorePendingInteraction, TokenExpires, loopVars, sendVars, endVars
<1>12. CASE PollLoopReturns BY <1>7, <1>12 DEF PollLoopReturns, sendVars, endVars
<1>13. CASE UNCHANGED outboxVars BY <1>7, <1>13 DEF outboxVars, loopVars, sendVars, endVars
<1> QED BY <1>1, <1>2, <1>3, <1>4, <1>5, <1>6, <1>8, <1>9, <1>10, <1>11, <1>12, <1>13
        DEF Next, OutboxNext, Loop, Sends, Fails, vars

(* Only the head of the tick's list is sent.                               *)
LEMMA OnlyHeadIsPosted ==
  ASSUME OrderInv, [Next]_vars, NEW b \in Action, posted'[b] # posted[b]
  PROVE  toProcess # <<>> /\ b = Head(toProcess)
<1> USE DEF OrderInv, KeptHasFailed
<1>1. CASE PostChunk
  <2>1. b = Head(toProcess) BY <1>1 DEF PostChunk, Post
  <2> QED BY <1>1, <2>1 DEF PostChunk, OutboxInv, ListsOK
<1>2. ASSUME NEW a \in Action, PostLast(a) PROVE toProcess # <<>> /\ b = Head(toProcess)
  <2>1. b = a BY <1>2 DEF PostLast, Post
  <2> QED BY <1>2, <2>1 DEF PostLast, OutboxInv, ListsOK
<1>3. ASSUME NEW a \in Action, NEW error \in {"client", "other"}, HandleActionError(a, error)
      PROVE  toProcess # <<>> /\ b = Head(toProcess)
  <2>1. b = a BY <1>3 DEF HandleActionError, Post
  <2> QED BY <1>3, <2>1 DEF HandleActionError, OutboxInv, ListsOK
<1> QED BY <1>1, <1>2, <1>3
        DEF Next, OutboxNext, Loop, Sends, Fails, vars, outboxVars, sendVars, Snapshot, Skip,
            ExecuteAction, PutBack, PollLoopReturns, Elapse, Stop, Submit,
            StorePendingInteraction, TokenExpires

(* A message overtakes one that was submitted before it only while the     *)
(* earlier one is kept by this tick for a later one, after a failure.      *)
THEOREM OvertakingIsRetrying == Spec => OvertakenOnlyWhileRetrying
<1>1. ASSUME OrderInv, [Next]_vars,
             NEW a \in Elements(accepted), NEW b \in Elements(accepted),
             Before(a, b), posted'[b] # posted[b], a \notin DOMAIN settled
      PROVE  a \in DOMAIN retryStates /\ a \in Elements(stillPending)
  <2> USE DEF OrderInv
  <2>1. a \in Action /\ b \in Action BY <1>1 DEF OutboxInv, ListsOK, Elements
  <2>2. toProcess # <<>> /\ b = Head(toProcess) BY <1>1, <2>1, OnlyHeadIsPosted
  <2>3. /\ Elements(toProcess) = {b} \cup Elements(Tail(toProcess))
        /\ toProcess \in Seq(Action)
    BY <1>1, <2>2, HeadOfTick DEF OutboxInv, ListsOK
  <2>4. a \notin After[b]
    <3>1. PICK i, j \in DOMAIN accepted : i < j /\ accepted[i] = a /\ accepted[j] = b
      BY <1>1 DEF Before
    <3>2. i \in Nat /\ j \in Nat BY <1>1, <3>1 DEF OutboxInv, ListsOK
    <3>3. ASSUME NEW k \in DOMAIN accepted, NEW l \in DOMAIN accepted,
                 k < l, accepted[k] = b, accepted[l] = a
          PROVE  FALSE
      <4>1. k = j /\ l = i BY <1>1, <3>1, <3>3 DEF ListsOrdered, Injective
      <4> QED BY <3>1, <3>2, <3>3, <4>1
    <3> QED BY <2>1, <3>3 DEF After, Before
  <2>5. a # b
    <3>1. PICK i, j \in DOMAIN accepted : i < j /\ accepted[i] = a /\ accepted[j] = b
      BY <1>1 DEF Before
    <3>2. i \in Nat /\ j \in Nat BY <1>1, <3>1 DEF OutboxInv, ListsOK
    <3> QED BY <1>1, <3>1, <3>2 DEF ListsOrdered, Injective
  <2>6. a \notin Elements(Tail(toProcess))
    <3>1. AllBefore({b}, Elements(Tail(toProcess)), After)
      BY <1>1, <2>2, <2>3, OrderedTail DEF ListsOrdered
    <3> QED BY <2>4, <3>1 DEF AllBefore
  <2>7. a \notin Elements(pending) BY <1>1, <2>3, <2>4 DEF ListsOrdered, AllBefore
  <2>8. a \in Elements(stillPending)
    BY <1>1, <2>3, <2>5, <2>6, <2>7 DEF OutboxInv, Ledger, InTick
  <2> QED BY <1>1, <2>8 DEF KeptHasFailed
<1>2. OrderInv /\ [Next]_vars
        => [ \A a, b \in Elements(accepted) :
               (/\ Before(a, b) /\ To[a] = To[b]
                /\ posted'[b] # posted[b] /\ a \notin DOMAIN settled)
               => a \in DOMAIN retryStates /\ a \in Elements(stillPending) ]_vars
  BY <1>1
<1> QED BY <1>2, OrderInvInit, OrderInvStep, PTL DEF Spec, OvertakenOnlyWhileRetrying

-----------------------------------------------------------------------------
(***************************************************************************)
(* Cutting a message: every round's chunk and rest are texts, whatever the *)
(* message, so that the chunks to send are a sequence with a last one.     *)
(***************************************************************************)
LEMMA GreatestIsThere ==
  ASSUME NEW n \in Nat, NEW S \in SUBSET (0 .. n), S # {}
  PROVE  Greatest(S) \in S /\ \A j \in S : j <= Greatest(S)
BY GreatestElement DEF Greatest

LEMMA LeastIsThere ==
  ASSUME NEW S \in SUBSET Nat, S # {}
  PROVE  Least(S) \in S /\ \A j \in S : Least(S) <= j
BY LeastElement DEF Least

Text == Seq(Mark)

LEMMA Parts ==
  ASSUME NEW text \in Text, NEW i \in 0 .. Len(text)
  PROVE  /\ From(text, i) \in Text /\ Len(From(text, i)) = Len(text) - i
         /\ Upto(text, i) \in Text /\ Len(Upto(text, i)) = i
         /\ \A k \in i .. Len(text) : SubSeq(text, i + 1, k) \in Text
<1>1. Len(text) \in Nat /\ \A k \in 1 .. Len(text) : text[k] \in Mark
  BY DEF Text
<1>2. From(text, i) \in Text /\ Len(From(text, i)) = Len(text) - i
  <2>1. \A k \in i + 1 .. Len(text) : text[k] \in Mark BY <1>1
  <2> QED BY <1>1, <2>1, SubSeqProperties DEF From, Text
<1>3. Upto(text, i) \in Text /\ Len(Upto(text, i)) = i
  <2>1. \A k \in 1 .. i : text[k] \in Mark BY <1>1
  <2> QED BY <1>1, <2>1, SubSeqProperties DEF Upto, Text
<1>4. ASSUME NEW k \in i .. Len(text) PROVE SubSeq(text, i + 1, k) \in Text
  <2>1. \A l \in i + 1 .. k : text[l] \in Mark BY <1>1
  <2> QED BY <1>1, <2>1, SubSeqProperties DEF Text
<1> QED BY <1>2, <1>3, <1>4

LEMMA TrimmedParts ==
  ASSUME NEW text \in Text
  PROVE  /\ TrimLeft(text) \in Text /\ Len(TrimLeft(text)) <= Len(text)
         /\ TrimRight(text) \in Text /\ Len(TrimRight(text)) <= Len(text)
<1>1. Len(text) \in Nat /\ DOMAIN text = 1 .. Len(text) /\ <<>> \in Text /\ Len(<<>>) = 0
  BY DEF Text
<1>2. CASE Solid(text) = {} BY <1>1, <1>2 DEF TrimLeft, TrimRight
<1>3. CASE Solid(text) # {}
  <2>1. Solid(text) \in SUBSET (0 .. Len(text)) /\ Solid(text) \in SUBSET (1 .. Len(text))
    BY <1>1 DEF Solid
  <2>2. Greatest(Solid(text)) \in 1 .. Len(text) BY <1>1, <1>3, <2>1, GreatestIsThere
  <2>3. Least(Solid(text)) \in 1 .. Len(text) BY <1>1, <1>3, <2>1, LeastIsThere
  <2> DEFINE g == Greatest(Solid(text))
             l == Least(Solid(text)) - 1
  <2>4. g \in 0 .. Len(text) /\ l \in 0 .. Len(text) BY <1>1, <2>2, <2>3
  <2>5. TrimLeft(text) = From(text, l) /\ TrimRight(text) = Upto(text, g)
    BY <1>3 DEF TrimLeft, TrimRight
  <2> HIDE DEF g, l
  <2>6. /\ From(text, l) \in Text /\ Len(From(text, l)) = Len(text) - l
        /\ Upto(text, g) \in Text /\ Len(Upto(text, g)) = g
    BY <2>4, Parts
  <2> QED BY <1>1, <2>4, <2>5, <2>6
<1> QED BY <1>2, <1>3

(* A line of a text is a text.                                             *)
LEMMA LinesAreTexts ==
  ASSUME NEW text \in Text, NEW i \in LineStarts(text)
  PROVE  LineEnd(text, i) \in i .. Len(text) /\ Line(text, i) \in Text
<1>1. Len(text) \in Nat /\ i \in 0 .. Len(text) BY DEF Text, LineStarts
<1>2. LineEnd(text, i) \in i .. Len(text)
  <2> DEFINE ends == {j \in i .. Len(text) - 1 : text[j + 1] = "nl"}
  <2>1. CASE ends = {} BY <1>1, <2>1 DEF LineEnd
  <2>2. CASE ends # {}
    <3>1. ends \in SUBSET Nat BY <1>1
    <3>2. LineEnd(text, i) = Least(ends) BY <2>2 DEF LineEnd
    <3>3. ends \subseteq i .. Len(text) BY <1>1
    <3> HIDE DEF ends
    <3>4. Least(ends) \in ends BY <2>2, <3>1, LeastIsThere
    <3> QED BY <3>2, <3>3, <3>4
  <2> QED BY <2>1, <2>2
<1>3. SubSeq(text, i + 1, LineEnd(text, i)) \in Text BY <1>1, <1>2, Parts
<1> QED BY <1>2, <1>3, TrimmedParts DEF Line

LEMMA SplitPointInText ==
  ASSUME NEW text \in Text, NEW max \in Nat \ {0}
  PROVE  /\ FindSplitPoint(text, max) \in 0 .. Len(text) /\ FindSplitPoint(text, max) <= max
         /\ Len(text) > max => FindSplitPoint(text, max) = max \/ FindSplitPoint(text, max) > (max \div 2) + 1
<1>1. Len(text) \in Nat BY DEF Text
<1> DEFINE tries == Tries(text, max)
           first == CHOOSE k \in 1 .. 4 : tries[k] # {} /\ \A l \in 1 .. k - 1 : tries[l] = {}
           late == {i \in 0 .. max : i = max \/ i > (max \div 2) + 1}
<1>2. CASE Len(text) <= max BY <1>1, <1>2 DEF FindSplitPoint
<1>3. CASE Len(text) > max
  <2>1. FindSplitPoint(text, max) = Greatest(tries[first]) BY <1>1, <1>3 DEF FindSplitPoint
  <2>2. \A k \in 1 .. 4 : tries[k] \in SUBSET late
    <3>1. ASSUME NEW pattern, Len(pattern) \in Nat \ {0}
          PROVE  Ends(text, max, pattern) \in SUBSET late
      <4>1. max \div 2 \in Nat
        OBVIOUS
      <4>2. ASSUME NEW j \in (max \div 2) + 1 .. max - Len(pattern) PROVE j + Len(pattern) \in late
        BY <3>1, <4>1
      <4> HIDE DEF late
      <4> QED BY <4>2 DEF Ends
    <3>2. /\ Len(<<"nl", "nl">>) = 2 /\ Len(<<"nl">>) = 1 /\ Len(<<" ">>) = 1
          /\ {max} \in SUBSET late
      OBVIOUS
    <3>3. /\ tries[1] = Ends(text, max, <<"nl", "nl">>) /\ tries[2] = Ends(text, max, <<"nl">>)
          /\ tries[3] = Ends(text, max, <<" ">>) /\ tries[4] = {max}
      BY DEF Tries
    <3> HIDE DEF tries, late
    <3>4. ASSUME NEW k \in 1 .. 4 PROVE tries[k] \in SUBSET late
      <4>1. k = 1 \/ k = 2 \/ k = 3 \/ k = 4
        OBVIOUS
      <4> QED BY <3>1, <3>2, <3>3, <4>1
    <3> QED BY <3>4
  <2>3. tries[4] # {} BY DEF Tries
  <2> HIDE DEF tries
  <2>4. \E k \in 1 .. 4 : tries[k] # {} /\ \A l \in 1 .. k - 1 : tries[l] = {}
    <3> DEFINE hits == {k \in 1 .. 4 : tries[k] # {}}
    <3>1. hits \in SUBSET Nat /\ 4 \in hits BY <2>3
    <3> HIDE DEF hits
    <3>2. PICK k \in hits : \A l \in hits : k <= l BY <3>1, LeastElement
    <3>3. \A l \in 1 .. 4 : l \in hits <=> tries[l] # {} BY DEF hits
    <3>4. k \in 1 .. 4 BY <3>2 DEF hits
    <3>5. \A l \in 1 .. k - 1 : l \in 1 .. 4 /\ ~(k <= l) BY <3>4
    <3> QED BY <3>2, <3>3, <3>4, <3>5
  <2>5. first \in 1 .. 4 /\ tries[first] # {} BY <2>4
  <2> HIDE DEF first
  <2>6. tries[first] \in SUBSET (0 .. max) BY <2>2, <2>5
  <2>7. Greatest(tries[first]) \in late BY <2>2, <2>5, <2>6, GreatestIsThere
  <2> QED BY <1>1, <1>3, <2>1, <2>7
<1> QED BY <1>1, <1>2, <1>3


LEMMA AFenceIsOpen == ASSUME NEW text \in Text, InFence(text) PROVE Fences(text) # {}
<1>1. Cardinality({}) = 0 BY FS_EmptySet
<1>2. 0 % 2 = 0
  OBVIOUS
<1>3. Cardinality(Fences(text)) % 2 = 1 BY DEF InFence
<1>4. ASSUME Fences(text) = {} PROVE FALSE
  <2>1. Cardinality(Fences(text)) = 0 BY <1>1, <1>4
  <2> HIDE DEF Fences
  <2> QED BY <1>2, <1>3, <2>1
<1> QED BY <1>4

LEMMA OpenFenceIsText ==
  ASSUME NEW text \in Text, InFence(text)
  PROVE  OpenFence(text) \in Text
<1>1. Fences(text) # {} BY AFenceIsOpen
<1>2. Len(text) \in Nat BY DEF Text
<1>3. Fences(text) \in SUBSET (0 .. Len(text)) /\ Fences(text) \subseteq LineStarts(text)
  BY <1>2 DEF Fences, LineStarts
<1>4. Greatest(Fences(text)) \in LineStarts(text) BY <1>1, <1>2, <1>3, GreatestIsThere
<1>5. Line(text, Greatest(Fences(text))) \in Text BY <1>4, LinesAreTexts
<1> QED BY <1>5, TrimmedParts DEF OpenFence

LEMMA SplitsAreTexts ==
  ASSUME NEW text \in Text
  PROVE  /\ SplitCodeFenceAware(text).chunk \in Text
         /\ SplitCodeFenceAware(text).rest \in Text
         /\ SplitCodeFenceAware(text).open \in Text
<1> DEFINE cut(i, open) == [chunk |-> Upto(text, i), rest |-> From(text, i), open |-> open]
           room == IF MaxLength - Len(Closing) < 1 THEN 1 ELSE MaxLength - Len(Closing)
<1>1. Len(text) \in Nat /\ <<>> \in Text BY DEF Text
<1>2. ASSUME NEW i \in 0 .. Len(text), NEW open \in Text
      PROVE  cut(i, open).chunk \in Text /\ cut(i, open).rest \in Text /\ cut(i, open).open \in Text
  <2>1. From(text, i) \in Text /\ Upto(text, i) \in Text BY <1>2, Parts
  <2> QED BY <1>2, <2>1
<1>3. CASE CleanEnds(text) # {}
  <2>1. CleanEnds(text) \in SUBSET (0 .. Len(text))
    <3>1. ASSUME NEW i \in LineStarts(text) PROVE AfterLine(text, i) \in 0 .. Len(text)
      <4>1. LineEnd(text, i) \in i .. Len(text) /\ i \in 0 .. Len(text)
        BY <1>1, <3>1, LinesAreTexts DEF LineStarts
      <4> QED BY <1>1, <4>1 DEF AfterLine
    <3> QED BY <3>1 DEF CleanEnds, Fences
  <2>2. Greatest(CleanEnds(text)) \in 0 .. Len(text) BY <1>1, <1>3, <2>1, GreatestIsThere
  <2>3. SplitCodeFenceAware(text) = cut(Greatest(CleanEnds(text)), <<>>)
    BY <1>3 DEF SplitCodeFenceAware
  <2> HIDE DEF cut
  <2> QED BY <1>1, <1>2, <2>2, <2>3
<1>4. CASE CleanEnds(text) = {} /\ InFence(text)
  <2>1. room \in Nat \ {0}
    <3>1. Len(Closing) = 2 BY DEF Closing
    <3> QED BY <3>1, ChunkConstants
  <2>2. SplitCodeFenceAware(text) = cut(FindSplitPoint(text, room), OpenFence(text))
    BY <1>4 DEF SplitCodeFenceAware
  <2> HIDE DEF cut, room
  <2>3. FindSplitPoint(text, room) \in 0 .. Len(text) BY <2>1, SplitPointInText
  <2> QED BY <1>2, <1>4, <2>2, <2>3, OpenFenceIsText
<1>5. CASE CleanEnds(text) = {} /\ ~InFence(text)
  <2>1. SplitCodeFenceAware(text) = cut(FindSplitPoint(text, MaxLength), <<>>)
    BY <1>5 DEF SplitCodeFenceAware
  <2> HIDE DEF cut
  <2>2. FindSplitPoint(text, MaxLength) \in 0 .. Len(text) BY SplitPointInText, ChunkConstants
  <2> QED BY <1>1, <1>2, <2>1, <2>2
<1> QED BY <1>3, <1>4, <1>5

LEMMA CutsAreTexts ==
  ASSUME NEW text \in Text
  PROVE  Cut(text).chunk \in Text /\ Cut(text).rest \in Text
<1> DEFINE split == SplitCodeFenceAware(text)
           chunk == IF split.open = <<>> THEN split.chunk ELSE split.chunk \o Closing
           rest == IF split.open = <<>> THEN split.rest ELSE split.open \o <<"nl">> \o split.rest
<1>1. split.chunk \in Text /\ split.rest \in Text /\ split.open \in Text BY SplitsAreTexts
<1>2. Closing \in Text /\ <<"nl">> \in Text /\ <<>> \in Text
  <2>1. "nl" \in Mark /\ "fence" \in Mark BY DEF Mark
  <2>2. \A x, y \in Mark : <<x, y>> \in Seq(Mark) /\ <<x>> \in Seq(Mark)
    OBVIOUS
  <2> QED BY <2>1, <2>2 DEF Closing, Text
<1>3. chunk \in Text /\ rest \in Text
  <2>1. \A s, t \in Text : s \o t \in Text BY DEF Text
  <2> HIDE DEF split
  <2> QED BY <1>1, <1>2, <2>1
<1>4. Cut(text) = IF Len(text) <= MaxLength THEN [chunk |-> text, rest |-> <<>>]
                  ELSE [chunk |-> TrimRight(chunk), rest |-> TrimLeft(rest)]
  BY DEF Cut
<1> HIDE DEF chunk, rest
<1> QED BY <1>2, <1>3, <1>4, TrimmedParts

(* What the rounds have cut off so far, and what is left.                  *)
Progress == [chunks : Seq(Text), rest : Text]
NextRound(n, before) ==
  IF n > 1 /\ before.rest = <<>> THEN before
  ELSE [chunks |-> Append(before.chunks, Cut(before.rest).chunk), rest |-> Cut(before.rest).rest]

LEMMA RoundsAdvance ==
  ASSUME NEW text \in Text
  PROVE  /\ Rounds(text)[0] = [chunks |-> <<>>, rest |-> text]
         /\ \A n \in Nat : Rounds(text)[n + 1] = NextRound(n + 1, Rounds(text)[n])
<1> DEFINE start == [chunks |-> <<>>, rest |-> text]
           g == [n \in Nat |-> [p \in Progress |-> NextRound(n, p)]]
           body(f) == [n \in Nat |-> IF n = 0 THEN start ELSE NextRound(n, f[n - 1])]
<1>1. start \in Progress BY DEF Progress
<1>2. ASSUME NEW n \in Nat, NEW p \in Progress PROVE NextRound(n, p) \in Progress
  <2>1. p.chunks \in Seq(Text) /\ p.rest \in Text BY DEF Progress
  <2>2. Cut(p.rest).chunk \in Text /\ Cut(p.rest).rest \in Text BY <2>1, CutsAreTexts
  <2>3. Append(p.chunks, Cut(p.rest).chunk) \in Seq(Text) BY <2>1, <2>2
  <2> QED BY <2>2, <2>3 DEF NextRound, Progress
<1>3. g \in [Nat -> [Progress -> Progress]] BY <1>2
<1>4. \A n \in Nat, p \in Progress : g[n][p] = NextRound(n, p)
  OBVIOUS
<1> HIDE DEF g, start
<1>5. PICK f : Follows(f, Progress, start, g) BY <1>1, <1>3, Recursion
<1>6. f = body(f)
  <2>0. /\ f \in [Nat -> Progress] /\ f[0] = start
        /\ \A n \in Nat : f[n + 1] = g[n + 1][f[n]]
    BY <1>5 DEF Follows
  <2>1. ASSUME NEW n \in Nat PROVE f[n] = body(f)[n]
    <3>1. CASE n = 0 BY <2>0, <3>1
    <3>2. CASE n # 0
      <4>1. n - 1 \in Nat /\ (n - 1) + 1 = n BY <3>2
      <4>2. f[n] = g[n][f[n - 1]] BY <2>0, <4>1
      <4> QED BY <1>4, <2>0, <3>2, <4>1, <4>2
    <3> QED BY <3>1, <3>2
  <2> QED BY <2>0, <2>1
<1>7. Rounds(text) = CHOOSE r : r = body(r) BY DEF Rounds, NextRound, start
<1>8. Rounds(text) = body(Rounds(text)) BY <1>6, <1>7
<1> HIDE DEF body
<1>9. Rounds(text)[0] = start BY <1>8 DEF body
<1>10. ASSUME NEW n \in Nat PROVE Rounds(text)[n + 1] = NextRound(n + 1, Rounds(text)[n])
  <2>1. n + 1 \in Nat /\ n + 1 # 0 /\ (n + 1) - 1 = n
    OBVIOUS
  <2> QED BY <1>8, <2>1 DEF body
<1> QED BY <1>9, <1>10 DEF start

(* The first round cuts something off, be it nothing but the end of the    *)
(* message, and no round takes a chunk back.                               *)
LEMMA ChunksToSend ==
  ASSUME NEW text \in Text
  PROVE  ChunkMessage(text).chunks \in Seq(Text) /\ Len(ChunkMessage(text).chunks) >= 1
<1> DEFINE r == Rounds(text)
           S == {n \in Nat : r[n] \in Progress /\ (n > 0 => Len(r[n].chunks) >= 1)}
<1>1. r[0] = [chunks |-> <<>>, rest |-> text] /\ \A n \in Nat : r[n + 1] = NextRound(n + 1, r[n])
  BY RoundsAdvance
<1> HIDE DEF r
<1>2. 0 \in S
  <2>1. <<>> \in Seq(Text)
    OBVIOUS
  <2>2. r[0] \in Progress BY <1>1, <2>1 DEF Progress
  <2> QED BY <2>2
<1>3. ASSUME NEW n \in Nat, n \in S PROVE n + 1 \in S
  <2>1. r[n].chunks \in Seq(Text) /\ r[n].rest \in Text /\ r[n] \in Progress BY <1>3 DEF Progress
  <2>2. Cut(r[n].rest).chunk \in Text /\ Cut(r[n].rest).rest \in Text BY <2>1, CutsAreTexts
  <2>3. CASE n + 1 > 1 /\ r[n].rest = <<>>
    <3>1. r[n + 1] = r[n] BY <1>1, <2>3 DEF NextRound
    <3> QED BY <1>3, <2>1, <2>3, <3>1
  <2>4. CASE ~(n + 1 > 1 /\ r[n].rest = <<>>)
    <3>1. r[n + 1] = [chunks |-> Append(r[n].chunks, Cut(r[n].rest).chunk), rest |-> Cut(r[n].rest).rest]
      BY <1>1, <2>4 DEF NextRound
    <3>2. Append(r[n].chunks, Cut(r[n].rest).chunk) \in Seq(Text)
          /\ Len(Append(r[n].chunks, Cut(r[n].rest).chunk)) >= 1
      BY <2>1, <2>2
    <3>3. r[n + 1] \in Progress BY <2>2, <3>1, <3>2 DEF Progress
    <3> QED BY <3>1, <3>2, <3>3
  <2> QED BY <2>3, <2>4
<1> HIDE DEF S
<1>4. Nat \subseteq S BY <1>2, <1>3, NaturalsBySteps
<1>5. Len(text) + 1 \in Nat /\ Len(text) + 1 > 0 BY DEF Text
<1>6. Len(text) + 1 \in S BY <1>4, <1>5
<1> QED BY <1>5, <1>6 DEF S, r, ChunkMessage, Progress


-----------------------------------------------------------------------------
(***************************************************************************)
(* The letters of a text, cut in two or without the blanks at its ends.    *)
(***************************************************************************)
Xs(text) == {i \in DOMAIN text : text[i] = "x"}

LEMMA LettersCounted ==
  ASSUME NEW text \in Text
  PROVE  IsFiniteSet(Xs(text)) /\ Letters(text) = Cardinality(Xs(text)) /\ Letters(text) \in Nat
<1>1. Len(text) \in Nat /\ DOMAIN text = 1 .. Len(text) BY DEF Text
<1>2. IsFiniteSet(1 .. Len(text)) BY <1>1, FS_Interval
<1>3. IsFiniteSet(Xs(text)) BY <1>1, <1>2, FS_Subset DEF Xs
<1>4. Letters(text) = Cardinality(Xs(text)) BY DEF Letters, Xs
<1> QED BY <1>3, <1>4, FS_CardinalityType

LEMMA NoLetters ==
  ASSUME NEW text \in Text, \A i \in DOMAIN text : text[i] # "x"
  PROVE  Letters(text) = 0
<1>1. Xs(text) = {} BY DEF Xs
<1> QED BY <1>1, LettersCounted, FS_EmptySet

LEMMA LettersAdd ==
  ASSUME NEW s \in Text, NEW t \in Text
  PROVE  s \o t \in Text /\ Letters(s \o t) = Letters(s) + Letters(t)
<1> DEFINE n == Len(s)
           moved == {i + n : i \in Xs(t)}
           shift == [i \in Xs(t) |-> i + n]
<1>1. /\ s \o t \in Text /\ n \in Nat /\ Len(t) \in Nat /\ Len(s \o t) = n + Len(t)
      /\ \A i \in 1 .. n : (s \o t)[i] = s[i]
      /\ \A i \in 1 .. Len(t) : (s \o t)[i + n] = t[i]
      /\ DOMAIN s = 1 .. n /\ DOMAIN t = 1 .. Len(t)
      /\ DOMAIN (s \o t) = 1 .. n + Len(t)
  BY DEF Text
<1> HIDE DEF n
<1>2. Xs(s \o t) = Xs(s) \cup moved
  <2>1. ASSUME NEW i \in Xs(s \o t) PROVE i \in Xs(s) \cup moved
    <3>1. i \in 1 .. n + Len(t) /\ (s \o t)[i] = "x" BY <1>1, <2>1 DEF Xs
    <3>2. CASE i \in 1 .. n BY <1>1, <3>1, <3>2 DEF Xs
    <3>3. CASE i \notin 1 .. n
      <4>1. i - n \in 1 .. Len(t) /\ (i - n) + n = i BY <1>1, <3>1, <3>3
      <4>2. i - n \in Xs(t) BY <1>1, <3>1, <4>1 DEF Xs
      <4> QED BY <4>1, <4>2
    <3> QED BY <3>2, <3>3
  <2>2. ASSUME NEW i \in Xs(s) PROVE i \in Xs(s \o t)
    <3>1. i \in 1 .. n /\ s[i] = "x" BY <1>1, <2>2 DEF Xs
    <3>2. i \in 1 .. n + Len(t) BY <1>1, <3>1
    <3> QED BY <1>1, <3>1, <3>2 DEF Xs
  <2>3. ASSUME NEW i \in Xs(t) PROVE i + n \in Xs(s \o t)
    <3>1. i \in 1 .. Len(t) /\ t[i] = "x" BY <1>1, <2>3 DEF Xs
    <3>2. i + n \in 1 .. n + Len(t) BY <1>1, <3>1
    <3> QED BY <1>1, <3>1, <3>2 DEF Xs
  <2> QED BY <2>1, <2>2, <2>3
<1>3. Xs(s) \cap moved = {}
  <2>1. \A i \in Xs(t) : i + n > n BY <1>1 DEF Xs
  <2>2. \A i \in Xs(s) : i <= n BY <1>1 DEF Xs
  <2>3. \A i \in Xs(t) : i + n \notin Xs(s) BY <1>1, <2>1, <2>2 DEF Xs
  <2> QED BY <2>3
<1>4. /\ IsFiniteSet(Xs(s)) /\ IsFiniteSet(Xs(t)) /\ Letters(s) = Cardinality(Xs(s))
      /\ Letters(t) = Cardinality(Xs(t)) /\ Letters(s \o t) = Cardinality(Xs(s \o t))
      /\ Letters(s) \in Nat /\ Letters(t) \in Nat
  BY <1>1, LettersCounted
<1>5. shift \in Bijection(Xs(t), moved)
  <2>1. \A i \in Xs(t) : i \in Int BY <1>1 DEF Xs
  <2>2. \A i, j \in Xs(t) : i + n = j + n => i = j BY <1>1, <2>1
  <2>3. shift \in [Xs(t) -> moved]
    OBVIOUS
  <2>4. \A m \in moved : \E i \in Xs(t) : shift[i] = m
    OBVIOUS
  <2> QED BY <2>2, <2>3, <2>4 DEF Bijection, Injection, Surjection, IsInjective
<1>6. IsFiniteSet(moved) /\ Cardinality(moved) = Cardinality(Xs(t))
  <2>1. ExistsBijection(Xs(t), moved) BY <1>5 DEF ExistsBijection
  <2> HIDE DEF moved, shift
  <2> QED BY <1>4, <2>1, FS_Bijection
<1>7. IsFiniteSet(Xs(s) \cap moved) /\ Cardinality(Xs(s) \cap moved) = 0 BY <1>3, FS_EmptySet
<1> HIDE DEF moved
<1>8. Cardinality(Xs(s) \cup moved) = Cardinality(Xs(s)) + Cardinality(moved)
  <2>1. Cardinality(Xs(s) \cup moved) = Cardinality(Xs(s)) + Cardinality(moved) - Cardinality(Xs(s) \cap moved)
    BY <1>4, <1>6, FS_Union
  <2> QED BY <1>4, <1>6, <1>7, <2>1
<1> QED BY <1>1, <1>2, <1>4, <1>6, <1>8

(* A text is what is before a cut and what is after it. *)
LEMMA CutInTwo ==
  ASSUME NEW text \in Text, NEW i \in 0 .. Len(text)
  PROVE  /\ Upto(text, i) \o From(text, i) = text
         /\ \A k \in 1 .. i : Upto(text, i)[k] = text[k]
         /\ \A k \in 1 .. Len(text) - i : From(text, i)[k] = text[i + k]
         /\ Letters(text) = Letters(Upto(text, i)) + Letters(From(text, i))
<1>1. Len(text) \in Nat /\ \A k \in 1 .. Len(text) : text[k] \in Mark
  BY DEF Text
<1>2. /\ From(text, i) \in Text /\ Len(From(text, i)) = Len(text) - i
      /\ Upto(text, i) \in Text /\ Len(Upto(text, i)) = i
  BY Parts
<1>3. \A k \in 1 .. i : Upto(text, i)[k] = text[k]
  <2>1. \A k \in 1 .. i : text[k] \in Mark BY <1>1
  <2> QED BY <1>1, <2>1, SubSeqProperties DEF Upto
<1>4. \A k \in 1 .. Len(text) - i : From(text, i)[k] = text[i + k]
  <2>1. \A k \in i + 1 .. Len(text) : text[k] \in Mark BY <1>1
  <2> QED BY <1>1, <2>1, SubSeqProperties DEF From
<1>5. Upto(text, i) \o From(text, i) = text
  <2> DEFINE whole == Upto(text, i) \o From(text, i)
  <2>1. whole \in Text /\ Len(whole) = Len(text) BY <1>1, <1>2 DEF Text
  <2>2. ASSUME NEW k \in 1 .. Len(text) PROVE whole[k] = text[k]
    <3>1. CASE k \in 1 .. i BY <1>1, <1>2, <1>3, <3>1 DEF Text
    <3>2. CASE k \notin 1 .. i
      <4>1. k - i \in 1 .. Len(text) - i /\ i + (k - i) = k BY <1>1, <3>2
      <4>2. whole[i + (k - i)] = From(text, i)[k - i] BY <1>2, <4>1 DEF Text
      <4> QED BY <1>4, <4>1, <4>2
    <3> QED BY <3>1, <3>2
  <2> HIDE DEF whole
  <2>3. whole = text BY <2>1, <2>2, SeqEqual DEF Text
  <2> QED BY <2>3 DEF whole
<1>6. Letters(text) = Letters(Upto(text, i)) + Letters(From(text, i)) BY <1>2, <1>5, LettersAdd
<1> QED BY <1>3, <1>4, <1>5, <1>6

(* Trimming takes blanks, so no letter, and leaves a text that begins or   *)
(* ends with a mark that is not blank.                                     *)
LEMMA TrimKeepsLetters ==
  ASSUME NEW text \in Text
  PROVE  /\ Letters(TrimLeft(text)) = Letters(text) /\ Letters(TrimRight(text)) = Letters(text)
         /\ TrimLeft(text) = <<>> \/ TrimLeft(text)[1] \notin Blank
         /\ \E l \in 0 .. Len(text) : TrimLeft(text) = From(text, l)
         /\ \E g \in 0 .. Len(text) : TrimRight(text) = Upto(text, g)
         /\ \A i \in DOMAIN text : text[i] \notin Blank =>
              i \in DOMAIN TrimRight(text) /\ TrimRight(text)[i] = text[i]
<1>1. Len(text) \in Nat /\ DOMAIN text = 1 .. Len(text) /\ <<>> \in Text /\ Len(<<>>) = 0
  BY DEF Text
<1>2. CASE Solid(text) = {}
  <2>1. TrimLeft(text) = <<>> /\ TrimRight(text) = <<>> BY <1>2 DEF TrimLeft, TrimRight
  <2>2. \A i \in DOMAIN text : text[i] \in Blank BY <1>2 DEF Solid
  <2>3. Letters(text) = 0 BY <2>2, NoLetters DEF Blank
  <2>4. Letters(<<>>) = 0 BY <1>1, NoLetters
  <2>5. Len(text) \in 0 .. Len(text) /\ 0 \in 0 .. Len(text) BY <1>1
  <2>6. From(text, Len(text)) = <<>> /\ Upto(text, 0) = <<>>
    <3>1. Len(From(text, Len(text))) = 0 /\ Len(Upto(text, 0)) = 0
          /\ From(text, Len(text)) \in Text /\ Upto(text, 0) \in Text
      BY <1>1, <2>5, Parts
    <3> QED BY <3>1, EmptySeq DEF Text
  <2> QED BY <2>1, <2>2, <2>3, <2>4, <2>5, <2>6
<1>3. CASE Solid(text) # {}
  <2> DEFINE g == Greatest(Solid(text))
             l == Least(Solid(text)) - 1
  <2>1. Solid(text) \in SUBSET (0 .. Len(text)) /\ Solid(text) \in SUBSET Nat
    BY <1>1 DEF Solid
  <2>2. g \in Solid(text) /\ \A j \in Solid(text) : j <= g BY <1>1, <1>3, <2>1, GreatestIsThere
  <2>3. l \in Int /\ l + 1 \in Solid(text) /\ \A j \in Solid(text) : l + 1 <= j
    <3>1. Least(Solid(text)) \in Solid(text) /\ \A j \in Solid(text) : Least(Solid(text)) <= j
      BY <1>3, <2>1, LeastIsThere
    <3>2. Least(Solid(text)) \in Nat BY <2>1, <3>1
    <3>3. l + 1 = Least(Solid(text)) /\ l \in Int BY <3>2
    <3> HIDE DEF l
    <3> QED BY <3>1, <3>3
  <2>6. TrimLeft(text) = From(text, l) /\ TrimRight(text) = Upto(text, g)
    BY <1>3 DEF TrimLeft, TrimRight
  <2> HIDE DEF g, l
  <2>4. g \in 1 .. Len(text) /\ l + 1 \in 1 .. Len(text) BY <1>1, <2>2, <2>3 DEF Solid
  <2>5. g \in 0 .. Len(text) /\ l \in 0 .. Len(text) BY <1>1, <2>3, <2>4
  <2>7. /\ From(text, l) \in Text /\ Upto(text, l) \in Text /\ Len(Upto(text, l)) = l
        /\ Upto(text, g) \in Text /\ Len(Upto(text, g)) = g
        /\ From(text, g) \in Text /\ Len(From(text, g)) = Len(text) - g
        /\ Len(From(text, l)) = Len(text) - l
    BY <2>5, Parts
  <2>8. /\ \A k \in 1 .. l : Upto(text, l)[k] = text[k]
        /\ \A k \in 1 .. Len(text) - l : From(text, l)[k] = text[l + k]
        /\ Letters(text) = Letters(Upto(text, l)) + Letters(From(text, l))
    BY <2>5, CutInTwo
  <2>9. /\ \A k \in 1 .. g : Upto(text, g)[k] = text[k]
        /\ \A k \in 1 .. Len(text) - g : From(text, g)[k] = text[g + k]
        /\ Letters(text) = Letters(Upto(text, g)) + Letters(From(text, g))
    BY <2>5, CutInTwo
  <2>10. Letters(Upto(text, l)) = 0
    <3>1. ASSUME NEW k \in 1 .. l PROVE text[k] \in Blank
      <4>1. k \in DOMAIN text /\ ~(l + 1 <= k) BY <1>1, <2>3, <2>4, <3>1
      <4> QED BY <2>3, <4>1 DEF Solid
    <3>2. DOMAIN Upto(text, l) = 1 .. l BY <2>7 DEF Text
    <3> QED BY <2>7, <2>8, <3>1, <3>2, NoLetters DEF Blank
  <2>11. Letters(From(text, g)) = 0
    <3>1. ASSUME NEW k \in 1 .. Len(text) - g PROVE text[g + k] \in Blank
      <4>1. g + k \in DOMAIN text /\ ~(g + k <= g) BY <1>1, <2>4, <3>1
      <4> QED BY <2>2, <4>1 DEF Solid
    <3>2. DOMAIN From(text, g) = 1 .. Len(text) - g BY <2>7 DEF Text
    <3> QED BY <2>7, <2>9, <3>1, <3>2, NoLetters DEF Blank
  <2>12. /\ Letters(text) \in Nat /\ Letters(From(text, l)) \in Nat /\ Letters(Upto(text, g)) \in Nat
    BY <2>7, LettersCounted
  <2>13. Letters(From(text, l)) = Letters(text) /\ Letters(Upto(text, g)) = Letters(text)
    BY <2>8, <2>9, <2>10, <2>11, <2>12
  <2>14. From(text, l)[1] \notin Blank
    <3>1. 1 \in 1 .. Len(text) - l BY <1>1, <2>3, <2>4
    <3>2. From(text, l)[1] = text[l + 1] BY <2>8, <3>1
    <3> QED BY <2>3, <3>2 DEF Solid
  <2>15. ASSUME NEW i \in DOMAIN text, text[i] \notin Blank
         PROVE  i \in DOMAIN Upto(text, g) /\ Upto(text, g)[i] = text[i]
    <3>1. i \in Solid(text) BY <2>15 DEF Solid
    <3>2. i \in 1 .. g BY <1>1, <2>2, <2>4, <3>1
    <3> QED BY <2>7, <2>9, <3>2 DEF Text
  <2> QED BY <2>5, <2>6, <2>13, <2>14, <2>15
<1> QED BY <1>2, <1>3

-----------------------------------------------------------------------------
(***************************************************************************)
(* Cuts that come to an end.  A cut inside a code block repeats the line   *)
(* that opened it, so it gains nothing on a text whose fence lines are     *)
(* longer than what a cut takes.  It takes more than half the limit.       *)
(***************************************************************************)
LEMMA HalfIsInt == MaxLength \in Nat /\ Half \in Int /\ (MaxLength >= 5 => Half >= 1 /\ Half + 3 < MaxLength)
BY ChunkConstants DEF Half

LEMMA FencedFrom ==
  ASSUME NEW Tag, NEW text \in Text, Fenced(text, Tag), NEW i \in 0 .. Len(text)
  PROVE  Fenced(From(text, i), Tag)
<1> DEFINE r == From(text, i)
<1>1. Len(text) \in Nat /\ DOMAIN text = 1 .. Len(text) BY DEF Text
<1>2. r \in Text /\ Len(r) = Len(text) - i /\ DOMAIN r = 1 .. Len(text) - i BY Parts DEF Text
<1>3. \A k \in 1 .. Len(text) - i : r[k] = text[i + k] BY CutInTwo
<1> HIDE DEF r
<1>4. ASSUME NEW m \in DOMAIN r, r[m] = "fence"
      PROVE  \E j \in m + 1 .. m + Half : LineOver(r, j) /\ \A k \in m .. j - 1 : r[k] \in Tag
  <2>1. i + m \in DOMAIN text /\ text[i + m] = "fence" BY <1>1, <1>2, <1>3, <1>4
  <2>2. PICK j \in i + m + 1 .. i + m + Half : LineOver(text, j) /\ \A k \in i + m .. j - 1 : text[k] \in Tag
    BY <2>1 DEF Fenced
  <2>3. j - i \in m + 1 .. m + Half /\ i + (j - i) = j BY <1>1, <1>2, <2>2, HalfIsInt
  <2>4. j <= Len(text) + 1 BY <1>1, <2>2 DEF LineOver
  <2>5. LineOver(r, j - i)
    <3>1. CASE j = Len(text) + 1
      <4>1. j - i = Len(r) + 1 BY <1>1, <1>2, <3>1
      <4> QED BY <4>1 DEF LineOver
    <3>2. CASE j \in DOMAIN text /\ text[j] = "nl"
      <4>1. j - i \in 1 .. Len(text) - i BY <1>1, <1>2, <2>3, <3>2
      <4>2. r[j - i] = text[j] BY <1>3, <2>3, <4>1
      <4> QED BY <1>2, <3>2, <4>1, <4>2 DEF LineOver
    <3> QED BY <2>2, <3>1, <3>2 DEF LineOver
  <2>6. ASSUME NEW k \in m .. (j - i) - 1 PROVE r[k] \in Tag
    <3>1. k \in 1 .. Len(text) - i /\ i + k \in i + m .. j - 1 BY <1>1, <1>2, <2>3, <2>4
    <3> QED BY <1>3, <2>2, <3>1
  <2> QED BY <2>3, <2>5, <2>6
<1> QED BY <1>4 DEF Fenced, r

(* Still so with the line of a fence put before it. *)
LEMMA FencedAgain ==
  ASSUME NEW Tag, NEW open \in Text, Len(open) <= Half, \A i \in DOMAIN open : open[i] \in Tag,
         NEW rest \in Text, Fenced(rest, Tag)
  PROVE  /\ open \o <<"nl">> \o rest \in Text
         /\ Len(open \o <<"nl">> \o rest) = Len(open) + 1 + Len(rest)
         /\ Fenced(open \o <<"nl">> \o rest, Tag)
<1> DEFINE whole == open \o <<"nl">> \o rest
           n == Len(open) + 1
<1>1. /\ open \in Seq(Mark) /\ rest \in Seq(Mark) /\ <<"nl">> \in Seq(Mark)
      /\ Len(open) \in Nat /\ Len(rest) \in Nat
      /\ DOMAIN open = 1 .. Len(open) /\ DOMAIN rest = 1 .. Len(rest)
  <2>1. "nl" \in Mark BY DEF Mark
  <2>2. \A x \in Mark : <<x>> \in Seq(Mark)
    OBVIOUS
  <2> QED BY <2>1, <2>2 DEF Text
<1>2. /\ whole \in Seq(Mark) /\ Len(whole) = n + Len(rest) /\ DOMAIN whole = 1 .. n + Len(rest)
      /\ \A k \in 1 .. Len(open) : whole[k] = open[k]
      /\ whole[n] = "nl"
      /\ \A k \in 1 .. Len(rest) : whole[n + k] = rest[k]
  <2> DEFINE opening == open \o <<"nl">>
  <2>1. /\ opening \in Seq(Mark) /\ Len(opening) = n /\ opening[n] = "nl"
        /\ \A k \in 1 .. Len(open) : opening[k] = open[k]
    BY <1>1
  <2>2. whole = opening \o rest
    OBVIOUS
  <2> HIDE DEF opening
  <2>3. /\ whole \in Seq(Mark) /\ Len(whole) = n + Len(rest) /\ DOMAIN whole = 1 .. n + Len(rest)
        /\ \A k \in 1 .. n : whole[k] = opening[k]
        /\ \A k \in 1 .. Len(rest) : whole[n + k] = rest[k]
    BY <1>1, <2>1, <2>2
  <2>4. n \in 1 .. n /\ \A k \in 1 .. Len(open) : k \in 1 .. n BY <1>1
  <2> HIDE DEF whole, n
  <2> QED BY <2>1, <2>3, <2>4
<1>3. n \in Nat /\ n = Len(open) + 1 BY <1>1
<1> HIDE DEF whole, n
<1>4. ASSUME NEW m \in DOMAIN whole, whole[m] = "fence"
      PROVE  \E j \in m + 1 .. m + Half : LineOver(whole, j) /\ \A k \in m .. j - 1 : whole[k] \in Tag
  <2>1. CASE m < n
    <3>1. n \in m + 1 .. m + Half BY <1>1, <1>2, <1>3, <2>1, HalfIsInt
    <3>2. LineOver(whole, n) BY <1>1, <1>2, <1>3 DEF LineOver
    <3>3. ASSUME NEW k \in m .. n - 1 PROVE whole[k] \in Tag
      <4>1. k \in 1 .. Len(open) BY <1>1, <1>2, <1>3
      <4> QED BY <1>1, <1>2, <4>1
    <3> QED BY <3>1, <3>2, <3>3
  <2>2. CASE m > n
    <3>1. m - n \in 1 .. Len(rest) /\ n + (m - n) = m BY <1>1, <1>2, <1>3, <2>2
    <3>2. rest[m - n] = "fence" BY <1>2, <1>4, <3>1
    <3>3. PICK j \in (m - n) + 1 .. (m - n) + Half :
            LineOver(rest, j) /\ \A k \in m - n .. j - 1 : rest[k] \in Tag
      BY <1>1, <3>1, <3>2 DEF Fenced
    <3>4. n + j \in m + 1 .. m + Half /\ j \in 1 .. Len(rest) + 1
      <4>1. n \in Nat /\ m \in Int /\ m - n \in 1 .. Len(rest) /\ Len(rest) \in Nat BY <1>1, <1>2, <1>3, <3>1
      <4>2. j \in Int /\ j > m - n /\ j <= (m - n) + Half BY <3>3, <4>1, HalfIsInt
      <4>3. j <= Len(rest) + 1 BY <1>1, <3>3 DEF LineOver
      <4> QED BY <4>1, <4>2, <4>3, HalfIsInt
    <3>5. LineOver(whole, n + j)
      <4>1. CASE j = Len(rest) + 1
        <5>1. n + j = Len(whole) + 1 BY <1>1, <1>2, <1>3, <4>1
        <5> QED BY <5>1 DEF LineOver
      <4>2. CASE j \in DOMAIN rest /\ rest[j] = "nl"
        <5>1. j \in 1 .. Len(rest) /\ n + j \in 1 .. n + Len(rest) BY <1>1, <1>3, <4>2
        <5> QED BY <1>2, <4>2, <5>1 DEF LineOver
      <4> QED BY <3>3, <4>1, <4>2 DEF LineOver
    <3>6. ASSUME NEW k \in m .. (n + j) - 1 PROVE whole[k] \in Tag
      <4>1. k - n \in m - n .. j - 1 /\ k - n \in 1 .. Len(rest) /\ n + (k - n) = k
        <5>1. n \in Nat /\ m \in Int /\ m - n \in 1 .. Len(rest) /\ Len(rest) \in Nat BY <1>1, <1>2, <1>3, <3>1
        <5>2. k \in Int /\ k >= m /\ k <= (n + j) - 1 /\ j \in Int /\ j <= Len(rest) + 1 BY <3>4, <5>1
        <5> QED BY <5>1, <5>2
      <4>2. whole[k] = rest[k - n] BY <1>2, <4>1
      <4> QED BY <3>3, <4>1, <4>2
    <3> QED BY <3>4, <3>5, <3>6
  <2> QED BY <1>2, <1>3, <1>4, <2>1, <2>2
<1>5. Fenced(whole, Tag) BY <1>4 DEF Fenced
<1> QED BY <1>2, <1>3, <1>5 DEF Text, whole
(* The line that a cut opens again.                                        *)
LEMMA OpenFenceShort ==
  ASSUME NEW Tag, NEW text \in Text, Fenced(text, Tag), InFence(text)
  PROVE  /\ OpenFence(text) \in Text /\ Len(OpenFence(text)) \in 1 .. Half
         /\ \A k \in DOMAIN OpenFence(text) : OpenFence(text)[k] \in Tag
<1> DEFINE i == Greatest(Fences(text))
           sub == SubSeq(text, i + 1, LineEnd(text, i))
<1>1. Len(text) \in Nat /\ DOMAIN text = 1 .. Len(text) BY DEF Text
<1>2. i \in Fences(text)
  <2>1. Fences(text) # {} BY AFenceIsOpen
  <2>2. Fences(text) \in SUBSET (0 .. Len(text)) BY <1>1 DEF Fences, LineStarts
  <2> QED BY <1>1, <2>1, <2>2, GreatestIsThere
<1>3. OpenFence(text) = TrimRight(Line(text, i)) BY DEF OpenFence
<1> HIDE DEF i
<1>4. i \in LineStarts(text) /\ FenceLine(text, i) /\ i \in 0 .. Len(text) /\ i \in Nat
  BY <1>1, <1>2 DEF Fences, LineStarts
<1>5. LineEnd(text, i) \in i .. Len(text) BY <1>4, LinesAreTexts
<1> DEFINE e == LineEnd(text, i)
<1>6. sub \in Text /\ Len(sub) = e - i /\ DOMAIN sub = 1 .. e - i
      /\ \A k \in 1 .. e - i : sub[k] = text[i + k]
  <2>1. sub \in Text BY <1>4, <1>5, Parts
  <2>2. \A k \in i + 1 .. e : text[k] \in Mark BY <1>1, <1>4, <1>5 DEF Text
  <2>3. i + 1 \in 1 .. Len(text) + 1 /\ e \in i + 1 - 1 .. Len(text) BY <1>1, <1>4, <1>5
  <2>4. Len(sub) = e - i /\ \A k \in 1 .. e - i : sub[k] = text[i + k]
    BY <1>1, <1>4, <1>5, <2>2, <2>3, SubSeqProperties
  <2> QED BY <2>1, <2>4 DEF Text
<1>7. Line(text, i) = TrimLeft(sub) BY DEF Line
<1>8. Line(text, i) # <<>> /\ Head(Line(text, i)) = "fence" BY <1>4 DEF FenceLine
<1>9. e \in i .. Len(text) BY <1>5
<1>10. \A j \in i + 1 .. Len(text) + 1 : LineOver(text, j) => e < j
  <2>1. SUFFICES ASSUME NEW j \in i + 1 .. Len(text) + 1, LineOver(text, j) PROVE e < j
    OBVIOUS
  <2>2. CASE j = Len(text) + 1 BY <1>1, <1>9, <2>2
  <2>3. CASE j \in DOMAIN text /\ text[j] = "nl"
    <3> DEFINE ends == {k \in i .. Len(text) - 1 : text[k + 1] = "nl"}
    <3>1. j - 1 \in i .. Len(text) - 1 /\ (j - 1) + 1 = j BY <1>1, <1>4, <2>1, <2>3
    <3>2. j - 1 \in ends BY <2>3, <3>1
    <3>3. e = Least(ends) BY <3>2 DEF LineEnd
    <3>4. ends \in SUBSET Nat BY <1>4
    <3> HIDE DEF ends, e
    <3>5. e <= j - 1 BY <3>2, <3>3, <3>4, LeastIsThere
    <3> QED BY <1>4, <1>9, <2>1, <3>5
  <2> QED BY <2>1, <2>2, <2>3 DEF LineOver
<1> HIDE DEF sub, e
<1>11. PICK l \in 0 .. Len(sub) : TrimLeft(sub) = From(sub, l) BY <1>6, TrimKeepsLetters
<1> DEFINE line == From(sub, l)
           n == (e - i) - l
<1>12. line \in Text /\ Len(line) = n /\ DOMAIN line = 1 .. n /\ \A k \in 1 .. n : line[k] = sub[l + k]
  <2>1. line \in Text /\ Len(line) = n BY <1>6, <1>11, Parts
  <2>2. \A k \in 1 .. n : line[k] = sub[l + k] BY <1>6, <1>11, CutInTwo
  <2> QED BY <2>1, <2>2 DEF Text
<1>13. line # <<>> /\ line[1] = "fence" /\ n \in Nat \ {0}
  <2>1. line # <<>> /\ Head(line) = "fence" BY <1>7, <1>8, <1>11
  <2> HIDE DEF line, n
  <2>2. n \in Nat /\ n # 0 BY <1>12, <2>1, EmptySeq DEF Text
  <2> QED BY <1>12, <2>1, <2>2 DEF Text
<1>14. l \in Nat /\ l + n = e - i /\ e \in Nat BY <1>4, <1>6, <1>9, <1>11
<1> HIDE DEF line, n
<1>15. \A k \in 1 .. n : line[k] = text[i + l + k] /\ i + l + k \in DOMAIN text
  <2>1. SUFFICES ASSUME NEW k \in 1 .. n PROVE line[k] = text[i + l + k] /\ i + l + k \in DOMAIN text
    OBVIOUS
  <2>2. l + k \in 1 .. e - i /\ i + (l + k) = i + l + k /\ i + l + k \in 1 .. Len(text)
    BY <1>1, <1>4, <1>9, <1>13, <1>14
  <2> QED BY <1>1, <1>6, <1>12, <2>2
<1> DEFINE p == i + l + 1
<1>16. p \in DOMAIN text /\ text[p] = "fence" /\ p \in Nat
  <2>1. 1 \in 1 .. n BY <1>13
  <2> QED BY <1>1, <1>13, <1>15, <2>1
<1>17. PICK j \in p + 1 .. p + Half : LineOver(text, j) /\ \A k \in p .. j - 1 : text[k] \in Tag
  BY <1>16 DEF Fenced
<1>18. e < j /\ j \in Int
  <2>1. j \in Int /\ j > p BY <1>16, <1>17, HalfIsInt
  <2>2. p > i BY <1>4, <1>14
  <2>3. j \in i + 1 .. Len(text) + 1 BY <1>1, <1>4, <1>16, <1>17, <2>1, <2>2 DEF LineOver
  <2> QED BY <1>10, <1>17, <2>1, <2>3
<1>19. n <= Half
  <2>1. n = e - p + 1 BY <1>4, <1>13, <1>14
  <2>2. j <= p + Half BY <1>16, <1>17, HalfIsInt
  <2> HIDE DEF p
  <2> QED BY <1>14, <1>16, <1>18, <2>1, <2>2, HalfIsInt
<1>20. \A k \in 1 .. n : line[k] \in Tag
  <2>1. SUFFICES ASSUME NEW k \in 1 .. n PROVE line[k] \in Tag
    OBVIOUS
  <2>2. i + l + k \in p .. j - 1 BY <1>4, <1>13, <1>14, <1>18
  <2> QED BY <1>15, <1>17, <2>2
<1>21. PICK g \in 0 .. Len(line) : TrimRight(line) = Upto(line, g) BY <1>12, TrimKeepsLetters
<1> DEFINE open == TrimRight(line)
<1>22. open \in Text /\ Len(open) = g /\ DOMAIN open = 1 .. g /\ \A k \in 1 .. g : open[k] = line[k]
  <2>1. Upto(line, g) \in Text /\ Len(Upto(line, g)) = g BY <1>12, <1>21, Parts
  <2>2. \A k \in 1 .. g : Upto(line, g)[k] = line[k] BY <1>12, <1>21, CutInTwo
  <2> QED BY <1>21, <2>1, <2>2 DEF Text
<1>23. 1 \in DOMAIN open
  <2>1. 1 \in DOMAIN line /\ line[1] \notin Blank BY <1>12, <1>13 DEF Blank
  <2> QED BY <1>12, <2>1, TrimKeepsLetters
<1>24. OpenFence(text) = open BY <1>3, <1>7, <1>11 DEF line
<1> HIDE DEF open
<1>25. g \in 1 .. n BY <1>12, <1>13, <1>21, <1>22, <1>23
<1>26. Len(open) \in 1 .. Half BY <1>13, <1>19, <1>22, <1>25, HalfIsInt
<1>27. \A k \in DOMAIN open : open[k] \in Tag
  <2>1. \A k \in 1 .. g : k \in 1 .. n BY <1>13, <1>25
  <2> QED BY <1>20, <1>22, <2>1
<1> QED BY <1>22, <1>24, <1>26, <1>27

(* Where a text that is too long is cut. *)
LEMMA WhereToCut ==
  ASSUME NEW text \in Text, MaxLength >= 5, Len(text) > MaxLength
  PROVE  \E i \in 1 .. MaxLength :
           \/ SplitCodeFenceAware(text) = [chunk |-> Upto(text, i), rest |-> From(text, i), open |-> <<>>]
           \/ /\ InFence(text) /\ i > Half + 1 /\ i <= MaxLength - 2
              /\ SplitCodeFenceAware(text) =
                   [chunk |-> Upto(text, i), rest |-> From(text, i), open |-> OpenFence(text)]
<1>0. MaxLength \in Nat /\ Len(text) \in Nat /\ FenceRange \in Nat /\ FenceRange < MaxLength
  BY ChunkConstants DEF Text
<1>1. CASE CleanEnds(text) # {}
  <2>1. CleanEnds(text) \in SUBSET (0 .. MaxLength) /\ CleanEnds(text) \subseteq MaxLength - FenceRange .. MaxLength
    BY <1>0 DEF CleanEnds
  <2>2. Greatest(CleanEnds(text)) \in CleanEnds(text) BY <1>0, <1>1, <2>1, GreatestIsThere
  <2>3. Greatest(CleanEnds(text)) \in 1 .. MaxLength BY <1>0, <2>1, <2>2
  <2> QED BY <1>1, <2>3 DEF SplitCodeFenceAware
<1>2. CASE CleanEnds(text) = {} /\ InFence(text)
  <2> DEFINE i == FindSplitPoint(text, MaxLength - 2)
  <2>1. MaxLength - 2 \in Nat \ {0} /\ Len(text) > MaxLength - 2 BY <1>0
  <2>2. i \in 0 .. Len(text) /\ i <= MaxLength - 2
        /\ (i = MaxLength - 2 \/ i > ((MaxLength - 2) \div 2) + 1)
    BY <2>1, SplitPointInText
  <2>3. Len(Closing) = 2 /\ ~(MaxLength - Len(Closing) < 1) BY <1>0 DEF Closing
  <2>4. SplitCodeFenceAware(text) = [chunk |-> Upto(text, i), rest |-> From(text, i), open |-> OpenFence(text)]
    BY <1>2, <2>3 DEF SplitCodeFenceAware
  <2> HIDE DEF i
  <2>5. i > Half + 1 BY <1>0, <2>2 DEF Half
  <2>6. i \in 1 .. MaxLength BY <1>0, <2>2, <2>5, HalfIsInt
  <2> QED BY <1>2, <2>2, <2>4, <2>5, <2>6
<1>3. CASE CleanEnds(text) = {} /\ ~InFence(text)
  <2> DEFINE i == FindSplitPoint(text, MaxLength)
  <2>1. i \in 0 .. Len(text) /\ i <= MaxLength
        /\ (i = MaxLength \/ i > (MaxLength \div 2) + 1)
    BY <1>0, SplitPointInText
  <2>2. SplitCodeFenceAware(text) = [chunk |-> Upto(text, i), rest |-> From(text, i), open |-> <<>>]
    BY <1>3 DEF SplitCodeFenceAware
  <2> HIDE DEF i
  <2>3. MaxLength \div 2 \in Nat BY <1>0
  <2>4. i \in 1 .. MaxLength BY <1>0, <2>1, <2>3
  <2> QED BY <2>2, <2>4
<1> QED BY <1>1, <1>2, <1>3

(* One cut: the chunk fits and is not blank, what is left is shorter, and  *)
(* a letter is in one of the two; in both only if a repeated line had it.  *)
LEMMA OneCut ==
  ASSUME MaxLength >= 5, NEW Tag, NEW text \in Text, Fenced(text, Tag),
         text # <<>>, text[1] \notin Blank
  PROVE  /\ Cut(text).chunk \in Text /\ Cut(text).rest \in Text
         /\ Len(Cut(text).chunk) \in 1 .. MaxLength
         /\ Len(Cut(text).rest) < Len(text)
         /\ Fenced(Cut(text).rest, Tag)
         /\ Cut(text).rest = <<>> \/ Cut(text).rest[1] \notin Blank
         /\ Letters(text) <= Letters(Cut(text).chunk) + Letters(Cut(text).rest)
         /\ "x" \notin Tag => Letters(text) = Letters(Cut(text).chunk) + Letters(Cut(text).rest)
<1>1. /\ Len(text) \in Nat /\ DOMAIN text = 1 .. Len(text) /\ Len(text) >= 1
      /\ MaxLength \in Nat /\ <<>> \in Text /\ Len(<<>>) = 0
  BY ChunkConstants, EmptySeq DEF Text
<1>2. CASE Len(text) <= MaxLength
  <2>1. Cut(text) = [chunk |-> text, rest |-> <<>>] BY <1>2 DEF Cut
  <2>2. Fenced(<<>>, Tag) BY DEF Fenced
  <2>3. Letters(<<>>) = 0 BY <1>1, NoLetters
  <2>4. Letters(text) \in Nat BY LettersCounted
  <2> QED BY <1>1, <1>2, <2>1, <2>2, <2>3, <2>4
<1>3. CASE Len(text) > MaxLength
  <2> DEFINE split == SplitCodeFenceAware(text)
             chunk == IF split.open = <<>> THEN split.chunk ELSE split.chunk \o Closing
             rest == IF split.open = <<>> THEN split.rest ELSE split.open \o <<"nl">> \o split.rest
  <2>1. PICK i \in 1 .. MaxLength :
           \/ split = [chunk |-> Upto(text, i), rest |-> From(text, i), open |-> <<>>]
           \/ /\ InFence(text) /\ i > Half + 1 /\ i <= MaxLength - 2
              /\ split = [chunk |-> Upto(text, i), rest |-> From(text, i), open |-> OpenFence(text)]
    BY <1>3, WhereToCut
  <2>2. i \in 0 .. Len(text) /\ i \in Nat /\ i >= 1 /\ i <= MaxLength /\ 1 \in 1 .. i BY <1>1, <1>3
  <2> DEFINE u == Upto(text, i)
             f == From(text, i)
  <2>3. /\ u \in Text /\ Len(u) = i /\ f \in Text /\ Len(f) = Len(text) - i
        /\ u[1] = text[1] /\ Letters(text) = Letters(u) + Letters(f)
        /\ Fenced(f, Tag) /\ Letters(u) \in Nat /\ Letters(f) \in Nat
    <3>1. u \in Text /\ Len(u) = i /\ f \in Text /\ Len(f) = Len(text) - i BY <2>2, Parts
    <3>2. u[1] = text[1] /\ Letters(text) = Letters(u) + Letters(f) BY <2>2, CutInTwo
    <3>3. Fenced(f, Tag) BY <2>2, FencedFrom
    <3> QED BY <3>1, <3>2, <3>3, LettersCounted
  <2>4. Cut(text) = [chunk |-> TrimRight(chunk), rest |-> TrimLeft(rest)]
    BY <1>1, <1>3 DEF Cut
  <2> HIDE DEF split, u, f
  <2>5. /\ chunk \in Text /\ rest \in Text /\ Len(chunk) <= MaxLength /\ 1 \in DOMAIN chunk /\ chunk[1] = text[1]
        /\ Len(rest) < Len(text) /\ Fenced(rest, Tag)
        /\ Letters(text) <= Letters(chunk) + Letters(rest)
        /\ "x" \notin Tag => Letters(text) = Letters(chunk) + Letters(rest)
    <3>1. CASE split = [chunk |-> u, rest |-> f, open |-> <<>>]
      <4>1. chunk = u /\ rest = f BY <3>1
      <4> HIDE DEF chunk, rest
      <4>2. 1 \in DOMAIN u BY <2>2, <2>3 DEF Text
      <4> QED BY <1>1, <2>2, <2>3, <4>1, <4>2
    <3>2. CASE /\ InFence(text) /\ i > Half + 1 /\ i <= MaxLength - 2
               /\ split = [chunk |-> u, rest |-> f, open |-> OpenFence(text)]
      <4> DEFINE open == OpenFence(text)
      <4>1. open \in Text /\ Len(open) \in 1 .. Half /\ \A k \in DOMAIN open : open[k] \in Tag
        BY <3>2, OpenFenceShort
      <4> HIDE DEF open
      <4>2. open # <<>> BY <1>1, <4>1
      <4>3. chunk = u \o Closing /\ rest = open \o <<"nl">> \o f BY <3>2, <4>2 DEF open
      <4> HIDE DEF chunk, rest
      <4>4. /\ <<"nl">> \in Text /\ Closing \in Text /\ Len(Closing) = 2
            /\ Letters(<<"nl">>) = 0 /\ Letters(Closing) = 0
        <5>1. "nl" \in Mark /\ "fence" \in Mark BY DEF Mark
        <5>2. \A x, y \in Mark : <<x, y>> \in Seq(Mark) /\ <<x>> \in Seq(Mark)
          OBVIOUS
        <5>3. <<"nl">> \in Text /\ Closing \in Text BY <5>1, <5>2 DEF Text, Closing
        <5>4. \A k \in DOMAIN <<"nl">> : <<"nl">>[k] # "x"
          OBVIOUS
        <5>5. DOMAIN <<"nl", "fence">> = 1 .. 2 /\ <<"nl", "fence">>[1] = "nl" /\ <<"nl", "fence">>[2] = "fence"
          OBVIOUS
        <5>6. \A k \in DOMAIN Closing : Closing[k] # "x"
          <6>1. \A k \in 1 .. 2 : k = 1 \/ k = 2
            OBVIOUS
          <6> QED BY <5>5, <6>1 DEF Closing
        <5>7. Len(Closing) = 2 BY DEF Closing
        <5> QED BY <5>3, <5>4, <5>6, <5>7, NoLetters
      <4>5. rest \in Text /\ Len(rest) = Len(open) + 1 + Len(f) /\ Fenced(rest, Tag)
        <5>1. Len(open) <= Half BY <4>1, HalfIsInt
        <5> QED BY <2>3, <4>1, <4>3, <5>1, FencedAgain, ZenonT(60)
      <4>6. Letters(open) \in Nat /\ ("x" \notin Tag => Letters(open) = 0)
        <5>1. "x" \notin Tag => \A k \in DOMAIN open : open[k] # "x" BY <4>1
        <5> QED BY <4>1, <5>1, LettersCounted, NoLetters
      <4>7. Letters(rest) = Letters(open) + Letters(f)
        <5>1. open \o <<"nl">> \in Text /\ Letters(open \o <<"nl">>) = Letters(open) + Letters(<<"nl">>)
          BY <4>1, <4>4, LettersAdd
        <5>2. Letters((open \o <<"nl">>) \o f) = Letters(open \o <<"nl">>) + Letters(f)
          BY <2>3, <5>1, LettersAdd
        <5> QED BY <4>3, <4>4, <4>6, <5>1, <5>2
      <4>8. chunk \in Text /\ Letters(chunk) = Letters(u)
        <5>1. u \o Closing \in Text /\ Letters(u \o Closing) = Letters(u) + Letters(Closing)
          BY <2>3, <4>4, LettersAdd
        <5> QED BY <2>3, <4>3, <4>4, <5>1
      <4>9. Len(chunk) = i + 2 /\ 1 \in DOMAIN chunk /\ chunk[1] = u[1]
        <5>1. u \in Seq(Mark) /\ Closing \in Seq(Mark) /\ 1 \in 1 .. Len(u) BY <2>2, <2>3, <4>4 DEF Text
        <5>2. Len(u \o Closing) = Len(u) + Len(Closing) /\ (u \o Closing)[1] = u[1] BY <5>1
        <5>3. 1 \in DOMAIN (u \o Closing) BY <2>2, <2>3, <4>4, <5>1, <5>2
        <5> QED BY <2>3, <4>3, <4>4, <5>2, <5>3
      <4>10. Len(chunk) <= MaxLength /\ Len(rest) < Len(text)
        BY <1>1, <2>2, <2>3, <3>2, <4>1, <4>5, <4>9, HalfIsInt
      <4> QED BY <2>3, <4>5, <4>6, <4>7, <4>8, <4>9, <4>10
    <3> QED BY <2>1, <3>1, <3>2 DEF u, f
  <2> HIDE DEF chunk, rest
  <2>6. /\ TrimRight(chunk) \in Text /\ Len(TrimRight(chunk)) <= Len(chunk)
        /\ TrimLeft(rest) \in Text /\ Len(TrimLeft(rest)) <= Len(rest)
        /\ Letters(TrimRight(chunk)) = Letters(chunk) /\ Letters(TrimLeft(rest)) = Letters(rest)
        /\ TrimLeft(rest) = <<>> \/ TrimLeft(rest)[1] \notin Blank
    BY <2>5, TrimmedParts, TrimKeepsLetters
  <2>7. Len(TrimRight(chunk)) \in 1 .. MaxLength
    <3>1. 1 \in DOMAIN TrimRight(chunk) BY <2>5, TrimKeepsLetters
    <3>2. Len(TrimRight(chunk)) \in Nat /\ Len(chunk) \in Nat
          /\ DOMAIN TrimRight(chunk) = 1 .. Len(TrimRight(chunk))
      BY <2>5, <2>6 DEF Text
    <3> QED BY <1>1, <2>5, <2>6, <3>1, <3>2
  <2>8. Len(TrimLeft(rest)) < Len(text)
    <3>1. Len(TrimLeft(rest)) \in Nat /\ Len(rest) \in Nat BY <2>5, <2>6 DEF Text
    <3> QED BY <1>1, <2>5, <2>6, <3>1
  <2>9. Fenced(TrimLeft(rest), Tag)
    <3>1. PICK l \in 0 .. Len(rest) : TrimLeft(rest) = From(rest, l) BY <2>5, TrimKeepsLetters
    <3> QED BY <2>5, <3>1, FencedFrom
  <2> QED BY <2>4, <2>5, <2>6, <2>7, <2>8, <2>9
<1> QED BY <1>1, <1>2, <1>3
(* The chunks in a row.                                                    *)
LEMMA FlattenByStep ==
  ASSUME NEW s \in Seq(Text), Len(s) >= 1
  PROVE  \E f \in [1 .. Len(s) -> Text] :
           /\ f[1] = s[1] /\ \A i \in 2 .. Len(s) : f[i] = f[i - 1] \o s[i]
           /\ Sequence!FlattenSeq(s) = f[Len(s)]
<1> DEFINE n == Len(s)
           body(h) == [i \in 1 .. n |-> IF i = 1 THEN s[i] ELSE h[i - 1] \o s[i]]
           g == [k \in Nat |-> [t \in Text |-> IF k + 1 <= n THEN t \o s[k + 1] ELSE t]]
           flatten == CHOOSE h : h = body(h)
<1>1. n \in Nat /\ n >= 1 /\ \A i \in 1 .. n : s[i] \in Text
  OBVIOUS
<1>2. g \in [Nat -> [Text -> Text]]
  <2>1. \A t, u \in Text : t \o u \in Text BY DEF Text
  <2> QED BY <1>1, <2>1
<1>3. PICK F : Follows(F, Text, s[1], g)
  <2>1. s[1] \in Text BY <1>1
  <2> HIDE DEF g
  <2> QED BY <1>2, <2>1, Recursion
<1>4. \E h : h = body(h)
  <2> DEFINE h == [i \in 1 .. n |-> F[i - 1]]
  <2>1. F \in [Nat -> Text] /\ F[0] = s[1] /\ \A k \in Nat : F[k + 1] = g[k + 1][F[k]] BY <1>3 DEF Follows
  <2>2. ASSUME NEW i \in 1 .. n PROVE F[i - 1] = IF i = 1 THEN s[i] ELSE h[i - 1] \o s[i]
    <3>1. CASE i = 1 BY <2>1, <3>1
    <3>2. CASE i # 1
      <4>1. i - 2 \in Nat /\ (i - 2) + 1 = i - 1 /\ i - 1 \in Nat /\ (i - 1) + 1 = i /\ i - 1 \in 1 .. n
        BY <1>1, <3>2
      <4>2. F[i - 1] = g[i - 1][F[i - 2]] BY <2>1, <4>1
      <4>3. g[i - 1][F[i - 2]] = F[i - 2] \o s[i]
        <5>1. \A k \in Nat, t \in Text : g[k][t] = IF k + 1 <= n THEN t \o s[k + 1] ELSE t
          OBVIOUS
        <5>2. F[i - 2] \in Text /\ i <= n BY <1>1, <2>1, <4>1
        <5> HIDE DEF g
        <5> QED BY <4>1, <5>1, <5>2
      <4>4. h[i - 1] = F[i - 2] BY <4>1
      <4> QED BY <3>2, <4>2, <4>3, <4>4
    <3> QED BY <3>1, <3>2
  <2>3. h = body(h) BY <2>2
  <2> QED BY <2>3
<1>5. flatten = body(flatten) BY <1>4
<1>6. Sequence!FlattenSeq(s) = flatten[n]
  <2>1. Len(s) # 0
    OBVIOUS
  <2> QED BY <2>1 DEF Sequence!FlattenSeq
<1> HIDE DEF flatten
<1>7. /\ flatten[1] = s[1] /\ DOMAIN flatten = 1 .. n
      /\ \A i \in 2 .. n : flatten[i] = flatten[i - 1] \o s[i]
  <2>1. 1 \in 1 .. n /\ \A i \in 2 .. n : i \in 1 .. n /\ i # 1 BY <1>1
  <2> HIDE DEF n
  <2> QED BY <1>5, <2>1
<1>8. \A i \in 1 .. n : flatten[i] \in Text
  <2> DEFINE S == {k \in Nat : k + 1 \in 1 .. n => flatten[k + 1] \in Text}
  <2>1. 0 \in S BY <1>1, <1>7
  <2>2. ASSUME NEW k \in Nat, k \in S PROVE k + 1 \in S
    <3> SUFFICES ASSUME (k + 1) + 1 \in 1 .. n PROVE flatten[(k + 1) + 1] \in Text
      OBVIOUS
    <3>1. (k + 1) + 1 \in 2 .. n /\ k + 1 \in 1 .. n /\ ((k + 1) + 1) - 1 = k + 1 BY <1>1
    <3>2. flatten[(k + 1) + 1] = flatten[k + 1] \o s[(k + 1) + 1] BY <1>7, <3>1
    <3>3. flatten[k + 1] \in Text /\ s[(k + 1) + 1] \in Text BY <1>1, <2>2, <3>1
    <3>4. \A t, u \in Text : t \o u \in Text BY DEF Text
    <3> QED BY <3>2, <3>3, <3>4
  <2> HIDE DEF S
  <2>3. Nat \subseteq S BY <2>1, <2>2, NaturalsBySteps
  <2>4. ASSUME NEW i \in 1 .. n PROVE flatten[i] \in Text
    <3>1. i - 1 \in Nat /\ (i - 1) + 1 = i BY <1>1
    <3> QED BY <2>3, <2>4, <3>1 DEF S
  <2> QED BY <2>4
<1>9. flatten \in [1 .. n -> Text]
  <2>1. flatten = [i \in 1 .. n |-> flatten[i]] BY <1>5
  <2> QED BY <1>8, <2>1
<1> QED BY <1>6, <1>7, <1>9

LEMMA FlattenAppend ==
  ASSUME NEW s \in Seq(Text), NEW c \in Text
  PROVE  /\ Append(s, c) \in Seq(Text)
         /\ s # <<>> => Sequence!FlattenSeq(s) \in Text
                        /\ Sequence!FlattenSeq(Append(s, c)) = Sequence!FlattenSeq(s) \o c
         /\ s = <<>> => Sequence!FlattenSeq(Append(s, c)) = c
<1> DEFINE n == Len(s)
           t == Append(s, c)
<1>1. /\ t \in Seq(Text) /\ Len(t) = n + 1 /\ n \in Nat
      /\ t[n + 1] = c /\ \A i \in 1 .. n : t[i] = s[i]
  OBVIOUS
<1> HIDE DEF t
<1>2. PICK h \in [1 .. n + 1 -> Text] :
        /\ h[1] = t[1] /\ \A i \in 2 .. n + 1 : h[i] = h[i - 1] \o t[i]
        /\ Sequence!FlattenSeq(t) = h[n + 1]
  <2>1. Len(t) >= 1 BY <1>1
  <2>2. \E h \in [1 .. Len(t) -> Text] :
           /\ h[1] = t[1] /\ \A i \in 2 .. Len(t) : h[i] = h[i - 1] \o t[i]
           /\ Sequence!FlattenSeq(t) = h[Len(t)]
    BY <1>1, <2>1, FlattenByStep
  <2> QED BY <1>1, <2>2
<1>3. CASE s = <<>>
  <2>1. n = 0 BY <1>3
  <2>2. h[n + 1] = c BY <1>1, <1>2, <2>1
  <2> QED BY <1>1, <1>2, <1>3, <2>2 DEF t
<1>4. CASE s # <<>>
  <2>1. n >= 1 BY <1>1, <1>4, EmptySeq
  <2>2. PICK f \in [1 .. n -> Text] :
          /\ f[1] = s[1] /\ \A i \in 2 .. n : f[i] = f[i - 1] \o s[i]
          /\ Sequence!FlattenSeq(s) = f[n]
    BY <2>1, FlattenByStep
  <2> DEFINE S == {k \in Nat : k + 1 \in 1 .. n => h[k + 1] = f[k + 1]}
  <2> HIDE DEF n
  <2>3. 0 \in S
    <3>1. 1 \in 1 .. n BY <1>1, <2>1
    <3> QED BY <1>1, <1>2, <2>2, <3>1
  <2>4. ASSUME NEW k \in Nat, k \in S PROVE k + 1 \in S
    <3> SUFFICES ASSUME (k + 1) + 1 \in 1 .. n PROVE h[(k + 1) + 1] = f[(k + 1) + 1]
      OBVIOUS
    <3>1. (k + 1) + 1 \in 2 .. n /\ (k + 1) + 1 \in 2 .. n + 1 /\ k + 1 \in 1 .. n /\ ((k + 1) + 1) - 1 = k + 1
      BY <1>1
    <3>2. f[(k + 1) + 1] = f[k + 1] \o s[(k + 1) + 1] BY <2>2, <3>1
    <3>3. h[(k + 1) + 1] = h[k + 1] \o t[(k + 1) + 1] BY <1>2, <3>1
    <3>4. h[k + 1] = f[k + 1] /\ t[(k + 1) + 1] = s[(k + 1) + 1] BY <1>1, <2>4, <3>1
    <3> QED BY <3>2, <3>3, <3>4
  <2> HIDE DEF S
  <2>5. Nat \subseteq S BY <2>3, <2>4, NaturalsBySteps
  <2>6. n - 1 \in Nat /\ (n - 1) + 1 = n /\ n \in 1 .. n /\ n + 1 \in 2 .. n + 1 /\ (n + 1) - 1 = n
    BY <1>1, <2>1
  <2>7. h[n] = f[n] BY <2>5, <2>6 DEF S
  <2>8. h[n + 1] = h[n] \o c BY <1>1, <1>2, <2>6
  <2>9. f[n] \in Text BY <2>2, <2>6
  <2> QED BY <1>1, <1>2, <1>4, <2>2, <2>7, <2>8, <2>9 DEF t
<1> QED BY <1>1, <1>3, <1>4 DEF t

(* What chunkMessage makes of any text whose fence lines are not too long. *)
(* It comes to an end, every chunk fits the limit and none is blank, and   *)
(* no letter is lost; when the fence lines, which are repeated, have none, *)
(* no letter is sent twice.                                                *)
THEOREM CuttingKeepsTheText ==
  ASSUME MaxLength >= 5, NEW Tag, NEW text \in Text, Fenced(text, Tag),
         text # <<>>, text[1] \notin Blank
  PROVE  /\ ChunkMessage(text).rest = <<>>
         /\ \A i \in DOMAIN ChunkMessage(text).chunks :
              Len(ChunkMessage(text).chunks[i]) \in 1 .. MaxLength
         /\ Letters(text) <= Letters(Sequence!FlattenSeq(ChunkMessage(text).chunks))
         /\ "x" \notin Tag => Letters(text) = Letters(Sequence!FlattenSeq(ChunkMessage(text).chunks))
<1> DEFINE r == Rounds(text)
           flat(n) == Sequence!FlattenSeq(r[n].chunks)
           Left(n) ==
             /\ r[n] \in Progress /\ Fenced(r[n].rest, Tag)
             /\ r[n].rest = <<>> \/ r[n].rest[1] \notin Blank
           Sent(n) ==
             /\ r[n].chunks # <<>> /\ flat(n) \in Text
             /\ \A i \in DOMAIN r[n].chunks : Len(r[n].chunks[i]) \in 1 .. MaxLength
             /\ r[n].rest = <<>> \/ Len(r[n].rest) + n <= Len(text)
             /\ Letters(text) <= Letters(flat(n)) + Letters(r[n].rest)
             /\ "x" \notin Tag => Letters(text) = Letters(flat(n)) + Letters(r[n].rest)
           S == {n \in Nat : Left(n) /\ (IF n = 0 THEN r[n] = [chunks |-> <<>>, rest |-> text] ELSE Sent(n))}
<1>0. Len(text) \in Nat /\ Letters(text) \in Nat /\ Letters(<<>>) = 0 /\ <<>> \in Text
  <2>1. <<>> \in Text /\ \A i \in DOMAIN <<>> : <<>>[i] # "x" BY DEF Text
  <2>2. Letters(<<>>) = 0 BY <2>1, NoLetters
  <2> QED BY <2>1, <2>2, LettersCounted DEF Text
<1>1. r[0] = [chunks |-> <<>>, rest |-> text] /\ \A n \in Nat : r[n + 1] = NextRound(n + 1, r[n])
  BY RoundsAdvance
<1> HIDE DEF r
<1>2. 0 \in S
  <2>1. <<>> \in Seq(Text)
    OBVIOUS
  <2>2. r[0] \in Progress BY <1>1, <2>1 DEF Progress
  <2> QED BY <1>1, <2>2
<1>3. ASSUME NEW n \in Nat, n \in S PROVE n + 1 \in S
  <2> DEFINE p == r[n]
             c == Cut(p.rest).chunk
             d == Cut(p.rest).rest
  <2>0. /\ p \in Progress /\ p.chunks \in Seq(Text) /\ p.rest \in Text /\ Fenced(p.rest, Tag)
        /\ p.rest = <<>> \/ p.rest[1] \notin Blank
        /\ n = 0 => p = [chunks |-> <<>>, rest |-> text]
        /\ n # 0 => Sent(n)
    BY <1>3 DEF Progress
  <2>1. n + 1 \in Nat /\ n + 1 # 0 OBVIOUS
  <2>2. CASE n # 0 /\ p.rest = <<>>
    <3>1. n + 1 > 1 BY <2>2
    <3>2. r[n + 1] = r[n] BY <1>1, <2>2, <3>1 DEF NextRound
    <3>3. Left(n + 1) BY <2>0, <3>2
    <3>4. Sent(n + 1) BY <2>0, <2>2, <3>2
    <3> QED BY <2>1, <3>3, <3>4
  <2>3. CASE n = 0 \/ p.rest # <<>>
    <3>1. p.rest # <<>> /\ p.rest[1] \notin Blank BY <2>0, <2>3
    <3>2. r[n + 1] = [chunks |-> Append(p.chunks, c), rest |-> d]
      BY <1>1, <2>3, <3>1 DEF NextRound
    <3>3. /\ c \in Text /\ d \in Text /\ Len(c) \in 1 .. MaxLength /\ Len(d) < Len(p.rest)
          /\ Fenced(d, Tag) /\ (d = <<>> \/ d[1] \notin Blank)
          /\ Letters(p.rest) <= Letters(c) + Letters(d)
          /\ "x" \notin Tag => Letters(p.rest) = Letters(c) + Letters(d)
      BY <2>0, <3>1, OneCut
    <3> HIDE DEF c, d, p
    <3> DEFINE more == Append(p.chunks, c)
    <3>4. /\ more \in Seq(Text) /\ Len(more) = Len(p.chunks) + 1 /\ DOMAIN more = 1 .. Len(p.chunks) + 1
          /\ \A i \in 1 .. Len(p.chunks) : more[i] = p.chunks[i] /\ i \in DOMAIN p.chunks
          /\ more[Len(p.chunks) + 1] = c /\ Len(p.chunks) \in Nat
      BY <2>0, <3>3
    <3>5. Letters(c) \in Nat /\ Letters(d) \in Nat /\ Letters(p.rest) \in Nat /\ Len(d) \in Nat /\ Len(p.rest) \in Nat
      BY <2>0, <3>3, LettersCounted, SMTT(30) DEF Text
    <3>6. more # <<>>
      <4>1. Len(more) # 0 BY <3>4
      <4> QED BY <4>1, EmptySeq
    <3> HIDE DEF more
    <3>7. /\ Sequence!FlattenSeq(more) \in Text
          /\ Letters(text) <= Letters(Sequence!FlattenSeq(more)) + Letters(d)
          /\ "x" \notin Tag => Letters(text) = Letters(Sequence!FlattenSeq(more)) + Letters(d)
      <4>1. CASE n = 0
        <5>1. p.chunks = <<>> /\ p.rest = text BY <2>0, <4>1
        <5>2. Sequence!FlattenSeq(more) = c BY <2>0, <3>3, <5>1, FlattenAppend DEF more
        <5> QED BY <3>3, <5>1, <5>2
      <4>2. CASE n # 0
        <5>1. p.chunks # <<>> /\ Letters(text) <= Letters(flat(n)) + Letters(p.rest)
              /\ ("x" \notin Tag => Letters(text) = Letters(flat(n)) + Letters(p.rest))
          BY <2>0, <4>2 DEF p
        <5>2. Sequence!FlattenSeq(p.chunks) \in Text
              /\ Sequence!FlattenSeq(more) = Sequence!FlattenSeq(p.chunks) \o c
          BY <2>0, <3>3, <5>1, FlattenAppend DEF more
        <5>3. flat(n) = Sequence!FlattenSeq(p.chunks) BY DEF p
        <5> HIDE DEF flat
        <5>4. /\ Sequence!FlattenSeq(more) \in Text
              /\ Letters(Sequence!FlattenSeq(more)) = Letters(flat(n)) + Letters(c)
              /\ Letters(flat(n)) \in Nat
          BY <3>3, <5>2, <5>3, LettersAdd, LettersCounted
        <5> QED BY <1>0, <3>3, <3>5, <5>1, <5>4
      <4> QED BY <4>1, <4>2
    <3>8. \A i \in DOMAIN more : Len(more[i]) \in 1 .. MaxLength
      <4>1. ASSUME NEW i \in 1 .. Len(p.chunks) PROVE Len(p.chunks[i]) \in 1 .. MaxLength
        <5>1. n # 0
          <6>1. n = 0 => Len(p.chunks) = 0 BY <2>0
          <6> QED BY <4>1, <6>1
        <5> QED BY <2>0, <3>4, <5>1 DEF p
      <4>2. \A i \in DOMAIN more : i \in 1 .. Len(p.chunks) \/ i = Len(p.chunks) + 1 BY <3>4
      <4>3. \A i \in 1 .. Len(p.chunks) : Len(more[i]) \in 1 .. MaxLength BY <3>4, <4>1
      <4>4. Len(more[Len(p.chunks) + 1]) \in 1 .. MaxLength
        <5>1. \A x : x = c => Len(x) \in 1 .. MaxLength BY <3>3
        <5>2. more[Len(p.chunks) + 1] = c BY <3>4
        <5> QED BY <5>1, <5>2
      <4> QED BY <4>2, <4>3, <4>4
    <3>9. d = <<>> \/ Len(d) + (n + 1) <= Len(text)
      <4>1. Len(p.rest) + n <= Len(text)
        <5>1. CASE n = 0 BY <1>0, <2>0, <5>1
        <5>2. CASE n # 0 BY <2>0, <3>1, <5>2 DEF p
        <5> QED BY <5>1, <5>2
      <4> QED BY <1>0, <3>3, <3>5, <4>1
    <3>10. r[n + 1] = [chunks |-> more, rest |-> d] BY <3>2 DEF more
    <3>11. Left(n + 1)
      <4>1. r[n + 1] \in Progress BY <3>3, <3>4, <3>10 DEF Progress
      <4>2. r[n + 1].rest = d BY <3>10
      <4> QED BY <3>3, <4>1, <4>2
    <3>12. Sent(n + 1) BY <3>6, <3>7, <3>8, <3>9, <3>10
    <3> QED BY <2>1, <3>11, <3>12
  <2> QED BY <2>2, <2>3
<1> DEFINE last == Len(text) + 1
<1>4. Sent(last)
  <2> HIDE DEF S, Sent
  <2>1. Nat \subseteq S BY <1>2, <1>3, NaturalsBySteps
  <2>2. last \in Nat /\ last # 0 BY <1>0
  <2>3. last \in S BY <2>1, <2>2
  <2> QED BY <2>2, <2>3 DEF S
<1>5. r[last].rest = <<>>
  <2>0. last = Len(text) + 1
    OBVIOUS
  <2>1. ~(Len(r[last].rest) + last <= Len(text))
    <3>1. last \in Nat /\ r[last].rest \in Text
      <4> HIDE DEF S
      <4>1. Nat \subseteq S BY <1>2, <1>3, NaturalsBySteps
      <4>2. last \in Nat BY <1>0
      <4>3. last \in S BY <4>1, <4>2
      <4> QED BY <4>2, <4>3 DEF S, Progress
    <3>2. Len(r[last].rest) \in Nat BY <3>1 DEF Text
    <3>3. \A k, m \in Nat : ~(k + (m + 1) <= m)
      OBVIOUS
    <3> QED BY <1>0, <3>2, <3>3
  <2> QED BY <1>4, <2>1
<1>6. ChunkMessage(text) = r[last] BY DEF ChunkMessage, r
<1>7. Letters(flat(last)) \in Nat BY <1>4, LettersCounted
<1> HIDE DEF last
<1> QED BY <1>0, <1>4, <1>5, <1>6, <1>7

-----------------------------------------------------------------------------
(***************************************************************************)
(* What Discord got of an action is a series of runs down from its first   *)
(* chunk.  Each run is one attempt's, so there are no more of them than    *)
(* attempts that failed, and one for the attempt that is being made, once  *)
(* it got its first chunk out.                                             *)
(***************************************************************************)
StartsOf(s, top) == {i \in DOMAIN s : s[i] = top}
Ladder(s, top) ==
  \A i \in DOMAIN s : s[i] = top \/ (i > 1 /\ s[i] = s[i - 1] - 1)
ComesNext(n, s, top) == n = top \/ (s # <<>> /\ s[Len(s)] = n + 1)

UnderWay(a) == pc = "send" /\ a = Head(toProcess)
Begun(a) == IF UnderWay(a) /\ Len(chunks) < First(a) THEN 1 ELSE 0

Sending ==
  pc = "send" =>
    /\ chunks \in Seq(Text) /\ Len(chunks) >= 1
    /\ Len(chunks) <= First(Head(toProcess))
    /\ ComesNext(Len(chunks), posted[Head(toProcess)], First(Head(toProcess)))

Received ==
  /\ posted \in [Action -> Seq(Nat)]
  /\ \A a \in Action \ Elements(accepted) : posted[a] = <<>>
  /\ \A a \in Elements(accepted) : Ladder(posted[a], First(a))
  /\ \A a \in Elements(accepted) \ DOMAIN settled :
       Cardinality(Starts(a)) <= RetryState(a).attempts + Begun(a)
  /\ \A a \in DOMAIN settled :
       settled[a] = "done" => posted[a] # <<>> /\ posted[a][Len(posted[a])] = 1

RunsInv ==
  /\ content \in Contents /\ Elements(accepted) \subseteq DOMAIN content
  /\ Sending /\ Received


LEMMA LadderGrows ==
  ASSUME NEW s \in Seq(Nat), NEW n \in Nat, NEW top \in Nat,
         Ladder(s, top), ComesNext(n, s, top)
  PROVE  /\ Append(s, n) \in Seq(Nat) /\ Ladder(Append(s, n), top)
         /\ Append(s, n) # <<>> /\ Append(s, n)[Len(Append(s, n))] = n
         /\ Cardinality(StartsOf(s, top)) \in Nat
         /\ Cardinality(StartsOf(Append(s, n), top))
              = Cardinality(StartsOf(s, top)) + (IF n = top THEN 1 ELSE 0)
<1>1. /\ Len(s) \in Nat /\ DOMAIN s = 1 .. Len(s)
      /\ Append(s, n) \in Seq(Nat) /\ Len(Append(s, n)) = Len(s) + 1
      /\ DOMAIN Append(s, n) = 1 .. Len(s) + 1
      /\ \A i \in 1 .. Len(s) : Append(s, n)[i] = s[i]
      /\ Append(s, n)[Len(s) + 1] = n
  OBVIOUS
<1> DEFINE t == Append(s, n)
<1>2. \A i \in 1 .. Len(s) + 1 : i \in 1 .. Len(s) \/ i = Len(s) + 1 BY <1>1
<1>3. Ladder(t, top)
  <2> HIDE DEF t
  <2> SUFFICES ASSUME NEW i \in 1 .. Len(s) + 1
               PROVE  t[i] = top \/ (i > 1 /\ t[i] = t[i - 1] - 1)
    BY <1>1 DEF Ladder, t
  <2>0. \A k \in 1 .. Len(s) : t[k] = s[k] BY <1>1 DEF t
  <2>1. CASE i \in 1 .. Len(s)
    <3>1. s[i] = top \/ (i > 1 /\ s[i] = s[i - 1] - 1) BY <1>1, <2>1 DEF Ladder
    <3>2. i > 1 => i - 1 \in 1 .. Len(s) BY <1>1, <2>1
    <3> QED BY <2>0, <2>1, <3>1, <3>2
  <2>2. CASE i = Len(s) + 1
    <3>1. t[i] = n BY <1>1, <2>2 DEF t
    <3>2. CASE n = top BY <3>1, <3>2
    <3>3. CASE s # <<>> /\ s[Len(s)] = n + 1
      <4>1. Len(s) \in 1 .. Len(s) /\ i > 1 /\ i - 1 = Len(s) BY <1>1, <2>2, <3>3
      <4>2. t[i - 1] = n + 1 BY <2>0, <3>3, <4>1
      <4> QED BY <3>1, <4>1, <4>2
    <3> QED BY <3>2, <3>3 DEF ComesNext
  <2> QED BY <1>2, <2>1, <2>2
<1>4. IsFiniteSet(StartsOf(s, top)) /\ Len(s) + 1 \notin StartsOf(s, top)
  <2>1. IsFiniteSet(1 .. Len(s)) BY <1>1, FS_Interval
  <2>2. StartsOf(s, top) \in SUBSET (1 .. Len(s)) BY <1>1 DEF StartsOf
  <2>3. Len(s) + 1 \notin 1 .. Len(s) BY <1>1
  <2> QED BY <2>1, <2>2, <2>3, FS_Subset
<1>5. StartsOf(t, top) = IF n = top THEN StartsOf(s, top) \cup {Len(s) + 1} ELSE StartsOf(s, top)
  BY <1>1, <1>2 DEF StartsOf
<1>6. Cardinality(StartsOf(s, top)) \in Nat BY <1>4, FS_CardinalityType
<1>7. Cardinality(StartsOf(t, top)) = Cardinality(StartsOf(s, top)) + (IF n = top THEN 1 ELSE 0)
  <2>1. Cardinality(StartsOf(s, top) \cup {Len(s) + 1}) = Cardinality(StartsOf(s, top)) + 1
    BY <1>4, FS_AddElement
  <2> QED BY <1>5, <1>6, <2>1
<1> QED BY <1>1, <1>3, <1>6, <1>7

LEMMA FirstIsNat ==
  ASSUME content \in Contents, NEW a \in DOMAIN content
  PROVE  /\ First(a) \in Nat /\ First(a) >= 1 /\ content[a] \in Text
         /\ Kind[a] = "message" =>
              /\ Chunked[content[a]].chunks \in Seq(Text)
              /\ First(a) = Len(Chunked[content[a]].chunks)
         /\ Kind[a] # "message" => First(a) = 1
<1>1. content[a] \in Text BY OutboxConstants DEF Text
<1>2. content[a] \in UNION {{f[b] : b \in DOMAIN f} : f \in Contents}
  OBVIOUS
<1>3. Chunked[content[a]] = ChunkMessage(content[a]) BY <1>2 DEF Chunked
<1>4. ChunkMessage(content[a]).chunks \in Seq(Text) /\ Len(ChunkMessage(content[a]).chunks) >= 1
  BY <1>1, ChunksToSend
<1> HIDE DEF Text
<1>5. Len(ChunkMessage(content[a]).chunks) \in Nat BY <1>4
<1> QED BY <1>1, <1>3, <1>4, <1>5 DEF First

LEMMA RunsInvInit == Init => RunsInv
<1> SUFFICES ASSUME Init PROVE RunsInv
  OBVIOUS
<1>1. /\ accepted = <<>> /\ settled = <<>> /\ pc = "idle" /\ content \in Contents
      /\ posted = [a \in Action |-> <<>>]
  BY DEF Init, OutboxInit
<1>2. Elements(accepted) = {} /\ DOMAIN settled = {} BY <1>1, EmptyElements
<1>3. posted \in [Action -> Seq(Nat)]
  <2>1. <<>> \in Seq(Nat)
    OBVIOUS
  <2> QED BY <1>1, <2>1
<1> QED BY <1>1, <1>2, <1>3 DEF RunsInv, Sending, Received

(* What an action got out stays as it is while nothing of it is sent.      *)
LEMMA NothingSent ==
  ASSUME RunsInv, UNCHANGED <<content, accepted, posted, settled>>,
         pc # "send", pc' # "send",
         \A a \in Elements(accepted) \ DOMAIN settled :
           RetryState(a)'.attempts = RetryState(a).attempts
  PROVE  RunsInv'
<1>1. Elements(accepted)' = Elements(accepted) BY DEF Elements
<1>2. \A a \in Action : First(a)' = First(a) /\ Begun(a) = 0 /\ Begun(a)' = 0
  BY DEF First, Begun, UnderWay
<1>3. \A a \in Action : Starts(a)' = Starts(a) BY <1>2 DEF Starts
<1>4. Elements(accepted) \subseteq Action BY OutboxConstants DEF RunsInv
<1> QED BY <1>1, <1>2, <1>3, <1>4 DEF RunsInv, Sending, Received, Ladder


(* Nothing that the runs are made of changes.                              *)
LEMMA RunsStay ==
  ASSUME RunsInv,
         UNCHANGED <<content, accepted, posted, settled, pc, chunks, toProcess, retryStates>>
  PROVE  RunsInv'
<1>1. Elements(accepted)' = Elements(accepted) BY DEF Elements
<1>2. \A a \in Action : /\ First(a)' = First(a) /\ Begun(a)' = Begun(a)
                        /\ RetryState(a)' = RetryState(a)
  BY DEF First, Begun, UnderWay, RetryState
<1>3. \A a \in Action : Starts(a)' = Starts(a) BY <1>2 DEF Starts
<1>4. Elements(accepted) \subseteq Action BY OutboxConstants DEF RunsInv
<1>5. Received' BY <1>1, <1>2, <1>3, <1>4 DEF RunsInv, Received, Ladder
<1>6. First(Head(toProcess))' = First(Head(toProcess)) BY DEF First
<1>7. Sending' BY <1>6 DEF RunsInv, Sending, ComesNext
<1> QED BY <1>1, <1>5, <1>7 DEF RunsInv

LEMMA SubmitRuns ==
  ASSUME OutboxInv, RunsInv, NEW a \in Action, Submit(a)
  PROVE  RunsInv'
<1>1. /\ accepted' = Append(accepted, a) /\ a \in DOMAIN content /\ a \notin Elements(accepted)
      /\ UNCHANGED <<content, posted, settled, pc, chunks, toProcess, retryStates>>
      /\ accepted \in Seq(Action)
  BY DEF Submit, sendVars, endVars, OutboxInv, ListsOK
<1>2. Elements(accepted') = Elements(accepted) \cup {a} BY <1>1, AppendElements
<1>3. \A b \in Action : /\ First(b)' = First(b) /\ Begun(b)' = Begun(b) /\ Begun(b) \in {0, 1}
                        /\ RetryState(b)' = RetryState(b)
  BY <1>1 DEF First, Begun, UnderWay, RetryState
<1>4. \A b \in Action : Starts(b)' = Starts(b) BY <1>1, <1>3 DEF Starts
<1>5. posted[a] = <<>> BY <1>1 DEF RunsInv, Received
<1>6. Ladder(posted[a], First(a)) /\ Starts(a) = {} BY <1>5 DEF Ladder, Starts
<1>7. Cardinality(Starts(a)) = 0 BY <1>6, FS_EmptySet
<1>8. a \notin DOMAIN retryStates BY <1>1 DEF OutboxInv, Ledger
<1>9. RetryState(a).attempts = 0 BY <1>8 DEF RetryState
<1>10. Elements(accepted) \subseteq Action BY OutboxConstants DEF RunsInv
<1>11. Received'
  <2>1. \A b \in Elements(accepted') : Ladder(posted'[b], First(b)')
    BY <1>1, <1>2, <1>3, <1>6, <1>10 DEF RunsInv, Received
  <2>2. ASSUME NEW b \in Elements(accepted') \ DOMAIN settled
        PROVE  Cardinality(Starts(b)') <= RetryState(b)'.attempts + Begun(b)'
    <3>1. CASE b = a BY <1>3, <1>4, <1>7, <1>9, <3>1
    <3>2. CASE b # a BY <1>2, <1>3, <1>4, <1>10, <2>2, <3>2 DEF RunsInv, Received
    <3> QED BY <3>1, <3>2
  <2>3. \A b \in Action \ Elements(accepted') : posted'[b] = <<>>
    BY <1>1, <1>2 DEF RunsInv, Received
  <2>4. Elements(accepted)' = Elements(accepted') BY DEF Elements
  <2> QED BY <1>1, <2>1, <2>2, <2>3, <2>4 DEF RunsInv, Received
<1>12. First(Head(toProcess))' = First(Head(toProcess)) BY <1>1 DEF First
<1>13. Sending' BY <1>1, <1>12 DEF RunsInv, Sending, ComesNext
<1> QED BY <1>1, <1>2, <1>11, <1>13 DEF RunsInv, Elements

LEMMA ElapseRuns ==
  ASSUME OutboxInv, RunsInv, Elapse
  PROVE  RunsInv'
<1>1. /\ UNCHANGED <<content, accepted, posted, settled>> /\ pc # "send" /\ pc' # "send"
      /\ DOMAIN retryStates' = DOMAIN retryStates
      /\ \A a \in DOMAIN retryStates :
           retryStates'[a] = [retryStates[a] EXCEPT !.wait = Less(@), !.age = More(@)]
  BY DEF Elapse, loopVars, sendVars
<1>2. ASSUME NEW a \in Elements(accepted) PROVE RetryState(a)'.attempts = RetryState(a).attempts
  <2>1. CASE a \in DOMAIN retryStates
    <3>1. retryStates[a] \in RetryRecord BY <2>1 DEF OutboxInv, Endings
    <3>2. retryStates'[a].attempts = retryStates[a].attempts BY <1>1, <2>1, <3>1 DEF RetryRecord
    <3> QED BY <1>1, <2>1, <3>2 DEF RetryState
  <2>2. CASE a \notin DOMAIN retryStates BY <1>1, <2>2 DEF RetryState
  <2> QED BY <2>1, <2>2
<1> QED BY <1>1, <1>2, NothingSent

(* An attempt begins: nothing of it is out, all its chunks are to be sent. *)
LEMMA ExecuteRuns ==
  ASSUME OutboxInv, RunsInv, NEW a \in Action, ExecuteAction(a)
  PROVE  RunsInv'
<1>1. /\ toProcess # <<>> /\ a = Head(toProcess) /\ pc = "pick" /\ pc' = "send"
      /\ chunks' = IF Kind[a] = "message" THEN Chunked[content[a]].chunks ELSE <<content[a]>>
      /\ UNCHANGED <<content, accepted, posted, settled, toProcess, retryStates>>
  BY DEF ExecuteAction, endVars
<1>2. a \in Elements(accepted) BY <1>1, HeadOfTick DEF OutboxInv, Ledger, InTick
<1>3. a \in DOMAIN content /\ content \in Contents BY <1>2 DEF RunsInv
<1>4. /\ First(a) \in Nat /\ First(a) >= 1 /\ content[a] \in Text
      /\ Kind[a] = "message" =>
           /\ Chunked[content[a]].chunks \in Seq(Text)
           /\ First(a) = Len(Chunked[content[a]].chunks)
      /\ Kind[a] # "message" => First(a) = 1
  BY <1>3, FirstIsNat
<1>5. chunks' \in Seq(Text) /\ Len(chunks') = First(a)
  <2>1. CASE Kind[a] = "message" BY <1>1, <1>4, <2>1
  <2>2. CASE Kind[a] # "message"
    <3> HIDE DEF Text
    <3>1. <<content[a]>> \in Seq(Text) /\ Len(<<content[a]>>) = 1 BY <1>4
    <3> QED BY <1>1, <1>4, <2>2, <3>1
  <2> QED BY <2>1, <2>2
<1>6. \A b \in Action : First(b)' = First(b) /\ RetryState(b)' = RetryState(b) /\ Begun(b) = 0
  BY <1>1 DEF First, RetryState, Begun, UnderWay
<1>7. \A b \in Action : Begun(b)' = 0
  BY <1>1, <1>4, <1>5, <1>6 DEF Begun, UnderWay
<1>8. \A b \in Action : Starts(b)' = Starts(b) BY <1>1, <1>6 DEF Starts
<1>9. Elements(accepted) \subseteq Action /\ Elements(accepted)' = Elements(accepted)
  BY <1>1, OutboxConstants DEF RunsInv, Elements
<1>10. Received' BY <1>1, <1>6, <1>7, <1>8, <1>9 DEF RunsInv, Received, Ladder
<1>11. Sending'
  <2>1. First(Head(toProcess))' = First(a) BY <1>1 DEF First
  <2> QED BY <1>1, <1>4, <1>5, <2>1 DEF Sending, ComesNext
<1> QED BY <1>1, <1>9, <1>10, <1>11 DEF RunsInv


(* The head of the tick while it is sent.                                  *)
LEMMA HeadSent ==
  ASSUME OutboxInv, RunsInv, pc = "send"
  PROVE  /\ toProcess # <<>> /\ Head(toProcess) \in Elements(accepted) \ DOMAIN settled
         /\ Head(toProcess) \in Action
         /\ First(Head(toProcess)) \in Nat /\ First(Head(toProcess)) >= 1
         /\ Len(chunks) \in Nat /\ Len(chunks) >= 1
         /\ Len(chunks) <= First(Head(toProcess))
         /\ RetryState(Head(toProcess)).attempts \in Nat
         /\ Head(toProcess) \in DOMAIN retryStates =>
              retryStates[Head(toProcess)] \in RetryRecord
<1>1. toProcess # <<>> BY DEF OutboxInv, ListsOK
<1>2. Head(toProcess) \in Action /\ Head(toProcess) \in Elements(toProcess)
      /\ Head(toProcess) \notin DOMAIN settled
  BY <1>1, HeadOfTick
<1>3. Head(toProcess) \in Elements(accepted) BY <1>2 DEF OutboxInv, Ledger, InTick
<1>4. content \in Contents /\ Head(toProcess) \in DOMAIN content BY <1>3 DEF RunsInv
<1>5. First(Head(toProcess)) \in Nat /\ First(Head(toProcess)) >= 1 BY <1>4, FirstIsNat
<1>6. chunks \in Seq(Text) /\ Len(chunks) >= 1 /\ Len(chunks) <= First(Head(toProcess))
  BY DEF RunsInv, Sending
<1>7. Head(toProcess) \in DOMAIN retryStates => retryStates[Head(toProcess)] \in RetryRecord
  BY DEF OutboxInv, Endings
<1>8. RetryState(Head(toProcess)).attempts \in Nat BY <1>7 DEF RetryState, RetryRecord
<1>9. Len(chunks) \in Nat
  <2> HIDE DEF Text
  <2> QED BY <1>6
<1> QED BY <1>1, <1>2, <1>3, <1>5, <1>6, <1>7, <1>8, <1>9

(* What a chunk that reaches Discord adds.                                 *)
LEMMA ChunkOut ==
  ASSUME OutboxInv, RunsInv, pc = "send", Post(Head(toProcess))
  PROVE  /\ posted' \in [Action -> Seq(Nat)]
         /\ \A b \in Action : b # Head(toProcess) => posted'[b] = posted[b]
         /\ Ladder(posted'[Head(toProcess)], First(Head(toProcess)))
         /\ posted'[Head(toProcess)] # <<>>
         /\ posted'[Head(toProcess)][Len(posted'[Head(toProcess)])] = Len(chunks)
         /\ Cardinality(StartsOf(posted'[Head(toProcess)], First(Head(toProcess))))
              <= RetryState(Head(toProcess)).attempts + 1
<1> DEFINE h == Head(toProcess)
<1>1. /\ h \in Action /\ h \in Elements(accepted) \ DOMAIN settled
      /\ First(h) \in Nat /\ First(h) >= 1 /\ Len(chunks) \in Nat /\ Len(chunks) <= First(h)
      /\ RetryState(h).attempts \in Nat
  BY HeadSent
<1>2. /\ posted \in [Action -> Seq(Nat)] /\ Ladder(posted[h], First(h))
      /\ ComesNext(Len(chunks), posted[h], First(h))
      /\ Cardinality(Starts(h)) <= RetryState(h).attempts + Begun(h)
  BY <1>1 DEF RunsInv, Received, Sending
<1>3. posted' = [posted EXCEPT ![h] = Append(posted[h], Len(chunks))]
  BY DEF Post
<1>4. posted[h] \in Seq(Nat) BY <1>1, <1>2
<1> DEFINE t == Append(posted[h], Len(chunks))
           top == First(h)
           n == Len(chunks)
<1> HIDE DEF h, top, n
<1>5. /\ t \in Seq(Nat) /\ Ladder(t, top) /\ t # <<>> /\ t[Len(t)] = n
      /\ Cardinality(StartsOf(posted[h], top)) \in Nat
      /\ Cardinality(StartsOf(t, top))
              = Cardinality(StartsOf(posted[h], top)) + (IF n = top THEN 1 ELSE 0)
  BY <1>1, <1>2, <1>4, LadderGrows, SMTT(30) DEF top, n
<1>6. Starts(h) = StartsOf(posted[h], top) BY DEF Starts, StartsOf, top
<1>7. Begun(h) = IF n < top THEN 1 ELSE 0 BY DEF Begun, UnderWay, h, n, top
<1>8. n \in Nat /\ top \in Nat /\ n <= top BY <1>1 DEF n, top
<1>9. Cardinality(StartsOf(t, top)) <= RetryState(h).attempts + 1
  BY <1>1, <1>2, <1>5, <1>6, <1>7, <1>8
<1>10. posted'[h] = t /\ posted' \in [Action -> Seq(Nat)]
       /\ \A b \in Action : b # h => posted'[b] = posted[b]
  BY <1>1, <1>2, <1>3, <1>5
<1> QED BY <1>5, <1>9, <1>10 DEF h, top, n

(* The runs of the actions that are not being sent stay as they are.       *)
LEMMA OthersStay ==
  ASSUME OutboxInv, RunsInv, pc = "send", UNCHANGED <<content, accepted>>,
         Post(Head(toProcess)) \/ UNCHANGED posted,
         pc' # "send" \/ UNCHANGED toProcess,
         \A b \in Elements(accepted) : b # Head(toProcess) =>
           /\ RetryState(b)'.attempts = RetryState(b).attempts
           /\ b \in DOMAIN settled' <=> b \in DOMAIN settled
           /\ b \in DOMAIN settled => settled'[b] = settled[b],
         DOMAIN settled' \subseteq Elements(accepted)
  PROVE  /\ posted' \in [Action -> Seq(Nat)]
         /\ \A b \in Action \ Elements(accepted) : posted'[b] = <<>>
         /\ \A b \in Elements(accepted) : Ladder(posted'[b], First(b)')
         /\ \A b \in Elements(accepted) \ DOMAIN settled' : b # Head(toProcess) =>
              Cardinality(Starts(b)') <= RetryState(b)'.attempts + Begun(b)'
         /\ \A b \in DOMAIN settled' : b # Head(toProcess) /\ settled'[b] = "done" =>
              posted'[b] # <<>> /\ posted'[b][Len(posted'[b])] = 1
         /\ Elements(accepted)' = Elements(accepted)
         /\ \A b \in Action : First(b)' = First(b)
<1> DEFINE h == Head(toProcess)
<1>1. h \in Action /\ h \in Elements(accepted) BY HeadSent
<1>2. Elements(accepted)' = Elements(accepted) /\ Elements(accepted) \subseteq Action
  BY OutboxConstants DEF RunsInv, Elements
<1>3. \A b \in Action : First(b)' = First(b) BY DEF First
<1>4. /\ posted' \in [Action -> Seq(Nat)]
      /\ \A b \in Action : b # h => posted'[b] = posted[b]
      /\ Ladder(posted'[h], First(h))
  <2>1. CASE Post(h) BY <2>1, ChunkOut
  <2>2. CASE UNCHANGED posted BY <1>1, <2>2 DEF RunsInv, Received
  <2> QED BY <2>1, <2>2
<1>5. ASSUME NEW b \in Elements(accepted), b # h
      PROVE  /\ Begun(b) = 0 /\ Begun(b)' = 0 /\ Starts(b)' = Starts(b)
  <2>1. b \in Action BY <1>2, <1>5
  <2>2. Begun(b) = 0 BY <1>5 DEF Begun, UnderWay
  <2>3. ~UnderWay(b)' BY <1>5 DEF UnderWay
  <2>4. Begun(b)' = 0 BY <2>3 DEF Begun
  <2>5. Starts(b)' = Starts(b) BY <1>3, <1>4, <1>5, <2>1 DEF Starts
  <2> QED BY <2>2, <2>4, <2>5
<1> HIDE DEF h
<1>6. ASSUME NEW b \in Elements(accepted) \ DOMAIN settled', b # h
      PROVE  Cardinality(Starts(b)') <= RetryState(b)'.attempts + Begun(b)'
  <2>1. b \notin DOMAIN settled /\ RetryState(b)'.attempts = RetryState(b).attempts
    BY <1>6 DEF h
  <2> QED BY <1>5, <1>6, <2>1 DEF RunsInv, Received
<1>7. ASSUME NEW b \in DOMAIN settled', b # h, settled'[b] = "done"
      PROVE  posted'[b] # <<>> /\ posted'[b][Len(posted'[b])] = 1
  <2>1. b \in Elements(accepted) /\ b \in Action BY <1>2, <1>7
  <2>2. b \in DOMAIN settled /\ settled[b] = "done" BY <1>7, <2>1 DEF h
  <2> QED BY <1>4, <1>7, <2>1, <2>2 DEF RunsInv, Received
<1>8. \A b \in Elements(accepted) : Ladder(posted'[b], First(b)')
  BY <1>1, <1>2, <1>3, <1>4 DEF RunsInv, Received
<1>9. \A b \in Action \ Elements(accepted) : posted'[b] = <<>>
  BY <1>1, <1>4 DEF RunsInv, Received
<1> QED BY <1>2, <1>3, <1>4, <1>6, <1>7, <1>8, <1>9 DEF h


LEMMA PostChunkRuns ==
  ASSUME OutboxInv, RunsInv, PostChunk
  PROVE  RunsInv'
<1> DEFINE h == Head(toProcess)
<1>1. /\ pc = "send" /\ pc' = "send" /\ Len(chunks) > 1 /\ Post(h) /\ chunks' = Tail(chunks)
      /\ UNCHANGED <<content, accepted, toProcess, retryStates, settled>>
  BY DEF PostChunk, loopVars, endVars
<1>2. /\ h \in Elements(accepted) \ DOMAIN settled /\ First(h) \in Nat
      /\ Len(chunks) \in Nat /\ Len(chunks) <= First(h) /\ RetryState(h).attempts \in Nat
      /\ chunks \in Seq(Text)
  BY <1>1, HeadSent DEF RunsInv, Sending
<1>3. /\ posted'[h] # <<>> /\ posted'[h][Len(posted'[h])] = Len(chunks)
      /\ Cardinality(StartsOf(posted'[h], First(h))) <= RetryState(h).attempts + 1
  BY <1>1, ChunkOut
<1>4. \A b \in Elements(accepted) : RetryState(b)' = RetryState(b)
  BY <1>1 DEF RetryState
<1>5. DOMAIN settled \subseteq Elements(accepted) BY DEF OutboxInv, Ledger
<1>6. /\ posted' \in [Action -> Seq(Nat)]
      /\ \A b \in Action \ Elements(accepted) : posted'[b] = <<>>
      /\ \A b \in Elements(accepted) : Ladder(posted'[b], First(b)')
      /\ \A b \in Elements(accepted) \ DOMAIN settled' : b # h =>
           Cardinality(Starts(b)') <= RetryState(b)'.attempts + Begun(b)'
      /\ \A b \in DOMAIN settled' : b # h /\ settled'[b] = "done" =>
           posted'[b] # <<>> /\ posted'[b][Len(posted'[b])] = 1
      /\ Elements(accepted)' = Elements(accepted)
      /\ \A b \in Action : First(b)' = First(b)
  BY <1>1, <1>4, <1>5, OthersStay
<1>7. h' = h /\ h \in Action /\ First(h)' = First(h) BY <1>1, <1>6, HeadSent
<1>8. chunks' \in Seq(Text) /\ Len(chunks') = Len(chunks) - 1
  <2> HIDE DEF Text
  <2> QED BY <1>1, <1>2
<1>9. ASSUME NEW b \in Action, b = h
      PROVE  Cardinality(Starts(b)') <= RetryState(b)'.attempts + Begun(b)'
  <2>0. First(b)' = First(b) BY <1>6
  <2>1. Starts(b)' = StartsOf(posted'[b], First(b)) BY <2>0 DEF Starts, StartsOf
  <2>2. Len(chunks') < First(b) BY <1>2, <1>8, <1>9
  <2>3. UnderWay(b)' BY <1>1, <1>9 DEF UnderWay
  <2>4. Begun(b)' = 1 BY <2>0, <2>2, <2>3 DEF Begun
  <2>5. RetryState(b)' = RetryState(b) BY <1>1 DEF RetryState
  <2> QED BY <1>3, <1>9, <2>1, <2>4, <2>5
<1>10. Sending'
  <2>1. Len(chunks') >= 1 /\ Len(chunks') <= First(h)
        /\ Len(chunks') + 1 = Len(chunks)
    BY <1>1, <1>2, <1>8
  <2>2. ComesNext(Len(chunks'), posted'[h], First(h)) BY <1>3, <2>1 DEF ComesNext
  <2>3. First(Head(toProcess))' = First(h) BY <1>7
  <2> QED BY <1>1, <1>8, <2>1, <2>2, <2>3 DEF Sending
<1>11. Received'
  <2>1. \A b \in Elements(accepted) \ DOMAIN settled' :
          Cardinality(Starts(b)') <= RetryState(b)'.attempts + Begun(b)'
    BY <1>2, <1>6, <1>7, <1>9
  <2>2. \A b \in DOMAIN settled' : settled'[b] = "done" =>
          posted'[b] # <<>> /\ posted'[b][Len(posted'[b])] = 1
    BY <1>1, <1>2, <1>6
  <2> QED BY <1>6, <2>1, <2>2 DEF Received
<1> QED BY <1>1, <1>6, <1>10, <1>11 DEF RunsInv

(* An attempt ends: the head leaves the tick, settled or not.              *)
LEMMA AttemptEnds ==
  ASSUME OutboxInv, RunsInv, pc = "send", pc' = "pick",
         UNCHANGED <<content, accepted>>,
         Post(Head(toProcess)) \/ UNCHANGED posted,
         \A b \in Elements(accepted) : b # Head(toProcess) =>
           /\ RetryState(b)'.attempts = RetryState(b).attempts
           /\ b \in DOMAIN settled' <=> b \in DOMAIN settled
           /\ b \in DOMAIN settled => settled'[b] = settled[b],
         DOMAIN settled' \subseteq DOMAIN settled \cup {Head(toProcess)},
         \A b \in Elements(accepted) \ DOMAIN settled' : b = Head(toProcess) =>
           RetryState(b)'.attempts = RetryState(b).attempts + 1,
         Head(toProcess) \in DOMAIN settled' /\ settled'[Head(toProcess)] = "done" =>
           Post(Head(toProcess)) /\ Len(chunks) = 1
  PROVE  RunsInv'
<1> DEFINE h == Head(toProcess)
<1>1. /\ h \in Elements(accepted) \ DOMAIN settled /\ First(h) \in Nat /\ h \in Action
      /\ RetryState(h).attempts \in Nat
  BY HeadSent
<1>2. DOMAIN settled' \subseteq Elements(accepted) BY <1>1 DEF OutboxInv, Ledger
<1>3. /\ posted' \in [Action -> Seq(Nat)]
      /\ \A b \in Action \ Elements(accepted) : posted'[b] = <<>>
      /\ \A b \in Elements(accepted) : Ladder(posted'[b], First(b)')
      /\ \A b \in Elements(accepted) \ DOMAIN settled' : b # h =>
           Cardinality(Starts(b)') <= RetryState(b)'.attempts + Begun(b)'
      /\ \A b \in DOMAIN settled' : b # h /\ settled'[b] = "done" =>
           posted'[b] # <<>> /\ posted'[b][Len(posted'[b])] = 1
      /\ Elements(accepted)' = Elements(accepted)
      /\ \A b \in Action : First(b)' = First(b)
  BY <1>2, OthersStay
<1>4. Cardinality(StartsOf(posted'[h], First(h))) <= RetryState(h).attempts + 1
  <2>1. CASE Post(h) BY <2>1, ChunkOut
  <2>2. CASE UNCHANGED posted
    <3>1. StartsOf(posted'[h], First(h)) = Starts(h) BY <2>2 DEF Starts, StartsOf
    <3>2. Cardinality(Starts(h)) <= RetryState(h).attempts + Begun(h)
      BY <1>1 DEF RunsInv, Received
    <3>3. Begun(h) \in {0, 1} BY DEF Begun
    <3>4. posted[h] \in Seq(Nat) /\ Ladder(posted[h], First(h))
          /\ ComesNext(Len(chunks), posted[h], First(h)) /\ Len(chunks) \in Nat
      BY <1>1, HeadSent DEF RunsInv, Received, Sending
    <3>5. Cardinality(StartsOf(posted[h], First(h))) \in Nat BY <1>1, <3>4, LadderGrows
    <3> HIDE DEF h
    <3>6. Starts(h) = StartsOf(posted[h], First(h)) BY DEF Starts, StartsOf
    <3> QED BY <1>1, <3>1, <3>2, <3>3, <3>5, <3>6
  <2> QED BY <2>1, <2>2
<1>5. ASSUME NEW b \in Elements(accepted) \ DOMAIN settled', b = h
      PROVE  Cardinality(Starts(b)') <= RetryState(b)'.attempts + Begun(b)'
  <2>1. Begun(b)' = 0 BY DEF Begun, UnderWay
  <2>2. First(b)' = First(b) BY <1>1, <1>3, <1>5
  <2>3. Starts(b)' = StartsOf(posted'[b], First(b)) BY <2>2 DEF Starts, StartsOf
  <2>4. RetryState(b)'.attempts = RetryState(b).attempts + 1 BY <1>5
  <2> QED BY <1>1, <1>4, <1>5, <2>1, <2>3, <2>4
<1>6. h \in DOMAIN settled' /\ settled'[h] = "done" =>
        posted'[h] # <<>> /\ posted'[h][Len(posted'[h])] = 1
  BY ChunkOut
<1>7. Received'
  <2>1. \A b \in Elements(accepted) \ DOMAIN settled' :
          Cardinality(Starts(b)') <= RetryState(b)'.attempts + Begun(b)'
    BY <1>3, <1>5
  <2>2. \A b \in DOMAIN settled' : settled'[b] = "done" =>
          posted'[b] # <<>> /\ posted'[b][Len(posted'[b])] = 1
    BY <1>3, <1>6
  <2> QED BY <1>3, <2>1, <2>2 DEF Received
<1>8. Sending' BY DEF Sending
<1> QED BY <1>3, <1>7, <1>8 DEF RunsInv

LEMMA PostLastRuns ==
  ASSUME OutboxInv, RunsInv, NEW a \in Action, PostLast(a)
  PROVE  RunsInv'
<1>1. /\ pc = "send" /\ pc' = "pick" /\ Len(chunks) = 1 /\ a = Head(toProcess) /\ Post(a)
      /\ UNCHANGED <<content, accepted>>
      /\ settled' = Put(settled, a, "done") /\ retryStates' = Without(retryStates, a)
  BY DEF PostLast, Settle
<1>2. DOMAIN settled' = DOMAIN settled \cup {a}
      /\ \A b \in DOMAIN settled : b # a => settled'[b] = settled[b]
  BY <1>1 DEF Put
<1>3. DOMAIN retryStates' = DOMAIN retryStates \ {a}
      /\ \A b \in DOMAIN retryStates \ {a} : retryStates'[b] = retryStates[b]
  BY <1>1 DEF Without
<1>4. \A b \in Elements(accepted) : b # a => RetryState(b)'.attempts = RetryState(b).attempts
  BY <1>3 DEF RetryState
<1> QED BY <1>1, <1>2, <1>4, AttemptEnds

LEMMA FailedRuns ==
  ASSUME OutboxInv, RunsInv, NEW a \in Action, NEW error \in {"client", "other"},
         HandleActionError(a, error)
  PROVE  RunsInv'
<1>1. /\ pc = "send" /\ pc' = "pick" /\ a = Head(toProcess)
      /\ UNCHANGED <<content, accepted>>
      /\ Post(a) \/ UNCHANGED posted
  BY DEF HandleActionError
<1>2. a \in Elements(accepted) \ DOMAIN settled BY <1>1, HeadSent
<1>3. CASE Settle(a, "failed")
  <2>1. settled' = Put(settled, a, "failed") /\ retryStates' = Without(retryStates, a)
    BY <1>3 DEF Settle
  <2>2. DOMAIN settled' = DOMAIN settled \cup {a} /\ settled'[a] = "failed"
        /\ \A b \in DOMAIN settled : b # a => settled'[b] = settled[b]
    BY <2>1 DEF Put
  <2>3. DOMAIN retryStates' = DOMAIN retryStates \ {a}
        /\ \A b \in DOMAIN retryStates \ {a} : retryStates'[b] = retryStates[b]
    BY <2>1 DEF Without
  <2>4. \A b \in Elements(accepted) : b # a => RetryState(b)'.attempts = RetryState(b).attempts
    BY <2>3 DEF RetryState
  <2> QED BY <1>1, <2>2, <2>4, AttemptEnds
<1>4. CASE retryStates' = Put(retryStates, a, Failed(RetryState(a))) /\ UNCHANGED settled
  <2>1. /\ DOMAIN retryStates' = DOMAIN retryStates \cup {a}
        /\ retryStates'[a] = Failed(RetryState(a))
        /\ \A b \in DOMAIN retryStates : b # a => retryStates'[b] = retryStates[b]
    BY <1>4 DEF Put
  <2>2. \A b \in Elements(accepted) : b # a => RetryState(b)'.attempts = RetryState(b).attempts
    BY <2>1 DEF RetryState
  <2>3. Failed(RetryState(a)).attempts = RetryState(a).attempts + 1
    <3>1. CASE a \in DOMAIN retryStates
      <4>1. RetryState(a) \in RetryRecord BY <1>1, <3>1, HeadSent DEF RetryState
      <4> QED BY <4>1 DEF Failed, RetryRecord
    <3>2. CASE a \notin DOMAIN retryStates
      BY <3>2 DEF RetryState, Failed
    <3> QED BY <3>1, <3>2
  <2>4. \A b \in Elements(accepted) : b = a => RetryState(b)' = retryStates'[b]
    BY <2>1 DEF RetryState
  <2>5. \A b \in Elements(accepted) \ DOMAIN settled' : b = Head(toProcess) =>
          RetryState(b)'.attempts = RetryState(b).attempts + 1
    BY <1>1, <2>1, <2>3, <2>4
  <2>6. /\ \A b \in Elements(accepted) : b # Head(toProcess) =>
             /\ RetryState(b)'.attempts = RetryState(b).attempts
             /\ b \in DOMAIN settled' <=> b \in DOMAIN settled
             /\ b \in DOMAIN settled => settled'[b] = settled[b]
        /\ DOMAIN settled' \subseteq DOMAIN settled \cup {Head(toProcess)}
        /\ Head(toProcess) \notin DOMAIN settled'
    BY <1>1, <1>2, <1>4, <2>2
  <2> QED BY <1>1, <2>5, <2>6, AttemptEnds
<1> QED BY <1>3, <1>4 DEF HandleActionError

LEMMA RunsInvStep == OutboxInv /\ RunsInv /\ [Next]_vars => RunsInv'
<1> SUFFICES ASSUME OutboxInv, RunsInv, [Next]_vars
             PROVE  RunsInv'
  OBVIOUS
<1>1. CASE Snapshot BY <1>1, NothingSent DEF Snapshot, sendVars, endVars, RetryState
<1>2. CASE Skip BY <1>2, NothingSent DEF Skip, sendVars, endVars, RetryState
<1>3. ASSUME NEW a \in Action, ExecuteAction(a) PROVE RunsInv' BY <1>3, ExecuteRuns
<1>4. ASSUME NEW a \in Action, PostLast(a) PROVE RunsInv' BY <1>4, PostLastRuns
<1>5. CASE PostChunk BY <1>5, PostChunkRuns
<1>6. CASE PutBack BY <1>6, NothingSent DEF PutBack, sendVars, endVars, RetryState
<1>7. CASE PollLoopReturns
  BY <1>7, NothingSent DEF PollLoopReturns, sendVars, endVars, RetryState
<1>8. ASSUME NEW a \in Action, NEW error \in {"client", "other"}, HandleActionError(a, error)
      PROVE  RunsInv'
  BY <1>8, FailedRuns
<1>9. CASE Elapse BY <1>9, ElapseRuns
<1>10. CASE Stop BY <1>10, RunsStay DEF Stop, loopVars, sendVars, endVars
<1>11. ASSUME NEW a \in Action, Submit(a) PROVE RunsInv' BY <1>11, SubmitRuns
<1>12. ASSUME NEW c \in Channel, StorePendingInteraction(c) \/ TokenExpires(c) PROVE RunsInv'
  BY <1>12, RunsStay DEF StorePendingInteraction, TokenExpires, loopVars, sendVars, endVars
<1>13. CASE UNCHANGED outboxVars
  BY <1>13, RunsStay DEF outboxVars, loopVars, sendVars, endVars
<1> QED
  BY <1>1, <1>2, <1>3, <1>4, <1>5, <1>6, <1>7, <1>8, <1>9, <1>10, <1>11, <1>12, <1>13
     DEF Next, OutboxNext, Loop, Sends, Fails, vars

LEMMA RunsAreRetries == OutboxInv /\ RunsInv => PrefixRepeatedOnlyByRetry
<1> SUFFICES ASSUME OutboxInv, RunsInv, NEW a \in Action, posted[a] # <<>>
             PROVE  /\ \A i \in DOMAIN posted[a] :
                         i \in Starts(a) \/ (i > 1 /\ posted[a][i] = posted[a][i - 1] - 1)
                    /\ a \in DOMAIN retryStates =>
                         Cardinality(Starts(a)) <= retryStates[a].attempts + 1
                    /\ a \in DOMAIN settled /\ settled[a] = "done" =>
                         posted[a][Len(posted[a])] = 1
  BY DEF PrefixRepeatedOnlyByRetry
<1>1. a \in Elements(accepted) BY DEF RunsInv, Received
<1>2. Ladder(posted[a], First(a)) BY <1>1 DEF RunsInv, Received
<1>3. \A i \in DOMAIN posted[a] :
        i \in Starts(a) \/ (i > 1 /\ posted[a][i] = posted[a][i - 1] - 1)
  BY <1>2 DEF Ladder, Starts
<1>4. ASSUME a \in DOMAIN retryStates
      PROVE  Cardinality(Starts(a)) <= retryStates[a].attempts + 1
  <2>1. a \notin DOMAIN settled /\ retryStates[a] \in RetryRecord
    BY <1>4 DEF OutboxInv, Ledger, Endings
  <2>2. Cardinality(Starts(a)) <= RetryState(a).attempts + Begun(a)
    BY <1>1, <2>1 DEF RunsInv, Received
  <2>3. RetryState(a).attempts = retryStates[a].attempts /\ retryStates[a].attempts \in Nat
    BY <1>4, <2>1 DEF RetryState, RetryRecord
  <2>4. Begun(a) \in {0, 1} BY DEF Begun
  <2>5. Cardinality(Starts(a)) \in Nat
    <3>1. posted[a] \in Seq(Nat) BY DEF RunsInv, Received
    <3>2. IsFiniteSet(1 .. Len(posted[a])) BY <3>1, FS_Interval
    <3>3. Starts(a) \in SUBSET (1 .. Len(posted[a])) BY <3>1 DEF Starts
    <3> QED BY <3>2, <3>3, FS_Subset, FS_CardinalityType
  <2> QED BY <2>2, <2>3, <2>4, <2>5
<1>5. a \in DOMAIN settled /\ settled[a] = "done" => posted[a][Len(posted[a])] = 1
  BY DEF RunsInv, Received
<1> QED BY <1>3, <1>4, <1>5

(* Discord gets an action's chunks from the first on and in order, starts  *)
(* of an action it sees again are retries of an attempt that failed, and   *)
(* what is reported done went out to the last chunk: for messages of any   *)
(* length, cut by ChunkMessage.                                            *)
THEOREM PrefixesAreRetries == Spec => []PrefixRepeatedOnlyByRetry
<1>1. Init => OutboxInv /\ RunsInv BY OutboxInvInit, RunsInvInit
<1>2. OutboxInv /\ RunsInv /\ [Next]_vars => OutboxInv' /\ RunsInv'
  BY OutboxInvStep, RunsInvStep
<1> QED BY <1>1, <1>2, RunsAreRetries, PTL DEF Spec

(* What each message is, for the chunks of all of them to fit.             *)
PlainTexts ==
  /\ MaxLength >= 5
  /\ \A f \in Contents : \A a \in DOMAIN f : Kind[a] = "message" => Plain(f[a])

(* Every message is cut to its end into chunks that fit Discord's limit,   *)
(* none of them blank, that hold each of its letters once: for messages of *)
(* any length that do not begin with a blank, when fewer marks than half   *)
(* the limit, and no letters, are between a code fence and the end of its  *)
(* line.                                                                   *)
THEOREM ChunksFitTheLimit ==
  ASSUME PlainTexts
  PROVE  Spec => []ChunksFit
<1>1. OutboxInv /\ RunsInv => ChunksFit
  <2> SUFFICES ASSUME OutboxInv, RunsInv, pc = "send", Kind[Head(toProcess)] = "message"
               PROVE  LET cut == Chunked[content[Head(toProcess)]] IN
                        /\ cut.rest = <<>>
                        /\ \A i \in DOMAIN cut.chunks : Len(cut.chunks[i]) \in 1 .. MaxLength
                        /\ Letters(content[Head(toProcess)]) = Letters(Sequence!FlattenSeq(cut.chunks))
    BY DEF ChunksFit
  <2> DEFINE a == Head(toProcess)
  <2>1. toProcess # <<>> BY DEF OutboxInv, ListsOK
  <2>2. a \in Elements(toProcess) BY <2>1, HeadOfTick
  <2>3. content \in Contents /\ a \in DOMAIN content
    BY <2>2 DEF OutboxInv, Ledger, InTick, RunsInv
  <2> HIDE DEF a
  <2>4. content[a] \in Text /\ Chunked[content[a]] = ChunkMessage(content[a])
    <3>1. content[a] \in UNION {{f[b] : b \in DOMAIN f} : f \in Contents} BY <2>3
    <3> QED BY <2>3, <3>1, FirstIsNat DEF Chunked
  <2>5. MaxLength >= 5 /\ Plain(content[a]) BY <2>3 DEF PlainTexts, a
  <2>6. /\ Fenced(content[a], Mark \ {"x"}) /\ content[a] # <<>> /\ content[a][1] \notin Blank
        /\ "x" \notin Mark \ {"x"}
    BY <2>5 DEF Plain
  <2> QED BY <2>4, <2>5, <2>6, CuttingKeepsTheText DEF a
<1>2. Init => OutboxInv /\ RunsInv BY OutboxInvInit, RunsInvInit
<1>3. OutboxInv /\ RunsInv /\ [Next]_vars => OutboxInv' /\ RunsInv'
  BY OutboxInvStep, RunsInvStep
<1> QED BY <1>1, <1>2, <1>3, PTL DEF Spec
=============================================================================
