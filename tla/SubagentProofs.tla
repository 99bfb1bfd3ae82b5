---------------------------- MODULE SubagentProofs ----------------------------
(***************************************************************************)
(* Theorems about the subagent sessions, for any number of sessions,       *)
(* questions and thoughts and any capacity of the notification channels:   *)
(* questions reach the executive, answers their question, a session ends   *)
(* once and is reported as it ended, and no thought is saved twice.  Then, *)
(* about sessions on an opencode provider, for any number of objects,      *)
(* prompters and permissions: a permission is put to a handler once, and   *)
(* what changes the status of a session that has ended.                    *)
(***************************************************************************)
EXTENDS ProviderSessions, TLAPS

(* The labels of the session's own variables, apart from the channels and  *)
(* the memories.                                                           *)
SessionTypes ==
  /\ pc \in [Session -> {"none", "connect", "running", "notify", "wait", "report", "done"}]
  /\ status \in [Session -> Status]
  /\ stopping \in [Session -> BOOLEAN] /\ stopped \in [Session -> BOOLEAN]
  /\ cancelled \in [Session -> BOOLEAN]
  /\ asked \in [Session -> Nat] /\ pendingQuestion \in [Session -> Nat]
  /\ answerReady \in [Session -> Nat]
  /\ keys \in [Session -> SUBSET {"temp", "claude"}]
  /\ claudeIDReady \in [Session -> BOOLEAN]
  /\ spawn \in [Session -> {"none", "waiting", "temp", "claude"}]

ChannelTypes ==
  /\ questionNotify \in Seq(Session) /\ doneNotify \in Seq(Session)
  /\ announced \subseteq Session \X Nat
  /\ reports \in [Session -> Seq(Final)]

MemoryTypes ==
  /\ thoughts \in [Session -> Nat] /\ stagedMemories \in [Session -> SUBSET Nat]
  /\ saved = [s \in Session |-> saved[s]]
  /\ \A s \in Session : saved[s] \in [1 .. Thoughts[s] -> Nat]

TypeInv == SessionTypes /\ ChannelTypes /\ MemoryTypes

LEMMA TypeInit == Init => TypeInv
BY SubagentConstants
   DEF Init, TypeInv, SessionTypes, ChannelTypes, MemoryTypes, All, Status, Final

(* Steps that leave the channels, or the memories, alone preserve their    *)
(* types.                                                                  *)
LEMMA ChannelsKept == ChannelTypes /\ UNCHANGED chanVars => ChannelTypes'
BY DEF ChannelTypes, chanVars

LEMMA MemoriesKept == MemoryTypes /\ UNCHANGED memVars => MemoryTypes'
BY DEF MemoryTypes, memVars

LEMMA SessionsKept == SessionTypes /\ UNCHANGED <<lifeVars, askVars, idVars>> => SessionTypes'
BY DEF SessionTypes, lifeVars, askVars, idVars

LEMMA SpawnTypes ==
  ASSUME TypeInv, NEW s \in Session, SpawnStep(s) PROVE TypeInv'
<1> USE DEF Set
<1>1. SessionTypes'
  <2>1. CASE Spawn(s) BY <2>1 DEF Spawn, TypeInv, SessionTypes, askVars, Status
  <2>2. CASE StreamEvent(s)
    BY <2>2 DEF StreamEvent, TypeInv, SessionTypes, askVars, lifeVars
  <2>3. CASE SpawnRekeys(s)
    BY <2>3 DEF SpawnRekeys, TypeInv, SessionTypes, askVars, lifeVars
  <2>4. CASE SpawnTimesOut(s)
    BY <2>4 DEF SpawnTimesOut, TypeInv, SessionTypes, askVars, lifeVars
  <2> QED BY <2>1, <2>2, <2>3, <2>4 DEF SpawnStep
<1>2. UNCHANGED <<chanVars, memVars>>
  BY DEF SpawnStep, Spawn, StreamEvent, SpawnRekeys, SpawnTimesOut
<1> QED BY <1>1, <1>2, ChannelsKept, MemoriesKept DEF TypeInv

LEMMA FinalTypes ==
  ASSUME TypeInv, NEW s \in Session, NEW st \in Final, SetFinal(s, st) PROVE TypeInv'
<1>1. SessionTypes'
  BY DEF SetFinal, Set, TypeInv, SessionTypes, askVars, idVars, Status, Final
<1>2. UNCHANGED <<chanVars, memVars>> BY DEF SetFinal
<1> QED BY <1>1, <1>2, ChannelsKept, MemoriesKept DEF TypeInv

(* A non-blocking or blocking send appends the session, or does nothing.   *)
LEMMA SendKeepsSeq ==
  ASSUME NEW c \in Seq(Session), NEW s \in Session, NEW d \in Sends(c, s)
  PROVE  d \in Seq(Session)
BY DEF Sends

LEMMA RunTypes ==
  ASSUME TypeInv, NEW s \in Session, RunStep(s) PROVE TypeInv'
<1>1. CASE Connect(s)
  <2>1. CASE SetFinal(s, "failed") BY <2>1, FinalTypes DEF Final
  <2>2. CASE pc' = Set(pc, s, "running") /\ UNCHANGED <<status, stopping, stopped, cancelled>>
             /\ UNCHANGED <<askVars, idVars, chanVars, memVars>>
    <3>1. SessionTypes' BY <2>2 DEF Set, TypeInv, SessionTypes, askVars, idVars
    <3> QED BY <2>2, <3>1, ChannelsKept, MemoriesKept DEF TypeInv
  <2> QED BY <1>1, <2>1, <2>2 DEF Connect
<1>2. CASE Finish(s) BY <1>2, FinalTypes DEF Finish, Final
<1>3. CASE Ask(s)
  <2>1. SessionTypes'
    BY <1>3, SubagentConstants DEF Ask, Set, TypeInv, SessionTypes, idVars, Status
  <2> QED BY <1>3, <2>1, ChannelsKept, MemoriesKept DEF Ask, TypeInv
<1>4. CASE NotifyQuestion(s)
  <2>1. SessionTypes'
    BY <1>4 DEF NotifyQuestion, Set, TypeInv, SessionTypes, askVars, idVars
  <2>2. questionNotify' \in Seq(Session)
    BY <1>4, SendKeepsSeq DEF NotifyQuestion, TypeInv, ChannelTypes
  <2>3. ChannelTypes' BY <1>4, <2>2 DEF NotifyQuestion, TypeInv, ChannelTypes
  <2> QED BY <1>4, <2>1, <2>3, MemoriesKept DEF NotifyQuestion, TypeInv
<1>5. CASE TakeAnswer(s)
  <2>1. SessionTypes' BY <1>5 DEF TakeAnswer, Set, TypeInv, SessionTypes, idVars
  <2> QED BY <1>5, <2>1, ChannelsKept, MemoriesKept DEF TakeAnswer, TypeInv
<1>6. CASE GiveUp(s)
  <2>1. SessionTypes' BY <1>6 DEF GiveUp, Set, TypeInv, SessionTypes, askVars, idVars
  <2> QED BY <1>6, <2>1, ChannelsKept, MemoriesKept DEF GiveUp, TypeInv
<1>7. CASE AddStagedMemory(s)
  <2>1. MemoryTypes' BY <1>7 DEF AddStagedMemory, Set, TypeInv, MemoryTypes
  <2> QED BY <1>7, <2>1, ChannelsKept, SessionsKept DEF AddStagedMemory, TypeInv
<1>8. CASE SendDone(s)
  <2>1. SessionTypes'
    BY <1>8 DEF SendDone, Set, TypeInv, SessionTypes, askVars, idVars
  <2>2. doneNotify' \in Seq(Session)
    BY <1>8, SendKeepsSeq DEF SendDone, TypeInv, ChannelTypes
  <2>3. ChannelTypes' BY <1>8, <2>2 DEF SendDone, TypeInv, ChannelTypes
  <2> QED BY <1>8, <2>1, <2>3, MemoriesKept DEF SendDone, TypeInv
<1> QED BY <1>1, <1>2, <1>3, <1>4, <1>5, <1>6, <1>7, <1>8 DEF RunStep

LEMMA CallTypes ==
  ASSUME TypeInv, NEW s \in Session,
         Answer(s) \/ StopRequest(s) \/ Stop(s) \/ ApproveMemories(s) \/ Cleanup(s)
  PROVE  TypeInv'
<1>1. CASE ApproveMemories(s)
  <2>1. PICK ok \in SUBSET stagedMemories[s] :
          saved' = [saved EXCEPT ![s] =
                      [n \in DOMAIN @ |-> IF n \in ok THEN @[n] + 1 ELSE @[n]]]
    BY <1>1 DEF ApproveMemories
  <2> DEFINE new == [n \in DOMAIN saved[s] |->
                       IF n \in ok THEN saved[s][n] + 1 ELSE saved[s][n]]
  <2>2. new \in [1 .. Thoughts[s] -> Nat]
    BY SubagentConstants DEF TypeInv, MemoryTypes
  <2>3. saved' = [saved EXCEPT ![s] = new] BY <2>1
  <2>4. DOMAIN saved = Session BY DEF TypeInv, MemoryTypes
  <2> HIDE DEF new
  <2>5. /\ saved' = [r \in Session |-> saved'[r]]
        /\ \A r \in Session : saved'[r] \in [1 .. Thoughts[r] -> Nat]
    BY <2>2, <2>3, <2>4 DEF TypeInv, MemoryTypes
  <2>6. MemoryTypes'
    BY <1>1, <2>5 DEF ApproveMemories, Set, Drained, TypeInv, MemoryTypes
  <2> QED BY <1>1, <2>6, ChannelsKept, SessionsKept DEF ApproveMemories, TypeInv
<1>2. CASE Answer(s) \/ StopRequest(s) \/ Stop(s) \/ Cleanup(s)
  <2>1. SessionTypes'
    <3> USE DEF Set, TypeInv, SessionTypes
    <3>1. CASE Answer(s)
      <4>1. status' \in [Session -> Status] BY <3>1 DEF Answer, Status
      <4>2. answerReady' \in [Session -> Nat] BY <3>1 DEF Answer
      <4> QED BY <3>1, <4>1, <4>2 DEF Answer, idVars
    <3>2. CASE StopRequest(s) BY <3>2 DEF StopRequest, askVars, idVars
    <3>3. CASE Stop(s) BY <3>3 DEF Stop, askVars, idVars
    <3>4. CASE Cleanup(s) BY <3>4 DEF Cleanup, lifeVars, askVars
    <3> QED BY <1>2, <3>1, <3>2, <3>3, <3>4
  <2>2. UNCHANGED <<chanVars, memVars>>
    BY <1>2 DEF Answer, StopRequest, Stop, Cleanup
  <2> QED BY <2>1, <2>2, ChannelsKept, MemoriesKept DEF TypeInv
<1> QED BY <1>1, <1>2

LEMMA WatchTypes ==
  ASSUME TypeInv, WatchQuestions \/ WatchDone PROVE TypeInv'
<1>1. CASE WatchQuestions
  <2>1. Head(questionNotify) \in Session /\ Tail(questionNotify) \in Seq(Session)
    BY <1>1 DEF WatchQuestions, TypeInv, ChannelTypes
  <2>2. ChannelTypes'
    BY <1>1, <2>1, SMTT(30) DEF WatchQuestions, TypeInv, ChannelTypes, SessionTypes
  <2> QED BY <1>1, <2>2, SessionsKept, MemoriesKept DEF WatchQuestions, TypeInv
<1>2. CASE WatchDone
  <2>1. Head(doneNotify) \in Session /\ Tail(doneNotify) \in Seq(Session)
    BY <1>2 DEF WatchDone, TypeInv, ChannelTypes
  <2>2. Label(status[Head(doneNotify)]) \in Final BY DEF Label, Final
  <2>3. Append(reports[Head(doneNotify)], Label(status[Head(doneNotify)])) \in Seq(Final)
    BY <2>1, <2>2 DEF TypeInv, ChannelTypes
  <2>4. ChannelTypes' BY <1>2, <2>1, <2>3 DEF WatchDone, Set, TypeInv, ChannelTypes
  <2> QED BY <1>2, <2>4, SessionsKept, MemoriesKept DEF WatchDone, TypeInv
<1> QED BY <1>1, <1>2

LEMMA NextTypes == TypeInv /\ [Next]_vars => TypeInv'
<1> SUFFICES ASSUME TypeInv, [Next]_vars PROVE TypeInv'
  OBVIOUS
<1>1. CASE UNCHANGED vars
  BY <1>1, SessionsKept, ChannelsKept, MemoriesKept DEF TypeInv, vars
<1>2. CASE Next BY <1>2, SpawnTypes, RunTypes, CallTypes, WatchTypes DEF Next
<1> QED BY <1>1, <1>2

(* Every session has a status of its own kind, its questions, answers and  *)
(* thoughts are numbers, and what is reported of it is a final status.     *)
THEOREM SubagentTypeCorrect == Spec => []SubagentTypeOK
<1>1. Spec => []TypeInv BY TypeInit, NextTypes, PTL DEF Spec
<1>2. TypeInv => SubagentTypeOK
  BY DEF TypeInv, SessionTypes, ChannelTypes, MemoryTypes, SubagentTypeOK
<1> QED BY <1>1, <1>2, PTL

-----------------------------------------------------------------------------
(* The inductive invariant of a session's life.                            *)

(* A goroutine that has left its loop is one with a final status.          *)
Ends(s) ==
  /\ spawn[s] = "none" => pc[s] = "none"
  /\ pc[s] = "none" => status[s] = "none"
  /\ pc[s] \in {"report", "done"} <=> status[s] \in Final

(* The IDs under which the map holds it, as Spawn proceeds.                *)
IDs(s) ==
  /\ spawn[s] = "none" => keys[s] = {}
  /\ spawn[s] = "waiting" => keys[s] = {"temp"}
  /\ spawn[s] \in {"temp", "claude"} => keys[s] \in {{}, {spawn[s]}}

(* While it is not cancelled, a session takes an answer only to the        *)
(* question it is blocked on.                                              *)
Hook(s) ==
  /\ pc[s] = "none" => answerReady[s] = 0
  /\ ~cancelled[s] /\ pc[s] \in {"connect", "running"} =>
       status[s] # "waiting" /\ answerReady[s] = 0
  /\ ~cancelled[s] /\ pc[s] \in {"notify", "wait"} =>
       \/ status[s] = "waiting" /\ answerReady[s] = 0
       \/ status[s] = "running" /\ answerReady[s] = asked[s]

Life(s) == Ends(s) /\ IDs(s) /\ Hook(s)

(* What a session's life depends on.                                       *)
Own(s) == <<pc[s], status[s], cancelled[s], asked[s], answerReady[s], keys[s], spawn[s]>>

LEMMA LifeKept ==
  ASSUME NEW s \in Session, Life(s), UNCHANGED Own(s) PROVE Life(s)'
BY DEF Life, Ends, IDs, Hook, Own

(* A step of one session leaves the life of the others alone.              *)
LEMMA OthersKept ==
  ASSUME TypeInv, NEW s \in Session, NEW r \in Session, r # s,
         \/ SpawnStep(s) \/ RunStep(s) \/ Answer(s) \/ StopRequest(s) \/ Stop(s)
         \/ ApproveMemories(s) \/ Cleanup(s)
  PROVE  UNCHANGED Own(r)
<1> USE DEF TypeInv, SessionTypes, Set, Own
<1>1. CASE SpawnStep(s)
  BY <1>1 DEF SpawnStep, Spawn, StreamEvent, SpawnRekeys, SpawnTimesOut, lifeVars, askVars
<1>2. CASE Connect(s) \/ Finish(s)
  BY <1>2 DEF Connect, Finish, SetFinal, askVars, idVars
<1>3. CASE Ask(s) \/ NotifyQuestion(s) \/ TakeAnswer(s) \/ GiveUp(s)
  BY <1>3 DEF Ask, NotifyQuestion, TakeAnswer, GiveUp, askVars, idVars
<1>4. CASE AddStagedMemory(s) \/ SendDone(s)
  BY <1>4 DEF AddStagedMemory, SendDone, lifeVars, askVars, idVars
<1>5. CASE Answer(s) BY <1>5 DEF Answer, idVars
<1>6. CASE StopRequest(s) \/ Stop(s) \/ ApproveMemories(s) \/ Cleanup(s)
  BY <1>6 DEF StopRequest, Stop, ApproveMemories, Cleanup, lifeVars, askVars, idVars
<1> QED BY <1>1, <1>2, <1>3, <1>4, <1>5, <1>6 DEF RunStep

LEMMA SpawnLife ==
  ASSUME TypeInv, NEW s \in Session, Life(s), SpawnStep(s) PROVE Life(s)'
<1> USE DEF TypeInv, SessionTypes, Set, Life
<1>1. CASE Spawn(s)
  BY <1>1 DEF Spawn, Ends, IDs, Hook, askVars, Final
<1>2. CASE StreamEvent(s)
  BY <1>2 DEF StreamEvent, Ends, IDs, Hook, lifeVars, askVars
<1>3. CASE SpawnRekeys(s)
  <2>1. keys'[s] = {"claude"} /\ spawn'[s] = "claude" BY <1>3 DEF SpawnRekeys, IDs
  <2> QED BY <1>3, <2>1 DEF SpawnRekeys, Ends, IDs, Hook, lifeVars, askVars
<1>4. CASE SpawnTimesOut(s)
  BY <1>4 DEF SpawnTimesOut, Ends, IDs, Hook, lifeVars, askVars
<1> QED BY <1>1, <1>2, <1>3, <1>4 DEF SpawnStep

LEMMA RunLife ==
  ASSUME TypeInv, NEW s \in Session, Life(s), RunStep(s) PROVE Life(s)'
<1> USE DEF TypeInv, SessionTypes, Set, Life
<1>1. ASSUME NEW st \in Final, SetFinal(s, st), pc[s] # "none" PROVE Life(s)'
  BY <1>1 DEF SetFinal, Ends, IDs, Hook, askVars, idVars, Final
<1>2. CASE Connect(s)
  BY <1>1, <1>2 DEF Connect, Ends, IDs, Hook, askVars, idVars, Final
<1>3. CASE Finish(s) BY <1>1, <1>3 DEF Finish, Final
<1>4. CASE Ask(s) BY <1>4 DEF Ask, Ends, IDs, Hook, idVars, Final
<1>5. CASE NotifyQuestion(s)
  BY <1>5 DEF NotifyQuestion, Ends, IDs, Hook, askVars, idVars
<1>6. CASE TakeAnswer(s) BY <1>6 DEF TakeAnswer, Ends, IDs, Hook, idVars
<1>7. CASE GiveUp(s) BY <1>7 DEF GiveUp, Ends, IDs, Hook, askVars, idVars
<1>8. CASE AddStagedMemory(s)
  BY <1>8, LifeKept DEF AddStagedMemory, Own, lifeVars, askVars, idVars
<1>9. CASE SendDone(s) BY <1>9 DEF SendDone, Ends, IDs, Hook, askVars, idVars
<1> QED BY <1>2, <1>3, <1>4, <1>5, <1>6, <1>7, <1>8, <1>9 DEF RunStep

LEMMA CallLife ==
  ASSUME TypeInv, NEW s \in Session, Life(s),
         Answer(s) \/ StopRequest(s) \/ Stop(s) \/ ApproveMemories(s) \/ Cleanup(s)
  PROVE  Life(s)'
<1> USE DEF TypeInv, SessionTypes, Set, Life
<1>1. CASE Answer(s)
  BY <1>1 DEF Answer, WhenWaiting, Ends, IDs, Hook, idVars, Final
<1>2. CASE Stop(s) BY <1>2 DEF Stop, Ends, IDs, Hook, askVars, idVars
<1>3. CASE Cleanup(s) BY <1>3 DEF Cleanup, Listed, Ends, IDs, Hook, lifeVars, askVars
<1>4. CASE StopRequest(s) \/ ApproveMemories(s)
  BY <1>4, LifeKept DEF StopRequest, ApproveMemories, Own, lifeVars, askVars, idVars
<1> QED BY <1>1, <1>2, <1>3, <1>4

LifeInv == TypeInv /\ \A s \in Session : Life(s)

LEMMA LifeInitially == Init => LifeInv
BY TypeInit DEF Init, LifeInv, Life, Ends, IDs, Hook, All, Final

LEMMA LifeNext == LifeInv /\ [Next]_vars => LifeInv'
<1> SUFFICES ASSUME LifeInv, [Next]_vars, NEW r \in Session PROVE Life(r)'
  BY NextTypes DEF LifeInv
<1> USE DEF LifeInv
<1>1. ASSUME NEW s \in Session,
             \/ SpawnStep(s) \/ RunStep(s) \/ Answer(s) \/ StopRequest(s) \/ Stop(s)
             \/ ApproveMemories(s) \/ Cleanup(s)
      PROVE  Life(r)'
  <2>1. CASE r = s BY <1>1, <2>1, SpawnLife, RunLife, CallLife
  <2>2. CASE r # s BY <1>1, <2>2, OthersKept, LifeKept
  <2> QED BY <2>1, <2>2
<1>2. CASE WatchQuestions \/ WatchDone \/ UNCHANGED vars
  BY <1>2, LifeKept DEF WatchQuestions, WatchDone, vars, Own, lifeVars, askVars, idVars
<1> QED BY <1>1, <1>2 DEF Next

LEMMA LifeAlways == Spec => []LifeInv
BY LifeInitially, LifeNext, PTL DEF Spec

(* AnswerSubagent hands an answer to the hook of the question it is for:   *)
(* a session that goes on never finds one left over in answerReady.        *)
THEOREM AnswersTheRightQuestion == Spec => []AnswersItsQuestion
<1>1. LifeInv => AnswersItsQuestion
  BY DEF LifeInv, Life, Hook, AnswersItsQuestion
<1> QED BY <1>1, LifeAlways, PTL

(* The ID that Spawn returned, the Claude one or after ten seconds the     *)
(* temporary one, is the one the map holds the session under.              *)
THEOREM ReturnedIDIsGood == Spec => []ReturnedIDResolves
<1>1. LifeInv => ReturnedIDResolves
  BY DEF LifeInv, Life, IDs, ReturnedIDResolves, Listed
<1> QED BY <1>1, LifeAlways, PTL

(* Stop, Answer and the end of the receive loop race for the status;       *)
(* whichever is final first stays.                                         *)
THEOREM FinalStatusIsFinal == Spec => FinalStatusStays
<1>1. ASSUME LifeInv, [Next]_vars, NEW s \in Session, status[s] \in Final
      PROVE  status'[s] = status[s]
  <2> USE <1>1 DEF LifeInv, TypeInv, SessionTypes, Set
  <2>1. pc[s] \in {"report", "done"} /\ spawn[s] # "none" /\ status[s] # "waiting"
    BY DEF Life, Ends, Final
  <2>2. ASSUME NEW r \in Session,
               \/ SpawnStep(r) \/ RunStep(r) \/ Answer(r) \/ StopRequest(r) \/ Stop(r)
               \/ ApproveMemories(r) \/ Cleanup(r)
        PROVE  status'[s] = status[s]
    <3>1. CASE r # s BY <2>2, <3>1, OthersKept DEF Own
    <3>2. CASE r = s
      <4>1. CASE SpawnStep(s)
        BY <2>1, <4>1 DEF SpawnStep, Spawn, StreamEvent, SpawnRekeys, SpawnTimesOut, lifeVars
      <4>2. CASE RunStep(s)
        BY <2>1, <4>2 DEF RunStep, Connect, Finish, Ask, NotifyQuestion, TakeAnswer, GiveUp,
                          AddStagedMemory, SendDone
      <4>3. CASE Answer(s) BY <2>1, <4>3 DEF Answer, WhenWaiting
      <4>4. CASE StopRequest(s) \/ Stop(s) \/ ApproveMemories(s) \/ Cleanup(s)
        BY <4>4 DEF StopRequest, Stop, ApproveMemories, Cleanup, lifeVars
      <4> QED BY <2>2, <3>2, <4>1, <4>2, <4>3, <4>4
    <3> QED BY <3>1, <3>2
  <2>3. CASE WatchQuestions \/ WatchDone \/ UNCHANGED vars
    BY <2>3 DEF WatchQuestions, WatchDone, vars, lifeVars
  <2> QED BY <2>2, <2>3 DEF Next
<1>2. LifeInv /\ [Next]_vars =>
        [\A s \in Session : status[s] \in Final => status'[s] = status[s]]_vars
  BY <1>1
<1> QED BY <1>2, LifeAlways, PTL DEF Spec, FinalStatusStays

-----------------------------------------------------------------------------
(* Memories: a thought is staged before it is saved, and drained at once.  *)

Thinking(s) ==
  \A n \in DOMAIN saved[s] :
    /\ saved[s][n] <= 1
    /\ n > thoughts[s] \/ n \in stagedMemories[s] => saved[s][n] = 0
    /\ n \in stagedMemories[s] => n <= thoughts[s]

MemoryInv == TypeInv /\ \A s \in Session : Thinking(s)

LEMMA MemoryNext == MemoryInv /\ [Next]_vars => MemoryInv'
<1> SUFFICES ASSUME MemoryInv, [Next]_vars, NEW r \in Session PROVE Thinking(r)'
  BY NextTypes DEF MemoryInv
<1>0. /\ Thinking(r) /\ thoughts[r] \in Nat
      /\ saved[r] \in [1 .. Thoughts[r] -> Nat] /\ DOMAIN saved = Session
      /\ Thoughts[r] \in Nat
  BY SubagentConstants DEF MemoryInv, TypeInv, MemoryTypes
<1> USE <1>0 DEF MemoryInv, TypeInv, MemoryTypes, Thinking
<1>1. ASSUME NEW s \in Session, AddStagedMemory(s) PROVE Thinking(r)'
  BY <1>1 DEF AddStagedMemory, Set
<1>2. ASSUME NEW s \in Session, ApproveMemories(s) PROVE Thinking(r)'
  <2>1. PICK ok \in SUBSET stagedMemories[s] :
          saved' = [saved EXCEPT ![s] =
                      [n \in DOMAIN @ |-> IF n \in ok THEN @[n] + 1 ELSE @[n]]]
    BY <1>2 DEF ApproveMemories
  <2>2. CASE r # s BY <1>2, <2>1, <2>2 DEF ApproveMemories, Set
  <2>3. CASE r = s
    <3>1. stagedMemories'[r] = {} /\ thoughts' = thoughts
      BY <1>2, <2>3 DEF ApproveMemories, Set, Drained
    <3>2. saved'[r] = [n \in DOMAIN saved[r] |->
                         IF n \in ok THEN saved[r][n] + 1 ELSE saved[r][n]]
      BY <2>1, <2>3
    <3>3. ASSUME NEW n \in DOMAIN saved[r], n \in ok
          PROVE  saved[r][n] = 0 /\ n <= thoughts[r]
      BY <2>3, <3>3
    <3> QED BY <3>1, <3>2, <3>3
  <2> QED BY <2>2, <2>3
<1>3. CASE UNCHANGED memVars BY <1>3 DEF memVars
<1>4. ASSUME NEW s \in Session, SpawnStep(s) PROVE UNCHANGED memVars
  BY <1>4 DEF SpawnStep, Spawn, StreamEvent, SpawnRekeys, SpawnTimesOut
<1>5. ASSUME NEW s \in Session, RunStep(s), ~AddStagedMemory(s) PROVE UNCHANGED memVars
  BY <1>5 DEF RunStep, Connect, Finish, SetFinal, Ask, NotifyQuestion, TakeAnswer, GiveUp,
              SendDone
<1>6. ASSUME NEW s \in Session, Answer(s) \/ StopRequest(s) \/ Stop(s) \/ Cleanup(s)
      PROVE  UNCHANGED memVars
  BY <1>6 DEF Answer, StopRequest, Stop, Cleanup
<1>7. CASE WatchQuestions \/ WatchDone \/ UNCHANGED vars
  BY <1>7, <1>3 DEF WatchQuestions, WatchDone, vars
<1> QED BY <1>1, <1>2, <1>3, <1>4, <1>5, <1>6, <1>7 DEF Next

(* However approvals interleave with the session's own save_thought calls, *)
(* DrainStagedMemories hands out each thought once.                        *)
THEOREM ThoughtsSavedOnce == Spec => []SavedOnce
<1>1. Init => MemoryInv
  BY TypeInit, SubagentConstants DEF Init, MemoryInv, Thinking, All
<1>2. Spec => []MemoryInv BY <1>1, MemoryNext, PTL DEF Spec
<1>3. MemoryInv => SavedOnce BY DEF MemoryInv, Thinking, SavedOnce
<1> QED BY <1>2, <1>3, PTL

-----------------------------------------------------------------------------
(* Questions: the inductive invariant is the property itself.              *)

Holds(q, s) == \E k \in DOMAIN q : q[k] = s

LEMMA HoldsAppended ==
  ASSUME NEW c \in Seq(Session), NEW s \in Session, NEW d \in Sends(c, s)
  PROVE  Holds(d, s) /\ \A r \in Session : Holds(c, r) => Holds(d, r)
<1>1. d = Append(c, s) BY DEF Sends
<1>2. DOMAIN d = 1 .. Len(c) + 1 /\ d[Len(c) + 1] = s BY <1>1
<1>3. \A k \in DOMAIN c : k \in DOMAIN d /\ d[k] = c[k] BY <1>1
<1> QED BY <1>2, <1>3 DEF Holds

LEMMA HoldsTail ==
  ASSUME NEW c \in Seq(Session), c # <<>>, NEW r \in Session, Holds(c, r), r # Head(c)
  PROVE  Holds(Tail(c), r)
<1>1. PICK k \in 1 .. Len(c) : c[k] = r BY DEF Holds
<1>2. k # 1 BY <1>1
<1>3. k - 1 \in 1 .. Len(Tail(c)) /\ Tail(c)[k - 1] = c[k] BY <1>1, <1>2
<1>4. DOMAIN Tail(c) = 1 .. Len(Tail(c)) OBVIOUS
<1> QED BY <1>1, <1>3, <1>4 DEF Holds

Known(s) ==
  pc[s] = "wait" /\ pendingQuestion[s] # 0 =>
    <<s, pendingQuestion[s]>> \in announced \/ Holds(questionNotify, s)

KnownInv == TypeInv /\ \A s \in Session : Known(s)

LEMMA KnownNext == KnownInv /\ [Next]_vars => KnownInv'
<1> SUFFICES ASSUME KnownInv, [Next]_vars, NEW r \in Session PROVE Known(r)'
  BY NextTypes DEF KnownInv
<1> USE DEF KnownInv, TypeInv, SessionTypes, Set
<1>0. Known(r) /\ questionNotify \in Seq(Session) BY DEF ChannelTypes
<1>1. ASSUME NEW s \in Session, NotifyQuestion(s) PROVE Known(r)'
  <2>1. questionNotify' \in Sends(questionNotify, s) BY <1>1 DEF NotifyQuestion
  <2>2. /\ Holds(questionNotify', s)
        /\ Holds(questionNotify, r) => Holds(questionNotify', r)
    BY <1>0, <2>1, HoldsAppended
  <2> QED BY <1>0, <1>1, <2>2 DEF NotifyQuestion, Known, askVars
<1>2. CASE WatchQuestions
  <2>1. /\ questionNotify # <<>> /\ questionNotify' = Tail(questionNotify)
        /\ UNCHANGED <<pc, pendingQuestion>>
    BY <1>2 DEF WatchQuestions, lifeVars, askVars
  <2>2. announced \subseteq announced' BY <1>2 DEF WatchQuestions
  <2>3. CASE r = Head(questionNotify)
    BY <1>2, <2>1, <2>3 DEF WatchQuestions, Known
  <2>4. CASE r # Head(questionNotify)
    <3>1. Holds(questionNotify, r) => Holds(questionNotify', r)
      BY <1>0, <2>1, <2>4, HoldsTail
    <3> QED BY <1>0, <2>1, <2>2, <3>1 DEF Known
  <2> QED BY <2>3, <2>4
<1>3. ASSUME /\ UNCHANGED <<questionNotify, announced>>
             /\ pc'[r] = "wait" => pc[r] = "wait" /\ pendingQuestion'[r] \in {0, pendingQuestion[r]}
      PROVE  Known(r)'
  BY <1>0, <1>3 DEF Known
<1>4. ASSUME NEW s \in Session, SpawnStep(s) PROVE Known(r)'
  BY <1>3, <1>4 DEF SpawnStep, Spawn, StreamEvent, SpawnRekeys, SpawnTimesOut, lifeVars,
                    askVars, chanVars
<1>5. ASSUME NEW s \in Session, RunStep(s), ~NotifyQuestion(s) PROVE Known(r)'
  <2>1. CASE Connect(s) \/ Finish(s)
    BY <1>3, <2>1 DEF Connect, Finish, SetFinal, askVars, chanVars
  <2>2. CASE Ask(s) BY <1>3, <2>2 DEF Ask, chanVars
  <2>3. CASE TakeAnswer(s) \/ GiveUp(s) \/ AddStagedMemory(s) \/ SendDone(s)
    BY <1>3, <2>3 DEF TakeAnswer, GiveUp, AddStagedMemory, SendDone, lifeVars, askVars, chanVars
  <2> QED BY <1>5, <2>1, <2>2, <2>3 DEF RunStep
<1>6. ASSUME NEW s \in Session,
             Answer(s) \/ StopRequest(s) \/ Stop(s) \/ ApproveMemories(s) \/ Cleanup(s)
      PROVE  Known(r)'
  BY <1>3, <1>6 DEF Answer, StopRequest, Stop, ApproveMemories, Cleanup, lifeVars, askVars,
                    chanVars
<1>7. CASE WatchDone \/ UNCHANGED vars
  BY <1>3, <1>7 DEF WatchDone, vars, lifeVars, askVars, chanVars
<1> QED BY <1>1, <1>2, <1>4, <1>5, <1>6, <1>7 DEF Next

(* The executive learns of every question a session is blocked on, though  *)
(* the watcher skips a notification whose question has been answered.      *)
THEOREM QuestionsReachTheExecutive == Spec => []NoQuestionLost
<1>1. Init => KnownInv BY TypeInit DEF Init, KnownInv, Known, All
<1>2. Spec => []KnownInv BY <1>1, KnownNext, PTL DEF Spec
<1>3. KnownInv => NoQuestionLost BY DEF KnownInv, Known, Holds, NoQuestionLost
<1> QED BY <1>2, <1>3, PTL

-----------------------------------------------------------------------------
(* Reports: a session is in DoneNotify, or reported, only when done, and   *)
(* never both nor twice.                                                   *)

NoRepeats(q) == \A j, k \in DOMAIN q : q[j] = q[k] => j = k

Reporting(s) ==
  \/ reports[s] = <<>> /\ (Holds(doneNotify, s) => pc[s] = "done")
  \/ reports[s] = <<status[s]>> /\ pc[s] = "done" /\ ~Holds(doneNotify, s)

ReportInv == LifeInv /\ NoRepeats(doneNotify) /\ \A s \in Session : Reporting(s)

LEMMA SendDoneReports ==
  ASSUME ReportInv, NEW s \in Session, SendDone(s)
  PROVE  NoRepeats(doneNotify') /\ \A r \in Session : Reporting(r)'
<1> DEFINE c == doneNotify
<1>1. c \in Seq(Session) /\ doneNotify' = Append(c, s)
  BY DEF SendDone, Sends, ReportInv, LifeInv, TypeInv, ChannelTypes
<1>2. /\ pc[s] = "report" /\ pc' = [pc EXCEPT ![s] = "done"] /\ pc'[s] = "done"
      /\ UNCHANGED <<status, reports>>
  BY DEF SendDone, Set, ReportInv, LifeInv, TypeInv, SessionTypes
<1>3. ~Holds(c, s) /\ reports[s] = <<>> BY <1>2 DEF ReportInv, Reporting
<1>4. /\ DOMAIN doneNotify' = 1 .. Len(c) + 1
      /\ \A k \in 1 .. Len(c) : doneNotify'[k] = c[k]
      /\ doneNotify'[Len(c) + 1] = s
      /\ Len(c) \in Nat /\ DOMAIN c = 1 .. Len(c)
  BY <1>1
<1>5. NoRepeats(doneNotify')
  BY <1>3, <1>4 DEF NoRepeats, Holds, ReportInv
<1>6. ASSUME NEW r \in Session PROVE Reporting(r)'
  <2>1. CASE r = s BY <1>2, <1>3, <2>1 DEF Reporting
  <2>2. CASE r # s
    <3>1. Holds(doneNotify', r) <=> Holds(c, r) BY <1>4, <2>2 DEF Holds
    <3>2. pc'[r] = pc[r] BY <1>2, <2>2 DEF ReportInv, LifeInv, TypeInv, SessionTypes
    <3> QED BY <1>2, <3>1, <3>2 DEF Reporting, ReportInv
  <2> QED BY <2>1, <2>2
<1> QED BY <1>5, <1>6

LEMMA WatchDoneReports ==
  ASSUME ReportInv, WatchDone
  PROVE  NoRepeats(doneNotify') /\ \A r \in Session : Reporting(r)'
<1> DEFINE c == doneNotify
           s == Head(c)
<1>1. c \in Seq(Session) /\ c # <<>> /\ doneNotify' = Tail(c)
  BY DEF WatchDone, ReportInv, LifeInv, TypeInv, ChannelTypes
<1>2. s \in Session /\ s = c[1] /\ 1 \in DOMAIN c /\ DOMAIN c = 1 .. Len(c) BY <1>1
<1>3. DOMAIN doneNotify' = 1 .. Len(c) - 1 /\ Len(c) \in Nat
      /\ \A k \in 1 .. Len(c) - 1 : doneNotify'[k] = c[k + 1]
  BY <1>1
<1>4. \A k \in DOMAIN doneNotify' : k + 1 \in DOMAIN c /\ doneNotify'[k] = c[k + 1]
  BY <1>2, <1>3
<1>5. NoRepeats(doneNotify')
  <2>1. SUFFICES ASSUME NEW j \in DOMAIN doneNotify', NEW k \in DOMAIN doneNotify',
                        doneNotify'[j] = doneNotify'[k]
                 PROVE  j = k
    BY DEF NoRepeats
  <2>2. j + 1 = k + 1 BY <1>4, <2>1 DEF NoRepeats, ReportInv
  <2> QED BY <2>2, <1>3
<1>6. Holds(c, s) BY <1>2 DEF Holds
<1>7. reports[s] = <<>> /\ pc[s] = "done"
  BY <1>2, <1>6 DEF ReportInv, Reporting
<1>8. UNCHANGED <<pc, status>> /\ reports' = [reports EXCEPT ![s] = Append(reports[s], Label(status[s]))]
  BY DEF WatchDone, Set, lifeVars
<1>9. reports \in [Session -> Seq(Final)] BY DEF ReportInv, LifeInv, TypeInv, ChannelTypes
<1>10. ASSUME NEW r \in Session PROVE Reporting(r)'
  <2>1. CASE r = s
    <3>1. ~Holds(doneNotify', s)
      <4>1. SUFFICES ASSUME NEW k \in DOMAIN doneNotify', doneNotify'[k] = s PROVE FALSE
        BY DEF Holds
      <4>2. k + 1 = 1 BY <1>2, <1>4, <4>1 DEF NoRepeats, ReportInv
      <4> QED BY <4>2, <1>3
    <3>2. status[s] \in Final BY <1>2, <1>7 DEF ReportInv, LifeInv, Life, Ends
    <3>3. Label(status[s]) = status[s] BY <3>2 DEF Label, Final
    <3>4. reports'[s] = <<status[s]>> BY <1>2, <1>7, <1>8, <1>9, <3>3
    <3> QED BY <1>7, <1>8, <2>1, <3>1, <3>4 DEF Reporting
  <2>2. CASE r # s
    <3>1. Holds(doneNotify', r) => Holds(c, r) BY <1>4 DEF Holds
    <3>2. reports'[r] = reports[r] BY <1>8, <1>9, <2>2
    <3>3. Holds(doneNotify, r) \/ ~Holds(doneNotify', r) BY <3>1
    <3> QED BY <1>8, <3>2, <3>3 DEF Reporting, ReportInv
  <2> QED BY <2>1, <2>2
<1> QED BY <1>5, <1>10

LEMMA ReportNext == ReportInv /\ [Next]_vars => ReportInv'
<1> SUFFICES ASSUME ReportInv, [Next]_vars
             PROVE  NoRepeats(doneNotify') /\ \A r \in Session : Reporting(r)'
  BY LifeNext DEF ReportInv
<1>1. ASSUME NEW s \in Session, SendDone(s)
      PROVE  NoRepeats(doneNotify') /\ \A r \in Session : Reporting(r)'
  BY <1>1, SendDoneReports
<1>2. CASE WatchDone BY <1>2, WatchDoneReports
<1> DEFINE Quiet == /\ UNCHANGED <<doneNotify, reports>>
                    /\ \A r \in Session : pc[r] = "done" => pc'[r] = "done" /\ status'[r] = status[r]
<1>3. CASE Quiet
  <2>1. NoRepeats(doneNotify') BY <1>3 DEF ReportInv
  <2>2. ASSUME NEW r \in Session PROVE Reporting(r)'
    BY <1>3, <2>2 DEF Reporting, ReportInv
  <2> QED BY <2>1, <2>2
<1>4. ASSUME NEW s \in Session,
             \/ SpawnStep(s) \/ RunStep(s) \/ Answer(s) \/ StopRequest(s) \/ Stop(s)
             \/ ApproveMemories(s) \/ Cleanup(s),
             ~SendDone(s)
      PROVE  Quiet
  <2>1. UNCHANGED <<doneNotify, reports>>
    <3>1. CASE SpawnStep(s)
      BY <3>1 DEF SpawnStep, Spawn, StreamEvent, SpawnRekeys, SpawnTimesOut, chanVars
    <3>2. CASE RunStep(s)
      BY <1>4, <3>2 DEF RunStep, Connect, Finish, SetFinal, Ask, NotifyQuestion, TakeAnswer,
                        GiveUp, AddStagedMemory, chanVars
    <3>3. CASE Answer(s) \/ StopRequest(s) \/ Stop(s) \/ ApproveMemories(s) \/ Cleanup(s)
      BY <3>3 DEF Answer, StopRequest, Stop, ApproveMemories, Cleanup, chanVars
    <3> QED BY <1>4, <3>1, <3>2, <3>3
  <2>2. ASSUME NEW r \in Session, pc[r] = "done"
        PROVE  pc'[r] = "done" /\ status'[r] = status[r]
    <3> USE DEF ReportInv, LifeInv
    <3>1. CASE r # s BY <1>4, <2>2, <3>1, OthersKept DEF Own
    <3>2. CASE r = s
      <4> USE <2>2, <3>2 DEF Life, Ends, Final
      <4>1. CASE SpawnStep(s)
        BY <4>1 DEF SpawnStep, Spawn, StreamEvent, SpawnRekeys, SpawnTimesOut, lifeVars
      <4>2. CASE RunStep(s)
        BY <1>4, <4>2 DEF RunStep, Connect, Finish, Ask, NotifyQuestion, TakeAnswer, GiveUp,
                          AddStagedMemory, lifeVars
      <4>3. CASE Answer(s) BY <4>3 DEF Answer, WhenWaiting
      <4>4. CASE StopRequest(s) \/ Stop(s) \/ ApproveMemories(s) \/ Cleanup(s)
        BY <4>4 DEF StopRequest, Stop, ApproveMemories, Cleanup, lifeVars
      <4> QED BY <1>4, <4>1, <4>2, <4>3, <4>4
    <3> QED BY <3>1, <3>2
  <2> QED BY <2>1, <2>2
<1>5. CASE WatchQuestions \/ UNCHANGED vars
  <2>1. Quiet BY <1>5 DEF WatchQuestions, vars, lifeVars, chanVars
  <2> QED BY <2>1, <1>3
<1> HIDE DEF Quiet
<1> QED BY <1>1, <1>2, <1>3, <1>4, <1>5 DEF Next

(* The done watcher puts at most one "subagent-done" item in the queue for *)
(* a session, labelled with the status that the session has for good.      *)
THEOREM ReportsAreTrue == Spec => []ReportedOnceAsIs
<1>1. Init => ReportInv
  BY LifeInitially DEF Init, ReportInv, Reporting, NoRepeats, Holds, All
<1>2. Spec => []ReportInv BY <1>1, ReportNext, PTL DEF Spec
<1>3. ReportInv => ReportedOnceAsIs BY DEF ReportInv, Reporting, ReportedOnceAsIs
<1> QED BY <1>2, <1>3, PTL


-----------------------------------------------------------------------------
(* Provider sessions.  A step of the composition is, for the provider, one *)
(* of its own steps or none.                                               *)

PromptStep(q) ==
  \/ Prompting(q) \/ QueryToolCalls(q) \/ PromptReturns(q) \/ Cancel(q)
  \/ PollerStep(q) \/ HandlerReturns(q) \/ \E p \in Permission : Take(q, p)

OcStep ==
  \/ \E o \in Object : Serving(o) \/ Reset(o)
  \/ \E q \in Prompter : PromptStep(q)
  \/ ServerChanges \/ UNCHANGED ocVars

OcTypes ==
  /\ ocSessionID \in [Object -> Nat] /\ created \in Nat
  /\ repliedPerms \in [Object -> SUBSET Permission]
  /\ at \in [Prompter -> {"none", "create", "post", "message", "parse", "tools", "returned"}]
  /\ sentTo \in [Prompter -> Nat] /\ failed \in [Prompter -> BOOLEAN]
  /\ poller \in [Prompter -> {"off", "idle", "listed", "handler", "reply"}]
  /\ listed \in [Prompter -> SUBSET Permission]
  /\ handling \in [Prompter -> Permission \cup {<<>>}]
  /\ requested \in [Prompter -> Nat] /\ pending \subseteq Permission
  /\ put \in [Permission -> Nat]

(* No two objects have one session, and a message went to a session of the *)
(* prompter's own object.                                                  *)
SessionNumbers ==
  /\ \A o \in Object : ocSessionID[o] <= created
  /\ \A q \in Prompter : sentTo[q] <= created
  /\ \A o, u \in Object : ocSessionID[o] = ocSessionID[u] /\ ocSessionID[o] # 0 => o = u
  /\ \A q \in Prompter, o \in Object :
       sentTo[q] = ocSessionID[o] /\ sentTo[q] # 0 => o = Obj(q)

(* Only a message that reached a session asks for permissions, and it does *)
(* not return while one is pending.                                        *)
Requests ==
  /\ \A q \in Prompter :
       /\ at[q] \in {"none", "create", "post"} => requested[q] = 0
       /\ requested[q] # 0 => sentTo[q] # 0
  /\ \A p \in pending :
       requested[p[1]] # 0 /\ (at[p[1]] = "message" \/ failed[p[1]])

(* A poller sees the permissions of its own object.                        *)
OwnPermissions ==
  \A q \in Prompter :
    /\ \A p \in listed[q] : Obj(p[1]) = Obj(q) /\ requested[p[1]] # 0
    /\ poller[q] \in {"handler", "reply"} =>
         handling[q] \in Permission /\ Obj(handling[q][1]) = Obj(q)

(* What was put to a handler in the object's present session is marked.    *)
Handed ==
  \A p \in Permission : put[p] > 0 =>
    /\ requested[p[1]] # 0
    /\ sentTo[p[1]] = ocSessionID[Obj(p[1])] =>
         put[p] = 1 /\ p \in repliedPerms[Obj(p[1])]

OcInv == OcTypes /\ SessionNumbers /\ Requests /\ OwnPermissions /\ Handed

(* A subagent's object is its own: what its poller has fetched or handles  *)
(* is pending.                                                             *)
OwnPending(s) ==
  /\ listed[s] \subseteq pending
  /\ poller[s] \in {"handler", "reply"} => handling[s] \in pending \ listed[s]

(* Where the goroutine, its prompt and its status stand to each other.     *)
Course(s) ==
  /\ spawn[s] = "none" => pc[s] = "none"
  /\ pc[s] \in {"none", "connect"} => at[s] = "none"
  /\ pc[s] \in {"report", "done"} => at[s] \in {"none", "returned"}
  /\ status[s] \in Final => pc[s] \in {"report", "done"}

CourseTypes ==
  /\ pc \in [Session -> {"none", "connect", "running", "notify", "wait", "report", "done"}]
  /\ status \in [Session -> Status]
  /\ spawn \in [Session -> {"none", "waiting", "temp", "claude"}]

ProviderInv ==
  /\ OcInv /\ CourseTypes
  /\ \A s \in Session : OwnPending(s) /\ Course(s)


LEMMA PermissionOwner ==
  /\ \A p \in Permission : p[1] \in Prompter /\ Obj(p[1]) \in Object
  /\ \A q \in Prompter : \A n \in 1 .. Asks[q] : <<q, n>> \in Permission /\ <<q, n>>[1] = q
<1>1. ASSUME NEW p \in Permission PROVE p[1] \in Prompter
  <2>1. PICK q \in Prompter : p \in {q} \X (1 .. Asks[q]) BY DEF Permission
  <2> QED BY <2>1
<1>2. ASSUME NEW q \in Prompter PROVE Obj(q) \in Object BY OpenCodeConstants DEF Obj
<1>3. ASSUME NEW q \in Prompter, NEW n \in 1 .. Asks[q] PROVE <<q, n>> \in Permission
  <2>1. <<q, n>> \in {q} \X (1 .. Asks[q]) OBVIOUS
  <2> QED BY <2>1, Zenon DEF Permission
<1> QED BY <1>1, <1>2, <1>3

LEMMA OcTypesNext ==
  ASSUME OcTypes, OcStep PROVE OcTypes'
<1> USE DEF OcTypes, To
<1> USE OpenCodeConstants
<1>1. ASSUME NEW o \in Object, Serving(o) \/ Reset(o) PROVE OcTypes'
  <2>1. CASE Serving(o)
    <3>1. UNCHANGED <<sessionVars, promptVars, pollerVars, permVars>>
      BY <2>1 DEF Serving, NewSession, Probe, Launch, AwaitHealth
    <3> QED BY <3>1 DEF sessionVars, promptVars, pollerVars, permVars
  <2>2. CASE Reset(o) BY <2>2 DEF Reset, promptVars, pollerVars, permVars
  <2> QED BY <1>1, <2>1, <2>2
<1>2. ASSUME NEW q \in Prompter, Prompting(q) PROVE OcTypes'
  <2>1. CASE SendPrompt(q)
    BY <2>1 DEF SendPrompt, sessionVars, pollerVars, permVars
  <2>2. CASE CreateSession(q)
    BY <2>2, PermissionOwner DEF CreateSession, pollerVars, permVars, Obj
  <2>3. CASE CreateFails(q) BY <2>3 DEF CreateFails, sessionVars, pollerVars, permVars
  <2>4. CASE PostMessage(q) BY <2>4 DEF PostMessage, sessionVars, permVars, Obj
  <2>5. CASE AskPermission(q)
    <3>1. requested[q] + 1 \in 1 .. Asks[q] BY <2>5 DEF AskPermission
    <3>2. <<q, requested[q] + 1>> \in Permission BY <3>1, PermissionOwner
    <3>3. pending' = pending \cup {<<q, requested[q] + 1>>}
          /\ requested' = [requested EXCEPT ![q] = requested[q] + 1]
      BY <2>5 DEF AskPermission
    <3>4. pending' \subseteq Permission BY <3>2, <3>3, Zenon
    <3>5. requested' \in [Prompter -> Nat] BY <3>3
    <3> QED BY <2>5, <3>4, <3>5 DEF AskPermission, sessionVars, promptVars, pollerVars
  <2>6. CASE MessageReturns(q) BY <2>6 DEF MessageReturns, sessionVars, pollerVars, permVars
  <2>7. CASE MessageFails(q) BY <2>7 DEF MessageFails, sessionVars, pollerVars, permVars
  <2> QED BY <1>2, <2>1, <2>2, <2>3, <2>4, <2>5, <2>6, <2>7 DEF Prompting
<1>3. ASSUME NEW q \in Prompter, QueryToolCalls(q) \/ PromptReturns(q) \/ Cancel(q)
      PROVE  OcTypes'
  BY <1>3 DEF QueryToolCalls, PromptReturns, Cancel, sessionVars, pollerVars, permVars
<1>4. ASSUME NEW q \in Prompter, PollerStep(q) \/ HandlerReturns(q) PROVE OcTypes'
  <2>1. CASE PollerStops(q) \/ HandlerReturns(q)
    BY <2>1 DEF PollerStops, HandlerReturns, sessionVars, promptVars, permVars
  <2>2. CASE Poll(q) BY <2>2 DEF Poll, sessionVars, promptVars, permVars
  <2>3. CASE PassOver(q) BY <2>3 DEF PassOver, sessionVars, promptVars, permVars
  <2>4. CASE ReplyPermission(q) BY <2>4 DEF ReplyPermission, sessionVars, promptVars
  <2> QED BY <1>4, <2>1, <2>2, <2>3, <2>4 DEF PollerStep
<1>5. ASSUME NEW q \in Prompter, NEW p \in Permission, Take(q, p) PROVE OcTypes'
  BY <1>5, PermissionOwner DEF Take, Mark, promptVars, permVars, Obj
<1>6. CASE ServerChanges \/ UNCHANGED ocVars
  BY <1>6 DEF ServerChanges, ocVars, sessionVars, promptVars, pollerVars, permVars
<1> QED BY <1>1, <1>2, <1>3, <1>4, <1>5, <1>6 DEF OcStep, PromptStep


LEMMA NumbersNext ==
  ASSUME OcTypes, SessionNumbers, OcStep PROVE SessionNumbers'
<1> USE DEF OcTypes, To
<1>1. CASE UNCHANGED <<ocSessionID, created, sentTo>> BY <1>1 DEF SessionNumbers
<1>2. ASSUME NEW o \in Object, Reset(o) PROVE SessionNumbers'
  BY <1>2 DEF Reset, promptVars, SessionNumbers
<1>3. ASSUME NEW q \in Prompter, CreateSession(q) PROVE SessionNumbers'
  <2>1. /\ created' = created + 1 /\ UNCHANGED sentTo
        /\ ocSessionID' = [ocSessionID EXCEPT ![Obj(q)] = created + 1]
    BY <1>3 DEF CreateSession
  <2>2. \A o \in Object : ocSessionID'[o] = IF o = Obj(q) THEN created + 1 ELSE ocSessionID[o]
    BY <2>1
  <2>3. \A r \in Prompter : sentTo'[r] = sentTo[r] /\ sentTo[r] # created + 1
    BY <2>1 DEF SessionNumbers
  <2>4. \A o \in Object : ocSessionID[o] # created + 1 BY DEF SessionNumbers
  <2>5. /\ \A o \in Object : ocSessionID'[o] <= created'
        /\ \A r \in Prompter : sentTo'[r] <= created'
    BY <2>1, <2>2, <2>3 DEF SessionNumbers
  <2> QED BY <2>2, <2>3, <2>4, <2>5 DEF SessionNumbers
<1>4. ASSUME NEW q \in Prompter, PostMessage(q) PROVE SessionNumbers'
  <2>1. /\ sentTo' = [sentTo EXCEPT ![q] = ocSessionID[Obj(q)]]
        /\ UNCHANGED <<ocSessionID, created>>
    BY <1>4 DEF PostMessage, sessionVars
  <2>2. Obj(q) \in Object BY OpenCodeConstants DEF Obj
  <2> QED BY <2>1, <2>2 DEF SessionNumbers
<1>5. ASSUME NEW q \in Prompter, PromptStep(q), ~CreateSession(q), ~PostMessage(q)
      PROVE  UNCHANGED <<ocSessionID, created, sentTo>>
  <2>1. CASE Prompting(q)
    BY <1>5, <2>1 DEF Prompting, SendPrompt, CreateFails, AskPermission, MessageReturns,
                      MessageFails, sessionVars, promptVars
  <2>2. CASE QueryToolCalls(q) \/ PromptReturns(q) \/ Cancel(q)
    BY <2>2 DEF QueryToolCalls, PromptReturns, Cancel, sessionVars
  <2>3. CASE PollerStep(q) \/ HandlerReturns(q)
    BY <2>3 DEF PollerStep, PollerStops, Poll, PassOver, ReplyPermission, HandlerReturns,
                sessionVars, promptVars
  <2>4. ASSUME NEW p \in Permission, Take(q, p)
        PROVE  UNCHANGED <<ocSessionID, created, sentTo>>
    BY <2>4 DEF Take, promptVars
  <2> QED BY <1>5, <2>1, <2>2, <2>3, <2>4 DEF PromptStep
<1>6. ASSUME NEW o \in Object, Serving(o) PROVE UNCHANGED <<ocSessionID, created, sentTo>>
  BY <1>6 DEF Serving, NewSession, Probe, Launch, AwaitHealth, sessionVars, promptVars
<1>7. CASE ServerChanges \/ UNCHANGED ocVars
  BY <1>1, <1>7 DEF ServerChanges, ocVars, sessionVars, promptVars
<1> QED BY <1>1, <1>2, <1>3, <1>4, <1>5, <1>6, <1>7 DEF OcStep

LEMMA RequestsNext ==
  ASSUME OcTypes, SessionNumbers, Requests, OcStep PROVE Requests'
<1> USE DEF OcTypes, To
<1>1. CASE UNCHANGED <<at, requested, sentTo, failed>> /\ pending' \subseteq pending
  BY <1>1, PermissionOwner DEF Requests
<1>2. ASSUME NEW q \in Prompter, Prompting(q) PROVE Requests'
  <2> USE DEF Requests
  <2>0. \A p \in pending : p[1] \in Prompter BY PermissionOwner
  <2>1. CASE SendPrompt(q) \/ CreateSession(q)
    <3>1. /\ at[q] \in {"none", "create"} /\ UNCHANGED <<requested, sentTo, failed, pending>>
          /\ \E w \in {"create", "post"} : at' = [at EXCEPT ![q] = w]
      BY <2>1 DEF SendPrompt, CreateSession, permVars
    <3> QED BY <2>0, <3>1
  <2>2. CASE CreateFails(q) \/ MessageFails(q)
    <3>1. /\ UNCHANGED <<requested, sentTo, pending>>
          /\ at' = [at EXCEPT ![q] = "returned"] /\ failed' = [failed EXCEPT ![q] = TRUE]
      BY <2>2 DEF CreateFails, MessageFails, permVars
    <3> QED BY <2>0, <3>1
  <2>3. CASE PostMessage(q)
    <3>1. /\ at[q] = "post" /\ at' = [at EXCEPT ![q] = "message"]
          /\ UNCHANGED <<requested, failed, pending>>
          /\ sentTo' = [sentTo EXCEPT ![q] = ocSessionID[Obj(q)]]
      BY <2>3 DEF PostMessage, permVars
    <3> QED BY <2>0, <3>1
  <2>4. CASE AskPermission(q)
    <3>1. /\ at[q] = "message" /\ sentTo[q] # 0 /\ UNCHANGED <<at, sentTo, failed>>
          /\ requested' = [requested EXCEPT ![q] = requested[q] + 1]
          /\ pending' = pending \cup {<<q, requested[q] + 1>>}
      BY <2>4 DEF AskPermission, promptVars
    <3>2. \A r \in Prompter : requested[r] # 0 \/ r = q => requested'[r] # 0 BY <3>1
    <3>3. \A r \in Prompter : r # q => requested'[r] = requested[r] BY <3>1
    <3>4. \A p \in pending' : p \in pending \/ p[1] = q BY <3>1
    <3>5. \A p \in pending' :
            requested'[p[1]] # 0 /\ (at'[p[1]] = "message" \/ failed'[p[1]])
      BY <2>0, <3>1, <3>2, <3>4
    <3> QED BY <3>1, <3>3, <3>5
  <2>5. CASE MessageReturns(q)
    <3>1. /\ at[q] = "message" /\ at' = [at EXCEPT ![q] = "parse"]
          /\ \A p \in pending : p[1] # q
          /\ UNCHANGED <<requested, sentTo, failed, pending>>
      BY <2>5 DEF MessageReturns, permVars
    <3> QED BY <2>0, <3>1
  <2> QED BY <1>2, <2>1, <2>2, <2>3, <2>4, <2>5 DEF Prompting
<1>3. ASSUME NEW q \in Prompter, QueryToolCalls(q) \/ PromptReturns(q) PROVE Requests'
  <2>1. /\ at[q] \in {"parse", "tools"} /\ UNCHANGED <<requested, sentTo, failed, pending>>
        /\ \E w \in {"tools", "returned"} : at' = [at EXCEPT ![q] = w]
    BY <1>3 DEF QueryToolCalls, PromptReturns, permVars
  <2> QED BY <2>1, PermissionOwner DEF Requests
<1>4. ASSUME NEW q \in Prompter, Cancel(q) \/ PollerStep(q) \/ HandlerReturns(q)
      PROVE  Requests'
  <2>1. UNCHANGED <<at, requested, sentTo, failed>> /\ pending' \subseteq pending
    BY <1>4 DEF Cancel, PollerStep, PollerStops, Poll, PassOver, ReplyPermission,
                HandlerReturns, promptVars, permVars
  <2> QED BY <1>1, <2>1
<1>5. ASSUME NEW q \in Prompter, NEW p \in Permission, Take(q, p) PROVE Requests'
  <2>1. UNCHANGED <<at, requested, sentTo, failed, pending>>
    BY <1>5 DEF Take, promptVars, permVars
  <2> QED BY <1>1, <2>1
<1>6. ASSUME NEW o \in Object, Serving(o) \/ Reset(o) PROVE Requests'
  <2>1. UNCHANGED <<at, requested, sentTo, failed, pending>>
    BY <1>6 DEF Serving, NewSession, Probe, Launch, AwaitHealth, Reset, promptVars, permVars
  <2> QED BY <1>1, <2>1
<1>7. CASE ServerChanges \/ UNCHANGED ocVars
  <2>1. UNCHANGED <<at, requested, sentTo, failed, pending>>
    BY <1>7 DEF ServerChanges, ocVars, promptVars, permVars
  <2> QED BY <1>1, <2>1
<1> QED BY <1>2, <1>3, <1>4, <1>5, <1>6, <1>7 DEF OcStep, PromptStep


(* What was asked for stays asked for, and a message that asked for        *)
(* something has been sent.                                                *)
LEMMA RequestedStays ==
  ASSUME OcTypes, Requests, OcStep, NEW r \in Prompter, requested[r] # 0
  PROVE  requested'[r] # 0 /\ sentTo'[r] = sentTo[r]
<1> USE DEF OcTypes, To
<1>1. CASE UNCHANGED <<requested, sentTo>> BY <1>1
<1>2. ASSUME NEW q \in Prompter, Prompting(q), ~PostMessage(q), ~AskPermission(q)
      PROVE  UNCHANGED <<requested, sentTo>>
  BY <1>2 DEF Prompting, SendPrompt, CreateSession, CreateFails, MessageReturns, MessageFails,
              permVars
<1>3. ASSUME NEW q \in Prompter, PostMessage(q)
      PROVE  requested'[r] # 0 /\ sentTo'[r] = sentTo[r]
  <2>1. /\ at[q] = "post" /\ UNCHANGED requested
        /\ sentTo' = [sentTo EXCEPT ![q] = ocSessionID[Obj(q)]]
    BY <1>3 DEF PostMessage, permVars
  <2>2. r # q BY <2>1 DEF Requests
  <2> QED BY <2>1, <2>2
<1>4. ASSUME NEW q \in Prompter, AskPermission(q)
      PROVE  requested'[r] # 0 /\ sentTo'[r] = sentTo[r]
  BY <1>4 DEF AskPermission, promptVars
<1>5. ASSUME NEW q \in Prompter,
             QueryToolCalls(q) \/ PromptReturns(q) \/ Cancel(q) \/ PollerStep(q) \/ HandlerReturns(q)
      PROVE  UNCHANGED <<requested, sentTo>>
  BY <1>5 DEF QueryToolCalls, PromptReturns, Cancel, PollerStep, PollerStops, Poll, PassOver,
              ReplyPermission, HandlerReturns, promptVars, permVars
<1>6. ASSUME NEW q \in Prompter, NEW p \in Permission, Take(q, p)
      PROVE  UNCHANGED <<requested, sentTo>>
  BY <1>6 DEF Take, promptVars, permVars
<1>7. ASSUME NEW o \in Object, Serving(o) \/ Reset(o) PROVE UNCHANGED <<requested, sentTo>>
  BY <1>7 DEF Serving, NewSession, Probe, Launch, AwaitHealth, Reset, promptVars, permVars
<1>8. CASE ServerChanges \/ UNCHANGED ocVars
  BY <1>1, <1>8 DEF ServerChanges, ocVars, promptVars, permVars
<1> QED BY <1>1, <1>2, <1>3, <1>4, <1>5, <1>6, <1>7, <1>8 DEF OcStep, PromptStep

(* What a step does to the pollers: it takes a permission, fetches a list, *)
(* or shortens one or ends with a permission.                              *)
PollersRest ==
  \A q \in Prompter :
    /\ listed'[q] \subseteq listed[q]
    /\ poller'[q] \in {"handler", "reply"} =>
         poller[q] \in {"handler", "reply"} /\ handling'[q] = handling[q]

LEMMA PollerSteps ==
  ASSUME OcTypes, OcStep
  PROVE  \/ PollersRest
         \/ \E q \in Prompter : Poll(q) \/ \E p \in Permission : Take(q, p)
<1> USE DEF OcTypes, To
<1>1. CASE UNCHANGED <<listed, poller, handling>> BY <1>1 DEF PollersRest
<1>2. ASSUME NEW q \in Prompter, Prompting(q), ~PostMessage(q)
      PROVE  UNCHANGED <<listed, poller, handling>>
  BY <1>2 DEF Prompting, SendPrompt, CreateSession, CreateFails, AskPermission, MessageReturns,
              MessageFails, pollerVars
<1>3. ASSUME NEW q \in Prompter, PostMessage(q) \/ PollerStops(q) PROVE PollersRest
  <2>1. /\ UNCHANGED <<listed, handling>>
        /\ \E w \in {"idle", "off"} : poller' = [poller EXCEPT ![q] = w]
    BY <1>3 DEF PostMessage, PollerStops
  <2> QED BY <2>1 DEF PollersRest
<1>4. ASSUME NEW q \in Prompter, PassOver(q) PROVE PollersRest
  <2>1. /\ UNCHANGED handling /\ poller' = [poller EXCEPT ![q] = "idle"]
        /\ listed' = [listed EXCEPT ![q] = listed[q] \ repliedPerms[Obj(q)]]
    BY <1>4 DEF PassOver
  <2> QED BY <2>1 DEF PollersRest
<1>5. ASSUME NEW q \in Prompter, HandlerReturns(q) PROVE PollersRest
  <2>1. /\ UNCHANGED <<listed, handling>> /\ poller[q] = "handler"
        /\ poller' = [poller EXCEPT ![q] = "reply"]
    BY <1>5 DEF HandlerReturns
  <2> QED BY <2>1 DEF PollersRest
<1>6. ASSUME NEW q \in Prompter, ReplyPermission(q) PROVE PollersRest
  <2>1. /\ UNCHANGED listed /\ poller' = [poller EXCEPT ![q] = "listed"]
        /\ handling' = [handling EXCEPT ![q] = <<>>]
    BY <1>6 DEF ReplyPermission
  <2> QED BY <2>1 DEF PollersRest
<1>7. ASSUME NEW q \in Prompter, QueryToolCalls(q) \/ PromptReturns(q) \/ Cancel(q)
      PROVE  UNCHANGED <<listed, poller, handling>>
  BY <1>7 DEF QueryToolCalls, PromptReturns, Cancel, pollerVars
<1>8. ASSUME NEW o \in Object, Serving(o) \/ Reset(o)
      PROVE  UNCHANGED <<listed, poller, handling>>
  BY <1>8 DEF Serving, NewSession, Probe, Launch, AwaitHealth, Reset, pollerVars
<1>9. CASE ServerChanges \/ UNCHANGED ocVars
  BY <1>1, <1>9 DEF ServerChanges, ocVars, pollerVars
<1> QED BY <1>1, <1>2, <1>3, <1>4, <1>5, <1>6, <1>7, <1>8, <1>9 DEF OcStep, PromptStep, PollerStep

LEMMA OwnPermissionsNext ==
  ASSUME OcTypes, SessionNumbers, Requests, OwnPermissions, OcStep PROVE OwnPermissions'
<1> USE DEF OcTypes, To
<1>0. \A p \in Permission : requested[p[1]] # 0 => requested'[p[1]] # 0
  BY PermissionOwner, RequestedStays
<1>1. CASE PollersRest
  <2> SUFFICES ASSUME NEW q \in Prompter
               PROVE  /\ \A p \in listed'[q] : Obj(p[1]) = Obj(q) /\ requested'[p[1]] # 0
                      /\ poller'[q] \in {"handler", "reply"} =>
                           handling'[q] \in Permission /\ Obj(handling'[q][1]) = Obj(q)
    BY Zenon DEF OwnPermissions, Obj
  <2> QED BY <1>0, <1>1 DEF PollersRest, OwnPermissions
<1>2. ASSUME NEW q \in Prompter, Poll(q) PROVE OwnPermissions'
  <2>1. /\ UNCHANGED <<requested, handling>> /\ poller' = [poller EXCEPT ![q] = "listed"]
        /\ listed' = [listed EXCEPT ![q] = {p \in pending : sentTo[p[1]] = ocSessionID[Obj(q)]}]
    BY <1>2 DEF Poll, permVars
  <2>2. ASSUME NEW p \in pending, sentTo[p[1]] = ocSessionID[Obj(q)]
        PROVE  Obj(p[1]) = Obj(q) /\ requested[p[1]] # 0
    <3>1. requested[p[1]] # 0 /\ p[1] \in Prompter BY PermissionOwner DEF Requests
    <3>2. sentTo[p[1]] # 0 BY <3>1 DEF Requests
    <3>3. Obj(q) \in Object BY OpenCodeConstants DEF Obj
    <3> QED BY <2>2, <3>1, <3>2, <3>3 DEF SessionNumbers
  <2>3. \A p \in listed'[q] : Obj(p[1]) = Obj(q) /\ requested[p[1]] # 0 BY <2>1, <2>2
  <2>4. \A r \in Prompter \ {q} : listed'[r] = listed[r] /\ poller'[r] = poller[r] BY <2>1
  <2>5. poller'[q] = "listed" BY <2>1
  <2> QED BY <2>1, <2>3, <2>4, <2>5 DEF OwnPermissions, Obj
<1>3. ASSUME NEW q \in Prompter, NEW p \in Permission, Take(q, p) PROVE OwnPermissions'
  <2>1. /\ UNCHANGED requested /\ p \in listed[q]
        /\ poller' = [poller EXCEPT ![q] = "handler"]
        /\ handling' = [handling EXCEPT ![q] = p]
        /\ listed' = [listed EXCEPT ![q] = listed[q] \ {p}]
    BY <1>3 DEF Take, permVars
  <2>2. Obj(p[1]) = Obj(q) BY <2>1 DEF OwnPermissions
  <2>3. /\ handling'[q] = p /\ listed'[q] \subseteq listed[q]
        /\ \A r \in Prompter \ {q} :
             listed'[r] = listed[r] /\ poller'[r] = poller[r] /\ handling'[r] = handling[r]
    BY <2>1
  <2> QED BY <2>1, <2>2, <2>3 DEF OwnPermissions, Obj
<1> QED BY <1>1, <1>2, <1>3, PollerSteps


LEMMA MarksKept ==
  ASSUME OcTypes, OcStep
  PROVE  \/ UNCHANGED <<put, ocSessionID, repliedPerms>>
         \/ \E o \in Object : Reset(o)
         \/ \E q \in Prompter : CreateSession(q) \/ \E p \in Permission : Take(q, p)
<1>1. ASSUME NEW q \in Prompter, Prompting(q), ~CreateSession(q)
      PROVE  UNCHANGED <<put, ocSessionID, repliedPerms>>
  BY <1>1 DEF Prompting, SendPrompt, CreateFails, PostMessage, AskPermission, MessageReturns,
              MessageFails, sessionVars, pollerVars
<1>2. ASSUME NEW q \in Prompter,
             QueryToolCalls(q) \/ PromptReturns(q) \/ Cancel(q) \/ PollerStep(q) \/ HandlerReturns(q)
      PROVE  UNCHANGED <<put, ocSessionID, repliedPerms>>
  BY <1>2 DEF QueryToolCalls, PromptReturns, Cancel, PollerStep, PollerStops, Poll, PassOver,
              ReplyPermission, HandlerReturns, sessionVars, pollerVars
<1>3. ASSUME NEW o \in Object, Serving(o) PROVE UNCHANGED <<put, ocSessionID, repliedPerms>>
  BY <1>3 DEF Serving, NewSession, Probe, Launch, AwaitHealth, sessionVars, pollerVars
<1>4. CASE ServerChanges \/ UNCHANGED ocVars
  BY <1>4 DEF ServerChanges, ocVars, sessionVars, pollerVars
<1> QED BY <1>1, <1>2, <1>3, <1>4 DEF OcStep, PromptStep

LEMMA HandedNext ==
  ASSUME OcTypes, SessionNumbers, Requests, OwnPermissions, Handed, OcStep PROVE Handed'
<1> USE DEF OcTypes, To
<1>0. ASSUME NEW p \in Permission, requested[p[1]] # 0
      PROVE  requested'[p[1]] # 0 /\ sentTo'[p[1]] = sentTo[p[1]] /\ sentTo[p[1]] # 0
  <2>1. p[1] \in Prompter BY PermissionOwner
  <2> QED BY <1>0, <2>1, RequestedStays DEF Requests
<1>1. CASE UNCHANGED <<put, ocSessionID, repliedPerms>>
  BY <1>0, <1>1 DEF Handed, Obj
<1>2. ASSUME NEW o \in Object, Reset(o) PROVE Handed'
  <2>1. /\ UNCHANGED put
        /\ ocSessionID' = [ocSessionID EXCEPT ![o] = 0]
        /\ repliedPerms' = [repliedPerms EXCEPT ![o] = {}]
    BY <1>2 DEF Reset, pollerVars
  <2>2. ASSUME NEW p \in Permission, put'[p] > 0
        PROVE  /\ requested'[p[1]] # 0
               /\ sentTo'[p[1]] = ocSessionID'[Obj(p[1])] =>
                    put'[p] = 1 /\ p \in repliedPerms'[Obj(p[1])]
    <3>1. requested[p[1]] # 0 BY <2>1, <2>2 DEF Handed
    <3>2. Obj(p[1]) \in Object BY PermissionOwner
    <3>3. CASE Obj(p[1]) = o BY <1>0, <2>1, <3>1, <3>2, <3>3
    <3>4. CASE Obj(p[1]) # o BY <1>0, <2>1, <2>2, <3>1, <3>2, <3>4 DEF Handed
    <3> QED BY <3>3, <3>4
  <2> QED BY <2>2 DEF Handed, Obj
<1>3. ASSUME NEW q \in Prompter, CreateSession(q) PROVE Handed'
  <2>1. /\ UNCHANGED put /\ created' = created + 1
        /\ ocSessionID' = [ocSessionID EXCEPT ![Obj(q)] = created + 1]
        /\ repliedPerms' = [repliedPerms EXCEPT ![Obj(q)] = {}]
    BY <1>3 DEF CreateSession, pollerVars
  <2>2. ASSUME NEW p \in Permission, put'[p] > 0
        PROVE  /\ requested'[p[1]] # 0
               /\ sentTo'[p[1]] = ocSessionID'[Obj(p[1])] =>
                    put'[p] = 1 /\ p \in repliedPerms'[Obj(p[1])]
    <3>1. requested[p[1]] # 0 BY <2>1, <2>2 DEF Handed
    <3>2. p[1] \in Prompter /\ Obj(p[1]) \in Object BY PermissionOwner
    <3>3. sentTo[p[1]] # created + 1 BY <3>2 DEF SessionNumbers
    <3>4. CASE Obj(p[1]) = Obj(q) BY <1>0, <2>1, <3>1, <3>2, <3>3, <3>4
    <3>5. CASE Obj(p[1]) # Obj(q) BY <1>0, <2>1, <2>2, <3>1, <3>2, <3>5 DEF Handed
    <3> QED BY <3>4, <3>5
  <2> QED BY <2>2 DEF Handed, Obj
<1>4. ASSUME NEW q \in Prompter, NEW d \in Permission, Take(q, d) PROVE Handed'
  <2>1. /\ UNCHANGED ocSessionID
        /\ d \in listed[q] /\ d \notin repliedPerms[Obj(q)]
        /\ repliedPerms' = [repliedPerms EXCEPT ![Obj(q)] = repliedPerms[Obj(q)] \cup {d}]
        /\ put' = [put EXCEPT ![d] = put[d] + 1]
    BY <1>4 DEF Take, Mark
  <2>2. Obj(d[1]) = Obj(q) /\ requested[d[1]] # 0 /\ Obj(q) \in Object
    BY <2>1, PermissionOwner DEF OwnPermissions
  <2>3. \A o \in Object : repliedPerms[o] \subseteq repliedPerms'[o] BY <2>1
  <2>4. d \in repliedPerms'[Obj(q)] BY <2>1, <2>2
  <2>5. ASSUME NEW p \in Permission, put'[p] > 0
        PROVE  /\ requested'[p[1]] # 0
               /\ sentTo'[p[1]] = ocSessionID'[Obj(p[1])] =>
                    put'[p] = 1 /\ p \in repliedPerms'[Obj(p[1])]
    <3>1. Obj(p[1]) \in Object BY PermissionOwner
    <3>2. CASE p = d
      <4>1. sentTo[d[1]] = ocSessionID[Obj(q)] => ~(put[d] > 0) BY <2>1, <2>2 DEF Handed
      <4>2. put[d] \in Nat /\ put'[d] = put[d] + 1 BY <2>1
      <4>3. sentTo[d[1]] = ocSessionID[Obj(q)] => put'[d] = 1 BY <4>1, <4>2
      <4>4. requested'[d[1]] # 0 /\ sentTo'[d[1]] = sentTo[d[1]] BY <1>0, <2>2
      <4> QED BY <2>1, <2>2, <2>4, <3>2, <4>3, <4>4
    <3>3. CASE p # d
      <4>1. put'[p] = put[p] BY <2>1, <3>3
      <4>2. requested[p[1]] # 0 BY <2>5, <4>1 DEF Handed
      <4> QED BY <1>0, <2>1, <2>3, <2>5, <3>1, <4>1, <4>2 DEF Handed
    <3> QED BY <3>2, <3>3
  <2> QED BY <2>5 DEF Handed, Obj
<1> QED BY <1>1, <1>2, <1>3, <1>4, MarksKept

LEMMA OcNext == ASSUME OcInv, OcStep PROVE OcInv'
BY OcTypesNext, NumbersNext, RequestsNext, OwnPermissionsNext, HandedNext DEF OcInv

LEMMA OcInitially == OpenCodeInit => OcInv
<1> SUFFICES ASSUME OpenCodeInit PROVE OcInv
  OBVIOUS
<1>1. OcTypes BY Zenon DEF OpenCodeInit, OcTypes
<1>2. SessionNumbers /\ Requests /\ OwnPermissions
  BY DEF OpenCodeInit, SessionNumbers, Requests, OwnPermissions
<1>3. Handed BY DEF OpenCodeInit, Handed
<1> QED BY <1>1, <1>2, <1>3 DEF OcInv

(* The composition takes the provider's steps for its own prompters and    *)
(* objects.                                                                *)
LEMMA ProviderSteps == ProviderNext \/ UNCHANGED allVars => OcStep
<1> USE ProviderConstants
<1>1. ASSUME NEW s \in Session, RunProviderSession(s) PROVE OcStep
  <2>1. CASE SessionStarts(s) BY <2>1 DEF SessionStarts, OcStep
  <2>2. CASE Connected(s) BY <2>2 DEF Connected, OcStep, PromptStep, Prompting
  <2>3. CASE SessionPrompts(s) \/ SessionPolls(s) \/ ContextEnds(s)
    BY <2>3 DEF SessionPrompts, SessionPolls, ContextEnds, OcStep, PromptStep, Prompting
  <2>4. CASE PutToExecutive(s) BY <2>4 DEF PutToExecutive, OcStep, PromptStep
  <2>5. CASE PermissionAnswered(s) \/ PermissionGivesUp(s)
    BY <2>5 DEF PermissionAnswered, PermissionGivesUp, OcStep, PromptStep
  <2>6. CASE NoSession(s) \/ ReportToolCall(s) \/ ToolAnswered(s) \/ ToolWaits(s)
             \/ PermissionNotifies(s) \/ Finished(s) \/ (SendDone(s) /\ UNCHANGED <<ocVars, asking>>)
    BY <2>6 DEF NoSession, ReportToolCall, ToolAnswered, ToolWaits, PermissionNotifies, Finished,
                OcStep
  <2> QED BY <1>1, <2>1, <2>2, <2>3, <2>4, <2>5, <2>6 DEF RunProviderSession
<1>2. ASSUME NEW s \in Session, Manage(s) \/ StopSession(s) PROVE OcStep
  BY <1>2 DEF Manage, StopSession, OcStep, PromptStep
<1>3. ASSUME NEW t \in Turn, TurnPrompts(t) \/ TurnPolls(t) PROVE OcStep
  BY <1>3 DEF TurnPrompts, TurnPolls, OcStep, PromptStep
<1>4. CASE ExecutiveStarts \/ ResetSession
  BY <1>4 DEF ExecutiveStarts, ResetSession, OcStep
<1>5. CASE Watch \/ (ServerChanges /\ UNCHANGED <<vars, asking>>) \/ UNCHANGED allVars
  BY <1>5 DEF Watch, OcStep, allVars
<1> QED BY <1>1, <1>2, <1>3, <1>4, <1>5 DEF ProviderNext

(* However the prompts, pollers and new sessions of an object overlap, a   *)
(* permission is put to a handler at most once for the session its message *)
(* went to, for any number of objects, prompts and permissions.            *)
THEOREM PermissionsPutOnce == ProviderSpec => []PutOnce
<1>1. ProviderInit => OcInv BY OcInitially DEF ProviderInit
<1>2. OcInv /\ [ProviderNext]_allVars => OcInv' BY ProviderSteps, OcNext
<1>3. OcInv => PutOnce BY DEF OcInv, OcTypes, Handed, PutOnce
<1> QED BY <1>1, <1>2, <1>3, PTL DEF ProviderSpec


-----------------------------------------------------------------------------
(* A subagent's object is used by no other prompter.                       *)
LEMMA OwnObject ==
  ASSUME NEW s \in Session
  PROVE  s \in Prompter /\ s \in Object /\ Obj(s) = s /\ \A q \in Prompter : Obj(q) = s => q = s
BY ProviderConstants DEF Obj

LEMMA PendingStays ==
  ASSUME OcStep PROVE pending \subseteq pending' \/ \E q \in Prompter : ReplyPermission(q)
<1>1. ASSUME NEW q \in Prompter, Prompting(q) PROVE pending \subseteq pending'
  BY <1>1 DEF Prompting, SendPrompt, CreateSession, CreateFails, PostMessage, AskPermission,
              MessageReturns, MessageFails, permVars
<1>2. ASSUME NEW q \in Prompter,
             QueryToolCalls(q) \/ PromptReturns(q) \/ Cancel(q) \/ PollerStep(q) \/ HandlerReturns(q),
             ~ReplyPermission(q)
      PROVE  UNCHANGED pending
  BY <1>2 DEF QueryToolCalls, PromptReturns, Cancel, PollerStep, PollerStops, Poll, PassOver,
              HandlerReturns, permVars
<1>3. ASSUME NEW q \in Prompter, NEW p \in Permission, Take(q, p) PROVE UNCHANGED pending
  BY <1>3 DEF Take, permVars
<1>4. ASSUME NEW o \in Object, Serving(o) \/ Reset(o) PROVE UNCHANGED pending
  BY <1>4 DEF Serving, NewSession, Probe, Launch, AwaitHealth, Reset, permVars
<1>5. CASE ServerChanges \/ UNCHANGED ocVars BY <1>5 DEF ServerChanges, ocVars, permVars
<1> QED BY <1>1, <1>2, <1>3, <1>4, <1>5 DEF OcStep, PromptStep

LEMMA OwnPendingNext ==
  ASSUME OcInv, OcStep, NEW s \in Session, OwnPending(s) PROVE OwnPending(s)'
<1> USE OwnObject DEF OcInv, OcTypes, To
<1>1. ASSUME NEW q \in Prompter, ReplyPermission(q) PROVE OwnPending(s)'
  <2>1. /\ pending' = pending \ {handling[q]} \/ UNCHANGED pending
        /\ UNCHANGED listed /\ poller[q] = "reply"
        /\ poller' = [poller EXCEPT ![q] = "listed"]
        /\ handling' = [handling EXCEPT ![q] = <<>>]
    BY <1>1 DEF ReplyPermission
  <2>2. CASE q = s BY <2>1, <2>2 DEF OwnPending
  <2>3. CASE q # s
    <3>1. handling[q] \in Permission /\ Obj(handling[q][1]) = Obj(q) /\ Obj(q) # s
      BY <2>1, <2>3 DEF OwnPermissions
    <3>2. \A p \in listed[s] : Obj(p[1]) = s BY DEF OwnPermissions
    <3>3. poller[s] \in {"handler", "reply"} => Obj(handling[s][1]) = s BY DEF OwnPermissions
    <3>4. poller'[s] = poller[s] /\ handling'[s] = handling[s] BY <2>1, <2>3
    <3> QED BY <2>1, <3>1, <3>2, <3>3, <3>4 DEF OwnPending
  <2> QED BY <2>2, <2>3
<1>2. CASE PollersRest /\ pending \subseteq pending'
  <2>1. /\ listed'[s] \subseteq listed[s]
        /\ poller'[s] \in {"handler", "reply"} =>
             poller[s] \in {"handler", "reply"} /\ handling'[s] = handling[s]
    BY <1>2 DEF PollersRest
  <2> QED BY <1>2, <2>1 DEF OwnPending
<1>3. ASSUME NEW q \in Prompter, Poll(q) PROVE OwnPending(s)'
  <2>1. /\ UNCHANGED <<handling, pending>> /\ poller' = [poller EXCEPT ![q] = "listed"]
        /\ \E l \in SUBSET pending : listed' = [listed EXCEPT ![q] = l]
    BY <1>3 DEF Poll, permVars
  <2>2. CASE q = s BY <2>1, <2>2 DEF OwnPending
  <2>3. CASE q # s BY <2>1, <2>3 DEF OwnPending
  <2> QED BY <2>2, <2>3
<1>4. ASSUME NEW q \in Prompter, NEW p \in Permission, Take(q, p) PROVE OwnPending(s)'
  <2>1. /\ UNCHANGED pending /\ p \in listed[q]
        /\ poller' = [poller EXCEPT ![q] = "handler"]
        /\ handling' = [handling EXCEPT ![q] = p]
        /\ listed' = [listed EXCEPT ![q] = listed[q] \ {p}]
    BY <1>4 DEF Take, permVars
  <2>2. CASE q = s BY <2>1, <2>2 DEF OwnPending
  <2>3. CASE q # s BY <2>1, <2>3 DEF OwnPending
  <2> QED BY <2>2, <2>3
<1> QED BY <1>1, <1>2, <1>3, <1>4, PollerSteps, PendingStays

(* A permission that a subagent's poller has at hand after the session     *)
(* left its loop is one of a prompt that failed.                           *)
LEMMA LeftBehind ==
  ASSUME OcInv, NEW s \in Session, Course(s), pc[s] \in {"report", "done"},
         NEW p \in pending, Obj(p[1]) = s
  PROVE  failed[s]
<1>1. p \in Permission BY DEF OcInv, OcTypes
<1>2. p[1] = s BY <1>1, OwnObject, PermissionOwner
<1>3. requested[s] # 0 /\ (at[s] = "message" \/ failed[s]) BY <1>2 DEF OcInv, Requests
<1>4. at[s] # "message" BY DEF Course
<1> QED BY <1>3, <1>4

Rests(r) == UNCHANGED <<pc[r], status[r], spawn[r], at[r]>>

LEMMA PromptOf ==
  ASSUME OcTypes, NEW q \in Prompter, PromptStep(q), NEW r \in Prompter, r # q
  PROVE  at'[r] = at[r]
<1> USE DEF OcTypes, To
<1>1. CASE Prompting(q)
  BY <1>1 DEF Prompting, SendPrompt, CreateSession, CreateFails, PostMessage, AskPermission,
              MessageReturns, MessageFails, promptVars
<1>2. CASE QueryToolCalls(q) \/ PromptReturns(q) \/ Cancel(q)
  BY <1>2 DEF QueryToolCalls, PromptReturns, Cancel
<1>3. CASE PollerStep(q) \/ HandlerReturns(q)
  BY <1>3 DEF PollerStep, PollerStops, Poll, PassOver, ReplyPermission, HandlerReturns, promptVars
<1>4. ASSUME NEW p \in Permission, Take(q, p) PROVE UNCHANGED at
  BY <1>4 DEF Take, promptVars
<1> QED BY <1>1, <1>2, <1>3, <1>4 DEF PromptStep

(* Pollers and cancellations move no prompt.                               *)
LEMMA PollingMovesNoPrompt ==
  ASSUME NEW q \in Prompter,
         \/ PollerStep(q) \/ HandlerReturns(q) \/ Cancel(q) \/ \E p \in Permission : Take(q, p)
         \/ \E o \in Object : Serving(o) \/ Reset(o)
  PROVE  UNCHANGED at
BY DEF PollerStep, PollerStops, Poll, PassOver, ReplyPermission, HandlerReturns, Cancel, Take,
       Serving, NewSession, Probe, Launch, AwaitHealth, Reset, promptVars

(* What one step of a session does to the goroutine and its status.        *)
LEMMA RunMoves ==
  ASSUME OcTypes, CourseTypes, NEW s \in Session, RunProviderSession(s)
  PROVE  /\ CourseTypes'
         /\ \A r \in Session \ {s} : Rests(r)
         /\ Course(s) => Course(s)'
<1> USE DEF CourseTypes, Set, Status, Final
<1>0. s \in Prompter /\ Session \subseteq Prompter /\ s \in Object BY OwnObject
<1>1. CASE SessionStarts(s) \/ SessionPolls(s) \/ ContextEnds(s)
  <2>1. UNCHANGED <<pc, status, spawn, at>>
    BY <1>0, <1>1, PollingMovesNoPrompt
       DEF SessionStarts, SessionPolls, ContextEnds, vars, lifeVars, idVars
  <2> QED BY <2>1 DEF Rests, Course
<1>2. CASE Connected(s)
  <2>1. /\ UNCHANGED <<status, spawn>> /\ pc' = [pc EXCEPT ![s] = "running"]
        /\ pc[s] = "connect" /\ PromptStep(s)
    BY <1>2 DEF Connected, PromptStep, Prompting
  <2> QED BY <1>0, <2>1, PromptOf DEF Rests, Course
<1>3. CASE NoSession(s) \/ Finished(s)
  <2>1. /\ UNCHANGED <<spawn, at>> /\ pc' = [pc EXCEPT ![s] = "report"]
        /\ (pc[s] = "connect" \/ at[s] = "returned")
        /\ \E st \in Final : status' = [status EXCEPT ![s] = st]
    BY <1>3 DEF NoSession, Finished, SetFinal, idVars, ocVars, promptVars
  <2> QED BY <2>1 DEF Rests, Course
<1>4. CASE SessionPrompts(s)
  <2>1. UNCHANGED <<pc, status, spawn>> /\ pc[s] = "running" /\ PromptStep(s)
    BY <1>4 DEF SessionPrompts, PromptStep, Prompting, vars, lifeVars, idVars
  <2> QED BY <1>0, <2>1, PromptOf DEF Rests, Course
<1>5. CASE ReportToolCall(s)
  <2>1. /\ UNCHANGED <<spawn, at>> /\ pc[s] = "running"
        /\ \/ UNCHANGED <<pc, status>>
           \/ /\ pc' = [pc EXCEPT ![s] = "notify"]
              /\ status' = [status EXCEPT ![s] = "waiting"]
    BY <1>5 DEF ReportToolCall, Ask, AddStagedMemory, lifeVars, idVars, ocVars, promptVars
  <2> QED BY <2>1 DEF Rests, Course
<1>6. CASE ToolAnswered(s) \/ ToolWaits(s)
  <2>1. /\ UNCHANGED <<spawn, at>> /\ pc[s] \in {"notify", "wait"}
        /\ \E w \in {"running", "wait"} : pc' = [pc EXCEPT ![s] = w]
        /\ UNCHANGED status \/ status' = [status EXCEPT ![s] = "running"]
    BY <1>6 DEF ToolAnswered, TakesAnswer, ToolWaits, NotifyQuestion, GiveUp, idVars, ocVars,
                promptVars
  <2> QED BY <2>1 DEF Rests, Course
<1>7. CASE PutToExecutive(s) \/ PermissionAnswered(s) \/ PermissionGivesUp(s)
  <2>1. UNCHANGED at
    BY <1>0, <1>7, PollingMovesNoPrompt DEF PutToExecutive, PermissionAnswered, PermissionGivesUp
  <2>2. /\ UNCHANGED <<pc, spawn>>
        /\ UNCHANGED status \/ \E st \in {"waiting", "running"} : status' = [status EXCEPT ![s] = st]
    BY <1>7 DEF PutToExecutive, PermissionAnswered, TakesAnswer, PermissionGivesUp, LeavesStatus,
                idVars
  <2> QED BY <2>1, <2>2 DEF Rests, Course
<1>8. CASE PermissionNotifies(s)
  <2>1. UNCHANGED <<pc, status, spawn, at>>
    BY <1>8 DEF PermissionNotifies, lifeVars, idVars, ocVars, promptVars
  <2> QED BY <2>1 DEF Rests, Course
<1>9. CASE SendDone(s) /\ UNCHANGED <<ocVars, asking>>
  <2>1. /\ UNCHANGED <<status, spawn, at>> /\ pc' = [pc EXCEPT ![s] = "done"] /\ pc[s] = "report"
    BY <1>9 DEF SendDone, idVars, ocVars, promptVars
  <2> QED BY <2>1 DEF Rests, Course
<1> QED BY <1>1, <1>2, <1>3, <1>4, <1>5, <1>6, <1>7, <1>8, <1>9 DEF RunProviderSession

LEMMA ManageMoves ==
  ASSUME OcTypes, CourseTypes, NEW s \in Session, Manage(s) \/ StopSession(s)
  PROVE  /\ CourseTypes'
         /\ \A r \in Session \ {s} : Rests(r)
         /\ Course(s) => Course(s)'
         /\ status[s] \in Final /\ Course(s) => status'[s] = status[s]
<1> USE DEF CourseTypes, Set, Status, Final
<1>1. CASE Manage(s)
  <2>0. UNCHANGED at BY <1>1 DEF Manage, ocVars, promptVars
  <2>1. CASE SpawnOnProvider(s)
    <3>1. /\ spawn[s] = "none" /\ spawn' = [spawn EXCEPT ![s] = "waiting"]
          /\ pc' = [pc EXCEPT ![s] = "connect"]
          /\ status' = [status EXCEPT ![s] = "running"]
      BY <2>1 DEF SpawnOnProvider, Spawn
    <3> QED BY <2>0, <3>1 DEF Rests, Course
  <2>2. CASE SpawnRekeys(s) \/ SpawnTimesOut(s)
    <3>1. /\ UNCHANGED <<pc, status>> /\ spawn[s] = "waiting"
          /\ \E w \in {"claude", "temp"} : spawn' = [spawn EXCEPT ![s] = w]
      BY <2>2 DEF SpawnRekeys, SpawnTimesOut, lifeVars
    <3> QED BY <2>0, <3>1 DEF Rests, Course
  <2>3. CASE Answer(s)
    <3>1. /\ UNCHANGED <<pc, spawn>> /\ status[s] = "waiting"
          /\ status' = [status EXCEPT ![s] = "running"]
      BY <2>3 DEF Answer, WhenWaiting, idVars
    <3> QED BY <2>0, <3>1 DEF Rests, Course
  <2>4. CASE StopRequest(s) \/ ApproveMemories(s) \/ Cleanup(s)
    <3>1. UNCHANGED <<pc, status, spawn>>
      BY <2>4 DEF StopRequest, ApproveMemories, Cleanup, lifeVars, idVars
    <3> QED BY <2>0, <3>1 DEF Rests, Course
  <2> QED BY <1>1, <2>1, <2>2, <2>3, <2>4 DEF Manage
<1>2. CASE StopSession(s)
  <2>1. UNCHANGED <<pc, status, spawn, at>>
    BY <1>2 DEF StopSession, Stop, Cancel, idVars
  <2> QED BY <2>1 DEF Rests, Course
<1> QED BY <1>1, <1>2


LEMMA ProviderInvNext ==
  ASSUME ProviderInv, ProviderNext \/ UNCHANGED allVars PROVE ProviderInv'
<1> USE DEF ProviderInv
<1>1. OcStep BY ProviderSteps
<1>2. OcInv' BY <1>1, OcNext
<1>3. \A s \in Session : OwnPending(s)' BY <1>1, OwnPendingNext
<1>4. OcTypes BY DEF OcInv
<1>5. ASSUME NEW r \in Session, Rests(r) PROVE Course(r)' BY <1>5 DEF Rests, Course
<1>6. ASSUME NEW s \in Session, RunProviderSession(s) \/ Manage(s) \/ StopSession(s)
      PROVE  CourseTypes' /\ \A r \in Session : Course(r)'
  <2>1. /\ CourseTypes' /\ Course(s)'
        /\ \A r \in Session \ {s} : Rests(r)
    BY <1>4, <1>6, RunMoves, ManageMoves
  <2>2. \A r \in Session : Course(r)' BY <1>5, <2>1
  <2> QED BY <2>1, <2>2
<1>7. ASSUME UNCHANGED <<pc, status, spawn>>, \A r \in Session : at'[r] = at[r]
      PROVE  CourseTypes' /\ \A r \in Session : Course(r)'
  <2>1. \A r \in Session : Rests(r) BY <1>7 DEF Rests
  <2> QED BY <1>5, <1>7, <2>1 DEF CourseTypes
<1>8. ASSUME NEW t \in Turn, TurnPrompts(t) \/ TurnPolls(t)
      PROVE  CourseTypes' /\ \A r \in Session : Course(r)'
  <2>1. PromptStep(t) /\ UNCHANGED vars
    BY <1>8 DEF TurnPrompts, TurnPolls, PromptStep
  <2>2. t \in Prompter /\ Session \subseteq Prompter BY ProviderConstants
  <2>3. t \notin Session BY ProviderConstants
  <2>4. \A r \in Session : at'[r] = at[r] BY <1>4, <2>1, <2>2, <2>3, PromptOf
  <2> QED BY <1>7, <2>1, <2>4 DEF vars, lifeVars, idVars
<1>9. ASSUME ExecutiveStarts \/ ResetSession
      PROVE  CourseTypes' /\ \A r \in Session : Course(r)'
  <2>1. UNCHANGED at /\ UNCHANGED vars
    BY <1>9 DEF ExecutiveStarts, ResetSession, Serving, NewSession, Probe, Launch, AwaitHealth,
                Reset, promptVars
  <2>2. UNCHANGED <<pc, status, spawn>> BY <2>1 DEF vars, lifeVars, idVars
  <2>3. \A r \in Session : at'[r] = at[r] BY <2>1
  <2> QED BY <1>7, <2>2, <2>3
<1>10. ASSUME Watch \/ (ServerChanges /\ UNCHANGED <<vars, asking>>) \/ UNCHANGED allVars
      PROVE  CourseTypes' /\ \A r \in Session : Course(r)'
  <2>1. UNCHANGED <<pc, status, spawn, at>>
    BY <1>10 DEF Watch, WatchQuestions, WatchDone, ServerChanges, allVars, ocVars, promptVars,
                 vars, lifeVars, idVars
  <2>2. \A r \in Session : at'[r] = at[r] BY <2>1
  <2> QED BY <1>7, <2>1, <2>2
<1>11. CourseTypes' /\ \A r \in Session : Course(r)'
  BY <1>6, <1>8, <1>9, <1>10 DEF ProviderNext
<1> QED BY <1>2, <1>3, <1>11

LEMMA ProviderInitially == ProviderInit => ProviderInv
<1> SUFFICES ASSUME ProviderInit PROVE ProviderInv
  OBVIOUS
<1>1. OcInv BY OcInitially DEF ProviderInit
<1>2. CourseTypes BY DEF ProviderInit, Init, All, CourseTypes, Status
<1>3. \A s \in Session : OwnPending(s) /\ Course(s)
  BY OwnObject DEF ProviderInit, Init, OpenCodeInit, All, OwnPending, Course, Final
<1> QED BY <1>1, <1>2, <1>3 DEF ProviderInv

(* Only a permission changes a final status.                               *)
LEMMA FinalChange ==
  ASSUME ProviderInv, ProviderNext, NEW r \in Session, status[r] \in Final,
         status'[r] # status[r]
  PROVE  PutToExecutive(r) \/ PermissionAnswered(r)
<1> USE DEF ProviderInv
<1>0. pc[r] \in {"report", "done"} /\ OcTypes BY DEF Course, OcInv
<1>1. ASSUME NEW s \in Session, RunProviderSession(s)
      PROVE  PutToExecutive(r) \/ PermissionAnswered(r)
  <2>1. s = r BY <1>0, <1>1, RunMoves DEF Rests
  <2>2. ~SessionStarts(r) /\ ~Connected(r) /\ ~NoSession(r) /\ ~SessionPrompts(r)
        /\ ~ToolAnswered(r) /\ ~Finished(r)
    BY <1>0 DEF SessionStarts, Connected, NoSession, SessionPrompts, ToolAnswered, Finished
  <2>3. ~ReportToolCall(r) /\ ~ToolWaits(r)
    BY <1>0 DEF ReportToolCall, Ask, AddStagedMemory, ToolWaits, NotifyQuestion, GiveUp
  <2>4. ~PermissionNotifies(r) /\ ~PermissionGivesUp(r) /\ ~SessionPolls(r) /\ ~ContextEnds(r)
        /\ ~SendDone(r)
    BY DEF PermissionNotifies, PermissionGivesUp, LeavesStatus, SessionPolls, ContextEnds, SendDone,
           vars, lifeVars
  <2> QED BY <1>1, <2>1, <2>2, <2>3, <2>4 DEF RunProviderSession
<1>2. ASSUME NEW s \in Session, Manage(s) \/ StopSession(s) PROVE FALSE
  BY <1>0, <1>2, ManageMoves DEF Rests
<1>3. ASSUME UNCHANGED status PROVE FALSE BY <1>3
<1>4. ASSUME NEW t \in Turn, TurnPrompts(t) \/ TurnPolls(t) PROVE FALSE
  BY <1>4 DEF TurnPrompts, TurnPolls, vars, lifeVars
<1>5. ~ExecutiveStarts /\ ~ResetSession /\ ~Watch /\ ~(ServerChanges /\ UNCHANGED <<vars, asking>>)
  BY DEF ExecutiveStarts, ResetSession, Watch, WatchQuestions, WatchDone, vars, lifeVars
<1> QED BY <1>1, <1>2, <1>4, <1>5 DEF ProviderNext

(* After a session has ended, only the poller of a failed prompt changes   *)
(* the status: with a permission it had fetched, or with an answer to one, *)
(* however prompt, poller, executive and Stop overlap.                     *)
THEOREM FinalStatusOnProvider == ProviderSpec => FinalChangedOnlyByPoller
<1> DEFINE Step(s) == status[s] \in Final /\ status'[s] # status[s] =>
             /\ failed[s]
             /\ \/ poller[s] = "listed" /\ status'[s] = "waiting"
                \/ asking[s] = "wait" /\ answerReady[s] # 0 /\ status'[s] = "running"
<1>1. ASSUME ProviderInv, ProviderNext, NEW s \in Session, status[s] \in Final,
             status'[s] # status[s]
      PROVE  Step(s)
  <2>1. pc[s] \in {"report", "done"} /\ Course(s) /\ OwnPending(s) /\ OcInv /\ OcTypes
    BY <1>1 DEF ProviderInv, Course, OcInv
  <2>2. status \in [Session -> Status] BY <1>1 DEF ProviderInv, CourseTypes
  <2>3. CASE PutToExecutive(s)
    <3>1. PICK p \in Permission : Take(s, p) BY <2>3 DEF PutToExecutive
    <3>2. p \in listed[s] /\ poller[s] = "listed" BY <3>1 DEF Take
    <3>3. p \in pending /\ Obj(p[1]) = s
      BY <2>1, <3>2, OwnObject DEF OwnPending, OcInv, OwnPermissions
    <3>4. failed[s] BY <2>1, <3>3, LeftBehind
    <3> QED BY <2>2, <2>3, <3>2, <3>4 DEF PutToExecutive, Set
  <2>4. CASE PermissionAnswered(s)
    <3>1. poller[s] = "handler" /\ asking[s] = "wait" /\ answerReady[s] # 0
          /\ status' = [status EXCEPT ![s] = "running"]
      BY <2>4 DEF PermissionAnswered, HandlerReturns, TakesAnswer, Set
    <3>2. handling[s] \in pending /\ Obj(handling[s][1]) = s
      BY <2>1, <3>1, OwnObject DEF OwnPending, OcInv, OwnPermissions
    <3>3. failed[s] BY <2>1, <3>2, LeftBehind
    <3> QED BY <2>2, <3>1, <3>3
  <2> QED BY <1>1, <2>3, <2>4, FinalChange
<1>2. ProviderInv /\ [ProviderNext]_allVars => \A s \in Session : Step(s)
  <2>1. UNCHANGED allVars => UNCHANGED status BY DEF allVars, vars, lifeVars
  <2> QED BY <1>1, <2>1
<1> HIDE DEF Step
<1>3. ProviderInv /\ [ProviderNext]_allVars => ProviderInv' BY ProviderInvNext
<1>4. ProviderSpec => [][\A s \in Session : Step(s)]_allVars
  BY ProviderInitially, <1>2, <1>3, PTL DEF ProviderSpec
<1> QED BY <1>4 DEF Step, FinalChangedOnlyByPoller
=============================================================================
