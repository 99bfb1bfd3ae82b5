---------------------------- MODULE InboundProofs ----------------------------
(***************************************************************************)
(* Theorems about what reaches the program from outside: the episodes made *)
(* of messages, the Discord sense, the calendar sense and the debug stream,*)
(* wired as in Inbound.  Each has an inductive invariant of its own, which *)
(* the steps of the others leave alone.                                    *)
(***************************************************************************)
EXTENDS Inbound, FiniteSetTheorems, TLAPS

(***************************************************************************)
(* Episodes.  The links are the edges there would be if the service never  *)
(* failed.  They grow at their end: what becomes an episode's predecessor  *)
(* is the last of its channel, which only the holder of lastEpisodeMu can  *)
(* be about to follow.                                                     *)
(***************************************************************************)
Links == {<<prev[e], e>> : e \in {f \in Episode : prev[f] # Nobody}}
Behind == {"linking", "linked", "ended"}
Stage == {"none", "storing", "stored", "failed", "read"} \cup Behind

EpisodeTypeOK ==
  /\ stage \in [Episode -> Stage]
  /\ prev \in [Episode -> Episode \cup {Nobody}]
  /\ last \in [Channel -> Episode \cup {Nobody}]
  /\ \A e \in Episode : stage[e] = "read" => holder = e
Follows(e) ==
  prev[e] # Nobody =>
    /\ stage[e] \in {"read"} \cup Behind /\ stage[prev[e]] \in Behind
    /\ ChannelOf[prev[e]] = ChannelOf[e]
    /\ \A f \in Episode : prev[f] = prev[e] => f = e
LastOne(c) ==
  last[c] # Nobody =>
    /\ ChannelOf[last[c]] = c /\ stage[last[c]] \in Behind
    /\ \A f \in Episode : prev[f] = last[c] => stage[f] = "read"
EpisodeInv ==
  /\ EpisodeTypeOK
  /\ \A e \in Episode : Follows(e)
  /\ \A c \in Channel : LastOne(c)
  /\ edges \subseteq Links /\ \A x \in edges : stage[x[2]] # "read"
  /\ NoCircle(Links)

LEMMA EpisodeInvInit == EpisodeInit => EpisodeInv
<1> SUFFICES ASSUME EpisodeInit PROVE EpisodeInv OBVIOUS
<1>1. Links = {} BY DEF EpisodeInit, Links
<1>2. NoCircle(Links) BY <1>1 DEF NoCircle
<1> QED BY <1>1, <1>2 DEF EpisodeInit, EpisodeInv, EpisodeTypeOK, Stage, Follows, LastOne

LEMMA SameEpisodes == EpisodeInv /\ UNCHANGED episodeVars => EpisodeInv'
BY DEF episodeVars, EpisodeInv, EpisodeTypeOK, Follows, LastOne, Links, NoCircle

(* A set of links gets one more, to an episode nothing follows. *)
LEMMA LinkKeepsOrder ==
  ASSUME NEW L, NoCircle(L), NEW p, NEW e, p # e, \A x \in L : x[1] # e
  PROVE  NoCircle(L \cup {<<p, e>>})
<1> SUFFICES ASSUME NEW E \in SUBSET (L \cup {<<p, e>>}), E # {}
             PROVE  \E x \in E : \A y \in E : y[2] # x[1]
  BY DEF NoCircle
<1>1. E \ {<<p, e>>} \in SUBSET L OBVIOUS
<1>2. CASE E \ {<<p, e>>} = {}
  BY <1>2
<1>3. CASE E \ {<<p, e>>} # {}
  <2>1. PICK x \in E \ {<<p, e>>} : \A y \in E \ {<<p, e>>} : y[2] # x[1] BY <1>1, <1>3 DEF NoCircle
  <2>2. <<p, e>>[2] # x[1] BY <1>1, <2>1
  <2> QED BY <2>1, <2>2
<1> QED BY <1>2, <1>3

LEMMA ReadLastKeeps ==
  ASSUME EpisodeInv, NEW e \in Episode, ReadLast(e)
  PROVE  EpisodeInv'
<1> DEFINE p == last[ChannelOf[e]]
<1>1. /\ holder = Nobody /\ stage[e] = "stored" /\ stage' = [stage EXCEPT ![e] = "read"]
      /\ holder' = e /\ prev' = [prev EXCEPT ![e] = p] /\ UNCHANGED <<last, edges>>
      /\ ChannelOf[e] \in Channel /\ p \in Episode \cup {Nobody} /\ Nobody \notin Episode
  BY EpisodeConstants DEF ReadLast, Unlocked, Goes, Nobody, EpisodeInv, EpisodeTypeOK
<1>2. \A f \in Episode : stage[f] # "read" BY <1>1 DEF EpisodeInv, EpisodeTypeOK
<1>3. \A f \in Episode : prev[f] # e /\ (p # Nobody => prev[f] # p)
  BY <1>1, <1>2 DEF EpisodeInv, EpisodeTypeOK, Follows, LastOne, Behind
<1>4. prev[e] = Nobody /\ p # e BY <1>1 DEF EpisodeInv, Follows, LastOne, Behind
<1>5. EpisodeTypeOK' BY <1>1, <1>2 DEF EpisodeInv, EpisodeTypeOK, Stage
<1>6. ASSUME NEW f \in Episode PROVE Follows(f)'
  <2>1. CASE f = e
    <3>1. prev'[e] = p /\ stage'[e] = "read" BY <1>1 DEF EpisodeInv, EpisodeTypeOK
    <3>2. p # Nobody => stage'[p] \in Behind /\ ChannelOf[p] = ChannelOf[e]
      BY <1>1, <1>4 DEF EpisodeInv, EpisodeTypeOK, LastOne
    <3>3. p # Nobody => \A g \in Episode : prev'[g] = p => g = e
      BY <1>1, <1>3 DEF EpisodeInv, EpisodeTypeOK
    <3> QED BY <2>1, <3>1, <3>2, <3>3 DEF Follows
  <2>2. CASE f # e
    <3>1. prev'[f] = prev[f] /\ stage'[f] = stage[f] BY <1>1, <2>2 DEF EpisodeInv, EpisodeTypeOK
    <3>2. prev[f] # Nobody => stage'[prev[f]] = stage[prev[f]] /\ prev[f] # p
      BY <1>1, <1>3 DEF EpisodeInv, EpisodeTypeOK
    <3>3. \A g \in Episode : prev[f] # Nobody /\ prev'[g] = prev[f] => g = f
      BY <1>1, <3>2 DEF EpisodeInv, EpisodeTypeOK, Follows
    <3> QED BY <1>1, <3>1, <3>2, <3>3 DEF EpisodeInv, Follows
  <2> QED BY <2>1, <2>2
<1>7. ASSUME NEW c \in Channel, last[c] # Nobody PROVE LastOne(c)'
  <2>1. ChannelOf[last[c]] = c /\ stage[last[c]] \in Behind /\ last[c] \in Episode
        /\ \A f \in Episode : prev[f] # last[c]
    BY <1>2, <1>7 DEF EpisodeInv, EpisodeTypeOK, LastOne
  <2>2. stage'[last[c]] = stage[last[c]] BY <1>1, <2>1 DEF EpisodeInv, EpisodeTypeOK, Behind
  <2>3. \A f \in Episode : prev'[f] = last[c] => stage'[f] = "read"
    BY <1>1, <2>1 DEF EpisodeInv, EpisodeTypeOK
  <2> QED BY <1>1, <2>1, <2>2, <2>3 DEF LastOne
<1>8. Links' = IF p = Nobody THEN Links ELSE Links \cup {<<p, e>>}
  BY <1>1, <1>4 DEF Links, EpisodeInv, EpisodeTypeOK
<1>9. NoCircle(Links)'
  <2>1. \A x \in Links : x[1] # e BY <1>3 DEF Links
  <2>2. NoCircle(Links \cup {<<p, e>>}) BY <1>4, <2>1, LinkKeepsOrder DEF EpisodeInv
  <2>3. NoCircle(Links) BY DEF EpisodeInv
  <2>4. Links' = Links \/ Links' = Links \cup {<<p, e>>} BY <1>8
  <2> QED BY <2>2, <2>3, <2>4 DEF NoCircle
<1>10. edges' \subseteq Links' /\ \A x \in edges' : stage'[x[2]] # "read"
  <2>1. edges' \subseteq Links' BY <1>1, <1>8 DEF EpisodeInv
  <2>2. ASSUME NEW x \in edges PROVE stage'[x[2]] # "read"
    <3>1. x \in Links /\ stage[x[2]] # "read" BY DEF EpisodeInv
    <3>2. x[2] \in Episode /\ x[2] # e BY <1>4, <3>1 DEF Links
    <3> QED BY <1>1, <3>1, <3>2 DEF EpisodeInv, EpisodeTypeOK
  <2> QED BY <1>1, <2>1, <2>2
<1>11. \A c \in Channel : LastOne(c)' BY <1>1, <1>7 DEF LastOne
<1> QED BY <1>5, <1>6, <1>9, <1>10, <1>11 DEF EpisodeInv

LEMMA WriteLastKeeps ==
  ASSUME EpisodeInv, NEW e \in Episode, WriteLast(e)
  PROVE  EpisodeInv'
<1>1. /\ stage[e] = "read" /\ stage' = [stage EXCEPT ![e] = "linking"] /\ holder = e
      /\ last' = [last EXCEPT ![ChannelOf[e]] = e] /\ UNCHANGED <<prev, edges>>
      /\ ChannelOf[e] \in Channel /\ Nobody \notin Episode
  BY EpisodeConstants DEF WriteLast, Goes, Nobody, EpisodeInv, EpisodeTypeOK
<1>2. \A f \in Episode \ {e} : stage[f] # "read" /\ stage'[f] = stage[f]
  BY <1>1 DEF EpisodeInv, EpisodeTypeOK
<1>3. EpisodeTypeOK' BY <1>1, <1>2 DEF EpisodeInv, EpisodeTypeOK, Stage, Behind
<1>4. ASSUME NEW f \in Episode PROVE Follows(f)'
  BY <1>1, <1>2 DEF EpisodeInv, EpisodeTypeOK, Follows, Behind
<1>5. ASSUME NEW c \in Channel PROVE LastOne(c)'
  <2>1. CASE c = ChannelOf[e]
    <3>1. last'[c] = e /\ stage'[e] = "linking" BY <1>1, <2>1 DEF EpisodeInv, EpisodeTypeOK
    <3>2. \A f \in Episode : prev[f] # e BY <1>1 DEF EpisodeInv, Follows, Behind
    <3> QED BY <1>1, <2>1, <3>1, <3>2 DEF LastOne, Behind
  <2>2. CASE c # ChannelOf[e]
    <3>1. last'[c] = last[c] BY <1>1, <2>2 DEF EpisodeInv, EpisodeTypeOK
    <3>2. last[c] # Nobody => prev[e] # last[c] /\ last[c] # e
      BY <1>1, <2>2 DEF EpisodeInv, EpisodeTypeOK, Follows, LastOne
    <3>3. last[c] # Nobody => stage'[last[c]] = stage[last[c]]
      BY <1>2, <3>2 DEF EpisodeInv, EpisodeTypeOK
    <3> QED BY <1>1, <1>2, <3>1, <3>2, <3>3 DEF EpisodeInv, LastOne
  <2> QED BY <2>1, <2>2
<1>6. Links' = Links /\ NoCircle(Links)' BY <1>1 DEF Links, NoCircle, EpisodeInv
<1>7. ASSUME NEW x \in edges PROVE stage'[x[2]] # "read"
  <2>1. x \in Links /\ stage[x[2]] # "read" BY DEF EpisodeInv
  <2>2. x[2] \in Episode /\ x[2] # e BY <1>1, <2>1 DEF Links
  <2> QED BY <1>2, <2>1, <2>2
<1> QED BY <1>1, <1>3, <1>4, <1>5, <1>6, <1>7 DEF EpisodeInv

(* The other steps move an episode on between places that are alike here. *)
LEMMA StageKeeps ==
  ASSUME EpisodeInv, NEW e, NEW from \in Stage \ {"read"}, NEW to \in Stage \ {"read"}, Goes(e, from, to),
         from \in Behind <=> to \in Behind,
         UNCHANGED <<prev, last, holder>>,
         edges' = edges \/ (e \in Episode /\ prev[e] # Nobody /\ edges' = edges \cup {<<prev[e], e>>})
  PROVE  EpisodeInv'
<1>1. /\ stage[e] = from /\ stage' = [stage EXCEPT ![e] = to] BY DEF Goes
<1>2. \A f \in Episode : /\ stage'[f] \in Stage /\ (stage'[f] \in Behind <=> stage[f] \in Behind)
                         /\ (stage'[f] = "read" <=> stage[f] = "read")
  BY <1>1 DEF EpisodeInv, EpisodeTypeOK
<1>3. EpisodeTypeOK' BY <1>1, <1>2 DEF EpisodeInv, EpisodeTypeOK
<1>4. ASSUME NEW f \in Episode PROVE Follows(f)'
  BY <1>2 DEF EpisodeInv, EpisodeTypeOK, Follows
<1>5. ASSUME NEW c \in Channel PROVE LastOne(c)'
  BY <1>2 DEF EpisodeInv, EpisodeTypeOK, LastOne
<1>6. Links' = Links /\ NoCircle(Links)' BY DEF Links, NoCircle, EpisodeInv
<1>7. edges' \subseteq Links BY DEF Links, EpisodeInv
<1>8. ASSUME NEW x \in edges' PROVE stage'[x[2]] # "read"
  <2>1. x[2] \in Episode BY <1>7 DEF Links
  <2>2. x \in edges => stage[x[2]] # "read" BY DEF EpisodeInv
  <2>3. x \notin edges => x[2] = e /\ stage[e] # "read" BY <1>1
  <2> QED BY <1>2, <2>1, <2>2, <2>3
<1> QED BY <1>3, <1>4, <1>5, <1>6, <1>7, <1>8 DEF EpisodeInv

LEMMA EpisodesKeep ==
  ASSUME EpisodeInv, Episodes \/ ForgetEpisodes \/ (\E e : Ingest(e))
  PROVE  EpisodeInv'
<1>1. ASSUME NEW e, Ingest(e) PROVE EpisodeInv'
  BY <1>1, StageKeeps DEF Ingest, Stage, Behind
<1>2. ASSUME NEW e \in Episode, IngestEpisode(e) PROVE EpisodeInv'
  <2>1. CASE Goes(e, "storing", "stored")
    BY <1>2, <2>1, StageKeeps DEF IngestEpisode, Stage, Behind
  <2>2. CASE Goes(e, "storing", "failed")
    BY <1>2, <2>2, StageKeeps DEF IngestEpisode, Stage, Behind
  <2> QED BY <1>2, <2>1, <2>2 DEF IngestEpisode
<1>3. ASSUME NEW e \in Episode, AddEpisodeEdge(e) PROVE EpisodeInv'
  BY <1>3, StageKeeps DEF AddEpisodeEdge, Stage, Behind
<1>4. CASE ForgetEpisodes
  <2>1. \A e \in Episode : stage'[e] \in {"none", "ended"} /\ (stage[e] # "none" => stage'[e] = "ended")
    BY <1>4 DEF ForgetEpisodes
  <2>2. EpisodeTypeOK' BY <1>4, <2>1 DEF ForgetEpisodes, EpisodeInv, EpisodeTypeOK, Stage, Behind
  <2>3. ASSUME NEW e \in Episode PROVE Follows(e)'
    BY <1>4, <2>1 DEF ForgetEpisodes, EpisodeInv, EpisodeTypeOK, Follows, Behind
  <2>4. \A c \in Channel : LastOne(c)' BY <1>4 DEF ForgetEpisodes, LastOne
  <2>5. Links' = Links /\ edges' = edges BY <1>4 DEF ForgetEpisodes, Links
  <2>6. ASSUME NEW x \in edges PROVE stage'[x[2]] # "read"
    <3>1. x[2] \in Episode BY DEF EpisodeInv, Links
    <3> QED BY <2>1, <3>1
  <2> QED BY <2>2, <2>3, <2>4, <2>5, <2>6 DEF EpisodeInv, NoCircle
<1> QED BY <1>1, <1>2, <1>3, <1>4, ReadLastKeeps, WriteLastKeeps DEF Episodes

LEMMA EpisodeStep ==
  ASSUME EpisodeInv, [Next]_vars
  PROVE  EpisodeInv'
<1>1. CASE UNCHANGED vars BY <1>1, SameEpisodes DEF vars
<1>2. CASE (\E m \in Message, s \in Session : ProcessInboxMessage(m, s)) \/ \E r \in Reply : CaptureResponse(r)
  BY <1>2, EpisodesKeep DEF ProcessInboxMessage, CaptureResponse
<1>3. CASE Ingesting \/ Crash BY <1>3, EpisodesKeep DEF Ingesting, Crash
<1>4. CASE Sensing \/ Debugging \/ Polling \/ Restart
  BY <1>4, SameEpisodes DEF Sensing, Debugging, Polling, Restart
<1> QED BY <1>1, <1>2, <1>3, <1>4 DEF Next

(* However the goroutines that store messages and replies interleave, and  *)
(* whatever the memory service refuses, the edges of a channel are one     *)
(* chain (ingestToMemoryGraph, lastEngramIDByChannel).                     *)
THEOREM EpisodesAreChained == Spec => []EpisodesFormOneChain
<1>1. EpisodeInv => EpisodesFormOneChain
  <2> SUFFICES ASSUME EpisodeInv PROVE EpisodesFormOneChain OBVIOUS
  <2>1. ASSUME NEW x \in edges
        PROVE  x[2] \in Episode /\ x[1] = prev[x[2]] /\ prev[x[2]] # Nobody /\ x = <<x[1], x[2]>>
               /\ stage[x[2]] # "read"
    BY DEF EpisodeInv, Links
  <2>2. \A x, y \in edges : x # y => x[1] # y[1] /\ x[2] # y[2]
    BY <2>1 DEF EpisodeInv, Follows
  <2>3. \A x \in edges : ChannelOf[x[1]] = ChannelOf[x[2]] BY <2>1 DEF EpisodeInv, Follows
  <2>4. NoCircle(edges) BY DEF EpisodeInv, NoCircle
  <2>5. \A c \in Channel : last[c] # Nobody => \A x \in edges : x[1] # last[c]
    BY <2>1 DEF EpisodeInv, LastOne
  <2> QED BY <2>2, <2>3, <2>4, <2>5 DEF EpisodesFormOneChain
<1>2. Init => EpisodeInv BY EpisodeInvInit DEF Init
<1>3. EpisodeInv /\ [Next]_vars => EpisodeInv' BY EpisodeStep
<1> QED BY <1>1, <1>2, <1>3, PTL DEF Spec

-----------------------------------------------------------------------------
(***************************************************************************)
(* The Discord sense.  Until a reset replaces a session that is redialling *)
(* at most the current one is connected or becomes so, hence no message is *)
(* on its way to, or taken from, two of them.                              *)
(***************************************************************************)
OneListens ==
  abandoned = {} =>
    /\ open \cup redialling \subseteq {session}
    /\ \A m \in Message, s, t \in Session :
         <<m, s>> \in coming \cup handed /\ <<m, t>> \in coming \cup handed => s = t
SenseInv ==
  /\ OneListens
  /\ at = "down" => session = First /\ redialling = {}

LEMMA SenseKeeps ==
  ASSUME OneListens, Sense \/ StopSense \/ (\E m \in Message, s \in Session : HandsOver(m, s))
  PROVE  OneListens'
<1>1. ASSUME NEW m \in Message, Write(m) PROVE OneListens'
  <2>1. PICK R \in SUBSET (open \cup redialling) : coming' = coming \cup ({m} \X R) BY <1>1 DEF Write
  <2>2. UNCHANGED <<session, open, redialling, abandoned, handed>> BY <1>1 DEF Write, linkVars
  <2>3. ASSUME abandoned = {}, NEW n \in Message, NEW s \in Session, NEW t \in Session,
               <<n, s>> \in coming' \cup handed', <<n, t>> \in coming' \cup handed'
        PROVE  s = t
    <3>1. CASE n = m
      <4>1. s \in R /\ t \in R BY <1>1, <2>1, <2>2, <2>3, <3>1 DEF Write, Unwritten
      <4> QED BY <2>3, <4>1 DEF OneListens
    <3>2. CASE n # m
      <4>1. <<n, s>> \in coming \cup handed /\ <<n, t>> \in coming \cup handed
        BY <2>1, <2>2, <2>3, <3>2
      <4> QED BY <2>3, <4>1 DEF OneListens
    <3> QED BY <3>1, <3>2
  <2> QED BY <2>2, <2>3 DEF OneListens
<1>2. ASSUME NEW m \in Message, NEW s \in Session, Drops(m, s) \/ HandsOver(m, s) PROVE OneListens'
  <2>1. /\ coming' \cup handed' \subseteq coming \cup handed
        /\ UNCHANGED <<session, open, redialling, abandoned>>
    BY <1>2 DEF Drops, HandsOver, Arrives, linkVars
  <2> QED BY <2>1 DEF OneListens
<1>3. CASE StopSense
  <2>1. coming' \cup handed' \subseteq coming \cup handed /\ open' = {} /\ redialling' = {} /\ abandoned' = abandoned
    BY <1>3 DEF StopSense
  <2> QED BY <2>1 DEF OneListens
<1>4. ASSUME NEW s \in Session, Drop(s) \/ Redial(s) PROVE OneListens'
  BY <1>4 DEF Drop, Redial, messageVars, OneListens
<1>5. CASE (\E e \in events : HandleEvent(e)) \/ HealthCheck \/ ResetFails
  BY <1>5 DEF HandleEvent, HealthCheck, ResetFails, CannotOpen, Closed, linkVars, messageVars, OneListens
<1>6. CASE HardReset
  <2>1. PICK s \in Free : Replace(s) /\ UNCHANGED <<redialling, coming, handed>>
    BY <1>6 DEF HardReset, messageVars
  <2>2. abandoned' = {} => abandoned = {} /\ session \notin redialling BY <2>1 DEF Replace
  <2>3. ASSUME abandoned' = {} PROVE open' \cup redialling' \subseteq {session'}
    BY <2>1, <2>2, <2>3 DEF OneListens, Replace, Closed
  <2> QED BY <2>1, <2>2, <2>3 DEF OneListens
<1> QED BY <1>1, <1>2, <1>3, <1>4, <1>5, <1>6 DEF Sense

LEMMA SenseStep ==
  ASSUME SenseInv, [Next]_vars
  PROVE  SenseInv'
<1> USE DEF SenseInv
<1>1. ASSUME UNCHANGED senseVars, at' = "down" => at = "down" PROVE SenseInv'
  BY <1>1 DEF senseVars, OneListens
<1>2. CASE UNCHANGED vars BY <1>1, <1>2 DEF vars, calVars
<1>3. CASE (\E m \in Message, s \in Session : ProcessInboxMessage(m, s)) \/ Sensing
  <2>1. at # "down" /\ at' = at BY <1>3 DEF ProcessInboxMessage, Sensing, Running, calVars
  <2> QED BY <1>3, <2>1, SenseKeeps DEF ProcessInboxMessage, Sensing
<1>4. CASE (\E r \in Reply : CaptureResponse(r)) \/ Ingesting \/ Debugging
  BY <1>1, <1>4 DEF CaptureResponse, Ingesting, Debugging, calVars
<1>5. CASE Polling /\ (Running => at' # "down") BY <1>1, <1>5 DEF Polling, Running
<1>6. CASE Crash BY <1>6, SenseKeeps DEF Crash, StopSense
<1>7. CASE Restart
  BY <1>7 DEF Restart, Load, Start, messageVars, OneListens
<1> QED BY <1>2, <1>3, <1>4, <1>5, <1>6, <1>7 DEF Next

(* Until a reset has replaced a session that was redialling, a message is  *)
(* handed over once, whichever connections are lost and come back and      *)
(* however often the program restarts (HardReset, handleMessage).          *)
THEOREM MessagesHandedOverOnce == Spec => []HandedOverOnce
<1>1. Init => SenseInv BY DEF Init, SenseInit, CalendarInit, SenseInv, OneListens
<1>2. SenseInv /\ [Next]_vars => SenseInv' BY SenseStep
<1>3. SenseInv => HandedOverOnce
  <2> SUFFICES ASSUME SenseInv, abandoned = {}, NEW m \in Message
               PROVE  Cardinality({s \in Session : <<m, s>> \in handed}) <= 1
    BY DEF HandedOverOnce
  <2> DEFINE S == {s \in Session : <<m, s>> \in handed}
  <2>1. S = {} \/ \E s \in S : S = {s} BY DEF SenseInv, OneListens
  <2>2. Cardinality(S) \in {0, 1} BY <2>1, FS_EmptySet, FS_Singleton
  <2> QED BY <2>2
<1> QED BY <1>1, <1>2, <1>3, PTL DEF Spec

-----------------------------------------------------------------------------
(***************************************************************************)
(* The calendar sense.  First the types and the clock: a poll happens at   *)
(* one moment, the next one Poll later.                                    *)
(***************************************************************************)
Edition == UNION {Versions[e] : e \in Event}
Notices == ({"agenda", "meeting"} \cup Keyword) \X (Event \cup {""}) \X Int
Sending == [what : Notices, at : Nat]
Polled == {"agenda", "send agenda", "mark agenda", "meetings", "meeting", "remind", "brief", "send brief"}

Clocks ==
  /\ now \in Nat /\ nextPoll \in Nat /\ upset \in Nat /\ upset <= now /\ nextPoll <= now + Poll
  /\ at \in Polled \cup {"idle", "down"}
  /\ at = "idle" => nextPoll >= now
  /\ at \in Polled => nextPoll = now + Poll
CalTypeOK ==
  /\ cal \in [Event -> Edition] /\ \A e \in Event : cal[e] \in Versions[e]
  /\ todo \subseteq Edition
  /\ sent \in Seq(Sending)
  /\ agendaAt \in Nat /\ (disk # Torn => disk.agendaAt \in Nat)
  /\ at = "remind" => notice \in {"meeting"} \X Event \X Int
  /\ at = "send brief" => notice \in Keyword \X {""} \X Int

LEMMA EditionType ==
  ASSUME NEW v \in Edition
  PROVE  v.id \in Event /\ v.start \in Int /\ v.end \in Int /\ v.start < v.end
BY CalendarConstants DEF Edition

LEMMA Days == now \in Nat => Today \in Int /\ Midnight \in Int /\ Day \in Nat \ {0}
BY CalendarConstants DEF Today, Midnight

(* What the steps of a poll do with the clock, and with the rest. *)
LEMMA ClocksKept ==
  ASSUME Clocks, PollSteps \/ Tick \/ (\E e \in Event : Edit(e)) \/ StopCalendar \/ Load
  PROVE  Clocks'
<1>0. Poll \in Nat /\ Poll >= 1 BY CalendarConstants
<1>12. "idle" \notin Polled /\ "down" \notin Polled BY DEF Polled
<1>1. ASSUME NEW A \in SUBSET Every, Answering(A) PROVE upset' \in {upset, now}
  BY <1>1 DEF Answering
<1>2. ASSUME NEW n, NEW a, NEW step, Save(n, a, step) PROVE upset' \in {upset, now} /\ at' \in {step, "down"}
  BY <1>2 DEF Save, KeepState, SaveFails, SaveTorn, GoOn
<1>3. CASE PollStarts BY <1>0, <1>3 DEF PollStarts, envVars, stateVars, Clocks, Polled
<1>4. CASE NoAgendaNow \/ SendAgenda \/ SkipMeeting \/ SendMeetingReminder \/ SendBrief
  BY <1>4 DEF NoAgendaNow, SendAgenda, SkipMeeting, SendMeetingReminder, SendBrief, envVars, Clocks, Polled
<1>5. CASE FetchAgenda \/ FetchMeetings \/ FetchBriefs
  <2>1. upset' \in {upset, now} BY <1>1, <1>5 DEF FetchAgenda, FetchMeetings, FetchBriefs
  <2>2. now' = now /\ nextPoll' = nextPoll /\ at \in Polled /\ at' \in Polled
    BY <1>5 DEF FetchAgenda, FetchMeetings, FetchBriefs, envVars, Polled
  <2> QED BY <1>0, <1>12, <2>1, <2>2 DEF Clocks
<1>6. CASE MarkAgenda \/ MarkMeeting \/ MarkBrief
  <2>1. now' = now /\ nextPoll' = nextPoll /\ at \in Polled
    BY <1>6 DEF MarkAgenda, MarkMeeting, MarkBrief, envVars, Polled
  <2>2. upset' \in {upset, now} /\ at' \in Polled \cup {"down"}
    BY <1>2, <1>6 DEF MarkAgenda, MarkMeeting, MarkBrief, Polled
  <2> QED BY <1>0, <1>12, <2>1, <2>2 DEF Clocks
<1>7. CASE CleanupNotifications
  <2>1. now' = now /\ nextPoll' = nextPoll /\ at \in Polled
    BY <1>7 DEF CleanupNotifications, envVars, Polled
  <2>2. upset' \in {upset, now} /\ at' \in {"idle", "down"}
    BY <1>2, <1>7 DEF CleanupNotifications, GoOn
  <2> QED BY <1>0, <1>12, <2>1, <2>2 DEF Clocks
<1>8. CASE Tick
  <2>1. /\ at \in {"idle", "down"} /\ (at = "idle" => nextPoll > now) /\ now' = now + 1
        /\ UNCHANGED <<at, nextPoll, upset>>
    BY <1>8 DEF Tick, pollVars
  <2> QED BY <1>0, <1>12, <2>1 DEF Clocks
<1>9. CASE \E e \in Event : Edit(e) BY <1>9 DEF Edit, pollVars, Clocks
<1>10. CASE StopCalendar
  <2>1. at' = "down" /\ upset' = now /\ UNCHANGED <<now, nextPoll>> BY <1>10 DEF StopCalendar, envVars
  <2> QED BY <1>0, <1>12, <2>1 DEF Clocks
<1>11. CASE Load BY <1>0, <1>11 DEF Load, envVars, Clocks, Polled
<1> QED BY <1>3, <1>4, <1>5, <1>6, <1>7, <1>8, <1>9, <1>10, <1>11 DEF PollSteps

LEMMA ListedAreEvents ==
  ASSUME CalTypeOK, NEW A, NEW f, NEW t, NEW m, NEW T \in Listing(A, f, t, m)
  PROVE  T \subseteq {cal[e] : e \in Event} /\ T \subseteq Edition
<1>1. T \subseteq {cal[e] : e \in Event} BY DEF Listing
<1> QED BY <1>1 DEF CalTypeOK

LEMMA SendType ==
  ASSUME CalTypeOK, Clocks, NEW n \in Notices, Send(n)
  PROVE  /\ sent' \in Seq(Sending) /\ Len(sent') = Len(sent) + 1
         /\ sent'[Len(sent) + 1].what = n /\ sent'[Len(sent) + 1].at = now
         /\ \A i \in 1 .. Len(sent) : sent'[i] = sent[i]
<1>1. [what |-> n, at |-> now] \in Sending BY DEF Clocks, Sending
<1>2. sent \in Seq(Sending) BY DEF CalTypeOK
<1>3. sent' = Append(sent, [what |-> n, at |-> now]) BY DEF Send
<1>4. /\ sent' \in Seq(Sending) /\ Len(sent') = Len(sent) + 1
      /\ sent'[Len(sent) + 1] = [what |-> n, at |-> now]
      /\ \A i \in 1 .. Len(sent) : sent'[i] = sent[i]
  BY <1>1, <1>2, <1>3
<1>5. sent'[Len(sent) + 1].what = n /\ sent'[Len(sent) + 1].at = now BY <1>4
<1> QED BY <1>4, <1>5

LEMMA CalTypeKept ==
  ASSUME Clocks, CalTypeOK, PollSteps \/ Tick \/ (\E e \in Event : Edit(e)) \/ StopCalendar \/ Load
  PROVE  CalTypeOK'
<1>1. ASSUME NEW n, NEW a \in Nat, NEW step, Save(n, a, step)
      PROVE  agendaAt' \in Nat /\ (disk' # Torn => disk'.agendaAt \in Nat) /\ at' \in {step, "down"}
  <2>1. CASE at' = step /\ KeepState(n, a)
    <3>1. disk'.agendaAt = a BY <2>1 DEF KeepState
    <3> QED BY <2>1, <3>1 DEF KeepState
  <2>2. CASE at' = step /\ SaveFails(n, a) BY <2>2 DEF SaveFails, CalTypeOK
  <2>3. CASE at' = "down" /\ SaveTorn BY <2>3 DEF SaveTorn, CalTypeOK
  <2> QED BY <1>1, <2>1, <2>2, <2>3 DEF Save, GoOn
<1>2. CASE PollStarts \/ NoAgendaNow \/ SkipMeeting \/ Tick
  BY <1>2 DEF PollStarts, NoAgendaNow, SkipMeeting, Tick, envVars, stateVars, pollVars, CalTypeOK
<1>3. CASE FetchAgenda
  <2>0. PICK A \in SUBSET Every : \E T \in Listing(A, Midnight, Midnight + Day, 100) : todo' = {v \in T : Listed(v)}
    BY <1>3 DEF FetchAgenda
  <2>1. PICK T \in Listing(A, Midnight, Midnight + Day, 100) : todo' = {v \in T : Listed(v)} BY <2>0
  <2>2. todo' \subseteq Edition BY <2>1, ListedAreEvents
  <2> QED BY <1>3, <2>2 DEF FetchAgenda, envVars, stateVars, CalTypeOK
<1>4. CASE FetchMeetings \/ FetchBriefs
  <2>1. PICK A \in SUBSET Every : \/ todo' \in Listing(A, now, now + Ahead + Poll, MaxMeetings)
                                 \/ todo' \in Listing(A, now, now + Horizon, MaxBriefs)
    BY <1>4 DEF FetchMeetings, FetchBriefs
  <2>2. todo' \subseteq Edition BY <2>1, ListedAreEvents
  <2> QED BY <1>4, <2>2 DEF FetchMeetings, FetchBriefs, envVars, stateVars, CalTypeOK
<1>5. CASE SendAgenda
  <2>1. <<"agenda", "", Today>> \in Notices BY Days DEF Notices, Clocks
  <2> QED BY <1>5, <2>1, SendType DEF SendAgenda, envVars, stateVars, CalTypeOK
<1>6. CASE SendMeetingReminder \/ SendBrief
  <2>1. notice \in Notices BY <1>6 DEF SendMeetingReminder, SendBrief, CalTypeOK, Notices
  <2> QED BY <1>6, <2>1, SendType DEF SendMeetingReminder, SendBrief, envVars, stateVars, CalTypeOK
<1>7. CASE MarkAgenda
  <2>1. todo' = {} /\ UNCHANGED <<cal, sent, notice>> /\ Save(notified, now, "meetings")
    BY <1>7 DEF MarkAgenda, envVars
  <2>2. now \in Nat BY DEF Clocks
  <2>3. agendaAt' \in Nat /\ (disk' # Torn => disk'.agendaAt \in Nat) /\ at' \in {"meetings", "down"}
    BY <1>1, <2>1, <2>2
  <2> QED BY <2>1, <2>3 DEF CalTypeOK
<1>8. CASE MarkMeeting
  <2>1. PICK v \in todo : notice' = <<"meeting", v.id, v.start>> /\ todo' = todo \ {v}
                          /\ Save(notified \cup {<<MeetingKey(v), now>>}, agendaAt, "remind")
    BY <1>8 DEF MarkMeeting
  <2>2. v.id \in Event /\ v.start \in Int BY EditionType DEF CalTypeOK
  <2>3. UNCHANGED <<cal, sent>> /\ agendaAt \in Nat BY <1>8 DEF MarkMeeting, envVars, CalTypeOK
  <2>4. agendaAt' \in Nat /\ (disk' # Torn => disk'.agendaAt \in Nat) /\ at' \in {"remind", "down"}
    BY <1>1, <2>1, <2>3
  <2> QED BY <2>1, <2>2, <2>3, <2>4 DEF CalTypeOK
<1>9. CASE MarkBrief
  <2>1. PICK k \in Keyword, d \in ClusterDays : notice' = <<k, "", d>>
                          /\ Save(notified \cup {<<Key(k, "", d), now>>}, agendaAt, "send brief")
    BY <1>9 DEF MarkBrief
  <2>2. d \in Int
    <3>1. PICK v \in todo : d = v.start \div Day BY DEF ClusterDays
    <3>2. v.start \in Int /\ Day \in Nat \ {0} BY EditionType, CalendarConstants DEF CalTypeOK
    <3> QED BY <3>1, <3>2
  <2>3. UNCHANGED <<cal, sent, todo>> /\ agendaAt \in Nat BY <1>9 DEF MarkBrief, envVars, CalTypeOK
  <2>4. agendaAt' \in Nat /\ (disk' # Torn => disk'.agendaAt \in Nat) /\ at' \in {"send brief", "down"}
    BY <1>1, <2>1, <2>3
  <2> QED BY <2>1, <2>2, <2>3, <2>4 DEF CalTypeOK
<1>10. CASE CleanupNotifications
  <2>1. UNCHANGED <<cal, sent, notice>> /\ todo' = {} /\ agendaAt \in Nat
    BY <1>10 DEF CleanupNotifications, envVars, CalTypeOK
  <2>2. \/ at' = "idle" /\ UNCHANGED <<agendaAt, disk>>
        \/ \E n : Save(n, agendaAt, "idle")
    BY <1>10 DEF CleanupNotifications, stateVars, GoOn
  <2>3. agendaAt' \in Nat /\ (disk' # Torn => disk'.agendaAt \in Nat) /\ at' \in {"idle", "down"}
    BY <1>1, <2>1, <2>2 DEF CalTypeOK
  <2> QED BY <2>1, <2>3 DEF CalTypeOK
<1>11. ASSUME NEW e \in Event, Edit(e) PROVE CalTypeOK'
  BY <1>11 DEF Edit, stateVars, pollVars, CalTypeOK, Edition
<1>12. CASE StopCalendar BY <1>12 DEF StopCalendar, envVars, stateVars, CalTypeOK
<1>13. CASE Load BY <1>13 DEF Load, Loaded, Empty, envVars, CalTypeOK
<1> QED BY <1>2, <1>3, <1>4, <1>5, <1>6, <1>7, <1>8, <1>9, <1>10, <1>11, <1>12, <1>13 DEF PollSteps

(***************************************************************************)
(* While nothing has gone wrong with saving, the file holds what memory    *)
(* does, and what was sent in the last day is noted under its key: so what *)
(* is about to be sent, whose key was not known, was not sent for a day.   *)
(***************************************************************************)
KeyOf(w) == IF w[1] = "meeting" THEN <<"meeting", w[2], w[3] \div Day>> ELSE w
Clean == unsaved \cap {"failed", "torn"} = {}
OnDisk == disk = [notified |-> notified, agendaAt |-> agendaAt]

Noted(i) ==
  sent[i].what[1] # "agenda" =>
    <<KeyOf(sent[i].what), sent[i].at>> \in notified \/ sent[i].at < now - Day
LongAgo(w) == \A i \in 1 .. Len(sent) : sent[i].what = w => sent[i].at < now - Day
Apart ==
  \A i, j \in 1 .. Len(sent) :
    i < j /\ sent[i].what = sent[j].what /\ sent[i].what[1] # "agenda" => sent[j].at > sent[i].at + Day
NoticeInv ==
  Clean =>
    /\ OnDisk /\ Apart
    /\ \A i \in 1 .. Len(sent) : Noted(i)
    /\ at \in {"remind", "send brief"} => LongAgo(notice) /\ <<KeyOf(notice), now>> \in notified

LEMMA CleanSave ==
  ASSUME NEW n, NEW a, NEW step, Save(n, a, step)
  PROVE  /\ unsaved \subseteq unsaved'
         /\ Clean' => /\ unsaved' = unsaved /\ at' = step /\ notified' = n /\ agendaAt' = a
                      /\ OnDisk'
BY DEF Save, GoOn, KeepState, SaveFails, SaveTorn, Clean, OnDisk

LEMMA SentType ==
  ASSUME Clocks, CalTypeOK
  PROVE  /\ Len(sent) \in Nat /\ now \in Nat /\ Day \in Nat \ {0}
         /\ \A i \in 1 .. Len(sent) : sent[i] \in Sending /\ sent[i].at \in Nat /\ sent[i].what \in Notices
<1>1. sent \in Seq(Sending) /\ now \in Nat /\ Day \in Nat \ {0} BY CalendarConstants DEF CalTypeOK, Clocks
<1>2. \A i \in 1 .. Len(sent) : sent[i] \in Sending BY <1>1
<1>3. \A r \in Sending : r.at \in Nat /\ r.what \in Notices BY DEF Sending
<1> QED BY <1>1, <1>2, <1>3

LEMMA StillNoted ==
  ASSUME Clocks, CalTypeOK, NEW i \in 1 .. Len(sent), Noted(i),
         now' \in {now, now + 1}, sent' = sent,
         \A x \in notified : x \in notified' \/ x[2] < now - Day
  PROVE  Noted(i)'
<1>1. sent[i].at \in Nat /\ now \in Nat /\ Day \in Nat BY SentType
<1>2. KeyOf(sent[i].what)' = KeyOf(sent[i].what) BY DEF KeyOf
<1>3. sent[i].at < now - Day => sent[i].at < now' - Day BY <1>1
<1>4. ASSUME <<KeyOf(sent[i].what), sent[i].at>> \in notified
      PROVE  <<KeyOf(sent[i].what), sent[i].at>> \in notified' \/ sent[i].at < now - Day
  BY <1>4
<1> QED BY <1>2, <1>3, <1>4 DEF Noted

(* A step that neither sends nor is about to. *)
LEMMA NothingSent ==
  ASSUME Clocks, CalTypeOK, NoticeInv, unsaved \subseteq unsaved', Clean' => OnDisk' \/ UNCHANGED <<disk, notified, agendaAt>>,
         now' \in {now, now + 1}, sent' = sent, at' \notin {"remind", "send brief"},
         Clean' => \A x \in notified : x \in notified' \/ x[2] < now - Day
  PROVE  NoticeInv'
<1> SUFFICES ASSUME Clean'
             PROVE  OnDisk' /\ Apart' /\ (\A i \in 1 .. Len(sent) : Noted(i)')
  BY DEF NoticeInv
<1>1. Clean BY DEF Clean
<1>2. OnDisk /\ Apart /\ \A i \in 1 .. Len(sent) : Noted(i) BY <1>1 DEF NoticeInv
<1>3. OnDisk' /\ Apart' BY <1>2 DEF OnDisk, Apart
<1> QED BY <1>2, <1>3, StillNoted

(* Something is marked, to be sent in the next step. *)
LEMMA MarkedForSending ==
  ASSUME Clocks, CalTypeOK, NoticeInv, NEW step \in {"remind", "send brief"}, NEW w,
         notice' = w, UNCHANGED <<now, sent>>,
         ~Known(KeyOf(w)), w[1] # "agenda", Save(notified \cup {<<KeyOf(w), now>>}, agendaAt, step)
  PROVE  NoticeInv'
<1>1. SUFFICES ASSUME Clean'
      PROVE  OnDisk' /\ Apart' /\ (\A i \in 1 .. Len(sent) : Noted(i)')
             /\ LongAgo(notice)' /\ <<KeyOf(notice), now>>' \in notified'
  BY DEF NoticeInv
<1>2. Clean /\ notified' = notified \cup {<<KeyOf(w), now>>} /\ OnDisk' BY <1>1, CleanSave DEF Clean
<1>3. Apart /\ \A i \in 1 .. Len(sent) : Noted(i) BY <1>2 DEF NoticeInv
<1>4. Apart' BY <1>3 DEF Apart
<1>5. \A i \in 1 .. Len(sent) : Noted(i)' BY <1>2, <1>3, StillNoted
<1>6. ASSUME NEW i \in 1 .. Len(sent), sent[i].what = w PROVE sent[i].at < now - Day
  <2>1. <<KeyOf(w), sent[i].at>> \notin notified
    <3>1. <<KeyOf(w), sent[i].at>>[1] = KeyOf(w) OBVIOUS
    <3> QED BY <3>1 DEF Known
  <2> QED BY <1>3, <1>6, <2>1 DEF Noted
<1>7. LongAgo(notice)' BY <1>6 DEF LongAgo
<1>8. KeyOf(notice)' = KeyOf(w) BY DEF KeyOf
<1> QED BY <1>2, <1>4, <1>5, <1>7, <1>8

LEMMA OneMore ==
  ASSUME NEW n \in Nat, NEW j \in 1 .. (n + 1)
  PROVE  (j \in 1 .. n \/ j = n + 1) /\ \A i \in 1 .. (n + 1) : i < j => i \in 1 .. n
OBVIOUS

LEMMA DayAgo ==
  ASSUME NEW t \in Nat, NEW s \in Nat, NEW d \in Nat
  PROVE  t < s - d <=> s > t + d
OBVIOUS

LEMMA SentNow ==
  ASSUME Clocks, CalTypeOK, NoticeInv, NEW n \in Notices, Send(n),
         UNCHANGED <<now, notified, agendaAt, disk, unsaved>>, at' \notin {"remind", "send brief"},
         n[1] # "agenda" => at \in {"remind", "send brief"} /\ notice = n
  PROVE  NoticeInv'
<1> DEFINE L == Len(sent)
<1>1. SUFFICES ASSUME Clean
      PROVE  OnDisk' /\ Apart' /\ (\A i \in 1 .. Len(sent') : Noted(i)')
  BY DEF NoticeInv, Clean
<1>2. /\ Len(sent') = L + 1 /\ sent'[L + 1].what = n /\ sent'[L + 1].at = now
      /\ \A i \in 1 .. L : sent'[i] = sent[i]
  BY SendType
<1>3. OnDisk /\ Apart /\ (\A i \in 1 .. L : Noted(i))
      /\ (n[1] # "agenda" => LongAgo(n) /\ <<KeyOf(n), now>> \in notified)
  BY <1>1 DEF NoticeInv
<1>4. /\ L \in Nat /\ now \in Nat /\ Day \in Nat
      /\ \A i \in 1 .. L : sent[i].at \in Nat
  BY SentType
<1>5. OnDisk' BY <1>3 DEF OnDisk
<1>6. ASSUME NEW i \in 1 .. (L + 1) PROVE Noted(i)'
  <2>1. CASE i \in 1 .. L BY <1>2, <1>3, <2>1 DEF Noted, KeyOf
  <2>2. CASE i = L + 1 BY <1>2, <1>3, <2>2 DEF Noted, KeyOf
  <2>3. i \in 1 .. L \/ i = L + 1 BY <1>4, OneMore
  <2> QED BY <2>1, <2>2, <2>3
<1>7. ASSUME NEW i \in 1 .. (L + 1), NEW j \in 1 .. (L + 1), i < j,
             sent'[i].what = sent'[j].what, sent'[i].what[1] # "agenda"
      PROVE  sent'[j].at > sent'[i].at + Day
  <2>1. i \in 1 .. L /\ (j \in 1 .. L \/ j = L + 1) BY <1>4, <1>7, OneMore
  <2>2. CASE j \in 1 .. L BY <1>2, <1>3, <1>7, <2>1, <2>2 DEF Apart
  <2>3. CASE j = L + 1
    <3>1. sent[i].what = n /\ sent'[j].at = now /\ sent'[i].at = sent[i].at BY <1>2, <1>7, <2>1, <2>3
    <3>2. sent[i].at < now - Day BY <1>2, <1>3, <1>7, <2>1, <3>1 DEF LongAgo
    <3>3. sent[i].at \in Nat BY <1>4, <2>1
    <3>4. now > sent[i].at + Day BY <1>4, <3>2, <3>3, DayAgo
    <3> QED BY <3>1, <3>4
  <2> QED BY <2>1, <2>2, <2>3
<1>8. Apart' BY <1>2, <1>7 DEF Apart
<1> QED BY <1>2, <1>5, <1>6, <1>8

(***************************************************************************)
(* While nothing at all has kept something from being saved, the days      *)
(* whose agenda was sent are behind lastDailyAgenda, but for today's while *)
(* that is being noted.                                                    *)
(***************************************************************************)
IsAgenda(i) == sent[i].what[1] = "agenda"
AgendaOf(i) == sent[i].what[3]
Behindhand(i) == at = "mark agenda" /\ todo # {} /\ AgendaOf(i) = Today
AgendaNoted(i) ==
  IsAgenda(i) =>
    sent[i].what = <<"agenda", "", AgendaOf(i)>> /\ (agendaAt > AgendaOf(i) * Day \/ Behindhand(i))
OneAgendaADay ==
  \A i, j \in 1 .. Len(sent) : i < j /\ IsAgenda(i) => sent[i].what # sent[j].what
AgendaAhead ==
  /\ at \in {"send agenda", "mark agenda"} => AgendaDue
  /\ at = "send agenda" => todo # {}
AgendaInv ==
  unsaved = {} =>
    agendaAt <= now /\ OneAgendaADay /\ AgendaAhead /\ \A i \in 1 .. Len(sent) : AgendaNoted(i)

LEMMA NotBefore ==
  ASSUME NEW a \in Nat, NEW n \in Nat, a <= n, NEW m \in {n, n + 1}
  PROVE  a <= m
OBVIOUS

LEMMA DivMod ==
  ASSUME NEW n \in Nat, NEW d \in Nat \ {0}
  PROVE  n \div d \in Int /\ n % d \in Int /\ n % d = n - d * (n \div d)
OBVIOUS

LEMMA AgendaKept ==
  ASSUME Clocks, CalTypeOK, AgendaInv, unsaved \subseteq unsaved',
         unsaved' = {} =>
           /\ sent' = sent /\ agendaAt' = agendaAt /\ now' \in {now, now + 1}
           /\ AgendaAhead'
           /\ \/ at # "mark agenda" \/ todo = {}
              \/ UNCHANGED <<at, todo, now>>
  PROVE  AgendaInv'
<1> SUFFICES ASSUME unsaved' = {} PROVE agendaAt' <= now' /\ OneAgendaADay' /\ \A i \in 1 .. Len(sent') : AgendaNoted(i)'
  BY DEF AgendaInv
<1>1. unsaved = {} OBVIOUS
<1>2. agendaAt <= now /\ OneAgendaADay /\ \A i \in 1 .. Len(sent) : AgendaNoted(i) BY <1>1 DEF AgendaInv
<1>3. sent' = sent /\ agendaAt' = agendaAt /\ now' \in {now, now + 1} OBVIOUS
<1>4. agendaAt' <= now'
  <2>1. now \in Nat /\ agendaAt \in Nat BY DEF Clocks, CalTypeOK
  <2> QED BY <1>2, <1>3, <2>1, NotBefore
<1>5. OneAgendaADay' BY <1>2, <1>3 DEF OneAgendaADay, IsAgenda
<1>6. ASSUME NEW i \in 1 .. Len(sent) PROVE AgendaNoted(i)'
  <2>1. AgendaNoted(i) BY <1>2
  <2>2. CASE UNCHANGED <<at, todo, now>>
    BY <1>3, <2>1, <2>2 DEF AgendaNoted, IsAgenda, AgendaOf, Behindhand, Today
  <2>3. CASE at # "mark agenda" \/ todo = {}
    BY <1>3, <2>1, <2>3 DEF AgendaNoted, IsAgenda, AgendaOf, Behindhand
  <2> QED BY <2>2, <2>3
<1> QED BY <1>3, <1>4, <1>5, <1>6

LEMMA AgendaMarked ==
  ASSUME Clocks, CalTypeOK, AgendaInv, MarkAgenda
  PROVE  AgendaInv'
<1>1. Save(notified, now, "meetings") /\ UNCHANGED <<now, sent>> /\ at = "mark agenda"
  BY DEF MarkAgenda, envVars
<1>2. unsaved' = {} => unsaved = {} /\ agendaAt' = now /\ at' = "meetings" BY <1>1, CleanSave DEF Clean
<1> SUFFICES ASSUME unsaved' = {}
             PROVE  /\ agendaAt' <= now' /\ OneAgendaADay' /\ AgendaAhead'
                    /\ \A i \in 1 .. Len(sent') : AgendaNoted(i)'
  BY DEF AgendaInv
<1>3. agendaAt <= now /\ OneAgendaADay /\ AgendaDue /\ \A i \in 1 .. Len(sent) : AgendaNoted(i)
  BY <1>1, <1>2 DEF AgendaInv, AgendaAhead
<1>4. now \in Nat /\ agendaAt \in Nat /\ Day \in Nat \ {0}
  BY CalendarConstants DEF Clocks, CalTypeOK
<1>5. now > Today * Day
  <2>1. now % Day \in 1 .. (Day - 1) BY <1>3, CalendarConstants DEF AgendaDue
  <2>2. now \div Day \in Int /\ now % Day = now - Day * (now \div Day) BY <1>4, DivMod
  <2> QED BY <1>4, <2>1, <2>2 DEF Today
<1>6. OneAgendaADay' BY <1>1, <1>3 DEF OneAgendaADay, IsAgenda
<1>7. AgendaAhead' BY <1>2 DEF AgendaAhead
<1>8. ASSUME NEW i \in 1 .. Len(sent), IsAgenda(i) PROVE agendaAt' > AgendaOf(i) * Day
  <2>1. sent[i].what \in Notices BY SentType
  <2>2. AgendaOf(i) \in Int BY <2>1 DEF AgendaOf, Notices
  <2>3. AgendaOf(i) * Day \in Int BY <1>4, <2>2
  <2>4. CASE agendaAt > AgendaOf(i) * Day BY <1>2, <1>3, <1>4, <2>3, <2>4
  <2>5. CASE AgendaOf(i) = Today BY <1>2, <1>5, <2>5
  <2> QED BY <1>3, <1>8, <2>4, <2>5 DEF AgendaNoted, Behindhand
<1>9. ASSUME NEW i \in 1 .. Len(sent) PROVE AgendaNoted(i)'
  BY <1>1, <1>3, <1>8 DEF AgendaNoted, IsAgenda, AgendaOf
<1>10. agendaAt' <= now'
  <2>1. now <= now BY <1>4
  <2> QED BY <1>1, <1>2, <2>1
<1> QED BY <1>1, <1>6, <1>7, <1>9, <1>10

LEMMA AgendaSent ==
  ASSUME Clocks, CalTypeOK, AgendaInv, NEW n \in Notices, Send(n),
         UNCHANGED <<now, agendaAt, unsaved, todo>>,
         n[1] = "agenda" => n = <<"agenda", "", Today>> /\ at = "send agenda" /\ at' = "mark agenda",
         n[1] # "agenda" => at # "mark agenda" /\ at' \notin {"send agenda", "mark agenda"}
  PROVE  AgendaInv'
<1> DEFINE L == Len(sent)
<1> SUFFICES ASSUME unsaved = {}
             PROVE  agendaAt' <= now' /\ OneAgendaADay' /\ AgendaAhead' /\ \A i \in 1 .. Len(sent') : AgendaNoted(i)'
  BY DEF AgendaInv
<1>1. /\ Len(sent') = L + 1 /\ sent'[L + 1].what = n
      /\ \A i \in 1 .. L : sent'[i] = sent[i]
  BY SendType
<1>2. /\ L \in Nat /\ agendaAt <= now /\ OneAgendaADay /\ AgendaAhead /\ \A i \in 1 .. L : AgendaNoted(i)
  BY SentType DEF AgendaInv
<1>3. at # "mark agenda" BY DEF Notices
<1>4. AgendaAhead' BY <1>2 DEF AgendaAhead, AgendaDue, Midnight, Today
<1>5. ASSUME n[1] = "agenda", NEW i \in 1 .. L, IsAgenda(i) PROVE sent[i].what # n
  <2>1. ~(agendaAt > Today * Day) BY <1>2, <1>5 DEF AgendaAhead, AgendaDue, Midnight
  <2>2. agendaAt > AgendaOf(i) * Day BY <1>2, <1>3, <1>5 DEF AgendaNoted, Behindhand
  <2>3. n[3] = Today
    <3>1. <<"agenda", "", Today>>[3] = Today OBVIOUS
    <3> QED BY <1>5, <3>1
  <2> QED BY <2>1, <2>2, <2>3 DEF AgendaOf
<1>6. ASSUME NEW i \in 1 .. (L + 1) PROVE AgendaNoted(i)'
  <2>1. CASE i \in 1 .. L
    <3>1. ~Behindhand(i) BY <1>3 DEF Behindhand
    <3> QED BY <1>1, <1>2, <2>1, <3>1 DEF AgendaNoted, IsAgenda, AgendaOf
  <2>2. CASE i = L + 1
    <3>1. n[1] = "agenda" => todo # {} BY <1>2 DEF AgendaAhead
    <3>2. Today' = Today BY DEF Today
    <3>3. <<"agenda", "", Today>>[3] = Today OBVIOUS
    <3>4. n[1] = "agenda" => n[3] = Today /\ n = <<"agenda", "", n[3]>> /\ at' = "mark agenda" BY <3>3
    <3> QED BY <1>1, <2>2, <3>1, <3>2, <3>4 DEF AgendaNoted, IsAgenda, AgendaOf, Behindhand
  <2> QED BY <1>2, <2>1, <2>2, OneMore
<1>7. ASSUME NEW i \in 1 .. (L + 1), NEW j \in 1 .. (L + 1), i < j, sent'[i].what[1] = "agenda"
      PROVE  sent'[i].what # sent'[j].what
  <2>1. i \in 1 .. L /\ (j \in 1 .. L \/ j = L + 1) BY <1>2, <1>7, OneMore
  <2>2. CASE j \in 1 .. L BY <1>1, <1>2, <1>7, <2>1, <2>2 DEF OneAgendaADay, IsAgenda
  <2>3. CASE j = L + 1
    <3>1. n[1] # "agenda" => sent[i].what # n BY <1>1, <1>7, <2>1
    <3> QED BY <1>1, <1>5, <1>7, <2>1, <2>3, <3>1 DEF IsAgenda
  <2> QED BY <2>1, <2>2, <2>3
<1>8. OneAgendaADay' BY <1>1, <1>7 DEF OneAgendaADay, IsAgenda
<1> QED BY <1>1, <1>2, <1>4, <1>6, <1>8

OnceInv == Clocks /\ CalTypeOK /\ NoticeInv /\ AgendaInv

LEMMA Reloaded ==
  ASSUME OnceInv, Load, Clean
  PROVE  UNCHANGED <<disk, notified, agendaAt>>
<1>1. disk = [notified |-> notified, agendaAt |-> agendaAt] /\ agendaAt \in Nat
  BY DEF OnceInv, NoticeInv, OnDisk, CalTypeOK
<1>2. disk.notified = notified /\ disk.agendaAt = agendaAt BY <1>1
<1>3. Torn.agendaAt = -1 BY DEF Torn, Empty
<1>4. disk # Torn BY <1>1, <1>2, <1>3
<1> QED BY <1>2, <1>4 DEF Load, Loaded

LEMMA NoticesKept ==
  ASSUME OnceInv, PollSteps \/ Tick \/ (\E e \in Event : Edit(e)) \/ StopCalendar \/ Load
  PROVE  NoticeInv'
<1> USE DEF OnceInv
<1>1. CASE PollStarts \/ NoAgendaNow \/ SkipMeeting \/ Tick \/ StopCalendar
  <2>1. UNCHANGED <<disk, notified, agendaAt, sent>> /\ unsaved \subseteq unsaved'
        /\ now' \in {now, now + 1} /\ at' \notin {"remind", "send brief"}
    BY <1>1 DEF PollStarts, NoAgendaNow, SkipMeeting, Tick, StopCalendar, envVars, stateVars, pollVars
  <2> QED BY <2>1, NothingSent
<1>2. CASE FetchAgenda \/ FetchMeetings \/ FetchBriefs
  <2>1. UNCHANGED <<disk, notified, agendaAt, sent, unsaved, now>> /\ at' \notin {"remind", "send brief"}
    BY <1>2 DEF FetchAgenda, FetchMeetings, FetchBriefs, envVars, stateVars
  <2> QED BY <2>1, NothingSent
<1>3. ASSUME NEW e \in Event, Edit(e) PROVE NoticeInv'
  <2>1. UNCHANGED <<now, disk, notified, agendaAt, sent, unsaved, at, notice>>
    BY <1>3 DEF Edit, stateVars, pollVars
  <2> QED BY <2>1 DEF NoticeInv, OnDisk, Apart, Noted, LongAgo, KeyOf, Clean
<1>4. CASE MarkAgenda
  <2>1. Save(notified, now, "meetings") /\ UNCHANGED <<sent, now>> BY <1>4 DEF MarkAgenda, envVars
  <2>2. at' \notin {"remind", "send brief"} BY <2>1 DEF Save, GoOn
  <2> QED BY <2>1, <2>2, CleanSave, NothingSent
<1>5. CASE CleanupNotifications
  <2> DEFINE old == {x \in notified : x[2] < now - Day}
  <2>1. UNCHANGED <<now, sent>> BY <1>5 DEF CleanupNotifications, envVars
  <2>2. \/ at' = "idle" /\ UNCHANGED <<notified, agendaAt, disk, unsaved>>
        \/ Save(notified \ old, agendaAt, "idle")
    BY <1>5 DEF CleanupNotifications, GoOn, stateVars
  <2>3. CASE at' = "idle" /\ UNCHANGED <<notified, agendaAt, disk, unsaved>> BY <2>1, <2>3, NothingSent
  <2>4. CASE Save(notified \ old, agendaAt, "idle")
    <3>1. at' \notin {"remind", "send brief"} BY <2>4 DEF Save, GoOn
    <3>2. unsaved \subseteq unsaved' /\ (Clean' => OnDisk' /\ notified' = notified \ old) BY <2>4, CleanSave
    <3> QED BY <2>1, <3>1, <3>2, NothingSent
  <2> QED BY <2>2, <2>3, <2>4
<1>6. CASE MarkMeeting
  <2>1. PICK v \in todo : /\ notice' = <<"meeting", v.id, v.start>> /\ ~Known(MeetingKey(v))
                          /\ Save(notified \cup {<<MeetingKey(v), now>>}, agendaAt, "remind")
    BY <1>6 DEF MarkMeeting, Due
  <2>2. MeetingKey(v) = KeyOf(<<"meeting", v.id, v.start>>) BY DEF MeetingKey, Key, KeyOf
  <2>3. UNCHANGED <<now, sent>> BY <1>6 DEF MarkMeeting, envVars
  <2>4. <<"meeting", v.id, v.start>>[1] # "agenda" OBVIOUS
  <2> QED BY <2>1, <2>2, <2>3, <2>4, MarkedForSending
<1>7. CASE MarkBrief
  <2>1. PICK k \in Keyword, d \in ClusterDays :
          /\ notice' = <<k, "", d>> /\ ~Known(Key(k, "", d))
          /\ Save(notified \cup {<<Key(k, "", d), now>>}, agendaAt, "send brief")
    BY <1>7 DEF MarkBrief, BriefDue
  <2>2. Key(k, "", d) = KeyOf(<<k, "", d>>) /\ <<k, "", d>>[1] # "agenda"
    BY CalendarConstants DEF Key, KeyOf
  <2>3. UNCHANGED <<now, sent>> BY <1>7 DEF MarkBrief, envVars
  <2> QED BY <2>1, <2>2, <2>3, MarkedForSending
<1>8. CASE SendAgenda
  <2> DEFINE n == <<"agenda", "", Today>>
  <2>1. n \in Notices /\ n[1] = "agenda" BY Days DEF Notices, Clocks
  <2>2. /\ Send(n) /\ at' = "mark agenda"
        /\ UNCHANGED <<now, notified, agendaAt, disk, unsaved>>
    BY <1>8 DEF SendAgenda, envVars, stateVars
  <2> HIDE DEF n
  <2> QED BY <2>1, <2>2, SentNow
<1>9. CASE SendMeetingReminder \/ SendBrief
  <2>1. notice \in Notices BY <1>9 DEF SendMeetingReminder, SendBrief, CalTypeOK, Notices
  <2>2. /\ Send(notice) /\ at \in {"remind", "send brief"} /\ at' \in {"meeting", "brief"}
        /\ UNCHANGED <<now, notified, agendaAt, disk, unsaved>>
    BY <1>9 DEF SendMeetingReminder, SendBrief, envVars, stateVars
  <2> QED BY <2>1, <2>2, SentNow
<1>10. CASE Load
  <2>1. /\ UNCHANGED <<now, sent, unsaved>> /\ at' = "idle" BY <1>10 DEF Load, envVars
  <2>2. Clean' => UNCHANGED <<disk, notified, agendaAt>> BY <1>10, <2>1, Reloaded DEF Clean
  <2> QED BY <2>1, <2>2, NothingSent
<1> QED BY <1>1, <1>2, <1>3, <1>4, <1>5, <1>6, <1>7, <1>8, <1>9, <1>10 DEF PollSteps

LEMMA AgendasKept ==
  ASSUME OnceInv, PollSteps \/ Tick \/ (\E e \in Event : Edit(e)) \/ StopCalendar \/ Load
  PROVE  AgendaInv'
<1> USE DEF OnceInv
<1>0. unsaved = {} => AgendaAhead BY DEF AgendaInv
<1>1. CASE PollStarts \/ NoAgendaNow \/ SkipMeeting \/ Tick \/ FetchMeetings \/ FetchBriefs
  <2>1. /\ UNCHANGED <<agendaAt, sent, unsaved>> /\ now' \in {now, now + 1}
        /\ at # "mark agenda" /\ at' \notin {"send agenda", "mark agenda"}
    BY <1>1 DEF PollStarts, NoAgendaNow, SkipMeeting, Tick, FetchMeetings, FetchBriefs, envVars, stateVars, pollVars
  <2> QED BY <2>1, AgendaKept DEF AgendaAhead
<1>2. CASE FetchAgenda
  <2>1. /\ UNCHANGED <<agendaAt, sent, unsaved, now>> /\ at = "agenda" /\ AgendaDue
        /\ at' = "send agenda" => todo' # {}
    BY <1>2 DEF FetchAgenda, envVars, stateVars
  <2>2. AgendaAhead' BY <2>1 DEF AgendaAhead, AgendaDue, Midnight, Today
  <2> QED BY <2>1, <2>2, AgendaKept
<1>3. ASSUME NEW e \in Event, Edit(e) PROVE AgendaInv'
  <2>1. UNCHANGED <<now, agendaAt, sent, unsaved, at, todo>> BY <1>3 DEF Edit, stateVars, pollVars
  <2>2. AgendaAhead => AgendaAhead' BY <2>1 DEF AgendaAhead, AgendaDue, Midnight, Today
  <2> QED BY <1>0, <2>1, <2>2, AgendaKept
<1>4. CASE StopCalendar
  <2>1. /\ UNCHANGED <<agendaAt, sent, now>> /\ unsaved \subseteq unsaved' /\ at' = "down"
        /\ unsaved' = {} => at # "mark agenda" \/ todo = {}
    BY <1>4 DEF StopCalendar, envVars, stateVars
  <2> QED BY <2>1, AgendaKept DEF AgendaAhead
<1>5. CASE MarkAgenda BY <1>5, AgendaMarked
<1>6. ASSUME NEW n, NEW step \in {"remind", "send brief", "idle"}, Save(n, agendaAt, step), UNCHANGED <<now, sent>>,
             at # "mark agenda"
      PROVE  AgendaInv'
  <2>1. /\ unsaved \subseteq unsaved'
        /\ unsaved' = {} => agendaAt' = agendaAt /\ at' = step
    BY <1>6, CleanSave DEF Clean
  <2>2. unsaved' = {} => AgendaAhead' BY <2>1 DEF AgendaAhead
  <2> QED BY <1>6, <2>1, <2>2, AgendaKept
<1>7. CASE MarkMeeting
  <2>1. UNCHANGED <<now, sent>> /\ at # "mark agenda" /\ \E n : Save(n, agendaAt, "remind")
    BY <1>7 DEF MarkMeeting, envVars
  <2> QED BY <1>6, <2>1
<1>8. CASE MarkBrief
  <2>1. UNCHANGED <<now, sent>> /\ at # "mark agenda" /\ \E n : Save(n, agendaAt, "send brief")
    BY <1>8 DEF MarkBrief, envVars
  <2> QED BY <1>6, <2>1
<1>9. CASE CleanupNotifications
  <2>1. /\ UNCHANGED <<now, sent>> /\ at # "mark agenda"
        /\ \/ at' = "idle" /\ UNCHANGED <<agendaAt, unsaved>>
           \/ \E n : Save(n, agendaAt, "idle")
    BY <1>9 DEF CleanupNotifications, GoOn, stateVars, envVars
  <2>2. CASE at' = "idle" /\ UNCHANGED <<agendaAt, unsaved>> BY <2>1, <2>2, AgendaKept DEF AgendaAhead
  <2> QED BY <1>6, <2>1, <2>2
<1>10. CASE SendAgenda
  <2> DEFINE n == <<"agenda", "", Today>>
  <2>1. n \in Notices /\ n[1] = "agenda" BY Days DEF Notices, Clocks
  <2>2. /\ Send(n) /\ at = "send agenda" /\ at' = "mark agenda"
        /\ UNCHANGED <<now, agendaAt, unsaved, todo>>
    BY <1>10 DEF SendAgenda, envVars, stateVars
  <2>3. n = <<"agenda", "", Today>> OBVIOUS
  <2> HIDE DEF n
  <2> QED BY <2>1, <2>2, <2>3, AgendaSent
<1>11. CASE SendMeetingReminder \/ SendBrief
  <2>1. notice \in Notices /\ notice[1] # "agenda"
    BY <1>11, CalendarConstants DEF SendMeetingReminder, SendBrief, CalTypeOK, Notices
  <2>2. /\ Send(notice) /\ at # "mark agenda" /\ at' \in {"meeting", "brief"}
        /\ UNCHANGED <<now, agendaAt, unsaved, todo>>
    BY <1>11 DEF SendMeetingReminder, SendBrief, envVars, stateVars
  <2> QED BY <2>1, <2>2, AgendaSent
<1>12. CASE Load
  <2>1. UNCHANGED <<now, sent, unsaved>> /\ at' = "idle" /\ at = "down" BY <1>12 DEF Load, envVars
  <2>2. unsaved' = {} => agendaAt' = agendaAt BY <1>12, <2>1, Reloaded DEF Clean
  <2> QED BY <2>1, <2>2, AgendaKept DEF AgendaAhead
<1> QED BY <1>1, <1>2, <1>3, <1>4, <1>5, <1>7, <1>8, <1>9, <1>10, <1>11, <1>12 DEF PollSteps

(* All that moves the calendar sense. *)
CalendarMoves == PollSteps \/ Tick \/ (\E e \in Event : Edit(e)) \/ StopCalendar \/ Load

LEMMA InboundMoves ==
  ASSUME [Next]_vars
  PROVE  CalendarMoves \/ UNCHANGED calVars
<1>1. CASE UNCHANGED vars BY <1>1 DEF vars
<1>2. CASE (\E m \in Message, s \in Session : ProcessInboxMessage(m, s)) \/ \E r \in Reply : CaptureResponse(r)
  BY <1>2 DEF ProcessInboxMessage, CaptureResponse
<1>3. CASE Ingesting \/ Sensing \/ Debugging BY <1>3 DEF Ingesting, Sensing, Debugging
<1>4. CASE Polling \/ Crash \/ Restart BY <1>4 DEF Polling, Crash, Restart, CalendarMoves, PollSteps
<1> QED BY <1>1, <1>2, <1>3, <1>4 DEF Next

LEMMA OnceInit == CalendarInit => OnceInv
<1> SUFFICES ASSUME CalendarInit PROVE OnceInv OBVIOUS
<1>1. Poll \in Nat /\ Wakes \in Nat BY CalendarConstants
<1>2. Clocks
  <2>1. "idle" \notin Polled BY DEF Polled
  <2>2. now = Wakes /\ nextPoll = Wakes /\ upset = Wakes /\ at = "idle" BY DEF CalendarInit
  <2> QED BY <1>1, <2>1, <2>2 DEF Clocks
<1>3. sent = <<>> /\ Len(sent) = 0 BY DEF CalendarInit
<1>4. CalTypeOK
  <2>1. sent \in Seq(Sending) BY <1>3
  <2>2. disk.agendaAt = 0 BY DEF CalendarInit, Empty
  <2> QED BY <2>1, <2>2 DEF CalendarInit, CalTypeOK, Edition
<1>5. NoticeInv BY <1>3 DEF CalendarInit, NoticeInv, OnDisk, Empty, Apart
<1>6. AgendaInv BY <1>1, <1>3 DEF CalendarInit, AgendaInv, OneAgendaADay, AgendaAhead
<1> QED BY <1>2, <1>4, <1>5, <1>6 DEF OnceInv

LEMMA OnceStep == OnceInv /\ (CalendarMoves \/ UNCHANGED calVars) => OnceInv'
<1>1. ASSUME OnceInv, UNCHANGED calVars PROVE OnceInv'
  <2> USE <1>1 DEF OnceInv, calVars
  <2>1. Clocks' /\ CalTypeOK' BY DEF Clocks, CalTypeOK
  <2>2. NoticeInv' BY DEF NoticeInv, OnDisk, Apart, Noted, LongAgo, KeyOf, Clean
  <2>3. AgendaInv'
    BY DEF AgendaInv, OneAgendaADay, AgendaAhead, AgendaNoted, IsAgenda, AgendaOf, Behindhand,
           AgendaDue, Midnight, Today
  <2> QED BY <2>1, <2>2, <2>3
<1>2. ASSUME OnceInv, CalendarMoves PROVE OnceInv'
  BY <1>2, ClocksKept, CalTypeKept, NoticesKept, AgendasKept DEF OnceInv, CalendarMoves
<1> QED BY <1>1, <1>2

(* As long as no save failed, the file holds what is remembered, every     *)
(* notice of the last day is remembered, and a day's agenda that was sent  *)
(* is noted before another is fetched (Save, Load, cleanupNotifications).  *)
THEOREM OnceInvariant == Spec => []OnceInv
<1>1. Init => OnceInv BY OnceInit DEF Init
<1>2. OnceInv /\ [Next]_vars => OnceInv' BY OnceStep, InboundMoves
<1> QED BY <1>1, <1>2, PTL DEF Spec

(* Nothing is announced twice within a day, also across restarts, unless a *)
(* save went wrong or, for an agenda, the program stopped between sending  *)
(* and noting it (checkDailyAgenda, checkUpcomingMeetings, Save, Load).    *)
THEOREM NoticesAreSentOnce == Spec => []NotifiedOnce
<1>1. OnceInv => NotifiedOnce
  <2> SUFFICES ASSUME OnceInv, NEW i \in 1 .. Len(sent), NEW j \in 1 .. Len(sent), i < j,
                      sent[i].what = sent[j].what, sent[j].at <= sent[i].at + Day, Clean,
                      unsaved = {} \/ sent[i].what[1] # "agenda"
               PROVE  FALSE
    BY DEF NotifiedOnce, Clean
  <2>1. CASE sent[i].what[1] # "agenda"
    <3>1. sent[j].at > sent[i].at + Day BY <2>1 DEF OnceInv, NoticeInv, Apart
    <3>2. sent[i].at \in Nat /\ sent[j].at \in Nat /\ Day \in Nat BY SentType DEF OnceInv
    <3> QED BY <3>1, <3>2
  <2>2. CASE sent[i].what[1] = "agenda" /\ unsaved = {}
    BY <2>2 DEF OnceInv, AgendaInv, OneAgendaADay, IsAgenda
  <2> QED BY <2>1, <2>2
<1> QED BY <1>1, OnceInvariant, PTL

(***************************************************************************)
(* Reminders.  A key that is known, in memory or on disk, was sent, is     *)
(* about to be, or was lost by a crash.                                    *)
(***************************************************************************)
KeyDealt(key) ==
  key[1] = "meeting" =>
    \/ Reminded(key[2], key[3]) \/ <<"meeting", key[2], key[3]>> \in lost
    \/ at = "remind" /\ notice[2] = key[2] /\ notice[3] \div Day = key[3]
KnownInv == \A x \in notified \cup disk.notified : KeyDealt(x[1])

(* An undisturbed poll at time t that is not long before a meeting has to  *)
(* deal with it: as Poll <= Ahead there is one before the meeting starts.  *)
Watched(e) == Wanted(cal[e]) /\ upset <= cal[e].start - Ahead
Sees(e, t) == t >= cal[e].start - Ahead /\ t > upset
Dealt(e) ==
  LET v == cal[e] IN
    \/ Reminded(e, v.start \div Day) \/ Crowded(v) \/ Shadowed(v)
    \/ <<"meeting", e, v.start \div Day>> \in lost
Now(e) == cal[e] \in todo \/ (at = "remind" /\ notice = <<"meeting", e, cal[e].start>>)

ReminderInv ==
  \A e \in Event : Watched(e) =>
    /\ at = "idle" /\ Sees(e, nextPoll - Poll) => Dealt(e)
    /\ at \in Polled /\ Sees(e, now - Poll) => Dealt(e)
    /\ at \in {"meeting", "remind"} /\ Sees(e, now) => Dealt(e) \/ Now(e)
    /\ at \in {"brief", "send brief"} /\ Sees(e, now) => Dealt(e)


LEMMA Grows ==
  ASSUME OnceInv, CalendarMoves
  PROVE  lost \subseteq lost' /\ \A e, d : Reminded(e, d) => Reminded(e, d)'
<1>1. CASE SendAgenda \/ SendMeetingReminder \/ SendBrief
  <2>1. \E n \in Notices : Send(n) /\ lost' = lost
    <3>1. CASE SendAgenda
      <4>1. <<"agenda", "", Today>> \in Notices BY Days DEF Notices, Clocks, OnceInv
      <4> QED BY <3>1, <4>1 DEF SendAgenda
    <3>2. CASE SendMeetingReminder \/ SendBrief
      <4>1. notice \in Notices BY <3>2 DEF SendMeetingReminder, SendBrief, OnceInv, CalTypeOK, Notices
      <4> QED BY <3>2, <4>1 DEF SendMeetingReminder, SendBrief
    <3> QED BY <1>1, <3>1, <3>2
  <2>2. /\ Len(sent') = Len(sent) + 1 /\ Len(sent) \in Nat
        /\ \A i \in 1 .. Len(sent) : sent'[i] = sent[i]
    BY <2>1, SendType, SentType DEF OnceInv
  <2>3. \A i \in 1 .. Len(sent) : i \in 1 .. Len(sent') BY <2>2
  <2> QED BY <2>1, <2>2, <2>3 DEF Reminded
<1>2. CASE PollStarts \/ NoAgendaNow \/ FetchAgenda \/ MarkAgenda \/ FetchMeetings \/ SkipMeeting \/ MarkMeeting
           \/ FetchBriefs \/ MarkBrief \/ CleanupNotifications \/ Tick \/ (\E e \in Event : Edit(e)) \/ Load
  <2>1. sent' = sent /\ lost' = lost
    BY <1>2 DEF PollStarts, NoAgendaNow, FetchAgenda, MarkAgenda, FetchMeetings, SkipMeeting, MarkMeeting,
                FetchBriefs, MarkBrief, CleanupNotifications, Tick, Edit, Load
  <2> QED BY <2>1 DEF Reminded
<1>3. CASE StopCalendar
  <2>1. sent' = sent /\ lost \subseteq lost' BY <1>3 DEF StopCalendar
  <2> QED BY <2>1 DEF Reminded
<1> QED BY <1>1, <1>2, <1>3 DEF CalendarMoves, PollSteps

LEMMA DealtKept ==
  ASSUME OnceInv, CalendarMoves, cal' = cal, NEW e \in Event, Dealt(e)
  PROVE  Dealt(e)'
<1>1. lost \subseteq lost' /\ \A f, d : Reminded(f, d) => Reminded(f, d)' BY Grows
<1>2. \A v : (Crowded(v) => Crowded(v)') /\ (Shadowed(v) => Shadowed(v)') BY DEF Crowded, Shadowed
<1> QED BY <1>1, <1>2 DEF Dealt

(* What can be known after a save. *)
LEMMA KnownAfterSave ==
  ASSUME NEW n, NEW a, NEW step, Save(n, a, step)
  PROVE  /\ notified' \cup disk'.notified \subseteq n \cup notified \cup disk.notified
         /\ at' # step => notified' \cup disk'.notified \subseteq notified \cup disk.notified
<1>1. Torn.notified = {} BY DEF Torn, Empty
<1>2. CASE at' = step /\ KeepState(n, a)
  <2>1. disk'.notified = n BY <1>2 DEF KeepState
  <2> QED BY <1>2, <2>1 DEF KeepState
<1>3. CASE at' = step /\ SaveFails(n, a) BY <1>3 DEF SaveFails
<1>4. CASE SaveTorn
  <2>1. notified' = notified /\ disk' = Torn BY <1>4 DEF SaveTorn
  <2> QED BY <1>1, <2>1
<1> QED BY <1>2, <1>3, <1>4 DEF Save, GoOn

LEMMA NothingNewKnown ==
  ASSUME OnceInv, KnownInv, CalendarMoves,
         notified' \cup disk'.notified \subseteq notified \cup disk.notified,
         at # "remind" \/ UNCHANGED <<at, notice>>
  PROVE  KnownInv'
<1>1. lost \subseteq lost' /\ \A e, d : Reminded(e, d) => Reminded(e, d)' BY Grows
<1>2. ASSUME NEW x \in notified \cup disk.notified PROVE KeyDealt(x[1])'
  <2>1. KeyDealt(x[1]) BY DEF KnownInv
  <2> QED BY <1>1, <2>1 DEF KeyDealt
<1> QED BY <1>2 DEF KnownInv

LEMMA KnownKept ==
  ASSUME OnceInv, KnownInv, CalendarMoves
  PROVE  KnownInv'
<1>1. CASE PollStarts \/ NoAgendaNow \/ FetchAgenda \/ SendAgenda \/ FetchMeetings \/ SkipMeeting
           \/ FetchBriefs \/ SendBrief \/ Tick
  <2>1. at # "remind" /\ UNCHANGED <<notified, disk>>
    BY <1>1 DEF PollStarts, NoAgendaNow, FetchAgenda, SendAgenda, FetchMeetings, SkipMeeting,
                FetchBriefs, SendBrief, Tick, stateVars
  <2> QED BY <2>1, NothingNewKnown
<1>2. ASSUME NEW e \in Event, Edit(e) PROVE KnownInv'
  <2>1. UNCHANGED <<notified, disk, at, notice>> BY <1>2 DEF Edit, stateVars, pollVars
  <2> QED BY <2>1, NothingNewKnown
<1>3. CASE MarkAgenda
  <2>1. at # "remind" /\ Save(notified, now, "meetings") BY <1>3 DEF MarkAgenda
  <2> QED BY <2>1, KnownAfterSave, NothingNewKnown
<1>4. CASE CleanupNotifications
  <2>1. /\ at # "remind"
        /\ UNCHANGED <<notified, disk>> \/ \E n \in SUBSET notified : Save(n, agendaAt, "idle")
    BY <1>4 DEF CleanupNotifications, stateVars
  <2>2. notified' \cup disk'.notified \subseteq notified \cup disk.notified BY <2>1, KnownAfterSave
  <2> QED BY <2>1, <2>2, NothingNewKnown
<1>5. CASE MarkMeeting
  <2>1. PICK v \in todo : notice' = <<"meeting", v.id, v.start>>
                          /\ Save(notified \cup {<<MeetingKey(v), now>>}, agendaAt, "remind")
    BY <1>5 DEF MarkMeeting
  <2>2. at # "remind" BY <1>5 DEF MarkMeeting
  <2>3. CASE at' # "remind" BY <2>1, <2>2, <2>3, KnownAfterSave, NothingNewKnown
  <2>4. CASE at' = "remind"
    <3>1. notified' \cup disk'.notified \subseteq (notified \cup disk.notified) \cup {<<MeetingKey(v), now>>}
      BY <2>1, KnownAfterSave
    <3>2. ASSUME NEW x \in notified \cup disk.notified PROVE KeyDealt(x[1])'
      <4>1. lost \subseteq lost' /\ \A e, d : Reminded(e, d) => Reminded(e, d)' BY Grows
      <4>2. KeyDealt(x[1]) BY DEF KnownInv
      <4> QED BY <2>2, <4>1, <4>2 DEF KeyDealt
    <3>3. <<MeetingKey(v), now>>[1] = <<"meeting", v.id, v.start \div Day>> BY DEF MeetingKey, Key
    <3>4. KeyDealt(<<MeetingKey(v), now>>[1])' BY <2>1, <2>4, <3>3 DEF KeyDealt
    <3> QED BY <3>1, <3>2, <3>4 DEF KnownInv
  <2> QED BY <2>3, <2>4
<1>6. CASE MarkBrief
  <2>1. PICK k \in Keyword, d \in ClusterDays :
          Save(notified \cup {<<Key(k, "", d), now>>}, agendaAt, "send brief")
    BY <1>6 DEF MarkBrief
  <2>2. at # "remind" BY <1>6 DEF MarkBrief
  <2>3. notified' \cup disk'.notified \subseteq (notified \cup disk.notified) \cup {<<Key(k, "", d), now>>}
    BY <2>1, KnownAfterSave
  <2>4. ASSUME NEW x \in notified \cup disk.notified PROVE KeyDealt(x[1])'
    <3>1. lost \subseteq lost' /\ \A e, c : Reminded(e, c) => Reminded(e, c)' BY Grows
    <3>2. KeyDealt(x[1]) BY DEF KnownInv
    <3> QED BY <2>2, <3>1, <3>2 DEF KeyDealt
  <2>5. <<Key(k, "", d), now>>[1][1] # "meeting" BY CalendarConstants DEF Key
  <2>6. KeyDealt(<<Key(k, "", d), now>>[1])' BY <2>5 DEF KeyDealt
  <2>7. \A x \in notified' \cup disk'.notified : x \in notified \cup disk.notified \/ x = <<Key(k, "", d), now>>
    BY <2>3
  <2>8. ASSUME NEW x \in notified' \cup disk'.notified PROVE KeyDealt(x[1])'
    <3>1. CASE x \in notified \cup disk.notified BY <2>4, <3>1
    <3>2. CASE x = <<Key(k, "", d), now>> BY <2>6, <3>2
    <3> QED BY <2>7, <3>1, <3>2
  <2> QED BY <2>8 DEF KnownInv
<1>7. CASE SendMeetingReminder \/ StopCalendar
  <2>1. UNCHANGED <<notified, disk>> BY <1>7 DEF SendMeetingReminder, StopCalendar, stateVars
  <2>2. lost \subseteq lost' /\ \A e, d : Reminded(e, d) => Reminded(e, d)' BY Grows
  <2> DEFINE Settled(w) == Reminded(w[2], w[3] \div Day)' \/ <<"meeting", w[2], w[3] \div Day>> \in lost'
  <2>3. ASSUME NEW w, w = notice, at = "remind" PROVE Settled(w)
    <3>1. ASSUME SendMeetingReminder PROVE Reminded(w[2], w[3] \div Day)'
      <4>1. Send(w) /\ w[1] = "meeting" /\ w \in Notices
        BY <2>3, <3>1 DEF SendMeetingReminder, OnceInv, CalTypeOK, Notices
      <4>2. Len(sent') = Len(sent) + 1 /\ sent'[Len(sent) + 1].what = w /\ Len(sent) \in Nat
        BY <4>1, SendType, SentType DEF OnceInv
      <4>3. Len(sent) + 1 \in 1 .. Len(sent') BY <4>2
      <4> QED BY <4>1, <4>2, <4>3 DEF Reminded
    <3>2. ASSUME StopCalendar PROVE <<"meeting", w[2], w[3] \div Day>> \in lost'
      BY <2>3, <3>2 DEF StopCalendar
    <3> QED BY <1>7, <3>1, <3>2
  <2>4. ASSUME NEW x \in notified \cup disk.notified PROVE KeyDealt(x[1])'
    <3>1. KeyDealt(x[1]) BY DEF KnownInv
    <3>2. PICK w : w = notice OBVIOUS
    <3>3. CASE at = "remind" /\ notice[2] = x[1][2] /\ notice[3] \div Day = x[1][3]
      <4>1. Settled(w) BY <2>3, <3>2, <3>3
      <4> QED BY <3>2, <3>3, <4>1 DEF KeyDealt
    <3> QED BY <2>2, <3>1, <3>3 DEF KeyDealt
  <2> QED BY <2>1, <2>4 DEF KnownInv
<1>8. CASE Load
  <2>1. at # "remind" /\ disk' = disk /\ notified' = Loaded.notified BY <1>8 DEF Load
  <2>2. Loaded.notified \subseteq disk.notified BY DEF Loaded, Empty
  <2> QED BY <2>1, <2>2, NothingNewKnown
<1> QED BY <1>1, <1>2, <1>3, <1>4, <1>5, <1>6, <1>7, <1>8 DEF CalendarMoves, PollSteps

LEMMA PollType == Poll \in Nat
BY CalendarConstants

LEMMA NotLater ==
  ASSUME NEW n \in Nat, NEW m \in Nat, NEW p \in Nat, m <= n + p
  PROVE  ~(n > n) /\ ~(n - p > n) /\ ~(m - p > n) /\ (m = n + p => m - p = n)
OBVIOUS

(* What goes wrong, and a change of the calendar, starts the watch afresh. *)
LEMMA UpsetNow ==
  ASSUME Clocks', upset' = now'
  PROVE  ReminderInv'
<1>1. Poll \in Nat BY CalendarConstants
<1>2. now' \in Nat /\ nextPoll' \in Nat /\ nextPoll' <= now' + Poll BY DEF Clocks
<1>3. ~(now' > now') /\ ~(now' - Poll > now') /\ ~(nextPoll' - Poll > now') BY <1>1, <1>2, NotLater
<1>4. \A e : ~Sees(e, now)' /\ ~Sees(e, now - Poll)' /\ ~Sees(e, nextPoll - Poll)' BY <1>3 DEF Sees
<1> QED BY <1>4 DEF ReminderInv

(* An undisturbed step of a poll has to account for what this poll sees. *)
LEMMA PollGoesOn ==
  ASSUME OnceInv, KnownInv, ReminderInv, CalendarMoves,
         UNCHANGED <<now, cal, upset, nextPoll>>, at \in Polled,
         \A e \in Event : Watched(e) /\ Sees(e, now) =>
           /\ at' \in {"meeting", "remind"} => Dealt(e)' \/ Now(e)'
           /\ at' \in {"brief", "send brief", "idle"} => Dealt(e)'
  PROVE  ReminderInv'
<1> SUFFICES ASSUME NEW e \in Event, Watched(e)'
             PROVE  /\ at' = "idle" /\ Sees(e, nextPoll - Poll)' => Dealt(e)'
                    /\ at' \in Polled /\ Sees(e, now - Poll)' => Dealt(e)'
                    /\ at' \in {"meeting", "remind"} /\ Sees(e, now)' => Dealt(e)' \/ Now(e)'
                    /\ at' \in {"brief", "send brief"} /\ Sees(e, now)' => Dealt(e)'
  BY DEF ReminderInv
<1>1. Watched(e) BY DEF Watched, Wanted
<1>2. Sees(e, now)' => Sees(e, now) BY DEF Sees
<1>3. Sees(e, now - Poll)' => Sees(e, now - Poll) BY DEF Sees
<1>4. Sees(e, nextPoll - Poll)' => Sees(e, now)
  <2>1. Poll \in Nat BY PollType
  <2>2. now \in Nat /\ nextPoll \in Nat /\ nextPoll = now + Poll /\ nextPoll <= now + Poll
    BY DEF OnceInv, Clocks
  <2>3. nextPoll - Poll = now BY <2>1, <2>2, NotLater
  <2> QED BY <2>3 DEF Sees
<1>5. Sees(e, now - Poll) => Dealt(e)' BY <1>1, DealtKept DEF ReminderInv
<1> QED BY <1>1, <1>2, <1>3, <1>4, <1>5

LEMMA InEvent ==
  ASSUME CalTypeOK, NEW e \in Event
  PROVE  /\ cal[e] \in Edition /\ cal[e].id = e /\ cal[e].start \in Int /\ cal[e].end \in Int
         /\ cal[e].start < cal[e].end /\ cal[e].calendar \in Every
<1>1. cal[e] \in Versions[e] BY DEF CalTypeOK
<1>2. cal[e] \in Edition BY <1>1 DEF Edition
<1>3. cal[e].id = e /\ \E i \in 1 .. Len(Calendar) : Calendar[i] = cal[e].calendar
  BY <1>1, CalendarConstants
<1> QED BY <1>2, <1>3, EditionType DEF Every

LEMMA Arithmetic ==
  ASSUME NEW n \in Nat, NEW s \in Int, NEW u \in Nat, NEW p \in Nat, NEW a \in Nat, 1 <= p, p <= a, u <= s - a
  PROVE  /\ ~(n - p >= s - a /\ n - p > u) => n <= s
         /\ n > s => n - p >= s - a /\ n - p > u
         /\ n >= s - a => s < n + a + p
         /\ n >= s - a /\ n <= s => s - n \in 0 .. a
OBVIOUS

(* What is watched and was not yet in sight of the last poll still is to   *)
(* start, and is in range of this one.                                     *)
LEMMA StillAhead ==
  ASSUME Clocks, CalTypeOK, NEW e \in Event, Watched(e), Sees(e, now)
  PROVE  /\ ~Sees(e, now - Poll) => now <= cal[e].start /\ InRange(cal[e], now, now + Ahead + Poll)
         /\ now <= cal[e].start => Soon(cal[e], Ahead)
         /\ now > cal[e].start => Sees(e, now - Poll)
<1>1. cal[e].start \in Int /\ cal[e].end \in Int /\ cal[e].start < cal[e].end BY InEvent
<1>2. now \in Nat /\ upset \in Nat /\ Poll \in Nat /\ Ahead \in Nat /\ 1 <= Poll /\ Poll <= Ahead
  BY CalendarConstants DEF Clocks
<1>3. upset <= cal[e].start - Ahead /\ now >= cal[e].start - Ahead BY DEF Watched, Sees
<1>4. /\ ~(now - Poll >= cal[e].start - Ahead /\ now - Poll > upset) => now <= cal[e].start
      /\ now > cal[e].start => now - Poll >= cal[e].start - Ahead /\ now - Poll > upset
      /\ cal[e].start < now + Ahead + Poll
      /\ now <= cal[e].start => cal[e].start - now \in 0 .. Ahead
  BY <1>1, <1>2, <1>3, Arithmetic
<1>5. now <= cal[e].start => cal[e].end > now BY <1>1, <1>2
<1> QED BY <1>4, <1>5 DEF Sees, InRange, Soon

(* A list that was cut before a meeting holds enough earlier ones. *)
LEMMA CutMeansCrowded ==
  ASSUME CalTypeOK, Clocks, NEW e \in Event, NEW T, T \subseteq {cal[f] : f \in Event}, cal[e] \notin T,
         Cardinality(T) = MaxMeetings, now >= cal[e].start - Ahead,
         \A w \in T : w.start <= cal[e].start /\ w.end > now
  PROVE  Crowded(cal[e])
<1> DEFINE C == {f \in Event : cal[f].start <= cal[e].start /\ cal[f].end > cal[e].start - Ahead}
           D == {f \in Event : cal[f] \in T}
           g == [f \in D |-> cal[f]]
<1>1. IsFiniteSet(Event) /\ MaxMeetings \in Nat /\ Ahead \in Nat /\ now \in Nat
  BY CalendarConstants DEF Clocks
<1>2. ASSUME NEW f \in D PROVE f \in C \ {e}
  <2>1. cal[f].end \in Int /\ cal[e].start \in Int /\ cal[f].start <= cal[e].start /\ cal[f].end > now
    BY InEvent
  <2>2. cal[f].end > cal[e].start - Ahead BY <1>1, <2>1
  <2> QED BY <2>1, <2>2
<1>3. e \in C
  <2>1. cal[e].start \in Int /\ cal[e].end \in Int /\ cal[e].start < cal[e].end BY InEvent
  <2>2. cal[e].end > cal[e].start - Ahead /\ cal[e].start <= cal[e].start BY <1>1, <2>1
  <2> QED BY <2>2
<1>4. IsFiniteSet(C) /\ IsFiniteSet(D) /\ IsFiniteSet(C \ {e})
  <2>1. C \in SUBSET Event /\ D \in SUBSET Event /\ C \ {e} \in SUBSET Event OBVIOUS
  <2> QED BY <1>1, <2>1, FS_Subset
<1>5. Cardinality(T) <= Cardinality(D)
  <2>1. g \in Surjection(D, T)
    <3>1. g \in [D -> T] OBVIOUS
    <3>2. \A t \in T : \E f \in D : g[f] = t OBVIOUS
    <3> QED BY <3>1, <3>2 DEF Surjection
  <2> QED BY <1>4, <2>1, FS_Surjection
<1>6. Cardinality(D) <= Cardinality(C \ {e})
  <2>1. D \in SUBSET (C \ {e}) BY <1>2
  <2> QED BY <1>4, <2>1, FS_Subset
<1>7. Cardinality(C \ {e}) = Cardinality(C) - 1 BY <1>3, <1>4, FS_RemoveElement
<1>8. Cardinality(C) \in Nat /\ Cardinality(D) \in Nat BY <1>4, FS_CardinalityType
<1>9. Cardinality(C) > MaxMeetings BY <1>1, <1>5, <1>6, <1>7, <1>8
<1> QED BY <1>9 DEF Crowded

(* A meeting in range is listed, unless it is shadowed or crowded out. *)
LEMMA ListedUnless ==
  ASSUME CalTypeOK, Clocks, NEW e \in Event, NEW to,
         InRange(cal[e], now, to), now >= cal[e].start - Ahead,
         NEW T \in Listing(Every, now, to, MaxMeetings)
  PROVE  cal[e] \in T \/ Crowded(cal[e]) \/ Shadowed(cal[e])
<1> DEFINE found == {v \in {cal[f] : f \in Event} : v.calendar \in Every /\ InRange(v, now, to)}
<1>1. PICK R \in SUBSET found :
        /\ T \subseteq R
        /\ \A v \in found : \E w \in R : Alike(v, w)
        /\ T = R \/ Cardinality(T) = MaxMeetings
        /\ \A v \in T, w \in R \ T : v.start <= w.start
  BY DEF Listing
<1>2. cal[e] \in found BY InEvent
<1>3. CASE cal[e] \notin R
  <2>1. PICK w \in R : Alike(cal[e], w) BY <1>1, <1>2
  <2>2. PICK f \in Event : w = cal[f] OBVIOUS
  <2>3. f # e /\ cal[e].id = e /\ Alike(cal[f], cal[e]) BY <1>3, <2>1, <2>2, InEvent DEF Alike
  <2> QED BY <2>3 DEF Shadowed
<1>4. CASE cal[e] \in R /\ cal[e] \notin T
  <2>1. Cardinality(T) = MaxMeetings /\ \A w \in T : w.start <= cal[e].start BY <1>1, <1>4
  <2>2. T \subseteq {cal[f] : f \in Event} /\ \A w \in T : w.end > now BY <1>1 DEF InRange
  <2> QED BY <1>4, <2>1, <2>2, CutMeansCrowded
<1> QED BY <1>3, <1>4

LEMMA MeetingsFetched ==
  ASSUME OnceInv, KnownInv, ReminderInv, FetchMeetings
  PROVE  ReminderInv'
<1>0. CalendarMoves BY DEF CalendarMoves, PollSteps
<1>1. PICK A \in SUBSET Every : Answering(A) /\ todo' \in Listing(A, now, now + Ahead + Poll, MaxMeetings)
  BY DEF FetchMeetings
<1>2. /\ UNCHANGED <<now, cal, nextPoll>> /\ at = "meetings" /\ at' = "meeting" /\ at \in Polled
  BY DEF FetchMeetings, envVars, Polled
<1>3. CASE A # Every
  <2>1. upset' = now' BY <1>1, <1>2, <1>3 DEF Answering
  <2>2. Clocks' BY <1>0, ClocksKept DEF OnceInv, CalendarMoves
  <2> QED BY <2>1, <2>2, UpsetNow
<1>4. CASE A = Every
  <2>1. upset' = upset BY <1>1, <1>4 DEF Answering
  <2>2. ASSUME NEW e \in Event, Watched(e), Sees(e, now) PROVE Dealt(e)' \/ Now(e)'
    <3>1. CASE Sees(e, now - Poll)
      <4>1. Dealt(e) BY <1>2, <2>2, <3>1 DEF ReminderInv
      <4> QED BY <1>0, <1>2, <4>1, DealtKept
    <3>2. CASE ~Sees(e, now - Poll)
      <4> DEFINE to == now + Ahead + Poll
      <4>1. InRange(cal[e], now, to) BY <2>2, <3>2, StillAhead DEF OnceInv
      <4>2. now >= cal[e].start - Ahead BY <2>2 DEF Sees
      <4>3. todo' \in Listing(Every, now, to, MaxMeetings) BY <1>1, <1>4
      <4> HIDE DEF to
      <4>4. PICK T : T = todo' OBVIOUS
      <4>5. cal[e] \in T \/ Crowded(cal[e]) \/ Shadowed(cal[e])
        BY <4>1, <4>2, <4>3, <4>4, ListedUnless DEF OnceInv
      <4>6. CASE cal[e] \in T BY <1>2, <4>4, <4>6 DEF Now
      <4>7. CASE Crowded(cal[e]) \/ Shadowed(cal[e])
        <5>1. Dealt(e) BY <4>7 DEF Dealt
        <5> QED BY <1>0, <1>2, <5>1, DealtKept
      <4> QED BY <4>5, <4>6, <4>7
    <3> QED BY <3>1, <3>2
  <2> QED BY <1>0, <1>2, <2>1, <2>2, PollGoesOn
<1> QED BY <1>3, <1>4

LEMMA MeetingSkipped ==
  ASSUME OnceInv, KnownInv, ReminderInv, SkipMeeting
  PROVE  ReminderInv'
<1>0. CalendarMoves BY DEF CalendarMoves, PollSteps
<1>1. PICK v \in todo : ~Due(v) /\ todo' = todo \ {v} BY DEF SkipMeeting
<1>2. UNCHANGED <<now, cal, nextPoll, upset, at, notice>> /\ at = "meeting" /\ at \in Polled
  BY DEF SkipMeeting, envVars, Polled
<1>3. ASSUME NEW e \in Event, Watched(e), Sees(e, now) PROVE Dealt(e)' \/ Now(e)'
  <2>1. Dealt(e) \/ Now(e) BY <1>2, <1>3 DEF ReminderInv
  <2>2. CASE Dealt(e) BY <1>0, <1>2, <2>2, DealtKept
  <2>3. CASE Now(e) /\ cal[e] # v BY <1>1, <1>2, <2>3 DEF Now
  <2>4. CASE cal[e] = v
    <3>1. CASE now > cal[e].start
      <4>1. Sees(e, now - Poll) BY <1>3, <3>1, StillAhead DEF OnceInv
      <4>2. Dealt(e) BY <1>2, <1>3, <4>1 DEF ReminderInv
      <4> QED BY <1>0, <1>2, <4>2, DealtKept
    <3>2. CASE now <= cal[e].start
      <4>1. Soon(v, Ahead) /\ Wanted(v) BY <1>3, <2>4, <3>2, StillAhead DEF OnceInv, Watched
      <4>2. Known(MeetingKey(v)) BY <1>1, <4>1 DEF Due
      <4>3. MeetingKey(v) = <<"meeting", e, v.start \div Day>> BY <2>4, InEvent DEF OnceInv, MeetingKey, Key
      <4>4. KeyDealt(<<"meeting", e, v.start \div Day>>) BY <4>2, <4>3 DEF Known, KnownInv
      <4>5. Reminded(e, v.start \div Day) \/ <<"meeting", e, v.start \div Day>> \in lost
        BY <1>2, <4>4 DEF KeyDealt
      <4>6. Dealt(e) BY <2>4, <4>5 DEF Dealt
      <4> QED BY <1>0, <1>2, <4>6, DealtKept
    <3>3. now \in Nat /\ cal[e].start \in Int BY InEvent DEF OnceInv, Clocks
    <3> QED BY <3>1, <3>2, <3>3
  <2> QED BY <2>1, <2>2, <2>3, <2>4
<1> QED BY <1>0, <1>2, <1>3, PollGoesOn

LEMMA MeetingMarked ==
  ASSUME OnceInv, KnownInv, ReminderInv, MarkMeeting
  PROVE  ReminderInv'
<1>0. CalendarMoves BY DEF CalendarMoves, PollSteps
<1>1. PICK v \in todo : /\ todo' = todo \ {v} /\ notice' = <<"meeting", v.id, v.start>>
                        /\ Save(notified \cup {<<MeetingKey(v), now>>}, agendaAt, "remind")
  BY DEF MarkMeeting
<1>2. UNCHANGED <<now, cal, nextPoll>> /\ at = "meeting" /\ at \in Polled
  BY DEF MarkMeeting, envVars, Polled
<1>3. (upset' = upset /\ at' = "remind") \/ upset' = now'
  BY <1>1, <1>2 DEF Save, KeepState, SaveFails, SaveTorn, GoOn
<1>4. CASE upset' = now'
  <2>1. Clocks' BY <1>0, ClocksKept DEF OnceInv, CalendarMoves
  <2> QED BY <1>4, <2>1, UpsetNow
<1>5. CASE upset' = upset /\ at' = "remind"
  <2>1. ASSUME NEW e \in Event, Watched(e), Sees(e, now) PROVE Dealt(e)' \/ Now(e)'
    <3>1. Dealt(e) \/ Now(e) BY <1>2, <2>1 DEF ReminderInv
    <3>2. CASE Dealt(e) BY <1>0, <1>2, <3>2, DealtKept
    <3>3. CASE Now(e) /\ cal[e] # v BY <1>1, <1>2, <3>3 DEF Now
    <3>4. CASE cal[e] = v
      <4>1. v.id = e BY <3>4, InEvent DEF OnceInv
      <4> QED BY <1>1, <1>2, <1>5, <3>4, <4>1 DEF Now
    <3> QED BY <3>1, <3>2, <3>3, <3>4
  <2> QED BY <1>0, <1>2, <1>5, <2>1, PollGoesOn
<1> QED BY <1>3, <1>4, <1>5

LEMMA MeetingReminderSent ==
  ASSUME OnceInv, KnownInv, ReminderInv, SendMeetingReminder
  PROVE  ReminderInv'
<1>0. CalendarMoves BY DEF CalendarMoves, PollSteps
<1>1. UNCHANGED <<now, cal, nextPoll, upset, todo>> /\ at = "remind" /\ at' = "meeting" /\ at \in Polled
  BY DEF SendMeetingReminder, envVars, Polled
<1>2. ASSUME NEW e \in Event, Watched(e), Sees(e, now) PROVE Dealt(e)' \/ Now(e)'
  <2>1. Dealt(e) \/ Now(e) BY <1>1, <1>2 DEF ReminderInv
  <2>2. CASE Dealt(e) BY <1>0, <1>1, <2>2, DealtKept
  <2>3. CASE cal[e] \in todo BY <1>1, <2>3 DEF Now
  <2>4. CASE notice = <<"meeting", e, cal[e].start>>
    <3>1. Send(notice) /\ notice \in Notices
      BY <1>1 DEF SendMeetingReminder, OnceInv, CalTypeOK, Notices
    <3>2. Len(sent') = Len(sent) + 1 /\ sent'[Len(sent) + 1].what = notice /\ Len(sent) \in Nat
      BY <3>1, SendType, SentType DEF OnceInv
    <3>3. Len(sent) + 1 \in 1 .. Len(sent') BY <3>2
    <3>4. notice[1] = "meeting" /\ notice[2] = e /\ notice[3] = cal[e].start BY <2>4
    <3>5. Reminded(e, cal[e].start \div Day)' BY <1>1, <3>2, <3>3, <3>4 DEF Reminded
    <3> QED BY <1>1, <3>5 DEF Dealt
  <2> QED BY <2>1, <2>2, <2>3, <2>4 DEF Now
<1> QED BY <1>0, <1>1, <1>2, PollGoesOn

(* The rest of a poll: what it saw has been dealt with when it is done     *)
(* with the meetings, and stays so until the next poll.                    *)
LEMMA RemindersKept ==
  ASSUME OnceInv, KnownInv, ReminderInv, CalendarMoves
  PROVE  ReminderInv'
<1>0. Clocks' BY ClocksKept DEF OnceInv, CalendarMoves
<1>1. ASSUME UNCHANGED <<now, cal, upset, nextPoll>>, at \in Polled,
             at' \notin {"meeting", "remind", "brief", "send brief", "idle"}
      PROVE  ReminderInv'
  BY <1>1, PollGoesOn
<1>2. ASSUME UNCHANGED <<now, cal, upset, nextPoll>>, at' \in {"brief", "send brief", "idle"},
             at \in {"brief", "send brief"} \/ (at = "meeting" /\ todo = {})
      PROVE  ReminderInv'
  <2>1. at \in Polled BY <1>2 DEF Polled
  <2>2. ASSUME NEW e \in Event, Watched(e), Sees(e, now) PROVE Dealt(e)'
    <3>1. Dealt(e) BY <1>2, <2>2 DEF ReminderInv, Now
    <3> QED BY <1>2, <3>1, DealtKept
  <2> QED BY <1>2, <2>1, <2>2, PollGoesOn
<1>3. ASSUME upset' = now' PROVE ReminderInv' BY <1>0, <1>3, UpsetNow
<1>4. ASSUME NEW n, NEW a, NEW step, Save(n, a, step), now' = now
      PROVE  upset' = now' \/ (upset' = upset /\ at' = step)
  BY <1>4 DEF Save, KeepState, SaveFails, SaveTorn, GoOn
<1>5. CASE NoAgendaNow \/ SendAgenda
  <2>1. /\ UNCHANGED <<now, cal, upset, nextPoll>> /\ at \in Polled
        /\ at' \notin {"meeting", "remind", "brief", "send brief", "idle"}
    BY <1>5 DEF NoAgendaNow, SendAgenda, envVars, Polled
  <2> QED BY <1>1, <2>1
<1>6. CASE FetchAgenda
  <2>1. /\ UNCHANGED <<now, cal, nextPoll>> /\ at \in Polled
        /\ at' \notin {"meeting", "remind", "brief", "send brief", "idle"}
        /\ upset' \in {upset, now'}
    BY <1>6 DEF FetchAgenda, Answering, envVars, Polled
  <2> QED BY <1>1, <1>3, <2>1
<1>7. CASE MarkAgenda
  <2>1. /\ UNCHANGED <<now, cal, nextPoll>> /\ at \in Polled /\ Save(notified, now, "meetings")
    BY <1>7 DEF MarkAgenda, envVars, Polled
  <2>2. upset' = now' \/ (upset' = upset /\ at' = "meetings") BY <1>4, <2>1
  <2> QED BY <1>1, <1>3, <2>1, <2>2
<1>8. CASE FetchBriefs
  <2>1. /\ UNCHANGED <<now, cal, nextPoll>> /\ at = "meeting" /\ todo = {} /\ at' = "brief"
        /\ upset' \in {upset, now'}
    BY <1>8 DEF FetchBriefs, Answering, envVars
  <2> QED BY <1>2, <1>3, <2>1
<1>9. CASE SendBrief
  <2>1. UNCHANGED <<now, cal, nextPoll, upset>> /\ at = "send brief" /\ at' = "brief"
    BY <1>9 DEF SendBrief, envVars
  <2> QED BY <1>2, <2>1
<1>10. CASE MarkBrief
  <2>1. UNCHANGED <<now, cal, nextPoll>> /\ at = "brief" /\ \E n : Save(n, agendaAt, "send brief")
    BY <1>10 DEF MarkBrief, envVars
  <2> QED BY <1>2, <1>3, <1>4, <2>1
<1>11. CASE CleanupNotifications
  <2>1. /\ UNCHANGED <<now, cal, nextPoll>> /\ at = "brief"
        /\ (at' = "idle" /\ upset' = upset) \/ \E n : Save(n, agendaAt, "idle")
    BY <1>11 DEF CleanupNotifications, GoOn, envVars
  <2> QED BY <1>2, <1>3, <1>4, <2>1
<1>12. CASE StopCalendar \/ Load \/ \E e \in Event : Edit(e)
  <2>1. upset' = now' BY <1>12 DEF StopCalendar, Load, Edit, envVars
  <2> QED BY <1>3, <2>1
<1>13. CASE PollStarts
  <2>1. /\ UNCHANGED <<now, cal, upset>> /\ at = "idle" /\ at' = "agenda" /\ nextPoll = now
    BY <1>13 DEF PollStarts, envVars
  <2>2. ASSUME NEW e \in Event, Watched(e)', Sees(e, now - Poll)' PROVE Dealt(e)'
    <3>1. Watched(e) BY <2>1, <2>2 DEF Watched, Wanted
    <3>2. Sees(e, nextPoll - Poll) BY <2>1, <2>2 DEF Sees
    <3>3. Dealt(e) BY <2>1, <3>1, <3>2 DEF ReminderInv
    <3> QED BY <2>1, <3>3, DealtKept
  <2> QED BY <2>1, <2>2 DEF ReminderInv
<1>14. CASE Tick
  <2>1. UNCHANGED <<cal, upset, at, nextPoll>> /\ at \in {"idle", "down"} BY <1>14 DEF Tick, pollVars
  <2>2. at' \notin Polled BY <2>1 DEF Polled
  <2>3. ASSUME NEW e \in Event, at' = "idle", Watched(e)', Sees(e, nextPoll - Poll)' PROVE Dealt(e)'
    <3>1. Watched(e) BY <2>1, <2>3 DEF Watched, Wanted
    <3>2. Sees(e, nextPoll - Poll) BY <2>1, <2>3 DEF Sees
    <3>3. Dealt(e) BY <2>1, <2>3, <3>1, <3>2 DEF ReminderInv
    <3> QED BY <2>1, <3>3, DealtKept
  <2> QED BY <2>1, <2>2, <2>3 DEF ReminderInv
<1>15. CASE FetchMeetings BY <1>15, MeetingsFetched
<1>16. CASE SkipMeeting BY <1>16, MeetingSkipped
<1>17. CASE MarkMeeting BY <1>17, MeetingMarked
<1>18. CASE SendMeetingReminder BY <1>18, MeetingReminderSent
<1> QED BY <1>5, <1>6, <1>7, <1>8, <1>9, <1>10, <1>11, <1>12, <1>13, <1>14, <1>15, <1>16, <1>17, <1>18
        DEF CalendarMoves, PollSteps

(* A meeting that starts has been announced, if the program ran and the    *)
(* calendars answered and were left alone from Ahead before it: two polls  *)
(* are at most Ahead apart, so one of them saw it (checkUpcomingMeetings,  *)
(* poll, Load), whatever else is or was in the calendars.                  *)
THEOREM RemindersAreSent == Spec => []NoReminderMissed
<1> DEFINE Inv == OnceInv /\ KnownInv /\ ReminderInv
<1>1. Init => Inv
  <2> SUFFICES ASSUME Init PROVE Inv OBVIOUS
  <2>1. CalendarInit BY DEF Init
  <2>2. notified = {} /\ disk.notified = {} /\ upset = now /\ at = "idle" BY <2>1 DEF CalendarInit, Empty
  <2>3. OnceInv BY <2>1, OnceInit
  <2>4. KnownInv BY <2>2 DEF KnownInv
  <2>5. ReminderInv
    <3>1. nextPoll = now /\ now \in Nat /\ Poll \in Nat BY <2>1, CalendarConstants DEF CalendarInit
    <3>2. ~(nextPoll - Poll > upset) BY <2>2, <3>1
    <3>3. \A e : ~Sees(e, nextPoll - Poll) BY <3>2 DEF Sees
    <3>4. at \notin Polled BY <2>2 DEF Polled
    <3> QED BY <2>2, <3>3, <3>4 DEF ReminderInv
  <2> QED BY <2>3, <2>4, <2>5
<1>2. Inv /\ [Next]_vars => Inv'
  <2>1. ASSUME Inv, CalendarMoves PROVE Inv' BY <2>1, OnceStep, KnownKept, RemindersKept
  <2>2. ASSUME Inv, UNCHANGED calVars PROVE Inv'
    <3>1. OnceInv' BY <2>2, OnceStep
    <3>2. UNCHANGED <<now, cal, at, todo, notice, nextPoll, upset, sent, lost, notified, disk>>
      BY <2>2 DEF calVars
    <3>3. KnownInv' BY <2>2, <3>2 DEF KnownInv, KeyDealt, Reminded
    <3>4. ReminderInv'
      BY <2>2, <3>2 DEF ReminderInv, Watched, Wanted, Sees, Dealt, Now, Reminded, Crowded, Shadowed
    <3> QED BY <3>1, <3>3, <3>4
  <2> QED BY <2>1, <2>2, InboundMoves
<1>3. Inv => NoReminderMissed
  <2> SUFFICES ASSUME Inv, NEW e \in Event, at # "down", Wanted(cal[e]), now > cal[e].start,
                      upset <= cal[e].start - Ahead
               PROVE  Dealt(e)
    BY DEF NoReminderMissed, Dealt
  <2>1. Watched(e) BY DEF Watched
  <2>2. /\ now \in Nat /\ nextPoll \in Nat /\ upset \in Nat /\ at \in Polled \cup {"idle"}
        /\ at = "idle" => nextPoll >= now
    BY DEF OnceInv, Clocks
  <2>3. cal[e].start \in Int BY InEvent DEF OnceInv
  <2>4. Poll \in Nat /\ Ahead \in Nat /\ 1 <= Poll /\ Poll <= Ahead BY CalendarConstants
  <2>5. CASE at = "idle"
    <3>1. nextPoll > cal[e].start BY <2>2, <2>3, <2>5
    <3>2. Sees(e, nextPoll - Poll) BY <2>2, <2>3, <2>4, <3>1, Arithmetic DEF Sees
    <3> QED BY <2>1, <2>5, <3>2 DEF ReminderInv
  <2>6. CASE at \in Polled
    <3>1. Sees(e, now - Poll) BY <2>2, <2>3, <2>4, Arithmetic DEF Sees
    <3> QED BY <2>1, <2>6, <3>1 DEF ReminderInv
  <2> QED BY <2>2, <2>5, <2>6
<1> QED BY <1>1, <1>2, <1>3, PTL DEF Spec

-----------------------------------------------------------------------------
(***************************************************************************)
(* The debug stream.  A stream is live from when its command got the       *)
(* listener and the history until a command stops it: until then nothing   *)
(* else may become d.eventCh, so who reads the channel finds this stream's,*)
(* and the dispatchers that read from it post to its thread.               *)
(***************************************************************************)
Number == Stream \cup {0}
Place == {"none", "begin", "loop", "select", "ended"}
DispatcherType == [at : Place, thread : Number, ch : Number, done : Number, text : SUBSET Nat]
DebugTypeOK ==
  /\ debugHistory \in Seq(Nat) /\ emitted \in Nat /\ notifying \in [Notifier -> Nat]
  /\ listening \in BOOLEAN /\ active \in BOOLEAN /\ eventCh \in Number /\ done \in Number
  /\ calling \in Number /\ command \in [Stream -> {"not yet", "add", "replay", "over"}]
  /\ replays \in [Stream -> Seq(Nat)] /\ target \in [Goroutine -> Number]
  /\ buffer \in [Stream -> Seq(Nat)] /\ dropped \in [Stream -> SUBSET Nat]
  /\ shown \in [Stream -> SUBSET Nat]
  /\ dispatcher \in [Stream -> DispatcherType]

Used(x) == x # 0 => command[x] # "not yet" /\ x # calling
Serves(d) ==
  /\ Used(d.ch) /\ d.thread \in {0, d.ch}
  /\ d.at \in {"none", "begin"} => d.thread = 0
  /\ d.at # "none" => eventCh # 0
  /\ d.at \in {"loop", "select"} => d.ch # 0 /\ (d.thread = 0 /\ d.ch = eventCh => ~active)
Unstarted(s) == command[s] = "not yet" \/ calling = s => dispatcher[s].at = "none"
StreamOrder ==
  /\ calling # 0 => command[calling] = "add"
  /\ Used(eventCh)
  /\ \A n \in Notifier : notifying[n] = 0 => target[n] = 0
  /\ \A s \in Stream : command[s] \in {"not yet", "add"} => target[s] = 0
  /\ \A s \in Stream : Live(s) => listening /\ target[s] \in {0, s}
  /\ \A s \in Stream : Serves(dispatcher[s])
  /\ \A s \in Stream : Unstarted(s)

(* Where an event is that a live stream has or is about to get. *)
Has(s, x) ==
  \/ x \in shown[s] \/ x \in dropped[s] \/ x \in ToSet(buffer[s]) \/ x \in ToSet(replays[s])
  \/ \E r \in Stream : dispatcher[r].thread = s /\ x \in dispatcher[r].text
  \/ \E n \in Notifier : notifying[n] = x /\ target[n] \in {0, s}
Accounted ==
  /\ 0 \notin ToSet(debugHistory)
  /\ \A s \in Stream : Live(s) => \A x \in ToSet(debugHistory) : Has(s, x)

StreamInv == DebugTypeOK /\ StreamOrder /\ Accounted

LEMMA ToSetOfTail ==
  ASSUME NEW q \in Seq(Nat), q # <<>>
  PROVE  /\ Tail(q) \in Seq(Nat) /\ Head(q) \in Nat
         /\ \A x \in ToSet(q) : x = Head(q) \/ x \in ToSet(Tail(q))
<1>1. Tail(q) \in Seq(Nat) /\ Head(q) \in Nat OBVIOUS
<1>2. ASSUME NEW i \in 1 .. Len(q) PROVE q[i] = Head(q) \/ \E j \in 1 .. Len(Tail(q)) : q[i] = Tail(q)[j]
  <2>1. CASE i = 1 BY <2>1
  <2>2. CASE i # 1
    <3>1. i - 1 \in 1 .. Len(Tail(q)) /\ q[i] = Tail(q)[i - 1] BY <2>2
    <3> QED BY <3>1
  <2> QED BY <2>1, <2>2
<1>3. Tail(q) \in Seq(Nat) /\ DOMAIN q = 1 .. Len(q) /\ DOMAIN Tail(q) = 1 .. Len(Tail(q)) OBVIOUS
<1> QED BY <1>1, <1>2, <1>3 DEF ToSet

LEMMA ToSetOfAppend ==
  ASSUME NEW q \in Seq(Nat), NEW e \in Nat
  PROVE  Append(q, e) \in Seq(Nat) /\ ToSet(Append(q, e)) = ToSet(q) \cup {e}
<1> DEFINE a == Append(q, e)
<1>1. a \in Seq(Nat) /\ Len(a) = Len(q) + 1 /\ a[Len(q) + 1] = e /\ \A i \in 1 .. Len(q) : a[i] = q[i]
  OBVIOUS
<1>2. DOMAIN a = 1 .. (Len(q) + 1) /\ DOMAIN q = 1 .. Len(q) /\ Len(q) \in Nat BY <1>1
<1> HIDE DEF a
<1>3. ASSUME NEW i \in DOMAIN a PROVE a[i] \in ToSet(q) \cup {e} BY <1>1, <1>2, OneMore DEF ToSet
<1>4. ASSUME NEW i \in DOMAIN q PROVE q[i] \in ToSet(a)
  <2>1. i \in DOMAIN a /\ a[i] = q[i] BY <1>1, <1>2
  <2> QED BY <2>1 DEF ToSet
<1>5. e \in ToSet(a)
  <2>1. Len(q) + 1 \in DOMAIN a BY <1>2
  <2> QED BY <1>1, <2>1 DEF ToSet
<1>6. ToSet(a) \subseteq ToSet(q) \cup {e} BY <1>3 DEF ToSet
<1>7. ToSet(q) \subseteq ToSet(a) BY <1>4 DEF ToSet
<1>8. ToSet(a) = ToSet(q) \cup {e} BY <1>5, <1>6, <1>7
<1> QED BY <1>1, <1>8 DEF a

LEMMA RecordedIsLatest ==
  ASSUME DebugTypeOK, NEW e \in Nat
  PROVE  Recorded(e) \in Seq(Nat) /\ ToSet(Recorded(e)) \subseteq ToSet(debugHistory) \cup {e}
<1> DEFINE h == Append(debugHistory, e)
<1>1. h \in Seq(Nat) /\ ToSet(h) = ToSet(debugHistory) \cup {e} BY ToSetOfAppend DEF DebugTypeOK
<1> HIDE DEF h
<1>2. CASE Len(h) > HistoryMax
  <2> DEFINE k == Len(h) - HistoryMax + 1
             l == Latest(h)
  <2>1. Len(h) \in Nat /\ HistoryMax \in Nat \ {0} /\ k \in 1 .. Len(h) BY <1>1, <1>2, DebugConstants
  <2>2. /\ l \in Seq(Nat) /\ Len(l) = HistoryMax /\ \A i \in 1 .. HistoryMax : l[i] = h[k + i - 1]
    BY <1>1, <2>1 DEF Latest
  <2> HIDE DEF l
  <2>3. ASSUME NEW i \in 1 .. HistoryMax PROVE l[i] \in ToSet(h)
    <3>1. k + i - 1 \in 1 .. Len(h) BY <2>1
    <3> HIDE DEF k
    <3> QED BY <1>1, <2>2, <3>1 DEF ToSet
  <2>4. ToSet(l) \subseteq ToSet(h) BY <2>2, <2>3 DEF ToSet
  <2>5. Recorded(e) = l BY <1>2 DEF Recorded, h, l
  <2> QED BY <1>1, <2>2, <2>4, <2>5
<1>3. CASE ~(Len(h) > HistoryMax)
  <2>1. Recorded(e) = h BY <1>3 DEF Recorded, h
  <2> QED BY <1>1, <2>1
<1> QED BY <1>2, <1>3

LEMMA EmptyOfNat == <<>> \in Seq(Nat)
OBVIOUS

LEMMA Successor ==
  ASSUME NEW n \in Nat
  PROVE  n + 1 \in Nat /\ n + 1 # 0
OBVIOUS

LEMMA DispatcherChanges ==
  ASSUME NEW d \in DispatcherType, NEW a \in Place, NEW t \in Number, NEW c \in Number, NEW T \in SUBSET Nat
  PROVE  /\ [d EXCEPT !.at = a, !.thread = t, !.ch = c] \in DispatcherType
         /\ [d EXCEPT !.at = a, !.done = c] \in DispatcherType
         /\ [d EXCEPT !.at = a, !.text = T] \in DispatcherType
BY DEF DispatcherType

LEMMA DebugTypeKept ==
  ASSUME StreamInv, DebugSteps \/ StopDebugging
  PROVE  DebugTypeOK'
<1> USE DEF StreamInv, DebugTypeOK
<1>1. ASSUME NEW n \in Notifier, NotifyDebug(n) PROVE DebugTypeOK'
  <2>1. emitted + 1 \in Nat BY Successor
  <2>2. debugHistory' \in Seq(Nat) BY <1>1, <2>1, RecordedIsLatest DEF NotifyDebug
  <2>3. notifying' \in [Notifier -> Nat] /\ emitted' \in Nat BY <1>1, <2>1 DEF NotifyDebug
  <2> QED BY <1>1, <2>2, <2>3 DEF NotifyDebug, streamVars, commandVars, channelVars, readerVars
<1>2. ASSUME NEW g \in Goroutine, ReadChannel(g)
      PROVE  target' \in [Goroutine -> Number] /\ UNCHANGED <<buffer, dropped>>
  BY <1>2 DEF ReadChannel, Number
<1>3. ASSUME NEW g \in Goroutine, NEW e \in Nat, SendEvent(g, e)
      PROVE  /\ target' \in [Goroutine -> Number]
             /\ buffer' \in [Stream -> Seq(Nat)] /\ dropped' \in [Stream -> SUBSET Nat]
  <2>1. target[g] \in Stream BY <1>3 DEF SendEvent, Number
  <2>2. PICK c : c = target[g] OBVIOUS
  <2>3. Append(buffer[c], e) \in Seq(Nat) BY <2>1, <2>2, ToSetOfAppend
  <2>4. target' \in [Goroutine -> Number] BY <1>3 DEF SendEvent, Number
  <2>5. CASE buffer' = [buffer EXCEPT ![c] = Append(@, e)] /\ UNCHANGED dropped BY <2>1, <2>2, <2>3, <2>4, <2>5
  <2>6. CASE dropped' = [dropped EXCEPT ![c] = @ \cup {e}] /\ UNCHANGED buffer BY <2>1, <2>2, <2>4, <2>6
  <2> QED BY <1>3, <2>2, <2>5, <2>6 DEF SendEvent
<1>4. ASSUME NEW n \in Notifier, CallListener(n) PROVE DebugTypeOK'
  <2>1. n \in Goroutine /\ notifying[n] \in Nat BY DEF Goroutine
  <2>2. notifying' \in [Notifier -> Nat]
    <3>1. notifying \in [Notifier -> Nat] /\ 0 \in Nat OBVIOUS
    <3>2. notifying' = notifying \/ notifying' = [notifying EXCEPT ![n] = 0] BY <1>4 DEF CallListener
    <3> QED BY <3>1, <3>2
  <2>3. ReadChannel(n) \/ SendEvent(n, notifying[n]) BY <1>4 DEF CallListener
  <2>4. /\ target' \in [Goroutine -> Number] /\ buffer' \in [Stream -> Seq(Nat)]
        /\ dropped' \in [Stream -> SUBSET Nat]
    <3>1. CASE ReadChannel(n) BY <1>2, <2>1, <3>1
    <3>2. CASE SendEvent(n, notifying[n]) BY <1>3, <2>1, <3>2
    <3> QED BY <2>3, <3>1, <3>2
  <2> QED BY <1>4, <2>2, <2>4 DEF CallListener, streamVars, commandVars, readerVars
<1>5. ASSUME NEW s \in Stream, StopLocked(s) PROVE DebugTypeOK'
  BY <1>5 DEF StopLocked, fanVars, channelVars, readerVars, Number
<1>6. ASSUME NEW s \in Stream, ThreadStart(s) \/ ThreadFails(s) \/ Replayed(s) PROVE DebugTypeOK'
  BY <1>6 DEF ThreadStart, ThreadFails, Replayed, fanVars, streamVars, channelVars, readerVars, Number
<1>7. ASSUME NEW s \in Stream, ThreadStarted(s) PROVE DebugTypeOK'
  <2>1. dispatcher' \in [Stream -> DispatcherType]
    <3>1. dispatcher[s] \in DispatcherType /\ "begin" \in Place BY DEF Place
    <3>2. PICK d \in DispatcherType : d = dispatcher[s] BY <3>1
    <3>3. [d EXCEPT !.at = "begin"] \in DispatcherType BY <3>1 DEF DispatcherType
    <3>4. dispatcher' = [dispatcher EXCEPT ![s] = [d EXCEPT !.at = "begin"]] BY <1>7, <3>2 DEF ThreadStarted
    <3> QED BY <3>3, <3>4
  <2> QED BY <1>7, <2>1 DEF ThreadStarted, fanVars, channelVars, Number
<1>8. ASSUME NEW s \in Stream, AddDebugListener(s) PROVE DebugTypeOK'
  BY <1>8 DEF AddDebugListener, fanVars, channelVars, readerVars
<1>9. ASSUME NEW s \in Stream, Replay(s) PROVE DebugTypeOK'
  <2>1. s \in Goroutine /\ replays[s] \in Seq(Nat) /\ replays[s] # <<>> BY <1>9 DEF Replay, Goroutine
  <2>2. Head(replays[s]) \in Nat /\ Tail(replays[s]) \in Seq(Nat) BY <2>1, ToSetOfTail
  <2>3. /\ target' \in [Goroutine -> Number] /\ buffer' \in [Stream -> Seq(Nat)]
        /\ dropped' \in [Stream -> SUBSET Nat] /\ replays' \in [Stream -> Seq(Nat)]
    BY <1>2, <1>3, <1>9, <2>1, <2>2 DEF Replay
  <2> QED BY <1>9, <2>3 DEF Replay, fanVars, streamVars, readerVars
<1>10. ASSUME NEW s \in Stream, NEW E \in SUBSET Nat, Post(s, E) PROVE shown' \in [Stream -> SUBSET Nat]
  BY <1>10 DEF Post
<1>15. ASSUME NEW s \in Stream
       PROVE  dispatcher[s].text \in SUBSET Nat /\ dispatcher[s].ch \in Number
  <2>1. dispatcher[s] \in DispatcherType OBVIOUS
  <2> QED BY <2>1 DEF DispatcherType
<1>11. ASSUME NEW s \in Stream, DispatcherBegins(s) \/ EntersSelect(s) PROVE DebugTypeOK'
  <2>1. dispatcher' \in [Stream -> DispatcherType]
    <3>1. dispatcher[s] \in DispatcherType /\ 0 \in Number /\ "loop" \in Place /\ "select" \in Place
      BY DEF Number, Place
    <3>2. PICK d \in DispatcherType : d = dispatcher[s] BY <3>1
    <3>3. /\ [d EXCEPT !.at = "loop", !.thread = IF active THEN eventCh ELSE 0, !.ch = eventCh] \in DispatcherType
          /\ [d EXCEPT !.at = "select", !.done = done] \in DispatcherType
      BY <3>1, DispatcherChanges
    <3> QED BY <1>11, <3>2, <3>3, ZenonT(60) DEF DispatcherBegins, EntersSelect, Dispatcher
  <2> QED BY <1>11, <2>1 DEF DispatcherBegins, EntersSelect, fanVars, streamVars, commandVars, channelVars
<1>12. ASSUME NEW s \in Stream, FlushText(s) \/ DispatcherEnds(s) PROVE DebugTypeOK'
  <2>1. shown' \in [Stream -> SUBSET Nat] BY <1>10, <1>12, <1>15 DEF FlushText, DispatcherEnds
  <2>2. dispatcher' \in [Stream -> DispatcherType]
    <3>1. dispatcher[s] \in DispatcherType /\ "loop" \in Place /\ "ended" \in Place BY DEF Place
    <3>2. PICK d \in DispatcherType : d = dispatcher[s] BY <3>1
    <3>3. /\ [d EXCEPT !.at = "loop", !.text = {}] \in DispatcherType
          /\ [d EXCEPT !.at = "ended", !.text = {}] \in DispatcherType
      BY <3>1 DEF DispatcherType
    <3> QED BY <1>12, <3>2, <3>3 DEF FlushText, DispatcherEnds, Dispatcher
  <2> QED BY <1>12, <2>1, <2>2 DEF FlushText, DispatcherEnds, fanVars, streamVars, commandVars, channelVars
<1>13. ASSUME NEW s \in Stream, TakeEvent(s) PROVE DebugTypeOK'
  <2> DEFINE d == dispatcher[s]
             c == d.ch
             batch == d.text \cup {Head(buffer[c])}
  <2>1. c \in Stream
    <3>1. Serves(dispatcher[s]) BY DEF StreamOrder
    <3> QED BY <1>13, <1>15, <3>1 DEF TakeEvent, Serves, Number
  <2>2. buffer[c] \in Seq(Nat) /\ buffer[c] # <<>> BY <1>13, <2>1 DEF TakeEvent
  <2>3. Head(buffer[c]) \in Nat /\ Tail(buffer[c]) \in Seq(Nat) BY <2>2, ToSetOfTail
  <2>4. batch \in SUBSET Nat BY <1>15, <2>3
  <2>5. buffer' \in [Stream -> Seq(Nat)] BY <1>13, <2>1, <2>3 DEF TakeEvent
  <2>6. shown' \in [Stream -> SUBSET Nat] BY <1>10, <1>13, <2>4 DEF TakeEvent
  <2>7. \E T \in SUBSET Nat : dispatcher' = [dispatcher EXCEPT ![s] = [d EXCEPT !.at = "loop", !.text = T]]
    BY <1>13, <2>4 DEF TakeEvent, Dispatcher
  <2>8. dispatcher' \in [Stream -> DispatcherType]
    <3>1. d \in DispatcherType /\ "loop" \in Place BY DEF Place
    <3>2. PICK T \in SUBSET Nat : dispatcher' = [dispatcher EXCEPT ![s] = [d EXCEPT !.at = "loop", !.text = T]]
      BY <2>7
    <3> HIDE DEF d
    <3>3. [d EXCEPT !.at = "loop", !.text = T] \in DispatcherType BY <3>1 DEF DispatcherType
    <3> QED BY <3>2, <3>3
  <2> QED BY <1>13, <2>5, <2>6, <2>8 DEF TakeEvent, fanVars, streamVars, commandVars
<1>14. CASE StopDebugging
  <2>1. NoDispatcher \in DispatcherType BY DEF NoDispatcher, DispatcherType, Place, Number
  <2>2. 0 \in Number /\ 0 \in Nat BY DEF Number
  <2>5. <<>> \in Seq(Nat) BY EmptyOfNat
  <2>3. /\ debugHistory' \in Seq(Nat) /\ emitted' \in Nat /\ notifying' \in [Notifier -> Nat]
        /\ replays' \in [Stream -> Seq(Nat)] /\ buffer' \in [Stream -> Seq(Nat)]
        /\ target' \in [Goroutine -> Number] /\ dispatcher' \in [Stream -> DispatcherType]
    BY <1>14, <2>1, <2>2, <2>5 DEF StopDebugging
  <2>4. command' \in [Stream -> {"not yet", "add", "replay", "over"}] BY <1>14 DEF StopDebugging
  <2> QED BY <1>14, <2>2, <2>3, <2>4 DEF StopDebugging
<1> QED BY <1>1, <1>4, <1>5, <1>6, <1>7, <1>8, <1>9, <1>11, <1>12, <1>13, <1>14 DEF DebugSteps, ToggleSteps, DispatcherSteps

(* What a step that leaves the commands and the stream alone has to show.  *)
LEMMA OrderIfSameStream ==
  ASSUME StreamInv, UNCHANGED <<calling, command, listening, active, eventCh>>,
         \A n \in Notifier : notifying'[n] = 0 => target'[n] = 0,
         \A s \in Stream : target'[s] # target[s] => command[s] = "replay" /\ target'[s] \in {0, eventCh},
         \A s \in Stream : Serves(dispatcher[s])' /\ (dispatcher[s].at = "none" => dispatcher'[s].at = "none")
  PROVE  StreamOrder'
<1>1. StreamOrder BY DEF StreamInv
<1>2. Used(eventCh)' BY <1>1 DEF StreamOrder, Used
<1>3. ASSUME NEW s \in Stream, command[s] \in {"not yet", "add"} PROVE target'[s] = 0
  BY <1>1, <1>3 DEF StreamOrder
<1>4. ASSUME NEW s \in Stream, Live(s)' PROVE listening' /\ target'[s] \in {0, s}
  <2>1. Live(s) /\ eventCh = s BY <1>4 DEF Live
  <2> QED BY <1>1, <2>1 DEF StreamOrder
<1>5. \A s \in Stream : Unstarted(s)' BY <1>1 DEF StreamOrder, Unstarted
<1> QED BY <1>1, <1>2, <1>3, <1>4, <1>5 DEF StreamOrder

LEMMA SameServes ==
  ASSUME StreamInv, UNCHANGED <<calling, command, eventCh, active>>, NEW s \in Stream, dispatcher'[s] = dispatcher[s]
  PROVE  Serves(dispatcher[s])'
BY DEF StreamInv, StreamOrder, Serves, Used

LEMMA StreamsApart == Notifier \cap Stream = {} /\ 0 \notin Stream
BY DebugConstants DEF Stream

LEMMA OrderKept ==
  ASSUME StreamInv, DebugSteps \/ StopDebugging
  PROVE  StreamOrder'
<1>0. /\ calling # 0 => command[calling] = "add"
      /\ Used(eventCh)
      /\ \A n \in Notifier : notifying[n] = 0 => target[n] = 0
      /\ \A s \in Stream : command[s] \in {"not yet", "add"} => target[s] = 0
      /\ \A s \in Stream : Live(s) => listening /\ target[s] \in {0, s}
      /\ \A s \in Stream : Serves(dispatcher[s])
      /\ \A s \in Stream : Unstarted(s)
  BY DEF StreamInv, StreamOrder
<1>1. /\ notifying \in [Notifier -> Nat] /\ emitted \in Nat /\ target \in [Goroutine -> Number]
      /\ command \in [Stream -> {"not yet", "add", "replay", "over"}]
      /\ dispatcher \in [Stream -> DispatcherType] /\ eventCh \in Number /\ calling \in Number
      /\ Notifier \cap Stream = {} /\ Goroutine = Notifier \cup Stream /\ Number = Stream \cup {0} /\ 0 \notin Stream
  <2>1. Notifier \cap Stream = {} /\ 0 \notin Stream BY StreamsApart
  <2> QED BY <2>1 DEF StreamInv, DebugTypeOK, Goroutine, Number
<1>2. ASSUME NEW n \in Notifier, NotifyDebug(n) PROVE StreamOrder'
  <2>1. UNCHANGED <<calling, command, listening, active, eventCh, target, dispatcher>>
    BY <1>2 DEF NotifyDebug, streamVars, commandVars, channelVars, readerVars
  <2>2. notifying[n] = 0 /\ \A m \in Notifier \ {n} : notifying'[m] = notifying[m]
    BY <1>1, <1>2 DEF NotifyDebug
  <2>3. \A m \in Notifier : notifying'[m] = 0 => target'[m] = 0 BY <1>0, <2>1, <2>2
  <2>4. \A s \in Stream : Serves(dispatcher[s])' BY <2>1, SameServes
  <2> QED BY <2>1, <2>3, <2>4, OrderIfSameStream
<1>3. ASSUME NEW n \in Notifier, CallListener(n) PROVE StreamOrder'
  <2>1. UNCHANGED <<calling, command, listening, active, eventCh, dispatcher>> /\ notifying[n] # 0
    BY <1>3 DEF CallListener, streamVars, commandVars, readerVars
  <2>2. /\ notifying' = notifying \/ (target'[n] = 0 /\ notifying' = [notifying EXCEPT ![n] = 0])
        /\ \A g \in Goroutine \ {n} : target'[g] = target[g]
    BY <1>1, <1>3 DEF CallListener, ReadChannel, SendEvent
  <2>3. \A m \in Notifier : notifying'[m] = 0 => target'[m] = 0 BY <1>0, <1>1, <2>1, <2>2
  <2>4. \A s \in Stream : target'[s] = target[s] BY <1>1, <2>2
  <2>5. \A s \in Stream : Serves(dispatcher[s])' BY <2>1, SameServes
  <2> QED BY <2>1, <2>3, <2>4, <2>5, OrderIfSameStream
<1>4. ASSUME NEW s \in Stream, Replay(s) PROVE StreamOrder'
  <2>1. UNCHANGED <<calling, command, listening, active, eventCh, notifying, dispatcher>> /\ command[s] = "replay"
    BY <1>4 DEF Replay, fanVars, streamVars, readerVars
  <2>2. target'[s] \in {0, eventCh} /\ \A g \in Goroutine \ {s} : target'[g] = target[g]
    BY <1>1, <1>4 DEF Replay, ReadChannel, SendEvent
  <2>3. \A m \in Notifier : notifying'[m] = 0 => target'[m] = 0 BY <1>0, <1>1, <2>1, <2>2
  <2>4. \A t \in Stream : target'[t] # target[t] => command[t] = "replay" /\ target'[t] \in {0, eventCh}
    BY <1>1, <2>1, <2>2
  <2>5. \A t \in Stream : Serves(dispatcher[t])' BY <2>1, SameServes
  <2> QED BY <2>1, <2>3, <2>4, <2>5, OrderIfSameStream
<1>5. ASSUME NEW s \in Stream, DispatcherSteps(s) PROVE StreamOrder'
  <2>1. UNCHANGED <<calling, command, listening, active, eventCh, notifying, target>>
    BY <1>5 DEF DispatcherSteps, DispatcherBegins, EntersSelect, TakeEvent, FlushText, DispatcherEnds,
                fanVars, streamVars, commandVars, channelVars
  <2>2. \A t \in Stream \ {s} : dispatcher'[t] = dispatcher[t]
    BY <1>1, <1>5 DEF DispatcherSteps, DispatcherBegins, EntersSelect, TakeEvent, FlushText, DispatcherEnds, Dispatcher
  <2>3. PICK d \in DispatcherType : d = dispatcher[s] BY <1>1
  <2>4. Serves(d) BY <1>0, <2>3
  <2>5. Serves(dispatcher[s])'
    <3>1. CASE DispatcherBegins(s)
      <4>1. /\ d.at = "begin"
            /\ dispatcher'[s] = [d EXCEPT !.at = "loop", !.thread = IF active THEN eventCh ELSE 0, !.ch = eventCh]
        BY <1>1, <2>3, <3>1 DEF DispatcherBegins, Dispatcher
      <4>2. /\ dispatcher'[s].at = "loop" /\ dispatcher'[s].ch = eventCh
            /\ dispatcher'[s].thread = IF active THEN eventCh ELSE 0
        BY <2>3, <4>1 DEF DispatcherType
      <4>3. eventCh # 0 BY <2>4, <4>1 DEF Serves
      <4> QED BY <1>0, <2>1, <4>2, <4>3 DEF Serves, Used
    <3>2. CASE EntersSelect(s) \/ TakeEvent(s) \/ FlushText(s) \/ DispatcherEnds(s)
      <4>1. d.at \in {"loop", "select"} /\ \E a \in {"loop", "select", "ended"} : \E c, T :
              dispatcher'[s] \in {[d EXCEPT !.at = a, !.done = c], [d EXCEPT !.at = a, !.text = T]}
        <5>1. CASE EntersSelect(s)
          <6>1. d.at = "loop" /\ dispatcher'[s] = [d EXCEPT !.at = "select", !.done = done]
            BY <1>1, <2>3, <5>1 DEF EntersSelect, Dispatcher
          <6> QED BY <6>1
        <5>2. CASE FlushText(s) \/ DispatcherEnds(s)
          <6>1. d.at = "select" /\ \E a \in {"loop", "ended"} : dispatcher'[s] = [d EXCEPT !.at = a, !.text = {}]
            BY <1>1, <2>3, <5>2 DEF FlushText, DispatcherEnds, Dispatcher
          <6> QED BY <6>1
        <5>3. CASE TakeEvent(s)
          <6>1. d.at = "select" /\ \E T : dispatcher'[s] = [d EXCEPT !.at = "loop", !.text = T]
            BY <1>1, <2>3, <5>3 DEF TakeEvent, Dispatcher
          <6> QED BY <6>1
        <5> QED BY <3>2, <5>1, <5>2, <5>3
      <4>2. /\ dispatcher'[s].ch = d.ch /\ dispatcher'[s].thread = d.thread
            /\ dispatcher'[s].at \in {"loop", "select", "ended"}
        BY <4>1 DEF DispatcherType
      <4> QED BY <2>1, <2>4, <4>1, <4>2, ZenonT(60) DEF Serves, Used
    <3> QED BY <1>5, <3>1, <3>2 DEF DispatcherSteps
  <2>6. \A t \in Stream : Serves(dispatcher[t])' BY <2>1, <2>2, <2>5, SameServes
  <2>7. dispatcher[s].at # "none"
    BY <1>5 DEF DispatcherSteps, DispatcherBegins, EntersSelect, TakeEvent, FlushText, DispatcherEnds, Dispatcher
  <2>8. \A t \in Stream : dispatcher[t].at = "none" => dispatcher'[t].at = "none" BY <2>2, <2>7
  <2> QED BY <1>0, <2>1, <2>6, <2>8, OrderIfSameStream
<1>6. ASSUME NEW s \in Stream, StopLocked(s) PROVE StreamOrder'
  <2>1. /\ UNCHANGED <<eventCh, calling, notifying, target, dispatcher>> /\ active' = FALSE
        /\ command[s] = "not yet" /\ command' = [command EXCEPT ![s] = "over"] /\ calling = 0
    BY <1>6 DEF StopLocked, Comes, DebuggerFree, fanVars, channelVars, readerVars
  <2>2. \A x \in Number : Used(x) => Used(x)' BY <1>1, <2>1 DEF Used
  <2>3. \A t \in Stream : dispatcher[t].ch \in Number BY <1>1 DEF DispatcherType
  <2>4. \A t \in Stream : Serves(dispatcher[t])' BY <1>0, <2>1, <2>2, <2>3 DEF Serves
  <2>5. \A t \in Stream : ~Live(t)' BY <2>1 DEF Live
  <2>6. \A t \in Stream : command'[t] \in {"not yet", "add"} => command[t] = command'[t] BY <1>1, <2>1
  <2>7. \A t \in Stream : Unstarted(t)' BY <1>0, <1>1, <2>1 DEF Unstarted
  <2> QED BY <1>0, <1>1, <2>1, <2>2, <2>4, <2>5, <2>6, <2>7 DEF StreamOrder
<1>7. ASSUME NEW s \in Stream, ThreadStart(s) PROVE StreamOrder'
  <2>1. /\ UNCHANGED <<eventCh, active, listening, notifying, target, dispatcher>>
        /\ command[s] = "not yet" /\ command' = [command EXCEPT ![s] = "add"] /\ calling = 0 /\ calling' = s
        /\ ~active
    BY <1>7 DEF ThreadStart, Comes, DebuggerFree, fanVars, streamVars, channelVars, readerVars
  <2>2. \A x \in Number : Used(x) => Used(x)' BY <1>1, <2>1 DEF Used
  <2>3. \A t \in Stream : dispatcher[t].ch \in Number BY <1>1 DEF DispatcherType
  <2>4. \A t \in Stream : Serves(dispatcher[t])' BY <1>0, <2>1, <2>2, <2>3 DEF Serves
  <2>5. \A t \in Stream : ~Live(t)' BY <2>1 DEF Live
  <2>6. \A t \in Stream : command'[t] \in {"not yet", "add"} => command[t] \in {"not yet", "add"} BY <1>1, <2>1
  <2>7. \A t \in Stream : Unstarted(t)' BY <1>0, <1>1, <2>1 DEF Unstarted
  <2> QED BY <1>0, <1>1, <2>1, <2>2, <2>4, <2>5, <2>6, <2>7 DEF StreamOrder
<1>8. ASSUME NEW s \in Stream, ThreadFails(s) PROVE StreamOrder'
  <2>1. /\ UNCHANGED <<eventCh, active, listening, notifying, target, dispatcher>>
        /\ calling = s /\ command' = [command EXCEPT ![s] = "over"] /\ calling' = 0
    BY <1>8 DEF ThreadFails, fanVars, streamVars, channelVars, readerVars
  <2>2. \A x \in Number : Used(x) => Used(x)' BY <1>1, <2>1 DEF Used
  <2>3. \A t \in Stream : dispatcher[t].ch \in Number BY <1>1 DEF DispatcherType
  <2>4. \A t \in Stream : Serves(dispatcher[t])' BY <1>0, <2>1, <2>2, <2>3 DEF Serves
  <2>5. \A t \in Stream : Live(t)' => Live(t)
    <3>1. eventCh # s BY <1>0, <1>1, <2>1 DEF Used
    <3> QED BY <1>1, <2>1, <3>1 DEF Live
  <2>6. \A t \in Stream : command'[t] \in {"not yet", "add"} => command[t] = command'[t] BY <1>1, <2>1
  <2>7. \A t \in Stream : Unstarted(t)' BY <1>0, <1>1, <2>1 DEF Unstarted
  <2> QED BY <1>0, <1>1, <2>1, <2>2, <2>4, <2>5, <2>6, <2>7 DEF StreamOrder
<1>9. ASSUME NEW s \in Stream, ThreadStarted(s) PROVE StreamOrder'
  <2>1. /\ UNCHANGED <<command, listening, notifying, target>> /\ calling = s /\ calling' = 0 /\ eventCh' = s
        /\ dispatcher' = [dispatcher EXCEPT ![s].at = "begin"] /\ dispatcher[s].at = "none"
    BY <1>9 DEF ThreadStarted, fanVars, channelVars
  <2>2. command[s] = "add" /\ s # 0 BY <1>0, <1>1, <2>1
  <2>3. \A x \in Number : Used(x) => Used(x)' /\ x # s BY <1>1, <2>1, <2>2 DEF Used
  <2>4. \A t \in Stream : dispatcher[t].ch \in Number BY <1>1 DEF DispatcherType
  <2>5. \A t \in Stream \ {s} : Serves(dispatcher[t])'
    <3> SUFFICES ASSUME NEW t \in Stream \ {s} PROVE Serves(dispatcher[t])' OBVIOUS
    <3>1. dispatcher'[t] = dispatcher[t] /\ Serves(dispatcher[t]) BY <1>0, <1>1, <2>1
    <3>2. Used(dispatcher[t].ch)' /\ dispatcher[t].ch # s BY <2>3, <2>4, <3>1 DEF Serves
    <3> QED BY <2>1, <2>2, <3>1, <3>2 DEF Serves
  <2>6. Serves(dispatcher[s])'
    <3>1. PICK d \in DispatcherType : d = dispatcher[s] BY <1>1
    <3>2. dispatcher'[s] = [d EXCEPT !.at = "begin"] BY <1>1, <2>1, <3>1
    <3>3. dispatcher'[s].at = "begin" /\ dispatcher'[s].ch = d.ch /\ dispatcher'[s].thread = d.thread
      BY <3>2 DEF DispatcherType
    <3>4. Serves(d) /\ d.at = "none" BY <1>0, <2>1, <3>1
    <3>5. Used(d.ch)' BY <2>3, <2>4, <3>1, <3>4 DEF Serves
    <3> QED BY <2>1, <2>2, <3>3, <3>4, <3>5 DEF Serves, Used
  <2>7. \A t \in Stream : Serves(dispatcher[t])' BY <2>5, <2>6
  <2>8. \A t \in Stream : ~Live(t)' BY <2>1, <2>2 DEF Live
  <2>9. Used(eventCh)' BY <2>1, <2>2 DEF Used
  <2>10. \A t \in Stream : Unstarted(t)' BY <1>0, <1>1, <2>1, <2>2 DEF Unstarted
  <2> QED BY <1>0, <2>1, <2>7, <2>8, <2>9, <2>10 DEF StreamOrder
<1>10. ASSUME NEW s \in Stream, AddDebugListener(s) \/ Replayed(s) PROVE StreamOrder'
  <2>1. /\ UNCHANGED <<eventCh, active, calling, notifying, target, dispatcher>> /\ (listening => listening')
        /\ \E c \in {"replay", "over"} : command' = [command EXCEPT ![s] = c]
        /\ (command[s] = "add" /\ listening') \/ command[s] = "replay"
    BY <1>10 DEF AddDebugListener, Replayed, fanVars, streamVars, channelVars, readerVars
  <2>2. \A x \in Number : Used(x) => Used(x)' BY <1>1, <2>1 DEF Used
  <2>3. \A t \in Stream : dispatcher[t].ch \in Number BY <1>1 DEF DispatcherType
  <2>4. \A t \in Stream : Serves(dispatcher[t])' BY <1>0, <2>1, <2>2, <2>3 DEF Serves
  <2>5. ASSUME NEW t \in Stream, Live(t)' PROVE listening' /\ target'[t] \in {0, t}
    <3>1. CASE t = s /\ command[s] = "add" BY <1>0, <2>1, <3>1
    <3>2. CASE t # s \/ command[s] = "replay"
      <4>2. command[t] \in {"replay", "over"}
        <5>1. CASE t # s BY <1>1, <2>1, <2>5, <5>1 DEF Live
        <5> QED BY <3>2, <5>1
      <4>1. Live(t) BY <2>1, <2>5, <4>2 DEF Live
      <4> QED BY <1>0, <2>1, <4>1
    <3> QED BY <2>1, <3>1, <3>2
  <2>6. \A t \in Stream : command'[t] \in {"not yet", "add"} => command[t] = command'[t] BY <1>1, <2>1
  <2>7. calling' # 0 => command'[calling'] = "add"
    <3>1. CASE AddDebugListener(s)
      <4>1. dispatcher[s].at # "none" BY <3>1 DEF AddDebugListener
      <4>2. calling # s BY <1>0, <4>1 DEF Unstarted
      <4> QED BY <1>0, <1>1, <2>1, <4>2
    <3>2. CASE Replayed(s) BY <1>0, <1>1, <2>1, <3>2 DEF Replayed
    <3> QED BY <1>10, <3>1, <3>2
  <2>8. \A t \in Stream : Unstarted(t)' BY <1>0, <1>1, <2>1 DEF Unstarted
  <2> QED BY <1>0, <1>1, <2>1, <2>2, <2>4, <2>5, <2>6, <2>7, <2>8 DEF StreamOrder
<1>11. CASE StopDebugging
  <2>1. /\ calling' = 0 /\ eventCh' = 0 /\ active' = FALSE
        /\ \A g \in Goroutine : target'[g] = 0
        /\ \A s \in Stream : dispatcher'[s] = NoDispatcher
    BY <1>11 DEF StopDebugging
  <2>5. NoDispatcher.at = "none" /\ NoDispatcher.ch = 0 /\ NoDispatcher.thread = 0 BY DEF NoDispatcher
  <2>2. \A s \in Stream : Serves(dispatcher[s])' BY <2>1, <2>5 DEF Serves, Used
  <2>3. \A t \in Stream : ~Live(t)' BY <2>1 DEF Live
  <2>4. \A t \in Stream : Unstarted(t)' BY <2>1, <2>5 DEF Unstarted
  <2> QED BY <1>1, <2>1, <2>2, <2>3, <2>4 DEF StreamOrder, Used, Goroutine
<1> QED BY <1>2, <1>3, <1>4, <1>5, <1>6, <1>7, <1>8, <1>9, <1>10, <1>11 DEF DebugSteps, ToggleSteps

(* An event stays where it can be found as long as those places only grow. *)
LEMMA HasKept ==
  ASSUME StreamInv, NEW s \in Stream, NEW x, Has(s, x),
         shown[s] \subseteq shown'[s], dropped[s] \subseteq dropped'[s],
         ToSet(buffer[s]) \subseteq ToSet(buffer[s])' \/ Has(s, x)', ToSet(replays[s]) \subseteq ToSet(replays[s])' \/ Has(s, x)',
         \A r \in Stream : dispatcher[r].thread = s /\ x \in dispatcher[r].text =>
           (dispatcher'[r].thread = s /\ x \in dispatcher'[r].text) \/ Has(s, x)',
         \A n \in Notifier : notifying[n] = x /\ target[n] \in {0, s} =>
           (notifying'[n] = x /\ target'[n] \in {0, s}) \/ Has(s, x)'
  PROVE  Has(s, x)'
<1>1. CASE x \in shown[s] \/ x \in dropped[s] BY <1>1 DEF Has
<1>2. CASE x \in ToSet(buffer[s]) \/ x \in ToSet(replays[s]) BY <1>2 DEF Has
<1>3. CASE \E r \in Stream : dispatcher[r].thread = s /\ x \in dispatcher[r].text BY <1>3 DEF Has
<1>4. CASE \E n \in Notifier : notifying[n] = x /\ target[n] \in {0, s} BY <1>4 DEF Has
<1> QED BY <1>1, <1>2, <1>3, <1>4 DEF Has

(* Sending moves an event into a live stream's channel, or finds it full.  *)
LEMMA SentOrDropped ==
  ASSUME StreamInv, NEW g \in Goroutine, NEW e \in Nat, SendEvent(g, e), NEW s \in Stream
  PROVE  /\ dropped[s] \subseteq dropped'[s] /\ ToSet(buffer[s]) \subseteq ToSet(buffer[s])'
         /\ target[g] = s => e \in ToSet(buffer[s])' \/ e \in dropped'[s]
<1> DEFINE c == target[g]
<1>1. /\ c \in Stream /\ buffer \in [Stream -> Seq(Nat)] /\ dropped \in [Stream -> SUBSET Nat]
  BY DEF SendEvent, StreamInv, DebugTypeOK, Number
<1>2. \/ buffer' = [buffer EXCEPT ![c] = Append(@, e)] /\ dropped' = dropped
      \/ dropped' = [dropped EXCEPT ![c] = @ \cup {e}] /\ buffer' = buffer
  BY DEF SendEvent
<1> HIDE DEF c
<1>3. CASE buffer' = [buffer EXCEPT ![c] = Append(@, e)] /\ dropped' = dropped
  <2>1. ToSet(Append(buffer[c], e)) = ToSet(buffer[c]) \cup {e} BY <1>1, ToSetOfAppend
  <2>2. buffer'[c] = Append(buffer[c], e) /\ \A t \in Stream \ {c} : buffer'[t] = buffer[t] BY <1>1, <1>3
  <2> QED BY <1>3, <2>1, <2>2 DEF c
<1>4. CASE dropped' = [dropped EXCEPT ![c] = @ \cup {e}] /\ buffer' = buffer BY <1>1, <1>4 DEF c
<1> QED BY <1>2, <1>3, <1>4

LEMMA AccountedKept ==
  ASSUME StreamInv, DebugSteps \/ StopDebugging
  PROVE  Accounted'
<1>0. /\ debugHistory \in Seq(Nat) /\ emitted \in Nat /\ notifying \in [Notifier -> Nat]
      /\ command \in [Stream -> {"not yet", "add", "replay", "over"}]
      /\ replays \in [Stream -> Seq(Nat)] /\ target \in [Goroutine -> Number]
      /\ buffer \in [Stream -> Seq(Nat)] /\ dropped \in [Stream -> SUBSET Nat]
      /\ shown \in [Stream -> SUBSET Nat] /\ dispatcher \in [Stream -> DispatcherType]
      /\ Goroutine = Notifier \cup Stream
  BY DEF StreamInv, DebugTypeOK, Goroutine
<1>1. /\ \A n \in Notifier : notifying[n] = 0 => target[n] = 0
      /\ \A s \in Stream : Live(s) => listening /\ target[s] \in {0, s}
      /\ \A s \in Stream : Serves(dispatcher[s])
      /\ calling # 0 => command[calling] = "add"
  BY DEF StreamInv, StreamOrder
<1>2. /\ 0 \notin ToSet(debugHistory)
      /\ \A s \in Stream : Live(s) => \A x \in ToSet(debugHistory) : Has(s, x)
  BY DEF StreamInv, Accounted
<1>13. 0 \notin Stream BY StreamsApart
<1>3. ASSUME NEW n \in Notifier, NotifyDebug(n) PROVE Accounted'
  <2>1. /\ UNCHANGED <<active, eventCh, command, listening, shown, dropped, buffer, replays, dispatcher, target>>
        /\ notifying' = [notifying EXCEPT ![n] = IF listening THEN emitted + 1 ELSE 0]
        /\ notifying[n] = 0 /\ debugHistory' = Recorded(emitted + 1)
    BY <1>3 DEF NotifyDebug, streamVars, commandVars, channelVars, readerVars
  <2>2. emitted + 1 \in Nat BY <1>0, Successor
  <2>3. ToSet(debugHistory') \subseteq ToSet(debugHistory) \cup {emitted + 1}
    BY <2>1, <2>2, RecordedIsLatest DEF StreamInv
  <2>4. ASSUME NEW s \in Stream, Live(s)', NEW x \in ToSet(debugHistory') PROVE Has(s, x)'
    <3>1. Live(s) /\ listening BY <1>1, <2>1, <2>4 DEF Live
    <3>2. CASE x = emitted + 1
      <4>1. notifying'[n] = x /\ target'[n] = 0 BY <1>0, <1>1, <2>1, <3>1, <3>2
      <4> QED BY <4>1 DEF Has
    <3>3. CASE x \in ToSet(debugHistory)
      <4>1. Has(s, x) /\ x # 0 BY <1>2, <3>1, <3>3
      <4>2. \A m \in Notifier : notifying[m] = x => notifying'[m] = x BY <1>0, <2>1, <4>1
      <4> QED BY <2>1, <4>1, <4>2, HasKept
    <3> QED BY <2>3, <2>4, <3>2, <3>3
  <2>5. 0 \notin ToSet(debugHistory')
    <3>1. emitted + 1 # 0 BY <1>0, Successor
    <3> QED BY <1>2, <2>3, <3>1
  <2> QED BY <2>4, <2>5 DEF Accounted
(* The steps that leave the history alone. *)
<1>4. ASSUME debugHistory' = debugHistory,
             \A s \in Stream : Live(s)' => Live(s) \/ \A x \in ToSet(debugHistory) : Has(s, x)',
             \A s \in Stream : Live(s) /\ Live(s)' => \A x \in ToSet(debugHistory) : Has(s, x) /\ x # 0 => Has(s, x)'
      PROVE  Accounted'
  BY <1>2, <1>4 DEF Accounted
<1>5. ASSUME NEW n \in Notifier, CallListener(n) PROVE Accounted'
  <2>1. UNCHANGED <<debugHistory, active, eventCh, command, shown, replays, dispatcher>> /\ notifying[n] # 0
    BY <1>5 DEF CallListener, streamVars, commandVars, readerVars
  <2>2. \A s \in Stream : Live(s)' => Live(s) BY <2>1 DEF Live
  <2>3. ASSUME NEW s \in Stream, Live(s), NEW x \in ToSet(debugHistory), Has(s, x) PROVE Has(s, x)'
    <3>1. CASE ReadChannel(n) /\ notifying' = notifying
      <4>1. /\ UNCHANGED <<buffer, dropped>> /\ target' = [target EXCEPT ![n] = eventCh]
            /\ target[n] = 0 /\ eventCh = s
        BY <2>3, <3>1 DEF ReadChannel, Live
      <4>2. \A m \in Notifier : target[m] \in {0, s} => target'[m] \in {0, s} BY <1>0, <4>1
      <4> QED BY <2>1, <2>3, <3>1, <4>1, <4>2, HasKept
    <3>2. CASE SendEvent(n, notifying[n]) /\ notifying' = [notifying EXCEPT ![n] = 0]
      <4>1. n \in Goroutine /\ notifying[n] \in Nat /\ target[n] # 0 BY <1>0, <3>2 DEF SendEvent
      <4>2. PICK e \in Nat : e = notifying[n] BY <4>1
      <4>3. /\ dropped[s] \subseteq dropped'[s] /\ ToSet(buffer[s]) \subseteq ToSet(buffer[s])'
            /\ target[n] = s => e \in ToSet(buffer[s])' \/ e \in dropped'[s]
        BY <3>2, <4>1, <4>2, SentOrDropped
      <4>4. \A m \in Notifier \ {n} : notifying'[m] = notifying[m] /\ target'[m] = target[m]
        BY <1>0, <3>2 DEF SendEvent
      <4>5. notifying[n] = x /\ target[n] \in {0, s} => Has(s, x)' BY <4>1, <4>2, <4>3 DEF Has
      <4> QED BY <2>1, <2>3, <4>3, <4>4, <4>5, HasKept
    <3> QED BY <1>5, <3>1, <3>2 DEF CallListener
  <2> QED BY <1>4, <2>1, <2>2, <2>3
<1>6. ASSUME NEW r \in Stream, Replay(r) PROVE Accounted'
  <2>1. UNCHANGED <<debugHistory, active, eventCh, command, shown, notifying, dispatcher>> /\ replays[r] # <<>>
    BY <1>6 DEF Replay, fanVars, streamVars, readerVars
  <2>2. \A s \in Stream : Live(s)' => Live(s) BY <2>1 DEF Live
  <2>3. ASSUME NEW s \in Stream, Live(s), NEW x \in ToSet(debugHistory), Has(s, x) PROVE Has(s, x)'
    <3>0. Notifier \cap Stream = {} BY StreamsApart
    <3>1. CASE ReadChannel(r) /\ replays' = replays
      <4>1. UNCHANGED <<buffer, dropped>> /\ \A m \in Notifier : target'[m] = target[m]
        BY <1>0, <3>0, <3>1 DEF ReadChannel
      <4> QED BY <2>1, <2>3, <3>1, <4>1, HasKept
    <3>2. CASE SendEvent(r, Head(replays[r])) /\ replays' = [replays EXCEPT ![r] = Tail(@)]
      <4>1. r \in Goroutine /\ replays[r] \in Seq(Nat) BY <1>0
      <4>2. /\ Head(replays[r]) \in Nat
            /\ \A y \in ToSet(replays[r]) : y = Head(replays[r]) \/ y \in ToSet(Tail(replays[r]))
        BY <2>1, <4>1, ToSetOfTail
      <4>3. PICK e \in Nat : e = Head(replays[r]) BY <4>2
      <4>4. /\ dropped[s] \subseteq dropped'[s] /\ ToSet(buffer[s]) \subseteq ToSet(buffer[s])'
            /\ target[r] = s => e \in ToSet(buffer[s])' \/ e \in dropped'[s]
        BY <3>2, <4>1, <4>3, SentOrDropped
      <4>5. \A m \in Notifier : target'[m] = target[m] BY <1>0, <3>0, <3>2 DEF SendEvent
      <4>6. x \in ToSet(replays[s]) => x \in ToSet(replays'[s]) \/ Has(s, x)'
        <5>1. CASE s # r
          <6>1. replays'[s] = replays[s] BY <1>0, <3>2, <5>1
          <6> QED BY <6>1
        <5>2. CASE s = r
          <6>1. target[s] = s BY <1>1, <2>3, <3>2, <5>2 DEF SendEvent
          <6>2. e \in ToSet(buffer[s])' \/ e \in dropped'[s] BY <4>4, <5>2, <6>1
          <6>3. x = e => Has(s, x)' BY <6>2 DEF Has
          <6>4. replays'[s] = Tail(replays[s]) BY <1>0, <3>2, <5>2
          <6> QED BY <4>2, <4>3, <5>2, <6>3, <6>4
        <5> QED BY <5>1, <5>2
      <4>7. CASE x \in ToSet(replays[s])
        <5>1. x \in ToSet(replays'[s]) => Has(s, x)' BY DEF Has
        <5> QED BY <4>6, <4>7, <5>1
      <4>8. CASE x \notin ToSet(replays[s])
        <5>1. CASE x \in shown[s] \/ x \in dropped[s] \/ x \in ToSet(buffer[s]) BY <2>1, <4>4, <5>1 DEF Has
        <5>2. CASE \E t \in Stream : dispatcher[t].thread = s /\ x \in dispatcher[t].text BY <2>1, <5>2 DEF Has
        <5>3. CASE \E n \in Notifier : notifying[n] = x /\ target[n] \in {0, s} BY <2>1, <4>5, <5>3 DEF Has
        <5> QED BY <2>3, <4>8, <5>1, <5>2, <5>3 DEF Has
      <4> QED BY <4>7, <4>8
    <3> QED BY <1>6, <3>1, <3>2 DEF Replay
  <2> QED BY <1>4, <2>1, <2>2, <2>3
<1>7. ASSUME NEW r \in Stream, DispatcherSteps(r) PROVE Accounted'
  <2>1. UNCHANGED <<debugHistory, active, eventCh, command, notifying, replays, target, dropped>>
    BY <1>7 DEF DispatcherSteps, DispatcherBegins, EntersSelect, TakeEvent, FlushText, DispatcherEnds,
                fanVars, streamVars, commandVars, channelVars
  <2>2. \A s \in Stream : Live(s)' => Live(s) BY <2>1 DEF Live
  <2>3. PICK d \in DispatcherType : d = dispatcher[r] BY <1>0
  <2>4. Serves(d) /\ \A t \in Stream \ {r} : dispatcher'[t] = dispatcher[t]
    BY <1>0, <1>1, <1>7, <2>3
    DEF DispatcherSteps, DispatcherBegins, EntersSelect, TakeEvent, FlushText, DispatcherEnds, Dispatcher
  (* What it held is held or posted, and the channel's first event too.    *)
  <2>5. ASSUME NEW s \in Stream, Live(s), NEW x \in ToSet(debugHistory), Has(s, x),
               shown[s] \subseteq shown'[s],
               x \in ToSet(buffer[s]) => x \in ToSet(buffer'[s]) \/ Has(s, x)',
               d.thread = s /\ x \in d.text => Has(s, x)'
        PROVE  Has(s, x)'
    <3>1. CASE x \in shown[s] \/ x \in dropped[s] \/ x \in ToSet(replays[s]) BY <2>1, <2>5, <3>1 DEF Has
    <3>2. CASE x \in ToSet(buffer[s])
      <4>1. x \in ToSet(buffer'[s]) => Has(s, x)' BY DEF Has
      <4> QED BY <2>5, <3>2, <4>1
    <3>3. CASE \E t \in Stream : dispatcher[t].thread = s /\ x \in dispatcher[t].text
      <4>1. PICK t \in Stream : dispatcher[t].thread = s /\ x \in dispatcher[t].text BY <3>3
      <4>2. CASE t = r BY <2>3, <2>5, <4>1, <4>2
      <4>3. CASE t # r BY <2>4, <4>1, <4>3 DEF Has
      <4> QED BY <4>2, <4>3
    <3>4. CASE \E n \in Notifier : notifying[n] = x /\ target[n] \in {0, s} BY <2>1, <3>4 DEF Has
    <3> QED BY <2>5, <3>1, <3>2, <3>3, <3>4 DEF Has
  <2>6. ASSUME NEW s \in Stream, Live(s), NEW x \in ToSet(debugHistory), Has(s, x) PROVE Has(s, x)'
    <3>1. CASE DispatcherBegins(r)
      <4>1. UNCHANGED <<shown, buffer>> /\ d.at = "begin"
        BY <2>3, <3>1 DEF DispatcherBegins, Dispatcher, channelVars
      <4>2. d.thread = 0 BY <2>4, <4>1 DEF Serves
      <4> QED BY <1>13, <2>5, <2>6, <4>1, <4>2
    <3>2. CASE EntersSelect(r)
      <4>1. UNCHANGED <<shown, buffer>> /\ dispatcher'[r] = [d EXCEPT !.at = "select", !.done = done]
        BY <1>0, <2>3, <3>2 DEF EntersSelect, Dispatcher, channelVars
      <4>2. dispatcher'[r].thread = d.thread /\ dispatcher'[r].text = d.text BY <4>1 DEF DispatcherType
      <4>3. d.thread = s /\ x \in d.text => Has(s, x)' BY <4>2 DEF Has
      <4> QED BY <2>5, <2>6, <4>1, <4>3
    <3>3. CASE FlushText(r) \/ DispatcherEnds(r)
      <4>1. Post(r, d.text) /\ UNCHANGED buffer
        BY <2>3, <3>3 DEF FlushText, DispatcherEnds, channelVars
      <4>2. shown[s] \subseteq shown'[s] /\ (d.thread = s => d.text \subseteq shown'[s])
        BY <1>0, <2>3, <4>1 DEF Post
      <4>3. d.thread = s /\ x \in d.text => Has(s, x)' BY <4>2 DEF Has
      <4> QED BY <2>5, <2>6, <4>1, <4>2, <4>3
    <3>4. CASE TakeEvent(r)
      <4> DEFINE c == d.ch
                 batch == d.text \cup {Head(buffer[c])}
      <4>1. /\ d.at = "select" /\ buffer[c] # <<>> /\ buffer' = [buffer EXCEPT ![c] = Tail(@)]
            /\ \/ dispatcher'[r] = [d EXCEPT !.at = "loop", !.text = batch] /\ shown' = shown
               \/ Post(r, batch)
        BY <1>0, <2>3, <3>4 DEF TakeEvent, Dispatcher
      <4>2. c \in Stream /\ (c = s => d.thread = s) /\ d.thread \in {0, c}
        <5>1. c \in Number BY DEF DispatcherType
        <5>2. c # 0 /\ d.thread \in {0, c} /\ (d.thread = 0 /\ c = eventCh => ~active) BY <2>4, <4>1 DEF Serves
        <5> QED BY <2>6, <5>1, <5>2 DEF Live, Number
      <4>3. d.thread = s => \A y \in batch : Has(s, y)'
        <5>1. CASE dispatcher'[r] = [d EXCEPT !.at = "loop", !.text = batch]
          <6>1. dispatcher'[r].thread = d.thread /\ dispatcher'[r].text = batch BY <5>1 DEF DispatcherType
          <6> QED BY <6>1 DEF Has
        <5>2. CASE Post(r, batch)
          <6>1. d.thread = s => batch \subseteq shown'[s] BY <1>0, <2>3, <5>2 DEF Post
          <6> QED BY <6>1 DEF Has
        <5> QED BY <4>1, <5>1, <5>2
      <4>4. shown[s] \subseteq shown'[s]
        <5>1. CASE Post(r, batch) BY <1>0, <2>3, <5>1 DEF Post
        <5> QED BY <4>1, <5>1
      <4>5. x \in ToSet(buffer[s]) => x \in ToSet(buffer'[s]) \/ Has(s, x)'
        <5>1. CASE c = s
          <6>1. buffer[s] \in Seq(Nat) /\ buffer[s] # <<>> /\ buffer'[s] = Tail(buffer[s]) BY <1>0, <4>1, <5>1
          <6>2. \A y \in ToSet(buffer[s]) : y = Head(buffer[s]) \/ y \in ToSet(buffer'[s]) BY <6>1, ToSetOfTail
          <6>3. x = Head(buffer[s]) => x \in batch BY <5>1
          <6> QED BY <4>2, <4>3, <5>1, <6>2, <6>3
        <5>2. CASE c # s
          <6>1. buffer'[s] = buffer[s] BY <1>0, <4>1, <5>2
          <6> QED BY <6>1
        <5> QED BY <5>1, <5>2
      <4>6. x \in d.text => x \in batch OBVIOUS
      <4> QED BY <2>5, <2>6, <4>3, <4>4, <4>5, <4>6
    <3> QED BY <1>7, <3>1, <3>2, <3>3, <3>4 DEF DispatcherSteps
  <2> QED BY <1>4, <2>1, <2>2, <2>6
<1>8. ASSUME NEW r \in Stream, AddDebugListener(r) \/ Replayed(r) \/ ThreadFails(r) PROVE Accounted'
  <2>1. /\ UNCHANGED <<debugHistory, active, eventCh, shown, dropped, buffer, notifying, target, dispatcher>>
        /\ \A s \in Stream \ {r} : command'[s] = command[s] /\ replays'[s] = replays[s]
    BY <1>0, <1>8 DEF AddDebugListener, Replayed, ThreadFails, fanVars, streamVars, channelVars, readerVars
  <2>2. ASSUME NEW s \in Stream, replays'[s] = replays[s], NEW x, Has(s, x) PROVE Has(s, x)'
    BY <2>1, <2>2, HasKept
  <2>3. CASE AddDebugListener(r)
    <3>1. replays'[r] = debugHistory BY <1>0, <2>3 DEF AddDebugListener
    <3>2. \A x \in ToSet(debugHistory) : Has(r, x)' BY <3>1 DEF Has
    <3>3. \A s \in Stream \ {r} : Live(s)' => Live(s) BY <2>1 DEF Live
    <3> QED BY <1>4, <2>1, <2>2, <3>2, <3>3
  <2>4. CASE Replayed(r)
    <3>1. replays' = replays /\ command[r] = "replay" BY <2>4 DEF Replayed
    <3>2. \A s \in Stream : Live(s)' => Live(s) BY <2>1, <3>1 DEF Live
    <3> QED BY <1>4, <2>1, <2>2, <3>1, <3>2
  <2>5. CASE ThreadFails(r)
    <3>1. replays' = replays /\ calling = r BY <2>5 DEF ThreadFails
    <3>2. eventCh # r BY <1>13, <3>1 DEF StreamInv, StreamOrder, Used
    <3>3. \A s \in Stream : Live(s)' => Live(s) BY <2>1, <3>2 DEF Live
    <3> QED BY <1>4, <2>1, <2>2, <3>1, <3>3
  <2> QED BY <1>8, <2>3, <2>4, <2>5
<1>9. ASSUME NEW r \in Stream, StopLocked(r) \/ ThreadStart(r) \/ ThreadStarted(r) PROVE Accounted'
  <2>1. debugHistory' = debugHistory BY <1>9 DEF StopLocked, ThreadStart, ThreadStarted, fanVars
  <2>2. \A s \in Stream : ~Live(s)'
    <3>1. CASE StopLocked(r) BY <3>1 DEF StopLocked, Live
    <3>2. CASE ThreadStart(r) BY <3>2 DEF ThreadStart, streamVars, Live
    <3>3. CASE ThreadStarted(r)
      <4>1. calling = r /\ eventCh' = r /\ command' = command BY <3>3 DEF ThreadStarted
      <4>2. command[r] = "add" BY <1>1, <1>13, <4>1
      <4> QED BY <4>1, <4>2 DEF Live
    <3> QED BY <1>9, <3>1, <3>2, <3>3
  <2> QED BY <1>4, <2>1, <2>2
<1>10. CASE StopDebugging
  <2>1. debugHistory' = <<>> /\ active' = FALSE BY <1>10 DEF StopDebugging
  <2>2. ToSet(debugHistory') = {} BY <2>1 DEF ToSet
  <2> QED BY <2>1, <2>2 DEF Accounted, Live
<1> QED BY <1>3, <1>5, <1>6, <1>7, <1>8, <1>9, <1>10 DEF DebugSteps, ToggleSteps

(* Each event of the history since a stream got its listener is in its     *)
(* thread, in its channel, on its way there, or found the channel full     *)
(* (notifyDebug, AddDebugListener, handleEvent, runDispatcher, Toggle),    *)
(* however many commands, dispatchers and emitting sessions there are.     *)
THEOREM StreamMissesNothing == Spec => []EventsAccountedFor
<1>1. Init => StreamInv
  <2> SUFFICES ASSUME DebugInit PROVE StreamInv BY DEF Init
  <2>1. 0 \in Number /\ 0 \in Nat BY DEF Number
  <2>2. <<>> \in Seq(Nat) BY EmptyOfNat
  <2>3. NoDispatcher \in DispatcherType BY <2>1 DEF NoDispatcher, DispatcherType, Place
  <2>4. DebugTypeOK BY <2>1, <2>2, <2>3 DEF DebugInit, DebugTypeOK
  <2>5. NoDispatcher.at = "none" /\ NoDispatcher.ch = 0 /\ NoDispatcher.thread = 0 BY DEF NoDispatcher
  <2>6. \A s \in Stream : dispatcher[s] = NoDispatcher /\ ~Live(s) BY DEF DebugInit, Live
  <2>7. \A s \in Stream : Serves(dispatcher[s]) /\ Unstarted(s) BY <2>5, <2>6 DEF Serves, Used, Unstarted
  <2>8. StreamOrder BY <2>6, <2>7 DEF DebugInit, StreamOrder, Used, Goroutine
  <2>9. Accounted
    <3>2. debugHistory = <<>> BY DEF DebugInit
    <3>1. ToSet(debugHistory) = {} BY <3>2 DEF ToSet
    <3> QED BY <2>6, <3>1 DEF Accounted
  <2> QED BY <2>4, <2>8, <2>9 DEF StreamInv
<1>2. StreamInv /\ [Next]_vars => StreamInv'
  <2> SUFFICES ASSUME StreamInv, [Next]_vars PROVE StreamInv' OBVIOUS
  <2>1. DebugSteps \/ StopDebugging \/ UNCHANGED debugVars
    BY DEF Next, vars, ProcessInboxMessage, CaptureResponse, Ingesting, Sensing, Debugging, Polling, Crash, Restart
  <2>2. CASE DebugSteps \/ StopDebugging BY <2>2, DebugTypeKept, OrderKept, AccountedKept DEF StreamInv
  <2>3. CASE UNCHANGED debugVars
    <3>1. UNCHANGED <<debugHistory, emitted, notifying, listening, active, eventCh, done, closed, calling, command,
                      replays, target, buffer, dropped, dispatcher, shown>>
      BY <2>3 DEF debugVars, fanVars, streamVars, commandVars, channelVars, readerVars
    <3>2. DebugTypeOK' BY <3>1 DEF StreamInv, DebugTypeOK
    <3>3. StreamOrder' BY <3>1 DEF StreamInv, StreamOrder, Serves, Used, Unstarted, Live
    <3>4. Accounted' BY <3>1 DEF StreamInv, Accounted, Has, Live
    <3> QED BY <3>2, <3>3, <3>4 DEF StreamInv
  <2> QED BY <2>1, <2>2, <2>3
<1>3. StreamInv => EventsAccountedFor
  <2> SUFFICES ASSUME StreamInv, NEW s \in Stream, Live(s), NEW x \in ToSet(debugHistory)
               PROVE  x \in shown[s] \cup dropped[s] \cup OnItsWay(s)
    BY DEF EventsAccountedFor
  <2>1. Has(s, x) BY DEF StreamInv, Accounted
  <2>2. notifying \in [Notifier -> Nat] BY DEF StreamInv, DebugTypeOK
  <2>3. \A n \in Notifier : notifying[n] \in Range(notifying) BY <2>2 DEF Range
  <2>4. ToSet(buffer[s]) \subseteq OnItsWay(s) BY Zenon DEF OnItsWay
  <2>5. UNION {ToSet(replays[t]) : t \in Stream} \subseteq OnItsWay(s) BY Zenon DEF OnItsWay
  <2>6. UNION {dispatcher[t].text : t \in {r \in Stream : dispatcher[r].thread = s}} \subseteq OnItsWay(s)
    BY Zenon DEF OnItsWay
  <2>7. Range(notifying) \subseteq OnItsWay(s) BY Zenon DEF OnItsWay
  <2>8. (\E r \in Stream : dispatcher[r].thread = s /\ x \in dispatcher[r].text) => x \in OnItsWay(s) BY <2>6
  <2>9. x \in ToSet(replays[s]) => x \in OnItsWay(s) BY <2>5
  <2>10. (\E n \in Notifier : notifying[n] = x) => x \in OnItsWay(s) BY <2>3, <2>7
  <2> QED BY <2>1, <2>4, <2>8, <2>9, <2>10 DEF Has
<1> QED BY <1>1, <1>2, <1>3, PTL DEF Spec
==============================================================================
