------------------------------- MODULE Episodes -------------------------------
(***************************************************************************)
(* How messages become episodes of the memory graph (ingestToMemoryGraph   *)
(* and captureResponse in cmd/bud/main.go): each message in a goroutine of *)
(* its own, each reply in the effector's, stored through the memory        *)
(* service and linked to the episode before it in its channel.             *)
(***************************************************************************)
EXTENDS Naturals, FiniteSets

CONSTANTS
  Episode,      \* messages and replies that have content
  Channel,
  ChannelOf     \* the channel of each

ASSUME EpisodeConstants == ChannelOf \in [Episode -> Channel] /\ <<>> \notin Episode

VARIABLES
  stage,      \* how far each has got
  prev,       \* its prevID, Nobody before and for none
  last,       \* lastEngramIDByChannel
  holder,     \* lastEpisodeMu
  edges       \* the "follows" edges the service has

episodeVars == <<stage, prev, last, holder, edges>>
Nobody == <<>>

EpisodeInit ==
  /\ stage = [e \in Episode |-> "none"] /\ prev = [e \in Episode |-> Nobody]
  /\ last = [c \in Channel |-> Nobody] /\ holder = Nobody /\ edges = {}

Goes(e, from, to) == stage[e] = from /\ stage' = [stage EXCEPT ![e] = to]

(* The message is handed over; nothing waits for what follows.             *)
Ingest(e) == Goes(e, "none", "storing") /\ UNCHANGED <<prev, last, holder, edges>>

(* The service has the episode, or the message is not linked at all.       *)
IngestEpisode(e) ==
  /\ Goes(e, "storing", "stored") \/ Goes(e, "storing", "failed")
  /\ UNCHANGED <<prev, last, holder, edges>>

AnyTime(e) == TRUE     \* variant: no lock
Unlocked(e) == holder = Nobody

ReadLast(e) ==
  /\ Unlocked(e)
  /\ Goes(e, "stored", "read")
  /\ holder' = e
  /\ prev' = [prev EXCEPT ![e] = last[ChannelOf[e]]]
  /\ UNCHANGED <<last, edges>>

WriteLast(e) ==
  /\ Goes(e, "read", "linking")
  /\ last' = [last EXCEPT ![ChannelOf[e]] = e]
  /\ holder' = Nobody
  /\ UNCHANGED <<prev, edges>>

AddEpisodeEdge(e) ==
  /\ Goes(e, "linking", "linked")
  /\ \/ prev[e] # Nobody /\ edges' = edges \cup {<<prev[e], e>>}
     \/ UNCHANGED edges     \* nothing to link to, or the service fails
  /\ UNCHANGED <<prev, last, holder>>

Episodes == \E e \in Episode : IngestEpisode(e) \/ ReadLast(e) \/ WriteLast(e) \/ AddEpisodeEdge(e)

(* The map of last episodes is gone with the program.                      *)
ForgetEpisodes ==
  /\ stage' = [e \in Episode |-> IF stage[e] = "none" THEN "none" ELSE "ended"]
  /\ last' = [c \in Channel |-> Nobody] /\ holder' = Nobody
  /\ UNCHANGED <<prev, edges>>

-----------------------------------------------------------------------------
(* However the goroutines interleave and whatever the service refuses, the *)
(* edges of a channel never branch and never close into a circle: an       *)
(* episode follows at most one and is followed by at most one, of its own  *)
(* channel, any set of edges has a first one, and the last episode of a    *)
(* channel is followed by none.                                            *)
NoCircle(links) == \A E \in SUBSET links : E # {} => \E x \in E : \A y \in E : y[2] # x[1]

EpisodesFormOneChain ==
  /\ \A x, y \in edges : x # y => x[1] # y[1] /\ x[2] # y[2]
  /\ \A x \in edges : ChannelOf[x[1]] = ChannelOf[x[2]]
  /\ NoCircle(edges)
  /\ \A c \in Channel : last[c] # Nobody => \A x \in edges : x[1] # last[c]
=============================================================================
