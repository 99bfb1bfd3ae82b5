---------------------------- MODULE Conversation ----------------------------
(***************************************************************************)
(* Which part of a channel's conversation goes into a prompt               *)
(* (executive_v2.go, buildRecentConversation and                           *)
(* buildRecentConversationForWake).  A log is the sequence of episodes     *)
(* that Engram returns, newest first.  An episode is known by the tokens   *)
(* it takes in each of its forms: the full text, the summaries of about    *)
(* 32, 16 and 8 words (0: there is none), the count Engram stores with it  *)
(* ("count", may be 0), and by whether it is still unconsolidated.  What   *)
(* is shown is the sequence of their positions in the log, in              *)
(* chronological order: the oldest has the largest.                        *)
(*                                                                         *)
(* The IDs to exclude are those of percepts, which no episode has: nothing *)
(* is ever excluded.                                                       *)
(***************************************************************************)
EXTENDS Integers, Sequences

CONSTANTS
  FullCount, C32Count, C8Count,   \* sizes of the tiers: 5, 10 and 15
  FetchLimit, TokenBudget,        \* 100 episodes, 5000 tokens
  WakeLimit, WakeBudget           \* 15 episodes, 1500 tokens

ASSUME ConversationConstants ==
  /\ FullCount \in Nat /\ C32Count \in Nat /\ C8Count \in Nat
  /\ FetchLimit \in Nat /\ TokenBudget \in Nat /\ WakeLimit \in Nat /\ WakeBudget \in Nat

Episode ==
  [full : Nat, c32 : Nat, c16 : Nat, c8 : Nat, count : Nat, open : BOOLEAN]

Base == FullCount + C32Count + C8Count

(* The forms an episode at position i may be shown in, best first.         *)
Forms(i) ==
  CASE i <= FullCount                          -> <<"full">>
    [] FullCount < i /\ i <= FullCount + C32Count -> <<"c32", "c8", "full">>
    [] FullCount + C32Count < i /\ i <= Base   -> <<"c8", "full">>
    [] OTHER                                   -> <<"c8", "count">>
WakeForms == <<"c16", "full">>

(* Tokens of the first of these forms that the episode has.                *)
Tokens(ep, forms) ==
  LET had == {k \in DOMAIN forms : ep[forms[k]] > 0}
  IN IF had = {} THEN 0 ELSE ep[forms[CHOOSE k \in had : \A j \in had : k <= j]]

(* What may be shown of a log, and the tokens of each episode.  Beyond the *)
(* base the buffer holds only what is not consolidated yet.                *)
Offer(log) ==
  [candidates |-> {i \in DOMAIN log : i <= Base \/ log[i].open},
   tokens     |-> [i \in DOMAIN log |-> Tokens(log[i], Forms(i))]]
WakeOffer(log) ==
  [candidates |-> DOMAIN log,
   tokens     |-> [i \in DOMAIN log |-> Tokens(log[i], WakeForms)]]

(* One round of the loops: the first episode over the budget ends them.    *)
(* The parts are collected newest first and reversed at the end.           *)
NoParts == [used |-> 0, shown |-> <<>>, exceeded |-> FALSE]
TakeWhatFits(buf, i, tokens, budget) ==    \* variant: passes over a long one
  IF buf.used + tokens > budget
  THEN buf
  ELSE [buf EXCEPT !.used = buf.used + tokens, !.shown = <<i>> \o buf.shown]
Take(buf, i, tokens, budget) ==
  IF buf.exceeded \/ buf.used + tokens > budget
  THEN [buf EXCEPT !.exceeded = TRUE]
  ELSE [buf EXCEPT !.used = buf.used + tokens, !.shown = <<i>> \o buf.shown]

(* The buffer after each episode of the log, and what it shows in the end. *)
Filling(offer, budget) ==
  LET buffer[i \in Nat] ==
        IF i = 0 THEN NoParts
        ELSE IF i \in offer.candidates
        THEN Take(buffer[i - 1], i, offer.tokens[i], budget)
        ELSE buffer[i - 1]
  IN buffer
Fill(offer, budget) == Filling(offer, budget)[Len(offer.tokens)].shown

Fetch(log, limit) == IF Len(log) <= limit THEN log ELSE SubSeq(log, 1, limit)

RecentConversation(log) == Fill(Offer(Fetch(log, FetchLimit)), TokenBudget)
WakeConversation(log) == Fill(WakeOffer(Fetch(log, WakeLimit)), WakeBudget)

-----------------------------------------------------------------------------
(* Reference definition: the candidates from the newest up to some         *)
(* episode, as many as their tokens fit the budget, oldest first.          *)
Totals(offer) ==
  LET total[i \in Nat] ==
        IF i = 0 THEN 0
        ELSE total[i - 1] + (IF i \in offer.candidates THEN offer.tokens[i] ELSE 0)
  IN total

NewestThatFit(offer, budget, shown) ==
  \E k \in 0..Len(offer.tokens) :
    /\ {shown[j] : j \in DOMAIN shown} = {i \in offer.candidates : i <= k}
    /\ \A j, l \in DOMAIN shown : j < l => shown[j] > shown[l]
    /\ Totals(offer)[k] <= budget
    /\ k < Len(offer.tokens) =>
         k + 1 \in offer.candidates /\ Totals(offer)[k + 1] > budget
=============================================================================
