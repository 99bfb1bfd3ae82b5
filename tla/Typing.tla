-------------------------------- MODULE Typing --------------------------------
(***************************************************************************)
(* The typing indicators of the Discord effector                           *)
(* (internal/effectors/discord.go): a map from channels to the channel     *)
(* that stops the goroutine refreshing the indicator.  Goroutines are      *)
(* numbered; a goroutine is named by its number, as is its stop channel.   *)
(***************************************************************************)
EXTENDS Naturals

CONSTANTS
  Channel,
  MaxTypers    \* bound: goroutines started

ASSUME TypingConstants == MaxTypers \in Nat

VARIABLES
  typingChans,   \* per channel, the goroutine its entry belongs to, 0 for none
  typers,        \* the goroutines that run
  started,       \* goroutines started so far
  closed         \* the stop channels that were closed

typingVars == <<typingChans, typers, started, closed>>

TypingInit ==
  /\ typingChans = [c \in Channel |-> 0]
  /\ typers = {} /\ started = 0 /\ closed = {}

(* Nothing happens for a channel that has an entry, not even when its      *)
(* goroutine has given up.                                                 *)
StartTyping(c) ==
  /\ started < MaxTypers
  /\ typingChans[c] = 0
  /\ started' = started + 1
  /\ typers' = typers \cup {started + 1}
  /\ typingChans' = [typingChans EXCEPT ![c] = started + 1]
  /\ UNCHANGED closed

StopTyping(c) ==
  /\ typingChans[c] # 0
  /\ closed' = closed \cup {typingChans[c]}
  /\ typingChans' = [typingChans EXCEPT ![c] = 0]
  /\ UNCHANGED <<typers, started>>

StopAllTyping ==
  /\ closed' = closed \cup {typingChans[c] : c \in {d \in Channel : typingChans[d] # 0}}
  /\ typingChans' = [c \in Channel |-> 0]
  /\ UNCHANGED <<typers, started>>

(* The goroutine ends when told to, or when a call to Discord fails.       *)
TyperEnds(g) ==
  /\ g \in typers
  /\ typers' = typers \ {g}
  /\ UNCHANGED <<typingChans, started, closed>>

TypingNext ==
  \/ \E c \in Channel : StartTyping(c) \/ StopTyping(c)
  \/ StopAllTyping
  \/ \E g \in typers : TyperEnds(g)

-----------------------------------------------------------------------------
(* An indicator that is still refreshed and was not told to stop is the    *)
(* one its channel's entry would stop: no goroutine goes on typing in a    *)
(* channel with nobody able to stop it.                                    *)
TypersCanBeStopped ==
  /\ started \in 0 .. MaxTypers
  /\ typingChans \in [Channel -> 0 .. started] /\ typers \subseteq 1 .. started
  /\ \A g \in typers \ closed : \E c \in Channel : typingChans[c] = g
=============================================================================
