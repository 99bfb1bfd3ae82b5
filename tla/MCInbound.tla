------------------------------ MODULE MCInbound ------------------------------
(* Connections lost twice; one lost around a message, or two messages and  *)
(* two replies in two channels without a loss; a day and a half of two     *)
(* calendars, of which one does not always answer, with a standup, a       *)
(* sprint review and one that moves; and three commands for the debug      *)
(* stream.                                                                 *)
EXTENDS Inbound, TLC

MCKind == [m \in Message |-> IF m = "m1" THEN "chat" ELSE "slash"]
MCChannelOf == [e \in Episode |-> IF e[1] = "q" THEN "elsewhere" ELSE "here"]
MCEpisode == {<<"m1", 1>>, <<"m1", 2>>, <<"m2", 1>>, <<"m2", 2>>, <<"r", 1>>, <<"q", 1>>}

MCCalendar == <<"work", "home">>
MCMentions == [k \in Keyword |-> {k}]
Meeting(id, c, t, s, f, g) ==
  [id |-> id, calendar |-> c, title |-> t, start |-> s, end |-> f, going |-> g, cancelled |-> FALSE, allDay |-> FALSE]
MCVersions ==
  "daily" :> {Meeting("daily", "work", "standup", 3, 4, "accepted"), Meeting("daily", "work", "standup", 9, 10, "accepted")} @@
  "mine"  :> {Meeting("mine", "home", "sprint review", 3, 5, "accepted"), Meeting("mine", "home", "standup", 3, 4, "needsAction")} @@
  "late"  :> {Meeting("late", "work", "sprint review", 4, 5, "tentative"),
              [Meeting("late", "work", "party", 0, 6, "accepted") EXCEPT !.allDay = TRUE]}

Started == {e \in Episode : stage[e] # "none"}
Talk == Started # {} \/ handed \cup coming # {}
Quiet == now = Wakes /\ sent = <<>> /\ nextPoll = Wakes /\ changes = 0 /\ cal["daily"].start = 3 /\ \A e \in {"mine", "late"} : cal[e].title = "sprint review"
Streaming == emitted > 0 \/ \E s \in Stream : command[s] # "not yet"
Scenarios ==
 \/ Streaming /\ Quiet /\ ~Talk /\ drops = 0 /\ events = {} /\ Running
 \/ ~Streaming /\
   (\/ /\ Quiet
       /\ \/ ~Talk
          \/ drops <= 1 /\ Unwritten("m2") /\ Started \subseteq {<<"m1", 1>>, <<"m1", 2>>}
          \/ drops = 0 /\ events = {} /\ Cardinality(Started) <= 3
    \/ drops = 0 /\ ~Talk /\ (events = {<<First, "connect">>} \/ ~Running))
=============================================================================
