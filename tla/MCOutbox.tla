------------------------------- MODULE MCOutbox -------------------------------
(* Two actions for one channel that fail at every point, or one message    *)
(* of any text of up to MaxMarks marks; typing is looked at on its own.    *)
EXTENDS Outbox, TLC

CONSTANTS m1, m2, react, ch, other, MaxMarks

MCAction == {m1, m2, react}
MCChannel == {ch, other}
MCKind == (m1 :> "message") @@ (m2 :> "message") @@ (react :> "reaction")
MCTo == [a \in MCAction |-> ch]

(* Texts that are cut, of which every round takes something.               *)
Texts == {t \in UNION {[1 .. n -> Mark] : n \in MaxLength + 1 .. MaxMarks} : Plain(t)}
Two == <<"x", "x", "x", "x", " ", "x">>
One == <<"x">>
MCContents ==
  {m1 :> t : t \in Texts}
    \cup {(m1 :> Two) @@ (m2 :> One), (m1 :> Two) @@ (react :> One)}

Alone == Cardinality(DOMAIN content) = 1
Scenarios ==
  /\ Alone => retryStates = <<>> /\ slashes = 0 /\ ~stopping
  /\ slashes > 0 => react \in DOMAIN content /\ ~stopping
  /\ started > 0 => accepted = <<>> /\ slashes = 0 /\ ~stopping /\ react \in DOMAIN content
=============================================================================
