------------------------------- MODULE Chunking -------------------------------
(***************************************************************************)
(* How the Discord effector cuts a long message (internal/effectors/       *)
(* discord.go).  A text is a sequence of marks: a letter, a space, a       *)
(* newline, or the three backquotes of a code fence, which count as one.   *)
(* MaxLength, FenceRange and Closing stand for 2000, 300 and 4 bytes.      *)
(* Positions are offsets, as in the code: text[i + 1] is at offset i.      *)
(***************************************************************************)
EXTENDS Naturals, Sequences, FiniteSets

CONSTANTS MaxLength, FenceRange

ASSUME ChunkConstants ==
  /\ MaxLength \in Nat \ {0} /\ FenceRange \in Nat /\ FenceRange < MaxLength

Mark == {"x", " ", "nl", "fence"}
Blank == {" ", "nl"}
Closing == <<"nl", "fence">>

Greatest(S) == CHOOSE i \in S : \A j \in S : j <= i
Least(S) == CHOOSE i \in S : \A j \in S : i <= j
From(text, i) == SubSeq(text, i + 1, Len(text))
Upto(text, i) == SubSeq(text, 1, i)

(* strings.TrimLeft and TrimRight with " \n". *)
Solid(text) == {i \in DOMAIN text : text[i] \notin Blank}
TrimLeft(text) == IF Solid(text) = {} THEN <<>> ELSE From(text, Least(Solid(text)) - 1)
TrimRight(text) == IF Solid(text) = {} THEN <<>> ELSE Upto(text, Greatest(Solid(text)))

(* Lines, by the offset they start at. *)
LineStarts(text) == {i \in 0 .. Len(text) - 1 : i = 0 \/ text[i] = "nl"}
LineEnd(text, i) ==
  LET ends == {j \in i .. Len(text) - 1 : text[j + 1] = "nl"}
  IN  IF ends = {} THEN Len(text) ELSE Least(ends)
AfterLine(text, i) == IF LineEnd(text, i) = Len(text) THEN Len(text) ELSE LineEnd(text, i) + 1
Line(text, i) == TrimLeft(SubSeq(text, i + 1, LineEnd(text, i)))
FenceLine(text, i) == Line(text, i) # <<>> /\ Head(Line(text, i)) = "fence"

(* The last paragraph, line or word that ends in the second half.          *)
Ends(text, max, pattern) ==
  {i + Len(pattern) : i \in {j \in (max \div 2) + 1 .. max - Len(pattern) :
                               SubSeq(text, j + 1, j + Len(pattern)) = pattern}}
Tries(text, max) ==
  <<Ends(text, max, <<"nl", "nl">>), Ends(text, max, <<"nl">>), Ends(text, max, <<" ">>), {max}>>

FindSplitPoint(text, max) ==
  LET first == CHOOSE k \in 1 .. 4 :
                 Tries(text, max)[k] # {} /\ \A l \in 1 .. k - 1 : Tries(text, max)[l] = {}
  IN  IF Len(text) <= max THEN Len(text) ELSE Greatest(Tries(text, max)[first])

(* The fence lines before the limit open and close code blocks in turn; a  *)
(* cut right after a closing one is preferred.                             *)
Fences(text) == {i \in LineStarts(text) : i < MaxLength /\ FenceLine(text, i)}
Closes(text, i) == Cardinality({j \in Fences(text) : j <= i}) % 2 = 0
InFence(text) == Cardinality(Fences(text)) % 2 = 1
CleanEnds(text) ==
  {AfterLine(text, i) : i \in {j \in Fences(text) : Closes(text, j)}}
    \cap (MaxLength - FenceRange .. MaxLength)
OpenFence(text) == TrimRight(Line(text, Greatest(Fences(text))))

SplitCodeFenceAware(text) ==
  LET cut(i, open) == [chunk |-> Upto(text, i), rest |-> From(text, i), open |-> open]
      room == IF MaxLength - Len(Closing) < 1 THEN 1 ELSE MaxLength - Len(Closing)
  IN  IF CleanEnds(text) # {} THEN cut(Greatest(CleanEnds(text)), <<>>)
      ELSE IF InFence(text) THEN cut(FindSplitPoint(text, room), OpenFence(text))
      ELSE cut(FindSplitPoint(text, MaxLength), <<>>)

(* Variant: the room for the closing fence forgotten. *)
CutNoRoom(text) ==
  LET open == InFence(text)
      at == FindSplitPoint(text, MaxLength)
  IN  IF Len(text) <= MaxLength THEN [chunk |-> text, rest |-> <<>>]
      ELSE [chunk |-> IF open THEN Upto(text, at) \o Closing ELSE Upto(text, at),
            rest |-> TrimLeft(From(text, at))]
(* One round of chunkMessage: the block is closed before the cut and       *)
(* opened again after it.                                                  *)
Cut(text) ==
  LET split == SplitCodeFenceAware(text)
      chunk == IF split.open = <<>> THEN split.chunk ELSE split.chunk \o Closing
      rest == IF split.open = <<>> THEN split.rest ELSE split.open \o <<"nl">> \o split.rest
  IN  IF Len(text) <= MaxLength THEN [chunk |-> text, rest |-> <<>>]
      ELSE [chunk |-> TrimRight(chunk), rest |-> TrimLeft(rest)]

(* chunkMessage, with the rounds it may take bounded by the length of the  *)
(* text.                                                                   *)
Rounds(text) ==
  LET round[n \in Nat] ==
        IF n = 0 THEN [chunks |-> <<>>, rest |-> text]
        ELSE LET before == round[n - 1]
                 next == Cut(before.rest)
             IN  IF n > 1 /\ before.rest = <<>> THEN before
                 ELSE [chunks |-> Append(before.chunks, next.chunk), rest |-> next.rest]
  IN  round
ChunkMessage(text) == Rounds(text)[Len(text) + 1]

-----------------------------------------------------------------------------
Letters(text) == Cardinality({i \in DOMAIN text : text[i] = "x"})

(* Texts that a cut always gets on with, for a limit of 5 and more: they   *)
(* begin with something, and less than half the limit, without a letter,   *)
(* is between a code fence and the end of its line (see the README).       *)
Half == MaxLength \div 2 - 1
LineOver(text, j) == j = Len(text) + 1 \/ (j \in DOMAIN text /\ text[j] = "nl")
Fenced(text, Tag) ==
  \A i \in DOMAIN text : text[i] = "fence" =>
    \E j \in i + 1 .. i + Half : LineOver(text, j) /\ \A k \in i .. j - 1 : text[k] \in Tag
Plain(text) == text # <<>> /\ text[1] \notin Blank /\ Fenced(text, Mark \ {"x"})
=============================================================================
