--------------------------- MODULE ElementSequence ---------------------------
(***************************************************************************)
(* What a CollectableVector promises its user: a sequence of pointers that *)
(* every member function changes at one moment, whatever the collector is  *)
(* doing and however the array under it grows.                             *)
(***************************************************************************)
EXTENDS Naturals, Sequences

CONSTANTS Elements, NULL

VARIABLE content

Value == Elements \cup {NULL}

Append1(v) == content' = Append(content, v)

InsertAt(p, v) ==
  content' = SubSeq(content, 1, p) \o <<v>> \o SubSeq(content, p + 1, Len(content))

SetAt(i, v) == content' = [content EXCEPT ![i] = v]

RemoveLast == content # <<>> /\ content' = SubSeq(content, 1, Len(content) - 1)

Empty == content' = <<>>

(* Shorter, or longer with null pointers at the end.                       *)
Resize ==
  /\ content' \in Seq(Value)
  /\ \A i \in 1 .. Len(content') :
       content'[i] = IF i <= Len(content) THEN content[i] ELSE NULL

SequenceInit == content = <<>>

SequenceNext ==
  \/ \E v \in Value : Append1(v) \/ \E p \in 0 .. Len(content) : InsertAt(p, v)
  \/ \E v \in Value, i \in 1 .. Len(content) : SetAt(i, v)
  \/ RemoveLast \/ Empty \/ Resize

SequenceSpec == SequenceInit /\ [][SequenceNext]_content
=============================================================================
