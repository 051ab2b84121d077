-------------------------- MODULE MCWxworkMessage --------------------------
(* Instances of WxworkMessage for TLC.                                     *)
EXTENDS WxworkMessage, SequencesExt

\* Characters of one, two, three and four bytes, and texts of up to three.
Chars == {<<97>>, <<195, 169>>, <<228, 184, 173>>, <<240, 159, 152, 128>>}
Texts == {FlattenSeq(t) : t \in SeqOf(Chars, 3)}

\* Ten bytes: with a text of two the packet fills its block before padding.
OwnCorp == [i \in 1 .. 10 |-> 119]
ForeignCorp == [i \in 1 .. 10 |-> 120]

Randoms == {[i \in 1 .. RandomLength |-> b] : b \in {65, 122}}
=============================================================================
