------------------------- MODULE MCTemplateMessage -------------------------
(* Instances of TemplateMessage for TLC.                                   *)
EXTENDS TemplateMessage, TLC

Symmetry == Permutations(Call) \cup Permutations(Message)
=============================================================================
