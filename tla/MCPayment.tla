----------------------------- MODULE MCPayment -----------------------------
(* Instances of Payment for TLC.                                           *)
EXTENDS Payment, TLC

Symmetry == Permutations(Order) \cup Permutations(Notice)
=============================================================================
