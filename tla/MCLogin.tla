------------------------------ MODULE MCLogin ------------------------------
(* Instances of Login for TLC.                                             *)
EXTENDS Login, TLC

(* Requests and persons are interchangeable, and a source is only compared.*)
(* For runs of safety only: liveness is checked without it.                *)
Symmetry == Permutations(Request) \cup Permutations(Person) \cup Permutations(Source)
=============================================================================
