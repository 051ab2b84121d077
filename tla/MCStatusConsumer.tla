-------------------------- MODULE MCStatusConsumer --------------------------
(* Instances of StatusConsumer for TLC.  Liveness is checked with safety,  *)
(* so the workers, interchangeable as they are, are not a symmetry set.    *)
EXTENDS StatusConsumer
=============================================================================
