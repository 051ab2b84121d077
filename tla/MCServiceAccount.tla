-------------------------- MODULE MCServiceAccount --------------------------
(* An instance of ServiceAccount for TLC.  The run checks liveness, so it  *)
(* names no symmetry.                                                      *)
EXTENDS ServiceAccount
=============================================================================
