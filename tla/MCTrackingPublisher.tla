------------------------ MODULE MCTrackingPublisher ------------------------
(* Instances of TrackingPublisher for TLC.                                 *)
EXTENDS TrackingPublisher, TLC

Symmetry == Permutations(Task)
=============================================================================
