-------------------------- MODULE MCDeviceBinding --------------------------
(* Instances of DeviceBinding for TLC.                                     *)
EXTENDS DeviceBinding, TLC

Symmetry == Permutations(Request) \cup Permutations(User) \cup Permutations(Device)
=============================================================================
