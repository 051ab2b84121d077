-------------------------- MODULE MCDeviceRegistry --------------------------
(* Instances of DeviceRegistry for TLC.                                    *)
EXTENDS DeviceRegistry, TLC

\* Values are not interchangeable: one of them is the default mode.
Symmetry == Permutations(Request)
=============================================================================
