-------------------------- MODULE MCDeviceRegistry --------------------------
(* Instances of DeviceRegistry: three devices, room for two. *)
EXTENDS DeviceRegistry, TLC

CONSTANTS d1, d2, d3
MCDevices == {d1, d2, d3}
MCSymmetry == Permutations(MCDevices)
=============================================================================
