---------------------------- MODULE MCDeviceSync ----------------------------
(* Names for the devices of the instances of DeviceSync. *)
EXTENDS DeviceSync

CONSTANTS m1
=============================================================================
