----------------------------- MODULE MCIotLink -----------------------------
(* Names for the devices and commands of the instances of IotLink. *)
EXTENDS IotLink

CONSTANTS m1, m2, c1, c2
=============================================================================
