---------------------------- MODULE MCLanSearch ----------------------------
(* Names for the devices of the instances of LanSearch. *)
EXTENDS LanSearch

CONSTANTS d1
=============================================================================
