---------------------------- MODULE MCDiskWizard ----------------------------
(* The instance of DiskWizard that is checked. *)
EXTENDS DiskWizard
=============================================================================
