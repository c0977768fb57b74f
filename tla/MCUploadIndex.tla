---------------------------- MODULE MCUploadIndex ----------------------------
(* Names for the files of the instances of UploadIndex. *)
EXTENDS UploadIndex

CONSTANTS f1, f2
=============================================================================
