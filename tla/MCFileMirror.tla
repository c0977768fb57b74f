---------------------------- MODULE MCFileMirror ----------------------------
(* Names for the devices and files of the instances of FileMirror. *)
EXTENDS FileMirror

CONSTANTS d1, d2, a, b

MCEdits == {<<"remove", a>>, <<"share", b>>}
=============================================================================
