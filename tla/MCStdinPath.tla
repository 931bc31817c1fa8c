---------------------------- MODULE MCStdinPath ----------------------------
(* Model-checking instance of StdinPath. *)
EXTENDS StdinPath
=============================================================================
