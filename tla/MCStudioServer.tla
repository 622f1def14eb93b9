---------------------------- MODULE MCStudioServer ----------------------------
(* Instances of StudioServer for TLC. *)
EXTENDS StudioServer, TLC
=============================================================================
