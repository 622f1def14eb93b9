---------------------------- MODULE MCStudioClient ----------------------------
(* Instances of StudioClient for TLC. *)
EXTENDS StudioClient, TLC
=============================================================================
