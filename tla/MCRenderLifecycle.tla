-------------------------- MODULE MCRenderLifecycle --------------------------
(* Instances of RenderLifecycle for TLC. *)
EXTENDS RenderLifecycle, TLC
=============================================================================
