--------------------------- MODULE MCMutationLock ---------------------------
(* Instances of MutationLock for TLC. *)
EXTENDS MutationLock
=============================================================================
