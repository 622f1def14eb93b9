-------------------------- MODULE MCProjectRecovery --------------------------
(* An instance of ProjectRecovery for TLC.                                   *)
EXTENDS ProjectRecovery, TLC

Symmetric == Permutations(Tasks)
=============================================================================
