-------------------------- MODULE MCPreviewScheduler --------------------------
(* An instance of PreviewScheduler for TLC: one layer begins late.           *)
EXTENDS PreviewScheduler, TLC

CONSTANTS back, front
OneThenTwo == (0 :> {back}) @@ (1 :> {back, front})
Symmetric == Permutations(Calls)
=============================================================================
