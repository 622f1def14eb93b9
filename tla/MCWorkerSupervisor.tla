------------------------- MODULE MCWorkerSupervisor -------------------------
(* Instances of WorkerSupervisor for TLC. *)
EXTENDS WorkerSupervisor
=============================================================================
