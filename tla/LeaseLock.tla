------------------------------ MODULE LeaseLock ------------------------------
(***************************************************************************)
(* What the project mutation lock promises to the code that takes it: one  *)
(* holder at a time, until the promise is void.  It is void ("broken")     *)
(* once a holder works on past its lease, or once an operator's repair has *)
(* moved the lock file away; from then on a second holder may appear.      *)
(*                                                                         *)
(* MutationLock shows that packages/schema/src/project-lock.ts implements  *)
(* this; CommandEngine is built on it.                                     *)
(***************************************************************************)
CONSTANT Processes

VARIABLES
  holders,  \* the processes that believe they hold the lock
  broken    \* the lease discipline has been violated

leaseVars == <<holders, broken>>

LeaseTypeOK == holders \subseteq Processes /\ broken \in BOOLEAN

Init == holders = {} /\ broken = FALSE

Acquire(p) ==
  /\ p \notin holders
  /\ holders = {} \/ broken
  /\ holders' = holders \cup {p}
  /\ UNCHANGED broken

(* A release, a failed acquisition that backs out, or the holder's death. *)
Drop(p) ==
  /\ p \in holders
  /\ holders' = holders \ {p}
  /\ UNCHANGED broken

Break ==
  /\ broken' = TRUE
  /\ UNCHANGED holders

Next ==
  \/ Break
  \/ \E p \in Processes : Acquire(p) \/ Drop(p)

Spec == Init /\ [][Next]_leaseVars
=============================================================================
