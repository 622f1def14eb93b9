------------------------------ MODULE EventFeed ------------------------------
(* What the event stream promises a client: it is shown every event, once  *)
(* and in the order of publication.  It may stop being shown any, when what *)
(* it still needs is gone, but it never goes on after a hole.               *)
EXTENDS Naturals

VARIABLES
  sent,  \* how many events the server has published
  seen   \* how many of them the client was shown

vars == <<sent, seen>>

Init == sent \in Nat /\ seen = 0

Publish == sent' = sent + 1 /\ UNCHANGED seen

Show == seen < sent /\ seen' = seen + 1 /\ UNCHANGED sent

Next == Publish \/ Show

Spec == Init /\ [][Next]_vars
=============================================================================
