---------------------------- MODULE ProjectSession ----------------------------
(* The project session of the studio server (project-service.ts): which     *)
(* project is open, the transition that changes it, and the operation       *)
(* leases that keep it from changing.                                       *)
EXTENDS Naturals

CONSTANTS Roots, Holders, None

ASSUME SessionAssumption == None \notin Roots

VARIABLES
  openRoot,   \* the open project
  transition, \* the open, create or close in progress
  leases      \* what each holder of an operation lease has leased

sessionVars == <<openRoot, transition, leases>>

NoTransition == [kind |-> "none", target |-> None, step |-> "none"]

SessionInit ==
  /\ openRoot = None /\ transition = NoTransition
  /\ leases = [h \in Holders |-> None]

InTransition == transition # NoTransition
LeasesActive == \E h \in Holders : leases[h] # None

X_RootIsReadable == openRoot # None  \* whatever transition is in progress

(* requireOpenRoot finds a project: during a transition only once the new   *)
(* one is open.                                                             *)
RootIsReadable ==
  /\ openRoot # None
  /\ InTransition => transition.step = "opened"

AcquireLease(h) ==
  /\ RootIsReadable /\ leases[h] = None
  /\ leases' = [leases EXCEPT ![h] = openRoot]
  /\ UNCHANGED <<openRoot, transition>>

(* Releasing twice has no effect. *)
ReleaseLease(h) == leases' = [leases EXCEPT ![h] = None]

(* A transition is refused during another, or while a lease is active. *)
TransitionAllowed == ~InTransition /\ ~LeasesActive

(* Open, create or close is called; another project is closed first, and    *)
(* closing none is over at once.                                            *)
BeginTransition(kind, target) ==
  /\ TransitionAllowed
  /\ transition' =
       [kind |-> kind, target |-> target,
        step |-> IF openRoot \in {None, target} THEN "loading" ELSE "closing"]
  /\ UNCHANGED <<openRoot, leases>>

(* The open project is marked as cleanly shut down, and is open no more     *)
(* (project.closed).                                                        *)
ProjectCloses ==
  /\ transition.step = "closing"
  /\ openRoot' = None
  /\ transition' = IF transition.kind = "close" THEN NoTransition
                   ELSE [transition EXCEPT !.step = "loading"]
  /\ UNCHANGED leases

(* The target has been loaded and is open (project.opened, and for a new    *)
(* one project.created).                                                    *)
ProjectOpens ==
  /\ transition.step = "loading"
  /\ openRoot' = transition.target
  /\ transition' = [transition EXCEPT !.step = "opened"]
  /\ UNCHANGED leases

(* The call returns to its caller. *)
TransitionReturns ==
  /\ transition.step = "opened"
  /\ transition' = NoTransition
  /\ UNCHANGED <<openRoot, leases>>

(* Marking or loading fails: a project that was closed stays closed. *)
TransitionFails ==
  /\ transition.step \in {"closing", "loading"}
  /\ transition' = NoTransition
  /\ UNCHANGED <<openRoot, leases>>

SessionTypeOK ==
  /\ openRoot \in Roots \cup {None}
  /\ leases \in [Holders -> Roots \cup {None}]
  /\ transition \in [kind : {"none", "open", "create", "close"},
                     target : Roots \cup {None},
                     step : {"none", "closing", "loading", "opened"}]
  /\ transition.step = "closing" => openRoot # None

(* What is done under a lease is done to the open project: it can neither   *)
(* be closed nor replaced before the lease is released, even if that is     *)
(* after the job was cancelled and forgotten.                               *)
LeasePinsProject == \A h \in Holders : leases[h] # None => leases[h] = openRoot
=============================================================================
