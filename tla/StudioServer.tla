----------------------------- MODULE StudioServer -----------------------------
(* The studio server's lifecycle: the project session, the jobs that work   *)
(* on the open project under leases, the commands that take none, the       *)
(* runtime hygiene service that follows the session's events with its file  *)
(* watchers, and the graceful shutdown (project-service.ts,                 *)
(* job-registry.ts, runtime-hygiene.ts, render-service.ts, index.ts).       *)
EXTENDS ProjectSession, JobRegistry

CONSTANTS
  Commands,       \* the command requests that may run at once
  Unleased,       \* jobs that take no lease: asset inspection and proxies
  MaxActivations  \* bound: activations waiting in the chain

ASSUME ServerAssumption ==
  /\ Holders = Jobs \ Unleased /\ Unleased \subseteq Jobs
  /\ MaxActivations \in Nat \ {0}

VARIABLES
  command,     \* whether a command is running, on a root it captured
  activations, \* activations in the chain, the running one included
  activating,  \* the root of the running activation, and how far it is
  watching,    \* the project whose directories are watched
  troubled,    \* an activation failed
  shutdown,    \* how far the shutdown is
  awaiting     \* what it waits for: activations, or jobs it cancelled

hygiene == <<activations, activating, watching, troubled>>
stopping == <<shutdown, awaiting>>
vars == <<sessionVars, jobVars, command, hygiene, stopping>>

NoActivation == [root |-> None, step |-> "none"]

Init ==
  /\ SessionInit /\ JobInit
  /\ command = [c \in Commands |-> FALSE]
  /\ activations = 0 /\ activating = NoActivation /\ watching = None
  /\ troubled = FALSE /\ shutdown = "no" /\ awaiting = [count |-> 0, jobs |-> {}]

(* Requests come in until the listening socket is closed. *)
Serving == shutdown = "no"

(* The hygiene service listens to the session until it drains. *)
Subscribed == shutdown \in {"no", "activation"}

(* An event of the session other than project.closed schedules activations. *)
Schedule(n) ==
  /\ activations + n <= MaxActivations \/ ~Subscribed
  /\ activations' = IF Subscribed THEN activations + n ELSE activations
  /\ UNCHANGED <<activating, watching, troubled>>

(* project.closed ends the watching; an activation in progress goes on. *)
ClosedEvent ==
  /\ watching' = IF Subscribed THEN None ELSE watching
  /\ UNCHANGED <<activations, activating, troubled>>

-----------------------------------------------------------------------------
(* Requests.                                                               *)

RequestTransition(kind, target) ==
  /\ Serving
  /\ IF kind = "close" THEN target = None /\ openRoot # None ELSE target # None
  /\ BeginTransition(kind, target)
  /\ UNCHANGED <<jobVars, command, hygiene, stopping>>

Closes ==
  /\ ProjectCloses /\ ClosedEvent
  /\ UNCHANGED <<jobVars, command, stopping>>

Opens ==
  /\ ProjectOpens
  /\ Schedule(IF transition.kind = "create" THEN 2 ELSE 1)
  /\ UNCHANGED <<jobVars, command, stopping>>

Returns ==
  /\ TransitionReturns
  /\ UNCHANGED <<jobVars, command, hygiene, stopping>>

(* The transition is over with an error, also for a shutdown that began it. *)
Fails ==
  /\ TransitionFails
  /\ shutdown' = IF shutdown = "closing" THEN "failed" ELSE shutdown
  /\ UNCHANGED <<jobVars, command, hygiene, awaiting>>

(* A request takes the lease under which it, and the job it may enqueue,    *)
(* works.  (It has no entry yet.)                                           *)
Prepare(j) ==
  /\ Serving /\ j \in Holders
  /\ status[j] = "absent" /\ task[j] = "none"
  /\ AcquireLease(j)
  /\ UNCHANGED <<jobVars, command, hygiene, stopping>>

Prepared(j) == j \in Holders /\ leases[j] # None /\ task[j] = "none"

(* The job is enqueued, under its lease or as one that takes none. *)
StartJob(j) ==
  /\ IF j \in Unleased THEN Serving /\ RootIsReadable ELSE Prepared(j)
  /\ Enqueue(j)
  /\ UNCHANGED <<sessionVars, command, hygiene, stopping>>

X_PreparationEnds(j) ==  \* a preparation that fails keeps its lease
  Prepared(j) /\ UNCHANGED vars

(* A request that enqueues nothing, or fails, releases its lease. *)
PreparationEnds(j) ==
  /\ Prepared(j) /\ ReleaseLease(j)
  /\ UNCHANGED <<openRoot, transition, jobVars, command, hygiene, stopping>>

(* The task ends, in whatever way, and releases its lease. *)
TaskEnds(j) ==
  /\ TaskReturns(j) \/ TaskThrows(j)
  /\ IF j \in Holders THEN ReleaseLease(j) ELSE UNCHANGED leases
  /\ UNCHANGED <<openRoot, transition, command, hygiene, stopping>>

CancelJob(j) ==
  /\ Serving /\ status[j] = "running" /\ Cancel({j})
  /\ UNCHANGED <<sessionVars, command, hygiene, stopping>>

ClearJobs ==
  /\ Serving /\ ClearCompleted
  /\ UNCHANGED <<sessionVars, command, hygiene, stopping>>

(* A command captures the root and runs, without a lease. *)
StartCommand(c) ==
  /\ Serving /\ ~command[c] /\ RootIsReadable
  /\ command' = [command EXCEPT ![c] = TRUE]
  /\ UNCHANGED <<sessionVars, jobVars, hygiene, stopping>>

(* It has been executed and its project.command event is emitted, or it     *)
(* failed before that.                                                      *)
CommandEnds(c) ==
  /\ command[c]
  /\ command' = [command EXCEPT ![c] = FALSE]
  /\ Schedule(1) \/ UNCHANGED hygiene
  /\ UNCHANGED <<sessionVars, jobVars, stopping>>

-----------------------------------------------------------------------------
(* The hygiene service's chain of activations.                             *)

X_BeginActivation ==  \* the project that was open when it was scheduled
  /\ activations > 0 /\ activating = NoActivation
  /\ RootIsReadable
  /\ activating' = [root |-> IF watching = None THEN openRoot ELSE watching,
                    step |-> "preflight"]
  /\ UNCHANGED <<activations, watching, troubled, sessionVars, jobVars, command, stopping>>

BeginActivation ==
  /\ activations > 0 /\ activating = NoActivation
  /\ RootIsReadable
  /\ activating' = [root |-> openRoot, step |-> "preflight"]
  /\ UNCHANGED <<activations, watching, troubled, sessionVars, jobVars, command, stopping>>

(* The old watchers are replaced by those of the activation's project, one  *)
(* directory after the other.                                               *)
BeginWatching ==
  /\ activating.step = "preflight"
  /\ watching' = activating.root
  /\ activating' = [activating EXCEPT !.step = "watch"]
  /\ UNCHANGED <<activations, troubled, sessionVars, jobVars, command, stopping>>

(* Its promise settles: the next one may begin, and so may a shutdown that  *)
(* waits for it.                                                            *)
ActivationSettles ==
  /\ activating' = NoActivation /\ activations' = activations - 1
  /\ awaiting' = [awaiting EXCEPT
       !.count = IF shutdown = "activation" /\ @ > 0 THEN @ - 1 ELSE @]
  /\ UNCHANGED <<sessionVars, jobVars, command, shutdown>>

FinishWatching ==
  /\ activating.step = "watch"
  /\ watching' = activating.root
  /\ ActivationSettles /\ UNCHANGED troubled

(* No project is readable, or a file operation fails, before or after the   *)
(* watchers were replaced.                                                  *)
ActivationFails ==
  /\ activations > 0
  /\ activating = NoActivation => ~RootIsReadable
  /\ troubled' = TRUE
  /\ ActivationSettles /\ UNCHANGED watching

-----------------------------------------------------------------------------
(* The graceful shutdown: activations, jobs, project.                      *)

BeginShutdown ==
  /\ Serving
  /\ shutdown' = "activation"
  /\ awaiting' = [awaiting EXCEPT !.count = activations]
  /\ UNCHANGED <<sessionVars, jobVars, command, hygiene>>

(* The chain as it was has settled: every running job is cancelled, and     *)
(* their tasks awaited; a task that was cancelled before is not.            *)
Drain ==
  /\ shutdown = "activation" /\ awaiting.count = 0
  /\ Cancel(Jobs)
  /\ awaiting' = [awaiting EXCEPT !.jobs = {j \in Jobs : status[j] = "running"}]
  /\ watching' = None /\ shutdown' = "jobs"
  /\ UNCHANGED <<sessionVars, command, activations, activating, troubled>>

Drained == \A j \in awaiting.jobs : task[j] = "none"

(* The project is closed, unless a transition or a lease forbids it. *)
CloseProject ==
  /\ shutdown = "jobs" /\ Drained
  /\ IF ~TransitionAllowed
       THEN shutdown' = "failed" /\ UNCHANGED sessionVars
     ELSE IF openRoot = None
       THEN shutdown' = "done" /\ UNCHANGED sessionVars
     ELSE shutdown' = "closing" /\ BeginTransition("close", None)
  /\ UNCHANGED <<jobVars, command, hygiene, awaiting>>

ShutdownDone ==
  /\ shutdown = "closing" /\ ~InTransition
  /\ shutdown' = "done"
  /\ UNCHANGED <<sessionVars, jobVars, command, hygiene, awaiting>>

ShutdownStep == Drain \/ CloseProject \/ ShutdownDone

-----------------------------------------------------------------------------
TransitionStep == Closes \/ Opens \/ Returns \/ Fails
ActivationStep == BeginActivation \/ BeginWatching \/ FinishWatching \/ ActivationFails
JobStep(j) == StartJob(j) \/ PreparationEnds(j) \/ TaskEnds(j)

Next ==
  \/ \E k \in {"open", "create", "close"}, r \in Roots \cup {None} :
       RequestTransition(k, r)
  \/ TransitionStep
  \/ \E j \in Jobs : Prepare(j) \/ JobStep(j) \/ CancelJob(j)
  \/ ClearJobs
  \/ \E c \in Commands : StartCommand(c) \/ CommandEnds(c)
  \/ ActivationStep
  \/ BeginShutdown \/ ShutdownStep

Spec == Init /\ [][Next]_vars

(* Awaited calls settle, tasks come to an end, the chain and the shutdown   *)
(* go on; nobody has to make a request.                                     *)
FairSpec ==
  /\ Spec
  /\ WF_vars(TransitionStep) /\ WF_vars(ActivationStep) /\ WF_vars(ShutdownStep)
  /\ \A j \in Jobs : WF_vars(PreparationEnds(j)) /\ WF_vars(TaskEnds(j))
  /\ \A c \in Commands : WF_vars(CommandEnds(c))

-----------------------------------------------------------------------------
(* Every variable has its type, an activation runs only while it is in the  *)
(* chain, and the shutdown waits only for activations in it.                *)
TypeOK ==
  /\ SessionTypeOK /\ JobTypeOK
  /\ command \in [Commands -> BOOLEAN]
  /\ activations \in 0..MaxActivations
  /\ activating \in [root : Roots \cup {None}, step : {"none", "preflight", "watch"}]
  /\ activating # NoActivation => activations > 0
  /\ watching \in Roots \cup {None} /\ troubled \in BOOLEAN
  /\ shutdown \in {"no", "activation", "jobs", "closing", "done", "failed"}
  /\ awaiting \in [count : 0..activations, jobs : SUBSET Jobs]

(* When nothing is on its way, the watchers are those of the open project:  *)
(* closings, openings, late commands and activations that outlive their     *)
(* project never leave another one's watchers in their place (unless an     *)
(* activation failed).                                                      *)
WatchersFollowProject ==
  openRoot # None /\ ~InTransition /\ activations = 0 /\ ~troubled /\ Subscribed
    => watching = openRoot

(* A shutdown that reports success leaves no project open and no leased     *)
(* work behind it: none of the tasks that write into the project is still   *)
(* running.                                                                 *)
ShutdownIsClean ==
  shutdown = "done" =>
    /\ openRoot = None
    /\ \A j \in Holders : task[j] = "none" /\ leases[j] = None

(* The shutdown comes to an end, done or failed, whatever was going on when *)
(* it began.                                                                *)
ShutdownEnds == shutdown = "activation" ~> shutdown \in {"done", "failed"}

(* Leases are not leaked: once requests have stopped coming, the last of    *)
(* them is released.                                                        *)
LeasesAreReleased == ~Serving ~> ~LeasesActive

(* Watchers, leases and tasks last as long as the project they are for.     *)
NothingOutlivesItsProject == TypeOK /\ WatchersFollowProject /\ ShutdownIsClean

(* A shutdown ends, and so does what holds a lease.                         *)
WorkEnds == ShutdownEnds /\ LeasesAreReleased
=============================================================================
