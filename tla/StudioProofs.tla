----------------------------- MODULE StudioProofs -----------------------------
(* Theorems about the studio, one part after the other: the server's        *)
(* lifecycle, for any number of projects, jobs, commands and activations,   *)
(* and its web client, for any ring, any number of events, edits, commands  *)
(* of others, cuts and failing requests.                                    *)
EXTENDS StudioServer, StudioClient, TLAPS

-----------------------------------------------------------------------------
(* The server.                                                              *)

(* Only a shutdown that still lets activations run counts them.             *)
CountInv == awaiting.count > 0 => shutdown = "activation"

(* Leases are for the open project, there is none while it changes, and a   *)
(* leased task runs under one.                                              *)
LeaseInv ==
  /\ LeasePinsProject
  /\ transition.step \in {"closing", "loading"} => ~LeasesActive
  /\ \A j \in Holders : task[j] # "none" => leases[j] # None

(* Opening a project puts an activation behind the one that is running, so  *)
(* the last one in the chain is for the project that is open.               *)
WatchInv ==
  Subscribed /\ openRoot # None /\ ~troubled =>
    /\ activations = 0 => watching = openRoot
    /\ activations = 1 /\ activating # NoActivation => activating.root = openRoot

(* A shutdown that closes the project, or is done, works without leases,    *)
(* and the only transition there may be is its own.                         *)
StopInv ==
  /\ shutdown \in {"closing", "done"} => ~LeasesActive
  /\ shutdown = "closing" =>
       \/ transition.kind = "close" /\ transition.step = "closing"
       \/ ~InTransition /\ openRoot = None
  /\ shutdown = "done" => ~InTransition /\ openRoot = None

(* The parts of TypeOK that are not about the session or the jobs.          *)
FlagsTyped == command \in [Commands -> BOOLEAN] /\ troubled \in BOOLEAN
ChainTyped ==
  /\ activations \in 0..MaxActivations
  /\ activating \in [root : Roots \cup {None}, step : {"none", "preflight", "watch"}]
  /\ activating # NoActivation => activations > 0
  /\ watching \in Roots \cup {None}
  /\ shutdown \in {"no", "activation", "jobs", "closing", "done", "failed"}
  /\ awaiting \in [count : 0..activations, jobs : SUBSET Jobs]

Core == SessionTypeOK /\ JobTypeOK /\ ChainTyped /\ CountInv /\ LeaseInv /\ WatchInv /\ StopInv
IInv == FlagsTyped /\ Core

-----------------------------------------------------------------------------
(* A server that has just been started is in order. *)
LEMMA InvInit == Init => IInv
<1> SUFFICES ASSUME Init PROVE IInv
  OBVIOUS
<1> USE SessionAssumption, ServerAssumption
    DEF Init, SessionInit, JobInit, NoTransition, NoActivation
<1>1. FlagsTyped
  BY Zenon DEF FlagsTyped
<1>2. SessionTypeOK /\ JobTypeOK
  BY DEF SessionTypeOK, JobTypeOK
<1>3. ChainTyped
  BY DEF ChainTyped
<1>4. CountInv /\ LeaseInv /\ WatchInv /\ StopInv
  BY DEF CountInv, LeaseInv, LeasePinsProject, LeasesActive, WatchInv, StopInv
<1> QED
  BY <1>1, <1>2, <1>3, <1>4 DEF IInv, Core

(* An activation that settles is counted down wherever it was counted. *)
LEMMA SettledOnce ==
  ASSUME ChainTyped, CountInv, activations > 0, ActivationSettles, ServerAssumption
  PROVE  /\ activations' \in 0..MaxActivations
         /\ awaiting' \in [count : 0..activations', jobs : SUBSET Jobs]
         /\ CountInv'
<1>1. activations' \in 0..MaxActivations /\ activations' = activations - 1
  BY DEF ActivationSettles, ChainTyped, ServerAssumption
<1>2. awaiting.count \in 0..activations /\ awaiting.jobs \in SUBSET Jobs
  BY DEF ChainTyped
<1>3. awaiting' = [count |-> IF shutdown = "activation" /\ awaiting.count > 0
                             THEN awaiting.count - 1 ELSE awaiting.count,
                   jobs |-> awaiting.jobs]
  BY DEF ActivationSettles, ChainTyped
<1>4. awaiting'.count \in 0..activations' /\ (awaiting'.count > 0 => shutdown = "activation")
  BY <1>1, <1>2, <1>3 DEF ChainTyped, CountInv
<1> QED
  BY <1>1, <1>2, <1>3, <1>4 DEF CountInv, ActivationSettles

(* No step breaks it. *)
LEMMA CoreKept == Core /\ [Next]_vars => Core'
<1> SUFFICES ASSUME Core, [Next]_vars PROVE Core'
  OBVIOUS
<1> USE SessionAssumption, ServerAssumption
    DEF Core, SessionTypeOK, JobTypeOK, ChainTyped, CountInv, LeaseInv, LeasePinsProject, LeasesActive,
        WatchInv, StopInv, Subscribed, InTransition, NoTransition, NoActivation, Terminal,
        sessionVars, jobVars
<1>1. ASSUME NEW k \in {"open", "create", "close"}, NEW r \in Roots \cup {None},
             RequestTransition(k, r)
      PROVE Core'
  BY <1>1 DEF RequestTransition, Serving, BeginTransition, TransitionAllowed, hygiene, stopping
<1>2. CASE Closes
  BY <1>2 DEF Closes, ProjectCloses, ClosedEvent, stopping
<1>3. CASE Opens
  BY <1>3 DEF Opens, ProjectOpens, Schedule, stopping
<1>4. CASE Returns
  BY <1>4 DEF Returns, TransitionReturns, hygiene, stopping
<1>5. CASE Fails
  BY <1>5 DEF Fails, TransitionFails, hygiene
<1>6. ASSUME NEW j \in Jobs, Prepare(j) PROVE Core'
  BY <1>6 DEF Prepare, AcquireLease, RootIsReadable, Serving, hygiene, stopping
<1>7. ASSUME NEW j \in Jobs, StartJob(j) PROVE Core'
  BY <1>7 DEF StartJob, Prepared, Enqueue, Serving, RootIsReadable, hygiene, stopping
<1>8. ASSUME NEW j \in Jobs, PreparationEnds(j) PROVE Core'
  BY <1>8 DEF PreparationEnds, Prepared, ReleaseLease, hygiene, stopping
<1>9. ASSUME NEW j \in Jobs, TaskEnds(j) PROVE Core'
  BY <1>9 DEF TaskEnds, TaskReturns, TaskThrows, ReleaseLease, hygiene, stopping
<1>10. ASSUME NEW j \in Jobs, CancelJob(j) PROVE Core'
  BY <1>10 DEF CancelJob, Cancel, hygiene, stopping
<1>11. CASE ClearJobs
  BY <1>11 DEF ClearJobs, ClearCompleted, hygiene, stopping
<1>12. ASSUME NEW c \in Commands, StartCommand(c) PROVE Core'
  BY <1>12 DEF StartCommand, hygiene, stopping
<1>13. ASSUME NEW c \in Commands, CommandEnds(c) PROVE Core'
  BY <1>13 DEF CommandEnds, Schedule, hygiene, stopping
<1>14. CASE BeginActivation
  BY <1>14 DEF BeginActivation, RootIsReadable, stopping
<1>15. CASE BeginWatching
  BY <1>15 DEF BeginWatching, stopping
<1>16. CASE FinishWatching
  <2>1. activations > 0
    BY <1>16 DEF FinishWatching
  <2>2. ChainTyped' /\ CountInv'
    BY <1>16, <2>1, SettledOnce DEF FinishWatching, ActivationSettles
  <2>3. WatchInv'
    BY <1>16, <2>1 DEF FinishWatching, ActivationSettles
  <2> QED
    BY <1>16, <2>2, <2>3 DEF FinishWatching, ActivationSettles
<1>17. CASE ActivationFails
  <2>1. ChainTyped' /\ CountInv'
    BY <1>17, SettledOnce DEF ActivationFails, ActivationSettles
  <2> QED
    BY <1>17, <2>1 DEF ActivationFails, ActivationSettles
<1>18. CASE BeginShutdown
  BY <1>18 DEF BeginShutdown, Serving, hygiene
<1>19. CASE Drain
  BY <1>19 DEF Drain, Cancel
<1>20. CASE CloseProject
  BY <1>20 DEF CloseProject, BeginTransition, TransitionAllowed, hygiene
<1>21. CASE ShutdownDone
  BY <1>21 DEF ShutdownDone, hygiene
<1>22. CASE UNCHANGED vars
  BY <1>22 DEF vars, hygiene, stopping
<1> QED
  BY <1>1, <1>2, <1>3, <1>4, <1>5, <1>6, <1>7, <1>8, <1>9, <1>10, <1>11, <1>12, <1>13, <1>14, <1>15, <1>16, <1>17, <1>18, <1>19, <1>20, <1>21, <1>22 DEF Next, TransitionStep, ActivationStep, JobStep, ShutdownStep

(* The flags are flags. *)
LEMMA FlagsKept == FlagsTyped /\ [Next]_vars => FlagsTyped'
<1> SUFFICES ASSUME FlagsTyped, [Next]_vars PROVE FlagsTyped'
  OBVIOUS
<1> USE DEF FlagsTyped
<1>1. ASSUME NEW c \in Commands, StartCommand(c) \/ CommandEnds(c)
      PROVE FlagsTyped'
  <2>1. command' \in [Commands -> BOOLEAN]
    BY <1>1, Zenon DEF StartCommand, CommandEnds
  <2>2. troubled' = troubled
    BY <1>1 DEF StartCommand, CommandEnds, Schedule, hygiene
  <2> QED
    BY <2>1, <2>2, Zenon
<1>2. CASE ActivationFails
  BY <1>2, Zenon DEF ActivationFails, ActivationSettles
<1>3. CASE UNCHANGED <<command, troubled>>
  BY <1>3, Zenon
<1>4. [Next]_vars => \/ \E c \in Commands : StartCommand(c) \/ CommandEnds(c)
                    \/ ActivationFails
                    \/ UNCHANGED <<command, troubled>>
  BY DEF Next, vars, hygiene, TransitionStep, ActivationStep, JobStep, ShutdownStep,
         RequestTransition, Closes, ClosedEvent, Opens, Schedule, Returns, Fails, Prepare, StartJob,
         PreparationEnds, TaskEnds, CancelJob, ClearJobs, BeginActivation, BeginWatching,
         FinishWatching, ActivationSettles, BeginShutdown, Drain, CloseProject, ShutdownDone
<1> QED
  BY <1>1, <1>2, <1>3, <1>4

(* The server stays in order: jobs and leases have their types, leases are  *)
(* for the project that is open, the last activation of the chain is for    *)
(* it too, and a shutdown that closes the project has waited for leases.    *)
THEOREM Invariant == Spec => []IInv
<1>1. Init => IInv
  BY InvInit
<1>2. IInv /\ [Next]_vars => IInv'
  BY CoreKept, FlagsKept DEF IInv
<1> QED
  BY <1>1, <1>2, PTL DEF Spec

-----------------------------------------------------------------------------
(* What is done under a lease is done to the open project, whoever opens,   *)
(* closes and creates projects meanwhile (#withSessionTransition refuses).  *)
THEOREM LeasesPin == Spec => []LeasePinsProject
BY Invariant, PTL DEF IInv, Core, LeaseInv

(* The watchers settle on the open project, and a shutdown that reports     *)
(* success leaves no project open and no leased task behind.                *)
THEOREM NothingOutlives == Spec => []NothingOutlivesItsProject
<1>1. IInv => TypeOK
  BY Zenon DEF IInv, Core, FlagsTyped, ChainTyped, TypeOK
<1>2. IInv => WatchersFollowProject
  BY DEF IInv, Core, WatchInv, WatchersFollowProject
<1>3. IInv => ShutdownIsClean
  BY DEF IInv, Core, StopInv, LeaseInv, LeasesActive, ShutdownIsClean
<1> QED
  BY <1>1, <1>2, <1>3, Invariant, PTL DEF NothingOutlivesItsProject

(* Late completions, failures and cancellations change no job that has      *)
(* ended.                                                                   *)
THEOREM TerminalStays == Spec => TerminalIsFinal
<1>1. IInv /\ [Next]_vars => [\A j \in Jobs : status[j] \in Terminal =>
                                status'[j] \in {status[j], "absent"}]_jobVars
  <2> SUFFICES ASSUME JobTypeOK, [Next]_vars, NEW j \in Jobs, status[j] \in Terminal
               PROVE  status'[j] \in {status[j], "absent"} \/ UNCHANGED jobVars
    BY DEF IInv, Core
  <2> USE DEF JobTypeOK, Terminal
  <2>1. ASSUME NEW i \in Jobs, StartJob(i) PROVE status'[j] = status[j]
    BY <2>1 DEF StartJob, Enqueue
  <2>2. ASSUME NEW i \in Jobs, TaskEnds(i) PROVE status'[j] = status[j]
    BY <2>2 DEF TaskEnds, TaskReturns, TaskThrows
  <2>3. CASE ClearJobs
    BY <2>3 DEF ClearJobs, ClearCompleted
  <2>4. ASSUME NEW i \in Jobs, CancelJob(i) PROVE status'[j] = status[j]
    BY <2>4 DEF CancelJob, Cancel
  <2>5. CASE Drain
    BY <2>5 DEF Drain, Cancel
  <2>6. \/ UNCHANGED jobVars \/ ClearJobs \/ Drain
        \/ \E i \in Jobs : StartJob(i) \/ TaskEnds(i) \/ CancelJob(i)
    BY DEF Next, vars, TransitionStep, ActivationStep, JobStep, ShutdownStep, RequestTransition,
           Closes, Opens, Returns, Fails, Prepare, PreparationEnds, StartCommand, CommandEnds,
           BeginActivation, BeginWatching, FinishWatching, ActivationFails, ActivationSettles,
           BeginShutdown, CloseProject, ShutdownDone
  <2> QED
    BY <2>1, <2>2, <2>3, <2>4, <2>5, <2>6
<1> QED
  BY <1>1, Invariant, PTL DEF Spec, TerminalIsFinal

-----------------------------------------------------------------------------
(* The web client.                                                          *)

(* The parts of ClientTypeOK: the queue of resyncs and the edit it holds    *)
(* up, and the rest.                                                        *)
Bounds == {"news", "edits", "cuts", "errors"}
ServerTyped ==
  /\ authority \in Nat \ {0} /\ unannounced \subseteq Nat
  /\ log \in Seq({"project", "other"})
  /\ spent \in [Bounds -> Nat]
ViewTyped ==
  /\ fetched \in [project : Nat, revisions : Nat]
  /\ view \in [revision : Nat, number : Nat, timeline : Nat]
EditTyped ==
  /\ edit \in [step : {"idle", "read", "send", "accepted", "stale", "shown"},
               base : Nat, result : Nat, attempt : 0..2]
  /\ edit.step = "read" => edit.attempt < 2
QueueTyped ==
  /\ resyncs \in Seq({"page", "event", "edit"})
  /\ edit.step = "shown" <=> \E i \in DOMAIN resyncs : resyncs[i] = "edit"
  /\ \A i, k \in DOMAIN resyncs : resyncs[i] = "edit" /\ resyncs[k] = "edit" => i = k

(* The connection holds the events from some point at or before the cursor  *)
(* up to the last one, without a hole.                                      *)
WireInv ==
  /\ stream \in {"down", "refused", "up"}
  /\ cursor \in 0..Len(log)
  /\ wire \in Seq(Nat)
  /\ IF stream = "up"
       THEN /\ Len(wire) <= Len(log) /\ Len(log) <= cursor + Len(wire)
            /\ \A i \in 1..Len(wire) : wire[i] = Len(log) - Len(wire) + i
       ELSE wire = <<>>

Typed == ServerTyped /\ ViewTyped /\ EditTyped /\ QueueTyped /\ WireInv

(* News of a command that no resync has been queued for yet.                *)
News ==
  \/ unannounced # {}
  \/ \E i \in (cursor + 1)..Len(log) : log[i] = "project"

(* What the running resync has fetched is not older than what is shown, and *)
(* older than authority only when there will be another resync.             *)
FetchInv ==
  /\ fetched # NothingFetched => resyncs # <<>>
  /\ \A v \in {fetched.project, fetched.revisions} :
       v \notin {NotYet, authority} => News \/ Len(resyncs) > 1
  /\ view.revision <= authority /\ fetched.project <= authority
  /\ fetched.project # NotYet => view.revision <= fetched.project

FreshInv == Shown(authority) \/ News \/ resyncs # <<>> \/ spent.errors > 0

ClientInv == Typed /\ FetchInv /\ FreshInv

-----------------------------------------------------------------------------
(* A page that has just been loaded is in order. *)
LEMMA ClientInvInit == ClientInit => ClientInv
<1> SUFFICES ASSUME ClientInit PROVE ClientInv
  OBVIOUS
<1> USE DEF ClientInit, NoEdit, NothingFetched, Nothing, NotYet
<1>1. PICK n \in 1..(Backlog + 1) : log = [i \in 1..n |-> "other"]
  OBVIOUS
<1>2. log \in Seq({"project", "other"}) /\ Len(log) = n /\ n \in Nat
  BY <1>1, ClientAssumption
<1>3. ServerTyped
  BY <1>2 DEF ServerTyped, Bounds
<1>4. ViewTyped /\ EditTyped
  BY DEF ViewTyped, EditTyped
<1>5. QueueTyped
  BY DEF QueueTyped
<1>6. WireInv
  BY <1>2 DEF WireInv
<1>7. FetchInv /\ FreshInv
  BY DEF FetchInv, FreshInv
<1> QED
  BY <1>3, <1>4, <1>5, <1>6, <1>7 DEF ClientInv, Typed

(* Using up a bound keeps the others, and errors are never forgotten. *)
LEMMA SpendKept ==
  ASSUME ServerTyped, NEW what \in Bounds, NEW bound, Spend(what, bound)
  PROVE  spent' \in [Bounds -> Nat] /\ spent'.errors >= spent.errors
         /\ (what = "errors" => spent'.errors > 0)
BY DEF ServerTyped, Bounds, Spend

(* One more resync that is not an edit's waits behind the others. *)
LEMMA QueueEvent ==
  ASSUME QueueTyped, resyncs' = Append(resyncs, "event"), UNCHANGED edit
  PROVE  QueueTyped'
<1> DEFINE n == Len(resyncs)
<1>1. n \in Nat /\ DOMAIN resyncs = 1..n /\ resyncs' \in Seq({"page", "event", "edit"})
      /\ DOMAIN resyncs' = 1..(n + 1)
  BY DEF QueueTyped
<1>2. \A i \in 1..n : resyncs'[i] = resyncs[i]
  BY DEF QueueTyped
<1>3. resyncs'[n + 1] = "event"
  BY DEF QueueTyped
<1>4. \A i \in 1..(n + 1) : resyncs'[i] = "edit" => i \in 1..n /\ resyncs[i] = "edit"
  BY <1>1, <1>2, <1>3
<1>5. \A i \in 1..n : resyncs[i] = "edit" => i \in 1..(n + 1) /\ resyncs'[i] = "edit"
  BY <1>1, <1>2
<1> HIDE DEF n
<1> QED
  BY <1>1, <1>4, <1>5 DEF QueueTyped

(* An edit that is shown waits behind them, the only one of its kind. *)
LEMMA QueueEdit ==
  ASSUME QueueTyped, EditTyped, edit.step # "shown",
         resyncs' = Append(resyncs, "edit"), edit' = [edit EXCEPT !.step = "shown"]
  PROVE  QueueTyped'
<1> DEFINE n == Len(resyncs)
<1>1. n \in Nat /\ DOMAIN resyncs = 1..n /\ resyncs' \in Seq({"page", "event", "edit"})
      /\ DOMAIN resyncs' = 1..(n + 1) /\ edit'.step = "shown"
  BY DEF QueueTyped, EditTyped
<1>2. \A i \in 1..n : resyncs'[i] = resyncs[i] /\ resyncs[i] # "edit"
  BY <1>1 DEF QueueTyped
<1>3. resyncs'[n + 1] = "edit"
  BY DEF QueueTyped
<1>4. \A i \in 1..(n + 1) : resyncs'[i] = "edit" <=> i = n + 1
  BY <1>1, <1>2, <1>3
<1>5. n + 1 \in 1..(n + 1)
  BY <1>1
<1> HIDE DEF n
<1> QED
  BY <1>1, <1>4, <1>5 DEF QueueTyped

(* The resync that ends leaves the queue, with the edit that waited for it. *)
LEMMA QueueFinish ==
  ASSUME QueueTyped, EditTyped, resyncs # <<>>, FinishResync
  PROVE  QueueTyped' /\ EditTyped'
<1> DEFINE n == Len(resyncs)
<1>1. n \in Nat \ {0} /\ DOMAIN resyncs = 1..n /\ resyncs' \in Seq({"page", "event", "edit"})
      /\ DOMAIN resyncs' = 1..(n - 1) /\ Head(resyncs) = resyncs[1]
  BY DEF QueueTyped, FinishResync
<1>2. \A i \in 1..(n - 1) : resyncs'[i] = resyncs[i + 1] /\ i + 1 \in 1..n
  BY <1>1 DEF QueueTyped, FinishResync
<1>3. EditTyped'
  BY DEF EditTyped, FinishResync, NoEdit
<1>4. CASE resyncs[1] = "edit"
  <2>1. edit'.step = "idle"
    BY <1>1, <1>4 DEF FinishResync, NoEdit
  <2>2. \A i \in 2..n : resyncs[i] # "edit"
    BY <1>1, <1>4 DEF QueueTyped
  <2>3. \A i \in 1..(n - 1) : resyncs'[i] # "edit"
    BY <1>1, <1>2, <2>2
  <2> HIDE DEF n
  <2> QED
    BY <1>1, <1>3, <2>1, <2>3 DEF QueueTyped
<1>5. CASE resyncs[1] # "edit"
  <2>1. edit' = edit
    BY <1>1, <1>5 DEF FinishResync
  <2>2. \A i \in 1..(n - 1) : resyncs'[i] = "edit" => i + 1 \in 1..n /\ resyncs[i + 1] = "edit"
    BY <1>1, <1>2
  <2>3. \A i \in 1..n : resyncs[i] = "edit" =>
             i - 1 \in 1..(n - 1) /\ resyncs'[i - 1] = "edit"
    <3> SUFFICES ASSUME NEW i \in 1..n, resyncs[i] = "edit"
                 PROVE  i - 1 \in 1..(n - 1) /\ resyncs'[i - 1] = "edit"
      OBVIOUS
    <3>1. i # 1 /\ i - 1 \in 1..(n - 1) /\ (i - 1) + 1 = i
      BY <1>1, <1>5
    <3> QED
      BY <1>2, <3>1
  <2>4. edit'.step = "shown" <=> \E i \in DOMAIN resyncs' : resyncs'[i] = "edit"
    BY <1>1, <2>1, <2>2, <2>3 DEF QueueTyped
  <2>5. \A i, k \in DOMAIN resyncs' : resyncs'[i] = "edit" /\ resyncs'[k] = "edit" => i = k
    <3> SUFFICES ASSUME NEW i \in 1..(n - 1), NEW k \in 1..(n - 1),
                        resyncs'[i] = "edit", resyncs'[k] = "edit"
                 PROVE  i = k
      BY <1>1
    <3>1. i + 1 = k + 1
      BY <1>1, <2>2 DEF QueueTyped
    <3> QED
      BY <1>1, <3>1
  <2> QED
    BY <1>1, <1>3, <2>4, <2>5 DEF QueueTyped
<1> QED
  BY <1>3, <1>4, <1>5

(* What a publication adds to the log, and to a connection that is up. *)
LEMMA PublishKept ==
  ASSUME ServerTyped, WireInv, NEW kind \in {"project", "other"}, PublishEvent(kind),
         UNCHANGED <<stream, cursor>>
  PROVE  /\ log' \in Seq({"project", "other"}) /\ Len(log') = Len(log) + 1
         /\ \A i \in 1..Len(log) : log'[i] = log[i]
         /\ log'[Len(log) + 1] = kind
         /\ WireInv'
<1>1. /\ log' \in Seq({"project", "other"}) /\ Len(log') = Len(log) + 1
      /\ \A i \in 1..Len(log) : log'[i] = log[i]
      /\ log'[Len(log) + 1] = kind /\ Len(log) \in Nat
  BY DEF ServerTyped, PublishEvent
<1>2. CASE stream = "up"
  <2>1. wire' = Append(wire, Len(log) + 1) /\ wire \in Seq(Nat) /\ Len(wire) \in Nat
    BY <1>2 DEF PublishEvent, WireInv
  <2>2. wire' \in Seq(Nat) /\ Len(wire') = Len(wire) + 1
    BY <1>1, <2>1
  <2>3. \A i \in 1..Len(wire') : wire'[i] = IF i <= Len(wire) THEN wire[i] ELSE Len(log) + 1
    BY <1>1, <2>1, <2>2
  <2>4. \A i \in 1..Len(wire) : wire[i] = Len(log) - Len(wire) + i
    BY <1>2 DEF WireInv
  <2>5. \A i \in 1..Len(wire') : wire'[i] = Len(log') - Len(wire') + i
    <3> SUFFICES ASSUME NEW i \in 1..(Len(wire) + 1)
                 PROVE  wire'[i] = Len(log') - Len(wire') + i
      BY <2>2
    <3>1. CASE i = Len(wire) + 1
      BY <1>1, <2>1, <2>2, <2>3, <3>1
    <3>2. CASE i \in 1..Len(wire)
      BY <1>1, <2>1, <2>2, <2>3, <2>4, <3>2
    <3> QED
      BY <2>1, <3>1, <3>2
  <2> QED
    BY <1>1, <1>2, <2>1, <2>2, <2>5 DEF WireInv
<1>3. CASE stream # "up"
  BY <1>1, <1>3 DEF PublishEvent, WireInv
<1> QED
  BY <1>1, <1>2, <1>3

(* The next event that is read follows the cursor, or has been read. *)
LEMMA NextEvent ==
  ASSUME ServerTyped, WireInv, wire # <<>>, wire' = Tail(wire), UNCHANGED <<stream, log>>,
         cursor' = IF Head(wire) <= cursor THEN cursor ELSE Head(wire)
  PROVE  /\ WireInv' /\ Head(wire) \in 1..Len(log)
         /\ Head(wire) > cursor => Head(wire) = cursor + 1
<1>1. Len(wire) \in Nat \ {0} /\ Head(wire) = wire[1] /\ Len(log) \in Nat /\ stream = "up"
  BY DEF WireInv, ServerTyped
<1>2. Head(wire) = Len(log) - Len(wire) + 1
  BY <1>1 DEF WireInv
<1>3. /\ wire' \in Seq(Nat) /\ Len(wire') = Len(wire) - 1
      /\ \A i \in 1..Len(wire') : wire'[i] = wire[i + 1] /\ i + 1 \in 1..Len(wire)
  BY <1>1 DEF WireInv
<1>4. \A i \in 1..Len(wire') : wire'[i] = Len(log') - Len(wire') + i
  <2>1. \A i \in 1..Len(wire) : wire[i] = Len(log) - Len(wire) + i
    BY <1>1 DEF WireInv
  <2> SUFFICES ASSUME NEW i \in 1..Len(wire')
               PROVE  wire'[i] = Len(log) - Len(wire') + i
    OBVIOUS
  <2>2. wire'[i] = Len(log) - Len(wire) + (i + 1)
    BY <1>3, <2>1
  <2> QED
    BY <1>1, <1>3, <2>2
<1>5. /\ Head(wire) \in 1..Len(log) /\ (Head(wire) > cursor => Head(wire) = cursor + 1)
      /\ cursor' \in 0..Len(log) /\ Len(log) <= cursor' + Len(wire')
  BY <1>1, <1>2, <1>3 DEF WireInv
<1> QED
  BY <1>1, <1>3, <1>4, <1>5 DEF WireInv

(* What is replayed is what the cursor has not seen, when nothing is lost. *)
LEMMA ReplayWhole ==
  ASSUME ServerTyped, WireInv, ~ReplayGap, stream' = "up", wire' = Replay,
         UNCHANGED <<log, cursor>>
  PROVE  WireInv'
<1>1. Len(log) \in Nat /\ cursor \in 0..Len(log) /\ Earliest \in Nat /\ Earliest <= cursor + 1
  BY ClientAssumption DEF ServerTyped, WireInv, ReplayGap, Earliest
<1>2. wire' = [i \in 1..(Len(log) - (cursor + 1) + 1) |-> (cursor + 1) + i - 1]
  <2>1. (IF cursor + 1 > Earliest THEN cursor + 1 ELSE Earliest) = cursor + 1
    BY <1>1
  <2> QED
    BY <2>1 DEF Replay
<1>3. /\ wire' \in Seq(Nat) /\ Len(wire') = Len(log) - cursor
      /\ \A i \in 1..Len(wire') : wire'[i] = cursor + i
  BY <1>1, <1>2
<1> QED
  BY <1>1, <1>2, <1>3 DEF WireInv

-----------------------------------------------------------------------------
(* Each part keeps its type, whatever happens. *)
LEMMA TypedKept == Typed /\ [ClientNext]_clientVars => Typed'
<1> SUFFICES ASSUME Typed, [ClientNext]_clientVars PROVE Typed'
  OBVIOUS
<1> USE DEF Typed, server, subscription
<1>t. /\ \A w \in Bounds : \A b : Spend(w, b) => spent' \in [Bounds -> Nat]
      /\ {"news", "edits", "cuts", "errors"} = Bounds
  BY SpendKept DEF Bounds
<1>1. CASE CommitElsewhere
  <2>1. spent' \in [Bounds -> Nat]
    BY <1>1, <1>t DEF CommitElsewhere
  <2>2. ServerTyped'
    BY <1>1, <2>1 DEF CommitElsewhere, ServerTyped
  <2> QED
    BY <1>1, <2>2 DEF CommitElsewhere, ViewTyped, EditTyped, QueueTyped, WireInv
<1>2. ASSUME NEW r \in unannounced, Announce(r) PROVE Typed'
  <2>1. log' \in Seq({"project", "other"}) /\ WireInv'
    BY <1>2, PublishKept DEF Announce
  <2> QED
    BY <1>2, <2>1 DEF Announce, ServerTyped, ViewTyped, EditTyped, QueueTyped
<1>3. CASE PublishOther
  <2>1. log' \in Seq({"project", "other"}) /\ WireInv'
    BY <1>3, PublishKept DEF PublishOther
  <2> QED
    BY <1>3, <1>t, <2>1 DEF PublishOther, ServerTyped, ViewTyped, EditTyped, QueueTyped
<1>4. CASE Connect
  <2>1. WireInv'
    BY <1>4, ReplayWhole DEF Connect
  <2> QED
    BY <1>4, <2>1 DEF Connect, ServerTyped, ViewTyped, EditTyped, QueueTyped
<1>5. CASE ConnectRefused
  BY <1>5 DEF ConnectRefused, ServerTyped, ViewTyped, EditTyped, QueueTyped, WireInv
<1>6. CASE Cut
  <2>1. ServerTyped'
    BY <1>6, <1>t DEF Cut, Fault, ServerTyped
  <2> QED
    BY <1>6, <2>1 DEF Cut, ViewTyped, EditTyped, QueueTyped, WireInv
<1>7. CASE Deliver
  <2>1. WireInv'
    BY <1>7, NextEvent DEF Deliver
  <2>2. QueueTyped'
    BY <1>7, QueueEvent DEF Deliver, QueueTyped
  <2> QED
    BY <1>7, <2>1, <2>2 DEF Deliver, ServerTyped, ViewTyped, EditTyped
<1>8. CASE FetchProject
  BY <1>8 DEF FetchProject, ServerTyped, ViewTyped, EditTyped, QueueTyped, WireInv
<1>9. CASE FetchRevisions
  BY <1>9 DEF FetchRevisions, ServerTyped, ViewTyped, EditTyped, QueueTyped, WireInv
<1>10. CASE ApplySnapshot
  <2>1. QueueTyped' /\ EditTyped'
    BY <1>10, QueueFinish DEF ApplySnapshot
  <2> QED
    BY <1>10, <2>1 DEF ApplySnapshot, FinishResync, NothingFetched, NotYet, ServerTyped, ViewTyped, WireInv
<1>11. CASE ResyncFails
  <2>1. QueueTyped' /\ EditTyped'
    BY <1>11, QueueFinish DEF ResyncFails
  <2>2. ServerTyped'
    BY <1>11, <1>t DEF ResyncFails, Fault, ServerTyped
  <2> QED
    BY <1>11, <2>1, <2>2 DEF ResyncFails, FinishResync, NothingFetched, NotYet, ViewTyped, WireInv
<1>12. CASE BeginEdit
  <2>1. ServerTyped'
    BY <1>12, <1>t DEF BeginEdit, ServerTyped
  <2> QED
    BY <1>12, <2>1 DEF BeginEdit, NoEdit, ViewTyped, EditTyped, QueueTyped, WireInv
<1>13. CASE ReadBase
  <2>1. EditTyped' /\ edit.step # "shown" /\ edit'.step # "shown"
    <3>1. edit.step = "read" /\ edit.attempt + 1 \in 0..2 /\ authority \in Nat
      BY <1>13 DEF ReadBase, ServerTyped, EditTyped
    <3>2. CASE edit' = NoEdit
      BY <3>1, <3>2 DEF NoEdit, EditTyped
    <3>3. CASE edit' = [edit EXCEPT !.step = "send", !.base = authority, !.attempt = @ + 1]
      BY <3>1, <3>3 DEF EditTyped
    <3> QED
      BY <1>13, <3>1, <3>2, <3>3 DEF ReadBase
  <2>2. QueueTyped'
    BY <1>13, <2>1 DEF ReadBase, QueueTyped
  <2> QED
    BY <1>13, <2>1, <2>2 DEF ReadBase, ServerTyped, ViewTyped, WireInv
<1>14. CASE ExecuteEdit
  <2>1. EditTyped' /\ edit.step # "shown" /\ edit'.step # "shown"
    <3>1. edit.step = "send" /\ authority + 1 \in Nat
      BY <1>14 DEF ExecuteEdit, ServerTyped
    <3>2. CASE edit' = [edit EXCEPT !.step = "stale"]
      BY <3>1, <3>2 DEF EditTyped
    <3>3. CASE edit' = [edit EXCEPT !.step = "accepted", !.result = authority + 1]
      BY <3>1, <3>3 DEF EditTyped
    <3> QED
      BY <1>14, <3>1, <3>2, <3>3 DEF ExecuteEdit, To
  <2>2. QueueTyped'
    BY <1>14, <2>1 DEF ExecuteEdit, QueueTyped
  <2> QED
    BY <1>14, <2>1, <2>2 DEF ExecuteEdit, ServerTyped, ViewTyped, WireInv
<1>15. CASE EditAccepted
  <2>1. QueueTyped'
    BY <1>15, QueueEdit DEF EditAccepted, To, EditTyped
  <2> QED
    BY <1>15, <2>1 DEF EditAccepted, To, ServerTyped, ViewTyped, EditTyped, WireInv
<1>16. CASE EditStale
  <2>1. EditTyped' /\ edit.step # "shown" /\ edit'.step # "shown"
    BY <1>16 DEF EditStale, To, NoEdit, ServerTyped, EditTyped
  <2>2. QueueTyped'
    BY <1>16, <2>1 DEF EditStale, QueueTyped
  <2> QED
    BY <1>16, <2>1, <2>2 DEF EditStale, ServerTyped, ViewTyped, WireInv
<1>17. CASE EditFails
  <2>1. ServerTyped'
    BY <1>17, <1>t DEF EditFails, Fault, ServerTyped
  <2> QED
    BY <1>17, <2>1 DEF EditFails, NoEdit, ViewTyped, EditTyped, QueueTyped, WireInv
<1>18. CASE UNCHANGED clientVars
  BY <1>18 DEF clientVars, ServerTyped, ViewTyped, EditTyped, QueueTyped, WireInv
<1> QED
  BY <1>1, <1>2, <1>3, <1>4, <1>5, <1>6, <1>7, <1>8, <1>9, <1>10, <1>11, <1>12, <1>13, <1>14, <1>15, <1>16, <1>17, <1>18 DEF ClientNext, EditStep

(* A command that was announced, or will be, is news until a resync is      *)
(* queued for it.                                                           *)
LEMMA NewsKept ==
  ASSUME Typed, News, [ClientNext]_clientVars
  PROVE  \/ News'
         \/ Deliver /\ cursor' = cursor + 1 /\ log[cursor + 1] = "project"
<1> USE DEF News, server, subscription
<1>1. Len(log) \in Nat /\ cursor \in 0..Len(log)
  BY DEF Typed, ServerTyped, WireInv
<1>2. CASE CommitElsewhere
  BY <1>2 DEF CommitElsewhere
<1>3. ASSUME NEW r \in unannounced, Announce(r) PROVE News'
  BY <1>1, <1>3, PublishKept DEF Announce, Typed
<1>4. CASE PublishOther
  BY <1>1, <1>4, PublishKept DEF PublishOther, Typed
<1>5. CASE Deliver
  <2>1. unannounced' = unannounced /\ log' = log /\ (cursor' = cursor \/ cursor' = cursor + 1)
    BY <1>1, <1>5, NextEvent DEF Deliver, Typed
  <2>2. ASSUME NEW i \in (cursor + 1)..Len(log), log[i] = "project",
               ~(cursor' = cursor + 1 /\ log[cursor + 1] = "project")
        PROVE  i \in (cursor' + 1)..Len(log)
    BY <1>1, <2>1, <2>2
  <2>3. CASE unannounced # {}
    BY <2>1, <2>3
  <2>4. ASSUME NEW i \in (cursor + 1)..Len(log), log[i] = "project"
        PROVE  \/ News'
               \/ Deliver /\ cursor' = cursor + 1 /\ log[cursor + 1] = "project"
    BY <1>5, <2>1, <2>2, <2>4
  <2> QED
    BY <2>3, <2>4
<1>6. CASE ExecuteEdit
  BY <1>6 DEF ExecuteEdit
<1>7. CASE UNCHANGED <<unannounced, log, cursor>>
  BY <1>7
<1> QED
  BY <1>2, <1>3, <1>4, <1>5, <1>6, <1>7
     DEF ClientNext, EditStep, clientVars, Connect, ConnectRefused, Cut, FetchProject, FetchRevisions,
         ApplySnapshot, ResyncFails, BeginEdit, ReadBase, EditAccepted, EditStale, EditFails

(* The queue of resyncs grows at its end and shrinks at its head. *)
LEMMA QueueMoves ==
  ASSUME Typed, NEW k \in {"event", "edit"}, resyncs' = Append(resyncs, k)
  PROVE  resyncs' # <<>> /\ Len(resyncs') = Len(resyncs) + 1 /\ Len(resyncs) \in Nat
         /\ (resyncs # <<>> => Len(resyncs') > 1)
BY DEF Typed, QueueTyped

(* A resync never shows something older, and something stale only with a    *)
(* newer one to come.                                                       *)
LEMMA FreshKept == ClientInv /\ [ClientNext]_clientVars => FetchInv' /\ FreshInv'
<1> SUFFICES ASSUME ClientInv, [ClientNext]_clientVars PROVE FetchInv' /\ FreshInv'
  OBVIOUS
<1> USE DEF ClientInv, server, subscription, NothingFetched, NotYet, Shown
<1>t. /\ authority \in Nat \ {0} /\ spent.errors \in Nat
      /\ fetched \in [project : Nat, revisions : Nat]
      /\ view \in [revision : Nat, number : Nat, timeline : Nat]
  BY DEF Typed, ServerTyped, ViewTyped, Bounds
<1>c. cursor \in Nat /\ cursor + 1 # cursor
  BY DEF Typed, ServerTyped, WireInv
<1>e. \A w \in Bounds : \A b : Spend(w, b) => spent'.errors \in Nat /\ spent'.errors >= spent.errors
  BY SpendKept DEF Typed, Bounds
<1>1. CASE CommitElsewhere
  BY <1>1, <1>t DEF CommitElsewhere, FetchInv, FreshInv, News
<1>2. ASSUME NEW r \in unannounced, Announce(r) PROVE FetchInv' /\ FreshInv'
  <2>1. News'
    BY <1>2, NewsKept DEF Announce, News, ClientNext, Deliver, Typed
  <2> QED
    BY <1>2, <2>1 DEF Announce, FetchInv, FreshInv
<1>3. CASE PublishOther
  <2>1. News => News'
    BY <1>3, <1>c, NewsKept DEF PublishOther, ClientNext, Typed
  <2> QED
    BY <1>3, <1>e, <1>t, <2>1 DEF PublishOther, FetchInv, FreshInv, Bounds
<1>4. CASE Connect \/ ConnectRefused \/ BeginEdit \/ ReadBase \/ EditStale \/ UNCHANGED clientVars
  <2>1. /\ UNCHANGED <<authority, unannounced, log, cursor, resyncs, fetched, view>>
        /\ spent'.errors >= spent.errors /\ spent'.errors \in Nat
    BY <1>4, <1>e, <1>t DEF Connect, ConnectRefused, BeginEdit, ReadBase, EditStale, clientVars, Bounds
  <2> QED
    BY <1>t, <2>1 DEF FetchInv, FreshInv, News
<1>5. CASE Cut \/ EditFails
  <2>1. /\ UNCHANGED <<authority, unannounced, log, cursor, resyncs, fetched, view>>
        /\ spent'.errors >= spent.errors /\ spent'.errors \in Nat
    BY <1>5, <1>e, <1>t DEF Cut, EditFails, Fault, Bounds
  <2> QED
    BY <1>t, <2>1 DEF FetchInv, FreshInv, News
<1>6. CASE Deliver
  <2>1. CASE cursor' = cursor + 1 /\ log[cursor + 1] = "project"
    <3>1. resyncs' = Append(resyncs, "event")
      BY <1>6, <2>1, NextEvent DEF Deliver, Typed, WireInv, ServerTyped
    <3> QED
      BY <1>6, <1>t, <3>1, QueueMoves DEF Deliver, FetchInv, FreshInv
  <2>2. CASE ~(cursor' = cursor + 1 /\ log[cursor + 1] = "project")
    <3>1. News => News'
      BY <1>6, <2>2, NewsKept DEF ClientNext, Deliver
    <3>2. resyncs' = resyncs
      BY <1>6, <2>2, NextEvent DEF Deliver, Typed, WireInv, ServerTyped
    <3> QED
      BY <1>6, <1>t, <3>1, <3>2 DEF Deliver, FetchInv, FreshInv
  <2> QED
    BY <2>1, <2>2
<1>7. CASE FetchProject
  BY <1>7, <1>t DEF FetchProject, FetchInv, FreshInv, News
<1>8. CASE FetchRevisions
  BY <1>8, <1>t DEF FetchRevisions, FetchInv, FreshInv, News
<1>9. CASE ApplySnapshot
  <2>1. Len(resyncs) > 1 => resyncs' # <<>>
    <3>1. resyncs \in Seq({"page", "event", "edit"}) /\ resyncs' = Tail(resyncs)
          /\ resyncs # <<>>
      BY <1>9 DEF ApplySnapshot, FinishResync, Typed, QueueTyped
    <3>2. Len(resyncs') = Len(resyncs) - 1
      BY <3>1
    <3> QED
      BY <3>2
  <2>2. News => News'
    BY <1>9 DEF ApplySnapshot, News
  <2>3. /\ view' = [revision |-> fetched.project, timeline |-> fetched.project,
                    number |-> fetched.revisions]
        /\ fetched.project # NotYet /\ fetched.revisions # NotYet
        /\ fetched' = NothingFetched /\ authority' = authority
    BY <1>9 DEF ApplySnapshot, FinishResync
  <2>4. FetchInv'
    BY <1>t, <2>3 DEF FetchInv
  <2>5. Shown(authority)' \/ News \/ Len(resyncs) > 1
    BY <1>t, <2>3 DEF FetchInv
  <2> QED
    BY <2>1, <2>2, <2>4, <2>5 DEF FreshInv
<1>10. CASE ResyncFails
  <2>1. spent'.errors > 0
    BY <1>10, SpendKept DEF ResyncFails, Fault, Typed, Bounds
  <2> QED
    BY <1>10, <1>t, <2>1 DEF ResyncFails, FinishResync, FetchInv, FreshInv
<1>11. CASE ExecuteEdit
  <2>1. authority' = authority \/ News'
    BY <1>11 DEF ExecuteEdit, News
  <2>2. News => News'
    BY <1>11, NewsKept DEF ClientNext, EditStep, ExecuteEdit, Deliver, Typed
  <2> QED
    BY <1>11, <1>t, <2>1, <2>2 DEF ExecuteEdit, FetchInv, FreshInv
<1>12. CASE EditAccepted
  <2>1. resyncs' = Append(resyncs, "edit")
    BY <1>12 DEF EditAccepted
  <2> QED
    BY <1>12, <1>t, <2>1, QueueMoves DEF EditAccepted, FetchInv, FreshInv, News
<1> QED
  BY <1>1, <1>2, <1>3, <1>4, <1>5, <1>6, <1>7, <1>8, <1>9, <1>10, <1>11, <1>12 DEF ClientNext, EditStep

-----------------------------------------------------------------------------
(* The client's state stays in order: its parts have their types, the       *)
(* connection continues from the cursor, the running resync has not fetched *)
(* something older than what is shown, and it or a later one is not stale.  *)
THEOREM ClientInvariant == ClientSpec => []ClientInv
<1>1. ClientInv /\ [ClientNext]_clientVars => ClientInv'
  BY TypedKept, FreshKept DEF ClientInv
<1> QED
  BY ClientInvInit, <1>1, PTL DEF ClientSpec

(* For every ring, and any number of commands, edits and cuts: what the     *)
(* client shows is authoritative unless news of a change is on its way to   *)
(* it, or a request has failed.                                             *)
THEOREM SoundView == ClientSpec => []ShownIsSound
<1>1. ClientInv => ShownIsSound
  <2> SUFFICES ASSUME ClientInv PROVE ShownIsSound
    OBVIOUS
  <2>1. wire \in Seq(1..Len(log))
    <3>1. /\ wire \in Seq(Nat) /\ Len(wire) \in Nat /\ Len(log) \in Nat
          /\ \A i \in 1..Len(wire) : wire[i] \in 1..Len(log)
      <4>1. CASE stream = "up"
        BY <4>1 DEF ClientInv, Typed, WireInv, ServerTyped
      <4>2. CASE stream # "up"
        BY <4>2 DEF ClientInv, Typed, WireInv, ServerTyped
      <4> QED
        BY <4>1, <4>2
    <3> QED
      BY <3>1
  <2>2. ClientTypeOK
    BY <2>1 DEF ClientTypeOK, ClientInv, Typed, ServerTyped, ViewTyped, EditTyped, QueueTyped, WireInv, Bounds
  <2>3. StaleOnlyWhileRefreshDue
    BY DEF ClientInv, FreshInv, News, StaleOnlyWhileRefreshDue, RefreshDue
  <2> QED
    BY <2>2, <2>3 DEF ShownIsSound
<1> QED
  BY ClientInvariant, <1>1, PTL

(* The revision that is shown never goes back, however snapshots, events    *)
(* and edits overlap: resyncs run one at a time.                            *)
THEOREM ShownMovesForward == ClientSpec => RevisionShownMovesForward
<1>1. ClientInv /\ [ClientNext]_clientVars => [view'.revision >= view.revision]_clientVars
  <2> SUFFICES ASSUME ClientInv, [ClientNext]_clientVars PROVE view'.revision >= view.revision
    OBVIOUS
  <2>1. view \in [revision : Nat, number : Nat, timeline : Nat]
    BY DEF ClientInv, Typed, ViewTyped
  <2>2. CASE ApplySnapshot
    BY <2>2 DEF ApplySnapshot, ClientInv, FetchInv
  <2>3. CASE EditAccepted
    BY <2>1, <2>3 DEF EditAccepted
  <2>4. CASE UNCHANGED view
    BY <2>1, <2>4
  <2> QED
    BY <2>2, <2>3, <2>4
       DEF ClientNext, EditStep, clientVars, server, subscription, CommitElsewhere, PublishOther, Announce,
           Connect, ConnectRefused, Cut, Deliver, FetchProject, FetchRevisions, ResyncFails,
           BeginEdit, ReadBase, ExecuteEdit, EditStale, EditFails
<1> QED
  BY ClientInvariant, <1>1, PTL DEF ClientSpec, RevisionShownMovesForward

(* The ring, the connection and the cursor implement the promise of         *)
(* EventFeed: the client reads every event once and in order, or no more.   *)
THEOREM FeedImplemented == ClientSpec => ImplementsFeed
<1>1. ClientInit => Feed!Init
  <2> SUFFICES ASSUME ClientInit PROVE Len(log) \in Nat /\ cursor = 0
    BY DEF Feed!Init
  <2> QED
    BY ClientInvInit DEF ClientInit, ClientInv, Typed, ServerTyped
<1>2. ClientInv /\ [ClientNext]_clientVars => [Feed!Next]_Feed!vars
  <2> SUFFICES ASSUME ClientInv, [ClientNext]_clientVars PROVE [Feed!Next]_Feed!vars
    OBVIOUS
  <2> USE DEF Feed!Next, Feed!Publish, Feed!Show, Feed!vars, server, subscription
  <2>1. Len(log) \in Nat /\ cursor \in 0..Len(log)
    BY DEF ClientInv, Typed, ServerTyped, WireInv
  <2>2. ASSUME NEW r \in unannounced, Announce(r) PROVE Feed!Publish
    BY <2>2, PublishKept DEF Announce, ClientInv, Typed
  <2>3. CASE PublishOther
    BY <2>3, PublishKept DEF PublishOther, ClientInv, Typed
  <2>4. CASE Deliver
    BY <2>1, <2>4, NextEvent DEF Deliver, ClientInv, Typed
  <2>5. CASE UNCHANGED <<log, cursor>>
    BY <2>5
  <2> QED
    BY <2>2, <2>3, <2>4, <2>5
       DEF ClientNext, EditStep, clientVars, CommitElsewhere, Connect, ConnectRefused, Cut, FetchProject,
           FetchRevisions, ApplySnapshot, ResyncFails, BeginEdit, ReadBase, ExecuteEdit,
           EditAccepted, EditStale, EditFails
<1> QED
  BY ClientInvariant, <1>1, <1>2, PTL DEF ClientSpec, ImplementsFeed, Feed!Spec
=============================================================================
