-------------------------- MODULE WorkerSupervisor --------------------------
(***************************************************************************)
(* The worker supervisor of the studio server,                             *)
(* apps/studio-server/src/worker-supervisor.ts: it starts a worker         *)
(* process, sends it calls, pings it, restarts it when it exits, and gives *)
(* up after so many restarts.                                              *)
(*                                                                         *)
(* The supervisor is an object on an event loop.  What runs up to an await *)
(* is one action; between two actions any timer, message or exit may come, *)
(* and its user may call start, stop and call.  Each start or unexpected   *)
(* exit sets off a chain: create a transport, or wait and create another.  *)
(***************************************************************************)
EXTENDS Naturals, FiniteSets

CONSTANTS
  Workers,      \* identities of worker processes, reused when they are gone
  Chains,       \* bound on the chains of restarts in flight at a time
  Requests,     \* calls the user may have open at a time
  Pings,        \* heartbeat calls open at a time
  MaxRestarts,  \* maxRestarts
  None

Calls == Requests \cup Pings

ASSUME SupervisorAssumption ==
  /\ None \notin Workers /\ None \notin Chains
  /\ Requests \cap Pings = {} /\ IsFiniteSet(Chains)
  /\ MaxRestarts \in Nat

VARIABLES
  status, stopping,  \* #status, #intentionalStop
  transport,         \* the worker behind #transport
  listening,         \* workers whose messages and exit the supervisor gets
  beating,           \* the heartbeat interval is set
  restarts,          \* #restartCount
  chain,             \* progress of each chain of restarts
  timer,             \* the chain whose delay #restartTimer names
  worker,            \* state of each worker process
  call,              \* state of each call; "failed" pings await their handler
  sentTo,            \* the worker an open call was sent to
  disturbed          \* history: start was called before the last life ended

supervisor == <<status, stopping, transport, listening, beating, restarts>>
vars == <<supervisor, chain, timer, worker, call, sentTo, disturbed>>

InFlight == {s \in Chains : chain[s] # "none"}
Open == {c \in Calls : call[c] # "free"}
Fresh == {w \in Workers : worker[w] = "none" /\ \A c \in Open : sentTo[c] # w}

(* No promise reaction is queued, so the event loop may take its next      *)
(* event; callers' code and promise reactions need not wait for that.      *)
Idle == \A h \in Pings : call[h] # "failed"

Init ==
  /\ status = "stopped" /\ stopping = FALSE
  /\ transport = None /\ listening = {} /\ beating = FALSE
  /\ restarts = 0
  /\ chain = [s \in Chains |-> "none"]
  /\ timer = None
  /\ worker = [w \in Workers |-> "none"]
  /\ call = [c \in Calls |-> "free"]
  /\ sentTo = [c \in Calls |-> None]
  /\ disturbed = FALSE

-----------------------------------------------------------------------------
Proceed(s, step) == chain' = [chain EXCEPT ![s] = step]

(* #settle: a rejected ping has a handler that still has to run. *)
Rejected(c) == IF c \in Pings THEN "failed" ELSE "free"

Settle(c, outcome) ==
  /\ call' = [call EXCEPT ![c] = outcome]
  /\ sentTo' = [sentTo EXCEPT ![c] = IF outcome = "free" THEN None ELSE @]

(* Faulty: only the user's requests are rejected. *)
RejectAll_RequestsOnly ==
  /\ call' = [c \in Calls |->
                IF call[c] = "pending" /\ c \in Requests THEN "free" ELSE call[c]]
  /\ sentTo' = [c \in Calls |-> IF call'[c] = "free" THEN None ELSE sentTo[c]]

RejectAll ==
  /\ call' = [c \in Calls |-> IF call[c] = "pending" THEN Rejected(c) ELSE call[c]]
  /\ sentTo' = [c \in Calls |-> IF call'[c] = "free" THEN None ELSE sentTo[c]]

(* Faulty: restarts are not counted. *)
ScheduleRestart_Uncounted(s) ==
  IF stopping
    THEN Proceed(s, "none") /\ UNCHANGED <<status, restarts, timer>>
    ELSE /\ Proceed(s, "delay")
         /\ status' = "restarting"
         /\ timer' = s
         /\ UNCHANGED restarts

ScheduleRestart(s) ==
  \/ /\ stopping
     /\ Proceed(s, "none")
     /\ UNCHANGED <<status, restarts, timer>>
  \/ /\ ~stopping /\ restarts >= MaxRestarts
     /\ Proceed(s, "none")
     /\ status' = "failed"
     /\ UNCHANGED <<restarts, timer>>
  \/ /\ ~stopping /\ restarts < MaxRestarts
     /\ Proceed(s, "delay")
     /\ status' = "restarting"
     /\ restarts' = restarts + 1
     /\ timer' = s

-----------------------------------------------------------------------------
(* start().  It may be called while the supervisor is degraded, and again  *)
(* after a stop() whose chain or ping handler is still to come: then       *)
(* something of the last life is left, and "disturbed" records it.  (The   *)
(* bound on Chains keeps one free for the attached worker's exit.)         *)
Start(s) ==
  /\ status \in {"stopped", "failed", "degraded"}
  /\ chain[s] = "none"
  /\ Cardinality(InFlight) + (IF transport = None THEN 0 ELSE 1) < Cardinality(Chains)
  /\ stopping' = FALSE
  /\ restarts' = 0
  /\ status' = "starting"
  /\ Proceed(s, "creating")
  /\ disturbed' = (disturbed \/ InFlight # {} \/ transport # None \/ ~Idle)
  /\ UNCHANGED <<transport, listening, beating, timer, worker, call, sentTo>>

(* createTransport settles.  When it made a worker, that is attached in    *)
(* the same step, so that no exit of it is missed, or is terminated.       *)
CreateFails(s) ==
  /\ chain[s] = "creating"
  /\ ScheduleRestart(s)
  /\ UNCHANGED <<stopping, transport, listening, beating, worker, call, sentTo, disturbed>>

(* Faulty: a worker that comes too late is dropped but not terminated. *)
Discard_Unterminated(s, w) ==
  /\ chain[s] = "creating" /\ stopping
  /\ worker' = [worker EXCEPT ![w] = "live"]
  /\ Proceed(s, "none")
  /\ UNCHANGED <<supervisor, timer, call, sentTo, disturbed>>

Discard(s, w) ==
  /\ chain[s] = "creating" /\ stopping
  /\ worker' = [worker EXCEPT ![w] = "terminated"]
  /\ Proceed(s, "none")
  /\ UNCHANGED <<supervisor, timer, call, sentTo, disturbed>>

(* Faulty: a stop() during the creation goes unnoticed. *)
Attach_AfterStop(s, w) ==
  /\ chain[s] = "creating"
  /\ worker' = [worker EXCEPT ![w] = "live"]
  /\ transport' = w /\ listening' = {w} /\ beating' = TRUE
  /\ status' = "healthy"
  /\ Proceed(s, "none")
  /\ UNCHANGED <<stopping, restarts, timer, call, sentTo, disturbed>>

Attach(s, w) ==
  /\ chain[s] = "creating" /\ ~stopping
  /\ worker' = [worker EXCEPT ![w] = "live"]
  /\ transport' = w /\ listening' = {w} /\ beating' = TRUE
  /\ status' = "healthy"
  /\ Proceed(s, "none")
  /\ UNCHANGED <<stopping, restarts, timer, call, sentTo, disturbed>>

CreateSettles(s) ==
  CreateFails(s) \/ \E w \in Fresh : Discard(s, w) \/ Attach(s, w)

(* The delay is over.  The handle is reset, whichever chain it names now.  *)
RestartDue(s) ==
  /\ Idle /\ chain[s] = "delay"
  /\ timer' = None
  /\ IF stopping THEN Proceed(s, "none") /\ UNCHANGED status
                 ELSE Proceed(s, "creating") /\ status' = "restarting"
  /\ UNCHANGED <<stopping, transport, listening, beating, restarts,
                 worker, call, sentTo, disturbed>>

Stop ==
  /\ stopping' = TRUE
  /\ beating' = FALSE /\ listening' = {} /\ transport' = None
  /\ chain' = [s \in Chains |-> IF s = timer THEN "none" ELSE chain[s]]
  /\ timer' = None
  /\ worker' = [w \in Workers |-> IF w = transport THEN "terminated" ELSE worker[w]]
  /\ RejectAll
  /\ status' = "stopped"
  /\ UNCHANGED <<restarts, disturbed>>

-----------------------------------------------------------------------------
(* call(), by the user or the heartbeat; the send may throw.  One that     *)
(* finds the worker not healthy is refused and has no effect.              *)
Call(c) ==
  /\ status = "healthy" /\ transport # None
  /\ call[c] = "free"
  /\ c \in Pings => Idle /\ beating
  /\ call' \in {[call EXCEPT ![c] = "pending"], [call EXCEPT ![c] = Rejected(c)]}
  /\ sentTo' = [sentTo EXCEPT ![c] = IF call'[c] = "free" THEN None ELSE transport]
  /\ UNCHANGED <<supervisor, chain, timer, worker, disturbed>>

(* The worker answers; an answer whose call is settled has no effect. *)
Answer(c) ==
  /\ Idle /\ call[c] = "pending"
  /\ sentTo[c] \in listening /\ worker[sentTo[c]] # "none"
  /\ Settle(c, "free") \/ Settle(c, Rejected(c))
  /\ UNCHANGED <<supervisor, chain, timer, worker, disturbed>>

(* Faulty: requests have no timeout of their own. *)
TimeOut_PingsOnly(c) ==
  /\ Idle /\ call[c] = "pending" /\ c \in Pings
  /\ Settle(c, Rejected(c))
  /\ UNCHANGED <<supervisor, chain, timer, worker, disturbed>>

TimeOut(c) ==
  /\ Idle /\ call[c] = "pending"
  /\ Settle(c, Rejected(c))
  /\ UNCHANGED <<supervisor, chain, timer, worker, disturbed>>

Abort(c) ==
  /\ call[c] = "pending"
  /\ Settle(c, Rejected(c))
  /\ UNCHANGED <<supervisor, chain, timer, worker, disturbed>>

(* The handler of a failed ping terminates the worker attached by then.    *)
PingFailed(h) ==
  /\ call[h] = "failed"
  /\ Settle(h, "free")
  /\ IF status = "healthy"
       THEN /\ status' = "degraded"
            /\ worker' = [worker EXCEPT ![transport] = "terminated"]
       ELSE UNCHANGED <<status, worker>>
  /\ UNCHANGED <<stopping, transport, listening, beating, restarts, chain, timer, disturbed>>

(* A worker process ends.  #onExit handles it when it is listened to;      *)
(* then the supervisor is not stopping, since stop() ends the listening.   *)
Exit(w) ==
  /\ Idle
  /\ worker' = [worker EXCEPT ![w] = "none"]
  /\ IF w \in listening
       THEN /\ beating' = FALSE /\ listening' = {} /\ transport' = None
            /\ RejectAll
            /\ \E s \in Chains \ InFlight : ScheduleRestart(s)
       ELSE UNCHANGED <<status, transport, listening, beating, restarts, chain,
                        timer, call, sentTo>>
  /\ UNCHANGED <<stopping, disturbed>>

Crash(w) == worker[w] = "live" /\ Exit(w)
Die(w) == worker[w] = "terminated" /\ Exit(w)

-----------------------------------------------------------------------------
Next ==
  \/ \E s \in Chains : Start(s) \/ CreateSettles(s) \/ RestartDue(s)
  \/ Stop
  \/ \E c \in Calls : Call(c) \/ Answer(c) \/ TimeOut(c)
  \/ \E c \in Requests : Abort(c)
  \/ \E h \in Pings : PingFailed(h)
  \/ \E w \in Workers : Crash(w) \/ Die(w)

Spec == Init /\ [][Next]_vars

(* Timers go off, promise reactions run, creating a transport comes to an  *)
(* end, and a worker dies of SIGTERM.  Fairness is strong where an event   *)
(* waits for the loop to be idle: it is queued, and its turn comes between *)
(* the reactions of others.  Workers need neither answer nor crash, and    *)
(* nothing obliges the user.                                               *)
FairSpec ==
  /\ Spec
  /\ \A s \in Chains : WF_vars(CreateSettles(s)) /\ SF_vars(RestartDue(s))
  /\ \A c \in Calls : SF_vars(TimeOut(c))
  /\ \A h \in Pings : WF_vars(PingFailed(h))
  /\ \A w \in Workers : SF_vars(Die(w))
-----------------------------------------------------------------------------
(* Every variable has its type, the handle of the restart timer names a    *)
(* chain that is waiting, and an open call has been sent to a worker.      *)
TypeOK ==
  /\ status \in {"stopped", "starting", "healthy", "degraded", "restarting", "failed"}
  /\ stopping \in BOOLEAN /\ beating \in BOOLEAN /\ disturbed \in BOOLEAN
  /\ transport \in Workers \cup {None}
  /\ listening = IF transport = None THEN {} ELSE {transport}
  /\ restarts \in 0..MaxRestarts
  /\ chain \in [Chains -> {"none", "creating", "delay"}]
  /\ timer \in Chains \cup {None}
  /\ timer # None => chain[timer] = "delay"
  /\ worker \in [Workers -> {"none", "live", "terminated"}]
  /\ call \in [Calls -> {"free", "pending", "failed"}]
  /\ sentTo \in [Calls -> Workers \cup {None}]
  /\ \A c \in Calls : call[c] = "free" <=> sentTo[c] = None
  /\ \A r \in Requests : call[r] # "failed"

(* After stop() nothing comes back by itself: chains that were creating a  *)
(* transport or waiting to, late exits and answers leave it stopped, with  *)
(* no worker attached, no heartbeat and no call open.                      *)
StopHolds ==
  stopping =>
    /\ status = "stopped" /\ transport = None /\ ~beating
    /\ \A c \in Calls : call[c] # "pending"

(* A supervisor that says it is healthy, and so accepts calls, has a       *)
(* worker attached that runs and has not been told to terminate, and       *)
(* watches its heartbeat.                                                  *)
HealthyIsSupervised ==
  status = "healthy" =>
    /\ transport # None /\ beating
    /\ worker[transport] = "live"

(* No worker process is left running unattended: every one that has not    *)
(* been told to terminate is the attached one (unless start was called     *)
(* before the last life had ended).                                        *)
NoStrayWorker ==
  disturbed \/ \A w \in Workers : worker[w] = "live" => w = transport

(* Under the same proviso a call that waits, waits for the worker that is  *)
(* attached: whatever ends a worker ends its calls.                        *)
CallsFollowWorker ==
  disturbed \/ \A c \in Calls : call[c] = "pending" => sentTo[c] = transport

(* And a failed ping gets no other worker terminated than the one that did *)
(* not answer it, however late its handler runs.                           *)
PingsJudgeOwnWorker ==
  [][\A h \in Pings :
       status = "healthy" /\ status' = "degraded" /\ call[h] # call'[h]
         => sentTo[h] = transport \/ disturbed]_vars

(* The supervisor does not stay between two states for ever: it gets       *)
(* healthy, runs out of restarts, or is stopped.                           *)
Recovers ==
  status \in {"starting", "restarting", "degraded"}
    ~> status \in {"healthy", "failed", "stopped"}

(* Every call comes to an end, whether or not the worker answers.          *)
CallsSettle == \A c \in Calls : call[c] = "pending" ~> call[c] # "pending"

(* Neither the supervisor nor a call hangs.                                *)
SupervisorSettles == Recovers /\ CallsSettle
=============================================================================
