# A TLA+ verification of Chai Studio

Chai Studio is a local video studio: a server that owns a project folder, a web
client, command line and agent clients, a preview pipeline, and a renderer whose
deliveries are recoverable. What can go wrong in it is mostly a matter of order:
several processes write one folder, every step of a commit may be the last one
before a crash, requests race their own timeouts, and streams are cut and resumed.
This directory holds TLA+ models of those parts, the TLC runs that check them on
small instances, and TLAPS proofs that hold for every instance.

Paths below are relative to the repository.

## How to read and run

| file | what it is |
| --- | --- |
| `LeaseLock` | abstract: a mutual exclusion lease that can be broken |
| `MutationLock` | the project mutation lock, one action per file system call |
| `RevisionLog` | abstract: the log of accepted commands |
| `CommandEngine` | command execution, revisions, receipts, barriers, undo and redo |
| `ProjectRecovery` | repairs, autosaves and source edit sessions among commands and crashes |
| `WorkerSupervisor` | the supervisor of worker processes |
| `EventFeed` | abstract: an event stream without holes or repetitions |
| `StudioClient` | the event hub, the client's subscription, its resyncs and its edits |
| `ProjectSession`, `JobRegistry` | the open project with its leases; jobs and their tasks |
| `StudioServer` | both of them with the runtime hygiene service and the shutdown |
| `PreviewSession` | the preview session over `ProjectSession` |
| `RenderLifecycle` | renders, lifecycle events and their recovery, QA, approval, delivery |
| `PreviewScheduler` | the preview scheduler, its transport and its layers |
| `Timeline` | the edits of a timeline document |
| `MC….tla`, `….cfg` | their instances for TLC |
| `MutationLockProofs`, `CommandEngineProofs`, `ProjectRecoveryProofs`, `WorkerSupervisorProofs`, `RenderLifecycleProofs`, `TimelineProofs` | the inductive invariants and the theorems about the module they are named for |
| `StudioProofs`, `PreviewProofs` | those about the server and the client, and about the preview's session and scheduler |
| `PROJECT.json` | components, runs, mutants, the map from definitions to lines, hazards, theorems |

`tlc -config MutationLock_safety.cfg MCMutationLock` checks an instance, `tlapm
MutationLockProofs.tla` checks proofs (the longest, `TimelineProofs`, takes some ten
minutes, `RenderLifecycleProofs` five, the others up to three). Definitions named
`X_Something` or `Y_Something`, and `Something_WithItsFault`, are faulty variants of a
definition `Something`, each with the plausible bug its comment or its name tells of;
replacing the definition by it makes a property fail, which shows that the property can.
They are defined before what they replace, and nothing else uses them.

Several modules carry history variables, which no guard reads and which a property uses to
name the executions it makes no promise about: `overrun` and `cleared` in `MutationLock`,
`broken` in `CommandEngine`, `disturbed` in `WorkerSupervisor`, `troubled` in
`StudioServer`, `raced` and `missed` in `PreviewSession`, `raced`, `rewound` and `stranded` in
`RenderLifecycle`, `last.clean` and `crowded` in `PreviewScheduler`, `waived`, `missed` and
`contended` in `ProjectRecovery`. Each exception was checked to be necessary: without it TLC
finds an execution of the code that breaks the property. *What the models show* lists them
in the code's terms.

## Inventory

For each part: its state, its operations, what it interacts with, what is hard
about it, what makes it correct, and where it is modelled.

**Project mutation lock** (`packages/schema/src/project-lock.ts`). State: the file
`.chai-lock.json` (owner, random token, heartbeat, expiry) and the directory
`.chai-lock-recovery`, a gate around recovery. Operations: acquire (exclusive
create, or recovery of an expired lock), heartbeat, release. Used by the command
engine, by autosave restore and by migrations; the studio server's
`clear-stale-lock` repair moves the same file. Hard: each operation is several file
system calls, checks and effects are apart, a process may die at each of them.
Correct: one holder at a time; a live lock is not displaced; an abandoned one is
recovered. *`MutationLock`.*

**Project authority** (`command-engine.ts`, `revision-store.ts`). State: immutable
revision directories, `current-revision.json` (the pointer), undo and redo stacks
inside revisions, receipts by actor and idempotency id, working source files.
Operation: `executeProjectCommand`, which deduplicates by receipt, locks, checks the
base, applies a handler, publishes a revision, swaps the pointer, materialises
working files and writes a receipt. Called by the server's services, the CLI and
agents, from several processes. Hard: concurrent retries, crashes and I/O errors
between any two effects, files edited outside. Correct: authority is always one
complete revision; a command takes effect at most once; accepted commands are not
lost; receipts are true; undo and redo restore. *`CommandEngine`; named versions, the
storage audit and conflict reports are not.*

**Operation barriers** (`operation-barrier.ts`). State: a file per running
operation. Operations: begin (read the pointer, write the file), complete, assert
none. Correct: history does not move under an operation, and barriers end with their
operations. *`CommandEngine`, `RenderLifecycle`.*

**Project folder** (`project-folder.ts`). Creates the folder a project starts from,
by staging and rename. *Its outcome is the initial state of `CommandEngine`.*

**Source edit sessions** (`source-edit-session.ts`). State: a file per session with
the hash and the revision it began from. Operations: begin, commit (a `source.edit`
command), abort. Hard: the session is removed after its command, and not when that
fails. Correct: an edit is committed once, and its session does not claim otherwise.
*`ProjectRecovery`.*

**Autosave** (`autosave-store.ts`). State: snapshots, a metadata file with the list of
them and a mark of clean shutdown. Operations: create with retention, list, restore, the
marks of opening and closing, the recovery scan. Hard: metadata are read, changed and
written without a lock. Correct: the newest are listed and stored, the mark is true.
*`ProjectRecovery`, without the debounced controller, which no application uses.*

**Reliability service** (`apps/studio-server/src/reliability-service.ts`). State: none of
its own; it works on the project's files. Operations: scan, pointer repair, adoption and
rejection of orphans, adoption of outside edits, clearing a stale lock. Hard: repairs of
the pointer take no lock. Correct: a repair never undoes accepted work.
*`ProjectRecovery`, `MutationLock`.*

**Project session service** (`project-service.ts`). State: the open root, a transition
in progress, operation leases. Operations: open, create, close, execute command, acquire
and release a lease. Hard: commands in flight take no lease, so a transition can overlap
them. Correct: what is done under a lease is done to the open project. *`ProjectSession`,
composed in `StudioServer` and `PreviewSession`.*

**Job registry** (`job-registry.ts`). State: jobs with status and progress. Operations:
enqueue, cancel, clear completed, and a task's end. Hard: cancellation does not stop the
task, whose completion arrives later. Correct: a terminal status is final.
*`JobRegistry`, composed in `StudioServer`.*

**Runtime hygiene** (`runtime-hygiene.ts`). State: a chain of activations, file
watchers. Hard: an activation outlives the project it was for. Correct: the watchers are
those of the open project. *`StudioServer`, without the preflight's own work.*

**HTTP server** (`index.ts`). State: sockets, subscriptions between services, the
shutdown. *Shutdown in `StudioServer`, streams in `StudioClient`, announcements in
`PreviewSession`; routes and request checks are not modelled.*

**Event hub and stream client** (`event-hub.ts`, `studio-web/src/event-stream.ts`).
State: a bounded ring, subscribers, the client's last id. Operations: publish, replay,
subscribe, reconnect. Hard: loss, repetition, the ring's bound. Correct: the client sees
every event once and in order, or no more. *`StudioClient`, refining `EventFeed`.*

**Studio web client** (`studio-web/src/use-studio-runtime.ts`). State: the project shown,
a queue of snapshot resyncs, a queue of edits. Hard: snapshots fetched by two requests,
events, responses and optimistic updates arrive in any order. Correct: nothing stale is
left, and nothing older is shown over something newer. *`StudioClient`.*

**Worker supervisor** (`worker-supervisor.ts`). State: worker status, transport,
pending requests, restart budget, heartbeat. Operations: start, call, stop, and the
handlers of messages, exit, timeout and abort. Hard: all of them interleave with the
creation of a transport. Correct: a stopped supervisor stays stopped; the attached
worker is the only one alive; calls end with their worker; the supervisor recovers
or gives up. *`WorkerSupervisor`.*

**Preview session service** (`preview-service.ts`, `session-state.ts`). State: the
session (root, revision, version, transport, frame, loop), an interval, a queue.
Operations: load, unload, synchronise, control, tick. Hard: loads and unloads do not go
through the queue. Correct: the session follows the revision; a control acts on what its
sender saw; playback stays in the timeline and ends. *`PreviewSession`.*

**Render service, QA lifecycle, recovery journal** (`render-service.ts`,
`packages/qa/src/lifecycle.ts`, `packages/render/src/recovery.ts`). State per output: a
receipt, lifecycle event files, transaction intents, a checklist, a delivery record, a
journal, a barrier. Operations: render, QA, review, approve, deliver, read with recovery.
Hard: each transition is a revision and an event, written one after the other, and
readers recover what they find. Correct: the two agree, none is forgotten, receipts stay
readable. *`RenderLifecycle`; rendering itself and the packages of files are not.*

**Preview scheduler** (`packages/preview/src/scheduler.ts`, `transport-machine.ts`,
`layer-lifecycle.ts`, `master-clock.ts`). A library that no application wires up. State:
sessions, transport, layers, slots of preloads. Hard: every operation awaits layers and
finds another one started. Correct: the preview does what it was told last, and layers and
slots are accounted for. *`PreviewScheduler`, without the setters, warnings, buffering.*

**Timeline editing** (`packages/timeline/src`). State: a document. Operations: dozens of
commands, each applied in a read, edit, validate, write cycle. Hard: sequences of edits;
what a document does not keep is made up at the next reading. Correct: nothing anchored
to content drifts, cuts keep the rest, locks and links are respected, documents reopen.
*`Timeline`: clips, tracks, ranges, markers, keyframes, links, compounds, roll, slip, slide.*

**Not modelled.** *Render DAG scheduler and artifact store* (`packages/render/src`):
libraries no application wires up, the render service runs a render as one task.
*Validation and migration*: pure functions over documents; in `CommandEngine` a handler may
refuse any command. *Asset, capture, review and interaction services*: request handlers
over the parts above; their jobs are the unleased ones of `StudioServer`. *Compositors and
media runtimes* drive external tools. *Caches and diagnostics* are regenerable. *Audio,
captions, media, QA evaluation, security and bridge packages* are pure computations.
Generated schemas and the layout of the web client make up the greatest part of the
repository's lines and have no behaviour of this kind, which is why the map covers a small
share of them.

## MutationLock

**State.** `lockFile` is the file: absent, or a document with its token, whether it
has been written yet (a file is created empty by `open(.., "wx")` and filled by a
second call) and whether its expiry has passed. `gate` is the recovery directory and
who made it. `pc[p]` is the next call of process *p*, `token[p]` the token of its
document, `observed[p]` the token of the stale lock it set out to recover.

**Time** is the flag `expired`: a fresh document may expire at any moment, and stays
expired until a heartbeat replaces it. This covers every TTL, every clock and any
pause of a process. A token is 128 random bits in the code; in the model a new one
is any token nothing refers to, so the finite set is reused and not exhausted.

**Actions.** `Create`, `AlreadyLocked`, `Write`, `ReadExisting`, `EnterGate`, `Recheck`,
`Quarantine`, `Recreate`, `Rewrite`, `RemoveGate` are `acquireProjectMutationLock`
with `recoverStaleLock`, call by call; `CheckHeartbeat`/`Heartbeat` and
`CheckRelease`/`Unlink` are the two halves of the handle's operations, `WriteFails`
and `RewriteFails` the I/O errors that leave a file behind, `Crash` a death between
two calls. `CheckStaleLock`/`ClearStaleLock` is the repair of the reliability
service.

**The lease discipline.** File locks with leases cannot exclude absolutely. `overrun`
records that a lease ran out while its holder still used it, `cleared` that the
repair moved a file. Either makes the lock's promise void (`Broken`). The repair is
in this list even when the file it moves is expired: it does not enter the gate, so a
recovery that has rechecked the expired file can then quarantine the live lock a
third process has created in its place. Everything else, in any order, with any
number of crashes and errors, is covered by the promise.

**Abstraction.** `LeaseLock` has only `holders` and `broken`. `ImplementsLease` says that
the file protocol implements it, with the holders those processes whose `pc` is
between winning the file and giving it up.

## CommandEngine

**State.** `rev` maps published revisions to their parent, command, content, stacks and
source; ids count up (`minted`), where the code draws random ones. A revision's
documents are abstracted to two marks: which revision's content they hold
(`contentRevisionId`) and which revision's source text they embed. `staging` is the
set of unpublished directories, `receipts` has one entry per idempotency key,
`working` is the source file on disk, `barrier` the operation files. `issued[c]` is
what the client put into command *c* when it built it: the operation, the base
revision and the hash of the source; a retry sends the same.

**Actions** follow `executeProjectCommand` from await to await: `LookForReceipt`, `Lock`
or `LockRefused`, `LookAgain`, `Load` (project and base checks), `Apply` (the handler's
conditions, or any refusal by its own validation), `Stage`, `Publish`, `SwapPointer`,
`Materialize`, `RecordSuccess` or `RecordFailure`, `Release`. The lock is `LeaseLock`,
which `MutationLock` implements. `CallFails` sends an error where the code's `try`
blocks send it, `MaterializeFails` and `ReceiptSyncFails` are the two places with a
treatment of their own, `Crash` kills the process anywhere. `EditOutside` is an editor
that saves the working file, `ReadBase`, `RaiseBarrier` and `CompleteOperation` are an
asynchronous operation.

`Stage` stands for the six document writes of a revision: nobody reads a staging
directory before its rename, so their order is unobservable, and a failure among them
removes the directory. `LockRefused` may happen whether or not somebody holds the lock
in the model, since a dead holder's file refuses until it expires.

**Abstraction.** `RevisionLog` is the promise of ADR 0005: a sequence of accepted
commands, each appended once. `ImplementsLog` maps it to the commands along the
pointer's ancestry. Only after a broken lease may that sequence be replaced.
`Ancestors`, the chain that the code follows parent by parent, is defined as a closure,
what every set that holds a revision and the parents of its members must hold, and
`CommandsTo` orders it by revision number: that says the same as a recursion, since a
parent's number is smaller, and can be reasoned about without induction over data.

## WorkerSupervisor

**State.** `status`, `stopping`, `transport`, `restarts` are the fields of the class,
`listening` and `beating` stand for its detachers and its interval. `worker` is the
state of each process, which outlives the supervisor's interest in it. `call` is the
map of pending requests, with one more state, "failed", for a rejected ping whose
`catch` handler has still to run; `sentTo` says which worker a call went to. `chain`
is the part that is easy to overlook in the code: each `start()` and each unexpected
exit sets off an asynchronous chain (create a transport, or wait and create one),
which goes on whatever happens to the object meanwhile. `timer` is the chain
`#restartTimer` belongs to: `stop()` clears that timer, and the chain never goes on.

**Actions.** `Start`, `Call`, `Stop` are the methods. `CreateFails`, `Discard`, `Attach`
are the ways a creation ends, `RestartDue` the end of a delay, `Answer`, `TimeOut`,
`Abort` what settles a call, `Exit` (as `Crash` or `Die`) the end of a process, with
`#onExit` if it is listened to, and `PingFailed` the handler of a ping. Each is what
runs without an await. Promise reactions run before the next event of the loop: the
actions that are events (timers, messages, exits) wait until no ping handler is
queued (`Idle`); callers' code, and creations, which need not be events, do not.

**What the promises leave out.** `disturbed` records that `start()` was called before
the last life had ended: while the supervisor is degraded, or after a `stop()` with a
transport still being created or a ping handler still queued. In the code that
leaves two chains, the second transport takes the place of the first, which is
neither terminated nor heard again; or the old ping's handler terminates the new
worker. `NoStrayWorker`, `CallsFollowWorker` and `PingsJudgeOwnWorker` hold for all
other uses; `StopHolds`, `HealthyIsSupervised` and `SupervisorSettles` for all.

**Abstraction.** Log records, diagnostics and the framing of messages are left out, and
so is the generation count. At most one call is counted per member of `Requests` and
`Pings`; the bound on `Chains` is a guard of `Start` alone, which keeps one for the
exit of the attached worker.

## ProjectRecovery

**State.** `opened`, `pointer`, `rev`, `working` and `receipt` as in `CommandEngine`, with
one source text per revision; `gone` are the quarantined revisions, `holder` the mutation
lock, `session` the source sessions' files, `meta` and `saved` the autosave metadata and
snapshots, `task` what each of the server's requests is at.

**Actions.** `Edit`, `CommitSession`, the restoration of an autosave and the adoption of an
outside edit are commands; a command is `Lock`, `Apply` (checks and publication), `Verify`,
`Point`, `Materialize`, `Record`, the steps of `CommandEngine` that a repair can come
between. `Repair`, `Scan`, then `Audit` and `WritePointer` (adopt an orphan, recover the
pointer), `Reject` or `ClearLock` are `ReliabilityService.repair`. `BeginSession`,
`AbortSession`, `SessionEnds`; `Autosave`, `AutosaveStored`, `AutosaveListed`;
`Mark`, `Marked` for the marks of opening and closing; `Crash`, `OutsideEdit`.

**Ancestry.** `Behind` is what lies behind a revision, as a closure. `Chain` is what a walk
along the parents meets, which a quarantined revision ends; `Line` goes on behind it.

**What the promises leave out.** `AuthorityStands`: what a response has reported as current
stays among the ancestors of the pointer, except for `waived`, what a pointer repair cost by
being asked for (`recover-pointer`), by overtaking a commit or another repair, or by adopting
an orphan while a commit was past its check of the base; and the
ancestry is whole except for `missed`, rejected revisions that authority came to need, or that
somebody was about to make part of it (`Needed`).
`RecoveryKeepsItsBooks`: a retried session or restoration is done once, a session's receipt
is right (without crashes), the list of autosaves is the newest completed ones and all are
stored (`contended`: two writers of the metadata overlapped).

## EventFeed and StudioClient

**State.** `authority` is the current revision, counted; `unannounced` those whose
`project.command` event is still to come; `log` what the hub has published, of which the ring
holds the last `Capacity`. `stream`, `wire` and `cursor` are the subscriber and its
connection, `resyncs` and `fetched` the queue of snapshot resyncs and what the running one has
got, `edit` the edit at the head of the mutation queue, `view` what is on the screen: the
revision's id, its number in the list of revisions, and the timeline, which the code sets
at different times.

**Actions.** `CommitElsewhere`, `Announce`, `PublishOther` are the server; `Connect` (with the
replay), `ConnectRefused`, `Cut`, `Deliver` the subscription; `FetchProject`, `FetchRevisions`,
`ApplySnapshot`, `ResyncFails` a resync; `BeginEdit`, `ReadBase`, `ExecuteEdit`,
`EditAccepted`, `EditStale`, `EditFails` an edit with its one retry.

**Abstraction.** `EventFeed` has two numbers, what was published and what was shown:
`ImplementsFeed` says that cuts, replays and the ring never make the client skip or repeat an
event, though it may stop being shown any.

## ProjectSession, JobRegistry, StudioServer

**State.** `openRoot`, `transition` and `leases` of the project session; `status` and `task`
of each job, apart because a cancelled job's task runs on; `command` for the commands in
flight, which take no lease; `activations`, `activating`, `watching` of the hygiene
service's chain of promises; `shutdown` and what it is `awaiting`.

**Actions.** `RequestTransition`, `Closes`, `Opens`, `Returns`, `Fails` are
`#withSessionTransition` between its awaits; `Prepare`, `StartJob`, `PreparationEnds`,
`TaskEnds` are `RenderApiService.#enqueueRecord` and the registry's task, with the lease
taken before and given back by whichever path ends; `CancelJob`, `ClearJobs`; `StartCommand`,
`CommandEnds`; `BeginActivation`, `BeginWatching`, `FinishWatching`, `ActivationFails`;
`BeginShutdown`, `Drain`, `CloseProject`, `ShutdownDone`. An event of the session
schedules activations in the same step, as its listeners are called synchronously.

**What the promises leave out.** `WatchersFollowProject` is void once an activation has failed
(`troubled`); `WorkEnds` lets a shutdown end as "failed", which it does when a cancelled job's
task still holds a lease.

## PreviewSession

**State.** `session` (root, revision, version, state, frame, loop), `timer` the playback
interval, `queue` the chain of serialised operations, `loads` those that go past it,
`notices` commands that are committed and not yet announced; `used` counts bounded events and
how often the session was set.

**Actions.** `LoadBegins`, `LoadReads`, `LoadSets`; `SyncBegins`, `SyncReads`, `SyncSets`;
`Request`, then `Control` or `Refuse`; `Tick`; `Unload` as a request and on closing; `Commit`
and `Notify`. The pure transitions of `session-state.ts` are operators: `Created`,
`Synchronized`, `Controlled`, `Advanced`, with their clamping.

**What the promises leave out.** `raced`: a refresh set the session over a load, an unload or
a closing it had not seen; `missed`: the last refresh failed.

## RenderLifecycle

**State.** `revisions` is the ancestry of authority, each with its approval state and the
output it is about; `history` its undo and redo stacks; `events` and `intents` the two
directories of an output; `base`, `published`, `delivery`, `checklist`, `journal`, `barriers`
its other records; `proc` what each request is at.

**Actions.** A transition is `WriteIntent`, `Commit` (or `CommitRefused`), `WriteEvent`,
`RemoveIntent`. A render is `StartRender`, `BeginRender` (it raises its barrier, if the revision
has not changed: else `RenderRefused`), `StartOperation`, `PublishReceipt`, a transition,
`PublishOutput` and `LowerBarrier`. The `try` of `#runRender` begins with `StartOperation`: an error
before it leaves the barrier (`StrandBarrier`), one in it (`RenderFails`, `CommitRefused`,
`CallFails`) leads to `Settle`, which records the failure or fails itself, and to `LowerBarrier`
or `LowerFails`. QA, review, approval and delivery are `Evaluate`,
`RecordChecklist`, `PublishDelivery` and transitions. A reader does `Scan`, `Resolve` per
intent, `FindEvents`, `RecoverActivation`, `ReadReceipt` or `ReadFails`. `Edit`, `Undo`, `Redo`
and `Crash` disturb. Committing is one step: `CommandEngine` shows that it is one.

**What the promises leave out.** `raced`: a reader's recovery took a writer under way for a dead
one; `rewound`: an undo or redo brought back an older approval state. After either the
events of the output may no longer be a valid chain, and reading it fails. `stranded`: an error
ended the render after its barrier was raised and before its clean-up covers it, or in the
lowering itself; like a crash it leaves a barrier without an owner.

## PreviewScheduler

**State.** `transport`, `frame`, `composite`; `layer`, the lifecycle of each layer; `playing`;
`slots`, the preloads in flight; `op` the operations that run, each `fresh` until a newer
session cancels it; `work` what it has asked of each layer. `Transitions` and
`LifecycleTransitions` are the code's tables, for the states that can be reached.

**Actions.** `Seek` with `AdapterAnswers`, `AdapterRefuses`, `SeekHalted`, `Rejected`,
`SeekEnds`; `Preload`/`PreloadEnds`; `RequestFidelity`; `Play`, `Pause`, `Stop`, `Dispose`
with their ends; `Report`, `DriftFound`, `ReportEnds`; `Advance`.

**What the promises leave out.** `LastCommandHolds` speaks of a last command that had the
preview to itself (`last.clean`), `LayersKeepTheirBooks` of executions in which no two
operations worked on the layers at once (`crowded`): seeks may be overtaken by play, pause,
stop, reports and disposal, but two seeks or preloads side by side break it.

## Timeline

**State.** `doc`, a document (`IsDocument`); `did`, the last accepted command. `Read` and
`Write` are `timelineDocumentToSnapshot` and its inverse, which is not one: what the
document does not keep (a clip's source beyond its end, a track's bus, a nested sequence) is
made up when it is read. Every command is applied to `now`, what the document reads as, and
must end in a snapshot that is `Valid`.

**Actions.** One per command: `Move`, `MoveToNewTrack`, `Insert`, `Overwrite`, `Replace`, `Copy`
(duplicate and paste), `Link`, `Split`, `Trim` (with and without ripple, each clip by an edge
and to a frame of its own), `Delete`,
`RippleDelete`, the ranges, tracks, markers and keyframes, `Roll`, `Slip`, `Slide`,
`Compound`.

**Reference definitions.** The properties do not repeat the arithmetic of the commands: they
compare what a track *shows* before and after, frame by frame. A ripple delete is a cut; a split
changes nothing shown; keyframes and content markers stay on the frame of the asset they
were on; a ripple delete undoes an insertion. Three things are excepted from
`KeyframesStay` besides what is meant to move an asset under its keyframes (a slip, a
replacement): a ripple trim of a beginning, a slide of linked clips that are neighbours, and the
setting of the keyframe itself.

**Abstraction.** The clip a caller makes up is `NewClip`, of the asset "new"; `Starts` are any
documents that read back valid. A trim's content markers are carried by one shift per trimmed
clip, in the order of the request, which is any order. Two narrowings: several clips are moved
by one distance to their own tracks (the code takes a start and a track for each), and a
replacement begins where what it replaces began (the code takes any range).

**What the promises leave out.** The command that was accepted last names itself in `did`. Two
kinds of a trim, "trim-apart" and "ripple-in-apart", say that it gave linked clips different edges
or frames: the code asks only that all of them are named, and `LinkedStayInStep` is about the
other trims.

## Runs

| run | distinct states | what it shows |
| --- | --- | --- |
| `lock_safety` | 90,669 | exclusion, no displacement, refinement of the lease, every call returns |
| `engine_safety` | 371,708 | authority, at-most-once, truth of receipts, no lost update, refinement of the log |
| `engine_history` | 513,132 | undo and redo move along a tape and restore what they reach |
| `engine_liveness` | 359,480 | the working file equals authority in the end; a command that got the lock ends with a receipt |
| `worker_supervisor` | 15,217 | stop is final, no stray worker, pings judge their own worker, everything settles |
| `studio_client` | 396,158 | stale only with news on the way, never backwards, no event lost unnoticed, settles |
| `studio_server` | 177,564 | leases pin the project, nothing outlives it, job states are final, shutdown and leases end |
| `render_lifecycle` | 1,785,897 | events, revisions and journal agree, no transition is forgotten, receipts stay readable, barriers have owners |
| `preview_session` | 315,830 | the session is current, playback is sound, controls act on what was seen, everything settles |
| `preview_scheduler` | 1,062,996 | the last command holds; layers and slots are accounted for |
| `timeline` | 208,501 | documents reopen, anchors stay on content, cuts keep the rest, locks and links are respected |
| `project_recovery` | 1,654,357 | authority stands; sessions, receipts and autosaves are kept right |

**Bounds, and why they are enough.** Each property of each run fails under at least one
plausible bug at these bounds, and every action fires.

- `lock_safety` has two processes, which play more parts than two: one that crashes or
  is refused begins anew, so the process that observes a stale lock, the one that
  replaces it and the one that loses it are all there, and the repairer is a third
  actor on the file. One crash leaves the abandoned gate, an unwritten file or an
  expired one; lost leases, I/O errors and repairs are unlimited. Four tokens are
  enough for a fresh one to exist whenever one is drawn. The proofs cover any number
  of processes for all of its properties but `CallsReturn`.
- `engine_safety` has two executors and two commands, each under its own key and
  retried without limit, with one crash, one I/O error and any number of broken
  leases: so a commit can lie between any two steps of another and a retry of
  either.
- `engine_history` has one executor, since history is what a *sequence* of commands
  does: four commands, enough for two edits, an undo of two and a redo, and an
  operation whose barrier refuses some of them.
- `engine_liveness` has two executors of source edits and undos and one outside edit:
  one command's materialisation can be overtaken by another's commit only if the lock fails.
- `worker_supervisor` has two chains, the least at which one chain can overtake another;
  three workers, so that one can be attached while one replaced and one terminated
  still run; one request and one ping, whose handler can be late; and two restarts, so
  that the budget is neither empty nor used up at once.
- `studio_client` has a ring of two events and up to four published, so that a cut may lose
  what is needed; two commands of others, an edit that can be stale and sent again, one cut or
  failed request.
- `studio_server` has two projects, so that one replaces another; a job with and one without a
  lease; a command that outlives its project; a chain of two activations.
- `render_lifecycle` has one output, for outputs share only the approval state; a writer and a
  reader at once; four requests, which is a render, a QA run, an approval and a delivery; two
  disturbances.
- `preview_session` has a timeline of several frames that an edit shortens; two transitions
  (open, close), one load past the queue, three controls, one failure.
- `preview_scheduler` has two layers, of which one frame shows one and the other both; two
  operations at a time, begun without limit.
- `timeline` takes every sequence of two commands from a timeline with linked pairs, one
  with a gap, a still, overlapping sounds and a locked track, and a row of clips two of which
  are linked neighbours: the second command works on what was made up after the first. Frames
  go up to 7.
- `project_recovery` has two requests at a time out of six, four revisions, one session, one
  kept autosave, a crash and an outside edit: enough for a repair to come between the steps of
  a commit, for a session to be tried twice, and for an autosave to be dropped. Four revisions
  are the least at which an orphan's parent can be rejected between its audit and its adoption.

Permutations of processes, commands, tasks and calls are symmetries in the runs that say so;
runs that check liveness use none.

**Deadlock** is checked in the first five runs. The others say `CHECK_DEADLOCK FALSE`: a
client, a preview or a timeline whose bounds are used up, and a server after its shutdown, do
really stop.

**Fairness.** In `MutationLock` and `CommandEngine` a process that has begun keeps going: each
awaited call settles, because Node resolves or rejects the promise of every file system call
and nothing in these paths waits for another process. Hence `WF` on each process's steps.
In `MutationLock` time passes (`WF` of `Expire`) and a holder finishes its work (`SF` of
`FinishWork`, since heartbeats in between disable it again and again: `finally { await
lock.release() }` is reached when the command's own work ends). Callers of the lock may
retry. Crashes, errors, repairs, clients and outside editors are never fair.

In `WorkerSupervisor` a creation settles, a queued handler runs (`WF`), timers go off and
a terminated worker exits (`SF`, since these events wait for the loop to be idle, which
other calls can interrupt again and again, but they are queued and their turn comes).
`createTransport` spawns a process and returns, and `SIGTERM` ends one: a worker that
ignores it is not covered by `SupervisorSettles`. Workers need not answer, and may crash or not.

In `StudioClient` the server answers and announces, and a subscriber reconnects and reads; no
one need commit or edit. In `StudioServer` awaited calls settle, tasks end (they look at their
signal, or finish), the chain of activations and the shutdown go on; nobody need ask for
anything. In `PreviewSession` what was begun goes on, a commit is announced, the queue runs and
the interval fires. The other modules state no liveness.

## What is proved

The theorems hold for every number of processes, tokens, commands, operations, workers,
calls, projects, jobs, events, outputs, layers and failures. The assumptions are those the
modules name: the null value is none of the things it stands in for, bounds are natural
numbers, commands have keys, operations have a kind and a positive number of steps, the ring
holds at least one event (`LockAssumption`, `EngineAssumption`, `SupervisorAssumption`,
`SessionAssumption`, `ServerAssumption`, `ClientAssumption`); each revision has a timeline of
some number of frames, and controls are those of `PreviewControls`, with integers where the
code checks for them (`PreviewAssumption`); verdicts are the three of QA, and readers are
processes (`LifecycleAssumption`); a timeline of the scheduler has a frame, and each frame a
set of layers (`SchedulerAssumption`); session names are not the numbers that name
autosaves, a dead process is no task, and at least one autosave is kept
(`RecoveryAssumption`); clips have an order, audio tracks are tracks (`TimelineAssumption`), and
a timeline begins as a document that reads back valid (`StartsAssumption`). TLC evaluates all of
them in the runs.

Every step of a model is one action, so each proof has one step per action and part of the
invariant; what an operator of the model returns, and which actions touch a variable, are
lemmas that the steps cite.

**The lock.** `TypeOK` and `GateExclusive` are inductive (the second on top of the first).
`MutualExclusion` is not: it does not say why a process in the recovery gate does no
harm. The strengthening `LeaseInv` adds, as long as the discipline holds, that a
holder's file is its own *and unexpired*, and that whoever is about to quarantine is
looking at an expired file. So the file it moves has no holder; only one process is
in the gate, and a live file cannot replace an expired one except through the gate.
From `IInv` (types, gate, lease) follow `MutualExclusion`, `HolderOwnsFile`, the action
property `LiveLockNotDisplaced`, and the refinement `ImplementsLease`, whose step lemma
`LeaseRefined` takes each action to an acquisition, a drop, a break or a stutter.

**The engine.** `TypeOK` is not inductive alone: that a published revision is well typed
depends on the stacks it pops being high enough and on its parent being published.
`StoreInv` says that ids are fresh, that published revisions refer to published ones
and descend from smaller ids, and that the pointer is published. `JobInv` says, for
each step of a command, what it has established: its loaded revision is its base, its
stacks fit, its staged id is its own. Together they are inductive and give
`AuthorityComplete`: through every crash, error and broken lease, the pointer names a
published revision with a published ancestry. `LeaseInv` adds that while the lease
holds, a command that publishes or swaps has loaded the very pointer it replaces, and
gives `NoLostUpdate`. The lemmas on sequences (`ReverseSeq`, `PieceSeq`, `StackMove`)
show that moving several entries between the undo and redo stacks stays within the
published revisions.

What a retry may do needs more. `LineageInv`: a revision was made by a command that was built
on its parent. So two ancestors made by one command would have one parent, and of two children
of one revision only one can be an ancestor of the pointer: this is `AtMostOnce`, and it needs
neither the receipts nor the lease. `ReceiptInv` says that what a command is about to
publish or has just swapped in is its own, and that a receipt is filed under its command's key;
`OutcomeInv` that between the second look for a receipt and the writing of one there is none,
and that what took effect has a receipt or is about to have one. From them follows
`ReceiptsAreTrue`, in whose second half, that a failed receipt had no effect, crashes and errors
are the exception the property names. `SyncInv` follows a source from the swap to the working
file (`WorkingFileInSync`). `Restores` states what `HistoryRestores` does of any set of
revisions: undo stack, content and redo stack are one *tape*, its entries rise, and only an edit
changes it; the lemmas say that a move along the tape leaves it as it is. `LogInv` says that the
ancestry is finite and its commands are distinct; the step lemma then takes a swap to one append
and every other step to a stutter, which is `ImplementsLog`.

**The supervisor.** `TypeOK`, `StopHolds` and `HealthyIsSupervised` are inductive together.
The rest needs `OneLife`: undisturbed, there is one chain in flight or one worker
attached, never both, only the attached worker is live, every open call and every
failed ping went to it, and no ping handler is queued while a transport is being
created that will be attached. The last part is the argument for `PingsJudgeOwnWorker`:
the delay before a restart is an event of the loop, so the handlers of the old
worker's pings have run before a new one can be attached; and it is where
`Idle` is needed.

**The server.** The properties are not inductive by themselves. `LeaseInv` adds that no lease is
held while the open project is being closed or replaced, and that a leased task runs under its
lease. `WatchInv` is the argument for the watchers: an opening puts its activation *behind* the
one that is running, so whatever the earlier one does, the last one in the chain is for the
project that is open. `StopInv` says that once the shutdown closes the project there are no
leases and the only transition is its own; `CountInv` that nobody else waits for the chain.
From `IInv` follow `LeasePinsProject`, `NothingOutlivesItsProject` and, with the types,
`TerminalIsFinal`.

**The client.** `WireInv` says that the connection holds consecutive events up to the last one
published, from some point no later than the cursor needs: hence the next event read is the one
after the cursor or one already read (`NextEvent`), and `ImplementsFeed` follows from it for
every ring. `FetchInv` says that what the running resync has got is not older than what is
shown, and that if it is not current there is *news*: a command not announced, an announcement
not read, or another resync queued. `NewsKept` shows that news is lost only by the reading
of an event that queues a resync. So a snapshot that is applied too late is always followed by
another, which is `StaleOnlyWhileRefreshDue`, and the revision never goes back.

**The preview session.** `BegunInv` says what a refresh that is under way still knows: if the
session has not been set since it began, its project is the open one and the clock it stopped
has not been started. `FreshInv` is the argument for `SettledSessionIsCurrent`: a
session that is out of date has a synchronisation due, which is a commit not announced, one in
the queue, or one at its head that will read the new revision (`Covered`); a load past the queue
is right whenever setting the session by it counts. `ClockInv` ties the interval to the playing
state whenever nothing is being refreshed. `SeenInv` is why `ControlsActOnWhatWasSeen` holds
although versions are compared at the end of the queue: within one session no control
knows a later version than the session's own, one that knows the same was sent when the session
was last set, and a synchronisation that is running found the session as it still is, or
another.

**The scheduler.** `Asked` says what each kind of operation may have asked of a layer, `Books`
that operations that came one at a time have one worker among them whose layers are in the state
that worker waits for, and that the slots are its. `Obeyed` follows the last command: while its
operation runs the transport and the adapters are as it needs them (`Prepared`, and `Sought` for
a seek, which has the layers to itself), and afterwards it is `Achieved`; every other operation
is harmless, since it is stale or does not touch what the command is about. Late answers are the
heart of it: `SeekIsAlone`, `KeptSeek` and `KeptCommand`. From these follow `LastCommandHolds`
and `LayersKeepTheirBooks`.

**The render lifecycle.** `Typed` and `Shapes` say what a request holds at each step. `Renders`:
an output is rendered once, by one request. `Lineage`, `Bounded` and `Ranked`: revisions speak of
an output only after its render's base, what has a number has one that was given out, and a set
of events has a latest. `TransactionsSound`: a transaction starts from a revision and its
state, was committed right after that revision if it was committed at all, has a number and a
writer of its own, and stands as far as its writer has got. `EventsTrue` and
`JournalNeverAhead`: events and journals speak of revisions authority has. `Recorded`: a
transition keeps an event or an intent, short of a race. With `BarriersHaveOwners` they are
inductive (`IInv`), and give `RecordsAgree` and `CommitIsRecorded`. That a render which fails goes
through `Settle` and `LowerBarrier` (`WindsUp`), still as the render it was, is what
`BarriersHaveOwners` rests on.

That receipts stay readable needs `ReceiptInv` on top. A writer sweeps before it commits
(`Swept`): whatever earlier transition of the output had lost its event has it again by the time
of the commit, unless it is `raced`, so only the last transition of an output may lack its event
(`Complete`). The revisions of an output obey the table of transitions and its activation is the
revision after the one that was rendered (`Ordered`, `Aimed`), the approval state does not move
but by transitions (`Steady`, short of an undo that moved it), an activation that was made up is
the only one (`Sole`), and a delivery record names the event of a delivery (`DeliveryHeld`). So
the events are consecutive transitions, which is what the reader of a receipt checks:
`ReceiptsReadable`. Each part was first run as an invariant by TLC.

**Recovery.** `TypeOK` includes the lock: whoever is between `Lock` and `Record` holds it, so
two commits never overlap, and all that can come between one's steps is a repair. The lemmas on
walks (`Walk…`) say what a `Chain` or a `Line` becomes when a revision is published, rejected
or made current; they need no induction, as both are closures.

`DoneOnce` rests on `OriginInv`: all revisions made by one session, or by restoring one
autosave, have one parent (`SiblingInv`), because every attempt of a session starts from the
base in its file (`SessionInv`) and an autosave is restored only onto the revision it was
made from (`RestoreInv`). And of two children of one parent only one can be behind a pointer
(`LineUnforked`), whatever the repairs do with it. `ReceiptInv` is about one publisher under
the lock: without crashes, a revision of a session that has no receipt belongs to the commit
that will write it, and one whose receipt says "failed" was rejected. `WriterInv` says that
an uncontended writer of the metadata has read what is there; keeping the newest of the
listed and one more is the same as keeping the newest of all that were ever completed
(`NewestOfMore`).

`AuthorityStands` is proved from `StandsInv`. `Whole`: what the next pointer needs and is gone is
on record. `Covers`: what was accepted, if it is not on record, is behind the pointer and behind
whatever a commit is about to make the pointer. An orphan that is adopted is a child of the
revision that was current when the request came, so what was covered stays covered; from the
audit to the write this can be disturbed by a commit or another repair (then the pointer has
moved), or by a rejection. That a rejection may hit what a commit or a repair is about to
point at, and that an orphan may be adopted while a commit is past its check of the base, are
exceptions which the proof brought to light: three revisions are too few for TLC to reach them.

**Timeline edits.** The inductive invariant is only that `doc` is a document and
`DocumentsReopen`; all the work is in the commands. Each accepted one writes a snapshot of which
three things are shown (`Fine`): it is a timeline, it leaves the clips of locked tracks as they
are (`Respects`), and it keeps keyframes on their frames (`Anchored`), but for the exceptions.
There is a lemma of this form per command; what `Read` and `Write` do to a timeline is proved
once, and so `DocumentsReopen` and the halves of `AnchorsStayOnContent` and
`EditsRespectLocksAndLinks` that are about every command follow for all of them. That a snapshot
was `Valid` before it was written is what most of them rest on.

The others are about a few commands and compare documents (`IsWritten`). A split shows at each
frame what it showed, as one of the two parts holds the frame (`SplitShows`). For a ripple
delete, `Below` counts the deleted frames before a frame: it grows by at most one per frame, so
a clip without deleted frames inside moves as one piece, and no other frame of its track can
come to lie where it does (`CutMoves`); hence `RippleDeleteIsACut`, and the ripple delete's part
of `MarkersStay`. On tracks that are linked clip by clip, what is deleted or trimmed on one
track has its mirror image on the partner track (`Mirrored`), so both close up by the same
(`LinkedStayInStep`), if a trim gives linked clips the same edge and frame (`Alike`). An insertion gives each clip `Room`; the gap a ripple delete of the new
clip then finds is that room, for clips, keyframes and content markers (`GrownBack`):
`InsertionIsUndone`. One exception of `KeyframesStay` was found by its proof: of linked clips
that are neighbours a slide moves only the last, trims the others, and shifts the keyframes of
all. The third scene of the run is there for it.

`TypeCorrect`, `Invariant`, `GateCorrect`, `HolderOwnsFileCorrect`, `HealthyCorrect`,
`CallsFollowCorrect` and `InvCorrect` state invariants that no run lists, since what could
go wrong there shows in the properties the runs check; they are the parts of the inductive
invariants a reader will look for.

**Only model-checked.** The liveness properties, which are out of the prover's reach
(`CallsReturn`, `LockedCommandSettles`, `SupervisorSettles`, `ClientSettles`, `WorkEnds`,
`PreviewSettles`). All other properties that a run checks, every invariant, every action
property and every refinement, are stated by a theorem.

## What the models show

Consequences of the code that the models exhibit and that its documents or readers may not
expect. They are where the properties above have their exceptions.

**Lock and authority.**
- `docs/RECOVERY.md` says "a live lock is never overridden". The repair checks the expiry,
  hashes the file and renames it; a heartbeat or a recovery in between makes it a live lock
  that is moved away (`cleared`).
- A process that dies inside the recovery gate leaves `.chai-lock-recovery`; nothing removes it
  and every later recovery is refused as busy (`tests/integration/project-lock.test.ts`
  "recovers an expired lock under an exclusive recovery gate"). One that dies between creating
  and writing the lock file leaves an empty one, which has no expiry (ADR 0005: "Locks expire
  explicitly").
- When a lease runs out between a release's ownership check and its unlink, the release removes
  its successor's lock; when it runs out during a commit, the pointer replacement discards what
  was committed meanwhile, since the base was compared before staging and the engine sends no
  heartbeat (`broken`).
- A process that dies after the pointer swap and before the receipt leaves a command whose
  retry is stale against the revision it made itself and is recorded as failed
  (`governance/contracts/02-command-authorization.md`: "Exact replay returns the recorded
  decision/result"). `ReceiptsAreTrue` shows that the converse does not happen.
- A barrier raised after an undo's check does not block it (`tests/integration/history.test.ts`);
  a save between the hash check and the write of a working file is overwritten, where ADR 0005
  says that external changes are quarantined.

**Recovery.**
- Pointer repairs take no lock. They may replace the pointer under a commit, and rejecting an
  orphan may quarantine a revision that a commit has published and not yet pointed at, or that
  another repair is adopting. Rejecting an orphan and then recovering to its child leaves a
  pointer with a missing ancestor.
- `recover-pointer` begins with a snapshot of the current revision, so all it can do is replace
  a valid pointer by an orphan. `docs/RECOVERY.md` says "A valid current pointer cannot be
  replaced through this recovery path"; that is true of `recoverInvalidProjectPointer`, which no
  application calls.
- Opening a project clears the mark of clean shutdown before any scan, so every scan after an
  opening offers autosaves as if the shutdown had been unclean.
- After a crash between pointer swap and materialisation the scan takes the stale working file
  for an outside edit, and its adoption reverts the accepted edit. Adoption and restoration do not
  write the working file.
- A retried `commitSourceEdit` builds a new `issuedAt`, so its replay is refused and a failed
  session can only be aborted; an abort during a commit succeeds although the edit commits.

**Server and client.**
- A cancelled job whose task still holds its lease makes the shutdown fail
  (`governance/P07_ACCEPTANCE.md`: "idempotent graceful shutdown").
- Jobs are never seen "queued": a task starts in the microtask after it is enqueued, so changing
  a priority has no effect. Commands and asset jobs take no lease and outlive their project; a
  late command's event makes the hygiene service watch whatever is open by then.
- A subscriber whose next event has left the ring gets an error and tries again with the same
  cursor for ever (`apps/studio-web/STATE_ARCHITECTURE.md`: "replay loss triggers a snapshot
  resync before new events are applied"). A restart of the server changes the session
  token, after which an old page is refused for ever.
- A resync that fails is not tried again: the page stays stale until the next event.

**Rendering.**
- A reader's recovery takes every intent it finds for a dead writer's: it discards the intent
  of a commit under way, or makes up the activation event the writer is about to write, and
  then the output cannot be read any more (`raced`).
- Undo brings back the approval state of an older revision, so the next transition does not
  continue the chain of events (`rewound`); edits keep it, though
  `governance/contracts/03-qa-delivery-lifecycle.md` has them invalidate it to
  "rendered_unchecked".
- A barrier is left, and undo and redo are blocked with it, by a crash, by an error between the
  creation of its file (`operation-barrier.ts:42`, before it is written and synced) and the `try`
  of `#runRender` (`render-service.ts:1766`; the journal is read and begun in between), and by
  an error of `completeAsyncOperation` (1880). No other end of a render leaves it.
- A second QA run that ends late resets a checklist; a render whose revision has changed before it begins leaves its journal
  "pending"; a render may be reported failed whose output was activated and is recovered.

**Preview.**
- A synchronisation that resumes after an unload or a closing brings back the session of a
  closed project; a load outside the queue races one; a failed refresh stops the clock of a
  session that still says playing; versions restart at 1 on a load, so a control meant for the
  replaced session is accepted.
- In the scheduler a seek while "seeking" cancels the first, throws, and leaves the transport
  "seeking" until another command (`governance/P09_ACCEPTANCE.md`: "Seek barriers cancel the
  prior session"); late ends of play, pause and stop override what came after them;
  overlapping preloads put a layer in "error" or lose a slot; nothing recovers from "error"; a
  seek in flight during a disposal still composes a frame, and audio can begin after it.

**Timeline.**
- A document keeps neither the bus of an empty track, nor a nested sequence, nor a clip's source
  beyond its end. An emptied audio track, a sound moved to a video track or a compound clip
  leaves a document that reads back invalid and refuses every later edit
  (`docs/PROFESSIONAL_EDITING.md`: "Nested timing and dependencies survive revision
  reopen"); clips cannot be lengthened again after a save, stills cannot be trimmed.
- Links and keyframes of locked tracks can be edited. Moves, insertions, overwrites and most
  ripples take linked clips apart, and so does a trim that names them with different edges or
  frames, which is accepted as long as it names them all; a split of a linked pair leaves four clips in one link group;
  a ripple trim of the beginning leaves keyframes where they were; markers shift with an
  insertion on any track; a content marker beyond the end makes an insertion refused; a roll may
  shorten a timeline below its in and out range.
- A slide of linked clips that are neighbours on one track computes each of them from the
  snapshot, and the last one written wins: the others are not moved, but trimmed as
  neighbours (`docs/PROFESSIONAL_EDITING.md`: "Slide holds the selected clip's duration and
  source range fixed while changing its position").

## Not modelled, and what is left

Left out of modelled components: `Timeline` selection, groups, properties, automation,
transitions, nested validation, takes, playback rates and speeds other than 1; the debounced
autosave controller; asset relinking, quarantine of stray paths and the cleaning of
interrupted jobs; named versions; the contents of receipts and packages; the setters and
warnings of the preview scheduler. `PreviewSession` has one project at a time opened and closed,
not switched. Whole components: see *Inventory*.

What a continuation would take up, in this order:

1. Transitions and automation of the timeline, and its groups, with the same properties: what is
   anchored to a clip follows it.
2. The render DAG and the artifact store, should an application come to use them.
3. Several outputs in `RenderLifecycle`, and a project that is switched under `PreviewSession`.
