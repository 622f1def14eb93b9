--------------------------- MODULE PreviewScheduler ---------------------------
(* The preview scheduler of packages/preview: PreviewScheduler of           *)
(* scheduler.ts over transport-machine.ts, layer-lifecycle.ts and           *)
(* master-clock.ts.  Every operation is asynchronous: it begins a session   *)
(* of its own, which cancels the one before, calls the adapters, and goes   *)
(* on when they answer, whatever other operations have done meanwhile.  A   *)
(* call to an adapter or to the audio follower acts on it at once and is    *)
(* answered later; halting, suspending and disposing are never refused.     *)
EXTENDS Naturals, FiniteSets

CONSTANTS
  Layers,       \* the layers of the graph, each with an adapter
  TimelineFrames,  \* the frames of the timeline
  Active,       \* the layers shown at each frame
  Calls,        \* operations that may run at once
  MaxPreloads   \* maximumPreloadConcurrency

Frames == 0 .. TimelineFrames - 1

ASSUME SchedulerAssumption ==
  /\ TimelineFrames \in Nat \ {0}
  /\ Active \in [Frames -> SUBSET Layers]
  /\ MaxPreloads \in Nat \ {0}

VARIABLES
  transport,  \* the state of the transport machine
  frame,      \* the master frame of the clock
  composite,  \* the frame last composed, and its layers
  layer,      \* the lifecycle of each layer
  playing,    \* the layers whose adapter has been told to play
  slots,      \* #inFlightPreloads
  op,         \* the operations that run
  work,       \* what each operation has asked of each layer
  last,       \* the last command, and whether it had the preview to itself
  crowded     \* two operations have worked on the layers at once

schedulerVars ==
  <<transport, frame, composite, layer, playing, slots, op, work, last, crowded>>

-----------------------------------------------------------------------------
(* Transport and layers are state machines; an event or a state that is not *)
(* allowed throws and leaves them as they are.                              *)

Transitions ==
  [stopped |-> [load |-> "loading", play |-> "playing", seek |-> "seeking",
                dispose |-> "disposed", fail |-> "error"],
   paused |-> [play |-> "playing", stop |-> "stopped", seek |-> "seeking",
               buffer |-> "buffering", fail |-> "error", dispose |-> "disposed"],
   playing |-> [pause |-> "paused", stop |-> "stopped", seek |-> "seeking",
                buffer |-> "buffering", fail |-> "error", dispose |-> "disposed"],
   seeking |-> [ready |-> "paused", play |-> "playing", buffer |-> "buffering",
                stop |-> "stopped", fail |-> "error", dispose |-> "disposed"],
   error |-> [recover |-> "loading", stop |-> "stopped", dispose |-> "disposed"],
   disposed |-> [none |-> "disposed"]]

Allowed(event) == event \in DOMAIN Transitions[transport]
After(event) == IF Allowed(event) THEN Transitions[transport][event] ELSE transport

LifecycleTransitions ==
  [unloaded |-> {"preloading", "disposed"},
   preloading |-> {"ready", "error", "disposed"},
   ready |-> {"preloading", "presenting", "suspended", "error", "disposed"},
   presenting |-> {"ready", "suspended", "error", "disposed"},
   error |-> {"preloading", "suspended", "disposed"},
   disposed |-> {}]

MayBecome(state, next) == next \in LifecycleTransitions[state]

(* The outcome of a step of an operation on a layer: the layer's new state, *)
(* and what the operation waits for or has got: "preload" and "load" wait   *)
(* for the adapter to preload, "present" for a frame, "shown" and "loaded"  *)
(* have succeeded, "refused" and "failed" have been caught, the first by    *)
(* the adapter's fault and the second by the lifecycle's, and "thrown" has  *)
(* made the whole operation reject.                                         *)
Outcome(state, progress) == [state |-> state, progress |-> progress]

(* The catch block of a seek, or of a preload, which does not look for      *)
(* disposed layers.                                                         *)
CaughtBySeek(state, fault) ==
  IF state = "disposed" THEN Outcome(state, fault)
  ELSE IF MayBecome(state, "error") THEN Outcome("error", fault)
  ELSE Outcome(state, "thrown")

CaughtByPreload(state, fault) ==
  IF MayBecome(state, "error") THEN Outcome("error", fault) ELSE Outcome(state, "thrown")

(* transitionLifecycleForPreload.                                           *)
BeginPreload(state, progress) ==
  IF MayBecome(state, "preloading") \/ state = "preloading"
  THEN Outcome("preloading", progress) ELSE Outcome(state, "thrown")

(* A seek comes to a layer: it is preloaded first when it has to be.        *)
BeginPresent(state) ==
  IF state \in {"unloaded", "error"} THEN BeginPreload(state, "load")
  ELSE IF MayBecome(state, "presenting") THEN Outcome("presenting", "present")
  ELSE CaughtBySeek(state, "failed")

(* What an answered call leads to.                                          *)
Answered(state, progress) ==
  CASE progress = "preload" ->
         IF MayBecome(state, "ready") THEN Outcome("ready", "loaded")
                                ELSE CaughtByPreload(state, "failed")
    [] progress = "load" ->
         IF MayBecome(state, "ready") THEN Outcome("presenting", "present")
                                ELSE CaughtBySeek(state, "failed")
    [] progress = "present" ->
         IF MayBecome(state, "ready") THEN Outcome("ready", "shown")
                                ELSE CaughtBySeek(state, "failed")

(* Faulty: a refusal leaves the layer in the state it is in.                *)
X_Refused(state, progress) == Outcome(state, "refused")

Refused(state, progress) ==
  IF progress = "preload" THEN CaughtByPreload(state, "refused")
                          ELSE CaughtBySeek(state, "refused")

-----------------------------------------------------------------------------
Nothing == [l \in Layers |-> "none"]
Unused == [kind |-> "none", step |-> "none", fresh |-> FALSE, target |-> 0]
Begin(kind, step, target) ==
  [kind |-> kind, step |-> step, fresh |-> TRUE, target |-> target]

(* The constructor: load and ready.                                         *)
SchedulerInit ==
  /\ transport = "paused" /\ frame = 0
  /\ composite = [frame |-> 0, layers |-> {}]
  /\ layer = [l \in Layers |-> "unloaded"]
  /\ playing = {} /\ slots = 0
  /\ op = [u \in Calls |-> Unused] /\ work = [u \in Calls |-> Nothing]
  /\ last = [kind |-> "none", target |-> 0, clean |-> FALSE]
  /\ crowded = FALSE

Usable == transport \notin {"disposed", "error"}
Free(u) == op[u] = Unused
SomeRuns(kinds) == \E v \in Calls : op[v].kind \in kinds

(* Faulty: the session before is not cancelled.                             *)
X_NewSession(u, begun) == op' = [op EXCEPT ![u] = begun]

(* #newSession: the operation's session is the newest, every other is stale. *)
NewSession(u, begun) ==
  op' = [v \in Calls |-> IF v = u THEN begun ELSE [op[v] EXCEPT !.fresh = FALSE]]

End(u) ==
  /\ op' = [op EXCEPT ![u] = Unused]
  /\ work' = [work EXCEPT ![u] = Nothing]

(* A command is remembered with whether it may count on being the last: a   *)
(* seek may be overtaken, and nothing else is under way when it comes.      *)
Commands == {"seek", "play", "pause", "stop", "dispose"}
Command(u, kind, target, legal) ==
  LET harmless == {"none", "report"} \cup
        CASE kind = "seek" -> {} [] kind = "dispose" -> {"seek", "preload"}
          [] OTHER -> {"seek"}
  IN last' = [kind |-> kind, target |-> target,
              clean |-> /\ legal
                        /\ \A v \in Calls \ {u} : op[v].kind \in harmless]

(* A session that is none of the commands takes a seek's session away.      *)
Interrupt == last' = [last EXCEPT !.clean = @ /\ ~SomeRuns({"seek"})]

Crowds(u) ==
  crowded' = (crowded \/ \E v \in Calls \ {u} : op[v].kind \in {"seek", "preload"})

-----------------------------------------------------------------------------
(* seek, which stepFrames, stepSeconds, scrub and a hard resynchronisation  *)
(* end in.  Its session is begun before the transport is asked.             *)
SeekFrom(u, f) ==
  /\ Command(u, "seek", f, Allowed("seek"))
  /\ IF Allowed("seek")
       THEN /\ NewSession(u, Begin("seek", "halting", f))
            /\ transport' = After("seek")
            /\ playing' = {}
            /\ Crowds(u)
       ELSE /\ NewSession(u, Unused)
            /\ UNCHANGED <<transport, playing, crowded>>
  /\ UNCHANGED <<frame, composite, layer, slots, work>>

Seek(u, f) == Free(u) /\ Usable /\ SeekFrom(u, f)

(* All adapters have halted: the active layers present the frame.           *)
SeekHalted(u) ==
  /\ op[u].kind = "seek" /\ op[u].step = "halting"
  /\ LET shown == Active[op[u].target]
         begun == [l \in shown |-> BeginPresent(layer[l])]
     IN /\ layer' = [l \in Layers |-> IF l \in shown THEN begun[l].state ELSE layer[l]]
        /\ work' = [work EXCEPT ![u] =
             [l \in Layers |-> IF l \in shown THEN begun[l].progress ELSE "none"]]
  /\ op' = [op EXCEPT ![u].step = "layers"]
  /\ UNCHANGED <<transport, frame, composite, playing, slots, last, crowded>>

Waiting == {"preload", "load", "present"}
Proceed(u, l, outcome) ==
  /\ layer' = [layer EXCEPT ![l] = outcome.state]
  /\ work' = [work EXCEPT ![u][l] = outcome.progress]
  /\ UNCHANGED <<transport, frame, composite, playing, slots, op, last, crowded>>

AdapterAnswers(u, l) ==
  work[u][l] \in Waiting /\ Proceed(u, l, Answered(layer[l], work[u][l]))
AdapterRefuses(u, l) ==
  work[u][l] \in Waiting /\ Proceed(u, l, Refused(layer[l], work[u][l]))

Stages(u) == {work[u][l] : l \in Layers} \ {"none"}
Settled(u) == op[u].step = "layers" /\ Stages(u) \cap Waiting = {}
Thrown(u) == "thrown" \in Stages(u)
Shown(u) == {l \in Layers : work[u][l] = "shown"}

(* The operation has been rejected, and its calls are all answered.         *)
Rejected(u) ==
  /\ Settled(u) /\ Thrown(u)
  /\ End(u)
  /\ UNCHANGED <<transport, frame, composite, layer, playing, slots, last, crowded>>

(* Faulty: a seek that was overtaken presents its frame.                    *)
X_Presents(u) == TRUE

Presents(u) == op[u].fresh

(* The barrier: every layer, and the audio, is ready or has failed.         *)
SeekEnds(u) ==
  /\ op[u].kind = "seek" /\ Settled(u) /\ ~Thrown(u)
  /\ IF ~Presents(u) THEN UNCHANGED <<transport, frame, composite>>
     ELSE IF Active[op[u].target] # {} /\ Shown(u) = {}
       THEN transport' = After("fail") /\ UNCHANGED <<frame, composite>>
     ELSE /\ frame' = op[u].target
          /\ composite' = [frame |-> op[u].target, layers |-> Shown(u)]
          /\ transport' = After("ready")
  /\ End(u)
  /\ UNCHANGED <<layer, playing, slots, last, crowded>>

(* With all slots taken a preload only reports back-pressure.               *)
Preload(u) ==
  /\ Free(u) /\ Usable /\ slots < MaxPreloads
  /\ NewSession(u, Begin("preload", "layers", 0))
  /\ slots' = slots + 1
  /\ LET begun == [l \in Layers |-> BeginPreload(layer[l], "preload")]
     IN /\ layer' = [l \in Layers |-> begun[l].state]
        /\ work' = [work EXCEPT ![u] = [l \in Layers |-> begun[l].progress]]
  /\ Interrupt /\ Crowds(u)
  /\ UNCHANGED <<transport, frame, composite, playing>>

(* Faulty: a preload that an adapter refused keeps its slot.                *)
X_PreloadEnds(u) ==
  /\ op[u].kind = "preload" /\ Settled(u) /\ ~Thrown(u)
  /\ slots' = IF Stages(u) = {"loaded"} THEN slots - 1 ELSE slots
  /\ End(u)
  /\ UNCHANGED <<transport, frame, composite, layer, playing, last, crowded>>

PreloadEnds(u) ==
  /\ op[u].kind = "preload" /\ Settled(u) /\ ~Thrown(u)
  /\ slots' = slots - 1
  /\ End(u)
  /\ UNCHANGED <<transport, frame, composite, layer, playing, last, crowded>>

(* A frame or a range of rendered fidelity is asked for; what its           *)
(* compositor answers changes nothing here.                                 *)
RequestFidelity(u) ==
  /\ Free(u) /\ Usable
  /\ NewSession(u, Unused) /\ Interrupt
  /\ UNCHANGED <<transport, frame, composite, layer, playing, slots, work, crowded>>

-----------------------------------------------------------------------------
Play(u) ==
  /\ Free(u) /\ Usable
  /\ NewSession(u, Begin("play", "beginning", 0))
  /\ playing' = Layers
  /\ Command(u, "play", 0, TRUE)
  /\ UNCHANGED <<transport, frame, composite, layer, slots, work, crowded>>

(* An adapter refuses to play: play() rejects, and the others play.         *)
PlayRefused(u) ==
  /\ op[u].kind = "play"
  /\ End(u)
  /\ last' = [last EXCEPT !.clean = @ /\ last.kind # "play"]
  /\ UNCHANGED <<transport, frame, composite, layer, playing, slots, crowded>>

PlayEnds(u) ==
  /\ op[u].kind = "play"
  /\ transport' = After("play")
  /\ End(u)
  /\ UNCHANGED <<frame, composite, layer, playing, slots, last, crowded>>

Pause(u) ==
  /\ Free(u) /\ Usable
  /\ NewSession(u, Begin("pause", "halting", 0))
  /\ playing' = {}
  /\ Command(u, "pause", 0, Allowed("pause"))
  /\ UNCHANGED <<transport, frame, composite, layer, slots, work, crowded>>

PauseEnds(u) ==
  /\ op[u].kind = "pause"
  /\ transport' = After("pause")
  /\ End(u)
  /\ UNCHANGED <<frame, composite, layer, playing, slots, last, crowded>>

Stop(u) ==
  /\ Free(u) /\ Usable
  /\ NewSession(u, Begin("stop", "halting", 0))
  /\ playing' = {}
  /\ Command(u, "stop", 0, TRUE)
  /\ UNCHANGED <<transport, frame, composite, layer, slots, work, crowded>>

StopEnds(u) ==
  /\ op[u].kind = "stop"
  /\ frame' = 0 /\ transport' = After("stop")
  /\ End(u)
  /\ UNCHANGED <<composite, layer, playing, slots, last, crowded>>

(* The authoritative clock, driven from outside.                            *)
Advance ==
  /\ transport = "playing"
  /\ frame' = IF frame + 1 \in Frames THEN frame + 1 ELSE frame
  /\ UNCHANGED <<transport, composite, layer, playing, slots, op, work, last, crowded>>

(* hardResynchronizeIfRequired: the adapters report what they show, and a   *)
(* report of an older session is refused.                                   *)
Report(u) ==
  /\ Free(u) /\ Usable
  /\ op' = [op EXCEPT ![u] = Begin("report", "asking", 0)]
  /\ UNCHANGED <<transport, frame, composite, layer, playing, slots, work, last, crowded>>

ReportEnds(u) ==
  /\ op[u].kind = "report"
  /\ End(u)
  /\ UNCHANGED <<transport, frame, composite, layer, playing, slots, last, crowded>>

DriftFound(u) ==
  /\ op[u].kind = "report" /\ op[u].fresh /\ Usable
  /\ SeekFrom(u, frame)

(* dispose aborts the newest session, without beginning one of its own.     *)
Dispose(u) ==
  /\ Free(u) /\ transport # "disposed"
  /\ op' = [v \in Calls |->
       IF v = u THEN Begin("dispose", "halting", 0)
       ELSE [op[v] EXCEPT !.fresh = @ /\ op[v].kind = "report"]]
  /\ playing' = {}
  /\ Command(u, "dispose", 0, TRUE)
  /\ UNCHANGED <<transport, frame, composite, layer, slots, work, crowded>>

DisposeEnds(u) ==
  /\ op[u].kind = "dispose"
  /\ layer' = [l \in Layers |-> "disposed"]
  /\ transport' = After("dispose")
  /\ crowded' = (crowded \/ SomeRuns({"seek", "preload"}))
  /\ End(u)
  /\ UNCHANGED <<frame, composite, playing, slots, last>>

-----------------------------------------------------------------------------
SchedulerNext ==
  \/ \E u \in Calls :
       \/ \E f \in Frames : Seek(u, f)
       \/ SeekHalted(u) \/ SeekEnds(u) \/ Rejected(u)
       \/ \E l \in Layers : AdapterAnswers(u, l) \/ AdapterRefuses(u, l)
       \/ Preload(u) \/ PreloadEnds(u) \/ RequestFidelity(u)
       \/ Play(u) \/ PlayRefused(u) \/ PlayEnds(u)
       \/ Pause(u) \/ PauseEnds(u) \/ Stop(u) \/ StopEnds(u)
       \/ Report(u) \/ ReportEnds(u) \/ DriftFound(u)
       \/ Dispose(u) \/ DisposeEnds(u)
  \/ Advance

SchedulerSpec == SchedulerInit /\ [][SchedulerNext]_schedulerVars

-----------------------------------------------------------------------------
AtRest == \A u \in Calls : Free(u)

(* When nothing runs any more, the preview does what it was last told, as   *)
(* long as only seeks were overtaken: a frame that was sought is composed   *)
(* and is the clock's (or all of its layers failed), playback runs with     *)
(* every adapter, pausing, stopping and disposing have silenced them all.   *)
(* A late answer to an overtaken seek never shows.                          *)
LastCommandHolds ==
  AtRest /\ last.clean =>
    CASE last.kind = "seek" ->
           \/ transport = "error"
           \/ /\ transport = "paused" /\ playing = {}
              /\ frame = last.target /\ composite.frame = last.target
      [] last.kind = "play" -> transport = "playing" /\ playing = Layers
      [] last.kind = "pause" -> transport = "paused" /\ playing = {}
      [] last.kind = "stop" -> transport = "stopped" /\ playing = {} /\ frame = 0
      [] last.kind = "dispose" ->
           /\ transport = "disposed" /\ playing = {}
           /\ \A l \in Layers : layer[l] = "disposed"

(* Unless two operations work on the layers at once, a layer fails only by  *)
(* its adapter's fault, no operation is rejected half way, every preload    *)
(* gives its slot back, and at rest no layer is left half way.              *)
LayersKeepTheirBooks ==
  crowded \/
    /\ \A u \in Calls : Stages(u) \cap {"failed", "thrown"} = {}
    /\ slots = Cardinality({u \in Calls : op[u].kind = "preload"})
    /\ AtRest => \A l \in Layers : layer[l] \notin {"preloading", "presenting"}
    /\ \A l \in Layers : layer[l] \in {"preloading", "presenting"} =>
         \E u \in Calls : work[u][l] \in Waiting
=============================================================================
