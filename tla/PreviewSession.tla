---------------------------- MODULE PreviewSession ----------------------------
(* The preview session of the studio server: PreviewSessionService          *)
(* (preview-service.ts) over the pure transitions of session-state.ts, with *)
(* the project session it follows.  A commit is announced later             *)
(* (project.command), and the announcement queues a synchronisation; load   *)
(* and unload do not go through that queue.                                 *)
EXTENDS ProjectSession, Integers, Sequences, SequencesExt

CONSTANTS
  Loaders,       \* the HTTP requests that load a session
  Controls,      \* the controls clients send
  Duration,      \* the frames of the timeline of each revision number
  MaxTransitions, MaxLoads, MaxControls, MaxFailures, MaxTick  \* bounds

Revisions == DOMAIN Duration
Ranges == {g \in [start : Nat, end : Nat] : g.start < g.end}

Sessions ==
  [id : Nat, root : Roots, revision : Revisions, frame : Nat,
   rate : {-1, 1}, loop : Ranges \cup {None},
   transport : {"paused", "playing", "stopped"}, version : Nat \ {0}]

(* What a client can ask for: play, pause, stop, seek, step by frames or    *)
(* seconds, play the other way, loop over a range or not at all.            *)
PreviewControls ==
  [kind : {"play", "pause", "stop"}]
  \cup [kind : {"seek"}, frame : Nat]
  \cup [kind : {"step"}, delta : Int \ {0}]
  \cup [kind : {"rate"}, rate : {-1, 1}]
  \cup [kind : {"loop"}, range : Ranges \cup {None}]

ASSUME PreviewAssumption ==
  /\ Duration \in Seq(Nat) \ {<<>>}
  /\ Controls \subseteq PreviewControls
  /\ Holders = {}
  /\ None \notin Sessions \cup Ranges

VARIABLES
  revision,  \* the current revision of each project
  notices,   \* commands committed and not yet announced
  session,   \* the preview session
  timer,     \* whether the playback clock's interval is armed
  queue,     \* the serialised operations, the running one first
  loads,     \* the load of each loader
  used,      \* how often each bounded event has happened
  raced,     \* the session was set over a change that setting it had not seen
  missed     \* a refresh failed, and none has succeeded since

previewVars == <<revision, notices, session, timer, queue, loads, used, raced,
                 missed>>
vars == <<sessionVars, previewVars>>

(* A load or a synchronisation: the root it asked for, the revision it has  *)
(* read there, and how often the session had been set, and a refresh had    *)
(* failed, when it began.                                                   *)
NoRefresh == [step |-> "idle", root |-> None, read |-> 0, over |-> 0,
              since |-> 0]
Reading ==
  [step |-> "reading", root |-> openRoot, read |-> 0,
   over |-> used.sets, since |-> used.failures]

(* A serialised operation: a synchronisation, with the session it finds, or *)
(* a control, with the session its client sees and how often the session    *)
(* had been set by then.                                                    *)
SyncTask == [kind |-> "sync", refresh |-> NoRefresh, found |-> None]
ControlTask(c) ==
  [kind |-> "control", refresh |-> NoRefresh, control |-> c,
   seen |-> session.version, id |-> session.id, sets |-> used.sets]

Init ==
  /\ SessionInit
  /\ revision = [r \in Roots |-> 1] /\ notices = 0
  /\ session = None /\ timer = FALSE
  /\ queue = <<>> /\ loads = [l \in Loaders |-> NoRefresh]
  /\ used = [transitions |-> 0, loads |-> 0, controls |-> 0, failures |-> 0,
             sets |-> 0]
  /\ raced = FALSE /\ missed = FALSE

May(event, bound) == used[event] < bound
Use(event) == used' = [used EXCEPT ![event] = @ + 1]

-----------------------------------------------------------------------------
(* The project underneath.                                                  *)

BeginOpen(r) ==
  /\ May("transitions", MaxTransitions) /\ Use("transitions")
  /\ BeginTransition("open", r)
  /\ UNCHANGED <<revision, notices, session, timer, queue, loads, raced, missed>>

BeginClose ==
  /\ openRoot # None
  /\ May("transitions", MaxTransitions) /\ Use("transitions")
  /\ BeginTransition("close", None)
  /\ UNCHANGED <<revision, notices, session, timer, queue, loads, raced, missed>>

(* unload, which the project's closing calls at once. *)
Unload == session' = None /\ timer' = FALSE /\ Use("sets")

Closes ==
  /\ ProjectCloses /\ Unload
  /\ UNCHANGED <<revision, notices, queue, loads, raced, missed>>

Moves ==
  /\ ProjectOpens \/ TransitionReturns
  /\ UNCHANGED previewVars

Fails ==
  /\ TransitionFails /\ May("failures", MaxFailures) /\ Use("failures")
  /\ UNCHANGED <<revision, notices, session, timer, queue, loads, raced, missed>>

Commit ==
  /\ RootIsReadable /\ revision[openRoot] + 1 \in Revisions
  /\ revision' = [revision EXCEPT ![openRoot] = @ + 1]
  /\ notices' = notices + 1
  /\ UNCHANGED <<sessionVars, session, timer, queue, loads, used, raced, missed>>

X_Synchronized(s, r, number) ==  \* the version is kept
  [s EXCEPT !.root = r, !.revision = number,
            !.frame = IF @ >= Duration[number] THEN 0 ELSE @,
            !.loop = None, !.transport = "paused"]

X_Notify ==  \* nothing is queued while there is no session
  /\ notices > 0 /\ notices' = notices - 1
  /\ queue' = IF session = None THEN queue ELSE Append(queue, SyncTask)
  /\ UNCHANGED <<sessionVars, revision, session, timer, loads, used, raced, missed>>

(* project.command: a synchronisation is queued for each. *)
Notify ==
  /\ notices > 0 /\ notices' = notices - 1
  /\ queue' = Append(queue, SyncTask)
  /\ UNCHANGED <<sessionVars, revision, session, timer, loads, used, raced, missed>>

-----------------------------------------------------------------------------
(* The states of a session.                                                 *)

Created(r, number) ==
  [id |-> used.sets, root |-> r, revision |-> number, frame |-> 0,
   rate |-> 1, loop |-> None, transport |-> "paused", version |-> 1]

Clamp(f, d) == IF d = 0 \/ f < 0 THEN 0 ELSE IF f >= d THEN d - 1 ELSE f

(* What is left of a range in a timeline of d frames. *)
ClampRange(g, d) ==
  IF g = None \/ d = 0 \/ (g # None /\ g.start >= d) THEN None
  ELSE [g EXCEPT !.end = IF @ > d THEN d ELSE @]

(* The session over another revision: stopped where it was, if that still   *)
(* exists.                                                                  *)
Synchronized(s, r, number) ==
  [s EXCEPT !.root = r, !.revision = number,
            !.frame = Clamp(@, Duration[number]),
            !.loop = ClampRange(@, Duration[number]),
            !.transport = "paused", !.version = @ + 1]

(* What a control makes of a session; the frame and range it names must lie *)
(* in the timeline, and an empty one cannot be played.                      *)
Accepts(s, c) ==
  LET d == Duration[s.revision] IN
  /\ c.kind = "play" => d > 0
  /\ c.kind = "seek" => c.frame < d \/ (d = 0 /\ c.frame = 0)
  /\ c.kind = "loop" => c.range = None \/ c.range.end <= d

Controlled(s, c) ==
  LET next == [s EXCEPT !.version = @ + 1] IN
  CASE c.kind = "play"  -> [next EXCEPT !.transport = "playing"]
    [] c.kind = "pause" -> [next EXCEPT !.transport = "paused"]
    [] c.kind = "stop"  -> [next EXCEPT !.transport = "stopped", !.frame = 0]
    [] c.kind = "seek"  -> [next EXCEPT !.transport = "paused", !.frame = c.frame]
    [] c.kind = "step"  -> [next EXCEPT !.transport = "paused",
                              !.frame = Clamp(@ + c.delta, Duration[s.revision])]
    [] c.kind = "rate"  -> [next EXCEPT !.rate = c.rate]
    [] c.kind = "loop"  -> [next EXCEPT !.loop = c.range]

X_Advanced(s, delta) ==  \* at the end the frame is held, still playing
  [s EXCEPT !.frame = Clamp(@ + delta, Duration[s.revision])]

(* delta frames later on the playback clock: at the end of the timeline     *)
(* playback pauses, at the end of a loop it wraps.                          *)
Advanced(s, delta) ==
  LET d == Duration[s.revision]
      start == IF s.loop = None THEN 0 ELSE s.loop.start
      end == IF s.loop = None THEN d ELSE s.loop.end
      f == s.frame + delta
      out == IF delta > 0 THEN f >= end ELSE f < start
  IN CASE ~out -> [s EXCEPT !.frame = f]
       [] out /\ s.loop = None ->
            [s EXCEPT !.frame = Clamp(f, d), !.transport = "paused"]
       [] out /\ s.loop # None /\ delta > 0 ->
            [s EXCEPT !.frame = start + ((f - start) % (end - start))]
       [] out /\ s.loop # None /\ delta < 0 ->
            [s EXCEPT !.frame = end - 1 - ((start - 1 - f) % (end - start))]

-----------------------------------------------------------------------------
(* Refreshes: a load by HTTP, outside the queue, and a synchronisation, in  *)
(* it.  Both stop the clock, then read the project, then set the session.   *)

Pending == {loads[l] : l \in Loaders} \cup
           {queue[i].refresh : i \in DOMAIN queue}
InFlight == {r \in Pending : r.step # "idle"}

(* What setting the session by refresh r means for the history variables.   *)
Settle(r) ==
  /\ raced' = \/ InFlight # {r} \/ used.sets # r.over
              \/ r.root # openRoot
  /\ missed' = (missed /\ r.since # used.failures)

LoadBegins(l) ==
  /\ loads[l] = NoRefresh /\ RootIsReadable
  /\ May("loads", MaxLoads) /\ Use("loads")
  /\ timer' = FALSE /\ loads' = [loads EXCEPT ![l] = Reading]
  /\ UNCHANGED <<sessionVars, revision, notices, session, queue, raced, missed>>

(* No project can be read, but the clock has been stopped.                  *)
LoadRefused(l) ==
  /\ loads[l] = NoRefresh /\ ~RootIsReadable
  /\ May("loads", MaxLoads)
  /\ used' = [used EXCEPT !.loads = @ + 1, !.failures = @ + 1]
  /\ timer' = FALSE /\ missed' = TRUE
  /\ UNCHANGED <<sessionVars, revision, notices, session, queue, loads, raced>>

LoadReads(l) ==
  /\ loads[l].step = "reading"
  /\ loads' = [loads EXCEPT ![l].step = "read",
                            ![l].read = revision[loads[l].root]]
  /\ UNCHANGED <<sessionVars, revision, notices, session, timer, queue, used,
                 raced, missed>>

LoadSets(l) ==
  /\ loads[l].step = "read"
  /\ session' = Created(loads[l].root, loads[l].read) /\ Use("sets")
  /\ Settle(loads[l]) /\ loads' = [loads EXCEPT ![l] = NoRefresh]
  /\ UNCHANGED <<sessionVars, revision, notices, timer, queue>>

LoadFails(l) ==
  /\ loads[l] # NoRefresh /\ May("failures", MaxFailures) /\ Use("failures")
  /\ loads' = [loads EXCEPT ![l] = NoRefresh] /\ missed' = TRUE
  /\ UNCHANGED <<sessionVars, revision, notices, session, timer, queue, raced>>

UnloadRequest ==
  /\ session # None /\ Unload
  /\ UNCHANGED <<sessionVars, revision, notices, queue, loads, raced, missed>>

Running(kind, step) ==
  queue # <<>> /\ queue[1].kind = kind /\ queue[1].refresh.step = step

X_SyncBegins ==  \* the clock is left running
  /\ Running("sync", "idle") /\ RootIsReadable
  /\ queue' = [queue EXCEPT ![1].refresh = Reading,
                                              ![1].found = session]
  /\ UNCHANGED <<sessionVars, revision, notices, session, timer, loads, used,
                 raced, missed>>

SyncBegins ==
  /\ Running("sync", "idle") /\ RootIsReadable
  /\ timer' = FALSE /\ queue' = [queue EXCEPT ![1].refresh = Reading,
                                              ![1].found = session]
  /\ UNCHANGED <<sessionVars, revision, notices, session, loads, used, raced,
                 missed>>

SyncRefused ==
  /\ Running("sync", "idle") /\ ~RootIsReadable
  /\ timer' = FALSE /\ missed' = TRUE
  /\ Use("failures") /\ queue' = Tail(queue)
  /\ UNCHANGED <<sessionVars, revision, notices, session, loads, raced>>

SyncReads ==
  /\ Running("sync", "reading")
  /\ queue' = [queue EXCEPT ![1].refresh.step = "read",
                            ![1].refresh.read = revision[queue[1].refresh.root]]
  /\ UNCHANGED <<sessionVars, revision, notices, session, timer, loads, used,
                 raced, missed>>

(* Without a session it loads one; else it is the session it found that is  *)
(* carried over, even if that has been replaced or unloaded since.          *)
SyncSets ==
  LET r == queue[1].refresh IN
  /\ Running("sync", "read")
  /\ IF queue[1].found = None
     THEN session' = Created(r.root, r.read)
     ELSE session' = Synchronized(queue[1].found, r.root, r.read)
  /\ Use("sets") /\ Settle(r) /\ queue' = Tail(queue)
  /\ UNCHANGED <<sessionVars, revision, notices, timer, loads>>

(* A rejected operation does not hold up the queue.                         *)
SyncFails ==
  /\ queue # <<>> /\ queue[1].kind = "sync" /\ queue[1].refresh.step # "idle"
  /\ May("failures", MaxFailures) /\ Use("failures")
  /\ queue' = Tail(queue) /\ missed' = TRUE
  /\ UNCHANGED <<sessionVars, revision, notices, session, timer, loads, raced>>

-----------------------------------------------------------------------------
(* Controls, and the playback clock.                                        *)

(* A client sends a control with the version of the session it sees.        *)
Request(c) ==
  /\ session # None /\ May("controls", MaxControls) /\ Use("controls")
  /\ queue' = Append(queue, ControlTask(c))
  /\ UNCHANGED <<sessionVars, revision, notices, session, timer, loads, raced,
                 missed>>

(* It is refused when the session is at another version, or cannot do it.   *)
Refuse ==
  /\ Running("control", "idle")
  /\ \/ session = None
     \/ session # None /\ session.version # queue[1].seen
     \/ session # None /\ ~Accepts(session, queue[1].control)
  /\ queue' = Tail(queue)
  /\ UNCHANGED <<sessionVars, revision, notices, session, timer, loads, used,
                 raced, missed>>

(* It is applied, and the clock runs exactly if the session plays then.     *)
Control ==
  /\ Running("control", "idle")
  /\ session # None /\ session.version = queue[1].seen
  /\ Accepts(session, queue[1].control)
  /\ session' = Controlled(session, queue[1].control)
  /\ timer' = (session'.transport = "playing")
  /\ queue' = Tail(queue) /\ Use("sets")
  /\ UNCHANGED <<sessionVars, revision, notices, loads, raced, missed>>

Playing == session # None /\ session.transport = "playing"

(* The interval fires: a clock with nothing to play stops itself.           *)
Tick ==
  /\ timer
  /\ \/ ~Playing /\ timer' = FALSE /\ UNCHANGED session
     \/ /\ Playing
        /\ \E n \in 1 .. MaxTick : session' = Advanced(session, n * session.rate)
        /\ timer' = (session'.transport = "playing")
  /\ UNCHANGED <<sessionVars, revision, notices, queue, loads, used, raced, missed>>

-----------------------------------------------------------------------------
Next ==
  \/ \E r \in Roots : BeginOpen(r)
  \/ BeginClose \/ Closes \/ Moves \/ Fails \/ Commit \/ Notify
  \/ \E l \in Loaders :
       LoadBegins(l) \/ LoadRefused(l) \/ LoadReads(l) \/ LoadSets(l) \/ LoadFails(l)
  \/ UnloadRequest
  \/ SyncBegins \/ SyncRefused \/ SyncReads \/ SyncSets \/ SyncFails
  \/ \E c \in Controls : Request(c)
  \/ Refuse \/ Control \/ Tick

Spec == Init /\ [][Next]_vars

(* Fairness: started calls go on, an announcement is made, the queue runs,  *)
(* the interval fires.                                                      *)
FairSpec ==
  /\ Spec
  /\ WF_vars(Closes) /\ WF_vars(Moves)
  /\ WF_vars(Notify)
  /\ \A l \in Loaders : WF_vars(LoadReads(l) \/ LoadSets(l))
  /\ WF_vars(SyncBegins \/ SyncRefused \/ SyncReads \/ SyncSets)
  /\ WF_vars(Refuse \/ Control)
  /\ WF_vars(Tick)

-----------------------------------------------------------------------------
(* Properties.                                                              *)

Refreshes ==
  [step : {"idle", "reading", "read"}, root : Roots \cup {None},
   read : Revisions \cup {0}, over : Nat, since : Nat]

(* Every variable holds a value of its kind; only the first operation of    *)
(* the queue has begun.                                                     *)
TypeOK ==
  /\ SessionTypeOK
  /\ revision \in [Roots -> Revisions] /\ notices \in Nat
  /\ session \in Sessions \cup {None} /\ timer \in BOOLEAN
  /\ loads \in [Loaders -> Refreshes]
  /\ \A i \in DOMAIN queue :
       /\ queue[i].kind \in {"sync", "control"}
       /\ queue[i].refresh \in Refreshes
       /\ queue[i].kind = "sync" => queue[i].found \in Sessions \cup {None}
       /\ queue[i].kind = "control" \/ i > 1 => queue[i].refresh = NoRefresh
  /\ raced \in BOOLEAN /\ missed \in BOOLEAN

Quiet == queue = <<>> /\ notices = 0 /\ InFlight = {}

(* When every command has been announced and every refresh has ended, the   *)
(* session shows the current revision of the open project.  Two exceptions, *)
(* both lasting until the next refresh: the last refresh failed, or it set  *)
(* the session over a load, unload or closing that it had not seen.         *)
SettledSessionIsCurrent ==
  Quiet /\ session # None /\ ~raced /\ ~missed =>
    /\ session.root = openRoot
    /\ session.revision = revision[openRoot]

(* Outside a refresh the clock runs exactly while the session plays: no     *)
(* playback is frozen, and no clock moves a paused session.  The same two   *)
(* exceptions: a failed refresh has stopped the clock of a session that     *)
(* still says playing.                                                      *)
ClockFollowsTransport ==
  InFlight = {} /\ ~raced /\ ~missed => (timer <=> Playing)

(* Wherever controls, ticks forwards and backwards, loops, and edits that   *)
(* shorten the timeline leave it, the frame shown and the loop lie in the   *)
(* timeline of the session's revision.                                      *)
FrameInTimeline ==
  session # None =>
    LET d == Duration[session.revision] IN
    /\ session.frame < d \/ (d = 0 /\ session.frame = 0)
    /\ session.loop # None => session.loop.end <= d

(* The session, its frame and its clock fit together.                       *)
PlaybackIsSound == TypeOK /\ FrameInTimeline /\ ClockFollowsTransport

(* A control acts on the state its client saw: between its request and its  *)
(* turn in the queue no other control and no refresh has set that session,  *)
(* for the version would have risen.  (A new session starts at version 1    *)
(* again, and takes a control meant for the one it replaced.)               *)
ControlsActOnWhatWasSeen ==
  [][Control /\ session.id = queue[1].id => used.sets = queue[1].sets]_vars

(* Every queued operation ends: neither a refused control nor a failed      *)
(* synchronisation holds up what is queued behind it.                       *)
QueueDrains == queue # <<>> ~> queue = <<>>

(* Playback without a loop ends, unless a failed refresh froze it, it was   *)
(* raced, or it is looped first.                                            *)
PlaybackEnds ==
  Playing /\ session.loop = None
    ~> ~Playing \/ session.loop # None \/ missed \/ raced

(* Neither the queue nor playback goes on for ever.                         *)
PreviewSettles == QueueDrains /\ PlaybackEnds
=============================================================================
