----------------------------- MODULE PreviewProofs -----------------------------
(* Theorems about the two halves of the preview: its session, for any       *)
(* number of projects and loaders, any timelines and any controls; and its  *)
(* scheduler, for any layers, any timeline and any number of operations at  *)
(* once.                                                                    *)
EXTENDS PreviewSession, PreviewScheduler, FiniteSetTheorems, SequenceTheorems, TLAPS

(* The frame and the loop of session s lie in the timeline it shows.        *)
Fits(s) ==
  LET d == Duration[s.revision] IN
  /\ s.frame < d \/ (d = 0 /\ s.frame = 0)
  /\ s.loop # None => s.loop.end <= d

-----------------------------------------------------------------------------
(* What the queue holds: only its first operation has begun.                *)
SyncTasks ==
  [kind : {"sync"}, refresh : Refreshes, found : Sessions \cup {None}]
ControlTasks ==
  [kind : {"control"}, refresh : {NoRefresh}, control : Controls,
   seen : Nat, id : Nat, sets : Nat]
Tasks == SyncTasks \cup ControlTasks

TypedQueue(q) ==
  q \in Seq(Tasks) /\ \A i \in 2..Len(q) : q[i].refresh = NoRefresh
QueueTyped == TypedQueue(queue)

(* A project that is being loaded is the target of the transition, and none *)
(* or that one is open.                                                     *)
ProjectTyped ==
  /\ SessionTypeOK
  /\ transition.step = "loading" => openRoot \in {None, transition.target}

Uses ==
  [transitions : Nat, loads : Nat, controls : Nat, failures : Nat, sets : Nat]

StateTyped ==
  /\ revision \in [Roots -> Revisions] /\ notices \in Nat
  /\ session \in Sessions \cup {None}
  /\ loads \in [Loaders -> Refreshes]
  /\ used \in Uses

FlagsTyped == timer \in BOOLEAN /\ raced \in BOOLEAN /\ missed \in BOOLEAN

Typed == ProjectTyped /\ StateTyped /\ QueueTyped

-----------------------------------------------------------------------------
(* A refresh that has begun reads some project; it has seen the settings    *)
(* and failures so far, and if the session has not been set since, its      *)
(* project is still the open one and the clock it stopped has not started.  *)
BegunAt(r, sets, failures, root, clock) ==
  r.step # "idle" =>
    /\ r.root \in Roots
    /\ r.step = "read" => r.read \in Revisions
    /\ r.over <= sets /\ r.since <= failures
    /\ r.over = sets => r.root = root /\ clock = FALSE
Begun(r) == BegunAt(r, used.sets, used.failures, openRoot, timer)

BegunInv ==
  /\ \A l \in Loaders : Begun(loads[l])
  /\ queue # <<>> => Begun(queue[1].refresh)

(* What refresh r has read is the current revision of its project.          *)
ReadsCurrent(r) == r.read = revision[r.root]

(* A synchronisation that will read the current revision is due or queued.  *)
Covers(t) ==
  t.kind = "sync" /\ (t.refresh.step = "read" => ReadsCurrent(t.refresh))
Covered == notices > 0 \/ \E i \in 1..Len(queue) : Covers(queue[i])
CoveredBehind ==
  notices > 0 \/ \E i \in 2..Len(queue) : queue[i].kind = "sync"

(* A session is current, or a synchronisation will make it so; what a       *)
(* refresh has read is the same, if setting the session by it counts.       *)
SessionFresh ==
  session # None /\ ~raced /\ ~missed =>
    session.root = openRoot /\ (session.revision = revision[openRoot] \/ Covered)
LoadFresh(r) ==
  /\ r.step = "read" /\ r.over = used.sets
  /\ ~missed \/ r.since = used.failures
  => ReadsCurrent(r) \/ Covered
HeadFresh ==
  queue # <<>> /\ queue[1].refresh.step = "read" =>
    ReadsCurrent(queue[1].refresh) \/ CoveredBehind
FreshInv == SessionFresh /\ (\A l \in Loaders : LoadFresh(loads[l])) /\ HeadFresh

(* Nothing is being refreshed. *)
Idle ==
  /\ \A l \in Loaders : loads[l].step = "idle"
  /\ queue # <<>> => queue[1].refresh.step = "idle"
ClockInv == Idle /\ ~raced /\ ~missed => (timer <=> Playing)

-----------------------------------------------------------------------------
(* No control knows a later version of session s than s itself.             *)
NotAhead(s) ==
  /\ s.id < used.sets
  /\ \A i \in 1..Len(queue) :
       queue[i].kind = "control" /\ queue[i].id = s.id =>
         queue[i].seen <= s.version

(* Identities are those of earlier sessions; a control that knows the       *)
(* version of the session was sent when it was last set; a synchronisation  *)
(* that is running found the session as it is, or another.                  *)
TasksSeen ==
  \A i \in 1..Len(queue) : queue[i].kind = "control" => queue[i].id < used.sets
SessionSeen ==
  session # None =>
    /\ NotAhead(session)
    /\ \A i \in 1..Len(queue) :
         /\ queue[i].kind = "control" /\ queue[i].id = session.id
         /\ queue[i].seen = session.version
         => queue[i].sets = used.sets
FoundSeen ==
  queue # <<>> /\ queue[1].kind = "sync" /\ queue[1].refresh.step # "idle" =>
    LET f == queue[1].found IN
    f # None =>
      /\ NotAhead(f)
      /\ session # None /\ session.id = f.id => session.version = f.version
SeenInv == TasksSeen /\ SessionSeen /\ FoundSeen

-----------------------------------------------------------------------------
(* What the operators of the model do to a session.                         *)

(* There are timelines, and each has a number of frames. *)
LEMMA Timelines ==
  /\ 1 \in Revisions /\ Revisions \subseteq Nat
  /\ \A n \in Revisions : Duration[n] \in Nat
<1>1. Duration \in Seq(Nat) /\ Duration # <<>>
  BY PreviewAssumption
<1>2. Len(Duration) \in Nat \ {0} /\ DOMAIN Duration = 1..Len(Duration)
  BY <1>1, EmptySeq, LenProperties
<1>3. \A n \in 1..Len(Duration) : Duration[n] \in Nat
  BY <1>1, ElementOfSeq
<1> QED
  BY <1>2, <1>3 DEF Revisions

(* A control carries what its kind says. *)
LEMMA ControlShape ==
  ASSUME NEW c \in Controls
  PROVE  /\ c.kind \in {"play", "pause", "stop", "seek", "step", "rate", "loop"}
         /\ c.kind = "seek" => c.frame \in Nat
         /\ c.kind = "step" => c.delta \in Int
         /\ c.kind = "rate" => c.rate \in {-1, 1}
         /\ c.kind = "loop" => c.range \in Ranges \cup {None}
BY PreviewAssumption DEF PreviewControls

(* A session that has just been created is at the first frame. *)
LEMMA CreatedSound ==
  ASSUME NEW r \in Roots, NEW n \in Revisions, used \in Uses
  PROVE  /\ Created(r, n) \in Sessions /\ Fits(Created(r, n))
         /\ Created(r, n).root = r /\ Created(r, n).revision = n
         /\ Created(r, n).id = used.sets /\ Created(r, n).transport = "paused"
<1>1. Duration[n] \in Nat
  BY Timelines
<1>2. Created(r, n) \in Sessions
  BY DEF Created, Sessions, Uses
<1> QED
  BY <1>1, <1>2 DEF Created, Fits

(* A frame that is clamped lies in the timeline. *)
LEMMA ClampSound ==
  ASSUME NEW f \in Int, NEW d \in Nat
  PROVE  Clamp(f, d) \in Nat /\ (Clamp(f, d) < d \/ (d = 0 /\ Clamp(f, d) = 0))
BY DEF Clamp

(* So does what is left of a range, which is never empty. *)
LEMMA ClampRangeSound ==
  ASSUME NEW g \in Ranges \cup {None}, NEW d \in Nat
  PROVE  /\ ClampRange(g, d) \in Ranges \cup {None}
         /\ ClampRange(g, d) # None => ClampRange(g, d).end <= d
<1>1. CASE g = None \/ d = 0 \/ (g # None /\ g.start >= d)
  BY <1>1 DEF ClampRange
<1>2. CASE ~(g = None \/ d = 0 \/ (g # None /\ g.start >= d))
  <2>1. g \in Ranges /\ g.start \in Nat /\ g.end \in Nat /\ g.start < g.end /\ g.start < d
    BY <1>2 DEF Ranges
  <2>2. ClampRange(g, d) = [start |-> g.start, end |-> IF g.end > d THEN d ELSE g.end]
    BY <1>2, <2>1 DEF ClampRange, Ranges
  <2> QED
    BY <2>1, <2>2 DEF Ranges
<1> QED
  BY <1>1, <1>2

(* A session that is carried over to another revision fits there, is paused *)
(* and is at a later version of itself. *)
LEMMA SynchronizedSound ==
  ASSUME NEW s \in Sessions, NEW r \in Roots, NEW n \in Revisions
  PROVE  LET t == Synchronized(s, r, n) IN
           /\ t \in Sessions /\ Fits(t)
           /\ t.root = r /\ t.revision = n /\ t.transport = "paused"
           /\ t.id = s.id /\ t.version = s.version + 1
<1> DEFINE t == Synchronized(s, r, n)  d == Duration[n]
<1>1. d \in Nat
  BY Timelines
<1>2. /\ s.frame \in Nat /\ s.loop \in Ranges \cup {None} /\ s.id \in Nat
      /\ s.version \in Nat \ {0}
  BY DEF Sessions
<1>3. /\ t.root = r /\ t.revision = n /\ t.transport = "paused"
      /\ t.id = s.id /\ t.version = s.version + 1
      /\ t.frame = Clamp(s.frame, d) /\ t.loop = ClampRange(s.loop, d)
  BY DEF Synchronized, Sessions
<1>4. /\ Clamp(s.frame, d) \in Nat
      /\ Clamp(s.frame, d) < d \/ (d = 0 /\ Clamp(s.frame, d) = 0)
  BY <1>1, <1>2 DEF Clamp
<1>5. /\ ClampRange(s.loop, d) \in Ranges \cup {None}
      /\ ClampRange(s.loop, d) # None => ClampRange(s.loop, d).end <= d
  BY <1>1, <1>2, ClampRangeSound
<1>6. Fits(t)
  BY <1>3, <1>4, <1>5 DEF Fits
<1>7. t \in Sessions
  <2> DEFINE f == Clamp(s.frame, d)  g == ClampRange(s.loop, d)
  <2>1. t = [id |-> s.id, root |-> r, revision |-> n, frame |-> f,
             rate |-> s.rate, loop |-> g, transport |-> "paused",
             version |-> s.version + 1]
    <3>1. t = [s EXCEPT !.root = r, !.revision = n, !.frame = f, !.loop = g,
                        !.transport = "paused", !.version = @ + 1]
      BY DEF Synchronized
    <3> HIDE DEF f, g, t
    <3>2. s = [id |-> s.id, root |-> s.root, revision |-> s.revision,
               frame |-> s.frame, rate |-> s.rate, loop |-> s.loop,
               transport |-> s.transport, version |-> s.version]
      BY DEF Sessions
    <3> QED
      BY <3>1, <3>2
  <2>2. f \in Nat /\ g \in Ranges \cup {None} /\ s.rate \in {-1, 1}
    BY <1>4, <1>5 DEF Sessions
  <2> HIDE DEF f, g, t
  <2> QED
    BY <1>2, <2>1, <2>2 DEF Sessions
<1> QED
  BY <1>3, <1>6, <1>7

(* A control that is accepted leaves the session fitting, at a later        *)
(* version of itself. *)
LEMMA ControlledSound ==
  ASSUME NEW s \in Sessions, NEW c \in Controls, Fits(s), Accepts(s, c)
  PROVE  LET t == Controlled(s, c) IN
           /\ t \in Sessions /\ Fits(t)
           /\ t.root = s.root /\ t.revision = s.revision
           /\ t.id = s.id /\ t.version = s.version + 1
<1> DEFINE t == Controlled(s, c)  d == Duration[s.revision]
           next == [s EXCEPT !.version = @ + 1]
<1>1. d \in Nat
  BY Timelines DEF Sessions
<1>2. /\ s.frame \in Nat /\ s.loop \in Ranges \cup {None}
      /\ s.version \in Nat \ {0}
  BY DEF Sessions
<1>3. /\ next \in Sessions /\ next.frame = s.frame /\ next.loop = s.loop
      /\ next.root = s.root /\ next.revision = s.revision /\ next.id = s.id
      /\ next.version = s.version + 1
  BY <1>2 DEF Sessions
<1>4. /\ s.frame < d \/ (d = 0 /\ s.frame = 0)
      /\ s.loop # None => s.loop.end <= d
  BY DEF Fits
<1> HIDE DEF next, d
<1>5. CASE c.kind \in {"play", "pause"}
  <2>1. t = [next EXCEPT !.transport = "playing"] \/ t = [next EXCEPT !.transport = "paused"]
    BY <1>5 DEF Controlled, next
  <2> QED
    BY <1>3, <1>4, <2>1 DEF Sessions, Fits, d
<1>0. ASSUME NEW p \in {"paused", "stopped"}, NEW f \in Nat, f < d \/ (d = 0 /\ f = 0),
              t = [next EXCEPT !.transport = p, !.frame = f]
       PROVE  /\ t \in Sessions /\ Fits(t)
              /\ t.root = s.root /\ t.revision = s.revision
              /\ t.id = s.id /\ t.version = s.version + 1
  <2> HIDE DEF t
  <2>1. /\ t.frame = f /\ t.loop = s.loop /\ t.root = s.root
        /\ t.revision = s.revision /\ t.id = s.id /\ t.version = s.version + 1
    BY <1>3, <1>0 DEF Sessions
  <2>2. t \in Sessions
    BY <1>3, <1>0 DEF Sessions
  <2>3. Fits(t)
    BY <1>4, <1>0, <2>1 DEF Fits, d
  <2> QED
    BY <2>1, <2>2, <2>3
<1>6. CASE c.kind = "stop"
  <2>1. t = [next EXCEPT !.transport = "stopped", !.frame = 0]
    BY <1>6 DEF Controlled, next
  <2>2. 0 < d \/ d = 0
    BY <1>1
  <2> QED
    BY <1>0, <2>1, <2>2
<1>7. CASE c.kind = "seek"
  <2>1. t = [next EXCEPT !.transport = "paused", !.frame = c.frame]
    BY <1>7 DEF Controlled, next
  <2>2. c.frame \in Nat /\ (c.frame < d \/ (d = 0 /\ c.frame = 0))
    BY <1>7, ControlShape DEF Accepts, d
  <2> QED
    BY <1>0, <2>1, <2>2
<1>8. CASE c.kind = "step"
  <2> DEFINE f == Clamp(s.frame + c.delta, d)
  <2>1. t = [next EXCEPT !.transport = "paused", !.frame = f]
    <3>1. t = [next EXCEPT !.transport = "paused", !.frame = Clamp(next.frame + c.delta, d)]
      BY <1>8 DEF Controlled, next, d
    <3> QED
      BY <1>3, <3>1
  <2>2. f \in Nat /\ (f < d \/ (d = 0 /\ f = 0))
    <3>1. c.delta \in Int /\ s.frame + c.delta \in Int
      BY <1>2, <1>8, ControlShape
    <3> QED
      BY <1>1, <3>1 DEF Clamp
  <2> HIDE DEF f
  <2> QED
    BY <1>0, <2>1, <2>2
<1>9. CASE c.kind = "rate"
  <2>1. t = [next EXCEPT !.rate = c.rate] /\ c.rate \in {-1, 1}
    BY <1>9, ControlShape DEF Controlled, next
  <2> QED
    BY <1>3, <1>4, <2>1 DEF Sessions, Fits, d
<1>10. CASE c.kind = "loop"
  <2>1. t = [next EXCEPT !.loop = c.range] /\ c.range \in Ranges \cup {None}
    BY <1>10, ControlShape DEF Controlled, next
  <2>2. c.range # None => c.range.end <= d
    BY <1>10 DEF Accepts, d
  <2> QED
    BY <1>3, <1>4, <2>1, <2>2 DEF Sessions, Fits, d
<1> QED
  BY ControlShape, <1>5, <1>6, <1>7, <1>8, <1>9, <1>10

(* The clock moves a session within its timeline, and only that: what it    *)
(* shows, its identity and its version stay. *)
LEMMA AdvancedSound ==
  ASSUME NEW s \in Sessions, NEW k \in Int, k # 0, Fits(s)
  PROVE  LET t == Advanced(s, k) IN
           /\ t \in Sessions /\ Fits(t)
           /\ t.root = s.root /\ t.revision = s.revision
           /\ t.id = s.id /\ t.version = s.version
<1> DEFINE t == Advanced(s, k)  d == Duration[s.revision]
           start == IF s.loop = None THEN 0 ELSE s.loop.start
           end == IF s.loop = None THEN d ELSE s.loop.end
           f == s.frame + k
           out == IF k > 0 THEN f >= end ELSE f < start
<1>1. d \in Nat
  BY Timelines DEF Sessions
<1>2. s.frame \in Nat /\ s.loop \in Ranges \cup {None} /\ f \in Int
  BY DEF Sessions
<1>3. /\ s.frame < d \/ (d = 0 /\ s.frame = 0)
      /\ s.loop # None => s.loop.end <= d
  BY DEF Fits
<1>4. /\ start \in Nat /\ end \in Nat /\ end <= d
      /\ s.loop # None => start < end
  BY <1>1, <1>2, <1>3 DEF Ranges
<1>5. ASSUME NEW g \in Nat, NEW p \in {"paused", "playing", "stopped"},
             g < d \/ (d = 0 /\ g = 0), t = [s EXCEPT !.frame = g, !.transport = p]
      PROVE  /\ t \in Sessions /\ Fits(t)
             /\ t.root = s.root /\ t.revision = s.revision
             /\ t.id = s.id /\ t.version = s.version
  BY <1>3, <1>5 DEF Sessions, Fits
<1>6. s.transport \in {"paused", "playing", "stopped"}
      /\ \A g : [s EXCEPT !.frame = g] = [s EXCEPT !.frame = g, !.transport = s.transport]
  BY DEF Sessions
<1>7. CASE ~out
  <2>1. t = [s EXCEPT !.frame = f]
    BY <1>7 DEF Advanced
  <2>2. f \in Nat /\ (f < d \/ (d = 0 /\ f = 0))
    BY <1>1, <1>2, <1>3, <1>4, <1>7
  <2> QED
    BY <1>5, <1>6, <2>1, <2>2
<1>8. CASE out /\ s.loop = None
  <2>1. t = [s EXCEPT !.frame = Clamp(f, d), !.transport = "paused"]
    BY <1>8 DEF Advanced
  <2> QED
    BY <1>1, <1>2, <1>5, <2>1, ClampSound
<1>9. CASE out /\ s.loop # None /\ k > 0
  <2> DEFINE g == start + ((f - start) % (end - start))
  <2>1. t = [s EXCEPT !.frame = g]
    BY <1>9 DEF Advanced
  <2>2. (f - start) % (end - start) \in 0..(end - start) - 1
    BY <1>2, <1>4, <1>9
  <2>3. g \in Nat /\ g < d
    BY <1>1, <1>4, <1>9, <2>2
  <2> QED
    BY <1>5, <1>6, <2>1, <2>3
<1>10. CASE out /\ s.loop # None /\ k < 0
  <2> DEFINE g == end - 1 - ((start - 1 - f) % (end - start))
  <2>1. t = [s EXCEPT !.frame = g]
    BY <1>10 DEF Advanced
  <2>2. (start - 1 - f) % (end - start) \in 0..(end - start) - 1
    BY <1>2, <1>4, <1>10
  <2>3. g \in Nat /\ g < d
    BY <1>1, <1>4, <1>10, <2>2
  <2> QED
    BY <1>5, <1>6, <2>1, <2>3
<1> QED
  BY <1>7, <1>8, <1>9, <1>10

-----------------------------------------------------------------------------
(* The three ways in which the queue changes: an operation is appended, the *)
(* running one is done, or it goes on.                                      *)
Appended(q, p, t) ==
  /\ TypedQueue(p) /\ Len(q) \in Nat /\ Len(p) = Len(q) + 1
  /\ \A i \in 1..Len(q) : p[i] = q[i]
  /\ p[Len(p)] = t

Popped(q, p) ==
  /\ TypedQueue(p) /\ Len(q) \in Nat /\ Len(q) >= 1 /\ Len(p) = Len(q) - 1
  /\ \A i \in 1..Len(p) : p[i] = q[i + 1] /\ p[i].refresh = NoRefresh

HeadBecomes(q, p, e) ==
  /\ TypedQueue(p) /\ Len(q) \in Nat /\ Len(q) >= 1 /\ Len(p) = Len(q)
  /\ p[1] = e
  /\ \A i \in 2..Len(q) : p[i] = q[i]

(* A queue has a length, and a running operation exactly if it is not empty. *)
LEMMA QueueLength ==
  \A q : TypedQueue(q) =>
    /\ Len(q) \in Nat /\ DOMAIN q = 1..Len(q)
    /\ q # <<>> <=> Len(q) >= 1
    /\ \A i \in 1..Len(q) : q[i] \in Tasks
<1> SUFFICES ASSUME NEW q, TypedQueue(q)
             PROVE  /\ Len(q) \in Nat /\ DOMAIN q = 1..Len(q)
                    /\ q # <<>> <=> Len(q) >= 1
                    /\ \A i \in 1..Len(q) : q[i] \in Tasks
  OBVIOUS
<1>1. q \in Seq(Tasks)
  BY DEF TypedQueue
<1>2. Len(q) \in Nat /\ DOMAIN q = 1..Len(q)
  BY <1>1, LenProperties
<1>3. q # <<>> => Len(q) \in Nat \ {0}
  BY <1>1, EmptySeq
<1>4. q = <<>> => Len(q) = 0
  BY EmptySeq
<1>5. \A i \in 1..Len(q) : q[i] \in Tasks
  BY <1>1, ElementOfSeq
<1> QED
  BY <1>2, <1>3, <1>4, <1>5

(* An operation that has not begun can be queued. *)
LEMMA QueueAppend ==
  \A q, t : TypedQueue(q) /\ t \in Tasks /\ t.refresh = NoRefresh
             => Appended(q, Append(q, t), t)
<1> SUFFICES ASSUME NEW q, NEW t, TypedQueue(q), t \in Tasks, t.refresh = NoRefresh
             PROVE  Appended(q, Append(q, t), t)
  OBVIOUS
<1> DEFINE p == Append(q, t)
<1>1. q \in Seq(Tasks) /\ \A i \in 2..Len(q) : q[i].refresh = NoRefresh
  BY DEF TypedQueue
<1>2. /\ p \in Seq(Tasks) /\ Len(p) = Len(q) + 1
      /\ \A i \in 1..Len(q) : p[i] = q[i]
      /\ p[Len(q) + 1] = t
  BY <1>1, AppendProperties
<1>3. Len(q) \in Nat
  BY QueueLength
<1> HIDE DEF p
<1>4. \A i \in 2..Len(p) : p[i].refresh = NoRefresh
  <2> TAKE i \in 2..Len(p)
  <2>1. CASE i = Len(q) + 1
    BY <1>2, <2>1
  <2>2. CASE i # Len(q) + 1
    <3>1. i \in 2..Len(q) /\ i \in 1..Len(q)
      BY <1>2, <1>3, <2>2
    <3> QED
      BY <1>1, <1>2, <3>1
  <2> QED
    BY <2>1, <2>2
<1>5. TypedQueue(p)
  BY <1>2, <1>4 DEF TypedQueue
<1>6. Appended(q, p, t)
  BY <1>2, <1>3, <1>5 DEF Appended
<1> QED
  BY <1>6 DEF p

(* What is behind the running operation has not begun. *)
LEMMA QueuePop ==
  \A q : TypedQueue(q) /\ q # <<>> => Popped(q, Tail(q))
<1> SUFFICES ASSUME NEW q, TypedQueue(q), q # <<>>
             PROVE  Popped(q, Tail(q))
  OBVIOUS
<1> DEFINE p == Tail(q)
<1>1. q \in Seq(Tasks) /\ \A i \in 2..Len(q) : q[i].refresh = NoRefresh
  BY DEF TypedQueue
<1>2. /\ p \in Seq(Tasks) /\ Len(p) = Len(q) - 1
      /\ \A i \in 1..Len(p) : p[i] = q[i + 1]
  BY <1>1, HeadTailProperties
<1>3. Len(q) \in Nat /\ Len(q) >= 1
  BY QueueLength
<1> HIDE DEF p
<1>4. \A i \in 1..Len(p) : p[i].refresh = NoRefresh
  <2> TAKE i \in 1..Len(p)
  <2>1. i + 1 \in 2..Len(q) /\ p[i] = q[i + 1]
    BY <1>2, <1>3
  <2> QED
    BY <1>1, <2>1
<1>5. TypedQueue(p)
  BY <1>2, <1>3, <1>4 DEF TypedQueue
<1>6. Popped(q, p)
  BY <1>2, <1>3, <1>4, <1>5 DEF Popped
<1> QED
  BY <1>6 DEF p

(* The running operation can go on. *)
LEMMA QueueHead ==
  \A q, e : TypedQueue(q) /\ q # <<>> /\ e \in Tasks
             => HeadBecomes(q, [q EXCEPT ![1] = e], e)
<1> SUFFICES ASSUME NEW q, NEW e, TypedQueue(q), q # <<>>, e \in Tasks
             PROVE  HeadBecomes(q, [q EXCEPT ![1] = e], e)
  OBVIOUS
<1> DEFINE p == [q EXCEPT ![1] = e]
<1>1. q \in Seq(Tasks) /\ \A i \in 2..Len(q) : q[i].refresh = NoRefresh
  BY DEF TypedQueue
<1>2. Len(q) \in Nat /\ Len(q) >= 1 /\ 1 \in 1..Len(q)
  BY QueueLength
<1>3. /\ p \in Seq(Tasks) /\ Len(p) = Len(q)
      /\ \A j \in 1..Len(q) : p[j] = IF j = 1 THEN e ELSE q[j]
  BY <1>1, <1>2, ExceptSeq
<1> HIDE DEF p
<1>4. p[1] = e /\ \A i \in 2..Len(q) : p[i] = q[i]
  BY <1>2, <1>3
<1>5. TypedQueue(p)
  BY <1>1, <1>3, <1>4 DEF TypedQueue
<1>6. HeadBecomes(q, p, e)
  BY <1>2, <1>3, <1>4, <1>5 DEF HeadBecomes
<1> QED
  BY <1>6 DEF p

(* What counting an event does to the two counters that are compared. *)
LEMMA Counted ==
  ASSUME used \in Uses
  PROVE  /\ used.sets \in Nat /\ used.failures \in Nat
         /\ Use("sets") => /\ used' \in Uses /\ used'.sets = used.sets + 1
                           /\ used'.failures = used.failures
         /\ Use("failures") => /\ used' \in Uses /\ used'.sets = used.sets
                               /\ used'.failures = used.failures + 1
         /\ Use("transitions") \/ Use("loads") \/ Use("controls") =>
              /\ used' \in Uses /\ used'.sets = used.sets
              /\ used'.failures = used.failures
         /\ used' = [used EXCEPT !.loads = @ + 1, !.failures = @ + 1] =>
              /\ used' \in Uses /\ used'.sets = used.sets
              /\ used'.failures = used.failures + 1
<1>1. used.sets \in Nat /\ used.failures \in Nat
  BY DEF Uses
<1>2. Use("sets") => /\ used' \in Uses /\ used'.sets = used.sets + 1
                     /\ used'.failures = used.failures
  BY DEF Uses, Use
<1>3. Use("failures") => /\ used' \in Uses /\ used'.sets = used.sets
                         /\ used'.failures = used.failures + 1
  BY DEF Uses, Use
<1>4. Use("transitions") \/ Use("loads") \/ Use("controls") =>
        /\ used' \in Uses /\ used'.sets = used.sets
        /\ used'.failures = used.failures
  BY DEF Uses, Use
<1>5. used' = [used EXCEPT !.loads = @ + 1, !.failures = @ + 1] =>
        /\ used' \in Uses /\ used'.sets = used.sets
        /\ used'.failures = used.failures + 1
  <2> HAVE used' = [used EXCEPT !.loads = @ + 1, !.failures = @ + 1]
  <2> DEFINE n == used.loads + 1  m == used.failures + 1
  <2>1. n \in Nat /\ m \in Nat
    BY DEF Uses
  <2>2. used' = [used EXCEPT !.loads = n, !.failures = m]
    OBVIOUS
  <2> HIDE DEF n, m
  <2>3. used' \in Uses /\ used'.sets = used.sets /\ used'.failures = m
    BY <2>1, <2>2 DEF Uses
  <2> QED
    BY <2>3 DEF m
<1> QED
  BY <1>1, <1>2, <1>3, <1>4, <1>5

-----------------------------------------------------------------------------
(* What the steps of the refreshes, the controls and the clock do, in those *)
(* terms.                                                                   *)

(* The running operation is a task, of one of two shapes. *)
LEMMA TaskShape ==
  \A t \in Tasks :
    /\ t.kind \in {"sync", "control"} /\ t.refresh \in Refreshes
    /\ t.kind = "sync" => t \in SyncTasks
    /\ t.kind = "control" => t \in ControlTasks /\ t.refresh = NoRefresh
<1>1. NoRefresh \in Refreshes
  BY DEF NoRefresh, Refreshes
<1> QED
  BY <1>1 DEF Tasks, SyncTasks, ControlTasks

(* No session is not a session. *)
LEMMA NoneIsNoSession == None \notin Sessions /\ None \notin Ranges /\ None \notin Roots
BY PreviewAssumption, SessionAssumption

(* A refresh that begins asks for the open project. *)
LEMMA ReadingSound ==
  ASSUME ProjectTyped, StateTyped, RootIsReadable
  PROVE  /\ Reading \in Refreshes /\ Reading.step = "reading"
         /\ Reading.root = openRoot /\ openRoot \in Roots
         /\ Reading.over = used.sets /\ Reading.since = used.failures
<1>1. openRoot \in Roots
  BY DEF ProjectTyped, SessionTypeOK, RootIsReadable
<1>2. used.sets \in Nat /\ used.failures \in Nat
  BY Counted DEF StateTyped
<1> QED
  BY <1>1, <1>2 DEF Reading, Refreshes

(* A load sets a new session at the revision it has read. *)
LEMMA LoadSetsMeans ==
  ASSUME StateTyped, BegunInv, NEW l \in Loaders, LoadSets(l)
  PROVE  /\ session' \in Sessions /\ Fits(session')
         /\ session'.root = loads[l].root /\ session'.revision = loads[l].read
         /\ session'.transport = "paused" /\ session'.id = used.sets
<1>1. loads[l].root \in Roots /\ loads[l].read \in Revisions
  BY DEF LoadSets, BegunInv, Begun, BegunAt
<1> QED
  BY <1>1, CreatedSound DEF LoadSets, StateTyped

(* A synchronisation sets a new session, or a later version of the session  *)
(* it found, at the revision it has read. *)
LEMMA SyncSetsMeans ==
  ASSUME StateTyped, QueueTyped, BegunInv, SyncSets
  PROVE  /\ queue # <<>> /\ queue[1].kind = "sync" /\ queue[1].refresh.step = "read"
         /\ session' \in Sessions /\ Fits(session')
         /\ session'.root = queue[1].refresh.root
         /\ session'.revision = queue[1].refresh.read
         /\ session'.transport = "paused"
         /\ queue[1].found \in Sessions \cup {None}
         /\ queue[1].found = None => session'.id = used.sets
         /\ queue[1].found # None =>
              /\ session'.id = queue[1].found.id
              /\ session'.version = queue[1].found.version + 1
<1> DEFINE r == queue[1].refresh  f == queue[1].found
<1>1. queue # <<>> /\ queue[1].kind = "sync" /\ r.step = "read"
  BY DEF SyncSets, Running
<1>2. queue[1] \in Tasks
  BY <1>1, QueueLength DEF QueueTyped
<1>3. f \in Sessions \cup {None}
  BY <1>1, <1>2, TaskShape DEF SyncTasks
<1>4. r.root \in Roots /\ r.read \in Revisions
  BY <1>1 DEF BegunInv, Begun, BegunAt
<1>5. CASE f = None
  <2>1. session' = Created(r.root, r.read)
    BY <1>5 DEF SyncSets
  <2> QED
    BY <1>1, <1>3, <1>4, <1>5, <2>1, CreatedSound DEF StateTyped
<1>6. CASE f # None
  <2>1. session' = Synchronized(f, r.root, r.read) /\ f \in Sessions
    BY <1>3, <1>6 DEF SyncSets
  <2> HIDE DEF r, f
  <2>2. /\ session' \in Sessions /\ Fits(session')
        /\ session'.root = r.root /\ session'.revision = r.read
        /\ session'.transport = "paused"
        /\ session'.id = f.id /\ session'.version = f.version + 1
    BY <1>4, <2>1, SynchronizedSound
  <2> QED
    BY <1>1, <1>3, <1>6, <2>2 DEF r, f
<1> QED
  BY <1>5, <1>6

(* A control that is applied leaves the session at its next version. *)
LEMMA ControlMeans ==
  ASSUME StateTyped, QueueTyped, FrameInTimeline, Control
  PROVE  /\ queue # <<>> /\ queue[1].kind = "control" /\ queue[1].refresh.step = "idle"
         /\ session \in Sessions /\ session' \in Sessions /\ Fits(session')
         /\ session'.root = session.root /\ session'.revision = session.revision
         /\ session'.id = session.id /\ session'.version = session.version + 1
<1>1. /\ queue # <<>> /\ queue[1].kind = "control" /\ queue[1].refresh.step = "idle"
      /\ session # None /\ Accepts(session, queue[1].control)
      /\ session' = Controlled(session, queue[1].control)
  BY DEF Control, Running
<1>2. queue[1] \in Tasks
  BY <1>1, QueueLength DEF QueueTyped
<1>3. queue[1].control \in Controls
  BY <1>1, <1>2, TaskShape DEF ControlTasks
<1>4. session \in Sessions /\ Fits(session)
  BY <1>1 DEF StateTyped, FrameInTimeline, Fits
<1> QED
  BY <1>1, <1>3, <1>4, ControlledSound

(* A tick moves the frame, and stops or keeps the clock. *)
LEMMA TickMeans ==
  ASSUME StateTyped, FrameInTimeline, Tick
  PROVE  \/ session' = session /\ ~Playing /\ timer' = FALSE
         \/ /\ session \in Sessions /\ session' \in Sessions /\ Fits(session')
            /\ session'.root = session.root /\ session'.revision = session.revision
            /\ session'.id = session.id /\ session'.version = session.version
            /\ timer' = (session'.transport = "playing")
<1>1. CASE ~Playing
  BY <1>1 DEF Tick
<1>2. CASE Playing
  <2>1. PICK n \in 1..MaxTick : session' = Advanced(session, n * session.rate)
    BY <1>2 DEF Tick
  <2>2. session \in Sessions /\ Fits(session)
    BY <1>2 DEF Playing, StateTyped, FrameInTimeline, Fits
  <2>3. session.rate \in {-1, 1}
    BY <2>2 DEF Sessions
  <2>4. n * session.rate \in Int /\ n * session.rate # 0
    BY <2>3
  <2>5. timer' = (session'.transport = "playing")
    BY <1>2 DEF Tick
  <2> QED
    BY <2>1, <2>2, <2>4, <2>5, AdvancedSound
<1> QED
  BY <1>1, <1>2

(* A synchronisation begins with the session as it is. *)
LEMMA SyncBeginsMeans ==
  ASSUME ProjectTyped, StateTyped, QueueTyped, SyncBegins
  PROVE  /\ queue # <<>> /\ queue[1].kind = "sync" /\ queue[1].refresh.step = "idle"
         /\ HeadBecomes(queue, queue', queue'[1])
         /\ queue'[1].kind = "sync" /\ queue'[1].refresh = Reading
         /\ queue'[1].found = session
<1>1. /\ queue # <<>> /\ queue[1].kind = "sync" /\ queue[1].refresh.step = "idle"
      /\ RootIsReadable
      /\ queue' = [queue EXCEPT ![1].refresh = Reading, ![1].found = session]
  BY DEF SyncBegins, Running
<1>2. TypedQueue(queue) /\ queue[1] \in Tasks /\ queue[1] \in SyncTasks
  BY <1>1, QueueLength, TaskShape DEF QueueTyped
<1> DEFINE e == [queue[1] EXCEPT !.refresh = Reading, !.found = session]
<1>3. DOMAIN queue = 1..Len(queue) /\ 1 \in 1..Len(queue)
  BY <1>1, <1>2, QueueLength
<1>4. queue' = [queue EXCEPT ![1] = e]
  BY <1>1, <1>3
<1>5. Reading \in Refreshes /\ session \in Sessions \cup {None}
  BY <1>1, ReadingSound DEF StateTyped
<1>6. e \in SyncTasks /\ e.kind = "sync" /\ e.refresh = Reading /\ e.found = session
  BY <1>2, <1>5 DEF SyncTasks
<1> HIDE DEF e
<1>7. HeadBecomes(queue, queue', e)
  <2>1. e \in Tasks /\ queue # <<>>
    BY <1>1, <1>6 DEF Tasks
  <2> QED
    BY Zenon, <1>2, <1>4, <2>1, QueueHead
<1>8. queue'[1] = e
  BY <1>7 DEF HeadBecomes
<1> QED
  BY <1>1, <1>6, <1>7, <1>8

(* It reads the revision the project is at. *)
LEMMA SyncReadsMeans ==
  ASSUME StateTyped, QueueTyped, BegunInv, SyncReads
  PROVE  LET r == queue[1].refresh  g == queue'[1].refresh IN
         /\ queue # <<>> /\ queue[1].kind = "sync" /\ r.step = "reading"
         /\ HeadBecomes(queue, queue', queue'[1])
         /\ queue'[1].kind = "sync" /\ queue'[1].found = queue[1].found
         /\ g.step = "read" /\ g.root = r.root /\ g.over = r.over /\ g.since = r.since
         /\ g.read = revision[r.root] /\ g.read \in Revisions
<1>1. /\ queue # <<>> /\ queue[1].kind = "sync" /\ queue[1].refresh.step = "reading"
      /\ queue' = [queue EXCEPT ![1].refresh.step = "read",
                                ![1].refresh.read = revision[queue[1].refresh.root]]
  BY DEF SyncReads, Running
<1>2. TypedQueue(queue) /\ queue[1] \in Tasks /\ queue[1] \in SyncTasks
  BY <1>1, QueueLength, TaskShape DEF QueueTyped
<1> DEFINE r == queue[1].refresh
           g == [r EXCEPT !.step = "read", !.read = revision[r.root]]
           e == [queue[1] EXCEPT !.refresh = g]
<1>3. DOMAIN queue = 1..Len(queue) /\ 1 \in 1..Len(queue)
  BY <1>1, <1>2, QueueLength
<1>4. r.root \in Roots /\ revision[r.root] \in Revisions
  BY <1>1 DEF BegunInv, Begun, BegunAt, StateTyped
<1>5. r \in Refreshes
  BY <1>2 DEF SyncTasks
<1>6. /\ g \in Refreshes /\ g.step = "read" /\ g.root = r.root /\ g.over = r.over
      /\ g.since = r.since /\ g.read = revision[r.root]
  BY <1>4, <1>5 DEF Refreshes
<1>7. queue' = [queue EXCEPT ![1] = e]
  <2>1. DOMAIN queue[1] = {"kind", "refresh", "found"}
    BY <1>2 DEF SyncTasks
  <2> QED
    BY <1>1, <1>3, <2>1
<1>8. e \in SyncTasks /\ e.kind = "sync" /\ e.refresh = g /\ e.found = queue[1].found
  <2> HIDE DEF g
  <2> QED
    BY <1>1, <1>2, <1>6 DEF SyncTasks
<1> HIDE DEF e
<1>9. HeadBecomes(queue, queue', e)
  <2>1. e \in Tasks /\ queue # <<>>
    BY <1>1, <1>8 DEF Tasks
  <2> QED
    BY Zenon, <1>2, <1>7, <2>1, QueueHead
<1>10. queue'[1] = e
  BY <1>9 DEF HeadBecomes
<1> QED
  BY <1>1, <1>4, <1>6, <1>8, <1>9, <1>10

-----------------------------------------------------------------------------
(* Every variable keeps its kind.                                           *)

(* The project session does. *)
LEMMA ProjectTypedStep == ProjectTyped /\ [Next]_vars => ProjectTyped'
<1> SUFFICES ASSUME ProjectTyped, [Next]_vars PROVE ProjectTyped'
  OBVIOUS
<1> USE NoneIsNoSession DEF ProjectTyped, SessionTypeOK, sessionVars, NoTransition
<1>1. ASSUME NEW r \in Roots, BeginOpen(r) PROVE ProjectTyped'
  BY <1>1 DEF BeginOpen, BeginTransition, TransitionAllowed
<1>2. CASE BeginClose
  BY <1>2 DEF BeginClose, BeginTransition, TransitionAllowed
<1>3. CASE Closes
  BY <1>3 DEF Closes, ProjectCloses
<1>4. CASE Moves
  BY <1>4 DEF Moves, ProjectOpens, TransitionReturns
<1>5. CASE Fails
  BY <1>5 DEF Fails, TransitionFails
<1>6. CASE UNCHANGED sessionVars
  BY <1>6
<1>7. CASE UNCHANGED vars
  BY <1>6, <1>7 DEF vars
<1>8. ASSUME NEW l \in Loaders,
             LoadBegins(l) \/ LoadRefused(l) \/ LoadReads(l) \/ LoadSets(l) \/ LoadFails(l)
      PROVE ProjectTyped'
  BY <1>6, <1>8 DEF LoadBegins, LoadRefused, LoadReads, LoadSets, LoadFails
<1>9. CASE SyncBegins \/ SyncRefused \/ SyncReads \/ SyncSets \/ SyncFails
  BY <1>6, <1>9 DEF SyncBegins, SyncRefused, SyncReads, SyncSets, SyncFails
<1>10. CASE Commit \/ Notify \/ UnloadRequest \/ Refuse \/ Control \/ Tick
  BY <1>6, <1>10 DEF Commit, Notify, UnloadRequest, Refuse, Control, Tick
<1>11. ASSUME NEW c \in Controls, Request(c) PROVE ProjectTyped'
  BY <1>6, <1>11 DEF Request
<1> QED
  BY <1>1, <1>2, <1>3, <1>4, <1>5, <1>7, <1>8, <1>9, <1>10, <1>11 DEF Next

(* The flags do. *)
LEMMA FlagsTypedStep == FlagsTyped /\ [Next]_vars => FlagsTyped'
<1> SUFFICES ASSUME FlagsTyped, [Next]_vars PROVE FlagsTyped'
  OBVIOUS
<1> USE DEF FlagsTyped
<1>1. CASE UNCHANGED <<timer, raced, missed>>
  BY Zenon, <1>1
<1>2. CASE timer' = FALSE /\ UNCHANGED <<raced, missed>>
  BY Zenon, <1>2
<1>3. ASSUME NEW r \in Roots, BeginOpen(r) PROVE FlagsTyped'
  BY Zenon, <1>1, <1>3 DEF BeginOpen
<1>4. CASE BeginClose \/ Closes \/ Moves \/ Fails \/ Commit \/ Notify \/ UnloadRequest \/ Refuse
  BY Zenon, <1>1, <1>2, <1>4
     DEF BeginClose, Closes, Moves, Fails, Commit, Notify, UnloadRequest, Unload, Refuse,
         previewVars
<1>5. CASE UNCHANGED vars
  BY Zenon, <1>1, <1>5 DEF vars, previewVars
<1>6. ASSUME NEW l \in Loaders, LoadBegins(l) \/ LoadReads(l) PROVE FlagsTyped'
  BY Zenon, <1>1, <1>2, <1>6 DEF LoadBegins, LoadReads
<1>7. ASSUME NEW l \in Loaders, LoadRefused(l) \/ LoadFails(l) PROVE FlagsTyped'
  BY Zenon, <1>7 DEF LoadRefused, LoadFails
<1>8. ASSUME NEW r, Settle(r), UNCHANGED timer PROVE FlagsTyped'
  BY Zenon, <1>8 DEF Settle
<1>9. ASSUME NEW l \in Loaders, LoadSets(l) PROVE FlagsTyped'
  BY Zenon, <1>8, <1>9 DEF LoadSets
<1>10. CASE SyncBegins \/ SyncReads
  BY Zenon, <1>1, <1>2, <1>10 DEF SyncBegins, SyncReads
<1>11. CASE SyncRefused \/ SyncFails
  BY Zenon, <1>11 DEF SyncRefused, SyncFails
<1>12. CASE SyncSets
  BY Zenon, <1>8, <1>12 DEF SyncSets
<1>13. ASSUME NEW c \in Controls, Request(c) PROVE FlagsTyped'
  BY Zenon, <1>1, <1>13 DEF Request
<1>14. CASE Control
  BY Zenon, <1>14 DEF Control
<1>15. CASE Tick
  BY Zenon, <1>15 DEF Tick
<1> QED
  BY Zenon, <1>3, <1>4, <1>5, <1>6, <1>7, <1>9, <1>10, <1>11, <1>12, <1>13, <1>14, <1>15
     DEF Next

(* A control that is requested is a task that has not begun. *)
LEMMA RequestedTask ==
  ASSUME StateTyped, session # None, NEW c \in Controls
  PROVE  /\ ControlTask(c) \in Tasks /\ ControlTask(c).refresh = NoRefresh
         /\ ControlTask(c).kind = "control" /\ ControlTask(c).id = session.id
         /\ ControlTask(c).seen = session.version /\ ControlTask(c).sets = used.sets
<1>1. session.version \in Nat /\ session.id \in Nat /\ used.sets \in Nat
  BY Counted DEF StateTyped, Sessions
<1> QED
  BY <1>1 DEF ControlTask, Tasks, ControlTasks

(* A synchronisation that is queued is one. *)
LEMMA QueuedSync ==
  SyncTask \in Tasks /\ SyncTask.refresh = NoRefresh /\ SyncTask.kind = "sync"
BY DEF SyncTask, Tasks, SyncTasks, NoRefresh, Refreshes

(* The queue does. *)
LEMMA QueueTypedStep ==
  ProjectTyped /\ StateTyped /\ QueueTyped /\ BegunInv /\ [Next]_vars => QueueTyped'
<1> SUFFICES ASSUME ProjectTyped, StateTyped, QueueTyped, BegunInv, [Next]_vars
             PROVE  QueueTyped'
  OBVIOUS
<1>1. CASE UNCHANGED queue
  BY <1>1 DEF QueueTyped
<1>2. CASE queue # <<>> /\ queue' = Tail(queue)
  BY <1>2, QueuePop DEF QueueTyped, Popped
<1>3. CASE Notify
  BY <1>3, QueuedSync, QueueAppend DEF Notify, QueueTyped, Appended
<1>4. ASSUME NEW c \in Controls, Request(c) PROVE QueueTyped'
  BY <1>4, RequestedTask, QueueAppend DEF Request, QueueTyped, Appended
<1>5. CASE SyncBegins
  BY <1>5, SyncBeginsMeans DEF QueueTyped, HeadBecomes
<1>6. CASE SyncReads
  BY <1>6, SyncReadsMeans DEF QueueTyped, HeadBecomes
<1>7. CASE SyncRefused \/ SyncSets \/ SyncFails \/ Refuse \/ Control
  BY <1>2, <1>7 DEF SyncRefused, SyncSets, SyncFails, Refuse, Control, Running
<1>8. ASSUME NEW r \in Roots, BeginOpen(r) PROVE QueueTyped'
  BY <1>1, <1>8 DEF BeginOpen
<1>9. CASE BeginClose \/ Closes \/ Moves \/ Fails \/ Commit \/ UnloadRequest \/ Tick
  BY <1>1, <1>9 DEF BeginClose, Closes, Moves, Fails, Commit, UnloadRequest, Tick, previewVars
<1>10. ASSUME NEW l \in Loaders,
             LoadBegins(l) \/ LoadRefused(l) \/ LoadReads(l) \/ LoadSets(l) \/ LoadFails(l)
       PROVE QueueTyped'
  BY <1>1, <1>10 DEF LoadBegins, LoadRefused, LoadReads, LoadSets, LoadFails
<1>11. CASE UNCHANGED vars
  BY <1>1, <1>11 DEF vars, previewVars
<1> QED
  BY <1>3, <1>4, <1>5, <1>6, <1>7, <1>8, <1>9, <1>10, <1>11 DEF Next

(* The rest of the state does, and the session fits its timeline. *)
LEMMA StateTypedStep ==
  Typed /\ BegunInv /\ FrameInTimeline /\ [Next]_vars => StateTyped' /\ FrameInTimeline'
<1> SUFFICES ASSUME ProjectTyped, StateTyped, QueueTyped, BegunInv, FrameInTimeline, [Next]_vars
             PROVE  StateTyped' /\ FrameInTimeline'
  BY DEF Typed
<1> USE DEF StateTyped
<1>1. CASE UNCHANGED <<revision, notices, session, loads>> /\ used' \in Uses
  BY <1>1 DEF FrameInTimeline
<1>2. CASE UNCHANGED <<revision, notices, loads>> /\ used' \in Uses /\ session' = None
  BY <1>2 DEF FrameInTimeline
<1>3. CASE /\ UNCHANGED <<revision, notices>> /\ used' \in Uses
           /\ loads' \in [Loaders -> Refreshes]
           /\ session' \in Sessions /\ Fits(session')
  BY <1>3 DEF FrameInTimeline, Fits
<1>4. CASE /\ UNCHANGED <<revision, notices, session>> /\ used' \in Uses
           /\ loads' \in [Loaders -> Refreshes]
  BY <1>4 DEF FrameInTimeline
<1>5. ASSUME NEW r \in Roots, BeginOpen(r) PROVE StateTyped' /\ FrameInTimeline'
  BY <1>1, <1>5, Counted DEF BeginOpen
<1>6. CASE BeginClose \/ Fails
  BY <1>1, <1>6, Counted DEF BeginClose, Fails
<1>7. CASE Closes \/ UnloadRequest
  BY <1>2, <1>7, Counted DEF Closes, UnloadRequest, Unload
<1>8. CASE Moves
  BY <1>1, <1>8 DEF Moves, previewVars
<1>9. CASE Commit
  <2>1. openRoot \in Roots
    BY <1>9 DEF Commit, RootIsReadable, ProjectTyped, SessionTypeOK
  <2>2. revision' \in [Roots -> Revisions] /\ notices' \in Nat
    BY <1>9, <2>1 DEF Commit
  <2> QED
    BY <1>9, <2>2 DEF Commit, FrameInTimeline
<1>10. CASE Notify
  <2>1. notices' \in Nat
    BY <1>10 DEF Notify
  <2> QED
    BY <1>10, <2>1 DEF Notify, FrameInTimeline
<1>11. NoRefresh \in Refreshes
  BY DEF NoRefresh, Refreshes
<1>12. ASSUME NEW l \in Loaders, LoadBegins(l) PROVE StateTyped' /\ FrameInTimeline'
  BY <1>4, <1>12, Counted, ReadingSound DEF LoadBegins
<1>13. ASSUME NEW l \in Loaders, LoadRefused(l) PROVE StateTyped' /\ FrameInTimeline'
  BY <1>1, <1>13, Counted DEF LoadRefused
<1>14. ASSUME NEW l \in Loaders, LoadReads(l) PROVE StateTyped' /\ FrameInTimeline'
  <2> DEFINE r == loads[l]  g == [r EXCEPT !.step = "read", !.read = revision[r.root]]
  <2>1. r \in Refreshes /\ r.root \in Roots
    BY <1>14 DEF LoadReads, BegunInv, Begun, BegunAt
  <2>2. g \in Refreshes
    BY <2>1 DEF Refreshes
  <2>3. loads' = [loads EXCEPT ![l] = g]
    BY <1>14 DEF LoadReads
  <2> HIDE DEF g
  <2> QED
    BY <1>4, <1>14, <2>2, <2>3 DEF LoadReads
<1>15. ASSUME NEW l \in Loaders, LoadSets(l) PROVE StateTyped' /\ FrameInTimeline'
  BY <1>3, <1>11, <1>15, Counted, LoadSetsMeans DEF LoadSets
<1>16. ASSUME NEW l \in Loaders, LoadFails(l) PROVE StateTyped' /\ FrameInTimeline'
  BY <1>4, <1>11, <1>16, Counted DEF LoadFails
<1>17. CASE SyncBegins \/ SyncReads \/ Refuse
  BY <1>1, <1>17 DEF SyncBegins, SyncReads, Refuse
<1>18. CASE SyncRefused \/ SyncFails
  BY <1>1, <1>18, Counted DEF SyncRefused, SyncFails
<1>19. CASE SyncSets
  BY <1>3, <1>19, Counted, SyncSetsMeans DEF SyncSets
<1>20. ASSUME NEW c \in Controls, Request(c) PROVE StateTyped' /\ FrameInTimeline'
  BY <1>1, <1>20, Counted DEF Request
<1>21. CASE Control
  BY <1>3, <1>21, Counted, ControlMeans DEF Control
<1>22. CASE Tick
  BY <1>1, <1>3, <1>22, TickMeans DEF Tick
<1>23. CASE UNCHANGED vars
  BY <1>1, <1>23 DEF vars, previewVars
<1> QED
  BY <1>5, <1>6, <1>7, <1>8, <1>9, <1>10, <1>12, <1>13, <1>14, <1>15, <1>16, <1>17, <1>18,
     <1>19, <1>20, <1>21, <1>22, <1>23 DEF Next

-----------------------------------------------------------------------------
(* Refreshes in flight.                                                     *)

(* Only setting the session starts the clock, and as long as it is not set  *)
(* the open project stays open. *)
Progress ==
  /\ used.sets <= used'.sets /\ used.failures <= used'.failures
  /\ used'.sets = used.sets => /\ openRoot \in Roots => openRoot' = openRoot
                               /\ timer = FALSE => timer' = FALSE

(* Every step makes such progress. *)
LEMMA ProgressStep == Typed /\ FrameInTimeline /\ [Next]_vars => Progress
<1> SUFFICES ASSUME ProjectTyped, StateTyped, FrameInTimeline, [Next]_vars PROVE Progress
  BY DEF Typed
<1>1. used \in Uses /\ used.sets \in Nat /\ used.failures \in Nat
  BY Counted DEF StateTyped
<1> DEFINE Counts == used'.sets = used.sets /\ used.failures <= used'.failures
           Steady == openRoot' = openRoot /\ (timer' = timer \/ timer' = FALSE)
<1>2. CASE Counts /\ Steady
  BY <1>1, <1>2 DEF Progress
<1> HIDE DEF Steady
<1>3. CASE Use("sets")
  BY <1>1, <1>3, Counted DEF Progress
<1>4. ASSUME NEW r \in Roots, BeginOpen(r) PROVE Progress
  <2>1. Steady
    BY Zenon, <1>4 DEF Steady, BeginOpen, BeginTransition
  <2>2. Counts
    BY <1>1, <1>4, Counted DEF BeginOpen
  <2> QED
    BY <1>2, <2>1, <2>2
<1>5. CASE BeginClose \/ Fails
  <2>1. Steady
    BY Zenon, <1>5 DEF Steady, BeginClose, Fails, BeginTransition, TransitionFails
  <2>2. Counts
    BY <1>1, <1>5, Counted DEF BeginClose, Fails
  <2> QED
    BY <1>2, <2>1, <2>2
<1>6. CASE Closes \/ UnloadRequest
  BY <1>3, <1>6 DEF Closes, UnloadRequest, Unload
<1>7. CASE Moves
  BY <1>1, <1>7, NoneIsNoSession
     DEF Moves, ProjectOpens, TransitionReturns, ProjectTyped, Progress, previewVars
<1>8. CASE Commit \/ Notify \/ SyncBegins \/ SyncReads \/ Refuse
  <2>1. Steady
    BY Zenon, <1>8 DEF Steady, Commit, Notify, SyncBegins, SyncReads, Refuse, sessionVars
  <2>2. used' = used
    BY Zenon, <1>8 DEF Commit, Notify, SyncBegins, SyncReads, Refuse
  <2> QED
    BY <1>1, <1>2, <2>1, <2>2
<1>9. ASSUME NEW l \in Loaders,
             LoadBegins(l) \/ LoadRefused(l) \/ LoadReads(l) \/ LoadFails(l)
      PROVE Progress
  <2>1. Steady
    BY Zenon, <1>9 DEF Steady, LoadBegins, LoadRefused, LoadReads, LoadFails, sessionVars
  <2>2. \/ Use("loads") \/ Use("failures") \/ used' = used
        \/ used' = [used EXCEPT !.loads = @ + 1, !.failures = @ + 1]
    BY Zenon, <1>9 DEF LoadBegins, LoadRefused, LoadReads, LoadFails
  <2>3. Counts
    BY <1>1, <2>2, Counted
  <2> QED
    BY <1>2, <2>1, <2>3
<1>10. ASSUME NEW l \in Loaders, LoadSets(l) PROVE Progress
  BY <1>3, <1>10 DEF LoadSets
<1>11. CASE SyncRefused \/ SyncFails
  <2>1. Steady
    BY Zenon, <1>11 DEF Steady, SyncRefused, SyncFails, sessionVars
  <2>2. Counts
    BY <1>1, <1>11, Counted DEF SyncRefused, SyncFails
  <2> QED
    BY <1>2, <2>1, <2>2
<1>12. CASE SyncSets \/ Control
  BY <1>3, <1>12 DEF SyncSets, Control
<1>13. ASSUME NEW c \in Controls, Request(c) PROVE Progress
  <2>1. Steady
    BY Zenon, <1>13 DEF Steady, Request, sessionVars
  <2>2. Counts
    BY <1>1, <1>13, Counted DEF Request
  <2> QED
    BY <1>2, <2>1, <2>2
<1>14. CASE Tick
  BY <1>1, <1>14 DEF Tick, Progress, sessionVars
<1>15. CASE UNCHANGED vars
  <2>1. Steady /\ used' = used
    BY <1>15 DEF Steady, vars, sessionVars, previewVars
  <2> QED
    BY <1>1, <1>2, <2>1
<1> QED
  BY <1>4, <1>5, <1>6, <1>7, <1>8, <1>9, <1>10, <1>11, <1>12, <1>13, <1>14, <1>15 DEF Next

(* A refresh has just begun, has just read, or has not moved. *)
BeganNow(r) ==
  /\ r = Reading /\ openRoot \in Roots /\ openRoot' = openRoot /\ timer' = FALSE
  /\ used'.sets = used.sets /\ used'.failures = used.failures
ReadNow(r, g) ==
  /\ r.step = "reading" /\ g.step = "read"
  /\ g.root = r.root /\ g.over = r.over /\ g.since = r.since
  /\ g.read = revision[r.root] /\ g.read \in Revisions /\ revision' = revision

(* What can become of a load. *)
LEMMA LoadChange ==
  ASSUME Typed, BegunInv, [Next]_vars, NEW l \in Loaders
  PROVE  \/ loads'[l] = loads[l]
         \/ loads'[l] = NoRefresh
         \/ BeganNow(loads'[l])
         \/ ReadNow(loads[l], loads'[l])
<1>1. CASE UNCHANGED loads
  BY <1>1
<1>2. loads \in [Loaders -> Refreshes] /\ revision \in [Roots -> Revisions] /\ used \in Uses
  BY DEF Typed, StateTyped
<1>3. ASSUME NEW k \in Loaders, LoadBegins(k) PROVE BeganNow(loads'[l]) \/ loads'[l] = loads[l]
  <2>1. openRoot \in Roots
    BY <1>3, ReadingSound DEF LoadBegins, Typed
  <2>2. used'.sets = used.sets /\ used'.failures = used.failures
    BY <1>2, <1>3, Counted DEF LoadBegins
  <2>3. openRoot' = openRoot /\ timer' = FALSE
    BY <1>3 DEF LoadBegins, sessionVars
  <2>4. loads'[l] = Reading \/ loads'[l] = loads[l]
    BY <1>2, <1>3 DEF LoadBegins
  <2> QED
    BY <2>1, <2>2, <2>3, <2>4 DEF BeganNow
<1>4. ASSUME NEW k \in Loaders, LoadReads(k)
      PROVE  ReadNow(loads[l], loads'[l]) \/ loads'[l] = loads[l]
  <2>1. CASE k # l
    BY <1>2, <1>4, <2>1 DEF LoadReads
  <2>2. CASE k = l
    <3> DEFINE r == loads[l]  g == [r EXCEPT !.step = "read", !.read = revision[r.root]]
    <3>1. r.step = "reading" /\ revision' = revision
      BY <1>4, <2>2 DEF LoadReads
    <3>2. r.root \in Roots /\ r \in Refreshes
      BY <1>2, <3>1 DEF BegunInv, Begun, BegunAt
    <3>3. revision[r.root] \in Revisions
      BY <1>2, <3>2
    <3>4. loads' = [loads EXCEPT ![l] = g]
      BY <1>2, <1>4, <2>2 DEF LoadReads
    <3>5. /\ g.step = "read" /\ g.root = r.root /\ g.over = r.over /\ g.since = r.since
          /\ g.read = revision[r.root]
      BY <3>2 DEF Refreshes
    <3> HIDE DEF g
    <3>6. loads'[l] = g
      BY <1>2, <3>4
    <3> QED
      BY <3>1, <3>3, <3>5, <3>6 DEF ReadNow
  <2> QED
    BY <2>1, <2>2
<1>5. ASSUME NEW k \in Loaders, LoadRefused(k) \/ LoadSets(k) \/ LoadFails(k)
      PROVE  loads'[l] = loads[l] \/ loads'[l] = NoRefresh
  BY <1>2, <1>5 DEF LoadRefused, LoadSets, LoadFails
<1>6. ASSUME NEW r \in Roots, BeginOpen(r) PROVE UNCHANGED loads
  BY <1>6 DEF BeginOpen
<1>7. CASE \/ BeginClose \/ Closes \/ Moves \/ Fails \/ Commit \/ Notify \/ UnloadRequest
           \/ Refuse \/ Control \/ Tick
  BY <1>1, <1>7 DEF BeginClose, Closes, Moves, Fails, Commit, Notify, UnloadRequest, Refuse,
                    Control, Tick, previewVars
<1>8. CASE SyncBegins \/ SyncRefused \/ SyncReads \/ SyncSets \/ SyncFails
  BY <1>1, <1>8 DEF SyncBegins, SyncRefused, SyncReads, SyncSets, SyncFails
<1>9. ASSUME NEW c \in Controls, Request(c) PROVE UNCHANGED loads
  BY <1>9 DEF Request
<1>10. CASE UNCHANGED vars
  BY <1>1, <1>10 DEF vars, previewVars
<1> QED
  BY <1>1, <1>3, <1>4, <1>5, <1>6, <1>7, <1>8, <1>9, <1>10 DEF Next

(* What can become of the running operation: it goes on or has not moved,   *)
(* or the operation that is running now has not begun. *)
HeadKept ==
  /\ queue # <<>> /\ Len(queue') >= Len(queue)
  /\ \A i \in 2..Len(queue) : queue'[i] = queue[i]
  /\ queue'[1].kind = queue[1].kind

(* What the queue may begin with after a step. *)
LEMMA HeadChange ==
  ASSUME Typed, BegunInv, [Next]_vars, queue' # <<>>
  PROVE  \/ queue'[1].refresh = NoRefresh
         \/ HeadKept /\ queue'[1] = queue[1]
         \/ /\ HeadKept /\ SyncBegins /\ BeganNow(queue'[1].refresh)
            /\ queue[1].kind = "sync" /\ queue'[1].found = session
         \/ /\ HeadKept /\ ReadNow(queue[1].refresh, queue'[1].refresh)
            /\ queue'[1].found = queue[1].found
<1>1. TypedQueue(queue) /\ Len(queue) \in Nat /\ (queue # <<>> <=> Len(queue) >= 1)
  BY QueueLength DEF Typed, QueueTyped
<1>2. CASE UNCHANGED queue
  BY <1>1, <1>2 DEF HeadKept
<1>3. CASE queue # <<>> /\ queue' = Tail(queue)
  <2>1. Popped(queue, queue')
    BY <1>1, <1>3, QueuePop
  <2>2. Len(queue') \in Nat /\ Len(queue') >= 1
    BY <2>1, QueueLength DEF Popped
  <2> QED
    BY <2>1, <2>2 DEF Popped
<1>4. ASSUME NEW t, Appended(queue, queue', t), t.refresh = NoRefresh
      PROVE  queue'[1].refresh = NoRefresh \/ (HeadKept /\ queue'[1] = queue[1])
  <2>1. CASE Len(queue) = 0
    BY <1>4, <2>1 DEF Appended
  <2>2. CASE Len(queue) # 0
    BY <1>1, <1>4, <2>2 DEF Appended, HeadKept
  <2> QED
    BY <2>1, <2>2
<1>5. CASE Notify
  BY <1>1, <1>4, <1>5, QueuedSync, QueueAppend DEF Notify
<1>6. ASSUME NEW c \in Controls, Request(c)
      PROVE  queue'[1].refresh = NoRefresh \/ (HeadKept /\ queue'[1] = queue[1])
  BY <1>1, <1>4, <1>6, RequestedTask, QueueAppend DEF Request, Typed
<1>7. CASE SyncBegins
  <2>1. /\ queue # <<>> /\ queue[1].kind = "sync" /\ HeadBecomes(queue, queue', queue'[1])
        /\ queue'[1].kind = "sync" /\ queue'[1].refresh = Reading
        /\ queue'[1].found = session
    BY <1>7, SyncBeginsMeans DEF Typed
  <2>2. HeadKept
    BY <2>1 DEF HeadBecomes, HeadKept
  <2>3. BeganNow(queue'[1].refresh)
    BY <1>7, <2>1, ReadingSound DEF SyncBegins, BeganNow, Typed, sessionVars
  <2> QED
    BY <1>7, <2>1, <2>2, <2>3
<1>8. CASE SyncReads
  <2> DEFINE r == queue[1].refresh  g == queue'[1].refresh
  <2>1. /\ queue # <<>> /\ queue[1].kind = "sync" /\ r.step = "reading"
        /\ HeadBecomes(queue, queue', queue'[1])
        /\ queue'[1].kind = "sync" /\ queue'[1].found = queue[1].found
        /\ g.step = "read" /\ g.root = r.root /\ g.over = r.over /\ g.since = r.since
        /\ g.read = revision[r.root] /\ g.read \in Revisions
    BY <1>8, SyncReadsMeans DEF Typed
  <2>2. HeadKept
    BY <2>1 DEF HeadBecomes, HeadKept
  <2>3. revision' = revision
    BY <1>8 DEF SyncReads
  <2> QED
    BY <2>1, <2>2, <2>3 DEF ReadNow
<1>9. CASE SyncRefused \/ SyncSets \/ SyncFails \/ Refuse \/ Control
  BY <1>3, <1>9 DEF SyncRefused, SyncSets, SyncFails, Refuse, Control, Running
<1>10. ASSUME NEW r \in Roots, BeginOpen(r) PROVE UNCHANGED queue
  BY <1>10 DEF BeginOpen
<1>11. CASE BeginClose \/ Closes \/ Moves \/ Fails \/ Commit \/ UnloadRequest \/ Tick
  BY <1>2, <1>11 DEF BeginClose, Closes, Moves, Fails, Commit, UnloadRequest, Tick, previewVars
<1>12. ASSUME NEW l \in Loaders,
             LoadBegins(l) \/ LoadRefused(l) \/ LoadReads(l) \/ LoadSets(l) \/ LoadFails(l)
       PROVE UNCHANGED queue
  BY <1>12 DEF LoadBegins, LoadRefused, LoadReads, LoadSets, LoadFails
<1>13. CASE UNCHANGED vars
  BY <1>2, <1>13 DEF vars, previewVars
<1> QED
  BY <1>2, <1>5, <1>6, <1>7, <1>8, <1>9, <1>10, <1>11, <1>12, <1>13 DEF Next

(* A refresh that does not move stays in order as long as progress is made. *)
LEMMA BegunKept ==
  \A r, s, t, f, g, o, p, c, d :
    /\ BegunAt(r, s, f, o, c)
    /\ r.over \in Nat /\ r.since \in Nat
    /\ s \in Nat /\ t \in Nat /\ f \in Nat /\ g \in Nat /\ s <= t /\ f <= g
    /\ t = s => /\ o \in Roots => p = o
                /\ c = FALSE => d = FALSE
    => BegunAt(r, t, g, p, d)
BY DEF BegunAt

(* So every refresh in flight stays in order. *)
LEMMA BegunStep ==
  ASSUME Typed, StateTyped', QueueTyped', BegunInv, Progress, [Next]_vars
  PROVE  BegunInv'
<1>1. /\ used.sets \in Nat /\ used.failures \in Nat
      /\ used'.sets \in Nat /\ used'.failures \in Nat
  BY DEF Typed, StateTyped, Uses
<1>2. ASSUME NEW r \in Refreshes, Begun(r) PROVE BegunAt(r, used'.sets, used'.failures, openRoot', timer')
  <2>1. r.over \in Nat /\ r.since \in Nat
    BY DEF Refreshes
  <2> QED
    BY <1>1, <1>2, <2>1, BegunKept DEF Begun, Progress
<1>3. ASSUME NEW r, BeganNow(r) PROVE BegunAt(r, used'.sets, used'.failures, openRoot', timer')
  BY <1>1, <1>3 DEF BeganNow, BegunAt, Reading
<1>4. ASSUME NEW r \in Refreshes, NEW g, Begun(r), ReadNow(r, g)
      PROVE  BegunAt(g, used'.sets, used'.failures, openRoot', timer')
  <2>1. BegunAt(r, used'.sets, used'.failures, openRoot', timer')
    BY <1>2, <1>4
  <2> QED
    BY <1>4, <2>1 DEF ReadNow, BegunAt
<1>5. BegunAt(NoRefresh, used'.sets, used'.failures, openRoot', timer')
  BY DEF NoRefresh, BegunAt
<1>6. ASSUME NEW l \in Loaders PROVE Begun(loads[l])'
  <2>1. loads[l] \in Refreshes /\ Begun(loads[l])
    BY DEF Typed, StateTyped, BegunInv
  <2>2. \/ loads'[l] = loads[l]
        \/ loads'[l] = NoRefresh
        \/ BeganNow(loads'[l])
        \/ ReadNow(loads[l], loads'[l])
    BY LoadChange
  <2>3. BegunAt(loads'[l], used'.sets, used'.failures, openRoot', timer')
    BY <1>2, <1>3, <1>4, <1>5, <2>1, <2>2
  <2> QED
    BY <2>3 DEF Begun
<1>7. ASSUME queue' # <<>> PROVE Begun(queue[1].refresh)'
  <2>1. queue # <<>> => queue[1].refresh \in Refreshes /\ Begun(queue[1].refresh)
    BY QueueLength, TaskShape DEF Typed, QueueTyped, BegunInv
  <2>2. \/ queue'[1].refresh = NoRefresh
        \/ queue # <<>> /\ queue'[1] = queue[1]
        \/ BeganNow(queue'[1].refresh)
        \/ queue # <<>> /\ ReadNow(queue[1].refresh, queue'[1].refresh)
    BY <1>7, HeadChange DEF HeadKept
  <2>3. BegunAt(queue'[1].refresh, used'.sets, used'.failures, openRoot', timer')
    BY <1>2, <1>3, <1>4, <1>5, <2>1, <2>2
  <2> QED
    BY <2>3 DEF Begun
<1> QED
  BY <1>6, <1>7 DEF BegunInv

-----------------------------------------------------------------------------
(* Freshness.                                                               *)

(* A cover lasts as long as no synchronisation ends. *)
LEMMA CoveredKept ==
  ASSUME Typed, BegunInv, [Next]_vars, ~SyncRefused, ~SyncSets, ~SyncFails, Covered
  PROVE  Covered'
<1>1. TypedQueue(queue) /\ Len(queue) \in Nat /\ notices \in Nat
  BY QueueLength DEF Typed, QueueTyped, StateTyped
<1>2. CASE UNCHANGED <<notices, queue, revision>>
  BY <1>2 DEF Covered, Covers, ReadsCurrent
<1>3. CASE Commit
  BY <1>1, <1>3 DEF Commit, Covered
<1>4. CASE Notify
  <2>1. Appended(queue, queue', SyncTask)
    BY <1>1, <1>4, QueuedSync, QueueAppend DEF Notify
  <2>2. Len(queue') \in 1..Len(queue') /\ queue'[Len(queue')] = SyncTask
    BY <2>1 DEF Appended
  <2>3. Covers(queue[Len(queue)])'
    BY <2>2 DEF Covers, SyncTask, NoRefresh
  <2> QED
    BY <2>2, <2>3 DEF Covered
<1>5. ASSUME NEW c \in Controls, Request(c) PROVE Covered'
  <2>1. Appended(queue, queue', ControlTask(c)) /\ notices' = notices /\ revision' = revision
    BY <1>1, <1>5, RequestedTask, QueueAppend DEF Request, Typed
  <2>2. CASE notices > 0
    BY <2>1, <2>2 DEF Covered
  <2>3. ASSUME NEW i \in 1..Len(queue), Covers(queue[i]) PROVE Covered'
    <3>1. i \in 1..Len(queue') /\ queue'[i] = queue[i]
      BY <2>1 DEF Appended
    <3> QED
      BY <2>1, <2>3, <3>1 DEF Covered, Covers, ReadsCurrent
  <2> QED
    BY <2>2, <2>3 DEF Covered
<1>6. ASSUME HeadBecomes(queue, queue', queue'[1]), notices' = notices, revision' = revision,
             queue'[1].kind = "sync",
             queue'[1].refresh.step = "read" => ReadsCurrent(queue[1].refresh)'
      PROVE Covered'
  <2>1. 1 \in 1..Len(queue') /\ Covers(queue[1])'
    BY <1>6 DEF HeadBecomes, Covers
  <2> QED
    BY <2>1 DEF Covered
<1>7. CASE SyncBegins
  <2>1. Reading.step = "reading"
    BY DEF Reading
  <2> QED
    BY <1>6, <1>7, <2>1, SyncBeginsMeans DEF SyncBegins, Typed
<1>8. CASE SyncReads
  <2>1. ReadsCurrent(queue[1].refresh)'
    BY <1>8, SyncReadsMeans DEF SyncReads, ReadsCurrent, Typed
  <2> QED
    BY <1>6, <1>8, <2>1, SyncReadsMeans DEF SyncReads, Typed
<1>9. CASE Refuse \/ Control
  <2>1. /\ queue # <<>> /\ queue[1].kind = "control" /\ queue' = Tail(queue)
        /\ notices' = notices /\ revision' = revision
    BY <1>9 DEF Refuse, Control, Running
  <2>2. Popped(queue, queue')
    BY <1>1, <2>1, QueuePop
  <2>3. CASE notices > 0
    BY <2>1, <2>3 DEF Covered
  <2>4. ASSUME NEW i \in 1..Len(queue), Covers(queue[i]) PROVE Covered'
    <3>1. i # 1
      BY <2>1, <2>4 DEF Covers
    <3>2. i - 1 \in 1..Len(queue') /\ queue'[i - 1] = queue[i]
      BY <2>2, <3>1 DEF Popped
    <3> QED
      BY <2>1, <2>4, <3>2 DEF Covered, Covers, ReadsCurrent
  <2> QED
    BY <2>3, <2>4 DEF Covered
<1>10. ASSUME NEW r \in Roots, BeginOpen(r) PROVE Covered'
  BY <1>2, <1>10 DEF BeginOpen
<1>11. CASE BeginClose \/ Closes \/ Moves \/ Fails \/ UnloadRequest \/ Tick
  BY <1>2, <1>11 DEF BeginClose, Closes, Moves, Fails, UnloadRequest, Tick, previewVars
<1>12. ASSUME NEW l \in Loaders,
             LoadBegins(l) \/ LoadRefused(l) \/ LoadReads(l) \/ LoadSets(l) \/ LoadFails(l)
       PROVE Covered'
  BY <1>2, <1>12 DEF LoadBegins, LoadRefused, LoadReads, LoadSets, LoadFails
<1>13. CASE UNCHANGED vars
  BY <1>2, <1>13 DEF vars, previewVars
<1> QED
  BY <1>3, <1>4, <1>5, <1>7, <1>8, <1>9, <1>10, <1>11, <1>12, <1>13 DEF Next

(* So does one behind the running operation while that runs on, and a       *)
(* revision that changes meanwhile is covered. *)
LEMMA BehindKept ==
  ASSUME Typed, BegunInv, [Next]_vars, queue' # <<>>, HeadKept,
         CoveredBehind \/ revision' # revision
  PROVE  CoveredBehind'
<1>1. TypedQueue(queue) /\ Len(queue) \in Nat /\ notices \in Nat /\ Len(queue) >= 1
  BY QueueLength DEF Typed, QueueTyped, StateTyped, HeadKept
<1>2. CASE Commit
  BY <1>1, <1>2 DEF Commit, CoveredBehind
<1>3. CASE Notify
  <2>1. Appended(queue, queue', SyncTask)
    BY <1>1, <1>3, QueuedSync, QueueAppend DEF Notify
  <2>2. Len(queue') \in 2..Len(queue') /\ queue'[Len(queue')].kind = "sync"
    BY <1>1, <2>1, QueuedSync DEF Appended
  <2> QED
    BY <2>2 DEF CoveredBehind
<1>4. CASE UNCHANGED <<notices, revision>>
  <2>1. CASE notices > 0
    BY <1>4, <2>1 DEF CoveredBehind
  <2>2. ASSUME NEW i \in 2..Len(queue), queue[i].kind = "sync" PROVE CoveredBehind'
    <3>1. Len(queue') \in Nat
      BY QueueTypedStep, QueueLength DEF Typed, QueueTyped
    <3>2. i \in 2..Len(queue') /\ queue'[i] = queue[i]
      BY <1>1, <3>1 DEF HeadKept
    <3> QED
      BY <2>2, <3>2 DEF CoveredBehind
  <2> QED
    BY <1>4, <2>1, <2>2 DEF CoveredBehind
<1>5. ASSUME NEW r \in Roots, BeginOpen(r) PROVE UNCHANGED <<notices, revision>>
  BY <1>5 DEF BeginOpen
<1>6. CASE BeginClose \/ Closes \/ Moves \/ Fails \/ UnloadRequest \/ Refuse \/ Control \/ Tick
  BY <1>4, <1>6 DEF BeginClose, Closes, Moves, Fails, UnloadRequest, Refuse, Control, Tick,
                    previewVars
<1>7. ASSUME NEW l \in Loaders,
             LoadBegins(l) \/ LoadRefused(l) \/ LoadReads(l) \/ LoadSets(l) \/ LoadFails(l)
       PROVE UNCHANGED <<notices, revision>>
  BY <1>7 DEF LoadBegins, LoadRefused, LoadReads, LoadSets, LoadFails
<1>8. CASE SyncBegins \/ SyncRefused \/ SyncReads \/ SyncSets \/ SyncFails
  BY <1>4, <1>8 DEF SyncBegins, SyncRefused, SyncReads, SyncSets, SyncFails
<1>9. ASSUME NEW c \in Controls, Request(c) PROVE UNCHANGED <<notices, revision>>
  BY <1>9 DEF Request
<1>10. CASE UNCHANGED vars
  BY <1>4, <1>10 DEF vars, previewVars
<1> QED
  BY <1>2, <1>3, <1>4, <1>5, <1>6, <1>7, <1>8, <1>9, <1>10 DEF Next

(* What setting the session by refresh r means for the history variables. *)
LEMMA SettleMeans ==
  ASSUME NEW r, Settle(r)
  PROVE  /\ ~raced' => r.over = used.sets /\ r.root = openRoot
         /\ ~missed' => ~missed \/ r.since = used.failures
BY Zenon DEF Settle

(* A refresh that fails is missed. *)
LEMMA FailuresAreMissed ==
  ASSUME Typed, SyncRefused \/ SyncFails
  PROVE  missed' /\ used'.failures = used.failures + 1 /\ used'.sets = used.sets
<1>1. missed' /\ Use("failures")
  BY Zenon DEF SyncRefused, SyncFails
<1> QED
  BY <1>1, Counted DEF Typed, StateTyped

(* Only setting the session makes up for a failure, and nothing undoes a    *)
(* race but setting it. *)
LEMMA MissedKept ==
  ASSUME [Next]_vars, ~SyncSets, \A l \in Loaders : ~LoadSets(l)
  PROVE  (~missed' => ~missed) /\ (~raced' => ~raced)
<1>1. CASE UNCHANGED <<raced, missed>>
  BY Zenon, <1>1
<1>2. CASE UNCHANGED raced /\ missed' = TRUE
  BY Zenon, <1>2
<1>3. ASSUME NEW r \in Roots, BeginOpen(r) PROVE UNCHANGED <<raced, missed>>
  BY Zenon, <1>3 DEF BeginOpen
<1>4. CASE BeginClose \/ Closes \/ Moves \/ Fails \/ Commit \/ Notify \/ UnloadRequest
           \/ Refuse \/ Control \/ Tick
  BY Zenon, <1>1, <1>4 DEF BeginClose, Closes, Moves, Fails, Commit, Notify, UnloadRequest,
                           Refuse, Control, Tick, previewVars
<1>5. ASSUME NEW l \in Loaders, LoadBegins(l) \/ LoadReads(l) PROVE UNCHANGED <<raced, missed>>
  BY Zenon, <1>5 DEF LoadBegins, LoadReads
<1>6. ASSUME NEW l \in Loaders, LoadRefused(l) \/ LoadFails(l)
      PROVE UNCHANGED raced /\ missed' = TRUE
  BY Zenon, <1>6 DEF LoadRefused, LoadFails
<1>7. CASE SyncBegins \/ SyncReads
  BY Zenon, <1>1, <1>7 DEF SyncBegins, SyncReads
<1>8. CASE SyncRefused \/ SyncFails
  BY Zenon, <1>2, <1>8 DEF SyncRefused, SyncFails
<1>9. ASSUME NEW c \in Controls, Request(c) PROVE UNCHANGED <<raced, missed>>
  BY Zenon, <1>9 DEF Request
<1>10. CASE UNCHANGED vars
  BY Zenon, <1>1, <1>10 DEF vars, previewVars
<1> QED
  BY Zenon, <1>1, <1>2, <1>3, <1>4, <1>5, <1>6, <1>7, <1>8, <1>9, <1>10 DEF Next

(* A command that is committed is to be announced. *)
LEMMA ChangeIsCovered ==
  ASSUME Typed, [Next]_vars, revision' # revision
  PROVE  Covered'
<1>1. notices \in Nat
  BY DEF Typed, StateTyped
<1>2. Commit
  <2>1. ASSUME NEW r \in Roots, BeginOpen(r) PROVE UNCHANGED revision
    BY <2>1 DEF BeginOpen
  <2>2. ASSUME BeginClose \/ Closes \/ Moves \/ Fails \/ Notify \/ UnloadRequest
               \/ Refuse \/ Control \/ Tick
        PROVE UNCHANGED revision
    BY <2>2 DEF BeginClose, Closes, Moves, Fails, Notify, UnloadRequest, Refuse, Control, Tick,
                previewVars
  <2>3. ASSUME NEW l \in Loaders,
               LoadBegins(l) \/ LoadRefused(l) \/ LoadReads(l) \/ LoadSets(l) \/ LoadFails(l)
        PROVE UNCHANGED revision
    BY <2>3 DEF LoadBegins, LoadRefused, LoadReads, LoadSets, LoadFails
  <2>4. ASSUME SyncBegins \/ SyncRefused \/ SyncReads \/ SyncSets \/ SyncFails
        PROVE UNCHANGED revision
    BY <2>4 DEF SyncBegins, SyncRefused, SyncReads, SyncSets, SyncFails
  <2>5. ASSUME NEW c \in Controls, Request(c) PROVE UNCHANGED revision
    BY <2>5 DEF Request
  <2>6. UNCHANGED vars => UNCHANGED revision
    BY DEF vars, previewVars
  <2> QED
    BY <2>1, <2>2, <2>3, <2>4, <2>5, <2>6 DEF Next
<1> QED
  BY <1>1, <1>2 DEF Commit, Covered

(* What a load has read stays as good as the session it would set. *)
LEMMA LoadFreshStep ==
  ASSUME Typed, StateTyped', BegunInv, Progress, FreshInv, [Next]_vars, NEW l \in Loaders
  PROVE  LoadFresh(loads[l])'
<1> SUFFICES ASSUME loads'[l].step = "read", loads'[l].over = used'.sets,
                    ~missed' \/ loads'[l].since = used'.failures
             PROVE  ReadsCurrent(loads[l])' \/ Covered'
  BY DEF LoadFresh
<1>1. loads'[l] = loads[l] \/ ReadNow(loads[l], loads'[l])
  <2>1. ~BeganNow(loads'[l]) /\ loads'[l] # NoRefresh
    BY DEF BeganNow, Reading, NoRefresh
  <2> QED
    BY <2>1, LoadChange
<1>2. CASE ReadNow(loads[l], loads'[l])
  BY <1>2 DEF ReadNow, ReadsCurrent
<1>3. CASE loads'[l] = loads[l]
  <2> DEFINE r == loads[l]
  <2>1. /\ r.over \in Nat /\ r.since \in Nat /\ used.sets \in Nat /\ used.failures \in Nat
        /\ used'.sets \in Nat /\ used'.failures \in Nat
    BY DEF Typed, StateTyped, Refreshes, Uses
  <2>2. r.over <= used.sets /\ r.since <= used.failures
    BY <1>3 DEF BegunInv, Begun, BegunAt
  <2>3. used'.sets = used.sets /\ r.over = used.sets
    BY <1>3, <2>1, <2>2 DEF Progress
  <2>4. r.since = used'.failures => r.since = used.failures
    BY <2>1, <2>2 DEF Progress
  <2>5. ~SyncRefused /\ ~SyncFails
    BY <1>3, <2>1, <2>2, FailuresAreMissed
  <2>6. ~SyncSets /\ \A k \in Loaders : ~LoadSets(k)
    <3>1. ~Use("sets")
      BY <2>1, <2>3, Counted DEF Typed, StateTyped
    <3> QED
      BY <3>1 DEF SyncSets, LoadSets
  <2>7. ~missed \/ r.since = used.failures
    BY Zenon, <1>3, <2>4, <2>6, MissedKept
  <2>8. ReadsCurrent(r) \/ Covered
    BY <1>3, <2>3, <2>7 DEF FreshInv, LoadFresh
  <2>9. CASE Covered
    BY <2>5, <2>6, <2>9, CoveredKept
  <2>10. CASE ReadsCurrent(r) /\ revision' = revision
    BY <1>3, <2>10 DEF ReadsCurrent
  <2>11. CASE revision' # revision
    BY <2>11, ChangeIsCovered
  <2> QED
    BY <2>8, <2>9, <2>10, <2>11
<1> QED
  BY <1>1, <1>2, <1>3

(* What the running synchronisation has read is current unless one behind   *)
(* it will read again. *)
LEMMA HeadFreshStep ==
  ASSUME Typed, BegunInv, FreshInv, [Next]_vars
  PROVE  HeadFresh'
<1> SUFFICES ASSUME queue' # <<>>, queue'[1].refresh.step = "read"
             PROVE  ReadsCurrent(queue[1].refresh)' \/ CoveredBehind'
  BY DEF HeadFresh
<1>1. \/ HeadKept /\ queue'[1] = queue[1]
      \/ ReadNow(queue[1].refresh, queue'[1].refresh)
  <2>1. ~BeganNow(queue'[1].refresh) /\ queue'[1].refresh # NoRefresh
    BY DEF BeganNow, Reading, NoRefresh
  <2> QED
    BY <2>1, HeadChange
<1>2. CASE ReadNow(queue[1].refresh, queue'[1].refresh)
  BY <1>2 DEF ReadNow, ReadsCurrent
<1>3. CASE HeadKept /\ queue'[1] = queue[1]
  <2>1. ReadsCurrent(queue[1].refresh) \/ CoveredBehind
    BY <1>3 DEF FreshInv, HeadFresh, HeadKept
  <2>2. CASE CoveredBehind \/ revision' # revision
    BY <1>3, <2>2, BehindKept
  <2>3. CASE ReadsCurrent(queue[1].refresh) /\ revision' = revision
    BY <1>3, <2>3 DEF ReadsCurrent
  <2> QED
    BY <2>1, <2>2, <2>3
<1> QED
  BY <1>1, <1>2, <1>3

(* A session that is moved by a control or the clock, or not at all, keeps  *)
(* showing what it showed. *)
LEMMA SessionKept ==
  ASSUME Typed, BegunInv, FrameInTimeline, FreshInv, [Next]_vars,
         ~SyncSets, ~SyncRefused, ~SyncFails, \A l \in Loaders : ~LoadSets(l)
  PROVE  SessionFresh'
<1> SUFFICES ASSUME session' # None, ~raced', ~missed'
             PROVE  session'.root = openRoot'
                    /\ (session'.revision = revision'[openRoot'] \/ Covered')
  BY DEF SessionFresh
<1>1. ~raced /\ ~missed
  BY Zenon, MissedKept
<1>2. /\ session # None /\ session'.root = session.root
      /\ session'.revision = session.revision
      /\ UNCHANGED sessionVars \/ openRoot' = openRoot \/ (Moves /\ used' = used)
  <2>1. CASE session' = session /\ (openRoot' = openRoot \/ (Moves /\ used' = used))
    BY <2>1
  <2>2. ASSUME NEW r \in Roots, BeginOpen(r) PROVE session' = session /\ openRoot' = openRoot
    BY <2>2 DEF BeginOpen, BeginTransition
  <2>3. CASE BeginClose \/ Fails
    BY <2>1, <2>3 DEF BeginClose, Fails, BeginTransition, TransitionFails
  <2>4. CASE Moves
    BY <2>1, <2>4 DEF Moves, previewVars
  <2>5. CASE Closes \/ UnloadRequest
    BY <2>5 DEF Closes, UnloadRequest, Unload
  <2>6. CASE Commit \/ Notify \/ SyncBegins \/ SyncReads \/ Refuse
    BY <2>1, <2>6 DEF Commit, Notify, SyncBegins, SyncReads, Refuse, sessionVars
  <2>7. ASSUME NEW l \in Loaders,
               LoadBegins(l) \/ LoadRefused(l) \/ LoadReads(l) \/ LoadFails(l)
        PROVE session' = session /\ openRoot' = openRoot
    BY <2>7 DEF LoadBegins, LoadRefused, LoadReads, LoadFails, sessionVars
  <2>8. ASSUME NEW c \in Controls, Request(c) PROVE session' = session /\ openRoot' = openRoot
    BY <2>8 DEF Request, sessionVars
  <2>9. CASE Control
    BY <2>9, ControlMeans, NoneIsNoSession DEF Control, Typed
  <2>10. CASE Tick
    BY <2>10, TickMeans, NoneIsNoSession DEF Tick, Typed
  <2>11. CASE UNCHANGED vars
    BY <2>1, <2>11 DEF vars, sessionVars, previewVars
  <2> QED
    BY <2>1, <2>2, <2>3, <2>4, <2>5, <2>6, <2>7, <2>8, <2>9, <2>10, <2>11 DEF Next
<1>3. session.root = openRoot /\ (session.revision = revision[openRoot] \/ Covered)
  BY <1>1, <1>2 DEF FreshInv, SessionFresh
<1>4. openRoot \in Roots
  BY <1>2, <1>3 DEF Typed, StateTyped, Sessions
<1>5. openRoot' = openRoot
  BY <1>2, <1>4, ProgressStep DEF Progress, sessionVars
<1>6. CASE Covered
  BY <1>2, <1>3, <1>5, <1>6, CoveredKept
<1>7. CASE revision' # revision
  BY <1>2, <1>3, <1>5, <1>7, ChangeIsCovered
<1> QED
  BY <1>2, <1>3, <1>5, <1>6, <1>7

(* A session that a refresh sets is current, or is going to be. *)
LEMMA SessionFreshStep ==
  ASSUME Typed, BegunInv, FrameInTimeline, FreshInv, [Next]_vars
  PROVE  SessionFresh'
<1>1. CASE SyncRefused \/ SyncFails
  BY <1>1, FailuresAreMissed DEF SessionFresh
<1>2. ASSUME NEW l \in Loaders, LoadSets(l) PROVE SessionFresh'
  <2> SUFFICES ASSUME ~raced', ~missed'
               PROVE  session'.root = openRoot'
                      /\ (session'.revision = revision'[openRoot'] \/ Covered')
    BY DEF SessionFresh
  <2> DEFINE r == loads[l]
  <2>1. r.step = "read" /\ Settle(r) /\ openRoot' = openRoot /\ revision' = revision
    BY <1>2 DEF LoadSets, sessionVars
  <2>2. r.over = used.sets /\ r.root = openRoot /\ (~missed \/ r.since = used.failures)
    BY Zenon, <2>1, SettleMeans
  <2>3. ReadsCurrent(r) \/ Covered
    BY <2>1, <2>2 DEF FreshInv, LoadFresh
  <2>4. session'.root = r.root /\ session'.revision = r.read
    BY <1>2, LoadSetsMeans DEF Typed
  <2>5. Covered => Covered'
    BY <1>2 DEF LoadSets, Covered, Covers, ReadsCurrent
  <2> QED
    BY <2>1, <2>2, <2>3, <2>4, <2>5 DEF ReadsCurrent
<1>3. CASE SyncSets
  <2> SUFFICES ASSUME ~raced', ~missed'
               PROVE  session'.root = openRoot'
                      /\ (session'.revision = revision'[openRoot'] \/ Covered')
    BY DEF SessionFresh
  <2> DEFINE r == queue[1].refresh
  <2>1. /\ queue # <<>> /\ r.step = "read" /\ Settle(r) /\ openRoot' = openRoot
        /\ revision' = revision /\ notices' = notices /\ queue' = Tail(queue)
    BY <1>3 DEF SyncSets, Running, sessionVars
  <2>2. r.root = openRoot
    BY Zenon, <2>1, SettleMeans
  <2>3. ReadsCurrent(r) \/ CoveredBehind
    BY <2>1 DEF FreshInv, HeadFresh
  <2>4. session'.root = r.root /\ session'.revision = r.read
    BY <1>3, SyncSetsMeans DEF Typed
  <2>5. ASSUME NEW i \in 2..Len(queue), queue[i].kind = "sync" PROVE Covered'
    <3>1. Popped(queue, queue')
      BY <2>1, QueuePop DEF Typed, QueueTyped
    <3>2. i - 1 \in 1..Len(queue') /\ queue'[i - 1] = queue[i]
      BY <3>1 DEF Popped
    <3>3. queue'[i - 1].refresh.step = "idle"
      BY <3>1, <3>2 DEF Popped, NoRefresh
    <3> QED
      BY <2>5, <3>2, <3>3 DEF Covered, Covers
  <2>6. CoveredBehind => Covered'
    BY <2>1, <2>5 DEF CoveredBehind, Covered
  <2> QED
    BY <2>1, <2>2, <2>3, <2>4, <2>6 DEF ReadsCurrent
<1> QED
  BY <1>1, <1>2, <1>3, SessionKept

-----------------------------------------------------------------------------
(* The clock.                                                               *)

(* No refresh is in flight exactly if no load and no synchronisation is     *)
(* under way. *)
LEMMA InFlightMeans == Typed => (InFlight = {} <=> Idle)
<1> SUFFICES ASSUME Typed PROVE InFlight = {} <=> Idle
  OBVIOUS
<1>1. /\ Len(queue) \in Nat /\ DOMAIN queue = 1..Len(queue)
      /\ queue # <<>> <=> Len(queue) >= 1
      /\ \A i \in 2..Len(queue) : queue[i].refresh = NoRefresh
  BY QueueLength DEF Typed, QueueTyped, TypedQueue
<1>2. ASSUME Idle, NEW i \in DOMAIN queue PROVE queue[i].refresh.step = "idle"
  <2>1. CASE i = 1
    BY <1>1, <1>2, <2>1 DEF Idle
  <2>2. CASE i # 1
    BY <1>1, <1>2, <2>2 DEF NoRefresh
  <2> QED
    BY <2>1, <2>2
<1>3. ASSUME Idle, NEW r \in Pending PROVE r.step = "idle"
  BY <1>2, <1>3 DEF Pending, Idle
<1>4. Idle => InFlight = {}
  BY <1>3 DEF InFlight
<1>5. ASSUME InFlight = {} PROVE Idle
  <2>1. \A r \in Pending : r.step = "idle"
    BY <1>5 DEF InFlight
  <2>2. \A l \in Loaders : loads[l] \in Pending
    BY DEF Pending
  <2>3. queue # <<>> => queue[1].refresh \in Pending
    BY <1>1 DEF Pending
  <2> QED
    BY <2>1, <2>2, <2>3 DEF Idle
<1> QED
  BY <1>4, <1>5

(* What setting the session means for the clock: unless the session was     *)
(* raced, the refresh that sets it has kept the clock still. *)
LEMMA SetsQuietly ==
  ASSUME NEW r, Begun(r), r.step = "read", Settle(r), ~raced'
  PROVE  ~timer
<1>1. r.over = used.sets
  BY Zenon, SettleMeans
<1> QED
  BY <1>1 DEF Begun, BegunAt

(* Outside a refresh the clock runs exactly while the session plays. *)
LEMMA ClockStep ==
  ASSUME Typed, FlagsTyped, BegunInv, FrameInTimeline, ClockInv, [Next]_vars
  PROVE  ClockInv'
<1> SUFFICES ASSUME Idle', ~raced', ~missed' PROVE (timer <=> Playing)'
  BY DEF ClockInv
<1>1. ASSUME session' # None => session'.transport = "paused", ~timer' PROVE (timer <=> Playing)'
  BY <1>1 DEF Playing
<1>2. ASSUME NEW l \in Loaders, LoadSets(l) PROVE (timer <=> Playing)'
  <2>1. Begun(loads[l]) /\ loads[l].step = "read" /\ Settle(loads[l]) /\ timer' = timer
    BY <1>2 DEF BegunInv, LoadSets
  <2>2. ~timer
    BY Zenon, <2>1, SetsQuietly
  <2>3. session'.transport = "paused"
    BY <1>2, LoadSetsMeans DEF Typed
  <2> QED
    BY Zenon, <1>1, <2>1, <2>2, <2>3
<1>3. CASE SyncSets
  <2>1. queue[1].refresh.step = "read" /\ queue # <<>> /\ session'.transport = "paused"
    BY <1>3, SyncSetsMeans DEF Typed
  <2>2. Begun(queue[1].refresh) /\ Settle(queue[1].refresh) /\ timer' = timer
    BY <1>3, <2>1 DEF BegunInv, SyncSets
  <2>3. ~timer
    BY Zenon, <2>1, <2>2, SetsQuietly
  <2> QED
    BY Zenon, <1>1, <2>1, <2>2, <2>3
<1>4. CASE Closes \/ UnloadRequest
  BY <1>4 DEF Closes, UnloadRequest, Unload, Playing
<1>5. CASE Control
  <2>1. session' \in Sessions /\ timer' = (session'.transport = "playing")
    BY <1>5, ControlMeans DEF Control, Typed
  <2> QED
    BY Zenon, <2>1, NoneIsNoSession DEF Playing
<1>6. CASE Tick
  <2>1. CASE session' = session /\ ~Playing /\ timer' = FALSE
    BY <2>1 DEF Playing
  <2>2. CASE session' \in Sessions /\ timer' = (session'.transport = "playing")
    BY Zenon, <2>2, NoneIsNoSession DEF Playing
  <2> QED
    BY <1>6, <2>1, <2>2, TickMeans DEF Typed
<1>7. ASSUME NEW l \in Loaders, LoadRefused(l) \/ LoadFails(l) PROVE FALSE
  BY Zenon, <1>7 DEF LoadRefused, LoadFails
<1>8. ASSUME SyncRefused \/ SyncFails PROVE FALSE
  BY Zenon, <1>8, FailuresAreMissed
<1>9. ASSUME NEW l \in Loaders, LoadBegins(l) \/ LoadReads(l) PROVE FALSE
  <2>1. loads \in [Loaders -> Refreshes]
    BY DEF Typed, StateTyped
  <2>2. loads'[l].step \in {"reading", "read"}
    <3>1. CASE LoadBegins(l)
      BY <2>1, <3>1 DEF LoadBegins, Reading
    <3>2. CASE LoadReads(l)
      <4>1. loads[l] \in Refreshes
        BY <2>1
      <4> QED
        BY <2>1, <3>2, <4>1 DEF LoadReads, Refreshes
    <3> QED
      BY <1>9, <3>1, <3>2
  <2> QED
    BY <2>2 DEF Idle
<1>10. ASSUME SyncBegins \/ SyncReads PROVE FALSE
  <2>1. queue'[1].refresh.step \in {"reading", "read"} /\ HeadBecomes(queue, queue', queue'[1])
    BY <1>10, SyncBeginsMeans, SyncReadsMeans DEF Typed, Reading
  <2>2. queue' # <<>>
    BY <2>1, QueueLength DEF HeadBecomes
  <2> QED
    BY <2>1, <2>2 DEF Idle
<1>11. CASE /\ UNCHANGED <<session, timer, loads>> /\ (raced' = raced) /\ (missed' = missed)
            /\ queue # <<>> => queue[1].refresh.step = "idle"
  BY Zenon, <1>11 DEF ClockInv, Idle, Playing
<1>12. CASE UNCHANGED <<session, timer, loads, queue, raced, missed>>
  BY Zenon, <1>11, <1>12 DEF Idle
<1>13. ASSUME NEW r \in Roots, BeginOpen(r)
       PROVE UNCHANGED <<session, timer, loads, queue, raced, missed>>
  BY Zenon, <1>13 DEF BeginOpen
<1>14. CASE BeginClose \/ Moves \/ Fails \/ Commit
  BY Zenon, <1>12, <1>14 DEF BeginClose, Moves, Fails, Commit, previewVars
<1>15. ASSUME queue # <<>>, NEW t, Appended(queue, queue', t)
       PROVE  queue[1].refresh.step = "idle"
  <2>1. Len(queue) >= 1 /\ queue' # <<>>
    BY <1>15, QueueLength DEF Typed, QueueTyped, Appended
  <2>2. queue'[1] = queue[1]
    BY <1>15, <2>1 DEF Appended
  <2> QED
    BY <2>1, <2>2 DEF Idle
<1>16. CASE Notify
  <2>1. Appended(queue, queue', SyncTask)
    BY <1>16, QueuedSync, QueueAppend DEF Notify, Typed, QueueTyped
  <2> QED
    BY Zenon, <1>11, <1>15, <1>16, <2>1 DEF Notify
<1>17. ASSUME NEW c \in Controls, Request(c) PROVE (timer <=> Playing)'
  <2>1. Appended(queue, queue', ControlTask(c))
    BY <1>17, RequestedTask, QueueAppend DEF Request, Typed, QueueTyped
  <2> QED
    BY Zenon, <1>11, <1>15, <1>17, <2>1 DEF Request
<1>18. CASE Refuse
  BY Zenon, <1>11, <1>18 DEF Refuse, Running
<1>19. CASE UNCHANGED vars
  BY Zenon, <1>12, <1>19 DEF vars, previewVars
<1> QED
  BY Zenon, <1>2, <1>3, <1>4, <1>5, <1>6, <1>7, <1>8, <1>9, <1>10, <1>12, <1>13, <1>14, <1>16,
     <1>17, <1>18, <1>19 DEF Next

-----------------------------------------------------------------------------
(* What the clients have seen.                                              *)

(* A control in the queue was there before, or has just been requested by a *)
(* client that sees the session as it is. *)
Requested(t) ==
  /\ session # None /\ session' = session /\ used'.sets = used.sets
  /\ t.id = session.id /\ t.seen = session.version /\ t.sets = used.sets

(* There is no other way into the queue for a control. *)
LEMMA TaskOrigin ==
  ASSUME Typed, BegunInv, [Next]_vars, NEW i \in 1..Len(queue'), queue'[i].kind = "control"
  PROVE  \/ \E j \in 1..Len(queue) : queue'[i] = queue[j]
         \/ Requested(queue'[i])
<1>1. TypedQueue(queue) /\ Len(queue) \in Nat /\ used \in Uses
  BY QueueLength DEF Typed, QueueTyped, StateTyped
<1>2. CASE UNCHANGED queue
  BY <1>2
<1>3. CASE queue # <<>> /\ queue' = Tail(queue)
  <2>1. Popped(queue, queue')
    BY <1>1, <1>3, QueuePop
  <2>2. i + 1 \in 1..Len(queue) /\ queue'[i] = queue[i + 1]
    BY <2>1 DEF Popped
  <2> QED
    BY <2>2
<1>4. ASSUME NEW t, Appended(queue, queue', t)
      PROVE  queue'[i] = t \/ \E j \in 1..Len(queue) : queue'[i] = queue[j]
  BY <1>1, <1>4 DEF Appended
<1>5. CASE Notify
  <2>1. Appended(queue, queue', SyncTask)
    BY <1>1, <1>5, QueuedSync, QueueAppend DEF Notify
  <2> QED
    BY <1>4, <2>1, QueuedSync
<1>6. ASSUME NEW c \in Controls, Request(c)
      PROVE  Requested(queue'[i]) \/ \E j \in 1..Len(queue) : queue'[i] = queue[j]
  <2>1. /\ Appended(queue, queue', ControlTask(c)) /\ session # None /\ session' = session
        /\ ControlTask(c).id = session.id
        /\ ControlTask(c).seen = session.version /\ ControlTask(c).sets = used.sets
    BY <1>1, <1>6, RequestedTask, QueueAppend DEF Request, Typed
  <2>2. used'.sets = used.sets
    BY <1>1, <1>6, Counted DEF Request
  <2> QED
    BY <1>4, <2>1, <2>2 DEF Requested
<1>7. ASSUME HeadBecomes(queue, queue', queue'[1]), queue'[1].kind = "sync"
      PROVE  \E j \in 1..Len(queue) : queue'[i] = queue[j]
  BY <1>1, <1>7 DEF HeadBecomes
<1>8. CASE SyncBegins
  BY <1>7, <1>8, SyncBeginsMeans DEF Typed
<1>9. CASE SyncReads
  BY <1>7, <1>9, SyncReadsMeans DEF Typed
<1>10. CASE SyncRefused \/ SyncSets \/ SyncFails \/ Refuse \/ Control
  BY <1>3, <1>10 DEF SyncRefused, SyncSets, SyncFails, Refuse, Control, Running
<1>11. ASSUME NEW r \in Roots, BeginOpen(r) PROVE UNCHANGED queue
  BY <1>11 DEF BeginOpen
<1>12. CASE BeginClose \/ Closes \/ Moves \/ Fails \/ Commit \/ UnloadRequest \/ Tick
  BY <1>2, <1>12 DEF BeginClose, Closes, Moves, Fails, Commit, UnloadRequest, Tick, previewVars
<1>13. ASSUME NEW l \in Loaders,
             LoadBegins(l) \/ LoadRefused(l) \/ LoadReads(l) \/ LoadSets(l) \/ LoadFails(l)
       PROVE UNCHANGED queue
  BY <1>13 DEF LoadBegins, LoadRefused, LoadReads, LoadSets, LoadFails
<1>14. CASE UNCHANGED vars
  BY <1>2, <1>14 DEF vars, previewVars
<1> QED
  BY <1>2, <1>5, <1>6, <1>8, <1>9, <1>10, <1>11, <1>12, <1>13, <1>14 DEF Next

(* What can become of the session: it stays the same version of itself and  *)
(* has not been set, a control has made it the next version, it is new, it  *)
(* is carried over by the running synchronisation, or it is gone. *)
LEMMA SessionChange ==
  ASSUME Typed, BegunInv, FrameInTimeline, [Next]_vars, session' # None
  PROVE  \/ /\ session # None /\ used'.sets = used.sets
            /\ session'.id = session.id /\ session'.version = session.version
         \/ /\ Control /\ session # None /\ used'.sets = used.sets + 1
            /\ session'.id = session.id /\ session'.version = session.version + 1
         \/ session'.id = used.sets /\ used'.sets = used.sets + 1
         \/ /\ SyncSets /\ used'.sets = used.sets + 1 /\ queue[1].found # None
            /\ session'.id = queue[1].found.id
            /\ session'.version = queue[1].found.version + 1
<1>1. used \in Uses
  BY DEF Typed, StateTyped
<1>2. CASE session' = session /\ used'.sets = used.sets
  BY <1>2
<1>3. ASSUME NEW r \in Roots, BeginOpen(r) PROVE session' = session /\ used'.sets = used.sets
  BY <1>1, <1>3, Counted DEF BeginOpen
<1>4. CASE BeginClose \/ Fails
  BY <1>1, <1>2, <1>4, Counted DEF BeginClose, Fails
<1>5. CASE Closes \/ UnloadRequest
  BY <1>5 DEF Closes, UnloadRequest, Unload
<1>6. CASE Moves \/ Commit \/ Notify \/ SyncBegins \/ SyncReads \/ Refuse
  <2>1. session' = session /\ used' = used
    BY <1>6 DEF Moves, Commit, Notify, SyncBegins, SyncReads, Refuse, previewVars
  <2> QED
    BY <1>2, <2>1
<1>7. ASSUME NEW l \in Loaders,
             LoadBegins(l) \/ LoadRefused(l) \/ LoadReads(l) \/ LoadFails(l)
      PROVE session' = session /\ used'.sets = used.sets
  <2>1. /\ session' = session
        /\ \/ Use("loads") \/ Use("failures") \/ used' = used
           \/ used' = [used EXCEPT !.loads = @ + 1, !.failures = @ + 1]
    BY Zenon, <1>7 DEF LoadBegins, LoadRefused, LoadReads, LoadFails
  <2> QED
    BY <1>1, <2>1, Counted
<1>8. ASSUME NEW l \in Loaders, LoadSets(l)
      PROVE  session'.id = used.sets /\ used'.sets = used.sets + 1
  <2>1. session'.id = used.sets
    BY <1>8, LoadSetsMeans DEF Typed
  <2> QED
    BY <1>1, <1>8, <2>1, Counted DEF LoadSets
<1>9. CASE SyncRefused \/ SyncFails
  BY <1>1, <1>2, <1>9, Counted DEF SyncRefused, SyncFails
<1>10. CASE SyncSets
  <2>1. used'.sets = used.sets + 1
    BY <1>1, <1>10, Counted DEF SyncSets
  <2> QED
    BY <1>10, <2>1, SyncSetsMeans DEF Typed
<1>11. ASSUME NEW c \in Controls, Request(c) PROVE session' = session /\ used'.sets = used.sets
  BY <1>1, <1>11, Counted DEF Request
<1>12. CASE Control
  <2>1. used'.sets = used.sets + 1
    BY <1>1, <1>12, Counted DEF Control
  <2> QED
    BY <1>12, <2>1, ControlMeans, NoneIsNoSession DEF Typed
<1>13. CASE Tick
  <2>1. used' = used
    BY <1>13 DEF Tick
  <2> QED
    BY <1>13, <2>1, TickMeans, NoneIsNoSession DEF Typed
<1>14. CASE UNCHANGED vars
  BY <1>2, <1>14 DEF vars, previewVars
<1> QED
  BY <1>2, <1>3, <1>4, <1>5, <1>6, <1>7, <1>8, <1>9, <1>10, <1>11, <1>12, <1>13, <1>14 DEF Next

(* A task carries numbers. *)
LEMMA TaskNumbers ==
  ASSUME Typed, NEW i \in 1..Len(queue), queue[i].kind = "control"
  PROVE  queue[i].id \in Nat /\ queue[i].seen \in Nat /\ queue[i].sets \in Nat
<1>1. queue[i] \in ControlTasks
  BY QueueLength, TaskShape DEF Typed, QueueTyped
<1> QED
  BY <1>1 DEF ControlTasks

(* No control in the queue knows an identity that is still to be given. *)
LEMMA TasksSeenStep ==
  ASSUME Typed, StateTyped', BegunInv, SeenInv, Progress, [Next]_vars
  PROVE  TasksSeen'
<1> SUFFICES ASSUME NEW i \in 1..Len(queue'), queue'[i].kind = "control"
             PROVE  queue'[i].id < used'.sets
  BY DEF TasksSeen
<1>1. used.sets \in Nat /\ used'.sets \in Nat /\ used.sets <= used'.sets
  BY DEF Typed, StateTyped, Uses, Progress
<1>2. CASE \E j \in 1..Len(queue) : queue'[i] = queue[j]
  <2>1. PICK j \in 1..Len(queue) : queue'[i] = queue[j]
    BY <1>2
  <2>2. queue[j].id \in Nat /\ queue[j].id < used.sets
    BY <2>1, TaskNumbers DEF SeenInv, TasksSeen
  <2> QED
    BY <1>1, <2>1, <2>2
<1>3. CASE Requested(queue'[i])
  BY <1>3 DEF Requested, SeenInv, SessionSeen, NotAhead
<1> QED
  BY <1>2, <1>3, TaskOrigin

(* A client has not seen more of the session than there is, and if it has   *)
(* seen all of it, the session has not been set since. *)
LEMMA SessionSeenStep ==
  ASSUME Typed, StateTyped', BegunInv, FrameInTimeline, SeenInv, Progress, [Next]_vars
  PROVE  SessionSeen'
<1> SUFFICES ASSUME session' # None PROVE SessionSeen'
  BY DEF SessionSeen
<1>1. /\ used.sets \in Nat /\ used'.sets \in Nat /\ used.sets <= used'.sets
      /\ session \in Sessions \cup {None} /\ session' \in Sessions
  BY DEF Typed, StateTyped, Uses, Progress
<1>2. /\ session # None => session.id \in Nat /\ session.version \in Nat
      /\ session'.id \in Nat /\ session'.version \in Nat
  BY <1>1 DEF Sessions
<1>3. session # None => session.id < used.sets
  BY DEF SeenInv, SessionSeen, NotAhead
<1>4. SyncSets =>
        /\ queue # <<>> /\ queue[1].kind = "sync" /\ queue[1].refresh.step = "read"
        /\ queue[1].found \in Sessions \cup {None}
  BY SyncSetsMeans DEF Typed
<1>5. SyncSets /\ queue[1].found # None =>
        /\ NotAhead(queue[1].found)
        /\ queue[1].found.id \in Nat /\ queue[1].found.version \in Nat
  BY <1>4 DEF SeenInv, FoundSeen, Sessions
<1>6. session'.id < used'.sets
  <2>1. SyncSets /\ queue[1].found # None => queue[1].found.id < used.sets
    BY <1>5 DEF NotAhead
  <2> QED
    BY <1>1, <1>2, <1>3, <1>5, <2>1, SessionChange
<1>7. ASSUME NEW i \in 1..Len(queue'), queue'[i].kind = "control", queue'[i].id = session'.id
      PROVE  /\ queue'[i].seen <= session'.version
             /\ queue'[i].seen = session'.version => queue'[i].sets = used'.sets
  <2>1. CASE Requested(queue'[i])
    BY <1>2, <2>1 DEF Requested
  <2>2. CASE \E j \in 1..Len(queue) : queue'[i] = queue[j]
    <3>1. PICK j \in 1..Len(queue) : queue'[i] = queue[j]
      BY <2>2
    <3> DEFINE t == queue[j]
    <3>2. t.kind = "control" /\ t.id = session'.id /\ t.id < used.sets
      BY <1>7, <3>1 DEF SeenInv, TasksSeen
    <3>3. t.id \in Nat /\ t.seen \in Nat /\ t.sets \in Nat
      BY <3>2, TaskNumbers
    <3>4. ASSUME session # None, session'.id = session.id
          PROVE  t.seen <= session.version /\ (t.seen = session.version => t.sets = used.sets)
      BY <3>2, <3>4 DEF SeenInv, SessionSeen, NotAhead
    <3>5. ASSUME SyncSets, queue[1].found # None, session'.id = queue[1].found.id
          PROVE  t.seen <= queue[1].found.version
      BY <1>5, <3>2, <3>5 DEF NotAhead
    <3> HIDE DEF t
    <3>6. /\ t.seen <= session'.version
          /\ t.seen = session'.version => t.sets = used'.sets
      <4>1. CASE /\ session # None /\ used'.sets = used.sets
                 /\ session'.id = session.id /\ session'.version = session.version
        BY <1>2, <3>3, <3>4, <4>1
      <4>2. CASE /\ session # None
                 /\ session'.id = session.id /\ session'.version = session.version + 1
        BY <1>2, <3>3, <3>4, <4>2
      <4>3. CASE session'.id = used.sets
        BY <1>1, <3>2, <3>3, <4>3
      <4>4. CASE /\ SyncSets /\ queue[1].found # None
                 /\ session'.id = queue[1].found.id
                 /\ session'.version = queue[1].found.version + 1
        BY <1>5, <3>3, <3>5, <4>4
      <4> QED
        BY <4>1, <4>2, <4>3, <4>4, SessionChange
    <3> QED
      BY <3>1, <3>6 DEF t
  <2> QED
    BY <1>7, <2>1, <2>2, TaskOrigin
<1> QED
  BY <1>6, <1>7 DEF SessionSeen, NotAhead

(* The session that a synchronisation has found is, as long as it runs,     *)
(* what it was. *)
LEMMA FoundSeenStep ==
  ASSUME Typed, QueueTyped', StateTyped', BegunInv, FrameInTimeline, SeenInv, Progress,
         [Next]_vars
  PROVE  FoundSeen'
<1> SUFFICES ASSUME queue' # <<>>, queue'[1].kind = "sync", queue'[1].refresh.step # "idle",
                    queue'[1].found # None
             PROVE  /\ NotAhead(queue[1].found)'
                    /\ session' # None /\ session'.id = queue'[1].found.id =>
                         session'.version = queue'[1].found.version
  BY DEF FoundSeen
<1> DEFINE f == queue'[1].found
<1>1. /\ used.sets \in Nat /\ used'.sets \in Nat /\ used.sets <= used'.sets
      /\ session \in Sessions \cup {None}
  BY DEF Typed, StateTyped, Uses, Progress
<1>2. HeadKept /\ ((SyncBegins /\ f = session) \/ f = queue[1].found)
  <2>1. queue'[1].refresh # NoRefresh
    BY DEF NoRefresh
  <2> QED
    BY <2>1, HeadChange
<1>3. queue[1].kind = "sync" /\ queue # <<>>
  BY <1>2 DEF HeadKept
<1>4. /\ f # None /\ NotAhead(f)
      /\ session # None /\ session.id = f.id => session.version = f.version
  <2>1. CASE SyncBegins /\ f = session
    BY <2>1 DEF SeenInv, SessionSeen
  <2>2. CASE ~SyncBegins /\ f = queue[1].found
    <3>1. queue[1].refresh.step # "idle"
      <4>1. \/ queue'[1] = queue[1]
            \/ ReadNow(queue[1].refresh, queue'[1].refresh)
        BY <2>2, HeadChange DEF NoRefresh
      <4> QED
        BY <4>1 DEF ReadNow
    <3> QED
      BY <1>3, <2>2, <3>1 DEF SeenInv, FoundSeen
  <2>3. CASE SyncBegins /\ f # session
    <3>1. f = session
      BY <2>3, SyncBeginsMeans DEF Typed
    <3> QED
      BY <2>3, <3>1
  <2> QED
    BY <1>2, <2>1, <2>2, <2>3
<1>5. f \in Sessions /\ f.id \in Nat /\ f.version \in Nat
  <2>1. TypedQueue(queue') /\ Len(queue') >= 1 /\ queue'[1] \in Tasks
    BY QueueLength DEF QueueTyped
  <2>2. f \in Sessions \cup {None}
    BY <2>1, TaskShape DEF SyncTasks
  <2>3. f \in Sessions
    BY <1>4, <2>2
  <2> QED
    BY <2>3 DEF Sessions
<1>6. f.id < used.sets
  BY <1>4 DEF NotAhead
<1>7. ~Control /\ ~SyncSets
  <2>1. ~Control
    BY <1>3 DEF Control, Running
  <2>2. ASSUME SyncSets PROVE FALSE
    <3>1. Popped(queue, queue')
      BY <1>3, <2>2, QueuePop DEF SyncSets, Typed, QueueTyped
    <3>2. 1 \in 1..Len(queue')
      BY <3>1, QueueLength DEF Popped
    <3> QED
      BY <3>1, <3>2 DEF Popped, NoRefresh
  <2> QED
    BY <2>1, <2>2
<1> HIDE DEF f
<1>8. session' # None /\ session'.id = f.id => session'.version = f.version
  BY <1>1, <1>4, <1>5, <1>6, <1>7, SessionChange
<1>9. ASSUME NEW i \in 1..Len(queue'), queue'[i].kind = "control", queue'[i].id = f.id
      PROVE  queue'[i].seen <= f.version
  <2>1. CASE Requested(queue'[i])
    BY <1>4, <1>5, <1>9, <2>1 DEF Requested
  <2>2. CASE \E j \in 1..Len(queue) : queue'[i] = queue[j]
    BY <1>4, <1>9, <2>2 DEF NotAhead
  <2> QED
    BY <1>9, <2>1, <2>2, TaskOrigin
<1>10. f.id < used'.sets
  BY <1>1, <1>5, <1>6
<1> QED
  BY <1>8, <1>9, <1>10 DEF NotAhead, f

-----------------------------------------------------------------------------
(* The theorems.                                                            *)

Core == Typed /\ BegunInv /\ FrameInTimeline /\ FreshInv /\ SeenInv
IInv == FlagsTyped /\ Core /\ ClockInv

(* A server that has just been started is in order. *)
LEMMA InvInit == Init => IInv
<1> SUFFICES ASSUME Init PROVE IInv
  OBVIOUS
<1>1. queue = <<>> /\ Len(queue) = 0 /\ TypedQueue(queue)
  <2>1. queue = <<>>
    BY DEF Init
  <2>2. <<>> \in Seq(Tasks) /\ Len(<<>>) = 0
    BY EmptySeq
  <2> QED
    BY <2>1, <2>2 DEF TypedQueue
<1>2. session = None /\ timer = FALSE /\ raced = FALSE /\ missed = FALSE
  BY DEF Init
<1>3. ProjectTyped
  BY DEF Init, SessionInit, ProjectTyped, SessionTypeOK, NoTransition
<1>4. NoRefresh \in Refreshes /\ NoRefresh.step = "idle"
  BY DEF NoRefresh, Refreshes
<1>5. \A l \in Loaders : loads[l] = NoRefresh
  BY DEF Init
<1>6. StateTyped
  BY <1>4, Timelines DEF Init, StateTyped, Uses
<1>7. Typed
  BY <1>1, <1>3, <1>6 DEF Typed, QueueTyped
<1>8. FlagsTyped
  BY Zenon, <1>2 DEF FlagsTyped
<1>9. BegunInv
  BY <1>1, <1>4, <1>5 DEF BegunInv, Begun, BegunAt
<1>10. FreshInv
  BY <1>1, <1>2, <1>4, <1>5 DEF FreshInv, SessionFresh, LoadFresh, HeadFresh
<1>11. SeenInv
  BY <1>1, <1>2 DEF SeenInv, TasksSeen, SessionSeen, FoundSeen
<1>12. FrameInTimeline
  BY <1>2 DEF FrameInTimeline
<1>13. ClockInv
  BY Zenon, <1>2 DEF ClockInv, Playing
<1> QED
  BY Zenon, <1>7, <1>8, <1>9, <1>10, <1>11, <1>12, <1>13 DEF IInv, Core

(* Every step leaves it in order. *)
LEMMA InvStep == IInv /\ [Next]_vars => IInv'
<1> SUFFICES ASSUME IInv, [Next]_vars PROVE IInv'
  OBVIOUS
<1>1. FlagsTyped /\ Typed /\ BegunInv /\ FrameInTimeline /\ FreshInv /\ SeenInv /\ ClockInv
  BY Zenon DEF IInv, Core
<1>2. FlagsTyped'
  BY Zenon, <1>1, FlagsTypedStep
<1>3. StateTyped' /\ FrameInTimeline'
  BY Zenon, <1>1, StateTypedStep
<1>4. ProjectTyped' /\ QueueTyped'
  BY Zenon, <1>1, ProjectTypedStep, QueueTypedStep DEF Typed
<1>5. Progress
  BY Zenon, <1>1, ProgressStep
<1>6. BegunInv'
  BY Zenon, <1>1, <1>3, <1>4, <1>5, BegunStep
<1>7. \A l \in Loaders : LoadFresh(loads[l])'
  BY Zenon, <1>1, <1>3, <1>5, LoadFreshStep
<1>8. SessionFresh' /\ HeadFresh'
  BY Zenon, <1>1, HeadFreshStep, SessionFreshStep
<1>9. TasksSeen' /\ SessionSeen' /\ FoundSeen'
  BY Zenon, <1>1, <1>3, <1>4, <1>5, TasksSeenStep, SessionSeenStep, FoundSeenStep
<1>10. ClockInv'
  BY Zenon, <1>1, ClockStep
<1> QED
  BY Zenon, <1>2, <1>3, <1>4, <1>6, <1>7, <1>8, <1>9, <1>10
     DEF IInv, Core, Typed, FreshInv, SeenInv

(* The inductive invariant of the preview session: the types, what a        *)
(* refresh in flight has seen, that a stale session is covered by a         *)
(* synchronisation, and what the clients have seen. *)
THEOREM InvCorrect == Spec => []IInv
<1> QED
  BY InvInit, InvStep, PTL DEF Spec

(* The frame and the loop lie in the timeline, and outside a refresh the    *)
(* clock runs exactly while the session plays (preview-service.ts,          *)
(* configureTimer and tick). *)
THEOREM PlaybackSound == Spec => []PlaybackIsSound
<1>1. IInv => PlaybackIsSound
  <2> SUFFICES ASSUME IInv PROVE PlaybackIsSound
    OBVIOUS
  <2>1. FlagsTyped /\ Typed /\ FrameInTimeline /\ ClockInv
    BY Zenon DEF IInv, Core
  <2>2. ClockFollowsTransport
    BY Zenon, <2>1, InFlightMeans DEF ClockInv, ClockFollowsTransport
  <2>3. ASSUME NEW i \in DOMAIN queue
        PROVE  /\ queue[i].kind \in {"sync", "control"}
               /\ queue[i].refresh \in Refreshes
               /\ queue[i].kind = "sync" => queue[i].found \in Sessions \cup {None}
               /\ queue[i].kind = "control" \/ i > 1 => queue[i].refresh = NoRefresh
    <3>1. /\ i \in 1..Len(queue) /\ Len(queue) \in Nat /\ queue[i] \in Tasks
          /\ i > 1 => queue[i].refresh = NoRefresh
      BY <2>1, QueueLength DEF Typed, QueueTyped, TypedQueue
    <3> QED
      BY <3>1, TaskShape DEF SyncTasks
  <2>4. TypeOK
    BY Zenon, <2>1, <2>3 DEF TypeOK, FlagsTyped, Typed, ProjectTyped, StateTyped
  <2> QED
    BY Zenon, <2>1, <2>2, <2>4 DEF PlaybackIsSound
<1> QED
  BY <1>1, InvCorrect, PTL

(* When all has been announced and refreshed, the session shows the current *)
(* revision of the open project (preview-service.ts, synchronize). *)
THEOREM SessionIsCurrent == Spec => []SettledSessionIsCurrent
<1>1. IInv => SettledSessionIsCurrent
  <2> SUFFICES ASSUME IInv, Quiet, session # None, ~raced, ~missed
               PROVE  session.root = openRoot /\ session.revision = revision[openRoot]
    BY DEF SettledSessionIsCurrent
  <2>1. ~Covered
    BY EmptySeq DEF Quiet, Covered
  <2> QED
    BY <2>1 DEF IInv, Core, FreshInv, SessionFresh
<1> QED
  BY <1>1, InvCorrect, PTL

(* A control that is applied to the session its client saw finds it as it   *)
(* was last set before the request (preview-service.ts, control with its    *)
(* expected version). *)
THEOREM ControlsSafe == Spec => ControlsActOnWhatWasSeen
<1>1. IInv /\ Control /\ session.id = queue[1].id => used.sets = queue[1].sets
  <2> SUFFICES ASSUME IInv, Control, session.id = queue[1].id
               PROVE  used.sets = queue[1].sets
    OBVIOUS
  <2>1. /\ queue # <<>> /\ queue[1].kind = "control" /\ session # None
        /\ session.version = queue[1].seen
    BY DEF Control, Running
  <2>2. 1 \in 1..Len(queue)
    BY <2>1, QueueLength DEF IInv, Core, Typed, QueueTyped
  <2> QED
    BY <2>1, <2>2 DEF IInv, Core, SeenInv, SessionSeen
<1> QED
  BY <1>1, InvCorrect, PTL DEF ControlsActOnWhatWasSeen

-----------------------------------------------------------------------------
(* The scheduler: the last command holds, and the layers and the preload    *)
(* slots are accounted for.                                                 *)

(* The states of the transport that the model reaches. *)
TransportStates == {"stopped", "paused", "playing", "seeking", "error", "disposed"}
(* The states of a layer that the model reaches. *)
LayerStates == {"unloaded", "preloading", "ready", "presenting", "error", "disposed"}
(* What an operation may have got from a layer. *)
ProgressKinds == {"none", "preload", "load", "present", "shown", "loaded", "refused",
                  "failed", "thrown"}
(* What an operation may be. *)
Kinds == {"none", "preload", "report"} \cup Commands
(* The operations, free calls among them. *)
Operations ==
  [kind : Kinds, step : {"none", "halting", "layers", "beginning", "asking"},
   fresh : BOOLEAN, target : Frames]

(* Every variable has its type. *)
SchedulerTyped ==
  /\ transport \in TransportStates
  /\ frame \in Frames
  /\ composite \in [frame : Frames, layers : SUBSET Layers]
  /\ layer \in [Layers -> LayerStates]
  /\ playing \subseteq Layers
  /\ op \in [Calls -> Operations]
  /\ work \in [Calls -> [Layers -> ProgressKinds]]
  /\ last \in [kind : {"none"} \cup Commands, target : Frames, clean : BOOLEAN]
  /\ crowded \in BOOLEAN

(* The operations that work on the layers. *)
Busy(u) == op[u].kind \in {"seek", "preload"}

(* What an operation has asked of a layer is what such an operation asks,   *)
(* and only after the adapters have halted.                                 *)
Asked ==
  \A u \in Calls, l \in Layers : work[u][l] # "none" =>
    /\ op[u].step = "layers"
    /\ \/ op[u].kind = "seek" /\ work[u][l] \notin {"preload", "loaded"}
       \/ op[u].kind = "preload" /\ work[u][l] \notin {"load", "present", "shown"}

(* Only a disposed scheduler has disposed layers. *)
Disposal == \A l \in Layers : layer[l] = "disposed" => transport = "disposed"

(* While an operation waits for a layer, the layer waits with it. *)
InStep(u) ==
  \A l \in Layers :
    /\ work[u][l] \in {"preload", "load"} => layer[l] = "preloading"
    /\ work[u][l] = "present" => layer[l] = "presenting"
    /\ work[u][l] # "thrown"

(* The preloads that run. *)
Preloads == {u \in Calls : op[u].kind = "preload"}

(* Operations that came one at a time kept the books of the layers.         *)
Books ==
  crowded \/
    /\ \A u, v \in Calls : Busy(u) /\ Busy(v) => u = v
    /\ \A u \in Calls : InStep(u)
    /\ \A u \in Calls, l \in Layers : work[u][l] # "failed"
    /\ \A l \in Layers : layer[l] \in {"preloading", "presenting"} =>
         \E u \in Calls : work[u][l] \in Waiting
    /\ transport = "disposed" => \A u \in Calls : ~Busy(u)
    /\ slots = Cardinality(Preloads)

(* The command that was the last, and clean, is carried out by an operation *)
(* that nothing disturbs: a seek has the layers to itself; another command  *)
Sought(u) ==
  /\ op[u].fresh /\ op[u].target = last.target
  /\ transport = "seeking" /\ playing = {}
  /\ \A v \in Calls \ {u} : op[v].kind \in {"none", "report"}
  /\ InStep(u)

(* ... finds the transport and the adapters as it needs them, ... *)
Prepared ==
  CASE last.kind = "play" ->
         transport \in {"stopped", "paused", "playing", "seeking"} /\ playing = Layers
    [] last.kind = "pause" -> transport = "playing" /\ playing = {}
    [] last.kind = "stop" ->
         transport \in {"stopped", "paused", "playing", "seeking"} /\ playing = {}
    [] last.kind = "dispose" -> transport # "disposed" /\ playing = {}

(* ... and has been, once that operation has ended.                         *)
Achieved ==
  CASE last.kind = "seek" ->
         \/ transport = "error"
         \/ /\ transport = "paused" /\ playing = {}
            /\ frame = last.target /\ composite.frame = last.target
    [] last.kind = "play" -> transport = "playing" /\ playing = Layers
    [] last.kind = "pause" -> transport = "paused" /\ playing = {}
    [] last.kind = "stop" -> transport = "stopped" /\ playing = {} /\ frame = 0
    [] last.kind = "dispose" ->
         /\ transport = "disposed" /\ playing = {}
         /\ \A l \in Layers : layer[l] = "disposed"

(* The last command, if it was clean, is under way or has been achieved. *)
Obeyed ==
  last.clean =>
    /\ last.kind \in Commands
    /\ \A u \in Calls : op[u].kind \in {"none", "report", "seek", "preload", last.kind}
    /\ last.kind # "seek" =>
         /\ \A u, v \in Calls : op[u].kind = last.kind /\ op[v].kind = last.kind => u = v
         /\ \A u \in Calls : op[u].kind = "seek" => ~op[u].fresh
         /\ (\E u \in Calls : op[u].kind = last.kind) => Prepared
    /\ last.kind = "seek" => \A u \in Calls : op[u].kind = "seek" => Sought(u)
    /\ (\A u \in Calls : op[u].kind # last.kind) => Achieved

(* The inductive invariant. *)
SchedulerIInv == SchedulerTyped /\ Asked /\ Disposal /\ Books /\ Obeyed

-----------------------------------------------------------------------------
(* A lifecycle answers every call in a state of its own.                    *)
LEMMA Answers ==
  ASSUME NEW state \in LayerStates, NEW progress \in Waiting
  PROVE  LET o == Answered(state, progress)
             r == Refused(state, progress)
         IN  /\ o.state \in LayerStates /\ r.state \in LayerStates
             /\ o.progress \in ProgressKinds \ {"none"} /\ r.progress \in ProgressKinds \ {"none"}
             /\ progress = "preload" =>
                  o.progress \in {"loaded", "failed", "thrown"} /\ r.progress \in {"refused", "thrown"}
             /\ progress # "preload" =>
                  o.progress \in {"present", "shown", "failed", "thrown"} /\ r.progress \in {"refused", "thrown"}
             /\ state = "disposed" => o.state = "disposed" /\ r.state = "disposed"
             /\ state # "disposed" => o.state # "disposed" /\ r.state # "disposed"
             /\ o.progress = "present" => o.state = "presenting"
             /\ (progress \in {"preload", "load"} /\ state = "preloading")
                  \/ (progress = "present" /\ state = "presenting") =>
                  /\ o.progress \notin {"failed", "thrown"} /\ r.progress \notin {"failed", "thrown"}
                  /\ o.progress \notin Waiting => o.state \notin {"preloading", "presenting"}
                  /\ r.state \notin {"preloading", "presenting"}
<1>1. CASE progress = "preload"
  BY <1>1 DEF Answered, Refused, Outcome, CaughtByPreload, CaughtBySeek, MayBecome, Waiting,
              LifecycleTransitions, LayerStates, ProgressKinds
<1>2. CASE progress = "load"
  BY <1>2 DEF Answered, Refused, Outcome, CaughtByPreload, CaughtBySeek, MayBecome, Waiting,
              LifecycleTransitions, LayerStates, ProgressKinds
<1>3. CASE progress = "present"
  BY <1>3 DEF Answered, Refused, Outcome, CaughtByPreload, CaughtBySeek, MayBecome, Waiting,
              LifecycleTransitions, LayerStates, ProgressKinds
<1> QED BY <1>1, <1>2, <1>3 DEF Waiting

(* A seek comes to a layer in any state of it, and never makes it throw.    *)
LEMMA Presenting ==
  ASSUME NEW state \in LayerStates
  PROVE  LET b == BeginPresent(state)
         IN  /\ b.state \in LayerStates
             /\ b.progress \in {"load", "present", "failed"}
             /\ b.progress = "load" => b.state = "preloading"
             /\ b.progress = "present" => b.state = "presenting"
             /\ b.state = "disposed" <=> state = "disposed"
             /\ state \in {"unloaded", "ready", "error"} => b.progress # "failed"
             /\ b.progress = "failed" => b.state \notin {"preloading", "presenting"}
BY DEF BeginPresent, BeginPreload, Outcome, CaughtBySeek, MayBecome, LifecycleTransitions,
       LayerStates

(* A preload comes to a layer, and makes it throw only in the midst of other work. *)
LEMMA Preloading ==
  ASSUME NEW state \in LayerStates
  PROVE  LET b == BeginPreload(state, "preload")
         IN  /\ b.state \in LayerStates
             /\ b.progress \in {"preload", "thrown"}
             /\ b.progress = "preload" => b.state = "preloading"
             /\ b.state = "disposed" <=> state = "disposed"
             /\ state \in {"unloaded", "ready", "error"} => b.progress = "preload"
BY DEF BeginPreload, Outcome, MayBecome, LifecycleTransitions, LayerStates

(* What the transport makes of each event.                                  *)
LEMMA Events ==
  ASSUME transport \in TransportStates
  PROVE  /\ Allowed("seek") <=> transport \in {"stopped", "paused", "playing"}
         /\ Allowed("pause") <=> transport = "playing"
         /\ Allowed("seek") => After("seek") = "seeking"
         /\ After("fail") = IF transport = "error" \/ transport = "disposed" THEN transport ELSE "error"
         /\ After("ready") = IF transport = "seeking" THEN "paused" ELSE transport
         /\ After("play") = IF transport \in {"stopped", "paused", "playing", "seeking"} THEN "playing" ELSE transport
         /\ After("pause") = IF transport = "playing" THEN "paused" ELSE transport
         /\ After("stop") = IF transport = "disposed" THEN transport ELSE "stopped"
         /\ After("dispose") = "disposed"
<1>1. CASE transport = "stopped"
  BY <1>1 DEF Transitions, Allowed, After
<1>2. CASE transport = "paused"
  BY <1>2 DEF Transitions, Allowed, After
<1>3. CASE transport = "playing"
  BY <1>3 DEF Transitions, Allowed, After
<1>4. CASE transport = "seeking"
  BY <1>4 DEF Transitions, Allowed, After
<1>5. CASE transport = "error"
  BY <1>5 DEF Transitions, Allowed, After
<1>6. CASE transport = "disposed"
  BY <1>6 DEF Transitions, Allowed, After
<1> QED BY <1>1, <1>2, <1>3, <1>4, <1>5, <1>6 DEF TransportStates

-----------------------------------------------------------------------------
(* Every variable has its type.                                             *)
LEMMA ZeroIsAFrame == 0 \in Frames
BY SchedulerAssumption DEF Frames

(* The operations that begin are operations. *)
LEMMA BeginTyped ==
  /\ Unused \in Operations
  /\ \A f \in Frames : Begin("seek", "halting", f) \in Operations
  /\ Begin("preload", "layers", 0) \in Operations
  /\ Begin("play", "beginning", 0) \in Operations
  /\ \A kind \in {"pause", "stop", "dispose"} : Begin(kind, "halting", 0) \in Operations
  /\ Begin("report", "asking", 0) \in Operations
BY ZeroIsAFrame DEF Begin, Unused, Operations, Kinds, Commands

(* A new session leaves operations. *)
LEMMA NewSessionTyped ==
  ASSUME SchedulerTyped, NEW u \in Calls, NEW begun \in Operations, NewSession(u, begun)
  PROVE  op' \in [Calls -> Operations]
BY DEF NewSession, SchedulerTyped, Operations

(* A command that is remembered is one. *)
LEMMA CommandTyped ==
  ASSUME SchedulerTyped, NEW u, NEW kind \in Commands, NEW f \in Frames, NEW legal,
         Command(u, kind, f, legal)
  PROVE  last' \in [kind : {"none"} \cup Commands, target : Frames, clean : BOOLEAN]
<1>1. last' = [kind |-> kind, target |-> f, clean |-> last'.clean] /\ last'.clean \in BOOLEAN
  BY DEF Command
<1> QED BY <1>1

(* The end of an operation leaves operations and what they asked. *)
LEMMA EndTyped ==
  ASSUME SchedulerTyped, NEW u \in Calls, End(u)
  PROVE  op' \in [Calls -> Operations] /\ work' \in [Calls -> [Layers -> ProgressKinds]]
<1>1. Nothing \in [Layers -> ProgressKinds]
  BY DEF Nothing, ProgressKinds
<1> QED BY <1>1, BeginTyped DEF End, SchedulerTyped

(* The variables have their types at first. *)
LEMMA TypedInit == SchedulerInit => SchedulerTyped
<1> SUFFICES ASSUME SchedulerInit PROVE SchedulerTyped
  OBVIOUS
<1>1. op \in [Calls -> Operations] /\ work \in [Calls -> [Layers -> ProgressKinds]]
  BY BeginTyped DEF SchedulerInit, Nothing, ProgressKinds
<1> QED BY <1>1, ZeroIsAFrame DEF SchedulerInit, SchedulerTyped, TransportStates, LayerStates

(* Every step keeps the types of the variables. *)
LEMMA TypedStep ==
  ASSUME SchedulerTyped, [SchedulerNext]_schedulerVars
  PROVE  SchedulerTyped'
<1>1. ASSUME NEW u \in Calls, NEW f \in Frames, SeekFrom(u, f) PROVE SchedulerTyped'
  <2>1. transport' \in TransportStates /\ playing' \subseteq Layers
    BY <1>1, Events DEF SeekFrom, SchedulerTyped, TransportStates
  <2>2. op' \in [Calls -> Operations]
    BY <1>1, BeginTyped, NewSessionTyped DEF SeekFrom
  <2>3. last' \in [kind : {"none"} \cup Commands, target : Frames, clean : BOOLEAN]
    BY <1>1, CommandTyped DEF SeekFrom, Commands
  <2> QED BY <1>1, <2>1, <2>2, <2>3 DEF SeekFrom, SchedulerTyped, Crowds
<1>2. ASSUME NEW u \in Calls, SeekHalted(u) PROVE SchedulerTyped'
  <2>1. layer' \in [Layers -> LayerStates]
    BY <1>2, Presenting DEF SeekHalted, SchedulerTyped
  <2>2. work' \in [Calls -> [Layers -> ProgressKinds]]
    BY <1>2, Presenting DEF SeekHalted, SchedulerTyped, ProgressKinds
  <2>3. op' \in [Calls -> Operations]
    BY ZenonT(30), <1>2 DEF SeekHalted, SchedulerTyped, Operations
  <2> QED BY <1>2, <2>1, <2>2, <2>3 DEF SeekHalted, SchedulerTyped
<1>3. ASSUME NEW u \in Calls, NEW l \in Layers, AdapterAnswers(u, l) \/ AdapterRefuses(u, l)
      PROVE SchedulerTyped'
  <2>1. PICK o \in {Answered(layer[l], work[u][l]), Refused(layer[l], work[u][l])} : Proceed(u, l, o)
    BY <1>3 DEF AdapterAnswers, AdapterRefuses
  <2>2. o.state \in LayerStates /\ o.progress \in ProgressKinds
    BY <1>3, <2>1, Answers DEF AdapterAnswers, AdapterRefuses, SchedulerTyped
  <2> QED BY <2>1, <2>2 DEF Proceed, SchedulerTyped
<1>4. ASSUME NEW u \in Calls, SeekEnds(u) PROVE SchedulerTyped'
  <2>1. transport' \in TransportStates
    BY <1>4, Events DEF SeekEnds, SchedulerTyped, TransportStates
  <2>2. frame' \in Frames /\ composite' \in [frame : Frames, layers : SUBSET Layers]
    BY <1>4 DEF SeekEnds, SchedulerTyped, Shown, Operations
  <2> QED BY <1>4, <2>1, <2>2, EndTyped DEF SeekEnds, SchedulerTyped
<1>5. ASSUME NEW u \in Calls, Rejected(u) \/ PreloadEnds(u) \/ ReportEnds(u) PROVE SchedulerTyped'
  BY <1>5, EndTyped DEF Rejected, PreloadEnds, ReportEnds, SchedulerTyped
<1>6. ASSUME NEW u \in Calls, Preload(u) PROVE SchedulerTyped'
  <2>1. layer' \in [Layers -> LayerStates]
    BY <1>6, Preloading DEF Preload, SchedulerTyped
  <2>2. work' \in [Calls -> [Layers -> ProgressKinds]]
    BY <1>6, Preloading DEF Preload, SchedulerTyped, ProgressKinds
  <2>3. op' \in [Calls -> Operations]
    BY <1>6, BeginTyped, NewSessionTyped DEF Preload
  <2>4. last' \in [kind : {"none"} \cup Commands, target : Frames, clean : BOOLEAN]
    BY <1>6 DEF Preload, Interrupt, SchedulerTyped
  <2> QED BY <1>6, <2>1, <2>2, <2>3, <2>4 DEF Preload, SchedulerTyped, Crowds
<1>7. ASSUME NEW u \in Calls, RequestFidelity(u) PROVE SchedulerTyped'
  <2>1. op' \in [Calls -> Operations]
    BY <1>7, BeginTyped, NewSessionTyped DEF RequestFidelity
  <2> QED BY <1>7, <2>1 DEF RequestFidelity, Interrupt, SchedulerTyped
<1>8. ASSUME NEW u \in Calls, Play(u) \/ Pause(u) \/ Stop(u) PROVE SchedulerTyped'
  <2>1. op' \in [Calls -> Operations]
    BY <1>8, BeginTyped, NewSessionTyped DEF Play, Pause, Stop
  <2>2. last' \in [kind : {"none"} \cup Commands, target : Frames, clean : BOOLEAN]
    BY <1>8, CommandTyped, ZeroIsAFrame DEF Play, Pause, Stop, Commands
  <2> QED BY <1>8, <2>1, <2>2 DEF Play, Pause, Stop, SchedulerTyped
<1>9. ASSUME NEW u \in Calls, PlayRefused(u) PROVE SchedulerTyped'
  BY <1>9, EndTyped DEF PlayRefused, SchedulerTyped
<1>10. ASSUME NEW u \in Calls, PlayEnds(u) \/ PauseEnds(u) \/ StopEnds(u) PROVE SchedulerTyped'
  <2>1. transport' \in TransportStates /\ frame' \in Frames
    BY <1>10, Events, ZeroIsAFrame DEF PlayEnds, PauseEnds, StopEnds, SchedulerTyped, TransportStates
  <2> QED BY <1>10, <2>1, EndTyped DEF PlayEnds, PauseEnds, StopEnds, SchedulerTyped
<1>11. ASSUME NEW u \in Calls, Report(u) PROVE SchedulerTyped'
  BY <1>11, BeginTyped DEF Report, SchedulerTyped
<1>12. ASSUME NEW u \in Calls, Dispose(u) PROVE SchedulerTyped'
  <2>1. op' \in [Calls -> Operations]
    <3>1. ASSUME NEW v \in Calls, NEW b \in BOOLEAN
          PROVE  [op[v] EXCEPT !.fresh = b] \in Operations
      BY ZenonT(30) DEF SchedulerTyped, Operations
    <3>2. ASSUME NEW v \in Calls
          PROVE  [op[v] EXCEPT !.fresh = @ /\ op[v].kind = "report"] \in Operations
      BY <3>1 DEF SchedulerTyped, Operations
    <3> QED BY <1>12, <3>2, BeginTyped DEF Dispose
  <2>2. last' \in [kind : {"none"} \cup Commands, target : Frames, clean : BOOLEAN]
    BY <1>12, CommandTyped, ZeroIsAFrame DEF Dispose, Commands
  <2> QED BY <1>12, <2>1, <2>2 DEF Dispose, SchedulerTyped
<1>13. ASSUME NEW u \in Calls, DisposeEnds(u) PROVE SchedulerTyped'
  <2>1. transport' \in TransportStates /\ layer' \in [Layers -> LayerStates]
    BY <1>13, Events DEF DisposeEnds, SchedulerTyped, TransportStates, LayerStates
  <2> QED BY <1>13, <2>1, EndTyped DEF DisposeEnds, SchedulerTyped, SomeRuns
<1>14. CASE Advance
  BY <1>14 DEF Advance, SchedulerTyped
<1>15. CASE UNCHANGED schedulerVars
  BY <1>15 DEF schedulerVars, SchedulerTyped
<1>16. ASSUME NEW u \in Calls, DriftFound(u) PROVE SchedulerTyped'
  BY <1>1, <1>16 DEF DriftFound, SchedulerTyped
<1> QED
  BY <1>1, <1>2, <1>3, <1>4, <1>5, <1>6, <1>7, <1>8, <1>9, <1>10, <1>11, <1>12, <1>13,
     <1>14, <1>15, <1>16 DEF SchedulerNext, Seek

-----------------------------------------------------------------------------
(* An operation asks the layers only what such an operation asks.           *)
LEMMA AskedInit == SchedulerInit => Asked
BY DEF SchedulerInit, Asked, Nothing

(* The call that ends forgets what it asked, and a new one has asked        *)
(* nothing.                                                                 *)
LEMMA NewSessionFacts ==
  ASSUME SchedulerTyped, NEW u \in Calls, NEW begun \in Operations, NewSession(u, begun)
  PROVE  /\ op'[u] = begun
         /\ \A v \in Calls \ {u} :
              /\ op'[v].kind = op[v].kind /\ op'[v].step = op[v].step
              /\ op'[v].target = op[v].target /\ ~op'[v].fresh
BY DEF NewSession, SchedulerTyped, Operations

(* An operation ends alone. *)
LEMMA EndFacts ==
  ASSUME SchedulerTyped, NEW u \in Calls, End(u)
  PROVE  /\ op'[u] = Unused /\ work'[u] = Nothing
         /\ \A v \in Calls \ {u} : op'[v] = op[v] /\ work'[v] = work[v]
BY DEF End, SchedulerTyped

(* Only workers ask anything of the layers. *)
LEMMA FreeAsksNothing ==
  ASSUME Asked, NEW u \in Calls, NEW l \in Layers, ~Busy(u)
  PROVE  work[u][l] = "none"
BY DEF Asked, Busy

(* What is left of an operation's books when others come and go. *)
LEMMA AskedByOthers ==
  ASSUME SchedulerTyped, Asked, NEW u \in Calls, work' = work,
         \A l \in Layers : work[u][l] = "none",
         \A v \in Calls \ {u} : op'[v].kind = op[v].kind /\ op'[v].step = op[v].step
  PROVE  Asked'
BY DEF Asked

(* Every step asks only what the operation that takes it may ask. *)
LEMMA AskedStep ==
  ASSUME SchedulerTyped, Asked, [SchedulerNext]_schedulerVars
  PROVE  Asked'
<1>1. ASSUME NEW u \in Calls, NEW f \in Frames, SeekFrom(u, f), ~Busy(u) PROVE Asked'
  <2>1. \A v \in Calls \ {u} : op'[v].kind = op[v].kind /\ op'[v].step = op[v].step
    BY <1>1, BeginTyped, NewSessionFacts DEF SeekFrom
  <2> QED BY <1>1, <2>1, FreeAsksNothing, AskedByOthers DEF SeekFrom
<1>2. ASSUME NEW u \in Calls, SeekHalted(u) PROVE Asked'
  <2>1. \A l \in Layers : work'[u][l] \in {"none", "load", "present", "failed"}
    BY <1>2, Presenting DEF SeekHalted, SchedulerTyped
  <2>2. op'[u].kind = "seek" /\ op'[u].step = "layers"
    BY <1>2 DEF SeekHalted, SchedulerTyped, Operations
  <2>3. \A v \in Calls \ {u} : op'[v] = op[v] /\ work'[v] = work[v]
    BY <1>2 DEF SeekHalted, SchedulerTyped
  <2> QED BY <2>1, <2>2, <2>3 DEF Asked
<1>3. ASSUME NEW u \in Calls, NEW l \in Layers, AdapterAnswers(u, l) \/ AdapterRefuses(u, l)
      PROVE Asked'
  <2>1. PICK o \in {Answered(layer[l], work[u][l]), Refused(layer[l], work[u][l])} : Proceed(u, l, o)
    BY <1>3 DEF AdapterAnswers, AdapterRefuses
  <2>2. work[u][l] \in Waiting
    BY <1>3 DEF AdapterAnswers, AdapterRefuses
  <2>3. /\ work[u][l] = "preload" => o.progress \in {"loaded", "failed", "thrown", "refused"}
        /\ work[u][l] # "preload" => o.progress \in {"present", "shown", "failed", "thrown", "refused"}
    BY <2>1, <2>2, Answers DEF SchedulerTyped
  <2>4. work' = [work EXCEPT ![u][l] = o.progress] /\ op' = op
    BY <2>1 DEF Proceed
  <2> QED BY <2>2, <2>3, <2>4 DEF Asked, SchedulerTyped, Waiting
<1>4. ASSUME NEW u \in Calls, End(u) PROVE Asked'
  BY <1>4, EndFacts DEF Asked, Nothing
<1>5. ASSUME NEW u \in Calls, Preload(u) PROVE Asked'
  <2>1. \A l \in Layers : work'[u][l] \in {"preload", "thrown"}
    BY <1>5, Preloading DEF Preload, SchedulerTyped
  <2>2. op'[u].kind = "preload" /\ op'[u].step = "layers"
    BY <1>5, BeginTyped, NewSessionFacts DEF Preload, Begin
  <2>3. \A v \in Calls \ {u} : /\ op'[v].kind = op[v].kind /\ op'[v].step = op[v].step
                               /\ work'[v] = work[v]
    BY <1>5, BeginTyped, NewSessionFacts DEF Preload, SchedulerTyped
  <2> QED BY <2>1, <2>2, <2>3 DEF Asked
<1>6. ASSUME NEW u \in Calls, Free(u), work' = work,
             \/ \E begun \in Operations : NewSession(u, begun)
             \/ Dispose(u) \/ Report(u)
      PROVE  Asked'
  <2>1. ~Busy(u)
    BY <1>6 DEF Free, Unused, Busy
  <2>2. \A v \in Calls \ {u} : op'[v].kind = op[v].kind /\ op'[v].step = op[v].step
    <3>1. CASE \E begun \in Operations : NewSession(u, begun)
      BY <3>1, NewSessionFacts
    <3>2. CASE Dispose(u)
      BY <3>2 DEF Dispose, SchedulerTyped, Operations
    <3>3. CASE Report(u)
      BY <3>3 DEF Report, SchedulerTyped
    <3> QED BY <1>6, <3>1, <3>2, <3>3
  <2> QED BY <1>6, <2>1, <2>2, FreeAsksNothing, AskedByOthers
<1>7. ASSUME NEW u \in Calls, Play(u) \/ Pause(u) \/ Stop(u) \/ RequestFidelity(u) PROVE Asked'
  BY <1>6, <1>7, BeginTyped DEF Play, Pause, Stop, RequestFidelity
<1>8. ASSUME NEW u \in Calls, DriftFound(u) PROVE Asked'
  BY <1>1, <1>8 DEF DriftFound, Busy, SchedulerTyped
<1>9. ASSUME NEW u \in Calls, NEW f \in Frames, Seek(u, f) PROVE Asked'
  BY <1>1, <1>9 DEF Seek, Free, Unused, Busy
<1>10. CASE Advance \/ UNCHANGED schedulerVars
  BY <1>10 DEF Advance, schedulerVars, Asked
<1>11. ASSUME NEW u \in Calls, SeekEnds(u) \/ Rejected(u) \/ PreloadEnds(u) \/ PlayRefused(u)
                \/ PlayEnds(u) \/ PauseEnds(u) \/ StopEnds(u) \/ ReportEnds(u) \/ DisposeEnds(u)
       PROVE  Asked'
  BY <1>4, <1>11 DEF SeekEnds, Rejected, PreloadEnds, PlayRefused, PlayEnds, PauseEnds,
                     StopEnds, ReportEnds, DisposeEnds
<1>12. ASSUME NEW u \in Calls, Report(u) \/ Dispose(u) PROVE Asked'
  BY <1>6, <1>12 DEF Report, Dispose
<1> QED
  BY <1>2, <1>3, <1>5, <1>7, <1>8, <1>9, <1>10, <1>11, <1>12 DEF SchedulerNext

(* A free call runs nothing, and works on no layer. *)
LEMMA FreeFacts ==
  ASSUME NEW u, Free(u)
  PROVE  op[u].kind = "none" /\ ~Busy(u)
BY DEF Free, Unused, Busy

(* What a report and a dispose add to the operations. *)
LEMMA ReportFacts ==
  ASSUME SchedulerTyped, NEW u \in Calls, Report(u)
  PROVE  op'[u].kind = "report" /\ \A v \in Calls \ {u} : op'[v] = op[v]
BY DEF Report, SchedulerTyped, Begin

(* Dispose takes the session of all but the reports. *)
LEMMA DisposeFacts ==
  ASSUME SchedulerTyped, NEW u \in Calls, Dispose(u)
  PROVE  /\ op'[u].kind = "dispose"
         /\ \A v \in Calls \ {u} :
              /\ op'[v].kind = op[v].kind /\ op'[v].step = op[v].step
              /\ op'[v].target = op[v].target
              /\ op[v].kind # "report" => ~op'[v].fresh
<1>1. op'[u] = Begin("dispose", "halting", 0)
  BY DEF Dispose
<1>2. ASSUME NEW v \in Calls \ {u}
      PROVE  op'[v] = [op[v] EXCEPT !.fresh = @ /\ op[v].kind = "report"]
  BY DEF Dispose
<1>3. ASSUME NEW v \in Calls \ {u}
      PROVE  /\ op'[v].kind = op[v].kind /\ op'[v].step = op[v].step
             /\ op'[v].target = op[v].target
             /\ op[v].kind # "report" => ~op'[v].fresh
  BY ZenonT(30), <1>2, <1>3 DEF SchedulerTyped, Operations
<1>4. op'[u].kind = "dispose"
  BY <1>1 DEF Begin
<1> QED BY <1>3, <1>4

(* The operations that a command without a wait for layers adds. *)
LEMMA CommandFacts ==
  ASSUME SchedulerTyped, NEW u \in Calls,
         Play(u) \/ Pause(u) \/ Stop(u) \/ RequestFidelity(u)
  PROVE  /\ op[u].kind = "none"
         /\ op'[u].kind = IF Play(u) THEN "play" ELSE IF Pause(u) THEN "pause"
                          ELSE IF Stop(u) THEN "stop" ELSE "none"
         /\ \A v \in Calls \ {u} : /\ op'[v].kind = op[v].kind /\ op'[v].step = op[v].step
                                   /\ op'[v].target = op[v].target /\ ~op'[v].fresh
<1>1. op[u].kind = "none"
  BY FreeFacts DEF Play, Pause, Stop, RequestFidelity
<1>2. ASSUME NEW begun \in Operations, NewSession(u, begun)
      PROVE  /\ op'[u] = begun
             /\ \A v \in Calls \ {u} : /\ op'[v].kind = op[v].kind /\ op'[v].step = op[v].step
                                       /\ op'[v].target = op[v].target /\ ~op'[v].fresh
  BY <1>2, NewSessionFacts
<1>3. ASSUME Play(u) PROVE op'[u].kind = "play"
  BY <1>2, <1>3, BeginTyped DEF Play, Begin
<1>4. ASSUME Pause(u) PROVE op'[u].kind = "pause"
  BY <1>2, <1>4, BeginTyped DEF Pause, Begin
<1>5. ASSUME Stop(u) PROVE op'[u].kind = "stop"
  BY <1>2, <1>5, BeginTyped DEF Stop, Begin
<1>6. ASSUME RequestFidelity(u) PROVE op'[u].kind = "none"
  BY <1>2, <1>6, BeginTyped DEF RequestFidelity, Unused
<1>7. \A v \in Calls \ {u} : /\ op'[v].kind = op[v].kind /\ op'[v].step = op[v].step
                             /\ op'[v].target = op[v].target /\ ~op'[v].fresh
  BY <1>2, BeginTyped DEF Play, Pause, Stop, RequestFidelity
<1> QED BY <1>1, <1>3, <1>4, <1>5, <1>6, <1>7

-----------------------------------------------------------------------------
(* A disposed scheduler stays disposed, and layers are disposed with it.    *)
LEMMA DisposedForGood ==
  ASSUME SchedulerTyped, [SchedulerNext]_schedulerVars, transport = "disposed"
  PROVE  transport' = "disposed"
<1> USE Events DEF SchedulerTyped, TransportStates
<1>1. ASSUME NEW u \in Calls, NEW f \in Frames, SeekFrom(u, f) PROVE transport' = "disposed"
  BY <1>1 DEF SeekFrom
<1>2. ASSUME NEW u \in Calls, SeekEnds(u) PROVE transport' = "disposed"
  BY <1>2 DEF SeekEnds
<1>3. ASSUME NEW u \in Calls, PlayEnds(u) \/ PauseEnds(u) \/ StopEnds(u) \/ DisposeEnds(u)
      PROVE  transport' = "disposed"
  BY <1>3 DEF PlayEnds, PauseEnds, StopEnds, DisposeEnds
<1>4. CASE transport' = transport
  BY <1>4
<1> QED
  BY <1>1, <1>2, <1>3, <1>4
     DEF SchedulerNext, Seek, SeekHalted, Rejected, AdapterAnswers, AdapterRefuses, Proceed, Preload,
         PreloadEnds, RequestFidelity, Play, PlayRefused, Pause, Stop, Report, ReportEnds,
         DriftFound, Dispose, Advance, schedulerVars

(* The steps that touch the layers. *)
LEMMA LayersChange ==
  ASSUME [SchedulerNext]_schedulerVars
  PROVE  \/ layer' = layer
         \/ \E u \in Calls : \/ SeekHalted(u) \/ Preload(u) \/ DisposeEnds(u)
                             \/ \E l \in Layers : AdapterAnswers(u, l) \/ AdapterRefuses(u, l)
BY DEF SchedulerNext, Seek, SeekFrom, SeekEnds, Rejected, PreloadEnds, RequestFidelity, Play, PlayRefused,
       PlayEnds, Pause, PauseEnds, Stop, StopEnds, Report, ReportEnds, DriftFound, Dispose,
       Advance, schedulerVars

(* No layer is disposed at first. *)
LEMMA DisposalInit == SchedulerInit => Disposal
BY DEF SchedulerInit, Disposal

(* Only the disposal of the scheduler disposes of a layer. *)
LEMMA DisposalStep ==
  ASSUME SchedulerTyped, Disposal, [SchedulerNext]_schedulerVars
  PROVE  Disposal'
<1> SUFFICES ASSUME NEW l \in Layers, layer'[l] = "disposed"
             PROVE  transport' = "disposed"
  BY DEF Disposal
<1>1. CASE layer[l] = "disposed"
  BY <1>1, DisposedForGood DEF Disposal
<1>2. CASE \E u \in Calls : SeekHalted(u)
  BY <1>1, <1>2, Presenting DEF SeekHalted, SchedulerTyped
<1>3. CASE \E u \in Calls : Preload(u)
  BY <1>1, <1>3, Preloading DEF Preload, SchedulerTyped
<1>4. CASE \E u \in Calls : DisposeEnds(u)
  BY <1>4, Events DEF DisposeEnds, SchedulerTyped
<1>5. ASSUME NEW u \in Calls, NEW m \in Layers, AdapterAnswers(u, m) \/ AdapterRefuses(u, m)
      PROVE  transport' = "disposed"
  <2>1. PICK o \in {Answered(layer[m], work[u][m]), Refused(layer[m], work[u][m])} : Proceed(u, m, o)
    BY <1>5 DEF AdapterAnswers, AdapterRefuses
  <2>2. layer[m] # "disposed" => o.state # "disposed"
    BY <1>5, <2>1, Answers DEF AdapterAnswers, AdapterRefuses, SchedulerTyped
  <2> QED BY <1>1, <2>1, <2>2 DEF Proceed, SchedulerTyped
<1>6. CASE layer' = layer
  BY <1>1, <1>6
<1> QED BY <1>2, <1>3, <1>4, <1>5, <1>6, LayersChange

-----------------------------------------------------------------------------
(* The books of the layers and of the preload slots.                        *)

(* The books are in order at first. *)
LEMMA BooksInit == SchedulerInit => Books
<1> SUFFICES ASSUME SchedulerInit PROVE Books
  OBVIOUS
<1>1. \A u \in Calls : ~Busy(u)
  BY DEF SchedulerInit, Unused, Busy
<1>2. Preloads = {}
  BY <1>1 DEF Busy, Preloads
<1> QED BY <1>1, <1>2, FS_EmptySet DEF SchedulerInit, Books, InStep, Nothing

(* Commands that leave the layers and the workers alone leave the books.    *)
LEMMA BooksLeft ==
  ASSUME SchedulerTyped, Books,
         \A u \in Calls : \/ op'[u].kind = op[u].kind
                          \/ ~Busy(u) /\ op'[u].kind \notin {"seek", "preload"},
         \A u \in Calls, l \in Layers : work'[u][l] = work[u][l],
         layer' = layer, slots' = slots, crowded' = crowded,
         transport' = "disposed" => transport = "disposed"
  PROVE  Books'
<1>1. \A u \in Calls : (op'[u].kind = "preload") <=> (op[u].kind = "preload")
  BY DEF Busy
<1>2. \A u \in Calls : Busy(u)' <=> Busy(u)
  BY DEF Busy
<1>3. Preloads' = Preloads
  BY <1>1 DEF Preloads
<1>4. \A u \in Calls : InStep(u) => InStep(u)'
  BY DEF InStep
<1> QED BY <1>2, <1>3, <1>4 DEF Books

(* One worker at the most has one preload at the most. *)
LEMMA OnePreload ==
  ASSUME NEW u \in Calls
  PROVE  /\ (\A v \in Calls : op[v].kind # "preload") => Cardinality(Preloads) = 0
         /\ op[u].kind = "preload" /\ (\A v \in Calls \ {u} : op[v].kind # "preload")
              => Cardinality(Preloads) = 1
<1>1. CASE \A v \in Calls : op[v].kind # "preload"
  <2>1. Preloads = {}
    BY <1>1 DEF Preloads
  <2> QED BY <1>1, <2>1, FS_EmptySet
<1>2. CASE op[u].kind = "preload" /\ \A v \in Calls \ {u} : op[v].kind # "preload"
  <2>1. Preloads = {u}
    BY <1>2 DEF Preloads
  <2> QED BY <1>2, <2>1, FS_Singleton
<1> QED BY <1>1, <1>2

(* With nobody at work, nothing is asked and no layer waits. *)
LEMMA NobodyAtWork ==
  ASSUME SchedulerTyped, Asked, Books, ~crowded, \A u \in Calls : ~Busy(u)
  PROVE  /\ \A u \in Calls, l \in Layers : work[u][l] = "none"
         /\ \A l \in Layers : layer[l] \notin {"preloading", "presenting"}
<1>1. \A u \in Calls, l \in Layers : work[u][l] = "none"
  BY FreeAsksNothing
<1> QED BY <1>1 DEF Books, Waiting

(* Every step keeps the books, unless two operations crowd the layers. *)
LEMMA BooksStep ==
  ASSUME SchedulerTyped, Asked, Disposal, Books, [SchedulerNext]_schedulerVars
  PROVE  Books'
<1> SUFFICES ASSUME ~crowded' PROVE Books'
  BY DEF Books
<1>1. ~crowded
  BY ZenonT(30) DEF SchedulerNext, Seek, SeekFrom, SeekHalted, SeekEnds, Rejected, AdapterAnswers, AdapterRefuses,
         Proceed, Preload, PreloadEnds, RequestFidelity, Play, PlayRefused, PlayEnds, Pause,
         PauseEnds, Stop, StopEnds, Report, ReportEnds, DriftFound, Dispose, DisposeEnds,
         Advance, Crowds, schedulerVars
<1>2. ASSUME NEW u \in Calls, NEW f \in Frames, SeekFrom(u, f), ~Busy(u) PROVE Books'
  <2>1. CASE Allowed("seek")
    <3>1. \A v \in Calls : ~Busy(v)
      BY <1>2, <2>1 DEF SeekFrom, Crowds, Busy
    <3>2. /\ op'[u].kind = "seek"
          /\ \A v \in Calls \ {u} : op'[v].kind = op[v].kind
      BY <1>2, <2>1, BeginTyped, NewSessionFacts DEF SeekFrom, Begin
    <3>3. /\ \A v \in Calls, l \in Layers : work'[v][l] = "none"
          /\ \A l \in Layers : layer'[l] \notin {"preloading", "presenting"}
      BY <1>1, <1>2, <3>1, NobodyAtWork DEF SeekFrom
    <3>4. transport' # "disposed"
      BY <1>2, <2>1, Events DEF SeekFrom, SchedulerTyped
    <3>5. Preloads = Preloads'
      BY <3>1, <3>2 DEF Preloads, Busy
    <3>6. slots' = Cardinality(Preloads')
      BY <1>1, <1>2, <3>5 DEF Books, SeekFrom
    <3>7. \A v, w \in Calls : Busy(v)' /\ Busy(w)' => v = w
      BY <3>1, <3>2 DEF Busy
    <3> QED BY <3>3, <3>4, <3>6, <3>7 DEF Books, InStep
  <2>2. CASE ~Allowed("seek")
    <3>1. /\ op'[u].kind = "none"
          /\ \A v \in Calls \ {u} : op'[v].kind = op[v].kind
      BY <1>2, <2>2, BeginTyped, NewSessionFacts DEF SeekFrom, Unused
    <3> QED BY <1>2, <2>2, <3>1, BooksLeft DEF SeekFrom
  <2> QED BY <2>1, <2>2
<1>3. ASSUME NEW u \in Calls, SeekHalted(u) PROVE Books'
  <2>1. op[u].kind = "seek" /\ op[u].step = "halting" /\ Busy(u)
    BY <1>3 DEF SeekHalted, Busy
  <2>2. \A v \in Calls, l \in Layers : work[v][l] = "none"
    BY <1>1, <2>1 DEF Books, Asked, Busy
  <2>3. \A l \in Layers : layer[l] \in {"unloaded", "ready", "error"}
    BY <1>1, <2>1, <2>2 DEF Books, Disposal, Waiting, SchedulerTyped, LayerStates
  <2> DEFINE shown == Active[op[u].target]
  <2>4. \A l \in Layers : /\ work'[u][l] = (IF l \in shown THEN BeginPresent(layer[l]).progress ELSE "none")
                          /\ layer'[l] = (IF l \in shown THEN BeginPresent(layer[l]).state ELSE layer[l])
    BY <1>3 DEF SeekHalted, SchedulerTyped
  <2>5. \A l \in Layers :
          /\ work'[u][l] \in {"none", "load", "present"}
          /\ work'[u][l] = "load" => layer'[l] = "preloading"
          /\ work'[u][l] = "present" => layer'[l] = "presenting"
          /\ work'[u][l] = "none" => layer'[l] \notin {"preloading", "presenting"}
    BY <2>3, <2>4, Presenting DEF LayerStates
  <2>6. \A v \in Calls \ {u} : work'[v] = work[v]
    BY <1>3 DEF SeekHalted, SchedulerTyped
  <2>7. \A v \in Calls : op'[v].kind = op[v].kind
    BY <1>3 DEF SeekHalted, SchedulerTyped, Operations
  <2>8. (\A v, w \in Calls : Busy(v)' /\ Busy(w)' => v = w) /\ Preloads' = Preloads
    BY <1>1, <2>7 DEF Books, Busy, Preloads
  <2>9. transport' # "disposed" /\ slots' = Cardinality(Preloads')
    BY <1>1, <1>3, <2>1, <2>8 DEF Books, SeekHalted
  <2>10. \A v \in Calls : InStep(v)'
    BY <2>2, <2>5, <2>6 DEF InStep
  <2>11. \A v \in Calls, l \in Layers : work'[v][l] # "failed"
    BY <2>2, <2>5, <2>6
  <2>12. \A l \in Layers : layer'[l] \in {"preloading", "presenting"} => work'[u][l] \in Waiting
    BY <2>5 DEF Waiting
  <2> QED BY <2>8, <2>9, <2>10, <2>11, <2>12 DEF Books
<1>4. ASSUME NEW u \in Calls, NEW l \in Layers, AdapterAnswers(u, l) \/ AdapterRefuses(u, l)
      PROVE Books'
  <2>1. PICK o \in {Answered(layer[l], work[u][l]), Refused(layer[l], work[u][l])} : Proceed(u, l, o)
    BY <1>4 DEF AdapterAnswers, AdapterRefuses
  <2>2. work[u][l] \in Waiting
    BY <1>4 DEF AdapterAnswers, AdapterRefuses
  <2>3. \/ work[u][l] \in {"preload", "load"} /\ layer[l] = "preloading"
        \/ work[u][l] = "present" /\ layer[l] = "presenting"
    BY <1>1, <2>2 DEF Books, InStep, Waiting
  <2>4. /\ o.progress \in {"present", "shown", "loaded", "refused"}
        /\ o.progress = "present" => o.state = "presenting"
        /\ o.progress # "present" => o.state \notin {"preloading", "presenting"}
    BY <2>1, <2>2, <2>3, Answers DEF SchedulerTyped, Waiting
  <2>5. Busy(u) /\ \A v \in Calls \ {u} : ~Busy(v)
    BY <1>1, <2>2 DEF Books, Asked, Busy, Waiting
  <2>6. \A v \in Calls \ {u}, m \in Layers : work[v][m] = "none"
    BY <2>5, FreeAsksNothing
  <2>7. /\ \A v \in Calls, m \in Layers :
             work'[v][m] = IF v = u /\ m = l THEN o.progress ELSE work[v][m]
        /\ \A m \in Layers : layer'[m] = IF m = l THEN o.state ELSE layer[m]
    BY <2>1 DEF Proceed, SchedulerTyped
  <2>8. \A v \in Calls : InStep(v)'
    BY <1>1, <2>4, <2>6, <2>7 DEF Books, InStep
  <2>9. \A v \in Calls, m \in Layers : work'[v][m] # "failed"
    BY <1>1, <2>4, <2>7 DEF Books
  <2>10. \A m \in Layers : layer'[m] \in {"preloading", "presenting"} => work'[u][m] \in Waiting
    <3> SUFFICES ASSUME NEW m \in Layers, layer'[m] \in {"preloading", "presenting"}
                 PROVE  work'[u][m] \in Waiting
      OBVIOUS
    <3>1. CASE m = l
      BY <2>4, <2>7, <3>1 DEF Waiting
    <3>2. CASE m # l
      <4>1. PICK v \in Calls : work[v][m] \in Waiting
        BY <1>1, <2>7, <3>2 DEF Books
      <4>2. v = u
        BY <2>6, <4>1 DEF Waiting
      <4> QED BY <2>7, <3>2, <4>1, <4>2
    <3> QED BY <3>1, <3>2
  <2>11. op' = op /\ slots' = slots /\ transport' = transport
    BY <2>1 DEF Proceed
  <2>12. Preloads' = Preloads /\ \A v \in Calls : Busy(v)' <=> Busy(v)
    BY <2>11 DEF Preloads, Busy
  <2> QED BY <1>1, <2>8, <2>9, <2>10, <2>11, <2>12 DEF Books
<1>5. ASSUME NEW u \in Calls, SeekEnds(u) \/ PreloadEnds(u) PROVE Books'
  <2>1. Busy(u) /\ \A v \in Calls \ {u} : ~Busy(v)
    BY <1>1, <1>5 DEF Books, Busy, SeekEnds, PreloadEnds
  <2>2. \A v \in Calls \ {u}, m \in Layers : work[v][m] = "none"
    BY <2>1, FreeAsksNothing
  <2>3. \A m \in Layers : work[u][m] \notin Waiting
    BY <1>5 DEF SeekEnds, PreloadEnds, Settled, Stages, Waiting
  <2>4. \A m \in Layers : layer[m] \notin {"preloading", "presenting"}
    BY <1>1, <2>2, <2>3 DEF Books, Waiting
  <2>5. End(u) /\ layer' = layer
    BY <1>5 DEF SeekEnds, PreloadEnds
  <2>6. \A v \in Calls : ~Busy(v)' /\ op'[v].kind # "preload"
    BY <2>1, <2>5, EndFacts DEF Busy, Unused
  <2>7. \A v \in Calls, m \in Layers : work'[v][m] = "none"
    BY <2>2, <2>5, EndFacts DEF Nothing
  <2>8. Cardinality(Preloads') = 0
    <3>1. Preloads' = {}
      BY <2>6 DEF Preloads
    <3> QED BY <3>1, FS_EmptySet
  <2>9. slots' = 0
    <3>1. CASE op[u].kind = "preload"
      BY <1>1, <1>5, <2>1, <3>1, OnePreload DEF Books, Busy, PreloadEnds, SeekEnds
    <3>2. CASE op[u].kind = "seek"
      BY <1>1, <1>5, <2>1, <3>2, OnePreload DEF Books, Busy, PreloadEnds, SeekEnds
    <3> QED BY <2>1, <3>1, <3>2 DEF Busy
  <2> QED BY <2>4, <2>5, <2>6, <2>7, <2>8, <2>9 DEF Books, InStep
<1>6. ASSUME NEW u \in Calls, Rejected(u) PROVE Books'
  BY <1>1, <1>6 DEF Rejected, Thrown, Stages, Books, InStep
<1>7. ASSUME NEW u \in Calls, Preload(u) PROVE Books'
  <2>1. \A v \in Calls : ~Busy(v)
    <3>1. ~Busy(u)
      BY <1>7, FreeFacts DEF Preload
    <3>2. \A v \in Calls \ {u} : ~Busy(v)
      BY <1>7 DEF Preload, Crowds, Busy
    <3> QED BY <3>1, <3>2
  <2>2. /\ \A v \in Calls, l \in Layers : work[v][l] = "none"
        /\ \A l \in Layers : layer[l] \notin {"preloading", "presenting"}
    BY <1>1, <2>1, NobodyAtWork
  <2>3. \A l \in Layers : layer[l] \in {"unloaded", "ready", "error"}
    BY <1>7, <2>2 DEF Disposal, Preload, Usable, SchedulerTyped, LayerStates
  <2>4. \A l \in Layers : work'[u][l] = "preload" /\ layer'[l] = "preloading"
    BY <1>7, <2>3, Preloading DEF Preload, SchedulerTyped, LayerStates
  <2>5. \A v \in Calls \ {u} : work'[v] = work[v]
    BY <1>7 DEF Preload, SchedulerTyped
  <2>6. /\ op'[u].kind = "preload"
        /\ \A v \in Calls \ {u} : op'[v].kind = op[v].kind
    BY <1>7, BeginTyped, NewSessionFacts DEF Preload, Begin
  <2>7. \A v, w \in Calls : Busy(v)' /\ Busy(w)' => v = w
    BY <2>1, <2>6 DEF Busy
  <2>8. slots' = Cardinality(Preloads')
    <3>1. slots = 0
      BY <1>1, <2>1, OnePreload DEF Books, Busy
    <3>2. Preloads' = {u}
      BY <2>1, <2>6 DEF Preloads, Busy
    <3>3. Cardinality(Preloads') = 1
      BY <3>2, FS_Singleton
    <3>4. slots' = slots + 1
      BY <1>7 DEF Preload
    <3> QED BY <3>1, <3>3, <3>4
  <2>9. transport' # "disposed"
    BY <1>7 DEF Preload, Usable
  <2>10. \A v \in Calls : InStep(v)'
    BY <2>2, <2>4, <2>5 DEF InStep
  <2>11. \A v \in Calls, l \in Layers : work'[v][l] # "failed"
    BY <2>2, <2>4, <2>5
  <2>12. \A l \in Layers : work'[u][l] \in Waiting
    BY <2>4 DEF Waiting
  <2> QED BY <2>7, <2>8, <2>9, <2>10, <2>11, <2>12 DEF Books
<1>8. ASSUME NEW u \in Calls,
             Play(u) \/ Pause(u) \/ Stop(u) \/ RequestFidelity(u) \/ Report(u) \/ Dispose(u)
      PROVE  Books'
  <2>1. ~Busy(u)
    <3>1. Free(u)
      BY <1>8 DEF Play, Pause, Stop, RequestFidelity, Report, Dispose
    <3> QED BY <3>1, FreeFacts
  <2>2. op'[u].kind \notin {"seek", "preload"}
    BY <1>8, CommandFacts, ReportFacts, DisposeFacts
  <2>3. \A v \in Calls \ {u} : op'[v].kind = op[v].kind
    BY <1>8, CommandFacts, ReportFacts, DisposeFacts
  <2>4. /\ work' = work /\ layer' = layer /\ slots' = slots /\ crowded' = crowded
        /\ transport' = transport
    BY <1>8 DEF Play, Pause, Stop, RequestFidelity, Report, Dispose
  <2> QED BY <2>1, <2>2, <2>3, <2>4, BooksLeft
<1>9. ASSUME NEW u \in Calls,
             PlayRefused(u) \/ PlayEnds(u) \/ PauseEnds(u) \/ StopEnds(u) \/ ReportEnds(u)
      PROVE  Books'
  <2>1. ~Busy(u)
    BY <1>9 DEF PlayRefused, PlayEnds, PauseEnds, StopEnds, ReportEnds, Busy
  <2>2. End(u) /\ layer' = layer /\ slots' = slots /\ crowded' = crowded
    BY <1>9 DEF PlayRefused, PlayEnds, PauseEnds, StopEnds, ReportEnds
  <2>3. \A v \in Calls, l \in Layers : work'[v][l] = work[v][l]
    BY <2>1, <2>2, EndFacts, FreeAsksNothing DEF Nothing
  <2>4. transport' = "disposed" => transport = "disposed"
    BY <1>9, Events DEF PlayRefused, PlayEnds, PauseEnds, StopEnds, ReportEnds, SchedulerTyped
  <2>5. op'[u].kind = "none" /\ \A v \in Calls \ {u} : op'[v].kind = op[v].kind
    BY <2>2, EndFacts DEF Unused
  <2> QED BY <2>1, <2>2, <2>3, <2>4, <2>5, BooksLeft
<1>10. ASSUME NEW u \in Calls, DisposeEnds(u) PROVE Books'
  <2>1. \A v \in Calls : ~Busy(v)
    BY <1>10 DEF DisposeEnds, SomeRuns, Busy
  <2>2. \A v \in Calls, l \in Layers : work'[v][l] = "none"
    BY <1>10, <2>1, EndFacts, FreeAsksNothing DEF DisposeEnds, Nothing
  <2>3. op'[u].kind = "none" /\ \A v \in Calls \ {u} : op'[v].kind = op[v].kind
    BY <1>10, EndFacts DEF DisposeEnds, Unused
  <2>4. \A v \in Calls : ~Busy(v)'
    BY <2>1, <2>3 DEF Busy
  <2>5. Preloads' = Preloads
    BY <2>1, <2>4 DEF Preloads, Busy
  <2>6. slots' = Cardinality(Preloads') /\ \A l \in Layers : layer'[l] = "disposed"
    BY <1>1, <1>10, <2>5 DEF DisposeEnds, Books
  <2> QED BY <2>2, <2>4, <2>6 DEF Books, InStep
<1>11. CASE Advance \/ UNCHANGED schedulerVars
  BY <1>11, BooksLeft DEF Advance, schedulerVars
<1>12. ASSUME NEW u \in Calls, DriftFound(u) PROVE Books'
  BY <1>2, <1>12 DEF DriftFound, Busy, SchedulerTyped
<1>13. ASSUME NEW u \in Calls, NEW f \in Frames, Seek(u, f) PROVE Books'
  BY <1>2, <1>13 DEF Seek, Free, Unused, Busy
<1> QED
  BY <1>3, <1>4, <1>5, <1>6, <1>7, <1>8, <1>9, <1>10, <1>11, <1>12, <1>13 DEF SchedulerNext

-----------------------------------------------------------------------------
(* The last command is carried out.                                         *)
LEMMA ObeyedInit == SchedulerInit => Obeyed
BY DEF SchedulerInit, Obeyed

(* A clean command found nothing but harmless operations. *)
LEMMA CleanFacts ==
  ASSUME NEW u \in Calls, NEW kind \in Commands, NEW f, NEW legal,
         Command(u, kind, f, legal), last'.clean
  PROVE  /\ legal /\ last'.kind = kind /\ last'.target = f
         /\ \A v \in Calls \ {u} :
              \/ op[v].kind \in {"none", "report"}
              \/ op[v].kind = "seek" /\ kind # "seek"
              \/ op[v].kind = "preload" /\ kind = "dispose"
BY DEF Command, Commands

(* What leaves a command other than a seek as it stands. *)
LEMMA KeptCommand ==
  ASSUME SchedulerTyped, Obeyed, last.clean, last.kind # "seek",
         last'.kind = last.kind, last'.target = last.target,
         transport' = transport, playing' = playing,
         transport = "stopped" => frame' = frame,
         \A v \in Calls : \/ op'[v].kind = op[v].kind
                          \/ /\ op[v].kind \in {"none", "report", "seek", "preload"}
                             /\ op'[v].kind \in {"none", "report", "preload"},
         \A v \in Calls : op'[v].kind = "seek" => (op'[v].fresh => op[v].fresh),
         \A l \in Layers : layer[l] = "disposed" => layer'[l] = "disposed"
  PROVE  Obeyed'
<1>1. last.kind \in Commands \ {"seek"}
  BY DEF Obeyed
<1>2. \A v \in Calls : (op'[v].kind = last.kind) <=> (op[v].kind = last.kind)
  BY <1>1 DEF Commands
<1>3. \A v \in Calls : op'[v].kind \in {"none", "report", "seek", "preload", last.kind}
  BY DEF Obeyed
<1>4. \A v \in Calls : op'[v].kind = "seek" => ~op'[v].fresh
  BY DEF Obeyed
<1>5. Prepared => Prepared'
  BY <1>1 DEF Prepared, Commands
<1>6. Achieved => Achieved'
  BY <1>1 DEF Achieved, Commands
<1> QED BY <1>1, <1>2, <1>3, <1>4, <1>5, <1>6 DEF Obeyed

(* What leaves a seek as it stands. *)
LEMMA KeptSeek ==
  ASSUME SchedulerTyped, Obeyed, last.clean, last.kind = "seek",
         last'.kind = last.kind, last'.target = last.target,
         transport' = transport, playing' = playing, composite' = composite,
         transport # "playing" => frame' = frame,
         \A v \in Calls : \/ /\ op'[v].kind = op[v].kind
                             /\ op[v].kind = "seek" =>
                                  op'[v].fresh = op[v].fresh /\ op'[v].target = op[v].target
                          \/ op[v].kind \in {"none", "report"} /\ op'[v].kind \in {"none", "report"}
                          \/ /\ \A w \in Calls : op[w].kind # "seek"
                             /\ op'[v].kind \in {"none", "report", "preload"},
         \A v \in Calls : op[v].kind = "seek" => InStep(v)'
  PROVE  Obeyed'
<1>1. \A v \in Calls : (op'[v].kind = "seek") <=> (op[v].kind = "seek")
  OBVIOUS
<1>2. \A v \in Calls : op'[v].kind \in {"none", "report", "seek", "preload"}
  BY DEF Obeyed
<1>3. ASSUME NEW v \in Calls, op'[v].kind = "seek" PROVE Sought(v)'
  <2>1. Sought(v)
    BY <1>1, <1>3 DEF Obeyed
  <2>2. op'[v].fresh /\ op'[v].target = last'.target
    BY <1>1, <1>3, <2>1 DEF Sought
  <2>3. \A w \in Calls \ {v} : op'[w].kind \in {"none", "report"}
    BY <1>1, <1>3, <2>1 DEF Sought
  <2> QED BY <1>1, <1>3, <2>1, <2>2, <2>3 DEF Sought
<1>4. ASSUME \A v \in Calls : op'[v].kind # "seek" PROVE Achieved'
  <2>1. Achieved
    BY <1>1, <1>4 DEF Obeyed
  <2> QED BY <2>1 DEF Achieved
<1>5. last'.kind \in Commands
  BY DEF Commands
<1> QED BY <1>2, <1>3, <1>4, <1>5 DEF Obeyed

(* A clean seek that is under way is the only one to work on the layers. *)
LEMMA SeekIsAlone ==
  ASSUME SchedulerTyped, Asked, Obeyed, last.clean, last.kind = "seek",
         NEW v \in Calls, op[v].kind = "seek"
  PROVE  /\ Sought(v)
         /\ \A u \in Calls \ {v} : ~Busy(u)
         /\ \A u \in Calls \ {v}, l \in Layers : work[u][l] = "none"
<1>1. Sought(v)
  BY DEF Obeyed
<1>2. \A u \in Calls \ {v} : ~Busy(u)
  BY <1>1 DEF Sought, Busy
<1> QED BY <1>1, <1>2, FreeAsksNothing

(* Every step carries out the last command, or leaves it as it stands. *)
LEMMA ObeyedStep ==
  ASSUME SchedulerTyped, Asked, Obeyed, [SchedulerNext]_schedulerVars
  PROVE  Obeyed'
<1> SUFFICES ASSUME last'.clean PROVE Obeyed'
  BY DEF Obeyed
<1>1. ASSUME NEW u \in Calls, NEW f \in Frames, SeekFrom(u, f), op[u].kind \in {"none", "report"}
      PROVE  Obeyed'
  <2>1. Allowed("seek") /\ last'.kind = "seek" /\ last'.target = f
    BY <1>1, CleanFacts DEF SeekFrom, Commands
  <2>2. \A v \in Calls \ {u} : op[v].kind \in {"none", "report"}
    BY <1>1, CleanFacts DEF SeekFrom, Commands
  <2>3. op'[u] = Begin("seek", "halting", f) /\ \A v \in Calls \ {u} : op'[v].kind = op[v].kind
    BY <1>1, <2>1, BeginTyped, NewSessionFacts DEF SeekFrom
  <2>4. op'[u].kind = "seek" /\ op'[u].fresh /\ op'[u].target = f
    BY <2>3 DEF Begin
  <2>5. transport' = "seeking" /\ playing' = {}
    BY <1>1, <2>1, Events DEF SeekFrom, SchedulerTyped
  <2>6. InStep(u)'
    BY <1>1, FreeAsksNothing DEF SeekFrom, InStep, Busy
  <2>7. Sought(u)'
    BY <2>1, <2>2, <2>3, <2>4, <2>5, <2>6 DEF Sought
  <2>8. \A v \in Calls : op'[v].kind = "seek" => v = u
    BY <2>2, <2>3
  <2> QED BY <2>1, <2>2, <2>3, <2>4, <2>7, <2>8 DEF Obeyed, Commands
<1>2. ASSUME NEW u \in Calls, SeekHalted(u) PROVE Obeyed'
  <2>1. \A v \in Calls : /\ op'[v].kind = op[v].kind /\ op'[v].fresh = op[v].fresh
                         /\ op'[v].target = op[v].target
    BY <1>2 DEF SeekHalted, SchedulerTyped, Operations
  <2>2. last' = last /\ last.clean /\ op[u].kind = "seek"
    BY <1>2 DEF SeekHalted
  <2>3. CASE last.kind = "seek"
    <3> DEFINE shown == Active[op[u].target]
    <3>1. \A l \in Layers :
            /\ work'[u][l] = (IF l \in shown THEN BeginPresent(layer[l]).progress ELSE "none")
            /\ layer'[l] = (IF l \in shown THEN BeginPresent(layer[l]).state ELSE layer[l])
      BY <1>2 DEF SeekHalted, SchedulerTyped
    <3>2. InStep(u)'
      BY <3>1, Presenting DEF InStep, SchedulerTyped
    <3>3. \A v \in Calls : op[v].kind = "seek" => v = u
      BY <2>2, <2>3, SeekIsAlone DEF Busy
    <3> QED BY <1>2, <2>1, <2>2, <2>3, <3>2, <3>3, KeptSeek DEF SeekHalted
  <2>4. CASE last.kind # "seek"
    <3>1. \A l \in Layers : layer[l] = "disposed" => layer'[l] = "disposed"
      BY <1>2, Presenting DEF SeekHalted, SchedulerTyped
    <3> QED BY <1>2, <2>1, <2>2, <2>4, <3>1, KeptCommand DEF SeekHalted
  <2> QED BY <2>3, <2>4
<1>3. ASSUME NEW u \in Calls, NEW l \in Layers, AdapterAnswers(u, l) \/ AdapterRefuses(u, l)
      PROVE  Obeyed'
  <2>1. PICK o \in {Answered(layer[l], work[u][l]), Refused(layer[l], work[u][l])} : Proceed(u, l, o)
    BY <1>3 DEF AdapterAnswers, AdapterRefuses
  <2>2. work[u][l] \in Waiting
    BY <1>3 DEF AdapterAnswers, AdapterRefuses
  <2>3. /\ \A v \in Calls, m \in Layers :
             work'[v][m] = IF v = u /\ m = l THEN o.progress ELSE work[v][m]
        /\ \A m \in Layers : layer'[m] = IF m = l THEN o.state ELSE layer[m]
    BY <2>1 DEF Proceed, SchedulerTyped
  <2>4. last' = last /\ op' = op /\ last.clean
    BY <2>1 DEF Proceed
  <2>5. CASE last.kind = "seek"
    <3>1. ASSUME NEW v \in Calls, op[v].kind = "seek" PROVE InStep(v)'
      <4>1. Sought(v) /\ u = v
        BY <2>2, <2>4, <2>5, <3>1, SeekIsAlone DEF Waiting
      <4>2. InStep(u)
        BY <4>1 DEF Sought
      <4>3. \/ work[u][l] \in {"preload", "load"} /\ layer[l] = "preloading"
            \/ work[u][l] = "present" /\ layer[l] = "presenting"
        BY <2>2, <4>2 DEF InStep, Waiting
      <4>4. /\ o.progress \in {"present", "shown", "loaded", "refused"}
            /\ o.progress = "present" => o.state = "presenting"
        BY <2>1, <2>2, <4>3, Answers DEF SchedulerTyped, Waiting
      <4> QED BY <2>3, <4>1, <4>2, <4>4 DEF InStep
    <3> QED BY <2>1, <2>4, <2>5, <3>1, KeptSeek DEF Proceed
  <2>6. CASE last.kind # "seek"
    <3>1. layer[l] = "disposed" => o.state = "disposed"
      BY <2>1, <2>2, Answers DEF SchedulerTyped
    <3> QED BY <2>1, <2>3, <2>4, <2>6, <3>1, KeptCommand DEF Proceed
  <2> QED BY <2>5, <2>6
<1>4. ASSUME NEW u \in Calls, SeekEnds(u) PROVE Obeyed'
  <2>1. last' = last /\ last.clean /\ op[u].kind = "seek" /\ layer' = layer /\ playing' = playing
    BY <1>4 DEF SeekEnds
  <2>2. op'[u].kind = "none" /\ \A v \in Calls \ {u} : op'[v] = op[v] /\ work'[v] = work[v]
    BY <1>4, EndFacts DEF SeekEnds, Unused
  <2>3. CASE last.kind = "seek"
    <3>1. Sought(u)
      BY <2>1, <2>3, SeekIsAlone
    <3>2. \A v \in Calls : op'[v].kind \in {"none", "report"}
      BY <2>2, <3>1 DEF Sought
    <3>3. Achieved'
      <4>1. After("fail") = "error" /\ After("ready") = "paused"
        BY <3>1, Events DEF Sought, SchedulerTyped
      <4>2. CASE Active[op[u].target] # {} /\ Shown(u) = {}
        BY <1>4, <2>1, <2>3, <3>1, <4>1, <4>2 DEF SeekEnds, Presents, Sought, Achieved
      <4>3. CASE ~(Active[op[u].target] # {} /\ Shown(u) = {})
        <5>1. /\ transport' = "paused" /\ frame' = last.target
              /\ composite'.frame = last.target
          BY <1>4, <3>1, <4>1, <4>3 DEF SeekEnds, Presents, Sought
        <5> QED BY <2>1, <2>3, <3>1, <5>1 DEF Sought, Achieved
      <4> QED BY <4>2, <4>3
    <3> QED BY <2>1, <2>3, <3>2, <3>3 DEF Obeyed, Commands
  <2>4. CASE last.kind # "seek"
    <3>1. ~op[u].fresh
      BY <2>1, <2>4 DEF Obeyed
    <3>2. transport' = transport /\ frame' = frame
      BY <1>4, <3>1 DEF SeekEnds, Presents
    <3> QED BY <2>1, <2>2, <2>4, <3>2, KeptCommand
  <2> QED BY <2>3, <2>4
<1>5. ASSUME NEW u \in Calls, Rejected(u) \/ PreloadEnds(u) PROVE Obeyed'
  <2>1. /\ last' = last /\ last.clean /\ layer' = layer /\ playing' = playing
        /\ transport' = transport /\ frame' = frame /\ composite' = composite
    BY <1>5 DEF Rejected, PreloadEnds
  <2>2. op'[u].kind = "none" /\ \A v \in Calls \ {u} : op'[v] = op[v] /\ work'[v] = work[v]
    BY <1>5, EndFacts DEF Rejected, PreloadEnds, Unused
  <2>3. Busy(u)
    <3>1. CASE PreloadEnds(u)
      BY <3>1 DEF PreloadEnds, Busy
    <3>2. CASE Rejected(u)
      <4>1. PICK l \in Layers : work[u][l] = "thrown"
        BY <3>2 DEF Rejected, Thrown, Stages
      <4> QED BY <4>1, FreeAsksNothing
    <3> QED BY <1>5, <3>1, <3>2
  <2>4. CASE last.kind = "seek"
    <3>1. ASSUME NEW v \in Calls, op[v].kind = "seek" PROVE FALSE
      <4>1. Sought(v) /\ u = v
        BY <2>1, <2>3, <2>4, <3>1, SeekIsAlone
      <4> QED BY <1>5, <3>1, <4>1 DEF Rejected, PreloadEnds, Thrown, Stages, Sought, InStep
    <3>2. \A v \in Calls : op[v].kind \in {"none", "report", "preload"}
      BY <2>1, <2>4, <3>1 DEF Obeyed
    <3>3. \A v \in Calls : op'[v].kind \in {"none", "report", "preload"}
      BY <2>2, <3>2
    <3> QED BY <2>1, <2>4, <3>1, <3>3, KeptSeek
  <2>5. CASE last.kind # "seek"
    BY <2>1, <2>2, <2>3, <2>5, KeptCommand DEF Busy
  <2> QED BY <2>4, <2>5
<1>6. ASSUME NEW u \in Calls, Preload(u) \/ RequestFidelity(u) PROVE Obeyed'
  <2>1. /\ last'.kind = last.kind /\ last'.target = last.target /\ last.clean
        /\ \A v \in Calls : op[v].kind # "seek"
    BY <1>6 DEF Preload, RequestFidelity, Interrupt, SomeRuns, SchedulerTyped
  <2>2. /\ op[u].kind = "none" /\ op'[u].kind \in {"none", "preload"}
        /\ \A v \in Calls \ {u} : op'[v].kind = op[v].kind
    <3>1. op[u].kind = "none"
      BY <1>6, FreeFacts DEF Preload, RequestFidelity
    <3>2. CASE Preload(u)
      BY <3>1, <3>2, BeginTyped, NewSessionFacts DEF Preload, Begin
    <3>3. CASE RequestFidelity(u)
      BY <3>1, <3>3, BeginTyped, NewSessionFacts DEF RequestFidelity, Unused
    <3> QED BY <1>6, <3>1, <3>2, <3>3
  <2>3. /\ transport' = transport /\ frame' = frame /\ composite' = composite
        /\ playing' = playing
    BY <1>6 DEF Preload, RequestFidelity
  <2>4. \A l \in Layers : layer[l] = "disposed" => layer'[l] = "disposed"
    BY <1>6, Preloading DEF Preload, RequestFidelity, SchedulerTyped
  <2>5. CASE last.kind = "seek"
    <3>1. \A v \in Calls : op'[v].kind \in {"none", "report", "preload"}
      BY <2>1, <2>2, <2>5 DEF Obeyed
    <3> QED BY <2>1, <2>3, <2>5, <3>1, KeptSeek
  <2>6. CASE last.kind # "seek"
    <3>1. \A v \in Calls : op'[v].kind # "seek"
      BY <2>1, <2>2
    <3> QED BY <2>1, <2>2, <2>3, <2>4, <2>6, <3>1, KeptCommand
  <2> QED BY <2>5, <2>6
<1>7. ASSUME NEW u \in Calls, Play(u) \/ Pause(u) \/ Stop(u) PROVE Obeyed'
  <2>1. op[u].kind = "none"
    BY <1>7, CommandFacts
  <2>2. \A v \in Calls \ {u} : op[v].kind \in {"none", "report", "seek"}
    BY <1>7, CleanFacts DEF Play, Pause, Stop, Commands
  <2>3. \A v \in Calls \ {u} : op'[v].kind = op[v].kind /\ ~op'[v].fresh
    BY <1>7, CommandFacts
  <2>4. last'.kind \in {"play", "pause", "stop"} /\ op'[u].kind = last'.kind
    <3>1. ASSUME Play(u) PROVE last'.kind = "play" /\ op'[u].kind = "play"
      <4>1. last'.kind = "play"
        BY <3>1, CleanFacts DEF Play, Commands
      <4>2. op'[u] = Begin("play", "beginning", 0)
        BY <3>1, BeginTyped, NewSessionFacts DEF Play
      <4> QED BY <4>1, <4>2 DEF Begin
    <3>2. ASSUME Pause(u) PROVE last'.kind = "pause" /\ op'[u].kind = "pause"
      <4>1. last'.kind = "pause"
        BY <3>2, CleanFacts DEF Pause, Commands
      <4>2. op'[u] = Begin("pause", "halting", 0)
        BY <3>2, BeginTyped, NewSessionFacts DEF Pause
      <4> QED BY <4>1, <4>2 DEF Begin
    <3>3. ASSUME Stop(u) PROVE last'.kind = "stop" /\ op'[u].kind = "stop"
      <4>1. last'.kind = "stop"
        BY <3>3, CleanFacts DEF Stop, Commands
      <4>2. op'[u] = Begin("stop", "halting", 0)
        BY <3>3, BeginTyped, NewSessionFacts DEF Stop
      <4> QED BY <4>1, <4>2 DEF Begin
    <3> QED BY <1>7, <3>1, <3>2, <3>3
  <2>5. Prepared'
    <3>1. CASE Play(u)
      <4>1. last'.kind = "play"
        BY <3>1, CleanFacts DEF Play, Commands
      <4>2. playing' = Layers /\ transport' \in {"stopped", "paused", "playing", "seeking"}
        BY <3>1 DEF Play, Usable, SchedulerTyped, TransportStates
      <4> QED BY <4>1, <4>2 DEF Prepared
    <3>2. CASE Pause(u)
      <4>1. last'.kind = "pause" /\ Allowed("pause")
        BY <3>2, CleanFacts DEF Pause, Commands
      <4>2. playing' = {} /\ transport' = "playing"
        BY <3>2, <4>1, Events DEF Pause, SchedulerTyped
      <4> QED BY <4>1, <4>2 DEF Prepared
    <3>3. CASE Stop(u)
      <4>1. last'.kind = "stop"
        BY <3>3, CleanFacts DEF Stop, Commands
      <4>2. playing' = {} /\ transport' \in {"stopped", "paused", "playing", "seeking"}
        BY <3>3 DEF Stop, Usable, SchedulerTyped, TransportStates
      <4> QED BY <4>1, <4>2 DEF Prepared
    <3> QED BY <1>7, <3>1, <3>2, <3>3
  <2>6. \A v, w \in Calls : op'[v].kind = last'.kind /\ op'[w].kind = last'.kind => v = w
    BY <2>2, <2>3, <2>4
  <2>7. \A v \in Calls : op'[v].kind = "seek" => ~op'[v].fresh
    BY <2>3, <2>4
  <2>8. \A v \in Calls : op'[v].kind \in {"none", "report", "seek", "preload", last'.kind}
    BY <2>2, <2>3, <2>4
  <2> QED BY <2>4, <2>5, <2>6, <2>7, <2>8 DEF Obeyed, Commands
<1>8. ASSUME NEW u \in Calls, Dispose(u) PROVE Obeyed'
  <2>1. \A v \in Calls \ {u} : op[v].kind \in {"none", "report", "seek", "preload"}
    BY <1>8, CleanFacts DEF Dispose, Commands
  <2>2. last'.kind = "dispose"
    BY <1>8, CleanFacts DEF Dispose, Commands
  <2>3. /\ op'[u].kind = "dispose"
        /\ \A v \in Calls \ {u} : /\ op'[v].kind = op[v].kind
                                  /\ op[v].kind # "report" => ~op'[v].fresh
    BY <1>8, DisposeFacts
  <2>4. Prepared'
    BY <1>8, <2>2 DEF Dispose, Prepared
  <2>5. \A v, w \in Calls : op'[v].kind = "dispose" /\ op'[w].kind = "dispose" => v = w
    BY <2>1, <2>3
  <2>6. \A v \in Calls : op'[v].kind = "seek" => ~op'[v].fresh
    BY <2>3
  <2>7. \A v \in Calls : op'[v].kind \in {"none", "report", "seek", "preload", "dispose"}
    BY <2>1, <2>3
  <2> QED BY <2>2, <2>3, <2>4, <2>5, <2>6, <2>7 DEF Obeyed, Commands
<1>9. ASSUME NEW u \in Calls, PlayRefused(u) PROVE Obeyed'
  <2>1. op[u].kind = "play" /\ last.clean /\ last.kind # "play"
    BY <1>9 DEF PlayRefused, SchedulerTyped
  <2> QED BY <2>1 DEF Obeyed
<1>10. ASSUME NEW u \in Calls, PlayEnds(u) \/ PauseEnds(u) \/ StopEnds(u) \/ DisposeEnds(u)
       PROVE  Obeyed'
  <2>1. last' = last /\ last.clean /\ playing' = playing
    BY <1>10 DEF PlayEnds, PauseEnds, StopEnds, DisposeEnds
  <2>2. op[u].kind \in {"play", "pause", "stop", "dispose"} /\ op[u].kind = last.kind
    BY <1>10, <2>1 DEF PlayEnds, PauseEnds, StopEnds, DisposeEnds, Obeyed
  <2>3. op'[u].kind = "none" /\ \A v \in Calls \ {u} : op'[v] = op[v]
    BY <1>10, EndFacts DEF PlayEnds, PauseEnds, StopEnds, DisposeEnds, Unused
  <2>4. Prepared
    BY <2>1, <2>2 DEF Obeyed
  <2>5. Achieved'
    <3>1. CASE PlayEnds(u)
      <4>1. last.kind = "play"
        BY <2>2, <3>1 DEF PlayEnds
      <4>2. transport' = "playing" /\ playing = Layers
        BY <2>4, <3>1, <4>1, Events DEF PlayEnds, Prepared, SchedulerTyped
      <4> QED BY <2>1, <4>1, <4>2 DEF Achieved
    <3>2. CASE PauseEnds(u)
      <4>1. last.kind = "pause"
        BY <2>2, <3>2 DEF PauseEnds
      <4>2. transport' = "paused" /\ playing = {}
        BY <2>4, <3>2, <4>1, Events DEF PauseEnds, Prepared, SchedulerTyped
      <4> QED BY <2>1, <4>1, <4>2 DEF Achieved
    <3>3. CASE StopEnds(u)
      <4>1. last.kind = "stop"
        BY <2>2, <3>3 DEF StopEnds
      <4>2. transport' = "stopped" /\ playing = {} /\ frame' = 0
        BY <2>4, <3>3, <4>1, Events DEF StopEnds, Prepared, SchedulerTyped
      <4> QED BY <2>1, <4>1, <4>2 DEF Achieved
    <3>4. CASE DisposeEnds(u)
      <4>1. last.kind = "dispose"
        BY <2>2, <3>4 DEF DisposeEnds
      <4>2. /\ transport' = "disposed" /\ playing = {}
            /\ \A l \in Layers : layer'[l] = "disposed"
        BY <2>4, <3>4, <4>1, Events DEF DisposeEnds, Prepared, SchedulerTyped
      <4> QED BY <2>1, <4>1, <4>2 DEF Achieved
    <3> QED BY <1>10, <3>1, <3>2, <3>3, <3>4
  <2>6. last.kind \in Commands /\ last.kind # "seek"
    BY <2>1, <2>2 DEF Obeyed
  <2>7. \A v \in Calls : op'[v].kind # last.kind
    BY <2>1, <2>2, <2>3, <2>6 DEF Obeyed
  <2>8. \A v \in Calls : op'[v].kind \in {"none", "report", "seek", "preload", last.kind}
    BY <2>1, <2>3 DEF Obeyed
  <2>9. \A v \in Calls : op'[v].kind = "seek" => ~op'[v].fresh
    BY <2>1, <2>3, <2>6 DEF Obeyed
  <2> QED BY <2>1, <2>5, <2>6, <2>7, <2>8, <2>9 DEF Obeyed
<1>11. ASSUME NEW u \in Calls, Report(u) \/ ReportEnds(u) PROVE Obeyed'
  <2>1. /\ last' = last /\ last.clean /\ layer' = layer /\ playing' = playing
        /\ transport' = transport /\ frame' = frame /\ composite' = composite
    BY <1>11 DEF Report, ReportEnds
  <2>2. op[u].kind \in {"none", "report"} /\ op'[u].kind \in {"none", "report"}
    BY <1>11, FreeFacts, ReportFacts, EndFacts DEF Report, ReportEnds, Unused
  <2>3. \A v \in Calls \ {u} : op'[v] = op[v]
    BY <1>11, ReportFacts, EndFacts DEF ReportEnds
  <2>4. \A v \in Calls \ {u} : work'[v] = work[v]
    BY <1>11, EndFacts DEF Report, ReportEnds
  <2>5. CASE last.kind = "seek"
    <3>1. ASSUME NEW v \in Calls, op[v].kind = "seek" PROVE InStep(v)'
      <4>1. InStep(v) /\ v # u
        BY <2>1, <2>2, <2>5, <3>1, SeekIsAlone DEF Sought
      <4> QED BY <2>1, <2>4, <4>1 DEF InStep
    <3> QED BY <2>1, <2>2, <2>3, <2>5, <3>1, KeptSeek
  <2>6. CASE last.kind # "seek"
    BY <2>1, <2>2, <2>3, <2>6, KeptCommand
  <2> QED BY <2>5, <2>6
<1>12. CASE Advance \/ UNCHANGED schedulerVars
  <2>1. /\ last' = last /\ last.clean /\ layer' = layer /\ playing' = playing
        /\ transport' = transport /\ composite' = composite /\ op' = op /\ work' = work
        /\ transport # "playing" => frame' = frame
    BY <1>12 DEF Advance, schedulerVars
  <2>2. CASE last.kind = "seek"
    <3>1. ASSUME NEW v \in Calls, op[v].kind = "seek" PROVE InStep(v)'
      <4>1. InStep(v)
        BY <2>1, <2>2, <3>1, SeekIsAlone DEF Sought
      <4> QED BY <2>1, <4>1 DEF InStep
    <3> QED BY <2>1, <2>2, <3>1, KeptSeek
  <2>3. CASE last.kind # "seek"
    BY <2>1, <2>3, KeptCommand
  <2> QED BY <2>2, <2>3
<1>13. ASSUME NEW u \in Calls, DriftFound(u) PROVE Obeyed'
  BY <1>1, <1>13 DEF DriftFound, SchedulerTyped
<1>14. ASSUME NEW u \in Calls, NEW f \in Frames, Seek(u, f) PROVE Obeyed'
  BY <1>1, <1>14, FreeFacts DEF Seek
<1> QED
  BY <1>2, <1>3, <1>4, <1>5, <1>6, <1>7, <1>8, <1>9, <1>10, <1>11, <1>12, <1>13, <1>14
     DEF SchedulerNext

-----------------------------------------------------------------------------
(* The inductive invariant holds in every reachable state. *)
THEOREM SchedulerCorrect == SchedulerSpec => []SchedulerIInv
<1>1. SchedulerInit => SchedulerIInv
  BY TypedInit, AskedInit, DisposalInit, BooksInit, ObeyedInit DEF SchedulerIInv
<1>2. SchedulerIInv /\ [SchedulerNext]_schedulerVars => SchedulerIInv'
  BY TypedStep, AskedStep, DisposalStep, BooksStep, ObeyedStep DEF SchedulerIInv
<1> QED BY <1>1, <1>2, PTL DEF SchedulerSpec

(* At rest the preview does what it was last told: a late answer to an      *)
(* overtaken seek never moves the clock, the transport or the composition.  *)
THEOREM LastCommandStands == SchedulerSpec => []LastCommandHolds
<1>1. SchedulerIInv => LastCommandHolds
  <2> SUFFICES ASSUME SchedulerIInv, AtRest, last.clean PROVE Achieved
    BY DEF LastCommandHolds, Achieved
  <2>1. \A u \in Calls : op[u].kind = "none"
    BY FreeFacts DEF AtRest
  <2> QED BY <2>1 DEF SchedulerIInv, Obeyed, Commands
<1> QED BY <1>1, SchedulerCorrect, PTL

(* Operations that do not overlap on the layers fail by the fault of an     *)
(* adapter only, and give every preload slot and every layer back.          *)
THEOREM BooksAreKept == SchedulerSpec => []LayersKeepTheirBooks
<1>1. SchedulerIInv => LayersKeepTheirBooks
  <2> SUFFICES ASSUME SchedulerIInv, ~crowded PROVE LayersKeepTheirBooks
    BY DEF LayersKeepTheirBooks
  <2>1. \A u \in Calls : Stages(u) \cap {"failed", "thrown"} = {}
    BY DEF SchedulerIInv, Books, InStep, Stages
  <2>2. slots = Cardinality({u \in Calls : op[u].kind = "preload"})
    BY DEF SchedulerIInv, Books, Preloads
  <2>3. \A l \in Layers : layer[l] \in {"preloading", "presenting"} =>
          \E u \in Calls : work[u][l] \in Waiting
    BY DEF SchedulerIInv, Books
  <2>4. AtRest => \A l \in Layers : layer[l] \notin {"preloading", "presenting"}
    BY FreeFacts, NobodyAtWork DEF AtRest, SchedulerIInv
  <2> QED BY <2>1, <2>2, <2>3, <2>4 DEF LayersKeepTheirBooks
<1> QED BY <1>1, SchedulerCorrect, PTL
=============================================================================
