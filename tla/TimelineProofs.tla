---------------------------- MODULE TimelineProofs ----------------------------
(* Theorems about the edits of a timeline, for any tracks, clips, links,    *)
(* markers and keyframes, any length and any number of edits.               *)
EXTENDS Timeline, FiniteSetTheorems, SequenceTheorems, WellFoundedInduction, TLAPS
-----------------------------------------------------------------------------
(* The smallest and the largest number of a set.                            *)

LEMMA Extremes ==
  ASSUME NEW S \in SUBSET Int, IsFiniteSet(S), S # {}
  PROVE  (\E x \in S : \A y \in S : x >= y) /\ (\E x \in S : \A y \in S : x =< y)
<1> DEFINE Bounded(T) == (\E x \in T : \A y \in T : x >= y) /\ (\E x \in T : \A y \in T : x =< y)
           Bad == {T \in SUBSET S : T # {} /\ ~Bounded(T)}
<1> SUFFICES Bad = {}
  BY DEF Bounded
<1> SUFFICES ASSUME Bad # {} PROVE FALSE
  OBVIOUS
<1>1. Bad \subseteq FiniteSubsetsOf(S)
  BY FS_Subset DEF FiniteSubsetsOf
<1> HIDE DEF Bad
<1>2. PICK T \in Bad : \A U \in Bad : <<U, T>> \notin StrictSubsetOrdering(S)
  BY <1>1, FS_StrictSubsetOrderingWellFounded, WFMin
<1>3. T \in SUBSET S /\ T # {} /\ ~Bounded(T)
  BY DEF Bad
<1> HIDE DEF Bounded
<1>4. PICK x \in T : TRUE
  BY <1>3
<1>5. CASE T \ {x} = {}
  <2>1. T = {x} /\ x \in Int
    BY <1>3, <1>4, <1>5
  <2> QED
    BY <1>3, <2>1 DEF Bounded
<1>6. CASE T \ {x} # {}
  <2>1. Bounded(T \ {x})
    <3>1. <<T \ {x}, T>> \in StrictSubsetOrdering(S)
      BY <1>3, <1>4 DEF StrictSubsetOrdering
    <3>2. T \ {x} \in SUBSET S
      BY <1>3
    <3> QED
      BY <1>2, <1>6, <3>1, <3>2 DEF Bad
  <2>2. PICK a \in T \ {x}, b \in T \ {x} : \A y \in T \ {x} : a >= y /\ b =< y
    BY <2>1 DEF Bounded
  <2>3. x \in Int /\ a \in Int /\ b \in Int /\ T \subseteq Int
    BY <1>3, <1>4
  <2>4. \E m \in T : \A y \in T : m >= y
    <3>1. CASE a >= x
      BY <2>2, <2>3, <3>1
    <3>2. CASE ~(a >= x)
      <4>1. \A y \in T : x >= y
        BY <2>2, <2>3, <3>2
      <4> QED
        BY <1>4, <4>1
    <3> QED
      BY <3>1, <3>2
  <2>5. \E m \in T : \A y \in T : m =< y
    <3>1. CASE b =< x
      BY <2>2, <2>3, <3>1
    <3>2. CASE ~(b =< x)
      <4>1. \A y \in T : x =< y
        BY <2>2, <2>3, <3>2
      <4> QED
        BY <1>4, <4>1
    <3> QED
      BY <3>1, <3>2
  <2> QED
    BY <1>3, <2>4, <2>5 DEF Bounded
<1> QED
  BY <1>5, <1>6

LEMMA MaxIn ==
  ASSUME NEW S \in SUBSET Int, IsFiniteSet(S), S # {}
  PROVE  Max(S) \in S /\ \A y \in S : Max(S) >= y
  BY Extremes DEF Max

LEMMA MinIn ==
  ASSUME NEW S \in SUBSET Nat, S # {}
  PROVE  Min(S) \in S /\ \A y \in S : Min(S) =< y
<1>1. PICK n \in S : TRUE
  OBVIOUS
<1> DEFINE T == S \cap (0 .. n)
<1>2. T # {} /\ T \in SUBSET Int /\ IsFiniteSet(T)
  <2>1. n \in 0 .. n /\ IsFiniteSet(0 .. n) /\ n \in Nat
    BY <1>1, FS_Interval
  <2>2. T \subseteq 0 .. n
    OBVIOUS
  <2>3. IsFiniteSet(T)
    BY <2>1, <2>2, FS_Subset
  <2> QED
    BY <1>1, <2>1, <2>3
<1>3. PICK x \in T : \A y \in T : x =< y
  BY <1>2, Extremes
<1>4. \A y \in S : x =< y
  BY <1>1, <1>3
<1> QED
  BY <1>3, <1>4 DEF Min
-----------------------------------------------------------------------------
(* Clips.                                                                   *)

LEMMA ClipSet ==
  ASSUME NEW c \in ClipRecords
  PROVE  /\ \A v \in Int :
              /\ [c EXCEPT !.start = v] \in ClipRecords /\ [c EXCEPT !.end = v] \in ClipRecords
              /\ [c EXCEPT !.src = v] \in ClipRecords /\ [c EXCEPT !.srcEnd = v] \in ClipRecords
              /\ [c EXCEPT !.avail = v] \in ClipRecords
         /\ \A w \in BOOLEAN :
              [c EXCEPT !.nested = w] \in ClipRecords /\ [c EXCEPT !.bus = w] \in ClipRecords
         /\ \A t \in Tracks : [c EXCEPT !.track = t] \in ClipRecords
         /\ \A l \in Links \cup {None} : [c EXCEPT !.link = l] \in ClipRecords
  BY DEF ClipRecords

LEMMA ClipTyped ==
  ASSUME NEW c \in ClipRecords
  PROVE  /\ c.start \in Int /\ c.end \in Int /\ c.src \in Int /\ c.srcEnd \in Int
         /\ c.avail \in Int /\ c.track \in Tracks /\ c.nested \in BOOLEAN
         /\ c.bus \in BOOLEAN /\ c.link \in Links \cup {None}
  BY DEF ClipRecords

(* Two clips are the same if their fields are.                              *)
LEMMA SameClip ==
  ASSUME NEW c \in ClipRecords, NEW e \in ClipRecords,
         c.track = e.track, c.start = e.start, c.end = e.end, c.src = e.src,
         c.srcEnd = e.srcEnd, c.avail = e.avail, c.asset = e.asset, c.link = e.link,
         c.nested = e.nested, c.bus = e.bus
  PROVE  c = e
  BY DEF ClipRecords

LEMMA ShiftedClip ==
  ASSUME NEW c \in ClipRecords, NEW d \in Int
  PROVE  /\ Shifted(c, d) \in ClipRecords
         /\ Shifted(c, d).start = c.start + d /\ Shifted(c, d).end = c.end + d
         /\ Shifted(c, d).track = c.track /\ Shifted(c, d).src = c.src
         /\ Shifted(c, d).srcEnd = c.srcEnd /\ Shifted(c, d).avail = c.avail
         /\ Shifted(c, d).asset = c.asset /\ Shifted(c, d).link = c.link
         /\ Shifted(c, d).nested = c.nested /\ Shifted(c, d).bus = c.bus
<1> DEFINE e == [c EXCEPT !.start = c.start + d]
<1>1. e \in ClipRecords /\ e.end = c.end /\ c.end + d \in Int
  BY ClipSet DEF ClipRecords
<1>2. [e EXCEPT !.end = c.end + d] \in ClipRecords
  BY <1>1, ClipSet
<1>3. Shifted(c, d) = [e EXCEPT !.end = c.end + d]
  BY <1>1 DEF Shifted
<1> QED
  BY <1>2, <1>3 DEF ClipRecords

LEMMA SourceAtInt ==
  ASSUME NEW c \in ClipRecords, NEW f \in Int
  PROVE  SourceAt(c, f) \in Int
  BY DEF SourceAt, ClipRecords

LEMMA EndAtClip ==
  ASSUME NEW c \in ClipRecords, NEW f \in Int
  PROVE  /\ EndAt(c, f) \in ClipRecords
         /\ EndAt(c, f).start = c.start /\ EndAt(c, f).end = f
         /\ EndAt(c, f).track = c.track /\ EndAt(c, f).src = c.src
         /\ EndAt(c, f).srcEnd = (IF Still(c) THEN c.srcEnd ELSE c.src + f - c.start)
         /\ EndAt(c, f).avail = c.avail
         /\ EndAt(c, f).asset = c.asset /\ EndAt(c, f).link = c.link
         /\ EndAt(c, f).nested = c.nested /\ EndAt(c, f).bus = c.bus
<1> DEFINE v == IF Still(c) THEN c.srcEnd ELSE SourceAt(c, f)
           e == [c EXCEPT !.end = f]
<1>1. e \in ClipRecords /\ v \in Int
  BY ClipSet, SourceAtInt DEF ClipRecords
<1>2. [e EXCEPT !.srcEnd = v] \in ClipRecords
  BY <1>1, ClipSet
<1>3. EndAt(c, f) = [e EXCEPT !.srcEnd = v]
  BY DEF EndAt
<1>4. v = IF Still(c) THEN c.srcEnd ELSE c.src + f - c.start
  BY DEF SourceAt
<1> HIDE DEF v
<1> QED
  BY <1>1, <1>2, <1>3, <1>4 DEF ClipRecords

LEMMA StartAtClip ==
  ASSUME NEW c \in ClipRecords, NEW f \in Int
  PROVE  /\ StartAt(c, f) \in ClipRecords
         /\ StartAt(c, f).start = f /\ StartAt(c, f).end = c.end
         /\ StartAt(c, f).track = c.track /\ StartAt(c, f).srcEnd = c.srcEnd
         /\ StartAt(c, f).src = (IF Still(c) THEN c.src ELSE c.src + f - c.start)
         /\ StartAt(c, f).avail = c.avail
         /\ StartAt(c, f).asset = c.asset /\ StartAt(c, f).link = c.link
         /\ StartAt(c, f).nested = c.nested /\ StartAt(c, f).bus = c.bus
<1> DEFINE v == SourceAt(c, f)
           e == [c EXCEPT !.start = f]
<1>1. e \in ClipRecords /\ v \in Int
  BY ClipSet, SourceAtInt DEF ClipRecords
<1>2. [e EXCEPT !.src = v] \in ClipRecords
  BY <1>1, ClipSet
<1>3. StartAt(c, f) = [e EXCEPT !.src = v]
  BY DEF StartAt
<1>4. v = IF Still(c) THEN c.src ELSE c.src + f - c.start
  BY DEF SourceAt
<1> HIDE DEF v
<1> QED
  BY <1>1, <1>2, <1>3, <1>4 DEF ClipRecords

LEMMA TrimmedClip ==
  ASSUME NEW c \in ClipRecords, NEW f \in Int, NEW edge \in {"in", "out"},
         NEW ripple \in BOOLEAN
  PROVE  LET e == Trimmed(c, edge, f, ripple) IN
         /\ e \in ClipRecords
         /\ e.track = c.track /\ e.avail = c.avail /\ e.asset = c.asset
         /\ e.link = c.link /\ e.nested = c.nested /\ e.bus = c.bus
         /\ edge = "out" => /\ e.start = c.start /\ e.end = f /\ e.src = c.src
         /\ edge = "in" => /\ e.src = c.src + f - c.start
                           /\ e.start = IF ripple THEN c.start ELSE f
                           /\ e.end = IF ripple THEN c.end - (f - c.start) ELSE c.end
<1>1. CASE edge = "out"
  <2> DEFINE v == c.src + f - c.start
             e == [c EXCEPT !.end = f]
  <2>1. e \in ClipRecords /\ v \in Int
    BY ClipSet DEF ClipRecords
  <2>2. [e EXCEPT !.srcEnd = v] \in ClipRecords
    BY <2>1, ClipSet
  <2>3. Trimmed(c, edge, f, ripple) = [e EXCEPT !.srcEnd = v]
    BY <1>1 DEF Trimmed
  <2> HIDE DEF v
  <2> QED
    BY <1>1, <2>1, <2>2, <2>3 DEF ClipRecords
<1>2. CASE edge = "in"
  <2> DEFINE v == c.src + f - c.start
             a == IF ripple THEN c.start ELSE f
             b == IF ripple THEN c.end - (f - c.start) ELSE c.end
             e == [c EXCEPT !.src = v]
             g == [e EXCEPT !.start = a]
  <2>1. v \in Int /\ a \in Int /\ b \in Int
    BY DEF ClipRecords
  <2>2. edge # "out"
    BY <1>2
  <2>3. Trimmed(c, edge, f, ripple) = [g EXCEPT !.end = b]
    <3>1. e.start = c.start /\ e.end = c.end /\ g.end = c.end
      BY DEF ClipRecords
    <3> QED
      BY <2>2, <3>1 DEF Trimmed
  <2> HIDE DEF v, a, b
  <2>4. e \in ClipRecords
    BY <2>1, ClipSet
  <2>5. g \in ClipRecords
    <3> HIDE DEF e
    <3> QED BY <2>1, <2>4, ClipSet
  <2>6. [g EXCEPT !.end = b] \in ClipRecords
    <3> HIDE DEF g
    <3> QED BY <2>1, <2>5, ClipSet
  <2>7. LET h == [g EXCEPT !.end = b] IN
        /\ h.track = c.track /\ h.avail = c.avail /\ h.asset = c.asset
        /\ h.link = c.link /\ h.nested = c.nested /\ h.bus = c.bus
        /\ h.src = v /\ h.start = a /\ h.end = b
    BY DEF ClipRecords
  <2> QED
    BY <1>2, <2>2, <2>3, <2>6, <2>7 DEF v, a, b
<1> QED
  BY <1>1, <1>2
-----------------------------------------------------------------------------
(* Timelines as records of maps.                                            *)
ClipMaps == UNION {[C -> ClipRecords] : C \in SUBSET Clips}
KeyMaps == UNION {[K -> KeyRecords] : K \in SUBSET Keys}
MarkMaps == UNION {[M -> Int] : M \in SUBSET Marks}
InOuts == [start : Int, end : Int] \cup {None}
Timelines ==
  [tracks : Seq(Tracks), locked : SUBSET Tracks, routed : SUBSET Tracks, duration : Int,
   clips : ClipMaps, keys : KeyMaps, marks : MarkMaps, inOut : InOuts]

LEMMA ClipMap ==
  ASSUME NEW C \in SUBSET Clips, NEW c \in [C -> ClipRecords]
  PROVE  c \in ClipMaps
  BY DEF ClipMaps

LEMMA ClipMapFacts ==
  ASSUME NEW c \in ClipMaps
  PROVE  /\ DOMAIN c \subseteq Clips /\ c \in [DOMAIN c -> ClipRecords]
         /\ \A i \in DOMAIN c : c[i] \in ClipRecords
<1>1. PICK C \in SUBSET Clips : c \in [C -> ClipRecords]
  BY DEF ClipMaps
<1> QED
  BY <1>1

LEMMA KeyMap ==
  ASSUME NEW K \in SUBSET Keys, NEW k \in [K -> KeyRecords]
  PROVE  k \in KeyMaps
  BY DEF KeyMaps

LEMMA KeyMapFacts ==
  ASSUME NEW k \in KeyMaps
  PROVE  /\ DOMAIN k \subseteq Keys /\ k \in [DOMAIN k -> KeyRecords]
         /\ \A i \in DOMAIN k : /\ k[i] \in KeyRecords
                                /\ k[i].owner \in Clips /\ k[i].frame \in Int
<1>1. PICK K \in SUBSET Keys : k \in [K -> KeyRecords]
  BY DEF KeyMaps
<1> QED
  BY <1>1 DEF KeyRecords

LEMMA MarkMap ==
  ASSUME NEW M \in SUBSET Marks, NEW m \in [M -> Int]
  PROVE  m \in MarkMaps
  BY DEF MarkMaps

LEMMA MarkMapFacts ==
  ASSUME NEW m \in MarkMaps
  PROVE  /\ DOMAIN m \subseteq Marks /\ m \in [DOMAIN m -> Int]
         /\ \A i \in DOMAIN m : m[i] \in Int
<1>1. PICK M \in SUBSET Marks : m \in [M -> Int]
  BY DEF MarkMaps
<1> QED
  BY <1>1

LEMMA TimelineIs ==
  ASSUME NEW s
  PROVE  IsTimeline(s) <=> /\ s \in Timelines /\ IsFiniteSet(DOMAIN s.clips)
                           /\ s.locked \subseteq TrackSet(s)
<1> DEFINE T == [tracks : Seq(Tracks), locked : SUBSET Tracks, routed : SUBSET Tracks,
            duration : Int, clips : [DOMAIN s.clips -> ClipRecords],
            keys : [DOMAIN s.keys -> KeyRecords], marks : [DOMAIN s.marks -> Int],
            inOut : [start : Int, end : Int] \cup {None}]
<1>1. ASSUME IsTimeline(s) PROVE s \in Timelines
  <2>1. s \in T /\ DOMAIN s.clips \subseteq Clips /\ DOMAIN s.keys \subseteq Keys
           /\ DOMAIN s.marks \subseteq Marks
    BY <1>1 DEF IsTimeline
  <2>2. s.clips \in ClipMaps /\ s.keys \in KeyMaps /\ s.marks \in MarkMaps
    BY <2>1, ClipMap, KeyMap, MarkMap
  <2> QED
    BY <2>1, <2>2 DEF Timelines, InOuts
<1>2. ASSUME s \in Timelines
      PROVE  s \in T /\ DOMAIN s.clips \subseteq Clips /\ DOMAIN s.keys \subseteq Keys
               /\ DOMAIN s.marks \subseteq Marks
  <2>1. s.clips \in ClipMaps /\ s.keys \in KeyMaps /\ s.marks \in MarkMaps
    BY <1>2 DEF Timelines
  <2>2. /\ s.clips \in [DOMAIN s.clips -> ClipRecords]
        /\ s.keys \in [DOMAIN s.keys -> KeyRecords]
        /\ s.marks \in [DOMAIN s.marks -> Int]
        /\ DOMAIN s.clips \subseteq Clips /\ DOMAIN s.keys \subseteq Keys
        /\ DOMAIN s.marks \subseteq Marks
    BY <2>1, ClipMapFacts, KeyMapFacts, MarkMapFacts
  <2> QED
    BY <1>2, <2>2 DEF Timelines, InOuts
<1> QED
  BY <1>1, <1>2 DEF IsTimeline

LEMMA TimelineTyped ==
  ASSUME NEW s \in Timelines
  PROVE  /\ s.tracks \in Seq(Tracks) /\ s.locked \subseteq Tracks /\ s.routed \subseteq Tracks
         /\ s.duration \in Int /\ s.clips \in ClipMaps /\ s.keys \in KeyMaps
         /\ s.marks \in MarkMaps /\ s.inOut \in InOuts
  BY DEF Timelines

(* A timeline with one of its parts replaced.                               *)
LEMMA TimelineSet ==
  ASSUME NEW s \in Timelines
  PROVE  /\ \A x \in Seq(Tracks) : [s EXCEPT !.tracks = x] \in Timelines
         /\ \A x \in SUBSET Tracks : /\ [s EXCEPT !.locked = x] \in Timelines
                                     /\ [s EXCEPT !.routed = x] \in Timelines
         /\ \A x \in Int : [s EXCEPT !.duration = x] \in Timelines
         /\ \A x \in ClipMaps : [s EXCEPT !.clips = x] \in Timelines
         /\ \A x \in KeyMaps : [s EXCEPT !.keys = x] \in Timelines
         /\ \A x \in MarkMaps : [s EXCEPT !.marks = x] \in Timelines
         /\ \A x \in InOuts : [s EXCEPT !.inOut = x] \in Timelines
  BY DEF Timelines

(* What replacing a part does to the others.                                *)
Others(r, s) == /\ r.tracks = s.tracks /\ r.locked = s.locked /\ r.routed = s.routed
                /\ r.inOut = s.inOut

LEMMA ClipsReplaced ==
  ASSUME NEW s \in Timelines, NEW x \in ClipMaps
  PROVE  /\ [s EXCEPT !.clips = x] \in Timelines /\ Others([s EXCEPT !.clips = x], s)
         /\ [s EXCEPT !.clips = x].clips = x /\ [s EXCEPT !.clips = x].keys = s.keys
         /\ [s EXCEPT !.clips = x].marks = s.marks
         /\ [s EXCEPT !.clips = x].duration = s.duration
  BY DEF Timelines, Others

LEMMA KeysReplaced ==
  ASSUME NEW s \in Timelines, NEW x \in KeyMaps
  PROVE  /\ [s EXCEPT !.keys = x] \in Timelines /\ Others([s EXCEPT !.keys = x], s)
         /\ [s EXCEPT !.keys = x].clips = s.clips /\ [s EXCEPT !.keys = x].keys = x
         /\ [s EXCEPT !.keys = x].marks = s.marks
         /\ [s EXCEPT !.keys = x].duration = s.duration
  BY DEF Timelines, Others

LEMMA MarksReplaced ==
  ASSUME NEW s \in Timelines, NEW x \in MarkMaps
  PROVE  /\ [s EXCEPT !.marks = x] \in Timelines /\ Others([s EXCEPT !.marks = x], s)
         /\ [s EXCEPT !.marks = x].clips = s.clips /\ [s EXCEPT !.marks = x].keys = s.keys
         /\ [s EXCEPT !.marks = x].marks = x
         /\ [s EXCEPT !.marks = x].duration = s.duration
  BY DEF Timelines, Others

LEMMA DurationReplaced ==
  ASSUME NEW s \in Timelines, NEW x \in Int
  PROVE  /\ [s EXCEPT !.duration = x] \in Timelines /\ Others([s EXCEPT !.duration = x], s)
         /\ [s EXCEPT !.duration = x].clips = s.clips /\ [s EXCEPT !.duration = x].keys = s.keys
         /\ [s EXCEPT !.duration = x].marks = s.marks
         /\ [s EXCEPT !.duration = x].duration = x
  BY DEF Timelines, Others
-----------------------------------------------------------------------------
(* The length of a timeline.                                                *)

LEMMA EndsFinite ==
  ASSUME NEW s \in Timelines, IsFiniteSet(DOMAIN s.clips)
  PROVE  Ends(s) \in SUBSET Int /\ IsFiniteSet(Ends(s)) /\ Ends(s) # {}
<1> DEFINE E == {s.clips[i].end : i \in DOMAIN s.clips}
<1>1. \A i \in DOMAIN s.clips : s.clips[i].end \in Int
  BY TimelineTyped, ClipMapFacts, ClipTyped
<1>2. IsFiniteSet(E)
  <2> DEFINE g == [i \in DOMAIN s.clips |-> s.clips[i].end]
  <2>1. g \in Surjection(DOMAIN s.clips, E)
    BY DEF Surjection
  <2> QED
    BY <2>1, FS_Surjection
<1>3. IsFiniteSet(Ends(s))
  BY <1>2, FS_AddElement DEF Ends
<1> QED
  BY <1>1, <1>3 DEF Ends

LEMMA Finalized ==
  ASSUME NEW s \in Timelines, IsFiniteSet(DOMAIN s.clips)
  PROVE  /\ Finalize(s) \in Timelines /\ Others(Finalize(s), s)
         /\ Finalize(s).clips = s.clips /\ Finalize(s).keys = s.keys
         /\ Finalize(s).marks = s.marks
<1>1. s.duration \in Int
  BY TimelineTyped
<1> DEFINE E == Ends(s) \cup {s.duration}
<1>2. Max(E) \in Int
  <2>1. IsFiniteSet(E) /\ E \in SUBSET Int /\ E # {}
    BY <1>1, EndsFinite, FS_AddElement
  <2> HIDE DEF E
  <2> QED
    BY <2>1, MaxIn
<1> HIDE DEF E
<1>3. Finalize(s) = [s EXCEPT !.duration = Max(E)]
  BY DEF Finalize, E
<1> QED
  BY <1>2, <1>3, DurationReplaced

LEMMA Fitted ==
  ASSUME NEW s \in Timelines, IsFiniteSet(DOMAIN s.clips)
  PROVE  /\ Fit(s) \in Timelines /\ Others(Fit(s), s)
         /\ Fit(s).clips = s.clips /\ Fit(s).keys = s.keys
         /\ Fit(s).marks = s.marks
<1>1. Max(Ends(s)) \in Int
  BY EndsFinite, MaxIn
<1> QED
  BY <1>1, DurationReplaced DEF Fit
-----------------------------------------------------------------------------
(* What the operations on timelines return.                                 *)

(* What r is to s when its clips have moved by by.                          *)
IsShifted(r, s, by) ==
  /\ r \in Timelines /\ Others(r, s)
  /\ r.marks = s.marks /\ r.duration = s.duration
  /\ DOMAIN r.clips = DOMAIN s.clips /\ DOMAIN r.keys = DOMAIN s.keys
  /\ \A i \in DOMAIN s.clips :
       r.clips[i] = IF i \in DOMAIN by THEN Shifted(s.clips[i], by[i]) ELSE s.clips[i]
  /\ \A k \in DOMAIN s.keys :
       /\ r.keys[k].owner = s.keys[k].owner
       /\ r.keys[k].frame = IF s.keys[k].owner \in DOMAIN by
                            THEN s.keys[k].frame + by[s.keys[k].owner]
                            ELSE s.keys[k].frame

LEMMA ShiftedTimeline ==
  ASSUME NEW s \in Timelines, NEW by, \A i \in DOMAIN by : by[i] \in Int
  PROVE  IsShifted(ShiftClips(s, by), s, by)
<1> DEFINE C == [i \in DOMAIN s.clips |->
                   IF i \in DOMAIN by THEN Shifted(s.clips[i], by[i]) ELSE s.clips[i]]
           K == [k \in DOMAIN s.keys |->
                   IF s.keys[k].owner \in DOMAIN by
                   THEN [s.keys[k] EXCEPT !.frame = s.keys[k].frame + by[s.keys[k].owner]]
                   ELSE s.keys[k]]
           e == [s EXCEPT !.clips = C]
<1>1. C \in ClipMaps
  <2>1. DOMAIN s.clips \in SUBSET Clips /\ \A i \in DOMAIN s.clips : s.clips[i] \in ClipRecords
    BY TimelineTyped, ClipMapFacts
  <2>2. C \in [DOMAIN s.clips -> ClipRecords]
    BY <2>1, ShiftedClip
  <2> QED
    BY <2>1, <2>2, ClipMap
<1>2. \A k \in DOMAIN s.keys : s.keys[k] \in KeyRecords /\ s.keys[k].frame \in Int
  BY TimelineTyped, KeyMapFacts
<1>3. K \in KeyMaps
  <2>1. DOMAIN s.keys \in SUBSET Keys
    BY TimelineTyped, KeyMapFacts
  <2>2. ASSUME NEW k \in DOMAIN s.keys PROVE K[k] \in KeyRecords
    <3>1. CASE s.keys[k].owner \in DOMAIN by
      <4>1. s.keys[k].frame + by[s.keys[k].owner] \in Int
        BY <1>2, <3>1
      <4> QED
        BY <1>2, <3>1, <4>1 DEF KeyRecords
    <3> QED
      BY <1>2, <3>1
  <2> HIDE DEF K
  <2>3. K \in [DOMAIN s.keys -> KeyRecords]
    <3>1. K = [k \in DOMAIN s.keys |-> K[k]]
      BY DEF K
    <3> QED
      BY <2>2, <3>1
  <2> QED
    BY <2>1, <2>3, KeyMap
<1>4. ShiftClips(s, by) = [e EXCEPT !.keys = K]
  BY DEF ShiftClips
<1>5. \A k \in DOMAIN s.keys :
        /\ K[k].owner = s.keys[k].owner
        /\ K[k].frame = IF s.keys[k].owner \in DOMAIN by
                        THEN s.keys[k].frame + by[s.keys[k].owner]
                        ELSE s.keys[k].frame
  BY <1>2 DEF KeyRecords
<1>6. DOMAIN C = DOMAIN s.clips /\ DOMAIN K = DOMAIN s.keys
  OBVIOUS
<1>7. \A i \in DOMAIN s.clips :
        C[i] = IF i \in DOMAIN by THEN Shifted(s.clips[i], by[i]) ELSE s.clips[i]
  OBVIOUS
<1> HIDE DEF C, K
<1>8. /\ e \in Timelines /\ Others(e, s) /\ e.clips = C /\ e.marks = s.marks
      /\ e.duration = s.duration
  BY <1>1, ClipsReplaced
<1> HIDE DEF e
<1>9. LET r == [e EXCEPT !.keys = K] IN
      /\ r \in Timelines /\ Others(r, e) /\ r.clips = e.clips /\ r.keys = K
      /\ r.marks = e.marks /\ r.duration = e.duration
  BY <1>3, <1>8, KeysReplaced
<1> QED
  BY <1>4, <1>5, <1>6, <1>7, <1>8, <1>9 DEF Others, IsShifted

(* What r is to s without the clips of S.                                   *)
IsRemoved(r, s, S) ==
  /\ r \in Timelines /\ Others(r, s)
  /\ r.marks = s.marks /\ r.duration = s.duration
  /\ DOMAIN r.clips = DOMAIN s.clips \ S
  /\ DOMAIN r.keys = {k \in DOMAIN s.keys : s.keys[k].owner \notin S}
  /\ \A i \in DOMAIN s.clips \ S : r.clips[i] = s.clips[i]
  /\ \A k \in DOMAIN r.keys : r.keys[k] = s.keys[k]

LEMMA RemovedTimeline ==
  ASSUME NEW s \in Timelines, NEW S
  PROVE  IsRemoved(RemoveClips(s, S), s, S)
<1> DEFINE C == [i \in DOMAIN s.clips \ S |-> s.clips[i]]
           D == {k \in DOMAIN s.keys : s.keys[k].owner \notin S}
           K == [k \in D |-> s.keys[k]]
           e == [s EXCEPT !.clips = C]
<1>1. C \in ClipMaps
  <2>1. DOMAIN s.clips \in SUBSET Clips /\ \A i \in DOMAIN s.clips : s.clips[i] \in ClipRecords
    BY TimelineTyped, ClipMapFacts
  <2>2. C \in [DOMAIN s.clips \ S -> ClipRecords]
    BY <2>1
  <2>3. DOMAIN s.clips \ S \in SUBSET Clips
    BY <2>1
  <2> QED
    BY <2>2, <2>3, ClipMap
<1>2. K \in KeyMaps
  <2>1. DOMAIN s.keys \in SUBSET Keys /\ \A k \in DOMAIN s.keys : s.keys[k] \in KeyRecords
    BY TimelineTyped, KeyMapFacts
  <2>2. K \in [D -> KeyRecords] /\ D \in SUBSET Keys
    BY <2>1
  <2> QED
    BY <2>2, KeyMap
<1>3. RemoveClips(s, S) = [e EXCEPT !.keys = K]
  BY DEF RemoveClips, Restrict
<1>4. /\ DOMAIN C = DOMAIN s.clips \ S /\ DOMAIN K = D
      /\ \A i \in DOMAIN s.clips \ S : C[i] = s.clips[i]
      /\ \A k \in D : K[k] = s.keys[k]
  OBVIOUS
<1> HIDE DEF C, K
<1>5. /\ e \in Timelines /\ Others(e, s) /\ e.clips = C /\ e.marks = s.marks
      /\ e.duration = s.duration
  BY <1>1, ClipsReplaced
<1> HIDE DEF e
<1>6. LET r == [e EXCEPT !.keys = K] IN
      /\ r \in Timelines /\ Others(r, e) /\ r.clips = e.clips /\ r.keys = K
      /\ r.marks = e.marks /\ r.duration = e.duration
  BY <1>2, <1>5, KeysReplaced
<1> QED
  BY <1>3, <1>4, <1>5, <1>6 DEF Others, IsRemoved

(* What r is to s when clip i is c.                                         *)
IsExtended(r, s, i, c) ==
  /\ r \in Timelines /\ Others(r, s) /\ r.keys = s.keys
  /\ r.marks = s.marks /\ r.duration = s.duration
  /\ DOMAIN r.clips = DOMAIN s.clips \cup {i}
  /\ r.clips[i] = c
  /\ \A j \in DOMAIN s.clips \ {i} : r.clips[j] = s.clips[j]

LEMMA ExtendedTimeline ==
  ASSUME NEW s \in Timelines, NEW i \in Clips, NEW c \in ClipRecords
  PROVE  IsExtended(With(s, i, c), s, i, c)
<1> DEFINE C == Put(s.clips, i, c)
<1>1. /\ DOMAIN C = DOMAIN s.clips \cup {i} /\ C[i] = c
      /\ \A j \in DOMAIN s.clips \ {i} : C[j] = s.clips[j]
      /\ C = [j \in DOMAIN C |-> C[j]]
  BY DEF Put
<1>2. C \in ClipMaps
  <2> HIDE DEF C
  <2>1. DOMAIN s.clips \in SUBSET Clips /\ \A j \in DOMAIN s.clips : s.clips[j] \in ClipRecords
    BY TimelineTyped, ClipMapFacts
  <2>2. DOMAIN C \in SUBSET Clips
    BY <1>1, <2>1
  <2>3. C \in [DOMAIN C -> ClipRecords]
    BY <1>1, <2>1
  <2> QED
    BY <2>2, <2>3, ClipMap
<1> HIDE DEF C
<1> QED
  BY <1>1, <1>2, ClipsReplaced DEF With, C, IsExtended

(* The clips of a timeline changed one by one.                              *)
LEMMA ChangedClips ==
  ASSUME NEW s \in Timelines, NEW C, C = [i \in DOMAIN s.clips |-> C[i]],
         \A i \in DOMAIN s.clips : C[i] \in ClipRecords
  PROVE  LET r == [s EXCEPT !.clips = C] IN
         /\ r \in Timelines /\ Others(r, s) /\ r.keys = s.keys
         /\ r.marks = s.marks /\ r.duration = s.duration
         /\ r.clips = C /\ DOMAIN r.clips = DOMAIN s.clips
<1>1. DOMAIN s.clips \in SUBSET Clips
  BY TimelineTyped, ClipMapFacts
<1>2. C \in [DOMAIN s.clips -> ClipRecords]
  OBVIOUS
<1>3. DOMAIN C = DOMAIN s.clips
  OBVIOUS
<1> QED
  BY <1>1, <1>2, <1>3, ClipMap, ClipsReplaced
-----------------------------------------------------------------------------
(* What a document reads as.                                                *)

LEMMA ReadTimeline ==
  ASSUME NEW d \in Timelines
  PROVE  /\ Read(d) \in Timelines
         /\ Read(d).tracks = d.tracks /\ Read(d).locked = d.locked
         /\ Read(d).inOut = d.inOut /\ Read(d).duration = d.duration
         /\ Read(d).clips = d.clips /\ Read(d).keys = d.keys /\ Read(d).marks = d.marks
         /\ Read(d).routed = {t \in TrackSet(d) : \E i \in On(d, t) : d.clips[i].bus}
<1> DEFINE R == {t \in TrackSet(d) : \E i \in On(d, t) : d.clips[i].bus}
<1>1. R \in SUBSET Tracks
  <2>1. d.tracks \in Seq(Tracks)
    BY TimelineTyped
  <2>2. TrackSet(d) \subseteq Tracks
    BY <2>1 DEF TrackSet, Range
  <2> QED
    BY <2>2
<1>2. Read(d) = [d EXCEPT !.routed = R]
  BY DEF Read
<1> HIDE DEF R
<1>3. Read(d) \in Timelines
  BY <1>1, <1>2, TimelineSet
<1>4. LET r == [d EXCEPT !.routed = R] IN
      /\ r.tracks = d.tracks /\ r.locked = d.locked
      /\ r.inOut = d.inOut /\ r.duration = d.duration
      /\ r.clips = d.clips /\ r.keys = d.keys /\ r.marks = d.marks
      /\ r.routed = R
  BY DEF Timelines
<1> QED
  BY <1>2, <1>3, <1>4 DEF R

LEMMA NowIs ==
  ASSUME IsDocument(doc)
  PROVE  /\ now \in Timelines /\ doc \in Timelines
         /\ now.tracks = doc.tracks /\ now.locked = doc.locked
         /\ now.inOut = doc.inOut /\ now.duration = doc.duration
         /\ now.clips = doc.clips /\ now.keys = doc.keys /\ now.marks = doc.marks
         /\ now.routed = {t \in TrackSet(doc) : \E i \in On(doc, t) : doc.clips[i].bus}
         /\ TrackSet(now) = TrackSet(doc) /\ doc.locked \subseteq TrackSet(doc)
         /\ \A t : On(now, t) = On(doc, t)
         /\ IsFiniteSet(DOMAIN doc.clips)
         /\ IsTimeline(now)
<1>1. doc \in Timelines /\ IsFiniteSet(DOMAIN doc.clips) /\ doc.locked \subseteq TrackSet(doc)
  BY TimelineIs DEF IsDocument
<1>2. TrackSet(now) = TrackSet(doc) /\ \A t : On(now, t) = On(doc, t)
  BY <1>1, ReadTimeline DEF TrackSet, On, now
<1>3. IsTimeline(now)
  BY <1>1, <1>2, ReadTimeline, TimelineIs DEF now
<1> QED
  BY <1>1, <1>2, <1>3, ReadTimeline DEF now

(* A document that can be edited.                                           *)
Ready == IsDocument(doc) /\ Valid(now)

LEMMA DocClip ==
  ASSUME IsDocument(doc), NEW i \in DOMAIN doc.clips
  PROVE  /\ i \in Clips /\ i \in Nat
         /\ doc.clips[i] \in ClipRecords
         /\ doc.clips[i].avail = doc.clips[i].srcEnd /\ ~doc.clips[i].nested
<1>1. doc.clips \in ClipMaps
  BY TimelineTyped, NowIs
<1> QED
  BY <1>1, ClipMapFacts, TimelineAssumption DEF IsDocument

LEMMA DocKey ==
  ASSUME IsDocument(doc), NEW k \in DOMAIN doc.keys
  PROVE  k \in Keys /\ doc.keys[k] \in KeyRecords
         /\ doc.keys[k].owner \in Clips /\ doc.keys[k].frame \in Int
<1>1. doc.keys \in KeyMaps
  BY TimelineTyped, NowIs
<1> QED
  BY <1>1, KeyMapFacts

LEMMA ReadyClip ==
  ASSUME Ready, NEW i \in DOMAIN doc.clips
  PROVE  /\ doc.clips[i].track \in TrackSet(doc)
         /\ 0 <= doc.clips[i].start /\ doc.clips[i].start < doc.clips[i].end
         /\ doc.clips[i].end <= doc.duration
         /\ 0 <= doc.clips[i].src /\ doc.clips[i].src < doc.clips[i].srcEnd
         /\ doc.clips[i].asset # None
         /\ \A j \in On(doc, doc.clips[i].track) \ {i} :
              Overlap(doc.clips[i], doc.clips[j]) => doc.clips[i].track \in AudioTracks
<1>1. IsDocument(doc) /\ now.clips = doc.clips /\ TrackSet(now) = TrackSet(doc)
      /\ now.duration = doc.duration
  BY NowIs DEF Ready
<1>2. ValidClip(now, doc.clips[i]) /\ ValidPlacement(now, i)
  BY <1>1 DEF Ready, Valid
<1>3. On(now, doc.clips[i].track) = On(doc, doc.clips[i].track)
  BY <1>1, NowIs
<1>4. \A j \in On(doc, doc.clips[i].track) \ {i} :
              Overlap(doc.clips[i], doc.clips[j]) => doc.clips[i].track \in AudioTracks
  BY <1>1, <1>2, <1>3 DEF ValidPlacement
<1>5. ~doc.clips[i].nested
  BY <1>1, DocClip
<1> QED
  BY <1>1, <1>2, <1>4, <1>5 DEF ValidClip

LEMMA ReadyBus ==
  ASSUME Ready, NEW i \in DOMAIN doc.clips
  PROVE  /\ doc.clips[i].bus <=> doc.clips[i].track \in AudioTracks
         /\ doc.clips[i].track \in now.routed <=> doc.clips[i].track \in AudioTracks
<1>1. IsDocument(doc) /\ TrackSet(now) = TrackSet(doc)
  BY NowIs DEF Ready
<1>2. doc.clips[i].track \in TrackSet(doc)
  BY ReadyClip
<1>3. doc.clips[i].track \in AudioTracks <=> doc.clips[i].track \in now.routed
  BY <1>1, <1>2 DEF Ready, Valid, ValidTracks
<1>4. doc.clips[i].bus => doc.clips[i].track \in now.routed
  BY <1>1, <1>2, NowIs DEF On
<1> QED
  BY <1>1, <1>3, <1>4 DEF IsDocument

LEMMA ReadyMark ==
  ASSUME Ready, NEW m \in DOMAIN doc.marks
  PROVE  doc.marks[m] \in Int /\ 0 <= doc.marks[m] /\ doc.marks[m] <= doc.duration
<1>1. now.marks = doc.marks /\ now.duration = doc.duration /\ doc.duration \in Int
  BY NowIs, TimelineTyped DEF Ready
<1>2. doc.marks[m] \in 0 .. doc.duration
  BY <1>1 DEF Ready, Valid, ValidMarks
<1> QED
  BY <1>1, <1>2

LEMMA ReadyKey ==
  ASSUME Ready, NEW k \in DOMAIN doc.keys
  PROVE  /\ doc.keys[k].owner \in DOMAIN doc.clips
         /\ doc.clips[doc.keys[k].owner].start <= doc.keys[k].frame
         /\ doc.keys[k].frame < doc.clips[doc.keys[k].owner].end
<1>1. now.keys = doc.keys /\ now.clips = doc.clips
  BY NowIs DEF Ready
<1>2. /\ doc.keys[k].owner \in DOMAIN doc.clips
      /\ doc.keys[k].frame \in ShownOn(doc.clips[doc.keys[k].owner])
  BY <1>1 DEF Ready, Valid, ValidKeys
<1>3. doc.clips[doc.keys[k].owner] \in ClipRecords
  BY <1>2, DocClip DEF Ready
<1> QED
  BY <1>2, <1>3, ClipTyped DEF ShownOn

LEMMA ReadyBounds ==
  ASSUME Ready
  PROVE  doc.duration \in Int /\ doc.duration <= MaxFrame /\ MaxFrame \in Int
         /\ IsInjective(doc.tracks)
<1>1. IsInjective(now.tracks) /\ now.tracks = doc.tracks
  BY NowIs DEF Ready, Valid, ValidTracks
<1> QED
  BY <1>1, NowIs, TimelineTyped, TimelineAssumption DEF Ready, IsDocument
-----------------------------------------------------------------------------
(* What is written.                                                         *)

Rewritten(c, b) == [c EXCEPT !.bus = b, !.avail = c.srcEnd, !.nested = FALSE]

LEMMA WrittenClip ==
  ASSUME NEW c \in ClipRecords, NEW b \in BOOLEAN
  PROVE  LET e == Rewritten(c, b) IN
         /\ e \in ClipRecords
         /\ e.track = c.track /\ e.start = c.start /\ e.end = c.end /\ e.src = c.src
         /\ e.srcEnd = c.srcEnd /\ e.asset = c.asset /\ e.link = c.link
         /\ e.bus = b /\ e.avail = c.srcEnd /\ e.nested = FALSE
<1> DEFINE g == [c EXCEPT !.bus = b]
           h == [g EXCEPT !.avail = c.srcEnd]
<1>1. g \in ClipRecords /\ c.srcEnd \in Int
  BY ClipSet, ClipTyped
<1>2. h \in ClipRecords
  <2> HIDE DEF g
  <2> QED BY <1>1, ClipSet
<1>3. [h EXCEPT !.nested = FALSE] \in ClipRecords
  <2> HIDE DEF h
  <2> QED BY <1>2, ClipSet
<1>4. Rewritten(c, b) = [h EXCEPT !.nested = FALSE]
  BY DEF Rewritten
<1> QED
  BY <1>3, <1>4 DEF ClipRecords

LEMMA WrittenTimeline ==
  ASSUME NEW s, IsTimeline(s)
  PROVE  /\ IsTimeline(Write(s))
         /\ Write(s).tracks = s.tracks /\ Write(s).locked = s.locked
         /\ Write(s).inOut = s.inOut /\ Write(s).duration = s.duration
         /\ Write(s).keys = s.keys /\ Write(s).marks = s.marks
         /\ Write(s).routed = {} /\ DOMAIN Write(s).clips = DOMAIN s.clips
         /\ \A i \in DOMAIN s.clips :
              LET c == s.clips[i]
                  e == Write(s).clips[i]
              IN /\ c \in ClipRecords /\ e \in ClipRecords
                 /\ e.track = c.track /\ e.start = c.start /\ e.end = c.end
                 /\ e.src = c.src /\ e.srcEnd = c.srcEnd /\ e.asset = c.asset
                 /\ e.link = c.link /\ e.avail = c.srcEnd /\ e.nested = FALSE
                 /\ e.bus = (c.bus \/ c.track \in s.routed)
<1> DEFINE C == [i \in DOMAIN s.clips |->
                  [s.clips[i] EXCEPT !.bus = s.clips[i].bus \/ s.clips[i].track \in s.routed,
                                     !.avail = s.clips[i].srcEnd,
                                     !.nested = FALSE]]
           e == [s EXCEPT !.routed = {}]
<1>1. s \in Timelines /\ IsFiniteSet(DOMAIN s.clips) /\ s.locked \subseteq TrackSet(s)
  BY TimelineIs
<1>2. \A i \in DOMAIN s.clips : s.clips[i] \in ClipRecords
  BY <1>1, TimelineTyped, ClipMapFacts
<1>3. \A i \in DOMAIN s.clips :
        LET c == s.clips[i]
        IN /\ C[i] \in ClipRecords
           /\ C[i].track = c.track /\ C[i].start = c.start /\ C[i].end = c.end
           /\ C[i].src = c.src /\ C[i].srcEnd = c.srcEnd /\ C[i].asset = c.asset
           /\ C[i].link = c.link /\ C[i].avail = c.srcEnd /\ C[i].nested = FALSE
           /\ C[i].bus = (c.bus \/ c.track \in s.routed)
  <2> TAKE i \in DOMAIN s.clips
  <2> DEFINE b == s.clips[i].bus \/ s.clips[i].track \in s.routed
  <2>1. b \in BOOLEAN
    OBVIOUS
  <2>2. C[i] = [s.clips[i] EXCEPT !.bus = b, !.avail = s.clips[i].srcEnd, !.nested = FALSE]
    OBVIOUS
  <2> HIDE DEF b, C
  <2>4. s.clips[i] \in ClipRecords
    BY <1>2
  <2> DEFINE w == Rewritten(s.clips[i], b)
  <2>5. LET c == s.clips[i] IN
           /\ w \in ClipRecords
           /\ w.track = c.track /\ w.start = c.start /\ w.end = c.end
           /\ w.src = c.src /\ w.srcEnd = c.srcEnd /\ w.asset = c.asset
           /\ w.link = c.link /\ w.avail = c.srcEnd /\ w.nested = FALSE
           /\ w.bus = b
    BY <2>1, <2>4, WrittenClip
  <2>6. C[i] = w
    BY <2>2 DEF Rewritten
  <2> HIDE DEF w
  <2>3. LET c == s.clips[i] IN
           /\ C[i] \in ClipRecords
           /\ C[i].track = c.track /\ C[i].start = c.start /\ C[i].end = c.end
           /\ C[i].src = c.src /\ C[i].srcEnd = c.srcEnd /\ C[i].asset = c.asset
           /\ C[i].link = c.link /\ C[i].avail = c.srcEnd /\ C[i].nested = FALSE
           /\ C[i].bus = b
    BY <2>5, <2>6
  <2> QED
    BY <2>3 DEF b
<1>4. C = [i \in DOMAIN s.clips |-> C[i]] /\ DOMAIN C = DOMAIN s.clips
  OBVIOUS
<1>5. Write(s) = [e EXCEPT !.clips = C]
  BY DEF Write
<1> HIDE DEF C
<1>6. e \in Timelines
  BY <1>1, TimelineSet
<1>7. /\ e.tracks = s.tracks /\ e.locked = s.locked /\ e.inOut = s.inOut
      /\ e.duration = s.duration /\ e.keys = s.keys /\ e.marks = s.marks
      /\ e.routed = {} /\ e.clips = s.clips
  BY <1>1 DEF Timelines
<1> HIDE DEF e
<1>8. LET r == [e EXCEPT !.clips = C] IN
         /\ r \in Timelines /\ Others(r, e) /\ r.keys = e.keys
         /\ r.marks = e.marks /\ r.duration = e.duration
         /\ r.clips = C /\ DOMAIN r.clips = DOMAIN e.clips
  BY <1>3, <1>4, <1>6, <1>7, ChangedClips
<1>9. TrackSet(Write(s)) = TrackSet(s)
  BY <1>5, <1>7, <1>8 DEF TrackSet, Others
<1>10. IsTimeline(Write(s))
  BY <1>1, <1>5, <1>7, <1>8, <1>9, TimelineIs DEF Others
<1> QED
  BY <1>2, <1>3, <1>4, <1>5, <1>7, <1>8, <1>10 DEF Others
-----------------------------------------------------------------------------
(* What an accepted command leaves behind, in terms of the snapshot it ends *)
(* in.                                                                      *)

(* Clips that differ at most in their link.                                 *)
Matches(c, e) ==
  /\ c.track = e.track /\ c.start = e.start /\ c.end = e.end /\ c.src = e.src
  /\ c.srcEnd = e.srcEnd /\ c.avail = e.avail /\ c.asset = e.asset
  /\ c.nested = e.nested /\ c.bus = e.bus

(* Snapshot s has the clips of the locked tracks as they were.              *)
Respects(s) ==
  /\ \A i \in DOMAIN doc.clips :
       doc.clips[i].track \in doc.locked =>
         i \in DOMAIN s.clips /\ Matches(s.clips[i], doc.clips[i])
  /\ \A i \in DOMAIN s.clips :
       s.clips[i].track \in doc.locked =>
         i \in DOMAIN doc.clips /\ doc.clips[i].track \in doc.locked

(* Each keyframe is on the frame of its asset it was on.                    *)
Anchored(s) ==
  \A k \in DOMAIN doc.keys \cap DOMAIN s.keys :
    LET c == doc.clips[doc.keys[k].owner]
        e == s.clips[s.keys[k].owner]
    IN Still(c) \/ Still(e) \/
         SourceAt(c, doc.keys[k].frame) = SourceAt(e, s.keys[k].frame)

(* A command that is accepted with a snapshot of which all this holds.      *)
Unanchored == {"slip", "replace", "ripple-in", "ripple-in-apart", "key"}
Fine ==
  \E kind, S, s :
    /\ Commit(kind, S, s) /\ IsTimeline(s) /\ Respects(s)
    /\ \/ kind \in Unanchored
       \/ kind = "slide" /\ \E i, j \in S : NextTo(i, j)
       \/ Anchored(s)

LEMMA MatchingClips ==
  ASSUME NEW c \in ClipRecords, NEW e \in ClipRecords, Matches(c, e)
  PROVE  [c EXCEPT !.link = None] = [e EXCEPT !.link = None]
<1> DEFINE a == [c EXCEPT !.link = None]
           b == [e EXCEPT !.link = None]
<1>1. a \in ClipRecords /\ b \in ClipRecords
  BY ClipSet
<1>2. /\ a.track = b.track /\ a.start = b.start /\ a.end = b.end /\ a.src = b.src
      /\ a.srcEnd = b.srcEnd /\ a.avail = b.avail /\ a.asset = b.asset /\ a.link = b.link
      /\ a.nested = b.nested /\ a.bus = b.bus
  BY DEF ClipRecords, Matches
<1> HIDE DEF a, b
<1>3. a = b
  BY <1>1, <1>2, SameClip
<1> QED
  BY <1>3 DEF a, b

LEMMA CommitsDocument ==
  ASSUME NEW kind, NEW S, NEW s, IsTimeline(s), Commit(kind, S, s)
  PROVE  IsDocument(doc)' /\ DocumentsReopen'
<1>1. doc' = Write(s) /\ Valid(s) /\ s.duration <= MaxFrame
  BY DEF Commit
<1> DEFINE w == Write(s)
           r == Read(w)
<1>2. w \in Timelines /\ w.routed = {} /\ s \in Timelines
  BY TimelineIs, WrittenTimeline
<1>3. /\ r.tracks = s.tracks /\ r.duration = s.duration /\ r.clips = w.clips
      /\ r.keys = s.keys /\ r.marks = s.marks
      /\ r.routed = {t \in TrackSet(w) : \E i \in On(w, t) : w.clips[i].bus}
      /\ TrackSet(r) = TrackSet(s) /\ TrackSet(w) = TrackSet(s)
  <2>1. /\ w.tracks = s.tracks /\ w.duration = s.duration
        /\ w.keys = s.keys /\ w.marks = s.marks
    BY WrittenTimeline
  <2> HIDE DEF w
  <2>2. /\ r.tracks = w.tracks /\ r.duration = w.duration /\ r.clips = w.clips
        /\ r.keys = w.keys /\ r.marks = w.marks
        /\ r.routed = {t \in TrackSet(w) : \E i \in On(w, t) : w.clips[i].bus}
    BY <1>2, ReadTimeline
  <2> HIDE DEF r
  <2> QED
    BY <2>1, <2>2 DEF TrackSet
<1>4. \A i \in DOMAIN s.clips : s.clips[i].track \in TrackSet(s)
  BY <1>1 DEF Valid, ValidClip
<1>5. DOMAIN w.clips = DOMAIN s.clips
  BY WrittenTimeline
<1>6. \A i \in DOMAIN s.clips :
        LET c == s.clips[i]
            e == w.clips[i]
        IN /\ c \in ClipRecords /\ e \in ClipRecords
           /\ e.track = c.track /\ e.start = c.start /\ e.end = c.end
           /\ e.src = c.src /\ e.srcEnd = c.srcEnd /\ e.asset = c.asset
           /\ e.link = c.link /\ e.avail = c.srcEnd /\ e.nested = FALSE
           /\ e.bus = (c.bus \/ c.track \in s.routed)
  BY WrittenTimeline
<1>7. \A t \in TrackSet(s) : t \in AudioTracks <=> t \in s.routed
  BY <1>1 DEF Valid, ValidTracks
<1>8. IsDocument(w)
  <2>1. ASSUME NEW i \in DOMAIN w.clips
        PROVE  /\ w.clips[i].avail = w.clips[i].srcEnd /\ ~w.clips[i].nested
               /\ w.clips[i].track \in AudioTracks => w.clips[i].bus
    <3> HIDE DEF w
    <3>1. i \in DOMAIN s.clips
      BY <1>5, <2>1
    <3>2. /\ w.clips[i].avail = s.clips[i].srcEnd /\ w.clips[i].srcEnd = s.clips[i].srcEnd
          /\ w.clips[i].track = s.clips[i].track /\ w.clips[i].nested = FALSE
          /\ w.clips[i].bus = (s.clips[i].bus \/ s.clips[i].track \in s.routed)
      BY <1>6, <3>1
    <3>3. s.clips[i].track \in AudioTracks => s.clips[i].track \in s.routed
      BY <1>4, <1>7, <3>1
    <3> QED
      BY <3>2, <3>3
  <2>2. w.duration = s.duration
    BY WrittenTimeline
  <2> QED
    BY <1>1, <1>2, <2>1, <2>2, WrittenTimeline DEF IsDocument
<1> HIDE DEF w, r
<1>9. ASSUME \A t \in TrackSet(w) \cap AudioTracks : On(w, t) # {},
             \A i \in DOMAIN w.clips : ~(w.clips[i].bus /\ w.clips[i].track \notin AudioTracks),
             \A i \in DOMAIN w.clips : w.clips[i].asset # None
      PROVE  Valid(r)
  <2>1. ValidTracks(r)
    <3>1. IsInjective(r.tracks)
      BY <1>1, <1>3 DEF Valid, ValidTracks
    <3>2. ASSUME NEW t \in TrackSet(r) PROVE t \in AudioTracks <=> t \in r.routed
      <4>1. CASE t \in AudioTracks
        <5>1. PICK i \in On(w, t) : TRUE
          BY <1>3, <1>9, <3>2, <4>1
        <5>2. w.clips[i].bus
          <6>1. i \in DOMAIN s.clips /\ w.clips[i].track = t
            BY <1>5, <5>1, <1>3, <1>9, <3>2, <4>1 DEF On
          <6>2. t \in s.routed
            BY <1>3, <1>7, <3>2, <4>1
          <6>3. /\ w.clips[i].track = s.clips[i].track
                /\ w.clips[i].bus = (s.clips[i].bus \/ s.clips[i].track \in s.routed)
            BY <1>6, <6>1
          <6> QED
            BY <6>1, <6>2, <6>3
        <5> QED
          BY <1>3, <3>2, <4>1, <5>2
      <4>2. CASE t \notin AudioTracks
        BY <1>3, <1>9, <4>2 DEF On
      <4> QED
        BY <4>1, <4>2
    <3> QED
      BY <3>1, <3>2 DEF ValidTracks
  <2>2. ValidMarks(r)
    BY <1>1, <1>3 DEF Valid, ValidMarks
  <2>3. ValidKeys(r)
    <3>1. ValidKeys(s)
      BY <1>1 DEF Valid
    <3>2. \A i \in DOMAIN s.clips : ShownOn(w.clips[i]) = ShownOn(s.clips[i])
      BY <1>6 DEF ShownOn
    <3> QED
      BY <1>3, <1>5, <3>1, <3>2 DEF ValidKeys
  <2>4. ASSUME NEW i \in DOMAIN r.clips
        PROVE  ValidClip(r, r.clips[i]) /\ ValidPlacement(r, i)
    <3>1. i \in DOMAIN s.clips /\ ValidClip(s, s.clips[i]) /\ ValidPlacement(s, i)
      BY <1>1, <1>3, <1>5, <2>4 DEF Valid
    <3>2. ValidClip(r, r.clips[i])
      <4>1. w.clips[i].srcEnd <= w.clips[i].avail
        BY <1>6, <3>1, ClipTyped
      <4>2. (w.clips[i].asset = None) <=> w.clips[i].nested
        BY <1>5, <1>6, <1>9, <3>1
      <4> QED
        BY <1>3, <1>6, <3>1, <4>1, <4>2 DEF ValidClip
    <3>3. ValidPlacement(r, i)
      <4>1. On(r, r.clips[i].track) = On(s, s.clips[i].track)
        BY <1>3, <1>5, <1>6, <3>1 DEF On
      <4>2. ASSUME NEW j \in On(r, r.clips[i].track) \ {i}, Overlap(r.clips[i], r.clips[j])
            PROVE  r.clips[i].track \in AudioTracks
        <5>1. j \in On(s, s.clips[i].track) \ {i} /\ j \in DOMAIN s.clips
          BY <4>1, <4>2 DEF On
        <5>2. Overlap(s.clips[i], s.clips[j])
          BY <1>3, <1>6, <3>1, <4>2, <5>1 DEF Overlap
        <5> QED
          BY <1>3, <1>6, <3>1, <5>1, <5>2 DEF ValidPlacement
      <4> QED
        BY <4>2 DEF ValidPlacement
    <3> QED
      BY <3>2, <3>3
  <2> QED
    BY <2>1, <2>2, <2>3, <2>4 DEF Valid
<1>10. doc' = w /\ Read(w) = r
  BY <1>1 DEF w, r
<1>11. IsDocument(doc)'
  BY <1>8, <1>10 DEF IsDocument, IsTimeline, TrackSet
<1>12. DocumentsReopen'
  <2>1. DocumentsReopen' <=>
          \/ Valid(Read(doc'))
          \/ \E t \in TrackSet(doc') \cap AudioTracks : On(doc', t) = {}
          \/ \E i \in DOMAIN doc'.clips :
               \/ doc'.clips[i].bus /\ doc'.clips[i].track \notin AudioTracks
               \/ doc'.clips[i].asset = None
    BY DEF DocumentsReopen
  <2> QED
    BY <1>9, <1>10, <2>1
<1> QED
  BY <1>11, <1>12

LEMMA CommitRespects ==
  ASSUME Ready, NEW kind, NEW S, NEW s, IsTimeline(s), Commit(kind, S, s), Respects(s)
  PROVE  LockedTracksKeepTheirClips
<1>1. doc' = Write(s) /\ Valid(s)
  BY DEF Commit
<1> DEFINE w == Write(s)
           Bare(c) == [c EXCEPT !.link = None]
<1>2. DOMAIN w.clips = DOMAIN s.clips
  BY WrittenTimeline
<1>3. \A i \in DOMAIN s.clips :
        LET c == s.clips[i]
            e == w.clips[i]
        IN /\ c \in ClipRecords /\ e \in ClipRecords
           /\ e.track = c.track /\ e.start = c.start /\ e.end = c.end
           /\ e.src = c.src /\ e.srcEnd = c.srcEnd /\ e.asset = c.asset
           /\ e.link = c.link /\ e.avail = c.srcEnd /\ e.nested = FALSE
           /\ e.bus = (c.bus \/ c.track \in s.routed)
  BY WrittenTimeline
<1>4. \A t \in TrackSet(s) : t \in AudioTracks <=> t \in s.routed
  BY <1>1 DEF Valid, ValidTracks
<1> HIDE DEF w
<1>5. ASSUME NEW i \in DOMAIN doc.clips, doc.clips[i].track \in doc.locked
      PROVE  /\ i \in DOMAIN w.clips /\ w.clips[i].track = doc.clips[i].track
             /\ Bare(w.clips[i]) = Bare(doc.clips[i])
  <2>1. i \in DOMAIN s.clips /\ Matches(s.clips[i], doc.clips[i])
    BY <1>5 DEF Respects
  <2>2. doc.clips[i] \in ClipRecords /\ doc.clips[i].avail = doc.clips[i].srcEnd
        /\ doc.clips[i].nested = FALSE
    BY DocClip, ClipTyped DEF Ready
  <2>3. doc.clips[i].bus <=> doc.clips[i].track \in AudioTracks
    BY ReadyBus
  <2>4. s.clips[i].track \in TrackSet(s)
    BY <1>1, <2>1 DEF Valid, ValidClip
  <2>5. w.clips[i].bus = doc.clips[i].bus
    <3>1. w.clips[i].bus = (doc.clips[i].bus \/ doc.clips[i].track \in s.routed)
      BY <1>3, <2>1 DEF Matches
    <3>2. doc.clips[i].track \in s.routed <=> doc.clips[i].bus
      BY <1>4, <2>1, <2>3, <2>4 DEF Matches
    <3>3. doc.clips[i].bus \in BOOLEAN /\ w.clips[i].bus \in BOOLEAN
      BY <1>3, <2>1, <2>2, ClipTyped
    <3> QED
      BY <3>1, <3>2, <3>3
  <2>6. Matches(w.clips[i], doc.clips[i]) /\ w.clips[i] \in ClipRecords
    BY <1>3, <2>1, <2>2, <2>5 DEF Matches
  <2> QED
    BY <1>2, <2>1, <2>2, <2>6, MatchingClips DEF Matches
<1>6. ASSUME NEW i \in DOMAIN w.clips, w.clips[i].track \in doc.locked
      PROVE  i \in DOMAIN doc.clips /\ doc.clips[i].track \in doc.locked
  BY <1>2, <1>3, <1>6 DEF Respects
<1> HIDE DEF Bare
<1>7. ASSUME NEW t \in doc.locked
      PROVE  {<<i, Bare(doc.clips[i])>> : i \in On(doc, t)} = {<<i, Bare(w.clips[i])>> : i \in On(w, t)}
  <2>1. On(doc, t) = On(w, t)
    BY <1>5, <1>6, <1>7 DEF On
  <2>2. \A i \in On(doc, t) : Bare(doc.clips[i]) = Bare(w.clips[i])
    BY <1>5, <1>7 DEF On
  <2> QED
    BY <2>1, <2>2
<1>8. doc' = w
  BY <1>1 DEF w
<1> QED
  BY <1>7, <1>8 DEF LockedTracksKeepTheirClips, Bare

LEMMA CommitAnchored ==
  ASSUME Ready, NEW kind, NEW S, NEW s, IsTimeline(s), Commit(kind, S, s), Anchored(s)
  PROVE  KeyframesStay
<1>1. doc' = Write(s) /\ Valid(s)
  BY DEF Commit
<1> DEFINE w == Write(s)
<1>2. DOMAIN w.clips = DOMAIN s.clips /\ w.keys = s.keys
  BY WrittenTimeline
<1>3. \A i \in DOMAIN s.clips :
        LET c == s.clips[i]
            e == w.clips[i]
        IN /\ c \in ClipRecords /\ e \in ClipRecords
           /\ e.track = c.track /\ e.start = c.start /\ e.end = c.end
           /\ e.src = c.src /\ e.srcEnd = c.srcEnd /\ e.asset = c.asset
           /\ e.link = c.link /\ e.avail = c.srcEnd /\ e.nested = FALSE
           /\ e.bus = (c.bus \/ c.track \in s.routed)
  BY WrittenTimeline
<1>4. doc' = w
  BY <1>1 DEF w
<1> HIDE DEF w
<1> SUFFICES ASSUME NEW k \in DOMAIN doc.keys \cap DOMAIN s.keys
             PROVE  LET c == doc.clips[doc.keys[k].owner]
                        e == w.clips[s.keys[k].owner]
                    IN Still(c) \/ Still(e) \/
                         SourceAt(c, doc.keys[k].frame) = SourceAt(e, s.keys[k].frame)
  BY <1>2, <1>4 DEF KeyframesStay
<1>5. s.keys[k].owner \in DOMAIN s.clips
  BY <1>1 DEF Valid, ValidKeys
<1> DEFINE c == doc.clips[doc.keys[k].owner]
           b == s.clips[s.keys[k].owner]
           e == w.clips[s.keys[k].owner]
<1>6. Still(c) \/ Still(b) \/ SourceAt(c, doc.keys[k].frame) = SourceAt(b, s.keys[k].frame)
  BY DEF Anchored
<1>7. e.start = b.start /\ e.src = b.src /\ e.srcEnd = b.srcEnd /\ e.avail = b.srcEnd
  BY <1>3, <1>5
<1>8. Still(b) => Still(e)
  BY <1>7 DEF Still
<1>9. ~Still(b) /\ ~Still(e) => SourceAt(b, s.keys[k].frame) = SourceAt(e, s.keys[k].frame)
  BY <1>7 DEF SourceAt
<1> QED
  BY <1>6, <1>8, <1>9
-----------------------------------------------------------------------------
(* When a command is one of those.                                          *)

Open(T) == \A i \in DOMAIN doc.clips : i \in T => doc.clips[i].track \notin doc.locked

(* The clips outside T are as they were, the others on no locked track.     *)
LEMMA Untouched ==
  ASSUME NEW s, NEW T, Open(T),
         \A i \in DOMAIN doc.clips \ T : i \in DOMAIN s.clips /\ Matches(s.clips[i], doc.clips[i]),
         \A i \in DOMAIN s.clips :
           i \in DOMAIN doc.clips \ T \/ s.clips[i].track \notin doc.locked
  PROVE  Respects(s)
<1>1. ASSUME NEW i \in DOMAIN doc.clips, doc.clips[i].track \in doc.locked
      PROVE  i \in DOMAIN s.clips /\ Matches(s.clips[i], doc.clips[i])
  <2>1. i \in DOMAIN doc.clips \ T
    BY <1>1 DEF Open
  <2> QED
    BY <2>1
<1>2. ASSUME NEW i \in DOMAIN s.clips, s.clips[i].track \in doc.locked
      PROVE  i \in DOMAIN doc.clips /\ doc.clips[i].track \in doc.locked
  <2>1. i \in DOMAIN doc.clips \ T
    BY <1>2
  <2>2. s.clips[i].track = doc.clips[i].track
    BY <2>1 DEF Matches
  <2> QED
    BY <1>2, <2>1, <2>2
<1> QED
  BY <1>1, <1>2 DEF Respects

LEMMA OpenClips ==
  ASSUME NEW S \in SUBSET DOMAIN doc.clips, ClipsWritable(S)
  PROVE  Open(S)
  BY DEF ClipsWritable, Writable, Open

LEMMA SameClips ==
  ASSUME NEW s, s.clips = doc.clips
  PROVE  Respects(s)
  BY DEF Respects, Matches

Stays(c, e, f, g) == Still(c) \/ Still(e) \/ SourceAt(c, f) = SourceAt(e, g)

LEMMA StaysBy ==
  ASSUME NEW c \in ClipRecords, NEW e \in ClipRecords, NEW f \in Int, NEW g \in Int,
         c.src + f - c.start = e.src + g - e.start
  PROVE  Stays(c, e, f, g)
  BY DEF Stays, SourceAt

AnchoredAt(s, k) ==
  Stays(doc.clips[doc.keys[k].owner], s.clips[s.keys[k].owner],
        doc.keys[k].frame, s.keys[k].frame)

LEMMA AnchoredEach ==
  ASSUME NEW s, \A k \in DOMAIN doc.keys \cap DOMAIN s.keys : AnchoredAt(s, k)
  PROVE  Anchored(s)
  BY DEF Anchored, AnchoredAt, Stays

(* A keyframe whose clip goes from c to e, and which goes with it.          *)
LEMMA AnchoredKey ==
  ASSUME Ready, NEW s \in Timelines, NEW k \in DOMAIN doc.keys \cap DOMAIN s.keys,
         s.keys[k].owner \in DOMAIN s.clips,
         LET c == doc.clips[doc.keys[k].owner]
             e == s.clips[s.keys[k].owner]
         IN \/ Still(c)
            \/ c.src + doc.keys[k].frame - c.start = e.src + s.keys[k].frame - e.start
  PROVE  AnchoredAt(s, k)
<1>1. /\ doc.keys[k].owner \in DOMAIN doc.clips
      /\ doc.clips[doc.keys[k].owner] \in ClipRecords /\ doc.keys[k].frame \in Int
  BY ReadyKey, DocKey, DocClip DEF Ready
<1>2. s.clips[s.keys[k].owner] \in ClipRecords /\ s.keys[k].frame \in Int
  BY TimelineTyped, ClipMapFacts, KeyMapFacts
<1> QED
  BY <1>1, <1>2, StaysBy DEF AnchoredAt, Stays

(* Nothing that has keyframes is touched.                                   *)
LEMMA SameKeys ==
  ASSUME Ready, NEW s \in Timelines,
         \A k \in DOMAIN doc.keys \cap DOMAIN s.keys :
           /\ s.keys[k] = doc.keys[k]
           /\ doc.keys[k].owner \in DOMAIN s.clips
           /\ s.clips[doc.keys[k].owner].src = doc.clips[doc.keys[k].owner].src
           /\ s.clips[doc.keys[k].owner].start = doc.clips[doc.keys[k].owner].start
  PROVE  Anchored(s)
<1> SUFFICES ASSUME NEW k \in DOMAIN doc.keys \cap DOMAIN s.keys
             PROVE  AnchoredAt(s, k)
  BY AnchoredEach
<1> QED
  BY AnchoredKey

Excepted(kind, S) == kind \in Unanchored \/ (kind = "slide" /\ \E i, j \in S : NextTo(i, j))

LEMMA PlainFine ==
  ASSUME NEW kind, NEW S, NEW r \in Timelines, IsFiniteSet(DOMAIN r.clips),
         r.locked \subseteq TrackSet(r), Respects(r), Excepted(kind, S) \/ Anchored(r),
         Commit(kind, S, r)
  PROVE  Fine
<1>1. IsTimeline(r)
  BY TimelineIs
<1> QED
  BY <1>1 DEF Fine, Excepted

LEMMA FinalizeFine ==
  ASSUME NEW kind, NEW S, NEW r \in Timelines, IsFiniteSet(DOMAIN r.clips),
         r.locked \subseteq TrackSet(r), Respects(r), Excepted(kind, S) \/ Anchored(r),
         Commit(kind, S, Finalize(r))
  PROVE  Fine
<1> DEFINE s == Finalize(r)
<1>1. s \in Timelines /\ Others(s, r) /\ s.clips = r.clips /\ s.keys = r.keys
  BY Finalized
<1>2. Commit(kind, S, s)
  OBVIOUS
<1> HIDE DEF s
<1>3. s.locked \subseteq TrackSet(s)
  BY <1>1 DEF Others, TrackSet
<1>4. Respects(s) /\ (Anchored(r) => Anchored(s))
  BY <1>1 DEF Respects, Anchored
<1> QED
  BY <1>1, <1>2, <1>3, <1>4, PlainFine

LEMMA FitFine ==
  ASSUME NEW kind, NEW S, NEW r \in Timelines, IsFiniteSet(DOMAIN r.clips),
         r.locked \subseteq TrackSet(r), Respects(r), Excepted(kind, S) \/ Anchored(r),
         Commit(kind, S, Fit(r))
  PROVE  Fine
<1> DEFINE s == Fit(r)
<1>1. s \in Timelines /\ Others(s, r) /\ s.clips = r.clips /\ s.keys = r.keys
  BY Fitted
<1>2. Commit(kind, S, s)
  OBVIOUS
<1> HIDE DEF s
<1>3. s.locked \subseteq TrackSet(s)
  BY <1>1 DEF Others, TrackSet
<1>4. Respects(s) /\ (Anchored(r) => Anchored(s))
  BY <1>1 DEF Respects, Anchored
<1> QED
  BY <1>1, <1>2, <1>3, <1>4, PlainFine

LEMMA LocksKept ==
  ASSUME Ready, NEW r \in Timelines, Others(r, now)
  PROVE  r.locked \subseteq TrackSet(r)
  BY NowIs DEF Ready, Others, TrackSet
-----------------------------------------------------------------------------
(* Moving, linking, copying.                                                *)

(* What r is to s when the clips of S have moved.                           *)
IsMoved(r, s, S, t, d) ==
  /\ r \in Timelines /\ Others(r, s)
  /\ DOMAIN r.clips = DOMAIN s.clips /\ DOMAIN r.keys = DOMAIN s.keys
  /\ \A i \in DOMAIN s.clips :
       /\ r.clips[i].src = s.clips[i].src
       /\ r.clips[i].start = IF i \in S THEN s.clips[i].start + d ELSE s.clips[i].start
       /\ i \in S => r.clips[i].track = IF t # None THEN t ELSE s.clips[i].track
       /\ i \notin S => r.clips[i] = s.clips[i]
  /\ \A k \in DOMAIN s.keys :
       /\ r.keys[k].owner = s.keys[k].owner
       /\ r.keys[k].frame = IF s.keys[k].owner \in S THEN s.keys[k].frame + d
                                                     ELSE s.keys[k].frame

LEMMA MovedTimeline ==
  ASSUME NEW s \in Timelines, NEW S \in SUBSET DOMAIN s.clips, NEW d \in Int,
         NEW t \in Tracks \cup {None}
  PROVE  IsMoved(Moving(s, S, t, d), s, S, t, d)
<1> DEFINE by == [i \in S |-> d]
           m == ShiftClips(s, by)
           C == [i \in DOMAIN m.clips |->
                   IF i \in S /\ t # None THEN [m.clips[i] EXCEPT !.track = t] ELSE m.clips[i]]
<1>1. DOMAIN by = S /\ \A i \in S : by[i] = d
  OBVIOUS
<1> HIDE DEF by
<1>2. /\ m \in Timelines /\ Others(m, s)
      /\ m.marks = s.marks /\ m.duration = s.duration
      /\ DOMAIN m.clips = DOMAIN s.clips /\ DOMAIN m.keys = DOMAIN s.keys
      /\ \A i \in DOMAIN s.clips :
           m.clips[i] = IF i \in DOMAIN by THEN Shifted(s.clips[i], by[i]) ELSE s.clips[i]
      /\ \A k \in DOMAIN s.keys :
           /\ m.keys[k].owner = s.keys[k].owner
           /\ m.keys[k].frame = IF s.keys[k].owner \in DOMAIN by
                                THEN s.keys[k].frame + by[s.keys[k].owner]
                                ELSE s.keys[k].frame
  BY <1>1, ShiftedTimeline DEF IsShifted
<1>3. Moving(s, S, t, d) = [m EXCEPT !.clips = C]
  BY DEF Moving, by
<1> HIDE DEF m
<1>4. \A i \in DOMAIN s.clips : s.clips[i] \in ClipRecords /\ m.clips[i] \in ClipRecords
  BY <1>2, TimelineTyped, ClipMapFacts
<1>5. \A i \in S : Shifted(s.clips[i], d).src = s.clips[i].src
                   /\ Shifted(s.clips[i], d).start = s.clips[i].start + d
                   /\ Shifted(s.clips[i], d).track = s.clips[i].track
  BY <1>4, ShiftedClip
<1>6. ASSUME NEW i \in DOMAIN s.clips
      PROVE  /\ C[i] \in ClipRecords
             /\ C[i].src = s.clips[i].src
             /\ C[i].start = IF i \in S THEN s.clips[i].start + d ELSE s.clips[i].start
             /\ i \in S => C[i].track = IF t # None THEN t ELSE s.clips[i].track
             /\ i \notin S => C[i] = s.clips[i]
  <2>1. m.clips[i] \in ClipRecords
    BY <1>4
  <2>2. m.clips[i] = IF i \in S THEN Shifted(s.clips[i], d) ELSE s.clips[i]
    BY <1>1, <1>2
  <2>3. CASE i \in S /\ t # None
    <3>1. C[i] = [m.clips[i] EXCEPT !.track = t]
      BY <1>2, <2>3
    <3>2. LET e == [m.clips[i] EXCEPT !.track = t] IN
          e \in ClipRecords /\ e.src = m.clips[i].src /\ e.start = m.clips[i].start
          /\ e.track = t
      BY <2>1, <2>3 DEF ClipRecords
    <3> HIDE DEF C
    <3> QED
      BY <1>5, <2>2, <2>3, <3>1, <3>2
  <2>4. CASE ~(i \in S /\ t # None)
    <3>1. C[i] = m.clips[i]
      BY <1>2, <2>4
    <3> HIDE DEF C
    <3> QED
      BY <1>5, <2>1, <2>2, <2>4, <3>1
  <2> QED
    BY <2>3, <2>4
<1>7. C = [i \in DOMAIN m.clips |-> C[i]]
  OBVIOUS
<1> HIDE DEF C
<1>8. LET r == [m EXCEPT !.clips = C] IN
         /\ r \in Timelines /\ Others(r, m) /\ r.keys = m.keys
         /\ r.marks = m.marks /\ r.duration = m.duration
         /\ r.clips = C /\ DOMAIN r.clips = DOMAIN m.clips
  BY <1>2, <1>6, <1>7, ChangedClips
<1> QED
  BY <1>1, <1>2, <1>3, <1>6, <1>8 DEF Others, IsMoved

LEMMA MoveFine ==
  ASSUME Ready, NEW S \in SUBSET DOMAIN doc.clips, NEW t \in TrackSet(doc) \cup {None},
         NEW d \in Int, Move(S, t, d)
  PROVE  Fine
<1>1. /\ now \in Timelines /\ now.clips = doc.clips /\ now.keys = doc.keys
      /\ IsFiniteSet(DOMAIN doc.clips) /\ t \in Tracks \cup {None}
  <2>1. doc.tracks \in Seq(Tracks)
    BY NowIs, TimelineTyped DEF Ready
  <2>2. TrackSet(doc) \subseteq Tracks
    BY <2>1 DEF TrackSet, Range
  <2> QED
    BY <2>2, NowIs DEF Ready
<1> DEFINE r == Moving(now, S, t, d)
<1>2. /\ r \in Timelines /\ Others(r, now)
      /\ DOMAIN r.clips = DOMAIN doc.clips /\ DOMAIN r.keys = DOMAIN doc.keys
      /\ \A i \in DOMAIN doc.clips :
           /\ r.clips[i].src = doc.clips[i].src
           /\ r.clips[i].start = IF i \in S THEN doc.clips[i].start + d ELSE doc.clips[i].start
           /\ i \in S => r.clips[i].track = IF t # None THEN t ELSE doc.clips[i].track
           /\ i \notin S => r.clips[i] = doc.clips[i]
      /\ \A k \in DOMAIN doc.keys :
           /\ r.keys[k].owner = doc.keys[k].owner
           /\ r.keys[k].frame = IF doc.keys[k].owner \in S THEN doc.keys[k].frame + d
                                                           ELSE doc.keys[k].frame
  <2>1. S \in SUBSET DOMAIN now.clips
    BY <1>1
  <2>2. IsMoved(r, now, S, t, d)
    BY <1>1, <2>1, MovedTimeline
  <2> HIDE DEF r
  <2> QED
    BY <1>1, <2>2 DEF IsMoved
<1>3. ClipsWritable(S) /\ (t # None => Writable(t)) /\ Commit("move", S, Finalize(r))
  BY DEF Move
<1> HIDE DEF r
<1>4. Respects(r)
  <2>1. Open(S)
    BY <1>3, OpenClips
  <2>2. \A i \in S : r.clips[i].track \notin doc.locked
    BY <1>2, <1>3 DEF Writable, ClipsWritable
  <2> QED
    BY <1>2, <2>1, <2>2, Untouched DEF Matches
<1>5. Anchored(r)
  <2> SUFFICES ASSUME NEW k \in DOMAIN doc.keys \cap DOMAIN r.keys
               PROVE  AnchoredAt(r, k)
    BY AnchoredEach
  <2>1. /\ doc.keys[k].owner \in DOMAIN doc.clips /\ doc.keys[k].frame \in Int
        /\ doc.clips[doc.keys[k].owner].start \in Int
        /\ doc.clips[doc.keys[k].owner].src \in Int
    BY ReadyKey, DocKey, DocClip, ClipTyped DEF Ready
  <2> QED
    BY <1>2, <2>1, AnchoredKey
<1> QED
  BY <1>1, <1>2, <1>3, <1>4, <1>5, LocksKept, FinalizeFine
-----------------------------------------------------------------------------
(* Tracks.                                                                  *)

LEMMA TrackSetIn ==
  ASSUME NEW s \in Timelines
  PROVE  TrackSet(s) \subseteq Tracks /\ TrackSet(s) = {s.tracks[n] : n \in 1 .. Len(s.tracks)}
<1>1. s.tracks \in Seq(Tracks)
  BY TimelineTyped
<1> QED
  BY <1>1 DEF TrackSet, Range

Retracked(s, x, y) == [s EXCEPT !.tracks = x, !.routed = y]

LEMMA TracksReplaced ==
  ASSUME NEW s \in Timelines, NEW x \in Seq(Tracks), NEW y \in SUBSET Tracks
  PROVE  LET r == Retracked(s, x, y) IN
         /\ r \in Timelines /\ r.tracks = x /\ r.locked = s.locked
         /\ r.clips = s.clips /\ r.keys = s.keys
<1> DEFINE e == [s EXCEPT !.tracks = x]
<1>1. e \in Timelines /\ e.tracks = x /\ e.locked = s.locked /\ e.clips = s.clips
      /\ e.keys = s.keys
  BY DEF Timelines
<1>2. Retracked(s, x, y) = [e EXCEPT !.routed = y]
  BY DEF Retracked
<1> HIDE DEF e
<1>3. LET r == [e EXCEPT !.routed = y] IN
         /\ r \in Timelines /\ r.tracks = e.tracks /\ r.locked = e.locked
         /\ r.clips = e.clips /\ r.keys = e.keys
  BY <1>1 DEF Timelines
<1> QED
  BY <1>1, <1>2, <1>3

LEMMA InsertedTrack ==
  ASSUME NEW q \in Seq(Tracks), NEW n \in 1 .. Len(q) + 1, NEW t \in Tracks
  PROVE  /\ InsertAt(q, n, t) \in Seq(Tracks)
         /\ \A m \in 1 .. Len(q) : \E l \in 1 .. Len(InsertAt(q, n, t)) :
              InsertAt(q, n, t)[l] = q[m]
<1> DEFINE a == SubSeq(q, 1, n - 1)
           b == SubSeq(q, n, Len(q))
<1>1. Len(q) \in Nat /\ n \in Int /\ n - 1 \in Int /\ \A i \in 1 .. Len(q) : q[i] \in Tracks
  OBVIOUS
<1>2. /\ a \in Seq(Tracks) /\ Len(a) = n - 1 /\ \A i \in 1 .. n - 1 : a[i] = q[i]
      /\ b \in Seq(Tracks) /\ Len(b) = Len(q) - n + 1
      /\ \A i \in 1 .. Len(q) - n + 1 : b[i] = q[n + i - 1]
  <2>1. \A i \in 1 .. n - 1 : q[i] \in Tracks
    BY <1>1
  <2>2. \A i \in n .. Len(q) : q[i] \in Tracks
    BY <1>1
  <2>3. /\ a \in Seq(Tracks) /\ Len(a) = IF 1 <= n - 1 THEN (n - 1) - 1 + 1 ELSE 0
        /\ \A i \in 1 .. (n - 1) - 1 + 1 : a[i] = q[1 + i - 1]
    BY <1>1, <2>1, SubSeqProperties
  <2>4. /\ b \in Seq(Tracks) /\ Len(b) = IF n <= Len(q) THEN Len(q) - n + 1 ELSE 0
        /\ \A i \in 1 .. Len(q) - n + 1 : b[i] = q[n + i - 1]
    BY <1>1, <2>2, SubSeqProperties
  <2> HIDE DEF a, b
  <2> QED
    BY <1>1, <2>3, <2>4
<1>3. InsertAt(q, n, t) = (a \o <<t>>) \o b
  BY DEF InsertAt
<1> HIDE DEF a, b
<1> DEFINE c == a \o <<t>>
<1>4. <<t>> \in Seq(Tracks) /\ Len(<<t>>) = 1
  OBVIOUS
<1>5. /\ c \in Seq(Tracks) /\ Len(c) = n
      /\ \A i \in 1 .. n - 1 : c[i] = a[i]
  BY <1>1, <1>2, <1>4, ConcatProperties
<1> HIDE DEF c
<1> DEFINE r == c \o b
<1>6. /\ r \in Seq(Tracks) /\ Len(r) = n + Len(b)
      /\ \A i \in 1 .. n : r[i] = c[i]
      /\ \A i \in n + 1 .. n + Len(b) : r[i] = b[i - n]
  <2>1. /\ r \in Seq(Tracks) /\ Len(r) = Len(c) + Len(b)
        /\ \A i \in 1 .. Len(c) + Len(b) :
             r[i] = IF i <= Len(c) THEN c[i] ELSE b[i - Len(c)]
    BY <1>2, <1>5, ConcatProperties
  <2> HIDE DEF r
  <2>2. Len(b) \in Nat
    BY <1>2
  <2> QED
    BY <1>1, <1>5, <2>1, <2>2
<1>7. InsertAt(q, n, t) = r
  BY <1>3 DEF c
<1> HIDE DEF r
<1>8. ASSUME NEW m \in 1 .. Len(q) PROVE \E l \in 1 .. Len(r) : r[l] = q[m]
  <2>1. CASE m < n
    <3>1. m \in 1 .. n - 1 /\ m \in 1 .. n /\ m \in 1 .. Len(r)
      BY <1>1, <1>2, <1>6, <2>1
    <3>2. r[m] = q[m]
      BY <1>2, <1>5, <1>6, <3>1
    <3> QED
      BY <3>1, <3>2
  <2>2. CASE ~(m < n)
    <3>1. m + 1 \in n + 1 .. n + Len(b) /\ m + 1 \in 1 .. Len(r)
          /\ m + 1 - n \in 1 .. Len(q) - n + 1 /\ n + (m + 1 - n) - 1 = m
      BY <1>1, <1>2, <1>6, <2>2
    <3>2. r[m + 1] = b[m + 1 - n]
      <4> DEFINE l == m + 1
      <4>1. l \in n + 1 .. n + Len(b)
        BY <3>1
      <4> HIDE DEF l
      <4>2. r[l] = b[l - n]
        BY <1>6, <4>1
      <4> QED
        BY <4>2 DEF l
    <3>3. b[m + 1 - n] = q[m]
      BY <1>2, <3>1
    <3> QED
      BY <3>1, <3>2, <3>3
  <2> QED
    BY <2>1, <2>2
<1> QED
  BY <1>6, <1>7, <1>8

LEMMA RemovedTrack ==
  ASSUME NEW q \in Seq(Tracks), NEW n \in 1 .. Len(q)
  PROVE  /\ RemoveAt(q, n) \in Seq(Tracks)
         /\ \A m \in 1 .. Len(q) \ {n} : \E l \in 1 .. Len(RemoveAt(q, n)) :
              RemoveAt(q, n)[l] = q[m]
<1> DEFINE a == SubSeq(q, 1, n - 1)
           b == SubSeq(q, n + 1, Len(q))
           r == a \o b
<1>1. Len(q) \in Nat /\ n \in Int /\ n - 1 \in Int /\ n + 1 \in Int
      /\ \A i \in 1 .. Len(q) : q[i] \in Tracks
  OBVIOUS
<1>2. /\ a \in Seq(Tracks) /\ Len(a) = n - 1 /\ \A i \in 1 .. n - 1 : a[i] = q[i]
      /\ b \in Seq(Tracks) /\ Len(b) = Len(q) - n
      /\ \A i \in 1 .. Len(q) - n : b[i] = q[n + i]
  <2>1. \A i \in 1 .. n - 1 : q[i] \in Tracks
    BY <1>1
  <2>2. \A i \in n + 1 .. Len(q) : q[i] \in Tracks
    BY <1>1
  <2>3. /\ a \in Seq(Tracks) /\ Len(a) = IF 1 <= n - 1 THEN (n - 1) - 1 + 1 ELSE 0
        /\ \A i \in 1 .. (n - 1) - 1 + 1 : a[i] = q[1 + i - 1]
    BY <1>1, <2>1, SubSeqProperties
  <2>4. /\ b \in Seq(Tracks) /\ Len(b) = IF n + 1 <= Len(q) THEN Len(q) - (n + 1) + 1 ELSE 0
        /\ \A i \in 1 .. Len(q) - (n + 1) + 1 : b[i] = q[(n + 1) + i - 1]
    BY <1>1, <2>2, SubSeqProperties
  <2> HIDE DEF a, b
  <2>5. Len(q) - (n + 1) + 1 = Len(q) - n /\ \A i \in 1 .. Len(q) - n : (n + 1) + i - 1 = n + i
    BY <1>1
  <2>6. Len(a) = n - 1 /\ \A i \in 1 .. n - 1 : a[i] = q[i]
    BY <1>1, <2>3
  <2>7. Len(b) = Len(q) - n
    <3>1. Len(b) = IF n + 1 <= Len(q) THEN Len(q) - (n + 1) + 1 ELSE 0
      BY <2>4
    <3>2. n <= Len(q)
      OBVIOUS
    <3> QED
      BY <1>1, <3>1, <3>2
  <2>8. ASSUME NEW i \in 1 .. Len(q) - n PROVE b[i] = q[n + i]
    <3>1. b[i] = q[(n + 1) + i - 1]
      BY <2>4, <2>5
    <3> QED
      BY <2>5, <3>1
  <2> QED
    BY <2>3, <2>4, <2>6, <2>7, <2>8
<1> HIDE DEF a, b
<1>3. /\ r \in Seq(Tracks) /\ Len(r) = n - 1 + Len(b)
      /\ \A i \in 1 .. n - 1 : r[i] = a[i]
      /\ \A i \in n .. n - 1 + Len(b) : r[i] = b[i - (n - 1)]
  <2>1. /\ r \in Seq(Tracks) /\ Len(r) = Len(a) + Len(b)
        /\ \A i \in 1 .. Len(a) + Len(b) :
             r[i] = IF i <= Len(a) THEN a[i] ELSE b[i - Len(a)]
    BY <1>2, ConcatProperties
  <2> HIDE DEF r
  <2>2. Len(b) \in Nat /\ Len(a) = n - 1
    BY <1>2
  <2>3. \A i \in 1 .. n - 1 : r[i] = a[i]
    BY <1>1, <2>1, <2>2
  <2>4. \A i \in n .. n - 1 + Len(b) : r[i] = b[i - (n - 1)]
    BY <1>1, <2>1, <2>2
  <2> QED
    BY <2>1, <2>2, <2>3, <2>4
<1>4. RemoveAt(q, n) = r
  BY DEF RemoveAt, a, b
<1> HIDE DEF r
<1>5. ASSUME NEW m \in 1 .. Len(q), m # n PROVE \E l \in 1 .. Len(r) : r[l] = q[m]
  <2>1. CASE m < n
    <3>1. m \in 1 .. n - 1 /\ m \in 1 .. Len(r)
      BY <1>1, <1>2, <1>3, <2>1
    <3> QED
      BY <1>2, <1>3, <3>1
  <2>2. CASE ~(m < n)
    <3>1. m - 1 \in n .. n - 1 + Len(b) /\ m - 1 \in 1 .. Len(r)
          /\ m - 1 - (n - 1) \in 1 .. Len(q) - n /\ n + (m - 1 - (n - 1)) = m
      BY <1>1, <1>2, <1>3, <1>5, <2>2
    <3>2. r[m - 1] = b[m - 1 - (n - 1)]
      BY <1>3, <3>1
    <3>3. b[m - 1 - (n - 1)] = q[m]
      BY <1>2, <3>1
    <3> QED
      BY <3>1, <3>2, <3>3
  <2> QED
    BY <2>1, <2>2
<1> QED
  BY <1>3, <1>4, <1>5

LEMMA PlacedTrack ==
  ASSUME NEW s \in Timelines, NEW t \in Tracks, NEW n \in 1 .. Len(s.tracks) + 1
  PROVE  LET r == Placed(s, t, n) IN
         /\ r \in Timelines /\ r.locked = s.locked /\ TrackSet(s) \subseteq TrackSet(r)
         /\ r.clips = s.clips /\ r.keys = s.keys
<1> DEFINE x == InsertAt(s.tracks, n, t)
           y == IF t \in AudioTracks THEN s.routed \cup {t} ELSE s.routed
           r == Retracked(s, x, y)
<1>1. s.tracks \in Seq(Tracks) /\ s.routed \in SUBSET Tracks
  BY TimelineTyped
<1>2. /\ x \in Seq(Tracks)
      /\ \A m \in 1 .. Len(s.tracks) : \E l \in 1 .. Len(x) : x[l] = s.tracks[m]
  BY <1>1, InsertedTrack
<1>3. Placed(s, t, n) = r
  BY DEF Placed, Retracked
<1>4. y \in SUBSET Tracks
  BY <1>1
<1> HIDE DEF x, y
<1>5. r \in Timelines /\ r.tracks = x /\ r.locked = s.locked
      /\ r.clips = s.clips /\ r.keys = s.keys
  BY <1>2, <1>4, TracksReplaced
<1> HIDE DEF r
<1>6. TrackSet(s) \subseteq TrackSet(r)
  BY <1>2, <1>5, TrackSetIn
<1> QED
  BY <1>3, <1>5, <1>6

LEMMA Counted ==
  ASSUME NEW n \in Nat
  PROVE  IsFiniteSet(1 .. n) /\ Cardinality(1 .. n) = n
<1>1. IsFiniteSet(1 .. n) /\ Cardinality(1 .. n) = IF 1 > n THEN 0 ELSE n - 1 + 1
  BY FS_Interval
<1> QED
  BY <1>1

LEMMA ReorderedTracks ==
  ASSUME Ready, NEW order \in Seq(TrackSet(doc)), Len(order) = Len(doc.tracks),
         IsInjective(order)
  PROVE  order \in Seq(Tracks) /\ TrackSet(doc) = {order[n] : n \in 1 .. Len(order)}
<1> DEFINE T == TrackSet(doc)
           I == 1 .. Len(doc.tracks)
<1>1. /\ doc \in Timelines /\ doc.tracks \in Seq(Tracks) /\ IsInjective(doc.tracks)
      /\ T \subseteq Tracks /\ T = {doc.tracks[n] : n \in I}
  BY NowIs, TimelineTyped, TrackSetIn, ReadyBounds DEF Ready
<1>2. IsFiniteSet(I) /\ Cardinality(I) = Len(doc.tracks)
  <2>1. Len(doc.tracks) \in Nat
    BY <1>1
  <2> QED
    BY <2>1, Counted
<1>3. doc.tracks \in Surjection(I, T) /\ doc.tracks \in Injection(I, T)
  BY <1>1 DEF Surjection, Injection
<1>4. IsFiniteSet(T) /\ Cardinality(T) = Cardinality(I)
  BY <1>2, <1>3, FS_Surjection
<1>5. order \in Injection(I, T)
  BY DEF Injection
<1>6. order \in Surjection(I, T)
  BY <1>4, <1>5, FS_Injection
<1>7. T = {order[n] : n \in I}
  BY <1>6 DEF Surjection
<1>8. order \in Seq(Tracks)
  BY <1>1
<1> QED
  BY <1>7, <1>8
-----------------------------------------------------------------------------
(* Placing clips.                                                           *)

(* What the snapshot is, with the names of the document.                    *)
LEMMA Snapshot ==
  ASSUME Ready
  PROVE  /\ now \in Timelines /\ now.clips = doc.clips /\ now.keys = doc.keys
         /\ now.locked = doc.locked /\ now.tracks = doc.tracks /\ now.marks = doc.marks
         /\ IsFiniteSet(DOMAIN doc.clips) /\ DOMAIN doc.clips \subseteq Clips
         /\ doc.locked \subseteq TrackSet(now) /\ TrackSet(now) = TrackSet(doc)
         /\ TrackSet(doc) \subseteq Tracks
<1>1. now.tracks \in Seq(Tracks) /\ now.clips \in ClipMaps
  BY NowIs, TimelineTyped DEF Ready
<1>2. TrackSet(now) \subseteq Tracks
  BY <1>1 DEF TrackSet, Range
<1>3. DOMAIN now.clips \subseteq Clips
  BY <1>1, ClipMapFacts
<1> QED
  BY <1>2, <1>3, NowIs DEF Ready

LEMMA FreeClip ==
  ASSUME Free # {}
  PROVE  Min(Free) \in Clips /\ Min(Free) \notin DOMAIN doc.clips
<1>1. Free \in SUBSET Nat
  BY TimelineAssumption DEF Free
<1>2. Min(Free) \in Free
  BY <1>1, MinIn
<1> QED
  BY <1>2 DEF Free

LEMMA NewClipTyped ==
  ASSUME Ready, NEW t \in TrackSet(doc), NEW f \in Int, NEW n \in Int, NEW src \in Int
  PROVE  NewClip(t, f, n, src) \in ClipRecords
  BY Snapshot, TimelineAssumption DEF NewClip, ClipRecords

LEMMA MadeUpClip ==
  ASSUME Ready, NEW c \in NewClips
  PROVE  c \in ClipRecords
<1>1. PICK t \in TrackSet(doc), f \in Frames, n \in 1 .. 2, src \in 0 .. 1 :
        c = NewClip(t, f, n, src)
  BY DEF NewClips
<1>2. f \in Int /\ n \in Int /\ src \in Int
  BY TimelineAssumption DEF Frames
<1> QED
  BY <1>1, <1>2, NewClipTyped

LEMMA MoveToNewTrackFine ==
  ASSUME Ready, NEW i \in DOMAIN doc.clips, NEW t \in Tracks,
         NEW n \in 1 .. Len(doc.tracks) + 1, NEW d \in Int, MoveToNewTrack(i, t, n, d)
  PROVE  Fine
<1> DEFINE p == Placed(now, t, n)
           r == Moving(p, {i}, t, d)
<1>1. ClipsWritable({i}) /\ t \notin TrackSet(doc) /\ Commit("move", {i}, Finalize(r))
  BY DEF MoveToNewTrack
<1>2. /\ p \in Timelines /\ p.locked = now.locked /\ TrackSet(now) \subseteq TrackSet(p)
      /\ p.clips = now.clips /\ p.keys = now.keys
  <2>1. n \in 1 .. Len(now.tracks) + 1
    BY Snapshot
  <2> QED
    BY <2>1, Snapshot, PlacedTrack
<1> HIDE DEF p
<1>3. p.clips = doc.clips /\ p.keys = doc.keys /\ p.locked = doc.locked
      /\ doc.locked \subseteq TrackSet(p)
  BY <1>2, Snapshot
<1>4. IsMoved(r, p, {i}, t, d)
  <2>1. {i} \in SUBSET DOMAIN p.clips /\ t \in Tracks \cup {None}
    BY <1>3
  <2> QED
    BY <1>2, <2>1, MovedTimeline
<1> HIDE DEF r
<1>5. Respects(r)
  <2>1. Open({i})
    BY <1>1, OpenClips
  <2>2. r.clips[i].track \notin doc.locked
    <3>1. r.clips[i].track = IF t # None THEN t ELSE doc.clips[i].track
      BY <1>3, <1>4 DEF IsMoved
    <3>2. t \notin doc.locked
      BY <1>1, Snapshot
    <3> QED
      BY <2>1, <3>1, <3>2 DEF Open
  <2> QED
    BY <1>3, <1>4, <2>1, <2>2, Untouched DEF Matches, IsMoved
<1>6. Anchored(r)
  <2> SUFFICES ASSUME NEW k \in DOMAIN doc.keys \cap DOMAIN r.keys
               PROVE  AnchoredAt(r, k)
    BY AnchoredEach
  <2>1. /\ doc.keys[k].owner \in DOMAIN doc.clips /\ doc.keys[k].frame \in Int
        /\ doc.clips[doc.keys[k].owner].start \in Int
        /\ doc.clips[doc.keys[k].owner].src \in Int
    BY ReadyKey, DocKey, DocClip, ClipTyped DEF Ready
  <2>2. r \in Timelines /\ r.keys[k].owner = doc.keys[k].owner
        /\ doc.keys[k].owner \in DOMAIN r.clips
    BY <1>3, <1>4, <2>1 DEF IsMoved
  <2>3. LET c == doc.clips[doc.keys[k].owner]
            e == r.clips[doc.keys[k].owner]
        IN c.src + doc.keys[k].frame - c.start = e.src + r.keys[k].frame - e.start
    <3> DEFINE o == doc.keys[k].owner
    <3>1. /\ r.clips[o].src = doc.clips[o].src
          /\ r.clips[o].start = IF o \in {i} THEN doc.clips[o].start + d ELSE doc.clips[o].start
          /\ r.keys[k].frame = IF o \in {i} THEN doc.keys[k].frame + d ELSE doc.keys[k].frame
      BY <1>3, <1>4, <2>1 DEF IsMoved
    <3> QED
      BY <2>1, <3>1
  <2> QED
    BY <2>2, <2>3, AnchoredKey
<1>7. /\ r \in Timelines /\ IsFiniteSet(DOMAIN r.clips) /\ r.locked \subseteq TrackSet(r)
  BY <1>3, <1>4, Snapshot DEF IsMoved, Others, TrackSet
<1> QED
  BY <1>1, <1>5, <1>6, <1>7, FinalizeFine

LEMMA ShiftedMarks ==
  ASSUME NEW m \in MarkMaps, NEW b \in Int, NEW d \in Int
  PROVE  ShiftMarks(m, b, d) \in MarkMaps
<1>1. DOMAIN m \in SUBSET Marks /\ \A x \in DOMAIN m : m[x] \in Int
  BY MarkMapFacts
<1>2. ShiftMarks(m, b, d) \in [DOMAIN m -> Int]
  BY <1>1 DEF ShiftMarks
<1> QED
  BY <1>1, <1>2, MarkMap

(* Each later clip of the track of c moves by the length of c, none else.   *)
Later(s, c, j) == s.clips[j].track = c.track /\ s.clips[j].start >= c.start
IsInserted(r, s, i, c) ==
  /\ r \in Timelines /\ Others(r, s)
  /\ DOMAIN r.clips = DOMAIN s.clips \cup {i} /\ r.clips[i] = c
  /\ \A j \in DOMAIN s.clips :
       r.clips[j] = IF Later(s, c, j) THEN Shifted(s.clips[j], c.end - c.start) ELSE s.clips[j]
  /\ DOMAIN r.keys = DOMAIN s.keys
  /\ \A k \in DOMAIN s.keys :
       /\ r.keys[k].owner = s.keys[k].owner
       /\ s.keys[k].owner \in DOMAIN s.clips =>
            r.keys[k].frame = IF Later(s, c, s.keys[k].owner)
                              THEN s.keys[k].frame + (c.end - c.start)
                              ELSE s.keys[k].frame
  /\ r.marks = ShiftMarks(s.marks, c.start, c.end - c.start)

LEMMA InsertedTimeline ==
  ASSUME NEW s \in Timelines, NEW i \in Clips, NEW c \in ClipRecords, i \notin DOMAIN s.clips
  PROVE  IsInserted(Inserted(s, i, c), s, i, c)
<1> DEFINE L == {j \in On(s, c.track) : s.clips[j].start >= c.start}
           n == c.end - c.start
           by == [j \in L |-> n]
           m == ShiftClips(s, by)
           w == With(m, i, c)
<1>1. n \in Int /\ c.start \in Int
  BY ClipTyped
<1>2. DOMAIN by = L /\ \A j \in L : by[j] = n
  OBVIOUS
<1> HIDE DEF n, by
<1>3. IsShifted(m, s, by)
  BY <1>1, <1>2, ShiftedTimeline
<1> HIDE DEF m
<1>4. IsExtended(w, m, i, c)
  BY <1>3, ExtendedTimeline DEF IsShifted
<1>5. Inserted(s, i, c) = [w EXCEPT !.marks = ShiftMarks(w.marks, c.start, n)]
  BY DEF Inserted, by, m, n
<1> HIDE DEF w
<1>6. w \in Timelines /\ w.marks = s.marks /\ w.keys = m.keys /\ Others(w, s)
  BY <1>3, <1>4 DEF IsShifted, IsExtended, Others
<1>7. ShiftMarks(w.marks, c.start, n) \in MarkMaps
  BY <1>1, <1>6, TimelineTyped, ShiftedMarks
<1> DEFINE x == ShiftMarks(w.marks, c.start, n)
           r == [w EXCEPT !.marks = x]
<1>8. x = ShiftMarks(s.marks, c.start, n)
  BY <1>6
<1> HIDE DEF x
<1>9. r \in Timelines /\ Others(r, w) /\ r.clips = w.clips /\ r.keys = w.keys /\ r.marks = x
  BY <1>6, <1>7, MarksReplaced DEF x
<1>10. Inserted(s, i, c) = r
  BY <1>5 DEF x
<1> HIDE DEF r
<1>11. \A j \in DOMAIN s.clips :
        j \in L <=> Later(s, c, j)
  BY DEF On, Later
<1> HIDE DEF L
<1>12. /\ DOMAIN r.clips = DOMAIN s.clips \cup {i} /\ r.clips[i] = c
       /\ \A j \in DOMAIN s.clips :
            r.clips[j] = IF j \in L THEN Shifted(s.clips[j], n) ELSE s.clips[j]
  BY <1>2, <1>3, <1>4, <1>9 DEF IsShifted, IsExtended
<1>13. /\ DOMAIN r.keys = DOMAIN s.keys
       /\ \A k \in DOMAIN s.keys :
            /\ r.keys[k].owner = s.keys[k].owner
            /\ r.keys[k].frame = IF s.keys[k].owner \in L THEN s.keys[k].frame + n
                                                          ELSE s.keys[k].frame
  BY <1>2, <1>3, <1>6, <1>9 DEF IsShifted
<1> QED
  BY <1>6, <1>8, <1>9, <1>10, <1>11, <1>12, <1>13 DEF Others, n, IsInserted
LEMMA InsertFine ==
  ASSUME Ready, NEW i \in Clips, i \notin DOMAIN doc.clips, NEW c \in ClipRecords, Insert(i, c)
  PROVE  Fine
<1> DEFINE r == Inserted(now, i, c)
<1>1. Writable(c.track) /\ Commit("insert", {i}, Finalize(r))
  BY DEF Insert
<1>2. IsInserted(r, now, i, c)
  BY Snapshot, InsertedTimeline
<1> HIDE DEF r
<1>3. ASSUME NEW j \in DOMAIN doc.clips
      PROVE  /\ doc.clips[j] \in ClipRecords
             /\ r.clips[j] = IF Later(now, c, j) THEN Shifted(doc.clips[j], c.end - c.start)
                                                ELSE doc.clips[j]
             /\ r.clips[j].track = doc.clips[j].track /\ r.clips[j].src = doc.clips[j].src
             /\ r.clips[j].start = IF Later(now, c, j) THEN doc.clips[j].start + (c.end - c.start)
                                                       ELSE doc.clips[j].start
  <2>1. doc.clips[j] \in ClipRecords /\ c.end - c.start \in Int
    BY DocClip, ClipTyped DEF Ready
  <2>2. r.clips[j] = IF Later(now, c, j) THEN Shifted(doc.clips[j], c.end - c.start)
                                         ELSE doc.clips[j]
    BY <1>2, Snapshot DEF IsInserted
  <2> QED
    BY <2>1, <2>2, ShiftedClip
<1>4. r \in Timelines /\ Others(r, now) /\ DOMAIN r.clips = DOMAIN doc.clips \cup {i}
      /\ r.clips[i] = c /\ IsFiniteSet(DOMAIN r.clips)
  BY <1>2, Snapshot, FS_AddElement DEF IsInserted
<1>5. Respects(r)
  <2> DEFINE T == {j \in DOMAIN doc.clips : Later(now, c, j)}
  <2>1. Open(T)
    BY <1>1, Snapshot DEF Open, Writable, Later
  <2>2. \A j \in DOMAIN doc.clips \ T : j \in DOMAIN r.clips /\ Matches(r.clips[j], doc.clips[j])
    BY <1>3, <1>4 DEF Matches
  <2>3. ASSUME NEW j \in DOMAIN r.clips
        PROVE  j \in DOMAIN doc.clips \ T \/ r.clips[j].track \notin doc.locked
    BY <1>1, <1>3, <1>4, <2>1 DEF Writable, Open
  <2> QED
    BY <2>1, <2>2, <2>3, Untouched
<1>6. Anchored(r)
  <2> SUFFICES ASSUME NEW k \in DOMAIN doc.keys \cap DOMAIN r.keys
               PROVE  AnchoredAt(r, k)
    BY AnchoredEach
  <2> DEFINE o == doc.keys[k].owner
  <2>1. o \in DOMAIN doc.clips /\ doc.keys[k].frame \in Int
    BY ReadyKey, DocKey DEF Ready
  <2>2. doc.clips[o].start \in Int /\ doc.clips[o].src \in Int /\ c.end - c.start \in Int
    BY <2>1, DocClip, ClipTyped DEF Ready
  <2>3. r.keys[k].owner = o
        /\ r.keys[k].frame = IF Later(now, c, o) THEN doc.keys[k].frame + (c.end - c.start)
                                                 ELSE doc.keys[k].frame
    BY <1>2, <2>1, Snapshot DEF IsInserted
  <2>4. o \in DOMAIN r.clips /\ r.clips[o].src = doc.clips[o].src
        /\ r.clips[o].start = IF Later(now, c, o) THEN doc.clips[o].start + (c.end - c.start)
                                                  ELSE doc.clips[o].start
    BY <1>3, <1>4, <2>1
  <2>5. doc.clips[o].src + doc.keys[k].frame - doc.clips[o].start
          = r.clips[o].src + r.keys[k].frame - r.clips[o].start
    BY <2>1, <2>2, <2>3, <2>4
  <2> QED
    BY <1>4, <2>3, <2>4, <2>5, AnchoredKey
<1> QED
  BY <1>1, <1>4, <1>5, <1>6, LocksKept, FinalizeFine

LEMMA OverwriteFine ==
  ASSUME Ready, NEW i \in Clips, i \notin DOMAIN doc.clips, NEW c \in ClipRecords,
         Overwrite(i, c)
  PROVE  Fine
<1> DEFINE U == {j \in On(doc, c.track) : Overlap(doc.clips[j], c)}
           m == RemoveClips(now, U)
           r == With(m, i, c)
<1>1. Writable(c.track) /\ Commit("overwrite", {i} \cup U, Finalize(r))
  BY DEF Overwrite
<1>2. Open(U)
  BY <1>1 DEF Open, Writable, On
<1> HIDE DEF U
<1>3. IsRemoved(m, now, U)
  BY Snapshot, RemovedTimeline
<1> HIDE DEF m
<1>4. IsExtended(r, m, i, c)
  BY <1>3, ExtendedTimeline DEF IsRemoved
<1> HIDE DEF r
<1>5. /\ r \in Timelines /\ Others(r, now)
      /\ DOMAIN r.clips = (DOMAIN doc.clips \ U) \cup {i} /\ r.clips[i] = c
      /\ \A j \in DOMAIN doc.clips \ U : r.clips[j] = doc.clips[j]
      /\ \A k \in DOMAIN r.keys : r.keys[k] = doc.keys[k] /\ doc.keys[k].owner \notin U
  BY <1>3, <1>4, Snapshot DEF IsRemoved, IsExtended, Others
<1>6. IsFiniteSet(DOMAIN r.clips)
  <2>1. IsFiniteSet(DOMAIN doc.clips \ U)
    BY Snapshot, FS_Difference
  <2> QED
    BY <1>5, <2>1, FS_AddElement
<1>7. Respects(r)
  <2>1. \A j \in DOMAIN doc.clips \ U : j \in DOMAIN r.clips /\ Matches(r.clips[j], doc.clips[j])
    BY <1>5 DEF Matches
  <2>2. \A j \in DOMAIN r.clips : j \in DOMAIN doc.clips \ U \/ r.clips[j].track \notin doc.locked
    BY <1>1, <1>5 DEF Writable
  <2> QED
    BY <1>2, <2>1, <2>2, Untouched
<1>8. Anchored(r)
  BY <1>5, ReadyKey, SameKeys
<1> QED
  BY <1>1, <1>5, <1>6, <1>7, <1>8, LocksKept, FinalizeFine

LEMMA ReplaceFine ==
  ASSUME Ready, NEW i \in DOMAIN doc.clips, NEW c \in ClipRecords, Replace(i, c)
  PROVE  Fine
<1> DEFINE e == [c EXCEPT !.bus = doc.clips[i].bus]
           r == With(now, i, e)
<1>1. ClipsWritable({i}) /\ Writable(c.track) /\ Commit("replace", {i}, Finalize(r))
  BY DEF Replace
<1>2. doc.clips[i].bus \in BOOLEAN
  BY DocClip, ClipTyped DEF Ready
<1>3. e \in ClipRecords /\ e.track = c.track
  BY <1>2, ClipSet DEF ClipRecords
<1> HIDE DEF e
<1>4. IsExtended(r, now, i, e)
  BY <1>3, Snapshot, ExtendedTimeline
<1> HIDE DEF r
<1>5. /\ r \in Timelines /\ Others(r, now) /\ DOMAIN r.clips = DOMAIN doc.clips
      /\ r.clips[i] = e /\ \A j \in DOMAIN doc.clips \ {i} : r.clips[j] = doc.clips[j]
      /\ IsFiniteSet(DOMAIN r.clips)
  BY <1>4, Snapshot DEF IsExtended
<1>6. Respects(r)
  <2>1. Open({i})
    BY <1>1, OpenClips
  <2>2. \A j \in DOMAIN doc.clips \ {i} : j \in DOMAIN r.clips /\ Matches(r.clips[j], doc.clips[j])
    BY <1>5 DEF Matches
  <2>3. \A j \in DOMAIN r.clips : j \in DOMAIN doc.clips \ {i} \/ r.clips[j].track \notin doc.locked
    BY <1>1, <1>3, <1>5 DEF Writable
  <2> QED
    BY <2>1, <2>2, <2>3, Untouched
<1>7. Excepted("replace", {i})
  BY DEF Excepted, Unanchored
<1> QED
  BY <1>1, <1>5, <1>6, <1>7, LocksKept, FinalizeFine

(* A clip that joins the others, none of which changes.                     *)
LEMMA JoinFine ==
  ASSUME Ready, NEW kind, NEW S, NEW j \in Clips, j \notin DOMAIN doc.clips,
         NEW e \in ClipRecords, e.track \notin doc.locked,
         Commit(kind, S, Finalize(With(now, j, e)))
  PROVE  Fine
<1> DEFINE r == With(now, j, e)
<1>1. IsExtended(r, now, j, e) /\ Commit(kind, S, Finalize(r))
  BY Snapshot, ExtendedTimeline
<1> HIDE DEF r
<1>2. /\ r \in Timelines /\ Others(r, now) /\ DOMAIN r.clips = DOMAIN doc.clips \cup {j}
      /\ r.clips[j] = e /\ \A i \in DOMAIN doc.clips : r.clips[i] = doc.clips[i]
      /\ r.keys = doc.keys /\ IsFiniteSet(DOMAIN r.clips)
  BY <1>1, Snapshot, FS_AddElement DEF IsExtended
<1>3. Respects(r)
  <2>1. \A i \in DOMAIN doc.clips \ {} : i \in DOMAIN r.clips /\ Matches(r.clips[i], doc.clips[i])
    BY <1>2 DEF Matches
  <2>2. \A i \in DOMAIN r.clips : i \in DOMAIN doc.clips \ {} \/ r.clips[i].track \notin doc.locked
    BY <1>2
  <2>3. Open({})
    BY DEF Open
  <2> QED
    BY <2>1, <2>2, <2>3, Untouched
<1>4. Anchored(r)
  BY <1>2, ReadyKey, SameKeys
<1> QED
  BY <1>1, <1>2, <1>3, <1>4, LocksKept, FinalizeFine

LEMMA CopyFine ==
  ASSUME Ready, NEW i \in DOMAIN doc.clips, NEW j \in Clips, j \notin DOMAIN doc.clips,
         NEW t \in TrackSet(doc), NEW d \in Int, Copy(i, j, t, d)
  PROVE  Fine
<1> DEFINE c == Shifted(now.clips[i], d)
           b == [c EXCEPT !.track = t]
           e == [b EXCEPT !.bus = FALSE]
<1>1. c \in ClipRecords
  BY DocClip, Snapshot, ShiftedClip DEF Ready
<1>2. [Shifted(now.clips[i], d) EXCEPT !.track = t, !.bus = FALSE] = e
  OBVIOUS
<1>3. Writable(t) /\ Commit("copy", {j}, Finalize(With(now, j, e)))
  BY <1>2 DEF Copy
<1> HIDE DEF c
<1>4. t \in Tracks
  BY Snapshot
<1>5. b \in ClipRecords /\ b.track = t
  BY <1>1, <1>4, ClipSet DEF ClipRecords
<1> HIDE DEF b
<1>6. e \in ClipRecords /\ e.track = t
  <2>1. e.track = b.track
    BY <1>5 DEF ClipRecords
  <2>2. e \in ClipRecords
    BY <1>5, ClipSet
  <2> QED
    BY <1>5, <2>1, <2>2
<1> HIDE DEF e
<1> QED
  BY <1>3, <1>6, JoinFine DEF Writable

LEMMA LinkFine ==
  ASSUME Ready, NEW S \in SUBSET DOMAIN doc.clips, NEW g \in Links \cup {None}, Link(S, g)
  PROVE  Fine
<1> DEFINE C == [i \in DOMAIN now.clips |->
                   IF i \in S THEN [now.clips[i] EXCEPT !.link = g] ELSE now.clips[i]]
           r == [now EXCEPT !.clips = C]
<1>1. Commit("link", S, r)
  BY DEF Link
<1>2. ASSUME NEW i \in DOMAIN doc.clips
      PROVE  C[i] \in ClipRecords /\ Matches(C[i], doc.clips[i])
  <2>1. doc.clips[i] \in ClipRecords
    BY DocClip DEF Ready
  <2>2. C[i] = IF i \in S THEN [doc.clips[i] EXCEPT !.link = g] ELSE doc.clips[i]
    BY Snapshot
  <2>3. LET e == [doc.clips[i] EXCEPT !.link = g] IN
        e \in ClipRecords /\ Matches(e, doc.clips[i])
    BY <2>1, ClipSet DEF ClipRecords, Matches
  <2> HIDE DEF C
  <2>4. Matches(doc.clips[i], doc.clips[i])
    BY DEF Matches
  <2> QED
    BY <2>1, <2>2, <2>3, <2>4
<1>3. C = [i \in DOMAIN now.clips |-> C[i]]
  OBVIOUS
<1> HIDE DEF C
<1>4. /\ r \in Timelines /\ Others(r, now) /\ r.keys = now.keys
      /\ r.clips = C /\ DOMAIN r.clips = DOMAIN now.clips
  BY <1>2, <1>3, Snapshot, ChangedClips
<1> HIDE DEF r
<1>5. Respects(r)
  <2>1. \A i \in DOMAIN doc.clips \ {} : i \in DOMAIN r.clips /\ Matches(r.clips[i], doc.clips[i])
    BY <1>2, <1>4, Snapshot
  <2>2. \A i \in DOMAIN r.clips : i \in DOMAIN doc.clips \ {} \/ r.clips[i].track \notin doc.locked
    BY <1>4, Snapshot
  <2>3. Open({})
    BY DEF Open
  <2> QED
    BY <2>1, <2>2, <2>3, Untouched
<1>6. Anchored(r)
  <2>1. \A i \in DOMAIN doc.clips : /\ r.clips[i].src = doc.clips[i].src
                                    /\ r.clips[i].start = doc.clips[i].start
    BY <1>2, <1>4 DEF Matches
  <2> QED
    BY <1>4, <2>1, Snapshot, ReadyKey, SameKeys
<1>7. IsFiniteSet(DOMAIN r.clips)
  BY <1>4, Snapshot
<1> QED
  BY <1>1, <1>4, <1>5, <1>6, <1>7, LocksKept, PlainFine
-----------------------------------------------------------------------------
(* Removing clips, and what leaves the clips alone.                         *)

LEMMA DeleteFine ==
  ASSUME Ready, NEW S \in SUBSET DOMAIN doc.clips, Delete(S)
  PROVE  Fine
<1> DEFINE r == RemoveClips(now, S)
<1>1. ClipsWritable(S) /\ Commit("delete", S, Finalize(r))
  BY DEF Delete
<1>2. IsRemoved(r, now, S)
  BY Snapshot, RemovedTimeline
<1> HIDE DEF r
<1>3. /\ r \in Timelines /\ Others(r, now) /\ DOMAIN r.clips = DOMAIN doc.clips \ S
      /\ \A j \in DOMAIN doc.clips \ S : r.clips[j] = doc.clips[j]
      /\ \A k \in DOMAIN r.keys : r.keys[k] = doc.keys[k] /\ doc.keys[k].owner \notin S
  BY <1>2, Snapshot DEF IsRemoved
<1>4. IsFiniteSet(DOMAIN r.clips)
  <2>1. IsFiniteSet(DOMAIN doc.clips \ S)
    BY Snapshot, FS_Difference
  <2> QED
    BY <1>3, <2>1
<1>5. Respects(r)
  BY <1>1, <1>3, OpenClips, Untouched DEF Matches
<1>6. Anchored(r)
  BY <1>3, ReadyKey, SameKeys
<1> QED
  BY <1>1, <1>3, <1>4, <1>5, <1>6, LocksKept, FinalizeFine

LEMMA BesidesFine ==
  ASSUME Ready, NEW kind, NEW S, NEW r \in Timelines, r.clips = doc.clips,
         r.locked \subseteq TrackSet(r),
         Excepted(kind, S) \/ \A k \in DOMAIN doc.keys \cap DOMAIN r.keys : r.keys[k] = doc.keys[k],
         Commit(kind, S, r)
  PROVE  Fine
<1>1. IsFiniteSet(DOMAIN r.clips) /\ Respects(r)
  BY Snapshot, SameClips
<1>2. Excepted(kind, S) \/ Anchored(r)
  <2>1. ASSUME ~Excepted(kind, S) PROVE Anchored(r)
    BY <2>1, ReadyKey, SameKeys
  <2> QED
    BY <2>1
<1> QED
  BY <1>1, <1>2, PlainFine

LEMMA SetRangeFine ==
  ASSUME Ready, NEW a \in Int, NEW b \in Int, SetRange(a, b)
  PROVE  Fine
<1> DEFINE x == [start |-> a, end |-> b]
           r == [now EXCEPT !.inOut = x]
<1>1. Commit("range", {}, r)
  BY DEF SetRange
<1>2. x \in InOuts
  BY DEF InOuts
<1> HIDE DEF x
<1>3. r \in Timelines /\ r.clips = doc.clips /\ r.locked = doc.locked /\ r.tracks = doc.tracks
      /\ r.keys = doc.keys
  BY <1>2, Snapshot DEF Timelines
<1> HIDE DEF r
<1>4. r.locked \subseteq TrackSet(r)
  BY <1>3, Snapshot DEF TrackSet
<1> QED
  BY <1>1, <1>3, <1>4, BesidesFine

LEMMA ClearRangeFine ==
  ASSUME Ready, ClearRange
  PROVE  Fine
<1> DEFINE r == [now EXCEPT !.inOut = None]
<1>1. Commit("range", {}, r)
  BY DEF ClearRange
<1>2. r \in Timelines /\ r.clips = doc.clips /\ r.locked = doc.locked /\ r.tracks = doc.tracks
      /\ r.keys = doc.keys
  BY Snapshot DEF Timelines, InOuts
<1> HIDE DEF r
<1>3. r.locked \subseteq TrackSet(r)
  BY <1>2, Snapshot DEF TrackSet
<1> QED
  BY <1>1, <1>2, <1>3, BesidesFine

LEMMA AddTrackFine ==
  ASSUME Ready, NEW t \in Tracks, NEW n \in 1 .. Len(doc.tracks) + 1, AddTrack(t, n)
  PROVE  Fine
<1> DEFINE r == Placed(now, t, n)
<1>1. Commit("track", {}, r)
  BY DEF AddTrack
<1>2. n \in 1 .. Len(now.tracks) + 1
  BY Snapshot
<1>3. /\ r \in Timelines /\ r.locked = now.locked /\ TrackSet(now) \subseteq TrackSet(r)
      /\ r.clips = now.clips /\ r.keys = now.keys
  BY <1>2, Snapshot, PlacedTrack
<1> HIDE DEF r
<1>4. r.locked \subseteq TrackSet(r) /\ r.clips = doc.clips /\ r.keys = doc.keys
  BY <1>3, Snapshot
<1> QED
  BY <1>1, <1>3, <1>4, BesidesFine

LEMMA LockTrackFine ==
  ASSUME Ready, NEW t, NEW on, LockTrack(t, on)
  PROVE  Fine
<1> DEFINE x == IF on THEN now.locked \cup {t} ELSE now.locked \ {t}
           r == [now EXCEPT !.locked = x]
<1>1. t \in TrackSet(doc) /\ Commit("track", {}, r)
  BY DEF LockTrack
<1>2. x \in SUBSET Tracks /\ x \subseteq TrackSet(doc)
  BY <1>1, Snapshot
<1> HIDE DEF x
<1>3. r \in Timelines /\ r.clips = doc.clips /\ r.locked = x /\ r.tracks = doc.tracks
      /\ r.keys = doc.keys
  BY <1>2, Snapshot DEF Timelines
<1> HIDE DEF r
<1>4. r.locked \subseteq TrackSet(r)
  BY <1>2, <1>3, Snapshot DEF TrackSet
<1> QED
  BY <1>1, <1>3, <1>4, BesidesFine

(* What is left without a track and its clips.                              *)
LEMMA TracklessTimeline ==
  ASSUME Ready, NEW t, NEW clipsToo, RemoveTrack(t, clipsToo)
  PROVE  LET S == On(doc, t) IN
         \E r \in Timelines :
           /\ Open(S) /\ Commit("delete", S, r)
           /\ r.locked \subseteq TrackSet(r) /\ IsFiniteSet(DOMAIN r.clips)
           /\ DOMAIN r.clips = DOMAIN doc.clips \ S
           /\ \A j \in DOMAIN doc.clips \ S : r.clips[j] = doc.clips[j]
           /\ \A k \in DOMAIN r.keys : r.keys[k] = doc.keys[k] /\ doc.keys[k].owner \notin S
<1> DEFINE S == On(doc, t)
           m == RemoveClips(now, S)
           n == CHOOSE n \in DOMAIN m.tracks : m.tracks[n] = t
           x == RemoveAt(m.tracks, n)
           y == m.routed \ {t}
           r == Retracked(m, x, y)
<1>1. Writable(t) /\ Commit("delete", S, r)
  BY DEF RemoveTrack, Retracked
<1>2. Open(S) /\ S \in SUBSET DOMAIN doc.clips
  BY <1>1 DEF Open, On, Writable
<1> HIDE DEF S
<1>3. IsRemoved(m, now, S)
  BY Snapshot, RemovedTimeline
<1> HIDE DEF m
<1>4. m \in Timelines /\ m.tracks = doc.tracks /\ m.tracks \in Seq(Tracks)
      /\ m.locked = doc.locked /\ m.routed \subseteq Tracks
  BY <1>3, Snapshot, TimelineTyped DEF IsRemoved, Others
<1>5. n \in 1 .. Len(m.tracks) /\ m.tracks[n] = t
  <2>1. \E l \in 1 .. Len(m.tracks) : m.tracks[l] = t
    BY <1>1, <1>4, Snapshot, TrackSetIn DEF Writable
  <2>2. DOMAIN m.tracks = 1 .. Len(m.tracks)
    BY <1>4
  <2> QED
    BY <2>1, <2>2
<1> HIDE DEF n
<1>6. /\ x \in Seq(Tracks)
      /\ \A l \in 1 .. Len(m.tracks) \ {n} : \E k \in 1 .. Len(x) : x[k] = m.tracks[l]
  BY <1>4, <1>5, RemovedTrack
<1>7. y \in SUBSET Tracks
  BY <1>4
<1> HIDE DEF x, y
<1>8. /\ r \in Timelines /\ r.tracks = x /\ r.locked = m.locked
      /\ r.clips = m.clips /\ r.keys = m.keys
  BY <1>4, <1>6, <1>7, TracksReplaced
<1> HIDE DEF r
<1>9. r.locked \subseteq TrackSet(r)
  <2> SUFFICES ASSUME NEW u \in doc.locked PROVE u \in TrackSet(r)
    BY <1>4, <1>8
  <2>1. u \in TrackSet(now) /\ u # t
    BY <1>1, Snapshot DEF Writable
  <2>2. PICK l \in 1 .. Len(m.tracks) : m.tracks[l] = u
    BY <1>4, <2>1, Snapshot, TrackSetIn
  <2>3. l \in 1 .. Len(m.tracks) \ {n}
    BY <1>5, <2>1, <2>2
  <2>4. PICK k \in 1 .. Len(x) : x[k] = u
    BY <1>6, <2>2, <2>3
  <2> QED
    BY <1>8, <2>4, TrackSetIn
<1>10. /\ DOMAIN r.clips = DOMAIN doc.clips \ S
       /\ \A j \in DOMAIN doc.clips \ S : r.clips[j] = doc.clips[j]
       /\ \A k \in DOMAIN r.keys : r.keys[k] = doc.keys[k] /\ doc.keys[k].owner \notin S
  BY <1>3, <1>8, Snapshot DEF IsRemoved
<1>11. IsFiniteSet(DOMAIN r.clips)
  <2>1. IsFiniteSet(DOMAIN doc.clips \ S)
    BY Snapshot, FS_Difference
  <2> QED
    BY <1>10, <2>1
<1> QED
  BY <1>1, <1>2, <1>8, <1>9, <1>10, <1>11 DEF S

LEMMA RemoveTrackFine ==
  ASSUME Ready, NEW t, NEW clipsToo, RemoveTrack(t, clipsToo)
  PROVE  Fine
<1> DEFINE S == On(doc, t)
<1>1. PICK r \in Timelines :
           /\ Open(S) /\ Commit("delete", S, r)
           /\ r.locked \subseteq TrackSet(r) /\ IsFiniteSet(DOMAIN r.clips)
           /\ DOMAIN r.clips = DOMAIN doc.clips \ S
           /\ \A j \in DOMAIN doc.clips \ S : r.clips[j] = doc.clips[j]
           /\ \A k \in DOMAIN r.keys : r.keys[k] = doc.keys[k] /\ doc.keys[k].owner \notin S
  BY TracklessTimeline
<1>2. S \in SUBSET DOMAIN doc.clips
  BY DEF On
<1> HIDE DEF S
<1>3. Respects(r)
  BY <1>1, <1>2, Untouched DEF Matches
<1>4. Anchored(r)
  BY <1>1, ReadyKey, SameKeys
<1> QED
  BY <1>1, <1>3, <1>4, PlainFine

LEMMA ReorderTracksFine ==
  ASSUME Ready, NEW order, ReorderTracks(order)
  PROVE  Fine
<1> DEFINE r == [now EXCEPT !.tracks = order]
<1>1. /\ order \in Seq(TrackSet(doc)) /\ Len(order) = Len(doc.tracks)
      /\ IsInjective(order) /\ Commit("track", {}, r)
  BY DEF ReorderTracks
<1>2. order \in Seq(Tracks) /\ TrackSet(doc) = {order[n] : n \in 1 .. Len(order)}
  BY <1>1, ReorderedTracks
<1>3. r \in Timelines /\ r.clips = doc.clips /\ r.locked = doc.locked /\ r.tracks = order
      /\ r.keys = doc.keys
  BY <1>2, Snapshot DEF Timelines
<1> HIDE DEF r
<1>4. r.locked \subseteq TrackSet(r)
  BY <1>2, <1>3, Snapshot, TrackSetIn
<1> QED
  BY <1>1, <1>3, <1>4, BesidesFine

LEMMA SetMarkFine ==
  ASSUME Ready, NEW m \in Marks, NEW f \in Int, SetMark(m, f)
  PROVE  Fine
<1> DEFINE x == Put(now.marks, m, f)
           r == [now EXCEPT !.marks = x]
<1>1. Commit("mark", {}, r)
  BY DEF SetMark
<1>2. x \in MarkMaps
  <2>1. DOMAIN now.marks \in SUBSET Marks /\ \A i \in DOMAIN now.marks : now.marks[i] \in Int
    BY Snapshot, TimelineTyped, MarkMapFacts
  <2>2. x \in [DOMAIN now.marks \cup {m} -> Int]
    BY <2>1 DEF Put
  <2>3. DOMAIN now.marks \cup {m} \in SUBSET Marks
    BY <2>1
  <2> QED
    BY <2>2, <2>3, MarkMap
<1> HIDE DEF x
<1>3. r \in Timelines /\ Others(r, now) /\ r.clips = now.clips /\ r.keys = now.keys
  BY <1>2, Snapshot, MarksReplaced
<1> HIDE DEF r
<1>4. r.locked \subseteq TrackSet(r) /\ r.clips = doc.clips /\ r.keys = doc.keys
  BY <1>3, LocksKept, Snapshot
<1> QED
  BY <1>1, <1>3, <1>4, BesidesFine

LEMMA RemoveMarkFine ==
  ASSUME Ready, NEW m, RemoveMark(m)
  PROVE  Fine
<1> DEFINE x == [i \in DOMAIN now.marks \ {m} |-> now.marks[i]]
           r == [now EXCEPT !.marks = x]
<1>1. Commit("mark", {}, r)
  BY DEF RemoveMark, Restrict
<1>2. x \in MarkMaps
  <2>1. DOMAIN now.marks \in SUBSET Marks /\ \A i \in DOMAIN now.marks : now.marks[i] \in Int
    BY Snapshot, TimelineTyped, MarkMapFacts
  <2>2. x \in [DOMAIN now.marks \ {m} -> Int] /\ DOMAIN now.marks \ {m} \in SUBSET Marks
    BY <2>1
  <2> QED
    BY <2>2, MarkMap
<1> HIDE DEF x
<1>3. r \in Timelines /\ Others(r, now) /\ r.clips = now.clips /\ r.keys = now.keys
  BY <1>2, Snapshot, MarksReplaced
<1> HIDE DEF r
<1>4. r.locked \subseteq TrackSet(r) /\ r.clips = doc.clips /\ r.keys = doc.keys
  BY <1>3, LocksKept, Snapshot
<1> QED
  BY <1>1, <1>3, <1>4, BesidesFine

LEMMA SetKeyFine ==
  ASSUME Ready, NEW k \in Keys, NEW i \in DOMAIN doc.clips, NEW f \in Int, SetKey(k, i, f)
  PROVE  Fine
<1> DEFINE v == [owner |-> i, frame |-> f]
           x == Put(now.keys, k, v)
           r == [now EXCEPT !.keys = x]
<1>1. Commit("key", {i}, r)
  BY DEF SetKey
<1>2. v \in KeyRecords
  BY Snapshot DEF KeyRecords
<1> HIDE DEF v
<1>3. x \in KeyMaps
  <2>1. DOMAIN now.keys \in SUBSET Keys /\ \A j \in DOMAIN now.keys : now.keys[j] \in KeyRecords
    BY Snapshot, TimelineTyped, KeyMapFacts
  <2>2. x \in [DOMAIN now.keys \cup {k} -> KeyRecords]
    BY <1>2, <2>1 DEF Put
  <2>3. DOMAIN now.keys \cup {k} \in SUBSET Keys
    BY <2>1
  <2> QED
    BY <2>2, <2>3, KeyMap
<1> HIDE DEF x
<1>4. r \in Timelines /\ Others(r, now) /\ r.clips = now.clips
  BY <1>3, Snapshot, KeysReplaced
<1> HIDE DEF r
<1>5. r.locked \subseteq TrackSet(r) /\ r.clips = doc.clips
  BY <1>4, LocksKept, Snapshot
<1>6. Excepted("key", {i})
  BY DEF Excepted, Unanchored
<1> QED
  BY <1>1, <1>4, <1>5, <1>6, BesidesFine

LEMMA RemoveKeyFine ==
  ASSUME Ready, NEW k, RemoveKey(k)
  PROVE  Fine
<1> DEFINE x == [j \in DOMAIN now.keys \ {k} |-> now.keys[j]]
           r == [now EXCEPT !.keys = x]
<1>1. Commit("key", {}, r)
  BY DEF RemoveKey, Restrict
<1>2. x \in KeyMaps
  <2>1. DOMAIN now.keys \in SUBSET Keys /\ \A j \in DOMAIN now.keys : now.keys[j] \in KeyRecords
    BY Snapshot, TimelineTyped, KeyMapFacts
  <2>2. x \in [DOMAIN now.keys \ {k} -> KeyRecords] /\ DOMAIN now.keys \ {k} \in SUBSET Keys
    BY <2>1
  <2> QED
    BY <2>2, KeyMap
<1> HIDE DEF x
<1>3. r \in Timelines /\ Others(r, now) /\ r.clips = now.clips
  BY <1>2, Snapshot, KeysReplaced
<1> HIDE DEF r
<1>4. r.locked \subseteq TrackSet(r) /\ r.clips = doc.clips
  BY <1>3, LocksKept, Snapshot
<1>5. Excepted("key", {})
  BY DEF Excepted, Unanchored
<1> QED
  BY <1>1, <1>3, <1>4, <1>5, BesidesFine
-----------------------------------------------------------------------------
(* Professional edits.                                                      *)

(* The clips of T changed to those of C, which are on the same tracks.      *)
LEMMA AlteredTimeline ==
  ASSUME Ready, NEW T, Open(T), NEW C, C = [i \in DOMAIN doc.clips |-> C[i]],
         \A i \in DOMAIN doc.clips :
           /\ C[i] \in ClipRecords /\ C[i].track = doc.clips[i].track
           /\ i \notin T => Matches(C[i], doc.clips[i])
  PROVE  LET r == [now EXCEPT !.clips = C] IN
         /\ r \in Timelines /\ Others(r, now) /\ r.keys = doc.keys /\ r.clips = C
         /\ DOMAIN r.clips = DOMAIN doc.clips /\ IsFiniteSet(DOMAIN r.clips)
         /\ Respects(r)
<1> DEFINE r == [now EXCEPT !.clips = C]
<1>1. /\ r \in Timelines /\ Others(r, now) /\ r.keys = now.keys
      /\ r.clips = C /\ DOMAIN r.clips = DOMAIN now.clips
  BY Snapshot, ChangedClips
<1> HIDE DEF r
<1>2. Respects(r)
  <2>1. \A i \in DOMAIN doc.clips \ T : i \in DOMAIN r.clips /\ Matches(r.clips[i], doc.clips[i])
    BY <1>1, Snapshot
  <2>2. \A i \in DOMAIN r.clips : i \in DOMAIN doc.clips \ T \/ r.clips[i].track \notin doc.locked
    BY <1>1, Snapshot DEF Open
  <2> QED
    BY <2>1, <2>2, Untouched
<1>3. IsFiniteSet(DOMAIN r.clips) /\ DOMAIN r.clips = DOMAIN doc.clips /\ r.keys = doc.keys
  BY <1>1, Snapshot
<1> QED
  BY <1>1, <1>2, <1>3 DEF r

LEMMA RolledClips ==
  ASSUME Ready, NEW i \in DOMAIN doc.clips, NEW j \in DOMAIN doc.clips, NEW f,
         NEW linked \in BOOLEAN, Roll(i, j, f, linked), NEW p \in RollPairs(i, j, linked)
  PROVE  /\ p[1] \in DOMAIN doc.clips /\ p[2] \in DOMAIN doc.clips
         /\ Writable(doc.clips[p[1]].track) /\ Writable(doc.clips[p[2]].track)
<1>1. /\ ClipsWritable({i, j}) /\ (linked => ClipsWritable(Linked(i) \cup Linked(j)))
  BY DEF Roll
<1>2. CASE ~linked \/ Linked(i) = {} \/ Linked(j) = {}
  <2>1. p = <<i, j>>
    BY <1>2 DEF RollPairs
  <2> QED
    BY <1>1, <2>1 DEF ClipsWritable
<1>3. CASE ~(~linked \/ Linked(i) = {} \/ Linked(j) = {})
  <2>1. PICK q \in {q \in Linked(i) : \E x \in Linked(j) : Adjacent(q, x)} :
          p = <<q, Min({x \in Linked(j) : Adjacent(q, x)})>>
    BY <1>3 DEF RollPairs
  <2> DEFINE M == {x \in Linked(j) : Adjacent(q, x)}
  <2>2. M \in SUBSET Nat /\ M # {}
    BY <2>1, Snapshot, TimelineAssumption DEF Linked
  <2>3. Min(M) \in Linked(j)
    <3>1. Min(M) \in M
      <4> HIDE DEF M
      <4> QED BY <2>2, MinIn
    <3> QED
      BY <3>1
  <2>4. p[1] = q /\ p[2] = Min(M)
    BY <2>1
  <2> QED
    BY <1>1, <1>3, <2>1, <2>3, <2>4 DEF ClipsWritable, Linked
<1> QED
  BY <1>2, <1>3

LEMMA RollFine ==
  ASSUME Ready, NEW i \in DOMAIN doc.clips, NEW j \in DOMAIN doc.clips, NEW f \in Int,
         NEW linked \in BOOLEAN, Roll(i, j, f, linked)
  PROVE  Fine
<1> DEFINE pairs == RollPairs(i, j, linked)
           S == {p[1] : p \in pairs} \cup {p[2] : p \in pairs}
           C == [c \in DOMAIN now.clips |->
              IF \E p \in pairs : c = p[2] THEN StartAt(now.clips[c], f)
              ELSE IF \E p \in pairs : c = p[1] THEN EndAt(now.clips[c], f) ELSE now.clips[c]]
           r == [now EXCEPT !.clips = C]
<1>1. Commit("roll", S, Fit(r))
  BY DEF Roll
<1>2. Open(S)
  BY RolledClips DEF Open, Writable
<1>3. ASSUME NEW c \in DOMAIN doc.clips
      PROVE  /\ C[c] \in ClipRecords /\ C[c].track = doc.clips[c].track
             /\ c \notin S => Matches(C[c], doc.clips[c])
             /\ Still(doc.clips[c]) \/
                  C[c].src - C[c].start = doc.clips[c].src - doc.clips[c].start
  <2>1. /\ doc.clips[c] \in ClipRecords /\ now.clips = doc.clips
        /\ doc.clips[c].src \in Int /\ doc.clips[c].start \in Int
    BY DocClip, Snapshot, ClipTyped DEF Ready
  <2> DEFINE e == doc.clips[c]
  <2>2. CASE \E p \in pairs : c = p[2]
    <3>1. C[c] = StartAt(e, f) /\ c \in S
      BY <2>1, <2>2
    <3>2. e \in ClipRecords /\ e.src \in Int /\ e.start \in Int
      BY <2>1
    <3> HIDE DEF C, S, e
    <3>3. /\ StartAt(e, f) \in ClipRecords
          /\ StartAt(e, f).start = f /\ StartAt(e, f).track = e.track
          /\ StartAt(e, f).src = (IF Still(e) THEN e.src ELSE e.src + f - e.start)
      BY <3>2, StartAtClip
    <3> QED
      BY <3>1, <3>2, <3>3 DEF e
  <2>3. CASE ~(\E p \in pairs : c = p[2]) /\ \E p \in pairs : c = p[1]
    <3>1. C[c] = EndAt(e, f) /\ c \in S
      BY <2>1, <2>3
    <3>2. e \in ClipRecords
      BY <2>1
    <3> HIDE DEF C, S, e
    <3>3. /\ EndAt(e, f) \in ClipRecords /\ EndAt(e, f).track = e.track
          /\ EndAt(e, f).start = e.start /\ EndAt(e, f).src = e.src
      BY <3>2, EndAtClip
    <3> QED
      BY <3>1, <3>3 DEF e
  <2>4. CASE ~(\E p \in pairs : c = p[2]) /\ ~(\E p \in pairs : c = p[1])
    <3>1. C[c] = doc.clips[c]
      BY <2>1, <2>4
    <3> HIDE DEF C, S
    <3> QED
      BY <2>1, <3>1 DEF Matches
  <2> QED
    BY <2>2, <2>3, <2>4
<1>4. C = [c \in DOMAIN doc.clips |-> C[c]]
  BY Snapshot
<1> HIDE DEF C, S
<1>5. /\ r \in Timelines /\ Others(r, now) /\ r.keys = doc.keys /\ r.clips = C
      /\ DOMAIN r.clips = DOMAIN doc.clips /\ IsFiniteSet(DOMAIN r.clips) /\ Respects(r)
  BY <1>2, <1>3, <1>4, AlteredTimeline
<1> HIDE DEF r
<1>6. Anchored(r)
  <2> SUFFICES ASSUME NEW k \in DOMAIN doc.keys \cap DOMAIN r.keys
               PROVE  AnchoredAt(r, k)
    BY AnchoredEach
  <2> DEFINE o == doc.keys[k].owner
  <2>1. o \in DOMAIN doc.clips /\ doc.keys[k].frame \in Int /\ doc.clips[o] \in ClipRecords
    BY ReadyKey, DocKey, DocClip DEF Ready
  <2>2. /\ doc.clips[o].src \in Int /\ doc.clips[o].start \in Int
        /\ C[o].src \in Int /\ C[o].start \in Int
    BY <1>3, <2>1, ClipTyped
  <2>3. r.keys[k].owner = o /\ r.keys[k].frame = doc.keys[k].frame /\ r.clips[o] = C[o]
    BY <1>5
  <2>4. Still(doc.clips[o]) \/ C[o].src - C[o].start = doc.clips[o].src - doc.clips[o].start
    BY <1>3, <2>1
  <2>5. Still(doc.clips[o]) \/
          doc.clips[o].src + doc.keys[k].frame - doc.clips[o].start
            = C[o].src + r.keys[k].frame - C[o].start
    BY <2>1, <2>2, <2>3, <2>4
  <2> QED
    BY <1>5, <2>1, <2>3, <2>5, AnchoredKey
<1> QED
  BY <1>1, <1>5, <1>6, LocksKept, FitFine

LEMMA GroupIn ==
  ASSUME NEW i \in DOMAIN doc.clips, NEW linked \in BOOLEAN
  PROVE  Group(i, linked) \in SUBSET DOMAIN doc.clips
  BY DEF Group, Linked

LEMMA SlipFine ==
  ASSUME Ready, NEW i \in DOMAIN doc.clips, NEW d \in Int, NEW linked \in BOOLEAN,
         Slip(i, d, linked)
  PROVE  Fine
<1> DEFINE S == Group(i, linked)
           Slipped(c) == [c EXCEPT !.src = @ + d, !.srcEnd = @ + d]
           C == [c \in DOMAIN now.clips |-> IF c \in S THEN Slipped(now.clips[c]) ELSE now.clips[c]]
           r == [now EXCEPT !.clips = C]
<1>1. ClipsWritable(S) /\ Commit("slip", S, r)
  BY DEF Slip
<1>2. Open(S)
  BY <1>1, GroupIn, OpenClips
<1> HIDE DEF S
<1>3. ASSUME NEW c \in DOMAIN doc.clips
      PROVE  /\ C[c] \in ClipRecords /\ C[c].track = doc.clips[c].track
             /\ c \notin S => Matches(C[c], doc.clips[c])
  <2> DEFINE e == doc.clips[c]
             g == [e EXCEPT !.src = e.src + d]
             h == [g EXCEPT !.srcEnd = e.srcEnd + d]
  <2>1. e \in ClipRecords /\ now.clips = doc.clips /\ e.src + d \in Int /\ e.srcEnd + d \in Int
    BY DocClip, Snapshot, ClipTyped DEF Ready
  <2>2. C[c] = IF c \in S THEN h ELSE e
    BY <2>1 DEF ClipRecords
  <2>3. h \in ClipRecords /\ h.track = e.track
    <3>1. g \in ClipRecords /\ g.track = e.track
      <4> HIDE DEF e
      <4> QED BY <2>1, ClipSet DEF ClipRecords
    <3> HIDE DEF g, e
    <3>2. h \in ClipRecords
      BY <2>1, <3>1, ClipSet
    <3>3. h.track = g.track
      BY <3>1 DEF ClipRecords
    <3> QED
      BY <3>1, <3>2, <3>3
  <2>4. Matches(e, e)
    BY DEF Matches
  <2> HIDE DEF C, h
  <2> QED
    BY <2>1, <2>2, <2>3, <2>4
<1>4. C = [c \in DOMAIN doc.clips |-> C[c]]
  BY Snapshot
<1> HIDE DEF C
<1>5. /\ r \in Timelines /\ Others(r, now) /\ IsFiniteSet(DOMAIN r.clips) /\ Respects(r)
  BY <1>2, <1>3, <1>4, AlteredTimeline
<1>6. Excepted("slip", S)
  BY DEF Excepted, Unanchored
<1> HIDE DEF r
<1> QED
  BY <1>1, <1>5, <1>6, LocksKept, PlainFine

LEMMA FirstAndLast ==
  ASSUME Ready, NEW S \in SUBSET DOMAIN doc.clips, S # {}
  PROVE  /\ \E i \in S : ~\E k \in S : Earlier(k, i)
         /\ \E i \in S : ~\E k \in S : Earlier(i, k)
<1> DEFINE F == {doc.clips[i].start : i \in S}
<1>1. \A i \in S : doc.clips[i].start \in Int /\ i \in Int
  BY DocClip, ClipTyped DEF Ready
<1>2. IsFiniteSet(S)
  BY Snapshot, FS_Subset
<1>3. IsFiniteSet(F) /\ F \in SUBSET Int /\ F # {}
  <2> DEFINE g == [i \in S |-> doc.clips[i].start]
  <2>1. g \in Surjection(S, F)
    BY DEF Surjection
  <2>2. IsFiniteSet(F)
    BY <1>2, <2>1, FS_Surjection
  <2> QED
    BY <1>1, <2>2
<1>4. \E i \in S : ~\E k \in S : Earlier(k, i)
  <2>1. PICK x \in F : \A y \in F : x =< y
    <3> HIDE DEF F
    <3> QED BY <1>3, Extremes
  <2> DEFINE I == {i \in S : doc.clips[i].start = x}
  <2>2. IsFiniteSet(I) /\ I \in SUBSET Int /\ I # {}
    BY <1>1, <1>2, <2>1, FS_Subset
  <2>3. PICK i \in I : \A y \in I : i =< y
    <3> HIDE DEF I
    <3> QED BY <2>2, Extremes
  <2>4. ASSUME NEW k \in S, Earlier(k, i) PROVE FALSE
    <3>1. x =< doc.clips[k].start /\ doc.clips[i].start = x /\ i \in S
      BY <2>1, <2>3
    <3>2. doc.clips[k].start = x /\ k < i
      BY <1>1, <2>4, <3>1 DEF Earlier
    <3> QED
      BY <1>1, <2>3, <3>1, <3>2
  <2> QED
    BY <2>3, <2>4
<1>5. \E i \in S : ~\E k \in S : Earlier(i, k)
  <2>1. PICK x \in F : \A y \in F : x >= y
    <3> HIDE DEF F
    <3> QED BY <1>3, Extremes
  <2> DEFINE I == {i \in S : doc.clips[i].start = x}
  <2>2. IsFiniteSet(I) /\ I \in SUBSET Int /\ I # {}
    BY <1>1, <1>2, <2>1, FS_Subset
  <2>3. PICK i \in I : \A y \in I : i >= y
    <3> HIDE DEF I
    <3> QED BY <2>2, Extremes
  <2>4. ASSUME NEW k \in S, Earlier(i, k) PROVE FALSE
    <3>1. x >= doc.clips[k].start /\ doc.clips[i].start = x /\ i \in S
      BY <2>1, <2>3
    <3>2. doc.clips[k].start = x /\ i < k
      BY <1>1, <2>4, <3>1 DEF Earlier
    <3> QED
      BY <1>1, <2>3, <3>1, <3>2
  <2> QED
    BY <2>3, <2>4
<1> QED
  BY <1>4, <1>5

LEMMA CompoundFine ==
  ASSUME Ready, NEW S \in SUBSET DOMAIN doc.clips, NEW j \in Clips, j \notin DOMAIN doc.clips,
         Compound(S, j)
  PROVE  Fine
<1> DEFINE first == CHOOSE i \in S : ~\E k \in S : Earlier(k, i)
           last == CHOOSE i \in S : ~\E k \in S : Earlier(i, k)
           n == doc.clips[last].end - doc.clips[first].start
           c == NewClip(doc.clips[first].track, doc.clips[first].start, n, 0)
           b == [c EXCEPT !.asset = None]
           e == [b EXCEPT !.nested = TRUE]
           m == RemoveClips(now, S)
           r == With(m, j, e)
<1>1. [c EXCEPT !.asset = None, !.nested = TRUE] = e
  OBVIOUS
<1>2. /\ S # {} /\ ClipsWritable(S) /\ Commit("compound", S \cup {j}, Fit(r))
  BY <1>1 DEF Compound
<1>3. first \in S /\ last \in S
  <2>1. (\E i \in S : ~\E k \in S : Earlier(k, i)) /\ (\E i \in S : ~\E k \in S : Earlier(i, k))
    BY <1>2, FirstAndLast
  <2> QED
    BY <2>1
<1> HIDE DEF first, last
<1>4. doc.clips[first].track \notin doc.locked /\ doc.clips[first].track \in TrackSet(doc)
      /\ n \in Int /\ doc.clips[first].start \in Int
  BY <1>2, <1>3, DocClip, ClipTyped DEF ClipsWritable, Writable, Ready
<1> HIDE DEF n
<1>5. c \in ClipRecords /\ c.track = doc.clips[first].track
  <2>1. c \in ClipRecords
    BY <1>4, NewClipTyped
  <2>2. c.track = doc.clips[first].track
    BY DEF NewClip
  <2> QED
    BY <2>1, <2>2
<1> HIDE DEF c
<1>6. b \in ClipRecords /\ b.track = c.track
  BY <1>5 DEF ClipRecords
<1> HIDE DEF b
<1>7. e \in ClipRecords /\ e.track = b.track
  BY <1>6 DEF ClipRecords
<1> HIDE DEF e
<1>8. IsRemoved(m, now, S)
  BY Snapshot, RemovedTimeline
<1> HIDE DEF m
<1>9. IsExtended(r, m, j, e)
  BY <1>7, <1>8, ExtendedTimeline DEF IsRemoved
<1> HIDE DEF r
<1>10. /\ r \in Timelines /\ Others(r, now)
       /\ DOMAIN r.clips = (DOMAIN doc.clips \ S) \cup {j} /\ r.clips[j] = e
       /\ \A i \in DOMAIN doc.clips \ S : r.clips[i] = doc.clips[i]
       /\ \A k \in DOMAIN r.keys : r.keys[k] = doc.keys[k] /\ doc.keys[k].owner \notin S
  BY <1>8, <1>9, Snapshot DEF IsRemoved, IsExtended, Others
<1>11. IsFiniteSet(DOMAIN r.clips)
  <2>1. IsFiniteSet(DOMAIN doc.clips \ S)
    BY Snapshot, FS_Difference
  <2> QED
    BY <1>10, <2>1, FS_AddElement
<1>12. Respects(r)
  <2>1. Open(S)
    BY <1>2, OpenClips
  <2>2. \A i \in DOMAIN doc.clips \ S : i \in DOMAIN r.clips /\ Matches(r.clips[i], doc.clips[i])
    BY <1>10 DEF Matches
  <2>3. \A i \in DOMAIN r.clips : i \in DOMAIN doc.clips \ S \/ r.clips[i].track \notin doc.locked
    BY <1>4, <1>5, <1>6, <1>7, <1>10
  <2> QED
    BY <2>1, <2>2, <2>3, Untouched
<1>13. Anchored(r)
  BY <1>10, ReadyKey, SameKeys
<1> QED
  BY <1>2, <1>10, <1>11, <1>12, <1>13, LocksKept, FitFine
-----------------------------------------------------------------------------
(* Splitting and sliding.                                                   *)

Recut(s, C, K) == [s EXCEPT !.clips = C, !.keys = K]

LEMMA PartsReplaced ==
  ASSUME NEW s \in Timelines, NEW C \in ClipMaps, NEW K \in KeyMaps
  PROVE  /\ Recut(s, C, K) \in Timelines /\ Others(Recut(s, C, K), s)
         /\ Recut(s, C, K).clips = C /\ Recut(s, C, K).keys = K
         /\ Recut(s, C, K).marks = s.marks
<1> DEFINE e == [s EXCEPT !.clips = C]
<1>1. e \in Timelines /\ Others(e, s) /\ e.clips = C /\ e.marks = s.marks
  BY ClipsReplaced
<1>2. Recut(s, C, K) = [e EXCEPT !.keys = K]
  BY DEF Recut
<1> HIDE DEF e
<1>3. LET r == [e EXCEPT !.keys = K] IN
      r \in Timelines /\ Others(r, e) /\ r.clips = e.clips /\ r.keys = K /\ r.marks = e.marks
  BY <1>1, KeysReplaced
<1> QED
  BY <1>1, <1>2, <1>3 DEF Others

(* What is right of the cut in clip c.                                      *)
RightPart(c, at) == [StartAt(c, at) EXCEPT !.bus = FALSE]

LEMMA RightPartClip ==
  ASSUME NEW c \in ClipRecords, NEW at \in Int
  PROVE  LET e == RightPart(c, at) IN
         /\ e \in ClipRecords /\ e.track = c.track /\ e.start = at /\ e.end = c.end
         /\ e.src = (IF Still(c) THEN c.src ELSE c.src + at - c.start)
         /\ e.srcEnd = c.srcEnd /\ e.avail = c.avail /\ e.asset = c.asset
<1> DEFINE g == StartAt(c, at)
<1>1. /\ g \in ClipRecords /\ g.track = c.track /\ g.start = at /\ g.end = c.end
      /\ g.src = (IF Still(c) THEN c.src ELSE c.src + at - c.start)
      /\ g.srcEnd = c.srcEnd /\ g.avail = c.avail /\ g.asset = c.asset
  BY StartAtClip
<1> HIDE DEF g
<1>2. LET e == [g EXCEPT !.bus = FALSE] IN
      /\ e \in ClipRecords /\ e.track = g.track /\ e.start = g.start /\ e.end = g.end
      /\ e.src = g.src /\ e.srcEnd = g.srcEnd /\ e.avail = g.avail /\ e.asset = g.asset
  BY <1>1 DEF ClipRecords
<1>3. RightPart(c, at) = [g EXCEPT !.bus = FALSE]
  BY DEF RightPart, g
<1> QED
  BY <1>1, <1>2, <1>3

(* What r is to the snapshot when the clips of S are cut.                   *)
IsSplit(r, S, right, at) ==
  /\ r \in Timelines /\ Others(r, now) /\ r.marks = now.marks
  /\ IsFiniteSet(DOMAIN r.clips)
  /\ DOMAIN r.clips = DOMAIN doc.clips \cup {right[i] : i \in S}
  /\ \A i \in S : r.clips[right[i]] = RightPart(doc.clips[i], at)
  /\ \A i \in S : r.clips[i] = EndAt(doc.clips[i], at)
  /\ \A i \in DOMAIN doc.clips \ S : r.clips[i] = doc.clips[i]
  /\ DOMAIN r.keys = DOMAIN doc.keys
  /\ \A k \in DOMAIN doc.keys :
       /\ r.keys[k].frame = doc.keys[k].frame
       /\ r.keys[k].owner = IF doc.keys[k].owner \in S /\ doc.keys[k].frame >= at
                            THEN right[doc.keys[k].owner] ELSE doc.keys[k].owner

LEMMA SplitTimeline ==
  ASSUME Ready, NEW S \in SUBSET DOMAIN doc.clips, NEW right \in [S -> Free],
         IsInjective(right), NEW at \in Int, Split(S, right, at)
  PROVE  \E r : IsSplit(r, S, right, at) /\ Commit("split", S \cup Range(right), r)
<1> DEFINE R == Range(right)
           RightOf(j) == [StartAt(now.clips[CHOOSE i \in S : right[i] = j], at)
                            EXCEPT !.bus = FALSE]
           C == [i \in DOMAIN now.clips \cup R |->
                   IF i \in R THEN RightOf(i)
                   ELSE IF i \in S THEN EndAt(now.clips[i], at) ELSE now.clips[i]]
           K == [k \in DOMAIN now.keys |->
                   IF now.keys[k].owner \in S /\ now.keys[k].frame >= at
                   THEN [now.keys[k] EXCEPT !.owner = right[now.keys[k].owner]]
                   ELSE now.keys[k]]
           r == Recut(now, C, K)
<1>1. Commit("split", S \cup R, r)
  BY DEF Split, Recut
<1>2. R = {right[i] : i \in S} /\ R \subseteq Clips \ DOMAIN doc.clips
  BY DEF Range, Free
<1>3. /\ now.clips = doc.clips /\ now.keys = doc.keys /\ DOMAIN doc.clips \subseteq Clips
      /\ \A i \in DOMAIN doc.clips : doc.clips[i] \in ClipRecords
  BY Snapshot, DocClip DEF Ready
<1>4. ASSUME NEW i \in S
      PROVE  C[right[i]] = RightPart(doc.clips[i], at) /\ C[i] = EndAt(doc.clips[i], at)
  <2>1. (CHOOSE x \in S : right[x] = right[i]) = i
    BY DEF IsInjective
  <2>2. right[i] \in R /\ i \notin R /\ i \in DOMAIN now.clips
    BY <1>2, <1>3
  <2>3. C[right[i]] = RightOf(right[i]) /\ C[i] = EndAt(doc.clips[i], at)
    BY <1>3, <2>2
  <2> QED
    BY <1>3, <2>1, <2>3 DEF RightPart
<1>5. \A i \in DOMAIN doc.clips \ S : C[i] = doc.clips[i]
  BY <1>2, <1>3
<1>6. DOMAIN C = DOMAIN doc.clips \cup R /\ C = [i \in DOMAIN C |-> C[i]]
  BY <1>3
<1> HIDE DEF R, C
<1>7. C \in ClipMaps
  <2>1. \A i \in DOMAIN C : C[i] \in ClipRecords
    <3>1. \A i \in S : C[right[i]] \in ClipRecords /\ C[i] \in ClipRecords
      BY <1>3, <1>4, RightPartClip, EndAtClip
    <3>2. \A i \in DOMAIN doc.clips \ S : C[i] \in ClipRecords
      BY <1>3, <1>5
    <3> QED
      BY <1>2, <1>6, <3>1, <3>2
  <2>2. DOMAIN C \in SUBSET Clips
    BY <1>2, <1>3, <1>6
  <2>3. C \in [DOMAIN C -> ClipRecords]
    BY <1>6, <2>1
  <2> QED
    BY <2>2, <2>3, ClipMap
<1>8. ASSUME NEW k \in DOMAIN doc.keys
      PROVE  /\ K[k] \in KeyRecords /\ K[k].frame = doc.keys[k].frame
             /\ K[k].owner = IF doc.keys[k].owner \in S /\ doc.keys[k].frame >= at
                             THEN right[doc.keys[k].owner] ELSE doc.keys[k].owner
  <2>1. doc.keys[k] \in KeyRecords
    BY DocKey DEF Ready
  <2>2. K[k] = IF doc.keys[k].owner \in S /\ doc.keys[k].frame >= at
               THEN [doc.keys[k] EXCEPT !.owner = right[doc.keys[k].owner]]
               ELSE doc.keys[k]
    BY <1>3
  <2> HIDE DEF K
  <2>3. CASE doc.keys[k].owner \in S /\ doc.keys[k].frame >= at
    <3>1. right[doc.keys[k].owner] \in Clips
      BY <1>2, <2>3
    <3> QED
      BY <2>1, <2>2, <2>3, <3>1 DEF KeyRecords
  <2>4. CASE ~(doc.keys[k].owner \in S /\ doc.keys[k].frame >= at)
    BY <2>1, <2>2, <2>4
  <2> QED
    BY <2>3, <2>4
<1>9. K \in KeyMaps /\ DOMAIN K = DOMAIN doc.keys
  <2>1. K = [k \in DOMAIN doc.keys |-> K[k]] /\ DOMAIN K = DOMAIN doc.keys
    BY <1>3
  <2> HIDE DEF K
  <2>2. K \in [DOMAIN doc.keys -> KeyRecords]
    BY <1>8, <2>1
  <2>3. DOMAIN doc.keys \in SUBSET Keys
    BY DocKey DEF Ready
  <2> QED
    BY <2>1, <2>2, <2>3, KeyMap
<1> HIDE DEF K
<1>10. /\ r \in Timelines /\ Others(r, now) /\ r.clips = C /\ r.keys = K /\ r.marks = now.marks
  BY <1>7, <1>9, Snapshot, PartsReplaced
<1> HIDE DEF r
<1>11. IsFiniteSet(DOMAIN r.clips)
  <2>1. IsFiniteSet(S)
    BY Snapshot, FS_Subset
  <2>2. right \in Surjection(S, R)
    BY <1>2 DEF Surjection
  <2>3. IsFiniteSet(R) /\ IsFiniteSet(DOMAIN doc.clips)
    BY <2>1, <2>2, Snapshot, FS_Surjection
  <2>4. IsFiniteSet(DOMAIN doc.clips \cup R)
    BY <2>3, FS_Union
  <2> QED
    BY <1>6, <1>10, <2>4
<1>12. IsSplit(r, S, right, at)
  BY <1>2, <1>4, <1>5, <1>6, <1>8, <1>9, <1>10, <1>11 DEF IsSplit
<1> QED
  BY <1>1, <1>12 DEF R

LEMMA SplitFine ==
  ASSUME Ready, NEW S \in SUBSET DOMAIN doc.clips, NEW right \in [S -> Free],
         IsInjective(right), NEW at \in Int, Split(S, right, at)
  PROVE  Fine
<1>1. PICK r : IsSplit(r, S, right, at) /\ Commit("split", S \cup Range(right), r)
  BY SplitTimeline
<1>2. ClipsWritable(S)
  BY DEF Split
<1>3. \A i \in DOMAIN doc.clips : doc.clips[i] \in ClipRecords
  BY DocClip DEF Ready
<1>4. \A i \in S : /\ r.clips[right[i]].track = doc.clips[i].track
                   /\ r.clips[i].track = doc.clips[i].track
  BY <1>1, <1>3, RightPartClip, EndAtClip DEF IsSplit
<1>5. Respects(r)
  <2>1. Open(S)
    BY <1>2, OpenClips
  <2>2. \A i \in DOMAIN doc.clips \ S : i \in DOMAIN r.clips /\ Matches(r.clips[i], doc.clips[i])
    BY <1>1 DEF Matches, IsSplit
  <2>3. ASSUME NEW i \in DOMAIN r.clips
        PROVE  i \in DOMAIN doc.clips \ S \/ r.clips[i].track \notin doc.locked
    <3>1. CASE i \in DOMAIN doc.clips
      BY <1>4, <2>1, <3>1 DEF Open
    <3>2. CASE i \notin DOMAIN doc.clips
      <4>1. PICK x \in S : i = right[x]
        BY <1>1, <3>2 DEF IsSplit
      <4> QED
        BY <1>4, <2>1, <4>1 DEF Open
    <3> QED
      BY <3>1, <3>2
  <2> QED
    BY <2>1, <2>2, <2>3, Untouched
<1>6. Anchored(r)
  <2> SUFFICES ASSUME NEW k \in DOMAIN doc.keys \cap DOMAIN r.keys
               PROVE  AnchoredAt(r, k)
    BY AnchoredEach
  <2> DEFINE o == doc.keys[k].owner
             c == doc.clips[o]
  <2>1. o \in DOMAIN doc.clips /\ doc.keys[k].frame \in Int /\ c \in ClipRecords
        /\ c.src \in Int /\ c.start \in Int
    BY <1>3, ReadyKey, DocKey, ClipTyped DEF Ready
  <2>2. r \in Timelines /\ r.keys[k].frame = doc.keys[k].frame
    BY <1>1 DEF IsSplit
  <2>3. CASE o \in S /\ doc.keys[k].frame >= at
    <3>1. r.keys[k].owner = right[o] /\ r.clips[right[o]] = RightPart(c, at)
          /\ right[o] \in DOMAIN r.clips
      BY <1>1, <2>3 DEF IsSplit
    <3>2. /\ RightPart(c, at).start = at
          /\ RightPart(c, at).src = (IF Still(c) THEN c.src ELSE c.src + at - c.start)
      BY <2>1, RightPartClip
    <3> HIDE DEF c
    <3>3. Still(c) \/ c.src + doc.keys[k].frame - c.start =
            RightPart(c, at).src + doc.keys[k].frame - RightPart(c, at).start
      BY <2>1, <3>2
    <3> QED
      BY <2>2, <3>1, <3>3, AnchoredKey DEF c
  <2>4. CASE o \in S /\ ~(doc.keys[k].frame >= at)
    <3>1. r.keys[k].owner = o /\ r.clips[o] = EndAt(c, at) /\ o \in DOMAIN r.clips
      BY <1>1, <2>1, <2>4 DEF IsSplit
    <3>2. EndAt(c, at).start = c.start /\ EndAt(c, at).src = c.src
      BY <2>1, EndAtClip
    <3> QED
      BY <2>2, <3>1, <3>2, AnchoredKey
  <2>5. CASE o \notin S
    <3>1. r.keys[k].owner = o /\ r.clips[o] = c /\ o \in DOMAIN r.clips
      BY <1>1, <2>1, <2>5 DEF IsSplit
    <3> QED
      BY <2>2, <3>1, AnchoredKey
  <2> QED
    BY <2>3, <2>4, <2>5
<1> QED
  BY <1>1, <1>5, <1>6, LocksKept, PlainFine DEF IsSplit
LEMMA SlideFine ==
  ASSUME Ready, NEW i \in DOMAIN doc.clips, NEW f \in Int, NEW linked \in BOOLEAN,
         Slide(i, f, linked)
  PROVE  Fine
<1> DEFINE S == Group(i, linked)
           d == f - doc.clips[i].start
           Left(j) == CHOOSE l \in DOMAIN doc.clips : NextTo(l, j)
           Right(j) == CHOOSE r \in DOMAIN doc.clips : NextTo(j, r)
           Touching(c) == {j \in S : c \in {Left(j), j, Right(j)}}
           Slid(c, j) == IF c = j THEN Shifted(now.clips[c], d)
                         ELSE IF c = Left(j) THEN EndAt(now.clips[c], now.clips[j].start + d)
                         ELSE StartAt(now.clips[c], now.clips[j].end + d)
           C == [c \in DOMAIN now.clips |->
                   IF Touching(c) = {} THEN now.clips[c] ELSE Slid(c, Max(Touching(c)))]
           K == [k \in DOMAIN now.keys |-> IF now.keys[k].owner \in S
                   THEN [now.keys[k] EXCEPT !.frame = now.keys[k].frame + d] ELSE now.keys[k]]
           r == Recut(now, C, K)
<1>1. /\ ClipsWritable(S) /\ Commit("slide", S, Fit(r))
      /\ \A j \in S : \E l, x \in DOMAIN doc.clips : NextTo(l, j) /\ NextTo(j, x)
  BY DEF Slide, Recut
<1>2. /\ S \in SUBSET DOMAIN doc.clips /\ Open(S) /\ IsFiniteSet(S) /\ S \in SUBSET Int
  <2>1. S \in SUBSET DOMAIN doc.clips
    BY GroupIn
  <2> HIDE DEF S
  <2>2. Open(S)
    BY <1>1, <2>1, OpenClips
  <2>3. IsFiniteSet(S)
    BY <2>1, Snapshot, FS_Subset
  <2>4. S \in SUBSET Int
    BY <2>1, DocClip DEF Ready
  <2> QED
    BY <2>1, <2>2, <2>3, <2>4
<1>3. now.clips = doc.clips /\ now.keys = doc.keys
  BY Snapshot
<1>4. \A c \in DOMAIN doc.clips :
        doc.clips[c] \in ClipRecords /\ doc.clips[c].start \in Int /\ doc.clips[c].end \in Int
        /\ doc.clips[c].src \in Int
  BY DocClip, ClipTyped DEF Ready
<1>5. d \in Int
  BY <1>4
<1>6. ASSUME NEW j \in S
      PROVE  /\ Left(j) \in DOMAIN doc.clips /\ NextTo(Left(j), j)
             /\ Right(j) \in DOMAIN doc.clips /\ NextTo(j, Right(j))
  <2>1. (\E l \in DOMAIN doc.clips : NextTo(l, j)) /\ (\E x \in DOMAIN doc.clips : NextTo(j, x))
    BY <1>1
  <2> QED
    BY <2>1
<1> HIDE DEF S, d, Left, Right
<1>7. ASSUME NEW c \in DOMAIN doc.clips, Touching(c) # {}
      PROVE  \E j \in S :
               /\ C[c] = Slid(c, j) /\ c \in {Left(j), j, Right(j)}
               /\ doc.clips[c].track = doc.clips[j].track
  <2> DEFINE M == Touching(c)
  <2>1. IsFiniteSet(M) /\ M \in SUBSET Int /\ M # {}
    BY <1>2, <1>7, FS_Subset
  <2>2. Max(M) \in M
    <3> HIDE DEF M
    <3> QED BY <2>1, MaxIn
  <2>3. C[c] = Slid(c, Max(M))
    BY <1>3, <1>7
  <2>4. Max(M) \in S /\ c \in {Left(Max(M)), Max(M), Right(Max(M))}
    BY <2>2
  <2> HIDE DEF M, C
  <2>5. doc.clips[c].track = doc.clips[Max(M)].track
    BY <1>6, <2>4 DEF NextTo
  <2> QED
    BY <2>3, <2>4, <2>5
<1>8. \A c \in DOMAIN doc.clips : Touching(c) = {} => C[c] = doc.clips[c]
  BY <1>3
<1>9. ASSUME NEW c \in DOMAIN doc.clips, NEW j \in S, c \in {Left(j), j, Right(j)}
      PROVE  /\ Slid(c, j) \in ClipRecords /\ Slid(c, j).track = doc.clips[c].track
             /\ c = j => Slid(c, j).src - Slid(c, j).start
                           = doc.clips[c].src - doc.clips[c].start - d
             /\ c # j => \/ Still(doc.clips[c])
                         \/ Slid(c, j).src - Slid(c, j).start
                              = doc.clips[c].src - doc.clips[c].start
  <2> DEFINE e == doc.clips[c]
             a == doc.clips[j].start + d
             b == doc.clips[j].end + d
  <2>1. e \in ClipRecords /\ e.src \in Int /\ e.start \in Int /\ a \in Int /\ b \in Int
    BY <1>2, <1>4, <1>5
  <2>2. Slid(c, j) = IF c = j THEN Shifted(e, d) ELSE IF c = Left(j) THEN EndAt(e, a)
                     ELSE StartAt(e, b)
    BY <1>3
  <2> HIDE DEF Slid, e, a, b
  <2>3. /\ Shifted(e, d) \in ClipRecords /\ Shifted(e, d).track = e.track
        /\ Shifted(e, d).src = e.src /\ Shifted(e, d).start = e.start + d
    BY <1>5, <2>1, ShiftedClip
  <2>4. /\ EndAt(e, a) \in ClipRecords /\ EndAt(e, a).track = e.track
        /\ EndAt(e, a).src = e.src /\ EndAt(e, a).start = e.start
    BY <2>1, EndAtClip
  <2>5. /\ StartAt(e, b) \in ClipRecords /\ StartAt(e, b).track = e.track
        /\ StartAt(e, b).src = (IF Still(e) THEN e.src ELSE e.src + b - e.start)
        /\ StartAt(e, b).start = b
    BY <2>1, StartAtClip
  <2>6. /\ Slid(c, j) \in ClipRecords /\ Slid(c, j).track = e.track
    BY <2>2, <2>3, <2>4, <2>5
  <2>7. c = j => Slid(c, j).src - Slid(c, j).start = e.src - e.start - d
    BY <1>5, <2>1, <2>2, <2>3
  <2>8. c # j => Still(e) \/ Slid(c, j).src - Slid(c, j).start = e.src - e.start
    BY <2>1, <2>2, <2>4, <2>5
  <2> QED
    BY <2>6, <2>7, <2>8 DEF e
<1>10. C = [c \in DOMAIN doc.clips |-> C[c]] /\ DOMAIN C = DOMAIN doc.clips
  BY <1>3
<1> HIDE DEF C, Slid
<1>11. ASSUME NEW c \in DOMAIN doc.clips
       PROVE  /\ C[c] \in ClipRecords /\ C[c].track = doc.clips[c].track
              /\ c \notin {x \in DOMAIN doc.clips : Touching(x) # {}} => Matches(C[c], doc.clips[c])
  <2>1. CASE Touching(c) = {}
    BY <1>4, <1>8, <2>1 DEF Matches
  <2>2. CASE Touching(c) # {}
    <3>1. PICK j \in S : C[c] = Slid(c, j) /\ c \in {Left(j), j, Right(j)}
      BY <1>7, <2>2
    <3> QED
      BY <1>9, <2>2, <3>1
  <2> QED
    BY <2>1, <2>2
<1>12. Open({c \in DOMAIN doc.clips : Touching(c) # {}})
  <2> SUFFICES ASSUME NEW c \in DOMAIN doc.clips, Touching(c) # {}
               PROVE  doc.clips[c].track \notin doc.locked
    BY DEF Open
  <2>1. PICK j \in S : doc.clips[c].track = doc.clips[j].track
    BY <1>7
  <2> QED
    BY <1>2, <2>1 DEF Open
<1> DEFINE q == [now EXCEPT !.clips = C]
<1>13. q.clips = C /\ DOMAIN q.clips = DOMAIN doc.clips /\ IsFiniteSet(DOMAIN q.clips) /\ Respects(q)
       /\ q \in Timelines
  BY <1>10, <1>11, <1>12, AlteredTimeline
<1> HIDE DEF q
<1>14. C \in ClipMaps
  BY <1>13, TimelineTyped
<1>15. ASSUME NEW k \in DOMAIN doc.keys
       PROVE  /\ K[k] \in KeyRecords /\ K[k].owner = doc.keys[k].owner
              /\ K[k].frame = IF doc.keys[k].owner \in S THEN doc.keys[k].frame + d
                                                         ELSE doc.keys[k].frame
  <2>1. doc.keys[k] \in KeyRecords /\ doc.keys[k].frame + d \in Int
    BY <1>5, DocKey DEF Ready
  <2>2. K[k] = IF doc.keys[k].owner \in S
               THEN [doc.keys[k] EXCEPT !.frame = doc.keys[k].frame + d] ELSE doc.keys[k]
    BY <1>3
  <2> HIDE DEF K
  <2> QED
    BY <2>1, <2>2 DEF KeyRecords
<1>16. K \in KeyMaps /\ DOMAIN K = DOMAIN doc.keys
  <2>1. K = [k \in DOMAIN doc.keys |-> K[k]] /\ DOMAIN K = DOMAIN doc.keys
    BY <1>3
  <2> HIDE DEF K
  <2>2. K \in [DOMAIN doc.keys -> KeyRecords]
    BY <1>15, <2>1
  <2>3. DOMAIN doc.keys \in SUBSET Keys
    BY DocKey DEF Ready
  <2> QED
    BY <2>1, <2>2, <2>3, KeyMap
<1> HIDE DEF K
<1>17. r \in Timelines /\ Others(r, now) /\ r.clips = C /\ r.keys = K
  BY <1>14, <1>16, Snapshot, PartsReplaced
<1> HIDE DEF r
<1>18. Respects(r) /\ IsFiniteSet(DOMAIN r.clips)
  BY <1>13, <1>17 DEF Respects
<1>19. ASSUME ~Excepted("slide", S) PROVE Anchored(r)
  <2>1. \A x, y \in S : ~NextTo(x, y)
    BY <1>19 DEF Excepted
  <2> SUFFICES ASSUME NEW k \in DOMAIN doc.keys \cap DOMAIN r.keys
               PROVE  AnchoredAt(r, k)
    BY AnchoredEach
  <2> DEFINE o == doc.keys[k].owner
             c == doc.clips[o]
             e == C[o]
  <2>2. o \in DOMAIN doc.clips /\ doc.keys[k].frame \in Int /\ c.src \in Int /\ c.start \in Int
    BY <1>4, ReadyKey, DocKey DEF Ready
  <2>3. r.keys[k].owner = o /\ r.clips[o] = e /\ o \in DOMAIN r.clips
        /\ r.keys[k].frame = IF o \in S THEN doc.keys[k].frame + d ELSE doc.keys[k].frame
    BY <1>10, <1>15, <1>17, <2>2
  <2>4. e.src \in Int /\ e.start \in Int
    BY <1>11, <2>2, ClipTyped
  <2>5. CASE o \in S
    <3>1. Touching(o) # {}
      BY <2>5
    <3>2. PICK j \in S : C[o] = Slid(o, j) /\ o \in {Left(j), j, Right(j)}
      BY <1>7, <2>2, <3>1
    <3>3. o = j
      BY <1>6, <2>1, <2>5, <3>2
    <3>4. e.src - e.start = c.src - c.start - d
      BY <1>9, <2>2, <3>2, <3>3
    <3> HIDE DEF c, e
    <3>5. c.src + doc.keys[k].frame - c.start = e.src + r.keys[k].frame - e.start
      BY <1>5, <2>2, <2>3, <2>4, <2>5, <3>4
    <3> QED
      BY <1>17, <2>3, <3>5, AnchoredKey DEF c
  <2>6. CASE o \notin S
    <3>1. Still(c) \/ e.src - e.start = c.src - c.start
      <4>1. CASE Touching(o) = {}
        BY <1>8, <2>2, <4>1
      <4>2. CASE Touching(o) # {}
        <5>1. PICK j \in S : C[o] = Slid(o, j) /\ o \in {Left(j), j, Right(j)}
          BY <1>7, <2>2, <4>2
        <5> QED
          BY <1>9, <2>2, <2>6, <5>1
      <4> QED
        BY <4>1, <4>2
    <3> HIDE DEF c, e
    <3>2. Still(c) \/ c.src + doc.keys[k].frame - c.start = e.src + r.keys[k].frame - e.start
      BY <2>2, <2>3, <2>4, <2>6, <3>1
    <3> QED
      BY <1>17, <2>3, <3>2, AnchoredKey DEF c
  <2> QED
    BY <2>5, <2>6
<1> QED
  BY <1>1, <1>17, <1>18, <1>19, LocksKept, FitFine
-----------------------------------------------------------------------------
(* Trimming.                                                                *)

Follows(i, j) == doc.clips[j].track = doc.clips[i].track
                 /\ doc.clips[j].start >= doc.clips[i].end

(* What r is to the snapshot when the edges of the clips of S are moved.    *)
IsTrimmed(r, S, edge, to, ripple) ==
  /\ r \in Timelines /\ Others(r, now)
  /\ DOMAIN r.clips = DOMAIN doc.clips /\ DOMAIN r.keys = DOMAIN doc.keys
  /\ \A i \in S : r.clips[i] = Trimmed(doc.clips[i], edge[i], to[i], ripple)
  /\ \A j \in DOMAIN doc.clips \ S :
       /\ \A i \in S : ripple /\ Follows(i, j) =>
            r.clips[j] = Shifted(doc.clips[j], Ripple(doc.clips[i], edge[i], to[i]))
       /\ ~(ripple /\ \E i \in S : Follows(i, j)) => r.clips[j] = doc.clips[j]
  /\ \A k \in DOMAIN doc.keys :
       /\ r.keys[k].owner = doc.keys[k].owner
       /\ \A i \in S : ripple /\ Follows(i, doc.keys[k].owner) =>
            r.keys[k].frame = doc.keys[k].frame + Ripple(doc.clips[i], edge[i], to[i])
       /\ ~(ripple /\ \E i \in S : Follows(i, doc.keys[k].owner)) =>
            r.keys[k].frame = doc.keys[k].frame

LEMMA TrimmedTimeline ==
  ASSUME Ready, NEW S \in SUBSET DOMAIN doc.clips, NEW edge \in [S -> {"in", "out"}],
         NEW to \in [S -> Int], NEW ripple \in BOOLEAN, Trim(S, edge, to, ripple)
  PROVE  \E r : /\ IsTrimmed(r, S, edge, to, ripple)
                /\ Commit(TrimKind(S, edge, to, ripple), S, Finalize(r))
<1> DEFINE After(i) == {j \in On(doc, doc.clips[i].track) :
                          doc.clips[j].start >= doc.clips[i].end}
           Leads(j) == CHOOSE i \in S : j \in After(i)
           d(i) == Ripple(doc.clips[i], edge[i], to[i])
           by == IF ~ripple THEN <<>>
                 ELSE [j \in UNION {After(i) : i \in S} |-> d(Leads(j))]
           shifts == IF ~ripple THEN {} ELSE {<<doc.clips[i].end, d(i)>> : i \in S}
           moved == ShiftClips(now, by)
           C == [i \in DOMAIN moved.clips |->
                   IF i \in S THEN Trimmed(moved.clips[i], edge[i], to[i], ripple)
                   ELSE moved.clips[i]]
<1>1. PICK order \in SetToSeqs(shifts) :
        Commit(TrimKind(S, edge, to, ripple), S,
            Finalize([moved EXCEPT
              !.clips = C,
              !.marks = [m \in DOMAIN @ |->
                           IF m \in ContentMarks
                           THEN FoldLeft(Carried, @[m], order) ELSE @[m]]]))
  BY DEF Trim
<1> DEFINE M == [m \in DOMAIN moved.marks |->
                   IF m \in ContentMarks
                   THEN FoldLeft(Carried, moved.marks[m], order) ELSE moved.marks[m]]
           q == [moved EXCEPT !.clips = C]
           r == [q EXCEPT !.marks = M]
<1>2. Commit(TrimKind(S, edge, to, ripple), S, Finalize(r))
  <2>1. [moved EXCEPT !.clips = C, !.marks = M] = r
    OBVIOUS
  <2> QED
    BY <1>1, <2>1
<1>3. \A i, j \in S : i # j => doc.clips[i].track # doc.clips[j].track
  BY DEF Trim
<1>4. \A i \in DOMAIN doc.clips :
        doc.clips[i] \in ClipRecords /\ doc.clips[i].start \in Int /\ doc.clips[i].end \in Int
        /\ doc.clips[i].start < doc.clips[i].end
  BY DocClip, ReadyClip, ClipTyped DEF Ready
<1>5. \A i \in S : Ripple(doc.clips[i], edge[i], to[i]) \in Int
  BY <1>4 DEF Ripple
<1>6. \A j \in DOMAIN doc.clips : \A i \in S : j \in After(i) <=> Follows(i, j)
  BY DEF Follows, On
<1>7. \A j \in DOMAIN doc.clips : \A i \in S : Follows(i, j) => j \notin S
  BY <1>3, <1>4 DEF Follows
<1>8. \A i \in S : After(i) \subseteq DOMAIN doc.clips
  BY DEF On
<1> HIDE DEF After
<1>9. ASSUME NEW j \in DOMAIN doc.clips, NEW i \in S, ripple, Follows(i, j)
      PROVE  j \in DOMAIN by /\ by[j] = Ripple(doc.clips[i], edge[i], to[i])
  <2>1. j \in After(i)
    BY <1>6, <1>9
  <2>2. Leads(j) \in S /\ j \in After(Leads(j))
    BY <2>1
  <2>3. Leads(j) = i
    BY <1>3, <1>6, <1>9, <2>2 DEF Follows
  <2> QED
    BY <1>9, <2>1, <2>3
<1>10. ASSUME NEW j \in DOMAIN by
       PROVE  j \in DOMAIN doc.clips /\ ripple /\ \E i \in S : Follows(i, j)
  BY <1>6, <1>8
<1>11. \A j \in DOMAIN by : by[j] \in Int
  BY <1>5, <1>9, <1>10
<1> HIDE DEF by
<1>12. IsShifted(moved, now, by)
  BY <1>11, Snapshot, ShiftedTimeline
<1> HIDE DEF moved
<1>13. /\ moved \in Timelines /\ Others(moved, now) /\ DOMAIN moved.clips = DOMAIN doc.clips
       /\ DOMAIN moved.keys = DOMAIN doc.keys
       /\ \A i \in DOMAIN doc.clips :
            moved.clips[i] = IF i \in DOMAIN by THEN Shifted(doc.clips[i], by[i]) ELSE doc.clips[i]
       /\ \A k \in DOMAIN doc.keys :
            /\ moved.keys[k].owner = doc.keys[k].owner
            /\ moved.keys[k].frame = IF doc.keys[k].owner \in DOMAIN by
                                     THEN doc.keys[k].frame + by[doc.keys[k].owner]
                                     ELSE doc.keys[k].frame
  BY <1>12, Snapshot DEF IsShifted
<1>14. \A i \in S : i \notin DOMAIN by
  BY <1>7, <1>10
<1>15. \A i \in S : C[i] = Trimmed(doc.clips[i], edge[i], to[i], ripple)
  BY <1>13, <1>14
<1>16. \A i \in DOMAIN doc.clips \ S : C[i] = moved.clips[i]
  BY <1>13
<1>17. C = [i \in DOMAIN moved.clips |-> C[i]]
  OBVIOUS
<1> HIDE DEF C, d, shifts
<1>18. ASSUME NEW i \in DOMAIN doc.clips PROVE C[i] \in ClipRecords
  <2>1. CASE i \in S
    <3>1. edge[i] \in {"in", "out"} /\ to[i] \in Int /\ doc.clips[i] \in ClipRecords
      BY <1>4, <2>1
    <3>2. Trimmed(doc.clips[i], edge[i], to[i], ripple) \in ClipRecords
      BY <3>1, TrimmedClip
    <3> QED
      BY <1>15, <2>1, <3>2
  <2>2. CASE i \notin S
    <3>1. moved.clips[i] \in ClipRecords
      BY <1>13, TimelineTyped, ClipMapFacts
    <3> QED
      BY <1>16, <2>2, <3>1
  <2> QED
    BY <2>1, <2>2
<1>19. /\ q \in Timelines /\ Others(q, moved) /\ q.keys = moved.keys /\ q.marks = moved.marks
       /\ q.clips = C /\ DOMAIN q.clips = DOMAIN moved.clips
  <2>1. moved \in Timelines /\ DOMAIN moved.clips = DOMAIN doc.clips
    BY <1>13
  <2>2. \A i \in DOMAIN moved.clips : C[i] \in ClipRecords
    BY <1>18, <2>1
  <2> HIDE DEF M
  <2> QED
    BY <1>17, <2>1, <2>2, ChangedClips
<1> HIDE DEF q
<1>20. M \in MarkMaps
  <2> DEFINE s == Finalize(r)
             E == Ends(q) \cup {q.duration}
  <2>1. r.marks = M /\ r.duration = q.duration /\ r.clips = q.clips /\ DOMAIN r = DOMAIN q
        /\ "duration" \in DOMAIN q /\ "marks" \in DOMAIN q
    <3> HIDE DEF M
    <3> QED
      BY <1>19 DEF Timelines
  <2> HIDE DEF M, r
  <2>2. Ends(r) \cup {r.duration} = E
    BY <2>1 DEF Ends
  <2>3. Max(E) \in Int
    <3>1. IsFiniteSet(DOMAIN q.clips)
      BY <1>13, <1>19, Snapshot
    <3>2. q.duration \in Int
      BY <1>19, TimelineTyped
    <3>3. IsFiniteSet(E) /\ E \in SUBSET Int /\ E # {}
      BY <1>19, <3>1, <3>2, EndsFinite, FS_AddElement
    <3> HIDE DEF E
    <3> QED
      BY <3>3, MaxIn
  <2>4. s = [r EXCEPT !.duration = Max(E)]
    BY <2>2 DEF Finalize
  <2> HIDE DEF E
  <2>5. s.duration = Max(E) /\ s.marks = M
    BY <2>1, <2>4
  <2>6. ValidMarks(s)
    BY <1>2 DEF Commit, Valid
  <2> HIDE DEF s
  <2>7. \A m \in DOMAIN M : M[m] \in Int
    <3>1. \A m \in DOMAIN s.marks : s.marks[m] \in 0 .. s.duration
      BY <2>6 DEF ValidMarks
    <3> QED
      BY <2>3, <2>5, <3>1
  <2>8. DOMAIN M = DOMAIN moved.marks /\ M = [m \in DOMAIN M |-> M[m]]
    BY DEF M
  <2>9. DOMAIN moved.marks \in SUBSET Marks
    BY <1>13, TimelineTyped, MarkMapFacts
  <2>10. M \in [DOMAIN M -> Int]
    BY <2>7, <2>8
  <2> QED
    BY <2>8, <2>9, <2>10, MarkMap
<1> HIDE DEF M
<1>21. /\ r \in Timelines /\ Others(r, q) /\ r.clips = q.clips /\ r.keys = q.keys
  BY <1>19, <1>20, MarksReplaced
<1> HIDE DEF r
<1>22. IsTrimmed(r, S, edge, to, ripple)
  <2>1. /\ r \in Timelines /\ Others(r, now) /\ r.clips = C /\ r.keys = moved.keys
        /\ DOMAIN C = DOMAIN doc.clips
    BY <1>13, <1>19, <1>21 DEF Others
  <2>2. ASSUME NEW j \in DOMAIN doc.clips \ S
        PROVE  /\ \A i \in S : ripple /\ Follows(i, j) =>
                    C[j] = Shifted(doc.clips[j], Ripple(doc.clips[i], edge[i], to[i]))
               /\ ~(ripple /\ \E i \in S : Follows(i, j)) => C[j] = doc.clips[j]
    BY <1>9, <1>10, <1>13, <1>16
  <2>3. ASSUME NEW k \in DOMAIN doc.keys
        PROVE  /\ moved.keys[k].owner = doc.keys[k].owner
               /\ \A i \in S : ripple /\ Follows(i, doc.keys[k].owner) =>
                    moved.keys[k].frame = doc.keys[k].frame + Ripple(doc.clips[i], edge[i], to[i])
               /\ ~(ripple /\ \E i \in S : Follows(i, doc.keys[k].owner)) =>
                    moved.keys[k].frame = doc.keys[k].frame
    <3>1. doc.keys[k].owner \in DOMAIN doc.clips
      BY ReadyKey
    <3> QED
      BY <1>9, <1>10, <1>13, <3>1
  <2> QED
    BY <1>13, <1>15, <2>1, <2>2, <2>3 DEF IsTrimmed
<1> QED
  BY <1>2, <1>22

LEMMA TrimFine ==
  ASSUME Ready, NEW S \in SUBSET DOMAIN doc.clips, NEW edge \in [S -> {"in", "out"}],
         NEW to \in [S -> Int], NEW ripple \in BOOLEAN, Trim(S, edge, to, ripple)
  PROVE  Fine
<1>1. PICK r : /\ IsTrimmed(r, S, edge, to, ripple)
               /\ Commit(TrimKind(S, edge, to, ripple), S, Finalize(r))
  BY TrimmedTimeline
<1>2. ClipsWritable(S)
  BY DEF Trim
<1>3. \A i \in DOMAIN doc.clips :
        doc.clips[i] \in ClipRecords /\ doc.clips[i].start \in Int /\ doc.clips[i].src \in Int
        /\ doc.clips[i].end \in Int
  BY DocClip, ClipTyped DEF Ready
<1> DEFINE moving(j) == ripple /\ \E i \in S : Follows(i, j)
           T == {j \in DOMAIN doc.clips : j \in S \/ moving(j)}
<1>4. Open(T)
  BY <1>2 DEF Open, ClipsWritable, Writable, Follows
<1>5. \A i \in S : Ripple(doc.clips[i], edge[i], to[i]) \in Int
  BY <1>3 DEF Ripple
<1>6. ASSUME NEW j \in DOMAIN doc.clips PROVE r.clips[j].track = doc.clips[j].track
  <2>1. CASE j \in S
    <3>1. r.clips[j] = Trimmed(doc.clips[j], edge[j], to[j], ripple)
      BY <1>1, <2>1 DEF IsTrimmed
    <3>2. edge[j] \in {"in", "out"} /\ to[j] \in Int /\ doc.clips[j] \in ClipRecords
      BY <1>3, <2>1
    <3> QED
      BY <3>1, <3>2, TrimmedClip
  <2>2. CASE j \notin S /\ moving(j)
    <3>1. PICK i \in S : Follows(i, j)
      BY <2>2
    <3>2. r.clips[j] = Shifted(doc.clips[j], Ripple(doc.clips[i], edge[i], to[i]))
      BY <1>1, <2>2, <3>1 DEF IsTrimmed
    <3> QED
      BY <1>3, <1>5, <3>2, ShiftedClip
  <2>3. CASE j \notin S /\ ~moving(j)
    BY <1>1, <2>3 DEF IsTrimmed
  <2> QED
    BY <2>1, <2>2, <2>3
<1>7. r \in Timelines /\ Others(r, now) /\ DOMAIN r.clips = DOMAIN doc.clips
      /\ IsFiniteSet(DOMAIN r.clips)
  BY <1>1, Snapshot DEF IsTrimmed
<1>8. Respects(r)
  <2>1. \A j \in DOMAIN doc.clips \ T : j \in DOMAIN r.clips /\ Matches(r.clips[j], doc.clips[j])
    BY <1>1, <1>7 DEF IsTrimmed, Matches
  <2>2. \A j \in DOMAIN r.clips : j \in DOMAIN doc.clips \ T \/ r.clips[j].track \notin doc.locked
    BY <1>4, <1>6, <1>7 DEF Open
  <2> QED
    BY <1>4, <2>1, <2>2, Untouched
<1>9. CASE ripple /\ \E i \in S : edge[i] = "in"
  <2>1. Excepted(TrimKind(S, edge, to, ripple), S)
    BY <1>9 DEF TrimKind, Excepted, Unanchored
  <2> QED
    BY <1>1, <1>7, <1>8, <2>1, LocksKept, FinalizeFine
<1>10. CASE ~(ripple /\ \E i \in S : edge[i] = "in")
  <2>1. Anchored(r)
    <3> SUFFICES ASSUME NEW k \in DOMAIN doc.keys \cap DOMAIN r.keys
                 PROVE  AnchoredAt(r, k)
      BY AnchoredEach
    <3> DEFINE o == doc.keys[k].owner
               c == doc.clips[o]
               e == r.clips[o]
    <3>1. o \in DOMAIN doc.clips /\ doc.keys[k].frame \in Int /\ c.src \in Int /\ c.start \in Int
          /\ c \in ClipRecords /\ o \in DOMAIN r.clips /\ r.keys[k].owner = o
      BY <1>1, <1>3, <1>7, ReadyKey, DocKey DEF Ready, IsTrimmed
    <3>2. c.src + doc.keys[k].frame - c.start = e.src + r.keys[k].frame - e.start
      <4>1. CASE o \in S
        <5>1. ~moving(o)
          <6>1. \A i, j \in S : i # j => doc.clips[i].track # doc.clips[j].track
            BY DEF Trim
          <6>2. doc.clips[o].start < doc.clips[o].end
            BY <3>1, ReadyClip
          <6> QED
            BY <1>3, <4>1, <6>1, <6>2 DEF Follows
        <5>2. r.keys[k].frame = doc.keys[k].frame
          BY <1>1, <3>1, <5>1 DEF IsTrimmed
        <5>3. e = Trimmed(c, edge[o], to[o], ripple)
              /\ edge[o] \in {"in", "out"} /\ to[o] \in Int
          BY <1>1, <4>1 DEF IsTrimmed
        <5> HIDE DEF c, e
        <5>4. CASE edge[o] = "out"
          <6>1. /\ Trimmed(c, edge[o], to[o], ripple).start = c.start
                /\ Trimmed(c, edge[o], to[o], ripple).src = c.src
            <7>1. c \in ClipRecords
              BY <3>1
            <7> QED
              BY <5>3, <5>4, <7>1, TrimmedClip
          <6> QED
            BY <5>2, <5>3, <6>1
        <5>5. CASE edge[o] = "in" /\ ~ripple
          <6>1. Trimmed(c, edge[o], to[o], ripple).start = to[o]
                /\ Trimmed(c, edge[o], to[o], ripple).src = c.src + to[o] - c.start
            <7>1. c \in ClipRecords
              BY <3>1
            <7> QED
              BY <5>3, <5>5, <7>1, TrimmedClip
          <6> QED
            BY <3>1, <5>2, <5>3, <6>1
        <5> QED
          BY <1>10, <4>1, <5>3, <5>4, <5>5
      <4>2. CASE o \notin S /\ moving(o)
        <5>1. PICK i \in S : Follows(i, o)
          BY <4>2
        <5> DEFINE d == Ripple(doc.clips[i], edge[i], to[i])
        <5>2. d \in Int /\ e = Shifted(c, d) /\ r.keys[k].frame = doc.keys[k].frame + d
          BY <1>1, <1>5, <3>1, <4>2, <5>1 DEF IsTrimmed
        <5> HIDE DEF c, e, d
        <5>3. Shifted(c, d).src = c.src /\ Shifted(c, d).start = c.start + d
          BY <3>1, <5>2, ShiftedClip
        <5> QED
          BY <3>1, <5>2, <5>3
      <4>3. CASE o \notin S /\ ~moving(o)
        BY <1>1, <3>1, <4>3 DEF IsTrimmed
      <4> QED
        BY <4>1, <4>2, <4>3
    <3> QED
      BY <1>7, <3>1, <3>2, AnchoredKey
  <2> QED
    BY <1>1, <1>7, <1>8, <2>1, LocksKept, FinalizeFine
<1> QED
  BY <1>9, <1>10
-----------------------------------------------------------------------------
(* Deleting with a ripple.                                                  *)

Deleted(s, S, t) == UNION {ShownOn(s.clips[i]) : i \in S \cap On(s, t)}
AllDeleted(s, S) == UNION {ShownOn(s.clips[i]) : i \in S}

LEMMA DeletedFinite ==
  ASSUME NEW s \in Timelines, IsFiniteSet(DOMAIN s.clips), NEW S \in SUBSET DOMAIN s.clips
  PROVE  UNION {ShownOn(s.clips[i]) : i \in S} \in SUBSET Int
         /\ IsFiniteSet(UNION {ShownOn(s.clips[i]) : i \in S})
<1> DEFINE F == {ShownOn(s.clips[i]) : i \in S}
<1>1. \A i \in S : s.clips[i].start \in Int /\ s.clips[i].end \in Int
  BY TimelineTyped, ClipMapFacts, ClipTyped
<1>2. \A X \in F : IsFiniteSet(X) /\ X \in SUBSET Int
  <2> SUFFICES ASSUME NEW i \in S
               PROVE  IsFiniteSet(ShownOn(s.clips[i])) /\ ShownOn(s.clips[i]) \in SUBSET Int
    OBVIOUS
  <2> DEFINE a == s.clips[i].start
             b == s.clips[i].end - 1
  <2>1. a \in Int /\ b \in Int
    BY <1>1
  <2>2. ShownOn(s.clips[i]) = a .. b
    BY DEF ShownOn
  <2> HIDE DEF a, b
  <2>3. IsFiniteSet(a .. b) /\ a .. b \in SUBSET Int
    BY <2>1, FS_Interval
  <2> QED
    BY <2>2, <2>3
<1>3. IsFiniteSet(F)
  <2> DEFINE g == [i \in S |-> ShownOn(s.clips[i])]
  <2>1. g \in Surjection(S, F)
    BY DEF Surjection
  <2>2. IsFiniteSet(S)
    BY FS_Subset
  <2> QED
    BY <2>1, <2>2, FS_Surjection
<1> HIDE DEF F
<1>4. IsFiniteSet(UNION F) /\ UNION F \in SUBSET Int
  BY <1>2, <1>3, FS_UNION
<1> QED
  BY <1>4 DEF F

LEMMA ClosedInt ==
  ASSUME NEW D \in SUBSET Int, IsFiniteSet(D), NEW f \in Int
  PROVE  Closed(D, f) \in Nat /\ (D = {} => Closed(D, f) = 0)
<1> DEFINE X == {g \in D : g < f /\ \E h \in g .. f : h \notin D}
<1>1. IsFiniteSet(X)
  BY FS_Subset
<1>2. Cardinality(X) \in Nat
  <2> HIDE DEF X
  <2> QED BY <1>1, FS_CardinalityType
<1>3. D = {} => X = {}
  OBVIOUS
<1> QED
  BY <1>2, <1>3, FS_EmptySet DEF Closed

(* What r is to s when the clips of S are deleted with a ripple.            *)
Gap(s, S, j) == Closed(Deleted(s, S, s.clips[j].track), s.clips[j].start)
IsRippleDeleted(r, s, S) ==
  /\ r \in Timelines /\ Others(r, s)
  /\ DOMAIN r.clips = DOMAIN s.clips \ S
  /\ \A j \in DOMAIN s.clips \ S :
       Gap(s, S, j) \in Nat /\ r.clips[j] = Shifted(s.clips[j], 0 - Gap(s, S, j))
  /\ DOMAIN r.keys = {k \in DOMAIN s.keys : s.keys[k].owner \notin S}
  /\ \A k \in DOMAIN r.keys :
       /\ r.keys[k].owner = s.keys[k].owner
       /\ s.keys[k].owner \in DOMAIN s.clips =>
            r.keys[k].frame = s.keys[k].frame - Gap(s, S, s.keys[k].owner)
  /\ r.marks = [m \in {x \in DOMAIN s.marks :
                         x \notin ContentMarks \/ s.marks[x] \notin AllDeleted(s, S)} |->
                  IF m \in ContentMarks
                  THEN s.marks[m] - Closed(AllDeleted(s, S), s.marks[m]) ELSE s.marks[m]]

LEMMA RippleDeletedTimeline ==
  ASSUME NEW s \in Timelines, IsFiniteSet(DOMAIN s.clips), NEW S \in SUBSET DOMAIN s.clips
  PROVE  IsRippleDeleted(RippleDeleted(s, S), s, S)
<1> DEFINE deleted(t) == UNION {ShownOn(s.clips[i]) : i \in S \cap On(s, t)}
           all == UNION {ShownOn(s.clips[i]) : i \in S}
           kept == RemoveClips(s, S)
           by == [j \in DOMAIN kept.clips |->
                    0 - Closed(deleted(s.clips[j].track), s.clips[j].start)]
           shifted == ShiftClips(kept, by)
           M == [m \in {x \in DOMAIN shifted.marks :
                          x \notin ContentMarks \/ shifted.marks[x] \notin all} |->
                  IF m \in ContentMarks THEN shifted.marks[m] - Closed(all, shifted.marks[m])
                                        ELSE shifted.marks[m]]
           r == [shifted EXCEPT !.marks = M]
<1>1. RippleDeleted(s, S) = r
  BY DEF RippleDeleted
<1>2. IsRemoved(kept, s, S)
  BY RemovedTimeline
<1> HIDE DEF kept
<1>3. ASSUME NEW j \in DOMAIN s.clips
      PROVE  Gap(s, S, j) \in Nat /\ Gap(s, S, j) = Closed(deleted(s.clips[j].track), s.clips[j].start)
  <2> DEFINE X == S \cap On(s, s.clips[j].track)
  <2>1. X \in SUBSET DOMAIN s.clips
    OBVIOUS
  <2> HIDE DEF X
  <2>2. UNION {ShownOn(s.clips[i]) : i \in X} \in SUBSET Int
        /\ IsFiniteSet(UNION {ShownOn(s.clips[i]) : i \in X})
    BY <2>1, DeletedFinite
  <2>3. s.clips[j].start \in Int
    BY TimelineTyped, ClipMapFacts, ClipTyped
  <2>4. Closed(UNION {ShownOn(s.clips[i]) : i \in X}, s.clips[j].start) \in Nat
    BY <2>2, <2>3, ClosedInt
  <2> QED
    BY <2>4 DEF Gap, Deleted, X
<1>4. DOMAIN by = DOMAIN s.clips \ S /\ \A j \in DOMAIN s.clips \ S : by[j] = 0 - Gap(s, S, j)
  BY <1>2, <1>3 DEF IsRemoved
<1> HIDE DEF by
<1>5. ASSUME NEW j \in DOMAIN by PROVE by[j] \in Int
  <2>1. j \in DOMAIN s.clips /\ by[j] = 0 - Gap(s, S, j)
    BY <1>4
  <2>2. Gap(s, S, j) \in Nat
    BY <1>3, <2>1
  <2> QED
    BY <2>1, <2>2
<1>6. IsShifted(shifted, kept, by)
  BY <1>2, <1>5, ShiftedTimeline DEF IsRemoved
<1> HIDE DEF shifted
<1>7. shifted \in Timelines /\ Others(shifted, s) /\ shifted.marks = s.marks
  BY <1>2, <1>6 DEF IsShifted, IsRemoved, Others
<1>8. all = AllDeleted(s, S) /\ all \in SUBSET Int /\ IsFiniteSet(all)
  BY DeletedFinite DEF AllDeleted
<1> HIDE DEF all
<1>9. M \in MarkMaps
  <2>1. DOMAIN s.marks \in SUBSET Marks /\ \A m \in DOMAIN s.marks : s.marks[m] \in Int
    BY TimelineTyped, MarkMapFacts
  <2>2. \A m \in DOMAIN s.marks : s.marks[m] - Closed(all, s.marks[m]) \in Int
    <3>1. \A m \in DOMAIN s.marks : Closed(all, s.marks[m]) \in Nat
      BY <1>8, <2>1, ClosedInt
    <3> QED
      BY <2>1, <3>1
  <2> DEFINE D == {x \in DOMAIN shifted.marks :
                          x \notin ContentMarks \/ shifted.marks[x] \notin all}
  <2>3. D \in SUBSET Marks /\ D \subseteq DOMAIN s.marks
    BY <1>7, <2>1
  <2>4. M \in [D -> Int]
    BY <1>7, <2>1, <2>2, <2>3
  <2> HIDE DEF D, M
  <2> QED
    BY <2>3, <2>4, MarkMap
<1>10. M = [m \in {x \in DOMAIN s.marks :
                     x \notin ContentMarks \/ s.marks[x] \notin AllDeleted(s, S)} |->
              IF m \in ContentMarks
              THEN s.marks[m] - Closed(AllDeleted(s, S), s.marks[m]) ELSE s.marks[m]]
  BY <1>7, <1>8
<1> HIDE DEF M
<1>11. /\ r \in Timelines /\ Others(r, shifted) /\ r.clips = shifted.clips
       /\ r.keys = shifted.keys /\ r.marks = M
  BY <1>7, <1>9, MarksReplaced
<1> HIDE DEF r
<1>12. /\ DOMAIN r.clips = DOMAIN s.clips \ S
       /\ \A j \in DOMAIN s.clips \ S : r.clips[j] = Shifted(s.clips[j], 0 - Gap(s, S, j))
  BY <1>2, <1>4, <1>6, <1>11 DEF IsShifted, IsRemoved
<1>13. DOMAIN r.keys = {k \in DOMAIN s.keys : s.keys[k].owner \notin S}
  BY <1>2, <1>6, <1>11 DEF IsShifted, IsRemoved
<1>14. ASSUME NEW k \in DOMAIN r.keys
       PROVE  /\ r.keys[k].owner = s.keys[k].owner
              /\ s.keys[k].owner \in DOMAIN s.clips =>
                   r.keys[k].frame = s.keys[k].frame - Gap(s, S, s.keys[k].owner)
  <2>1. k \in DOMAIN s.keys /\ s.keys[k].owner \notin S /\ k \in DOMAIN kept.keys
    BY <1>2, <1>13 DEF IsRemoved
  <2>2. s.keys[k].frame \in Int
    BY <2>1, TimelineTyped, KeyMapFacts
  <2>3. kept.keys[k] = s.keys[k]
    BY <1>2, <2>1 DEF IsRemoved
  <2>4. /\ r.keys[k].owner = s.keys[k].owner
        /\ r.keys[k].frame = IF s.keys[k].owner \in DOMAIN by
                             THEN s.keys[k].frame + by[s.keys[k].owner] ELSE s.keys[k].frame
    BY <1>6, <1>11, <2>1, <2>3 DEF IsShifted
  <2>5. ASSUME s.keys[k].owner \in DOMAIN s.clips
        PROVE  r.keys[k].frame = s.keys[k].frame - Gap(s, S, s.keys[k].owner)
    <3> DEFINE o == s.keys[k].owner
    <3>1. o \in DOMAIN by /\ by[o] = 0 - Gap(s, S, o) /\ Gap(s, S, o) \in Nat
      BY <1>3, <1>4, <2>1, <2>5
    <3> HIDE DEF o
    <3>2. s.keys[k].frame + by[o] = s.keys[k].frame - Gap(s, S, o)
      BY <2>2, <3>1
    <3> QED
      BY <2>4, <3>1, <3>2 DEF o
  <2> QED
    BY <2>4, <2>5
<1>15. Others(r, s)
  BY <1>7, <1>11 DEF Others
<1> QED
  BY <1>1, <1>3, <1>10, <1>11, <1>12, <1>13, <1>14, <1>15 DEF IsRippleDeleted

LEMMA RippleDeleteFine ==
  ASSUME Ready, NEW S \in SUBSET DOMAIN doc.clips, RippleDelete(S)
  PROVE  Fine
<1> DEFINE r == RippleDeleted(now, S)
<1>1. ClipsWritable(S) /\ Commit("ripple-delete", S, Finalize(r))
  BY DEF RippleDelete
<1>2. IsRippleDeleted(r, now, S)
  BY Snapshot, RippleDeletedTimeline
<1> HIDE DEF r
<1>3. /\ r \in Timelines /\ Others(r, now) /\ DOMAIN r.clips = DOMAIN doc.clips \ S
      /\ \A j \in DOMAIN doc.clips \ S :
           Gap(now, S, j) \in Nat /\ r.clips[j] = Shifted(doc.clips[j], 0 - Gap(now, S, j))
      /\ \A k \in DOMAIN r.keys : k \in DOMAIN doc.keys /\ doc.keys[k].owner \notin S
                                  /\ r.keys[k].owner = doc.keys[k].owner
  BY <1>2, Snapshot DEF IsRippleDeleted
<1>4. IsFiniteSet(DOMAIN r.clips)
  <2>1. IsFiniteSet(DOMAIN doc.clips \ S)
    BY Snapshot, FS_Difference
  <2> QED
    BY <1>3, <2>1
<1>5. ASSUME NEW j \in DOMAIN doc.clips \ S
      PROVE  /\ doc.clips[j] \in ClipRecords
             /\ r.clips[j].start = doc.clips[j].start - Gap(now, S, j)
             /\ r.clips[j].end = doc.clips[j].end - Gap(now, S, j)
             /\ r.clips[j].src = doc.clips[j].src /\ r.clips[j].track = doc.clips[j].track
             /\ r.clips[j].srcEnd = doc.clips[j].srcEnd
             /\ Gap(now, S, j) = 0 => Matches(r.clips[j], doc.clips[j])
  <2> DEFINE c == doc.clips[j]
             g == Gap(now, S, j)
  <2>1. c \in ClipRecords /\ c.start \in Int /\ c.end \in Int /\ g \in Nat /\ 0 - g \in Int
    BY <1>3, DocClip, ClipTyped DEF Ready
  <2>2. r.clips[j] = Shifted(c, 0 - g)
    BY <1>3
  <2> HIDE DEF c, g
  <2>3. LET e == Shifted(c, 0 - g) IN
         /\ e.start = c.start + (0 - g) /\ e.end = c.end + (0 - g)
         /\ e.track = c.track /\ e.src = c.src
         /\ e.srcEnd = c.srcEnd /\ e.avail = c.avail
         /\ e.asset = c.asset /\ e.nested = c.nested /\ e.bus = c.bus
    BY <2>1, ShiftedClip
  <2>4. c.start + (0 - g) = c.start - g /\ c.end + (0 - g) = c.end - g
        /\ (g = 0 => c.start - g = c.start /\ c.end - g = c.end)
    BY <2>1
  <2> QED
    BY <2>1, <2>2, <2>3, <2>4 DEF c, g, Matches
<1>6. Respects(r)
  <2> DEFINE T == {j \in DOMAIN doc.clips : doc.clips[j].track \notin doc.locked}
  <2>1. Open(T)
    BY DEF Open
  <2>2. \A i \in S : doc.clips[i].track \notin doc.locked
    BY <1>1 DEF ClipsWritable, Writable
  <2>3. ASSUME NEW j \in DOMAIN doc.clips \ T
        PROVE  j \in DOMAIN r.clips /\ Matches(r.clips[j], doc.clips[j])
    <3>1. j \in DOMAIN doc.clips \ S /\ doc.clips[j].track \in doc.locked
      BY <2>2
    <3>2. Deleted(now, S, doc.clips[j].track) = {}
      <4>1. S \cap On(now, doc.clips[j].track) = {}
        BY <2>2, <3>1, Snapshot DEF On
      <4> QED
        BY <4>1 DEF Deleted
    <3>3. Gap(now, S, j) = 0
      <4>1. doc.clips[j].start \in Int /\ IsFiniteSet({}) /\ {} \in SUBSET Int
        BY <1>5, <3>1, ClipTyped, FS_EmptySet
      <4>2. Closed({}, doc.clips[j].start) = 0
        BY <4>1, ClosedInt
      <4> QED
        BY <3>2, <4>2, Snapshot DEF Gap
    <3> QED
      BY <1>3, <1>5, <3>1, <3>3
  <2>4. ASSUME NEW j \in DOMAIN r.clips
        PROVE  j \in DOMAIN doc.clips \ T \/ r.clips[j].track \notin doc.locked
    BY <1>3, <1>5
  <2> QED
    BY <2>1, <2>3, <2>4, Untouched
<1>7. Anchored(r)
  <2> SUFFICES ASSUME NEW k \in DOMAIN doc.keys \cap DOMAIN r.keys
               PROVE  AnchoredAt(r, k)
    BY AnchoredEach
  <2> DEFINE o == doc.keys[k].owner
             c == doc.clips[o]
             e == r.clips[o]
             g == Gap(now, S, o)
  <2>1. o \in DOMAIN doc.clips \ S /\ doc.keys[k].frame \in Int /\ r.keys[k].owner = o
        /\ o \in DOMAIN r.clips
    BY <1>3, ReadyKey, DocKey DEF Ready
  <2>2. c.src \in Int /\ c.start \in Int /\ g \in Nat
    BY <1>3, <1>5, <2>1, ClipTyped
  <2>3. r.keys[k].frame = doc.keys[k].frame - g
    BY <1>2, <2>1, Snapshot DEF IsRippleDeleted
  <2>4. e.src = c.src /\ e.start = c.start - g
    BY <1>5, <2>1
  <2> HIDE DEF c, e, g
  <2>5. c.src + doc.keys[k].frame - c.start = e.src + r.keys[k].frame - e.start
    BY <2>1, <2>2, <2>3, <2>4
  <2> QED
    BY <1>3, <2>1, <2>5, AnchoredKey DEF c, e
<1> QED
  BY <1>1, <1>3, <1>4, <1>6, <1>7, LocksKept, FinalizeFine
-----------------------------------------------------------------------------
(* Every command is one of those.                                           *)

LEMMA NextFine ==
  ASSUME IsDocument(doc), Next
  PROVE  Fine
<1>1. Ready
  BY DEF Next, Editing, Ready
<1>2. Frames \subseteq Int /\ Delta \subseteq Int
  BY TimelineAssumption DEF Frames, Delta
<1>3. Sets \subseteq SUBSET DOMAIN doc.clips
  BY DEF Sets
<1>4. CASE \E S \in Sets, t \in TrackSet(doc) \cup {None}, d \in Delta : Move(S, t, d)
  BY <1>1, <1>2, <1>3, <1>4, MoveFine
<1>5. CASE \E i \in DOMAIN doc.clips, t \in Tracks, n \in 1 .. Len(doc.tracks) + 1,
           d \in Delta : MoveToNewTrack(i, t, n, d)
  BY <1>1, <1>2, <1>5, MoveToNewTrackFine
<1>6. CASE /\ Free # {}
           /\ \/ \E c \in NewClips : Insert(Min(Free), c) \/ Overwrite(Min(Free), c)
              \/ \E i \in DOMAIN doc.clips, t \in TrackSet(doc), d \in Delta :
                   Copy(i, Min(Free), t, d)
              \/ \E S \in Sets : Compound(S, Min(Free))
  <2>1. Min(Free) \in Clips /\ Min(Free) \notin DOMAIN doc.clips
    BY <1>6, FreeClip
  <2> DEFINE j == Min(Free)
  <2>2. CASE \E c \in NewClips : Insert(j, c) \/ Overwrite(j, c)
    BY <1>1, <2>1, <2>2, MadeUpClip, InsertFine, OverwriteFine
  <2>3. CASE \E i \in DOMAIN doc.clips, t \in TrackSet(doc), d \in Delta : Copy(i, j, t, d)
    BY <1>1, <1>2, <2>1, <2>3, CopyFine
  <2>4. CASE \E S \in Sets : Compound(S, j)
    BY <1>1, <1>3, <2>1, <2>4, CompoundFine
  <2> QED
    BY <1>6, <2>2, <2>3, <2>4
<1>7. CASE \E i \in DOMAIN doc.clips, c \in NewClips :
             c.start = doc.clips[i].start /\ Replace(i, c)
  BY <1>1, <1>7, MadeUpClip, ReplaceFine
<1>8. CASE \E S \in Sets, g \in Links \cup {None} : Link(S, g)
  BY <1>1, <1>3, <1>8, LinkFine
<1>9. CASE \E S \in Sets, at \in Frames :
             \E right \in {r \in [S -> Free] : IsInjective(r)} : Split(S, right, at)
  BY <1>1, <1>2, <1>3, <1>9, SplitFine
<1>10. CASE \E S \in Sets, ripple \in BOOLEAN :
              \E edge \in [S -> {"in", "out"}], to \in [S -> Frames] : Trim(S, edge, to, ripple)
  <2>1. PICK S \in Sets, ripple \in BOOLEAN :
          \E edge \in [S -> {"in", "out"}], to \in [S -> Frames] : Trim(S, edge, to, ripple)
    BY <1>10
  <2>2. PICK edge \in [S -> {"in", "out"}], to \in [S -> Frames] : Trim(S, edge, to, ripple)
    BY <2>1
  <2>3. to \in [S -> Int]
    BY <1>2
  <2> QED
    BY <1>1, <1>3, <2>2, <2>3, TrimFine
<1>11. CASE \E S \in SUBSET DOMAIN doc.clips \ {{}} : Delete(S) \/ RippleDelete(S)
  BY <1>1, <1>11, DeleteFine, RippleDeleteFine
<1>12. CASE \/ \E a, b \in Frames : a < b /\ SetRange(a, b)
            \/ ClearRange
  BY <1>1, <1>2, <1>12, SetRangeFine, ClearRangeFine
<1>13. CASE \/ \E t \in Tracks, n \in 1 .. Len(doc.tracks) + 1 : AddTrack(t, n)
            \/ \E t \in Tracks, b \in BOOLEAN : LockTrack(t, b) \/ RemoveTrack(t, b)
            \/ \E order \in SetToSeqs(TrackSet(doc)) : ReorderTracks(order)
  BY <1>1, <1>13, AddTrackFine, LockTrackFine, RemoveTrackFine, ReorderTracksFine
<1>14. CASE \E m \in Marks : RemoveMark(m) \/ \E f \in Frames : SetMark(m, f)
  BY <1>1, <1>2, <1>14, RemoveMarkFine, SetMarkFine
<1>15. CASE \E k \in Keys :
              RemoveKey(k) \/ \E i \in DOMAIN doc.clips, f \in Frames : SetKey(k, i, f)
  BY <1>1, <1>2, <1>15, RemoveKeyFine, SetKeyFine
<1>16. CASE \E i, j \in DOMAIN doc.clips, f \in Frames, b \in BOOLEAN : Roll(i, j, f, b)
  BY <1>1, <1>2, <1>16, RollFine
<1>17. CASE \E i \in DOMAIN doc.clips, d \in Delta, b \in BOOLEAN : Slip(i, d, b)
  BY <1>1, <1>2, <1>17, SlipFine
<1>18. CASE \E i \in DOMAIN doc.clips, f \in Frames, b \in BOOLEAN : Slide(i, f, b)
  BY <1>1, <1>2, <1>18, SlideFine
<1> QED
  BY <1>4, <1>5, <1>6, <1>7, <1>8, <1>9, <1>10, <1>11, <1>12, <1>13, <1>14, <1>15, <1>16,
     <1>17, <1>18 DEF Next

LEMMA NextReady ==
  ASSUME Next
  PROVE  Valid(now)
  BY DEF Next, Editing

(* The inductive invariant: what is edited is a document.                   *)
IInv == IsDocument(doc) /\ DocumentsReopen

LEMMA InitIInv ==
  ASSUME Init
  PROVE  IInv
<1>1. doc \in Starts
  BY DEF Init
<1>2. IsDocument(doc) /\ Valid(Read(doc))
  BY <1>1, StartsAssumption
<1> QED
  BY <1>2 DEF IInv, DocumentsReopen

LEMMA NextIInv ==
  ASSUME IInv, Next
  PROVE  IInv'
<1>1. PICK kind, S, s : Commit(kind, S, s) /\ IsTimeline(s)
  BY NextFine DEF IInv, Fine
<1> QED
  BY <1>1, CommitsDocument DEF IInv

LEMMA StutterIInv ==
  ASSUME IInv, UNCHANGED vars
  PROVE  IInv'
<1>1. doc' = doc
  BY DEF vars
<1>2. (IsDocument(doc)' <=> IsDocument(doc'))
  BY DEF IsDocument, IsTimeline, TrackSet
<1>3. DocumentsReopen' <=>
          \/ Valid(Read(doc'))
          \/ \E t \in TrackSet(doc') \cap AudioTracks : On(doc', t) = {}
          \/ \E i \in DOMAIN doc'.clips :
               \/ doc'.clips[i].bus /\ doc'.clips[i].track \notin AudioTracks
               \/ doc'.clips[i].asset = None
  BY DEF DocumentsReopen
<1> QED
  BY <1>1, <1>2, <1>3 DEF IInv, DocumentsReopen

THEOREM Invariant == Spec => []IInv
<1>1. Init => IInv
  BY InitIInv
<1>2. IInv /\ [Next]_vars => IInv'
  BY NextIInv, StutterIInv
<1> QED
  BY <1>1, <1>2, PTL DEF Spec

(* The timeline is a document at all times: the references of its records   *)
(* are within the timeline's sets, every lock is on a track it has, and it  *)
(* holds nothing that a document does not keep.                             *)
THEOREM TypeCorrect == Spec => [](IsDocument(doc))
<1>1. IInv => IsDocument(doc)
  BY DEF IInv
<1> QED
  BY <1>1, Invariant, PTL

(* A document that an accepted command has written reads back as a valid    *)
(* timeline, but for the three losses that DocumentsReopen names            *)
(* (executeTimelineDocumentEdit and the document adapter).                  *)
THEOREM Reopens == Spec => []DocumentsReopen
<1>1. IInv => DocumentsReopen
  BY DEF IInv
<1> QED
  BY <1>1, Invariant, PTL

LEMMA NextLocks ==
  ASSUME IInv, Next
  PROVE  LockedTracksKeepTheirClips
<1>1. PICK kind, S, s : Commit(kind, S, s) /\ IsTimeline(s) /\ Respects(s)
  BY NextFine DEF IInv, Fine
<1> QED
  BY <1>1, NextReady, CommitRespects DEF IInv, Ready

LEMMA NextKeys ==
  ASSUME IInv, Next
  PROVE  KeyframesStay
<1>1. PICK kind, S, s : /\ Commit(kind, S, s) /\ IsTimeline(s)
                        /\ \/ kind \in Unanchored
                           \/ kind = "slide" /\ \E i, j \in S : NextTo(i, j)
                           \/ Anchored(s)
  BY NextFine DEF IInv, Fine
<1>2. did' = [kind |-> kind, clips |-> S]
  BY <1>1 DEF Commit
<1>3. CASE kind \in Unanchored
  BY <1>2, <1>3 DEF KeyframesStay, Unanchored
<1>4. CASE kind = "slide" /\ \E i, j \in S : NextTo(i, j)
  BY <1>2, <1>4 DEF KeyframesStay
<1>5. CASE Anchored(s)
  BY <1>1, <1>5, NextReady, CommitAnchored DEF IInv, Ready
<1> QED
  BY <1>1, <1>3, <1>4, <1>5
-----------------------------------------------------------------------------
(* What an accepted command leaves, clip by clip, and which command it was. *)

(* Document d holds what snapshot r holds.                                  *)
Written(e, c) ==
  /\ e \in ClipRecords /\ c \in ClipRecords
  /\ e.track = c.track /\ e.start = c.start /\ e.end = c.end /\ e.src = c.src
  /\ e.srcEnd = c.srcEnd /\ e.avail = c.srcEnd /\ e.asset = c.asset /\ e.link = c.link
  /\ ~e.nested
IsWritten(d, r) ==
  /\ IsTimeline(d) /\ d.tracks = r.tracks /\ d.keys = r.keys /\ d.marks = r.marks
  /\ d.duration \in Int /\ d.duration <= MaxFrame
  /\ DOMAIN d.clips = DOMAIN r.clips
  /\ \A i \in DOMAIN r.clips :
       /\ Written(d.clips[i], r.clips[i])
       /\ d.clips[i].bus = (r.clips[i].bus \/ r.clips[i].track \in r.routed)
       /\ d.clips[i].end <= d.duration

LEMMA Wrote ==
  ASSUME NEW r \in Timelines, IsFiniteSet(DOMAIN r.clips), r.locked \subseteq TrackSet(r),
         NEW kind, NEW S, NEW s, s = r \/ s = Finalize(r), Commit(kind, S, s)
  PROVE  IsWritten(doc', r) /\ did'.kind = kind /\ did'.clips = S /\ Valid(s)
<1>1. doc' = Write(s) /\ did' = [kind |-> kind, clips |-> S] /\ Valid(s) /\ s.duration <= MaxFrame
  BY DEF Commit
<1>2. /\ s \in Timelines /\ IsFiniteSet(DOMAIN s.clips) /\ s.tracks = r.tracks
      /\ s.locked = r.locked /\ s.routed = r.routed /\ s.clips = r.clips /\ s.keys = r.keys
      /\ s.marks = r.marks
  <2>1. CASE s = r
    BY <2>1
  <2>2. CASE s = Finalize(r)
    BY <2>2, Finalized DEF Others
  <2> QED
    BY <2>1, <2>2
<1>3. IsTimeline(s) /\ s.duration \in Int
  BY <1>2, TimelineIs, TimelineTyped DEF TrackSet
<1>4. /\ IsTimeline(Write(s)) /\ Write(s).tracks = s.tracks /\ Write(s).keys = s.keys
      /\ Write(s).marks = s.marks /\ Write(s).duration = s.duration
      /\ DOMAIN Write(s).clips = DOMAIN s.clips
  BY <1>3, WrittenTimeline
<1>6. \A i \in DOMAIN s.clips :
        LET c == s.clips[i]
            e == Write(s).clips[i]
        IN /\ c \in ClipRecords /\ e \in ClipRecords
           /\ e.track = c.track /\ e.start = c.start /\ e.end = c.end
           /\ e.src = c.src /\ e.srcEnd = c.srcEnd /\ e.asset = c.asset
           /\ e.link = c.link /\ e.avail = c.srcEnd /\ e.nested = FALSE
           /\ e.bus = (c.bus \/ c.track \in s.routed)
  BY <1>3, WrittenTimeline
<1>7. ASSUME NEW i \in DOMAIN s.clips
      PROVE  /\ Written(Write(s).clips[i], s.clips[i])
             /\ Write(s).clips[i].bus = (s.clips[i].bus \/ s.clips[i].track \in s.routed)
             /\ Write(s).clips[i].end = s.clips[i].end
  BY <1>6 DEF Written
<1>5. \A i \in DOMAIN s.clips : s.clips[i].end <= s.duration
  BY <1>1 DEF Valid, ValidClip
<1> QED
  BY <1>1, <1>2, <1>3, <1>4, <1>5, <1>7 DEF IsWritten

(* The commands that the properties below are about.                        *)
Trims == {"trim", "ripple-in", "trim-apart", "ripple-in-apart"}
Else == {"move", "overwrite", "replace", "copy", "link", "range", "track", "mark", "key",
         "roll", "slip", "slide", "compound"}

LEMMA Kind ==
  ASSUME NEW kind, NEW S, NEW s, Commit(kind, S, s)
  PROVE  did'.kind = kind /\ did'.clips = S
  BY DEF Commit

(* Linked clips of S are trimmed by the same edge, to the same frame.       *)
Alike(S, edge, to) ==
  \A i \in S : \A j \in Linked(i) \cap S : edge[i] = edge[j] /\ to[i] = to[j]

TrimmedAlike ==
  \E S \in SUBSET DOMAIN doc.clips, ripple \in BOOLEAN :
    \E edge \in [S -> {"in", "out"}], to \in [S -> Int] :
      Trim(S, edge, to, ripple) /\ Alike(S, edge, to)

Command ==
  \/ did'.kind \in Else
  \/ /\ did'.kind = "insert"
     /\ \E c \in NewClips : Free # {} /\ Insert(Min(Free), c)
  \/ /\ did'.kind = "split"
     /\ \E S \in SUBSET DOMAIN doc.clips, at \in Int :
          \E right \in [S -> Free] : IsInjective(right) /\ Split(S, right, at)
  \/ /\ did'.kind \in Trims
     /\ did'.kind \in {"trim", "ripple-in"} => TrimmedAlike
  \/ /\ did'.kind = "delete"
     /\ \/ \E S \in SUBSET DOMAIN doc.clips : Delete(S)
        \/ \E t, b : RemoveTrack(t, b)
  \/ /\ did'.kind = "ripple-delete"
     /\ \E S \in SUBSET DOMAIN doc.clips : RippleDelete(S)

LEMMA NextCommand ==
  ASSUME Next
  PROVE  Command
<1>1. Frames \subseteq Int /\ Delta \subseteq Int
  BY TimelineAssumption DEF Frames, Delta
<1>2. Sets \subseteq SUBSET DOMAIN doc.clips
  BY DEF Sets
<1>3. ASSUME NEW S, NEW t, NEW d, Move(S, t, d) PROVE did'.kind \in Else
  BY <1>3, Kind DEF Move, Else
<1>4. ASSUME NEW i, NEW t, NEW n, NEW d, MoveToNewTrack(i, t, n, d) PROVE did'.kind \in Else
  BY <1>4, Kind DEF MoveToNewTrack, Else
<1>5. ASSUME NEW i, NEW c, Overwrite(i, c) PROVE did'.kind \in Else
  BY <1>5, Kind DEF Overwrite, Else
<1>6. ASSUME NEW i, NEW j, NEW t, NEW d, Copy(i, j, t, d) PROVE did'.kind \in Else
  BY <1>6, Kind DEF Copy, Else
<1>7. ASSUME NEW S, NEW j, Compound(S, j) PROVE did'.kind \in Else
  BY <1>7, Kind DEF Compound, Else
<1>8. ASSUME NEW i, NEW c, Replace(i, c) PROVE did'.kind \in Else
  BY <1>8, Kind DEF Replace, Else
<1>9. ASSUME NEW S, NEW g, Link(S, g) PROVE did'.kind \in Else
  BY <1>9, Kind DEF Link, Else
<1>10. ASSUME NEW a, NEW b, SetRange(a, b) \/ ClearRange PROVE did'.kind \in Else
  BY <1>10, Kind DEF SetRange, ClearRange, Else
<1>11. ASSUME NEW t, NEW n, AddTrack(t, n) \/ LockTrack(t, n) \/ ReorderTracks(t)
       PROVE  did'.kind \in Else
  BY <1>11, Kind DEF AddTrack, LockTrack, ReorderTracks, Else
<1>12. ASSUME NEW m, NEW f, SetMark(m, f) \/ RemoveMark(m) PROVE did'.kind \in Else
  BY <1>12, Kind DEF SetMark, RemoveMark, Else
<1>13. ASSUME NEW k, NEW i, NEW f, SetKey(k, i, f) \/ RemoveKey(k) PROVE did'.kind \in Else
  BY <1>13, Kind DEF SetKey, RemoveKey, Else
<1>14. ASSUME NEW i, NEW j, NEW f, NEW b, Roll(i, j, f, b) PROVE did'.kind \in Else
  BY <1>14, Kind DEF Roll, Else
<1>15. ASSUME NEW i, NEW f, NEW b, Slip(i, f, b) \/ Slide(i, f, b) PROVE did'.kind \in Else
  BY <1>15, Kind DEF Slip, Slide, Else
<1>16. ASSUME NEW i, NEW c, Insert(i, c) PROVE did'.kind = "insert"
  BY <1>16, Kind DEF Insert
<1>17. ASSUME NEW S, NEW right, NEW at, Split(S, right, at) PROVE did'.kind = "split"
  BY <1>17, Kind DEF Split
<1>18. ASSUME NEW S \in Sets, NEW edge \in [S -> {"in", "out"}], NEW to \in [S -> Frames],
              NEW ripple \in BOOLEAN, Trim(S, edge, to, ripple)
       PROVE  did'.kind \in Trims /\ (did'.kind \in {"trim", "ripple-in"} => TrimmedAlike)
  <2>1. did'.kind = TrimKind(S, edge, to, ripple)
    BY <1>18, Kind DEF Trim
  <2>2. TrimKind(S, edge, to, ripple) \in Trims
    BY DEF TrimKind, Trims
  <2>3. TrimKind(S, edge, to, ripple) \in {"trim", "ripple-in"} => Alike(S, edge, to)
    BY DEF TrimKind, Alike
  <2>4. S \in SUBSET DOMAIN doc.clips /\ to \in [S -> Int]
    BY <1>1, <1>2
  <2> QED
    BY <1>18, <2>1, <2>2, <2>3, <2>4 DEF TrimmedAlike
<1>19. ASSUME NEW S, Delete(S) PROVE did'.kind = "delete"
  BY <1>19, Kind DEF Delete
<1>20. ASSUME NEW t, NEW b, RemoveTrack(t, b) PROVE did'.kind = "delete"
  BY <1>20, Kind DEF RemoveTrack
<1>21. ASSUME NEW S, RippleDelete(S) PROVE did'.kind = "ripple-delete"
  BY <1>21, Kind DEF RippleDelete
<1> QED
  BY <1>1, <1>2, <1>3, <1>4, <1>5, <1>6, <1>7, <1>8, <1>9, <1>10, <1>11, <1>12, <1>13,
     <1>14, <1>15, <1>16, <1>17, <1>18, <1>19, <1>20, <1>21 DEF Next, Command
-----------------------------------------------------------------------------
(* What tracks show.                                                        *)

ShownAt(c, t, f) == c.track = t /\ f \in c.start .. c.end - 1
Frame(c, f) == <<c.asset, SourceAt(c, f)>>

LEMMA SameShown ==
  ASSUME NEW d, NEW e, NEW t, NEW f, NEW g,
         \A i \in DOMAIN d.clips : ShownAt(d.clips[i], t, f) =>
           \E j \in DOMAIN e.clips :
             ShownAt(e.clips[j], t, g) /\ Frame(e.clips[j], g) = Frame(d.clips[i], f),
         \A j \in DOMAIN e.clips : ShownAt(e.clips[j], t, g) =>
           \E i \in DOMAIN d.clips :
             ShownAt(d.clips[i], t, f) /\ Frame(e.clips[j], g) = Frame(d.clips[i], f)
  PROVE  Shows(d, t, f) = Shows(e, t, g)
<1>1. Shows(d, t, f) =
        {Frame(d.clips[i], f) : i \in {i \in DOMAIN d.clips : ShownAt(d.clips[i], t, f)}}
  BY DEF Shows, On, ShownOn, ShownAt, Frame
<1>2. Shows(e, t, g) =
        {Frame(e.clips[i], g) : i \in {i \in DOMAIN e.clips : ShownAt(e.clips[i], t, g)}}
  BY DEF Shows, On, ShownOn, ShownAt, Frame
<1> QED
  BY <1>1, <1>2

(* A written clip shows at g what the clip c showed at f.                   *)
LEMMA FrameOf ==
  ASSUME NEW c \in ClipRecords, NEW e \in ClipRecords, NEW f \in Int, NEW g \in Int,
         e.asset = c.asset, Still(c) <=> Still(e), Still(c) \/ c.src + f - c.start = e.src + g - e.start
  PROVE  Frame(e, g) = Frame(c, f)
<1>1. SourceAt(e, g) = SourceAt(c, f)
  BY DEF SourceAt, Still
<1> QED
  BY <1>1 DEF Frame

LEMMA CutFrame ==
  ASSUME NEW c \in ClipRecords, c.avail = c.srcEnd, 0 <= c.src,
         NEW at \in Int, c.start < at, at < c.end,
         Still(c) \/ SourceAt(c, at) < c.srcEnd, NEW f \in Int
  PROVE  /\ \A e : Written(e, EndAt(c, at)) /\ f < at /\ c.start <= f => Frame(e, f) = Frame(c, f)
         /\ \A e : Written(e, RightPart(c, at)) => Frame(e, f) = Frame(c, f)
<1>1. /\ c.start \in Int /\ c.src \in Int /\ c.srcEnd \in Int /\ c.end \in Int
  BY ClipTyped
<1>2. ASSUME NEW e, Written(e, EndAt(c, at)), f < at, c.start <= f
      PROVE  Frame(e, f) = Frame(c, f)
  <2>1. /\ e \in ClipRecords /\ e.start = c.start /\ e.src = c.src /\ e.asset = c.asset
        /\ e.srcEnd = (IF Still(c) THEN c.srcEnd ELSE c.src + at - c.start)
        /\ e.avail = e.srcEnd
    BY <1>2, EndAtClip DEF Written
  <2>2. CASE Still(c)
    <3>1. Still(e)
      BY <2>1, <2>2 DEF Still
    <3> QED
      BY <2>1, <2>2, <3>1, FrameOf
  <2>3. CASE ~Still(c)
    <3>1. SourceAt(c, f) = c.src + f - c.start
      BY <2>3 DEF SourceAt
    <3>2. SourceAt(e, f) = c.src + f - c.start
      <4>1. CASE Still(e)
        <5>1. c.src = 0 /\ c.src + at - c.start = 1
          BY <2>1, <2>3, <4>1 DEF Still
        <5>2. f = c.start
          BY <1>1, <1>2, <5>1
        <5>3. SourceAt(e, f) = c.src
          BY <2>1, <4>1 DEF SourceAt
        <5> QED
          BY <1>1, <5>2, <5>3
      <4>2. CASE ~Still(e)
        BY <2>1, <4>2 DEF SourceAt
      <4> QED
        BY <4>1, <4>2
    <3> QED
      BY <2>1, <3>1, <3>2 DEF Frame
  <2> QED
    BY <2>2, <2>3
<1>3. ASSUME NEW e, Written(e, RightPart(c, at))
      PROVE  Frame(e, f) = Frame(c, f)
  <2>1. /\ e \in ClipRecords /\ e.start = at /\ e.asset = c.asset
        /\ e.src = (IF Still(c) THEN c.src ELSE c.src + at - c.start)
        /\ e.srcEnd = c.srcEnd /\ e.avail = c.srcEnd
    BY <1>3, RightPartClip DEF Written
  <2>2. Still(c) <=> Still(e)
    <3>1. CASE Still(c)
      BY <2>1, <3>1 DEF Still
    <3>2. CASE ~Still(c)
      <4>1. e.src # 0
        BY <1>1, <2>1, <3>2
      <4> QED
        BY <3>2, <4>1 DEF Still
    <3> QED
      BY <3>1, <3>2
  <2>3. Still(c) \/ c.src + f - c.start = e.src + f - e.start
    BY <1>1, <2>1
  <2> QED
    BY <2>1, <2>2, <2>3, FrameOf
<1> QED
  BY <1>2, <1>3

LEMMA SplitShows ==
  ASSUME Ready, NEW S \in SUBSET DOMAIN doc.clips, NEW right \in [S -> Free],
         IsInjective(right), NEW at \in Int, Split(S, right, at)
  PROVE  SplitChangesNothingShown
<1>1. PICK r : IsSplit(r, S, right, at) /\ Commit("split", S \cup Range(right), r)
  BY SplitTimeline
<1>2. IsWritten(doc', r)
  BY <1>1, Wrote, LocksKept DEF IsSplit
<1>3. /\ \A i \in S : doc.clips[i].start < at /\ at < doc.clips[i].end
      /\ \A i \in S : Still(doc.clips[i]) \/ SourceAt(doc.clips[i], at) < doc.clips[i].srcEnd
  BY DEF Split
<1>4. /\ DOMAIN doc'.clips = DOMAIN doc.clips \cup {right[i] : i \in S}
      /\ \A i \in S : /\ Written(doc'.clips[right[i]], RightPart(doc.clips[i], at))
                      /\ Written(doc'.clips[i], EndAt(doc.clips[i], at))
      /\ \A i \in DOMAIN doc.clips \ S : Written(doc'.clips[i], doc.clips[i])
  BY <1>1, <1>2 DEF IsSplit, IsWritten
<1> SUFFICES ASSUME NEW t \in Tracks, NEW f \in Frames
             PROVE  Shows(doc', t, f) = Shows(doc, t, f)
  BY DEF SplitChangesNothingShown
<1>5. f \in Int
  BY DEF Frames
<1>6. ASSUME NEW i \in DOMAIN doc.clips
      PROVE  /\ doc.clips[i] \in ClipRecords /\ doc.clips[i].avail = doc.clips[i].srcEnd
             /\ 0 <= doc.clips[i].src
             /\ doc.clips[i].start \in Int /\ doc.clips[i].end \in Int
  BY DocClip, ReadyClip, ClipTyped DEF Ready
<1>7. ASSUME NEW i \in DOMAIN doc.clips \ S
      PROVE  /\ ShownAt(doc'.clips[i], t, f) <=> ShownAt(doc.clips[i], t, f)
             /\ Frame(doc'.clips[i], f) = Frame(doc.clips[i], f)
  <2>1. Written(doc'.clips[i], doc.clips[i])
    BY <1>4
  <2> QED
    BY <1>5, <1>6, <2>1, FrameOf DEF Written, ShownAt, Still
<1>8. ASSUME NEW i \in S
      PROVE  /\ ShownAt(doc'.clips[i], t, f) <=> ShownAt(doc.clips[i], t, f) /\ f < at
             /\ ShownAt(doc'.clips[i], t, f) => Frame(doc'.clips[i], f) = Frame(doc.clips[i], f)
             /\ ShownAt(doc'.clips[right[i]], t, f) <=> ShownAt(doc.clips[i], t, f) /\ ~(f < at)
             /\ Frame(doc'.clips[right[i]], f) = Frame(doc.clips[i], f)
  <2> DEFINE c == doc.clips[i]
             e == doc'.clips[i]
             g == doc'.clips[right[i]]
  <2>1. c \in ClipRecords /\ c.avail = c.srcEnd /\ 0 <= c.src /\ c.start < at /\ at < c.end
        /\ (Still(c) \/ SourceAt(c, at) < c.srcEnd)
        /\ c.start \in Int /\ c.end \in Int
    BY <1>3, <1>6
  <2>2. Written(e, EndAt(c, at)) /\ Written(g, RightPart(c, at))
    BY <1>4
  <2> HIDE DEF c, e, g
  <2>3. e.track = c.track /\ e.start = c.start /\ e.end = at
    BY <2>1, <2>2, EndAtClip DEF Written
  <2>4. g.track = c.track /\ g.start = at /\ g.end = c.end
    BY <2>1, <2>2, RightPartClip DEF Written
  <2>5. ShownAt(e, t, f) <=> ShownAt(c, t, f) /\ f < at
    BY <1>5, <2>1, <2>3 DEF ShownAt
  <2>6. ShownAt(g, t, f) <=> ShownAt(c, t, f) /\ ~(f < at)
    BY <1>5, <2>1, <2>4 DEF ShownAt
  <2>7. (f < at /\ c.start <= f => Frame(e, f) = Frame(c, f)) /\ Frame(g, f) = Frame(c, f)
    BY <1>5, <2>1, <2>2, CutFrame
  <2>8. ShownAt(e, t, f) => f < at /\ c.start <= f
    BY <1>5, <2>1, <2>5 DEF ShownAt
  <2> QED
    BY <2>5, <2>6, <2>7, <2>8 DEF c, e, g
<1>9. \A i \in DOMAIN doc.clips : ShownAt(doc.clips[i], t, f) =>
        \E j \in DOMAIN doc'.clips :
          ShownAt(doc'.clips[j], t, f) /\ Frame(doc.clips[i], f) = Frame(doc'.clips[j], f)
  BY <1>4, <1>7, <1>8
<1>10. \A j \in DOMAIN doc'.clips : ShownAt(doc'.clips[j], t, f) =>
        \E i \in DOMAIN doc.clips :
          ShownAt(doc.clips[i], t, f) /\ Frame(doc.clips[i], f) = Frame(doc'.clips[j], f)
  BY <1>4, <1>7, <1>8
<1> QED
  BY <1>9, <1>10, SameShown
-----------------------------------------------------------------------------
(* Linked clips.                                                            *)

LEMMA StepKept ==
  ASSUME NEW d, InStep(doc), DOMAIN d.clips \subseteq DOMAIN doc.clips,
         \A i \in DOMAIN d.clips : /\ d.clips[i].link = doc.clips[i].link
                                   /\ d.clips[i].track = doc.clips[i].track,
         \A i, j \in DOMAIN d.clips : j \in Partners(doc, i) =>
           d.clips[i].start = d.clips[j].start /\ d.clips[i].end = d.clips[j].end
  PROVE  InStep(d)
<1>1. \A i \in DOMAIN d.clips : Partners(d, i) \subseteq Partners(doc, i)
  BY DEF Partners
<1>2. \A i \in DOMAIN d.clips : Partners(d, i) \subseteq DOMAIN d.clips
  BY DEF Partners
<1> QED
  BY <1>1, <1>2 DEF InStep

(* The partners of a clip of a covered set are in it, and only they are.    *)
LEMMA Together ==
  ASSUME NEW S \in SUBSET DOMAIN doc.clips, Covers(S), NEW i \in DOMAIN doc.clips,
         NEW j \in Partners(doc, i)
  PROVE  i \in S <=> j \in S
  BY DEF Covers, Linked, Partners

(* With paired tracks, what is on the track of a clip has a partner on the  *)
(* track of the clip's partner, at the same frames.                         *)
LEMMA Mirrored ==
  ASSUME Paired(doc), InStep(doc), NEW S \in SUBSET DOMAIN doc.clips, Covers(S),
         NEW i \in DOMAIN doc.clips, NEW j \in Partners(doc, i),
         NEW x \in S, doc.clips[x].track = doc.clips[i].track
  PROVE  \E y \in S : /\ y \in Partners(doc, x)
                      /\ doc.clips[y].track = doc.clips[j].track
                      /\ doc.clips[y].start = doc.clips[x].start
                      /\ doc.clips[y].end = doc.clips[x].end
<1>1. doc.clips[j].track \in {doc.clips[y].track : y \in Partners(doc, x)}
  <2>1. doc.clips[j].track \in {doc.clips[y].track : y \in Partners(doc, i)}
    OBVIOUS
  <2>2. {doc.clips[y].track : y \in Partners(doc, i)} = {doc.clips[y].track : y \in Partners(doc, x)}
    BY DEF Paired
  <2> QED
    BY <2>1, <2>2
<1>2. PICK y \in Partners(doc, x) : doc.clips[y].track = doc.clips[j].track
  BY <1>1
<1>3. y \in S
  BY Together
<1> QED
  BY <1>2, <1>3 DEF InStep

LEMMA PartnersBack ==
  ASSUME NEW i \in DOMAIN doc.clips, NEW j \in Partners(doc, i)
  PROVE  j \in DOMAIN doc.clips /\ i \in Partners(doc, j)
  BY DEF Partners

LEMMA TrimInStep ==
  ASSUME Ready, NEW S \in SUBSET DOMAIN doc.clips, NEW edge \in [S -> {"in", "out"}],
         NEW to \in [S -> Int], NEW ripple \in BOOLEAN, Trim(S, edge, to, ripple),
         Alike(S, edge, to), Paired(doc), InStep(doc)
  PROVE  InStep(doc')
<1>1. PICK r : /\ IsTrimmed(r, S, edge, to, ripple)
               /\ Commit(TrimKind(S, edge, to, ripple), S, Finalize(r))
  BY TrimmedTimeline
<1>2. IsWritten(doc', r)
  <2>1. r \in Timelines /\ Others(r, now) /\ IsFiniteSet(DOMAIN r.clips)
    BY <1>1, Snapshot DEF IsTrimmed
  <2> QED
    BY <1>1, <2>1, Wrote, LocksKept
<1>3. Covers(S)
  BY DEF Trim
<1>4. \A i \in DOMAIN doc.clips :
        doc.clips[i] \in ClipRecords /\ doc.clips[i].start \in Int /\ doc.clips[i].end \in Int
        /\ doc.clips[i].start < doc.clips[i].end
  BY DocClip, ReadyClip, ClipTyped DEF Ready
<1>5. \A i \in S : Ripple(doc.clips[i], edge[i], to[i]) \in Int
  BY <1>4 DEF Ripple
<1>6. DOMAIN doc'.clips = DOMAIN doc.clips
      /\ \A i \in DOMAIN doc.clips : Written(doc'.clips[i], r.clips[i])
  BY <1>1, <1>2 DEF IsWritten, IsTrimmed
<1>7. ASSUME NEW i \in S
      PROVE  /\ r.clips[i].link = doc.clips[i].link /\ r.clips[i].track = doc.clips[i].track
             /\ edge[i] = "out" => r.clips[i].start = doc.clips[i].start /\ r.clips[i].end = to[i]
             /\ edge[i] = "in" =>
                  /\ r.clips[i].start = IF ripple THEN doc.clips[i].start ELSE to[i]
                  /\ r.clips[i].end = IF ripple THEN doc.clips[i].end - (to[i] - doc.clips[i].start)
                                                ELSE doc.clips[i].end
  <2>1. r.clips[i] = Trimmed(doc.clips[i], edge[i], to[i], ripple)
    BY <1>1 DEF IsTrimmed
  <2>2. doc.clips[i] \in ClipRecords
    BY <1>4
  <2>3. LET e == Trimmed(doc.clips[i], edge[i], to[i], ripple) IN
        /\ e.link = doc.clips[i].link /\ e.track = doc.clips[i].track
        /\ edge[i] = "out" => e.start = doc.clips[i].start /\ e.end = to[i]
        /\ edge[i] = "in" => /\ e.start = IF ripple THEN doc.clips[i].start ELSE to[i]
                          /\ e.end = IF ripple THEN doc.clips[i].end - (to[i] - doc.clips[i].start)
                                     ELSE doc.clips[i].end
    BY <2>2, TrimmedClip
  <2> QED
    BY <2>1, <2>3
<1> DEFINE moving(j) == ripple /\ \E i \in S : Follows(i, j)
<1>8. ASSUME NEW j \in DOMAIN doc.clips \ S, NEW i \in S, ripple, Follows(i, j)
      PROVE  LET d == Ripple(doc.clips[i], edge[i], to[i]) IN
             /\ r.clips[j].link = doc.clips[j].link /\ r.clips[j].track = doc.clips[j].track
             /\ r.clips[j].start = doc.clips[j].start + d /\ r.clips[j].end = doc.clips[j].end + d
  <2>1. r.clips[j] = Shifted(doc.clips[j], Ripple(doc.clips[i], edge[i], to[i]))
    BY <1>1, <1>8 DEF IsTrimmed
  <2>2. doc.clips[j] \in ClipRecords /\ Ripple(doc.clips[i], edge[i], to[i]) \in Int
    BY <1>4, <1>5
  <2> QED
    BY <2>1, <2>2, ShiftedClip
<1>9. \A j \in DOMAIN doc.clips \ S : ~moving(j) => r.clips[j] = doc.clips[j]
  BY <1>1 DEF IsTrimmed
<1>10. ASSUME NEW i \in DOMAIN doc.clips
       PROVE  /\ doc'.clips[i].link = doc.clips[i].link
              /\ doc'.clips[i].track = doc.clips[i].track
  <2>1. r.clips[i].link = doc.clips[i].link /\ r.clips[i].track = doc.clips[i].track
    BY <1>7, <1>8, <1>9
  <2> QED
    BY <1>6, <2>1 DEF Written
<1>11. ASSUME NEW i \in DOMAIN doc.clips, NEW j \in Partners(doc, i)
       PROVE  r.clips[i].start = r.clips[j].start /\ r.clips[i].end = r.clips[j].end
  <2>1. /\ j \in DOMAIN doc.clips /\ i \in Partners(doc, j)
        /\ doc.clips[i].start = doc.clips[j].start /\ doc.clips[i].end = doc.clips[j].end
        /\ i \in S <=> j \in S
    BY <1>3, PartnersBack, Together DEF InStep
  <2>2. CASE i \in S
    <3>1. edge[i] \in {"in", "out"} /\ edge[i] = edge[j] /\ to[i] = to[j]
      BY <2>1, <2>2 DEF Alike, Partners, Linked
    <3> QED
      BY <1>7, <2>1, <2>2, <3>1
  <2>3. CASE i \notin S /\ moving(i)
    <3>1. PICK x \in S : Follows(x, i)
      BY <2>3
    <3>2. PICK y \in S : /\ y \in Partners(doc, x)
                         /\ doc.clips[y].track = doc.clips[j].track
                         /\ doc.clips[y].start = doc.clips[x].start
                         /\ doc.clips[y].end = doc.clips[x].end
      BY <1>3, <3>1, Mirrored DEF Follows
    <3>3. Follows(y, j)
      BY <2>1, <3>1, <3>2 DEF Follows
    <3>4. Ripple(doc.clips[y], edge[y], to[y]) = Ripple(doc.clips[x], edge[x], to[x])
      <4>1. edge[y] = edge[x] /\ to[y] = to[x]
        BY <3>2 DEF Alike, Partners, Linked
      <4> QED
        BY <3>2, <4>1 DEF Ripple
    <3> QED
      BY <1>8, <2>1, <2>3, <3>1, <3>3, <3>4
  <2>4. CASE i \notin S /\ ~moving(i)
    <3>1. ~moving(j)
      <4> SUFFICES ASSUME moving(j) PROVE FALSE
        OBVIOUS
      <4>1. PICK x \in S : Follows(x, j)
        OBVIOUS
      <4>2. PICK y \in S : /\ doc.clips[y].track = doc.clips[i].track
                           /\ doc.clips[y].start = doc.clips[x].start
                           /\ doc.clips[y].end = doc.clips[x].end
        BY <1>3, <2>1, <4>1, Mirrored DEF Follows
      <4>3. Follows(y, i)
        BY <2>1, <4>1, <4>2 DEF Follows
      <4> QED
        BY <2>4, <4>3
    <3> QED
      BY <1>9, <2>1, <2>4, <3>1
  <2> QED
    BY <2>2, <2>3, <2>4
<1>12. ASSUME NEW i \in DOMAIN doc.clips, NEW j \in DOMAIN doc.clips, j \in Partners(doc, i)
       PROVE  doc'.clips[i].start = doc'.clips[j].start /\ doc'.clips[i].end = doc'.clips[j].end
  BY <1>6, <1>11, <1>12 DEF Written
<1> QED
  BY <1>6, <1>10, <1>12, StepKept

(* What is left when clips are removed, and nothing else is done to clips.  *)
LEMMA RemovedInStep ==
  ASSUME InStep(doc), NEW S, NEW r, IsWritten(doc', r), DOMAIN r.clips = DOMAIN doc.clips \ S,
         \A i \in DOMAIN doc.clips \ S : r.clips[i] = doc.clips[i]
  PROVE  InStep(doc')
<1>1. DOMAIN doc'.clips = DOMAIN doc.clips \ S
      /\ \A i \in DOMAIN doc.clips \ S : Written(doc'.clips[i], doc.clips[i])
  BY DEF IsWritten
<1>2. \A i, j \in DOMAIN doc'.clips : j \in Partners(doc, i) =>
           doc'.clips[i].start = doc'.clips[j].start /\ doc'.clips[i].end = doc'.clips[j].end
  BY <1>1 DEF Written, InStep
<1> QED
  BY <1>1, <1>2, StepKept DEF Written

LEMMA DeleteInStep ==
  ASSUME Ready, NEW S \in SUBSET DOMAIN doc.clips, Delete(S), InStep(doc)
  PROVE  InStep(doc')
<1> DEFINE r == RemoveClips(now, S)
<1>1. Commit("delete", S, Finalize(r))
  BY DEF Delete
<1>2. IsRemoved(r, now, S)
  BY Snapshot, RemovedTimeline
<1> HIDE DEF r
<1>3. /\ r \in Timelines /\ Others(r, now) /\ DOMAIN r.clips = DOMAIN doc.clips \ S
      /\ \A j \in DOMAIN doc.clips \ S : r.clips[j] = doc.clips[j]
  BY <1>2, Snapshot DEF IsRemoved
<1>4. IsFiniteSet(DOMAIN r.clips)
  <2>1. IsFiniteSet(DOMAIN doc.clips \ S)
    BY Snapshot, FS_Difference
  <2> QED
    BY <1>3, <2>1
<1>5. IsWritten(doc', r)
  BY <1>1, <1>3, <1>4, LocksKept, Wrote
<1> QED
  BY <1>3, <1>5, RemovedInStep
-----------------------------------------------------------------------------
LEMMA TracklessInStep ==
  ASSUME Ready, NEW t, NEW clipsToo, RemoveTrack(t, clipsToo), InStep(doc)
  PROVE  InStep(doc')
<1> DEFINE S == On(doc, t)
<1>1. PICK r \in Timelines :
           /\ Commit("delete", S, r)
           /\ r.locked \subseteq TrackSet(r) /\ IsFiniteSet(DOMAIN r.clips)
           /\ DOMAIN r.clips = DOMAIN doc.clips \ S
           /\ \A j \in DOMAIN doc.clips \ S : r.clips[j] = doc.clips[j]
  BY TracklessTimeline
<1> HIDE DEF S
<1>2. IsWritten(doc', r)
  BY <1>1, Wrote
<1> QED
  BY <1>1, <1>2, RemovedInStep

(* What is left of the document when the clips of S are deleted with a      *)
(* ripple.                                                                  *)
IsRippled(d, S) ==
  /\ DOMAIN d.clips = DOMAIN doc.clips \ S
  /\ \A j \in DOMAIN d.clips :
       /\ Gap(now, S, j) \in Nat
       /\ Written(d.clips[j], Shifted(doc.clips[j], 0 - Gap(now, S, j)))
       /\ d.clips[j].start = doc.clips[j].start - Gap(now, S, j)
       /\ d.clips[j].end = doc.clips[j].end - Gap(now, S, j)
       /\ d.clips[j].track = doc.clips[j].track /\ d.clips[j].link = doc.clips[j].link
       /\ d.clips[j].asset = doc.clips[j].asset /\ d.clips[j].src = doc.clips[j].src
       /\ Still(d.clips[j]) <=> Still(doc.clips[j])
  /\ d.marks = [m \in {x \in DOMAIN doc.marks :
                         x \notin ContentMarks \/ doc.marks[x] \notin AllDeleted(now, S)} |->
                  IF m \in ContentMarks
                  THEN doc.marks[m] - Closed(AllDeleted(now, S), doc.marks[m])
                  ELSE doc.marks[m]]

LEMMA RippledDocument ==
  ASSUME Ready, NEW S \in SUBSET DOMAIN doc.clips, RippleDelete(S)
  PROVE  IsRippled(doc', S) /\ did'.kind = "ripple-delete" /\ did'.clips = S /\ Covers(S)
<1> DEFINE r == RippleDeleted(now, S)
<1>1. Covers(S) /\ Commit("ripple-delete", S, Finalize(r))
  BY DEF RippleDelete
<1>2. IsRippleDeleted(r, now, S)
  BY Snapshot, RippleDeletedTimeline
<1> HIDE DEF r
<1>3. /\ r \in Timelines /\ Others(r, now) /\ DOMAIN r.clips = DOMAIN doc.clips \ S
      /\ \A j \in DOMAIN doc.clips \ S :
           Gap(now, S, j) \in Nat /\ r.clips[j] = Shifted(doc.clips[j], 0 - Gap(now, S, j))
  BY <1>2, Snapshot DEF IsRippleDeleted
<1>4. IsFiniteSet(DOMAIN r.clips)
  <2>1. IsFiniteSet(DOMAIN doc.clips \ S)
    BY Snapshot, FS_Difference
  <2> QED
    BY <1>3, <2>1
<1>5. /\ IsWritten(doc', r) /\ did'.kind = "ripple-delete" /\ did'.clips = S
  BY <1>1, <1>3, <1>4, LocksKept, Wrote
<1>6. /\ DOMAIN doc'.clips = DOMAIN doc.clips \ S
      /\ \A j \in DOMAIN doc.clips \ S :
           Written(doc'.clips[j], Shifted(doc.clips[j], 0 - Gap(now, S, j)))
  BY <1>3, <1>5 DEF IsWritten
<1>7. doc'.marks = r.marks
  BY <1>5 DEF IsWritten
<1>8. ASSUME NEW j \in DOMAIN doc.clips \ S
      PROVE  /\ doc'.clips[j].start = doc.clips[j].start - Gap(now, S, j)
             /\ doc'.clips[j].end = doc.clips[j].end - Gap(now, S, j)
             /\ doc'.clips[j].track = doc.clips[j].track /\ doc'.clips[j].link = doc.clips[j].link
             /\ doc'.clips[j].asset = doc.clips[j].asset /\ doc'.clips[j].src = doc.clips[j].src
             /\ Still(doc'.clips[j]) <=> Still(doc.clips[j])
  <2> DEFINE c == doc.clips[j]
             e == doc'.clips[j]
             g == Gap(now, S, j)
  <2>1. c \in ClipRecords /\ c.start \in Int /\ c.end \in Int /\ g \in Nat /\ 0 - g \in Int
        /\ c.avail = c.srcEnd
    BY <1>3, DocClip, ClipTyped DEF Ready
  <2>2. Written(e, Shifted(c, 0 - g))
    BY <1>6
  <2> HIDE DEF c, e, g
  <2>3. LET x == Shifted(c, 0 - g) IN
         /\ x.start = c.start + (0 - g) /\ x.end = c.end + (0 - g)
         /\ x.track = c.track /\ x.src = c.src /\ x.link = c.link
         /\ x.srcEnd = c.srcEnd /\ x.asset = c.asset
    BY <2>1, ShiftedClip
  <2>4. c.start + (0 - g) = c.start - g /\ c.end + (0 - g) = c.end - g
    BY <2>1
  <2>5. /\ e.start = c.start - g /\ e.end = c.end - g /\ e.track = c.track /\ e.link = c.link
        /\ e.asset = c.asset /\ e.src = c.src /\ e.srcEnd = c.srcEnd /\ e.avail = c.srcEnd
    BY <2>2, <2>3, <2>4 DEF Written
  <2>6. Still(e) <=> Still(c)
    BY <2>1, <2>5 DEF Still
  <2> QED
    BY <2>5, <2>6 DEF c, e, g
<1>9. r.marks = [m \in {x \in DOMAIN doc.marks :
                         x \notin ContentMarks \/ doc.marks[x] \notin AllDeleted(now, S)} |->
                  IF m \in ContentMarks
                  THEN doc.marks[m] - Closed(AllDeleted(now, S), doc.marks[m])
                  ELSE doc.marks[m]]
  BY <1>2, Snapshot DEF IsRippleDeleted
<1> QED
  BY <1>1, <1>3, <1>5, <1>6, <1>7, <1>8, <1>9 DEF IsRippled

LEMMA RippleDeleteInStep ==
  ASSUME Ready, NEW S \in SUBSET DOMAIN doc.clips, RippleDelete(S), Paired(doc), InStep(doc)
  PROVE  InStep(doc')
<1>1. IsRippled(doc', S) /\ Covers(S)
  BY RippledDocument
<1>2. ASSUME NEW i \in DOMAIN doc.clips, NEW j \in Partners(doc, i),
             NEW g \in Deleted(now, S, doc.clips[i].track)
      PROVE  g \in Deleted(now, S, doc.clips[j].track)
  <2>1. PICK x \in S : x \in On(now, doc.clips[i].track) /\ g \in ShownOn(now.clips[x])
    BY DEF Deleted
  <2>2. doc.clips[x].track = doc.clips[i].track /\ g \in ShownOn(doc.clips[x])
    BY <2>1, Snapshot DEF On
  <2>3. PICK y \in S : /\ doc.clips[y].track = doc.clips[j].track
                       /\ doc.clips[y].start = doc.clips[x].start
                       /\ doc.clips[y].end = doc.clips[x].end
    BY <1>1, <2>2, Mirrored
  <2>4. y \in On(now, doc.clips[j].track) /\ g \in ShownOn(now.clips[y])
    BY <2>2, <2>3, Snapshot DEF On, ShownOn
  <2> QED
    BY <2>4 DEF Deleted
<1>3. ASSUME NEW i \in DOMAIN doc.clips, NEW j \in DOMAIN doc.clips, j \in Partners(doc, i)
      PROVE  Gap(now, S, i) = Gap(now, S, j)
             /\ doc.clips[i].start = doc.clips[j].start /\ doc.clips[i].end = doc.clips[j].end
  <2>1. i \in Partners(doc, j)
    BY <1>3, PartnersBack
  <2>2. Deleted(now, S, doc.clips[i].track) = Deleted(now, S, doc.clips[j].track)
    BY <1>2, <1>3, <2>1
  <2>3. doc.clips[i].start = doc.clips[j].start /\ doc.clips[i].end = doc.clips[j].end
    BY <1>3 DEF InStep
  <2> QED
    BY <2>2, <2>3, Snapshot DEF Gap
<1>4. \A i, j \in DOMAIN doc'.clips : j \in Partners(doc, i) =>
        doc'.clips[i].start = doc'.clips[j].start /\ doc'.clips[i].end = doc'.clips[j].end
  BY <1>1, <1>3 DEF IsRippled
<1> QED
  BY <1>1, <1>4, StepKept DEF IsRippled

LEMMA NextLinks ==
  ASSUME IInv, Next
  PROVE  LinkedStayInStep
<1> SUFFICES ASSUME Paired(doc), InStep(doc),
                    did'.kind \in {"trim", "ripple-in", "delete", "ripple-delete"}
             PROVE  InStep(doc')
  BY DEF LinkedStayInStep
<1>1. Ready
  BY NextReady DEF IInv, Ready
<1>2. \/ TrimmedAlike
      \/ \E S \in SUBSET DOMAIN doc.clips : Delete(S) \/ RippleDelete(S)
      \/ \E t, b : RemoveTrack(t, b)
  BY NextCommand DEF Command, Else, Trims
<1> QED
  BY <1>1, <1>2, TrimInStep, DeleteInStep, RippleDeleteInStep, TracklessInStep DEF TrimmedAlike
-----------------------------------------------------------------------------
(* Counting the deleted frames before a frame.                              *)

Below(D, f) == Cardinality({g \in D : g < f})

LEMMA BelowStep ==
  ASSUME NEW D \in SUBSET Int, IsFiniteSet(D), NEW a \in Int, NEW b \in Int, a <= b
  PROVE  /\ Below(D, a) \in Nat /\ Below(D, b) \in Nat
         /\ Below(D, a) <= Below(D, b) /\ Below(D, b) <= Below(D, a) + (b - a)
         /\ a < b /\ a \notin D => Below(D, b) <= Below(D, a) + (b - a - 1)
         /\ (\A g \in D : ~(a <= g /\ g < b)) => Below(D, b) = Below(D, a)
<1> DEFINE A == {g \in D : g < a}
           B == {g \in D : g < b}
           M == {g \in D : a <= g /\ g < b}
<1>1. /\ IsFiniteSet(A) /\ IsFiniteSet(B) /\ IsFiniteSet(M)
  <2>1. A \in SUBSET D /\ B \in SUBSET D /\ M \in SUBSET D
    OBVIOUS
  <2> HIDE DEF A, B, M
  <2> QED
    BY <2>1, FS_Subset
<1>2. A \cup M = B /\ A \cap M = {}
  <2>1. \A g \in D : g < b <=> g < a \/ (a <= g /\ g < b)
    OBVIOUS
  <2>2. \A g \in D : ~(g < a /\ a <= g)
    OBVIOUS
  <2> QED
    BY <2>1, <2>2
<1>3. M \subseteq a .. (b - 1) /\ (a \notin D => M \subseteq (a + 1) .. (b - 1))
  <2>1. \A g \in D : a <= g /\ g < b => g \in a .. (b - 1)
    OBVIOUS
  <2>2. \A g \in D : a <= g /\ g < b /\ a \notin D => g \in (a + 1) .. (b - 1)
    <3> SUFFICES ASSUME NEW g \in D, a <= g, g < b, a \notin D PROVE g \in (a + 1) .. (b - 1)
      OBVIOUS
    <3>1. g # a /\ g \in Int
      OBVIOUS
    <3> QED
      BY <3>1
  <2> QED
    BY <2>1, <2>2
<1>4. (\A g \in D : ~(a <= g /\ g < b)) => M = {}
  OBVIOUS
<1>5. Below(D, a) = Cardinality(A) /\ Below(D, b) = Cardinality(B)
  BY DEF Below
<1> HIDE DEF A, B, M
<1>6. Cardinality(A) \in Nat /\ Cardinality(B) \in Nat /\ Cardinality(M) \in Nat
  BY <1>1, FS_CardinalityType
<1>7. Cardinality(B) = Cardinality(A) + Cardinality(M)
  <2>1. Cardinality(A \cup M) = Cardinality(A) + Cardinality(M) - Cardinality(A \cap M)
    BY <1>1, FS_Union
  <2>2. Cardinality({}) = 0
    BY FS_EmptySet
  <2>3. Cardinality(B) = Cardinality(A) + Cardinality(M) - 0
    BY <1>2, <2>1, <2>2
  <2> QED
    BY <1>6, <2>3
<1>8. Cardinality(M) <= b - a
  <2>1. IsFiniteSet(a .. (b - 1)) /\ Cardinality(a .. (b - 1)) = IF a > b - 1 THEN 0 ELSE b - 1 - a + 1
    BY FS_Interval
  <2>2. Cardinality(M) <= Cardinality(a .. (b - 1))
    BY <1>3, <2>1, FS_Subset
  <2> QED
    BY <1>6, <2>1, <2>2
<1>9. ASSUME a < b, a \notin D PROVE Cardinality(M) <= b - a - 1
  <2>1. IsFiniteSet((a + 1) .. (b - 1))
        /\ Cardinality((a + 1) .. (b - 1)) = IF a + 1 > b - 1 THEN 0 ELSE b - 1 - (a + 1) + 1
    BY FS_Interval
  <2>2. Cardinality(M) <= Cardinality((a + 1) .. (b - 1))
    BY <1>3, <1>9, <2>1, FS_Subset
  <2> QED
    BY <1>6, <1>9, <2>1, <2>2
<1>10. M = {} => Cardinality(M) = 0
  BY FS_EmptySet
<1> QED
  BY <1>4, <1>5, <1>6, <1>7, <1>8, <1>9, <1>10

LEMMA ClosedBelow ==
  ASSUME NEW D \in SUBSET Int, IsFiniteSet(D), NEW f \in Int, f \notin D
  PROVE  Closed(D, f) = Below(D, f)
<1>1. {g \in D : g < f /\ \E h \in g .. f : h \notin D} = {g \in D : g < f}
  <2>1. \A g \in D : g < f => f \in g .. f
    OBVIOUS
  <2> QED
    BY <2>1
<1> QED
  BY <1>1 DEF Closed, Below

LEMMA DeletedOn ==
  ASSUME Ready, NEW S \in SUBSET DOMAIN doc.clips, NEW t
  PROVE  /\ Deleted(now, S, t) \in SUBSET Int /\ IsFiniteSet(Deleted(now, S, t))
         /\ Deleted(now, S, t) = UNION {ShownOn(doc.clips[i]) : i \in S \cap On(doc, t)}
         /\ \A g \in Deleted(now, S, t) : g < doc.duration
<1> DEFINE X == S \cap On(now, t)
<1>1. X \in SUBSET DOMAIN now.clips /\ X = S \cap On(doc, t)
  BY Snapshot DEF On
<1> HIDE DEF X
<1>2. UNION {ShownOn(now.clips[i]) : i \in X} \in SUBSET Int
      /\ IsFiniteSet(UNION {ShownOn(now.clips[i]) : i \in X})
  BY <1>1, Snapshot, DeletedFinite
<1>3. Deleted(now, S, t) = UNION {ShownOn(now.clips[i]) : i \in X}
  BY DEF Deleted, X
<1>4. Deleted(now, S, t) = UNION {ShownOn(doc.clips[i]) : i \in S \cap On(doc, t)}
  BY <1>1, <1>3, Snapshot
<1>5. ASSUME NEW g \in Deleted(now, S, t) PROVE g < doc.duration
  <2>1. PICK i \in S : g \in ShownOn(doc.clips[i])
    BY <1>4
  <2>2. doc.clips[i].start \in Int /\ doc.clips[i].end \in Int /\ doc.clips[i].end <= doc.duration
        /\ doc.duration \in Int
    BY DocClip, ClipTyped, ReadyClip, ReadyBounds DEF Ready
  <2> QED
    BY <2>1, <2>2 DEF ShownOn
<1> QED
  BY <1>2, <1>3, <1>4, <1>5

(* On a track without overlaps a clip that stays moves by what was deleted  *)
(* before it, none of which is within it.                                   *)
LEMMA GapBelow ==
  ASSUME Ready, NEW S \in SUBSET DOMAIN doc.clips, NEW j \in DOMAIN doc.clips \ S,
         doc.clips[j].track \notin AudioTracks
  PROVE  LET D == Deleted(now, S, doc.clips[j].track) IN
         /\ \A g \in D : ~(doc.clips[j].start <= g /\ g < doc.clips[j].end)
         /\ Gap(now, S, j) = Below(D, doc.clips[j].start)
<1> DEFINE D == Deleted(now, S, doc.clips[j].track)
<1>1. D \in SUBSET Int /\ IsFiniteSet(D)
      /\ D = UNION {ShownOn(doc.clips[i]) : i \in S \cap On(doc, doc.clips[j].track)}
  BY DeletedOn
<1>2. \A i \in DOMAIN doc.clips : doc.clips[i].start \in Int /\ doc.clips[i].end \in Int
                                  /\ doc.clips[i].start < doc.clips[i].end
  BY DocClip, ClipTyped, ReadyClip DEF Ready
<1>3. ASSUME NEW g \in D, doc.clips[j].start <= g, g < doc.clips[j].end PROVE FALSE
  <2>1. PICK i \in S \cap On(doc, doc.clips[j].track) : g \in ShownOn(doc.clips[i])
    BY <1>1
  <2>2. i \in On(doc, doc.clips[j].track) \ {j} /\ i \in DOMAIN doc.clips
    BY <2>1
  <2>3. Overlap(doc.clips[j], doc.clips[i])
    <3>1. doc.clips[i].start <= g /\ g < doc.clips[i].end /\ g \in Int
      BY <1>2, <2>1, <2>2 DEF ShownOn
    <3> QED
      BY <1>2, <1>3, <2>2, <3>1 DEF Overlap
  <2> QED
    BY <2>2, <2>3, ReadyClip
<1>4. doc.clips[j].start \notin D
  BY <1>2, <1>3
<1>5. Closed(D, doc.clips[j].start) = Below(D, doc.clips[j].start)
  <2> HIDE DEF D
  <2> QED
    BY <1>1, <1>2, <1>4, ClosedBelow
<1>6. Gap(now, S, j) = Closed(D, doc.clips[j].start)
  BY Snapshot DEF Gap
<1> QED
  BY <1>3, <1>5, <1>6

(* Where a frame of a clip goes when the clip moves by the gap, and no      *)
(* other frame goes there.                                                  *)
LEMMA CutMoves ==
  ASSUME NEW D \in SUBSET Int, IsFiniteSet(D), NEW a \in Int, NEW b \in Int, a < b,
         \A g \in D : ~(a <= g /\ g < b), NEW f \in Int, f \notin D
  PROVE  f \in a .. b - 1 <=>
           f - Below(D, f) \in (a - Below(D, a)) .. (b - Below(D, a)) - 1
<1>1. Below(D, f) \in Nat /\ Below(D, a) \in Nat
  BY BelowStep
<1>2. CASE f \in a .. b - 1
  <2>1. Below(D, f) = Below(D, a)
    BY <1>2, BelowStep
  <2> QED
    BY <1>1, <1>2, <2>1
<1>3. CASE f < a
  <2>1. Below(D, a) <= Below(D, f) + (a - f - 1)
    BY <1>3, BelowStep
  <2> QED
    BY <1>1, <1>3, <2>1
<1>4. CASE f >= b
  <2>1. b - 1 \in Int /\ b - 1 < f /\ b - 1 \notin D /\ a <= b - 1
    BY <1>4
  <2>2. Below(D, b - 1) = Below(D, a) /\ Below(D, b - 1) \in Nat
    <3>1. \A g \in D : ~(a <= g /\ g < b - 1)
      OBVIOUS
    <3> QED
      BY <2>1, <3>1, BelowStep
  <2>3. Below(D, f) <= Below(D, b - 1) + (f - (b - 1) - 1)
    BY <2>1, BelowStep
  <2> QED
    BY <1>1, <1>4, <2>2, <2>3
<1> QED
  BY <1>2, <1>3, <1>4

LEMMA RippleCut ==
  ASSUME Ready, NEW S \in SUBSET DOMAIN doc.clips, IsRippled(doc', S),
         NEW t, t \notin AudioTracks, NEW f \in Int, f \notin Deleted(now, S, t)
  PROVE  Shows(doc', t, f - Below(Deleted(now, S, t), f)) = Shows(doc, t, f)
<1> DEFINE D == Deleted(now, S, t)
           h == f - Below(D, f)
<1>1. /\ D \in SUBSET Int /\ IsFiniteSet(D)
      /\ D = UNION {ShownOn(doc.clips[i]) : i \in S \cap On(doc, t)}
  BY DeletedOn
<1>2. ASSUME NEW i \in S PROVE ~ShownAt(doc.clips[i], t, f)
  BY <1>1 DEF ShownAt, ShownOn, On
<1>3. f \notin D
  OBVIOUS
<1> HIDE DEF D
<1>4. h \in Int /\ Below(D, f) \in Nat
  BY <1>1, BelowStep
<1>5. DOMAIN doc'.clips = DOMAIN doc.clips \ S
  BY DEF IsRippled
<1>6. ASSUME NEW j \in DOMAIN doc.clips \ S
      PROVE  /\ ShownAt(doc'.clips[j], t, h) <=> ShownAt(doc.clips[j], t, f)
             /\ ShownAt(doc.clips[j], t, f) => Frame(doc'.clips[j], h) = Frame(doc.clips[j], f)
  <2> DEFINE c == doc.clips[j]
             e == doc'.clips[j]
             g == Gap(now, S, j)
  <2>1. /\ g \in Nat /\ e.start = c.start - g /\ e.end = c.end - g /\ e.track = c.track
        /\ e.asset = c.asset /\ e.src = c.src /\ (Still(e) <=> Still(c))
        /\ e \in ClipRecords
    BY <1>5 DEF IsRippled, Written
  <2>2. c \in ClipRecords /\ c.start \in Int /\ c.end \in Int /\ c.src \in Int /\ c.start < c.end
    BY DocClip, ClipTyped, ReadyClip DEF Ready
  <2>3. c.track = t => /\ \A x \in D : ~(c.start <= x /\ x < c.end)
                       /\ g = Below(D, c.start)
    BY GapBelow DEF D
  <2> HIDE DEF c, e, g, h
  <2>4. CASE c.track # t
    BY <2>1, <2>4 DEF ShownAt, c, e
  <2>5. CASE c.track = t
    <3>1. f \in c.start .. c.end - 1 <=>
            f - Below(D, f) \in (c.start - Below(D, c.start)) .. (c.end - Below(D, c.start)) - 1
      BY <1>1, <1>3, <2>2, <2>3, <2>5, CutMoves
    <3>2. ShownAt(e, t, h) <=> ShownAt(c, t, f)
      BY <2>1, <2>3, <2>5, <3>1 DEF ShownAt, h
    <3>3. ASSUME ShownAt(c, t, f) PROVE Frame(e, h) = Frame(c, f)
      <4>1. f \in c.start .. c.end - 1
        BY <3>3 DEF ShownAt
      <4>2. Below(D, f) = Below(D, c.start)
        BY <1>1, <2>2, <2>3, <2>5, <4>1, BelowStep
      <4>3. c.src + f - c.start = e.src + h - e.start
        <5>1. /\ h = f - g /\ e.start = c.start - g /\ e.src = c.src
              /\ g \in Nat /\ c.start \in Int /\ c.src \in Int
          BY <2>1, <2>2, <2>3, <2>5, <4>2 DEF h
        <5> QED
          BY <5>1
      <4>4. e.asset = c.asset /\ (Still(c) <=> Still(e)) /\ h \in Int
        BY <1>4, <2>1
      <4> QED
        BY <2>1, <2>2, <4>3, <4>4, FrameOf
    <3> QED
      BY <3>2, <3>3 DEF c, e
  <2> QED
    BY <2>4, <2>5
<1> HIDE DEF h
<1>7. \A j \in DOMAIN doc'.clips : ShownAt(doc'.clips[j], t, h) =>
        \E i \in DOMAIN doc.clips :
          ShownAt(doc.clips[i], t, f) /\ Frame(doc.clips[i], f) = Frame(doc'.clips[j], h)
  BY <1>5, <1>6
<1>8. \A i \in DOMAIN doc.clips : ShownAt(doc.clips[i], t, f) =>
        \E j \in DOMAIN doc'.clips :
          ShownAt(doc'.clips[j], t, h) /\ Frame(doc.clips[i], f) = Frame(doc'.clips[j], h)
  BY <1>2, <1>5, <1>6
<1>9. Shows(doc', t, h) = Shows(doc, t, f)
  BY <1>7, <1>8, SameShown
<1> QED
  BY <1>9 DEF h, D

(* After the last of the frames that are left, the track is empty.          *)
LEMMA RippleTail ==
  ASSUME Ready, NEW S \in SUBSET DOMAIN doc.clips, IsRippled(doc', S),
         NEW t, t \notin AudioTracks, NEW f \in Int,
         f > MaxFrame - Cardinality(Deleted(now, S, t))
  PROVE  Shows(doc', t, f) = {}
<1> DEFINE D == Deleted(now, S, t)
<1>1. D \in SUBSET Int /\ IsFiniteSet(D) /\ \A g \in D : g < doc.duration
  BY DeletedOn
<1>2. f > MaxFrame - Cardinality(D)
  OBVIOUS
<1>3. doc.duration \in Int /\ doc.duration <= MaxFrame /\ MaxFrame \in Int
  BY ReadyBounds
<1>4. DOMAIN doc'.clips = DOMAIN doc.clips \ S
  BY DEF IsRippled
<1> SUFFICES ASSUME NEW j \in DOMAIN doc'.clips, ShownAt(doc'.clips[j], t, f)
             PROVE  FALSE
  BY DEF Shows, On, ShownOn, ShownAt
<1> DEFINE c == doc.clips[j]
           e == doc'.clips[j]
           g == Gap(now, S, j)
<1>5. g \in Nat /\ e.end = c.end - g /\ e.track = c.track /\ e.start = c.start - g
  BY DEF IsRippled
<1>6. c.track = t /\ f \in e.start .. e.end - 1
  BY <1>5 DEF ShownAt
<1>7. /\ c.start \in Int /\ c.end \in Int /\ c.start < c.end /\ c.end <= doc.duration
  BY <1>4, DocClip, ClipTyped, ReadyClip DEF Ready
<1>8. (\A x \in D : ~(c.start <= x /\ x < c.end)) /\ g = Below(D, c.start)
  BY <1>4, <1>6, GapBelow
<1> HIDE DEF D, c, e, g
<1>9. Below(D, c.end) = Below(D, c.start) /\ Below(D, c.end) \in Nat
  BY <1>1, <1>7, <1>8, BelowStep
<1>10. Below(D, doc.duration) <= Below(D, c.end) + (doc.duration - c.end)
       /\ Below(D, doc.duration) \in Nat
  BY <1>1, <1>3, <1>7, BelowStep
<1>11. Below(D, doc.duration) = Cardinality(D)
  <2>1. {x \in D : x < doc.duration} = D
    BY <1>1
  <2> QED
    BY <2>1 DEF Below
<1> QED
  BY <1>2, <1>3, <1>5, <1>6, <1>7, <1>8, <1>9, <1>10, <1>11

LEMMA NextCuts ==
  ASSUME IInv, Next
  PROVE  RippleDeleteIsACut /\ SplitChangesNothingShown
<1>1. Ready
  BY NextReady DEF IInv, Ready
<1>2. CASE did'.kind \notin {"ripple-delete", "split"}
  BY <1>2 DEF RippleDeleteIsACut, SplitChangesNothingShown
<1>3. CASE did'.kind = "split"
  <2>1. PICK S \in SUBSET DOMAIN doc.clips, at \in Int :
          \E right \in [S -> Free] : IsInjective(right) /\ Split(S, right, at)
    BY <1>3, NextCommand DEF Command, Else, Trims
  <2>2. SplitChangesNothingShown
    BY <1>1, <2>1, SplitShows
  <2> QED
    BY <1>3, <2>2 DEF RippleDeleteIsACut
<1>4. CASE did'.kind = "ripple-delete"
  <2>1. PICK S \in SUBSET DOMAIN doc.clips : RippleDelete(S)
    BY <1>4, NextCommand DEF Command, Else, Trims
  <2>2. IsRippled(doc', S) /\ did'.clips = S
    BY <1>1, <2>1, RippledDocument
  <2>3. ASSUME NEW t \in TrackSet(doc) \ AudioTracks
        PROVE  LET cut == UNION {ShownOn(doc.clips[i]) : i \in did'.clips \cap On(doc, t)}
                   Before(f) == Cardinality({g \in cut : g < f})
               IN /\ \A f \in Frames \ cut : Shows(doc', t, f - Before(f)) = Shows(doc, t, f)
                  /\ \A f \in Frames : f > MaxFrame - Cardinality(cut) => Shows(doc', t, f) = {}
    <3> DEFINE D == Deleted(now, S, t)
    <3>1. D = UNION {ShownOn(doc.clips[i]) : i \in did'.clips \cap On(doc, t)}
      BY <1>1, <2>2, DeletedOn
    <3>2. Frames \subseteq Int
      BY DEF Frames
    <3>3. \A f \in Frames \ D : Shows(doc', t, f - Below(D, f)) = Shows(doc, t, f)
      <4> TAKE f \in Frames \ D
      <4>1. f \in Int /\ f \notin Deleted(now, S, t) /\ t \notin AudioTracks
        BY <3>2
      <4> QED
        BY <1>1, <2>2, <4>1, RippleCut
    <3>4. \A f \in Frames : f > MaxFrame - Cardinality(D) => Shows(doc', t, f) = {}
      BY <1>1, <2>2, <3>2, RippleTail
    <3> HIDE DEF D
    <3> QED
      BY <3>1, <3>3, <3>4 DEF Below
  <2> QED
    BY <1>4, <2>3 DEF RippleDeleteIsACut, SplitChangesNothingShown
<1> QED
  BY <1>2, <1>3, <1>4
-----------------------------------------------------------------------------
(* Insertion.                                                               *)

(* The distance that clip j makes room by when c is inserted.               *)
Room(c, j) == IF Later(now, c, j) THEN c.end - c.start ELSE 0

(* Clip j of the document after the insertion of c.                         *)
MadeRoom(e, c, j) ==
  /\ e \in ClipRecords
  /\ e.start = doc.clips[j].start + Room(c, j) /\ e.end = doc.clips[j].end + Room(c, j)
  /\ e.track = doc.clips[j].track /\ e.src = doc.clips[j].src
  /\ e.srcEnd = doc.clips[j].srcEnd /\ e.avail = doc.clips[j].avail
  /\ e.asset = doc.clips[j].asset /\ e.link = doc.clips[j].link
  /\ e.nested = doc.clips[j].nested /\ e.bus = doc.clips[j].bus

IsGrown(d, i, c) ==
  /\ IsTimeline(d) /\ i \in Clips \ DOMAIN doc.clips
  /\ c \in ClipRecords /\ c.start < c.end
  /\ ~\E j \in On(doc, c.track) :
        doc.clips[j].start < c.start /\ c.start < doc.clips[j].end
  /\ DOMAIN d.clips = DOMAIN doc.clips \cup {i} /\ Written(d.clips[i], c)
  /\ \A j \in DOMAIN doc.clips : Room(c, j) \in Int /\ MadeRoom(d.clips[j], c, j)
  /\ DOMAIN d.keys = DOMAIN doc.keys
  /\ \A k \in DOMAIN doc.keys :
       /\ d.keys[k].owner = doc.keys[k].owner
       /\ d.keys[k].frame = doc.keys[k].frame + Room(c, doc.keys[k].owner)
  /\ d.marks = ShiftMarks(doc.marks, c.start, c.end - c.start)

LEMMA InsertedDocument ==
  ASSUME Ready, NEW c \in NewClips, Free # {}, Insert(Min(Free), c)
  PROVE  IsGrown(doc', Min(Free), c) /\ did'.kind = "insert" /\ did'.clips = {Min(Free)}
<1> DEFINE i == Min(Free)
           r == Inserted(now, i, c)
<1>1. Commit("insert", {i}, Finalize(r))
      /\ ~\E j \in On(doc, c.track) :
            doc.clips[j].start < c.start /\ c.start < doc.clips[j].end
  BY DEF Insert
<1>2. c \in ClipRecords /\ i \in Clips /\ i \notin DOMAIN doc.clips
  BY MadeUpClip, FreeClip
<1>3. c.start < c.end /\ c.start \in Int /\ c.end \in Int /\ c.end - c.start \in Int
  <2>1. PICK t \in TrackSet(doc), f \in Frames, n \in 1 .. 2, src \in 0 .. 1 :
          c = NewClip(t, f, n, src)
    BY DEF NewClips
  <2>2. c.start = f /\ c.end = f + n /\ f \in Int
    BY <2>1 DEF NewClip, Frames
  <2> QED
    BY <2>2
<1> HIDE DEF i
<1>4. IsInserted(r, now, i, c)
  BY <1>2, Snapshot, InsertedTimeline
<1> HIDE DEF r
<1>5. r \in Timelines /\ Others(r, now) /\ DOMAIN r.clips = DOMAIN doc.clips \cup {i}
      /\ r.clips[i] = c /\ IsFiniteSet(DOMAIN r.clips)
  BY <1>4, Snapshot, FS_AddElement DEF IsInserted
<1>6. IsWritten(doc', r) /\ did'.kind = "insert" /\ did'.clips = {i}
  BY <1>1, <1>5, LocksKept, Wrote
<1>7. \A j \in DOMAIN doc.clips : Room(c, j) \in Int
  BY <1>3 DEF Room
<1>8. ASSUME NEW j \in DOMAIN doc.clips PROVE MadeRoom(doc'.clips[j], c, j)
  <2> DEFINE o == doc.clips[j]
             e == doc'.clips[j]
             n == c.end - c.start
  <2>1. o \in ClipRecords /\ o.start \in Int /\ o.end \in Int /\ o.avail = o.srcEnd
        /\ o.nested = FALSE
    BY DocClip, ClipTyped DEF Ready
  <2>2. r.clips[j] = IF Later(now, c, j) THEN Shifted(o, n) ELSE o
    BY <1>4, Snapshot DEF IsInserted
  <2>3. Written(e, r.clips[j]) /\ e.bus = (r.clips[j].bus \/ r.clips[j].track \in r.routed)
    BY <1>5, <1>6 DEF IsWritten
  <2>4. r.routed = now.routed
    BY <1>5 DEF Others
  <2>5. (o.bus <=> o.track \in AudioTracks) /\ (o.track \in now.routed <=> o.track \in AudioTracks)
        /\ o.bus \in BOOLEAN
    BY <2>1, ReadyBus, ClipTyped
  <2>6. Room(c, j) = IF Later(now, c, j) THEN n ELSE 0
    BY DEF Room
  <2>7. n \in Int
    BY <1>3
  <2> HIDE DEF o, e, n
  <2>8. LET x == r.clips[j] IN
        /\ x.start = o.start + Room(c, j) /\ x.end = o.end + Room(c, j) /\ x.track = o.track
        /\ x.src = o.src /\ x.srcEnd = o.srcEnd /\ x.asset = o.asset /\ x.link = o.link
        /\ x.bus = o.bus
    <3>1. CASE Later(now, c, j)
      BY <2>1, <2>2, <2>6, <2>7, <3>1, ShiftedClip
    <3>2. CASE ~Later(now, c, j)
      BY <2>1, <2>2, <2>6, <3>2
    <3> QED
      BY <3>1, <3>2
  <2>9. e.bus = o.bus
    BY <2>3, <2>4, <2>5, <2>8
  <2>10. e \in ClipRecords /\ e.nested = FALSE
    BY <2>3, ClipTyped DEF Written
  <2> QED
    BY <2>1, <2>3, <2>8, <2>9, <2>10 DEF Written, MadeRoom, o, e
<1>9. DOMAIN doc'.clips = DOMAIN doc.clips \cup {i} /\ Written(doc'.clips[i], c)
      /\ IsTimeline(doc') /\ doc'.keys = r.keys /\ doc'.marks = r.marks
  BY <1>5, <1>6 DEF IsWritten
<1>10. /\ DOMAIN r.keys = DOMAIN doc.keys
       /\ r.marks = ShiftMarks(doc.marks, c.start, c.end - c.start)
  BY <1>4, Snapshot DEF IsInserted
<1>11. ASSUME NEW k \in DOMAIN doc.keys
       PROVE  /\ r.keys[k].owner = doc.keys[k].owner
              /\ r.keys[k].frame = doc.keys[k].frame + Room(c, doc.keys[k].owner)
  <2>1. doc.keys[k].owner \in DOMAIN doc.clips /\ doc.keys[k].frame \in Int
    BY ReadyKey, DocKey DEF Ready
  <2>2. /\ r.keys[k].owner = doc.keys[k].owner
        /\ r.keys[k].frame = IF Later(now, c, doc.keys[k].owner)
                             THEN doc.keys[k].frame + (c.end - c.start) ELSE doc.keys[k].frame
    BY <1>4, <2>1, Snapshot DEF IsInserted
  <2> QED
    BY <2>1, <2>2 DEF Room
<1> QED
  BY <1>1, <1>2, <1>3, <1>6, <1>7, <1>8, <1>9, <1>10, <1>11 DEF IsGrown, i

(* The track of the new clip shows, at a frame that makes room, what it     *)
(* showed there before.                                                     *)
LEMMA InsertShows ==
  ASSUME Ready, NEW i, NEW c, IsGrown(doc', i, c), NEW f \in Int, NEW h \in Int,
         h = IF f >= c.start THEN f + (c.end - c.start) ELSE f
  PROVE  Shows(doc, c.track, f) = Shows(doc', c.track, h)
<1> DEFINE t == c.track
<1>1. /\ DOMAIN doc'.clips = DOMAIN doc.clips \cup {i} /\ Written(doc'.clips[i], c)
      /\ c \in ClipRecords /\ c.start < c.end /\ c.start \in Int /\ c.end \in Int
      /\ i \notin DOMAIN doc.clips
      /\ ~\E j \in On(doc, t) : doc.clips[j].start < c.start /\ c.start < doc.clips[j].end
  BY ClipTyped DEF IsGrown
<1>2. ~ShownAt(doc'.clips[i], t, h)
  <2>1. doc'.clips[i].start = c.start /\ doc'.clips[i].end = c.end
    BY <1>1 DEF Written
  <2> QED
    BY <1>1, <2>1 DEF ShownAt
<1>3. ASSUME NEW j \in DOMAIN doc.clips
      PROVE  /\ ShownAt(doc'.clips[j], t, h) <=> ShownAt(doc.clips[j], t, f)
             /\ ShownAt(doc.clips[j], t, f) => Frame(doc'.clips[j], h) = Frame(doc.clips[j], f)
  <2> DEFINE o == doc.clips[j]
             e == doc'.clips[j]
             n == Room(c, j)
  <2>1. /\ o \in ClipRecords /\ o.start \in Int /\ o.end \in Int /\ o.start < o.end /\ o.src \in Int
    BY DocClip, ClipTyped, ReadyClip DEF Ready
  <2>2. /\ e \in ClipRecords /\ e.start = o.start + n /\ e.end = o.end + n /\ e.track = o.track
        /\ e.asset = o.asset /\ e.src = o.src /\ (Still(o) <=> Still(e)) /\ n \in Int
    BY DEF IsGrown, MadeRoom, Still
  <2>3. n = IF o.track = t /\ o.start >= c.start THEN c.end - c.start ELSE 0
    BY Snapshot DEF Room, Later
  <2>4. o.track = t => ~(o.start < c.start /\ c.start < o.end)
    BY <1>1 DEF On
  <2> HIDE DEF o, e, n
  <2>5. CASE o.track # t
    BY <2>2, <2>5 DEF ShownAt, o, e
  <2>6. CASE o.track = t
    <3>1. f \in o.start .. o.end - 1 <=> h \in e.start .. e.end - 1
      BY <1>1, <2>1, <2>2, <2>3, <2>4, <2>6
    <3>2. f \in o.start .. o.end - 1 => h - f = n
      BY <1>1, <2>1, <2>2, <2>3, <2>4, <2>6
    <3>3. ASSUME f \in o.start .. o.end - 1 PROVE Frame(e, h) = Frame(o, f)
      <4>1. o.src + f - o.start = e.src + h - e.start
        BY <2>1, <2>2, <3>2, <3>3
      <4> QED
        BY <2>1, <2>2, <4>1, FrameOf
    <3> QED
      BY <2>2, <2>6, <3>1, <3>3 DEF ShownAt, o, e
  <2> QED
    BY <2>5, <2>6
<1> HIDE DEF t
<1>4. \A j \in DOMAIN doc.clips : ShownAt(doc.clips[j], t, f) =>
        \E x \in DOMAIN doc'.clips :
          ShownAt(doc'.clips[x], t, h) /\ Frame(doc'.clips[x], h) = Frame(doc.clips[j], f)
  BY <1>1, <1>3
<1>5. \A x \in DOMAIN doc'.clips : ShownAt(doc'.clips[x], t, h) =>
        \E j \in DOMAIN doc.clips :
          ShownAt(doc.clips[j], t, f) /\ Frame(doc'.clips[x], h) = Frame(doc.clips[j], f)
  BY <1>1, <1>2, <1>3
<1>6. Shows(doc, t, f) = Shows(doc', t, h)
  BY <1>4, <1>5, SameShown
<1> QED
  BY <1>6 DEF t

(* The frames deleted when what was inserted is deleted again.              *)
LEMMA ClosedInterval ==
  ASSUME NEW a \in Int, NEW b \in Int, a < b, NEW f \in Int
  PROVE  /\ f >= b => Closed(a .. b - 1, f) = b - a
         /\ f <= a => Closed(a .. b - 1, f) = 0
<1> DEFINE D == a .. b - 1
<1>1. D \in SUBSET Int /\ IsFiniteSet(D) /\ Cardinality(D) = b - a
  <2>1. b - 1 \in Int /\ ~(a > b - 1) /\ b - 1 - a + 1 = b - a
    OBVIOUS
  <2>2. IsFiniteSet(a .. (b - 1))
        /\ Cardinality(a .. (b - 1)) = IF a > b - 1 THEN 0 ELSE b - 1 - a + 1
    BY <2>1, FS_Interval
  <2> QED
    BY <2>1, <2>2
<1>2. ASSUME f >= b PROVE Closed(D, f) = b - a
  <2>1. f \notin D /\ {g \in D : g < f} = D
    BY <1>2
  <2> HIDE DEF D
  <2> QED
    BY <1>1, <2>1, ClosedBelow DEF Below
<1>3. ASSUME f <= a PROVE Closed(D, f) = 0
  <2>1. {g \in D : g < f /\ \E h \in g .. f : h \notin D} = {}
    BY <1>3
  <2> QED
    BY <2>1, FS_EmptySet DEF Closed
<1> QED
  BY <1>2, <1>3

(* What a reader finds of a grown document.                                 *)
LEMMA GrownRead ==
  ASSUME NEW i, NEW c, IsGrown(doc', i, c)
  PROVE  LET s == Read(doc') IN
         /\ s \in Timelines /\ IsFiniteSet(DOMAIN s.clips) /\ {i} \in SUBSET DOMAIN s.clips
         /\ s.clips = doc'.clips /\ s.keys = doc'.keys /\ s.marks = doc'.marks
         /\ c.start \in Int /\ c.end \in Int /\ c.start < c.end
         /\ AllDeleted(s, {i}) = c.start .. c.end - 1
         /\ \A t : Deleted(s, {i}, t) = IF t = c.track THEN c.start .. c.end - 1 ELSE {}
<1> DEFINE s == Read(doc')
<1>1. doc' \in Timelines /\ IsFiniteSet(DOMAIN doc'.clips)
  BY TimelineIs DEF IsGrown
<1>2. /\ s \in Timelines /\ s.clips = doc'.clips /\ s.keys = doc'.keys /\ s.marks = doc'.marks
  BY <1>1, ReadTimeline
<1>3. /\ c.start \in Int /\ c.end \in Int /\ c.start < c.end /\ i \in DOMAIN doc'.clips
      /\ doc'.clips[i].start = c.start /\ doc'.clips[i].end = c.end
      /\ doc'.clips[i].track = c.track
  BY ClipTyped DEF IsGrown, Written
<1> HIDE DEF s
<1>4. ShownOn(s.clips[i]) = c.start .. c.end - 1
  BY <1>2, <1>3 DEF ShownOn
<1>5. AllDeleted(s, {i}) = ShownOn(s.clips[i])
  BY DEF AllDeleted
<1>6. ASSUME NEW t
      PROVE  Deleted(s, {i}, t) = IF t = c.track THEN ShownOn(s.clips[i]) ELSE {}
  <2>1. {i} \cap On(s, t) = IF t = c.track THEN {i} ELSE {}
    BY <1>2, <1>3 DEF On
  <2> QED
    BY <2>1 DEF Deleted
<1> QED
  BY <1>1, <1>2, <1>3, <1>4, <1>5, <1>6 DEF s

LEMMA GrownGap ==
  ASSUME Ready, NEW i, NEW c, IsGrown(doc', i, c), NEW j \in DOMAIN doc.clips
  PROVE  Gap(Read(doc'), {i}, j) = Room(c, j)
<1> DEFINE s == Read(doc')
           a == c.start
           b == c.end
           o == doc.clips[j]
<1>1. /\ s.clips = doc'.clips /\ a \in Int /\ b \in Int /\ a < b
      /\ \A t : Deleted(s, {i}, t) = IF t = c.track THEN a .. b - 1 ELSE {}
  BY GrownRead
<1>2. /\ doc'.clips[j].track = o.track /\ doc'.clips[j].start = o.start + Room(c, j)
  BY DEF IsGrown, MadeRoom
<1>3. o.start \in Int
  BY DocClip, ClipTyped DEF Ready
<1>4. Room(c, j) = IF o.track = c.track /\ o.start >= a THEN b - a ELSE 0
  BY Snapshot DEF Room, Later
<1> HIDE DEF s, a, b, o
<1>5. Gap(s, {i}, j) = Closed(Deleted(s, {i}, o.track), o.start + Room(c, j))
  BY <1>1, <1>2 DEF Gap
<1>6. CASE o.track # c.track
  <2>1. {} \in SUBSET Int /\ IsFiniteSet({}) /\ o.start + 0 \in Int
    BY <1>3, FS_EmptySet
  <2>2. Closed({}, o.start + 0) = 0
    BY <2>1, ClosedInt
  <2> QED
    BY <1>1, <1>4, <1>5, <1>6, <2>2 DEF s
<1>7. CASE o.track = c.track /\ o.start >= a
  <2>1. o.start + (b - a) >= b /\ o.start + (b - a) \in Int
    BY <1>1, <1>3, <1>7
  <2>2. Closed(a .. b - 1, o.start + (b - a)) = b - a
    BY <1>1, <2>1, ClosedInterval
  <2> QED
    BY <1>1, <1>4, <1>5, <1>7, <2>2 DEF s
<1>8. CASE o.track = c.track /\ ~(o.start >= a)
  <2>1. o.start + 0 <= a /\ o.start + 0 \in Int
    BY <1>1, <1>3, <1>8
  <2>2. Closed(a .. b - 1, o.start + 0) = 0
    BY <1>1, <2>1, ClosedInterval
  <2> QED
    BY <1>1, <1>4, <1>5, <1>8, <2>2 DEF s
<1> QED
  BY <1>6, <1>7, <1>8

LEMMA GrownBack ==
  ASSUME Ready, NEW i, NEW c, IsGrown(doc', i, c)
  PROVE  LET back == RippleDeleted(Read(doc'), {i}) IN
         /\ back.keys = doc.keys /\ back.marks = doc.marks
         /\ \A j \in DOMAIN doc.clips : back.clips[j] = doc.clips[j]
<1> DEFINE s == Read(doc')
           back == RippleDeleted(s, {i})
           all == c.start .. c.end - 1
<1>1. /\ s \in Timelines /\ s.clips = doc'.clips /\ s.keys = doc'.keys /\ s.marks = doc'.marks
      /\ c.start \in Int /\ c.end \in Int /\ c.start < c.end /\ AllDeleted(s, {i}) = all
      /\ IsRippleDeleted(back, s, {i})
  BY GrownRead, RippleDeletedTimeline
<1>2. \A j \in DOMAIN doc.clips : Gap(s, {i}, j) = Room(c, j) /\ Room(c, j) \in Int
  BY GrownGap DEF IsGrown
<1>3. i \notin DOMAIN doc.clips /\ DOMAIN doc'.clips \ {i} = DOMAIN doc.clips
  BY DEF IsGrown
<1> HIDE DEF s, back
<1>4. ASSUME NEW j \in DOMAIN doc.clips PROVE back.clips[j] = doc.clips[j]
  <2> DEFINE o == doc.clips[j]
             e == doc'.clips[j]
             n == Room(c, j)
  <2>1. back.clips[j] = Shifted(e, 0 - n)
    BY <1>1, <1>2, <1>3 DEF IsRippleDeleted
  <2>2. o \in ClipRecords /\ n \in Int /\ 0 - n \in Int
        /\ o.start \in Int /\ o.end \in Int
    BY <1>2, DocClip, ClipTyped DEF Ready
  <2>3. /\ e \in ClipRecords
        /\ e.start = o.start + n /\ e.end = o.end + n /\ e.track = o.track /\ e.src = o.src
        /\ e.srcEnd = o.srcEnd /\ e.avail = o.avail /\ e.asset = o.asset /\ e.link = o.link
        /\ e.nested = o.nested /\ e.bus = o.bus
    BY DEF IsGrown, MadeRoom
  <2> HIDE DEF o, e, n
  <2>4. LET x == Shifted(e, 0 - n) IN
        /\ x \in ClipRecords
        /\ x.start = e.start + (0 - n) /\ x.end = e.end + (0 - n) /\ x.track = e.track
        /\ x.src = e.src /\ x.srcEnd = e.srcEnd /\ x.avail = e.avail /\ x.asset = e.asset
        /\ x.link = e.link /\ x.nested = e.nested /\ x.bus = e.bus
    BY <2>2, <2>3, ShiftedClip
  <2>5. e.start + (0 - n) = o.start /\ e.end + (0 - n) = o.end
    BY <2>2, <2>3
  <2>6. Shifted(e, 0 - n) = o
    BY <2>2, <2>3, <2>4, <2>5, SameClip
  <2> QED
    BY <2>1, <2>6 DEF o
<1>5. back.keys = doc.keys
  <2>1. back.keys \in [DOMAIN back.keys -> KeyRecords] /\ doc.keys \in [DOMAIN doc.keys -> KeyRecords]
    BY <1>1, NowIs, TimelineTyped, KeyMapFacts DEF Ready, IsRippleDeleted
  <2>2. \A k \in DOMAIN doc.keys :
          /\ doc.keys[k].owner \in DOMAIN doc.clips /\ doc.keys[k].frame \in Int
          /\ doc'.keys[k].owner = doc.keys[k].owner
          /\ doc'.keys[k].frame = doc.keys[k].frame + Room(c, doc.keys[k].owner)
    BY ReadyKey, DocKey DEF Ready, IsGrown
  <2>3. DOMAIN back.keys = DOMAIN doc.keys
    <3>1. DOMAIN doc'.keys = DOMAIN doc.keys
      BY DEF IsGrown
    <3>2. DOMAIN back.keys = {k \in DOMAIN doc'.keys : doc'.keys[k].owner \notin {i}}
      BY <1>1 DEF IsRippleDeleted
    <3> QED
      BY <1>3, <2>2, <3>1, <3>2
  <2>4. ASSUME NEW k \in DOMAIN doc.keys PROVE back.keys[k] = doc.keys[k]
    <3> DEFINE o == doc.keys[k].owner
    <3>1. /\ o \in DOMAIN doc.clips /\ o \in DOMAIN s.clips /\ Room(c, o) \in Int
          /\ Gap(s, {i}, o) = Room(c, o)
      BY <1>1, <1>2, <1>3, <2>2
    <3>2. /\ back.keys[k].owner = o
          /\ back.keys[k].frame = doc'.keys[k].frame - Room(c, o)
      <4>1. k \in DOMAIN back.keys /\ s.keys[k].owner = o /\ s.keys = doc'.keys
        BY <1>1, <2>2, <2>3
      <4> HIDE DEF o
      <4>2. back.keys[k].owner = s.keys[k].owner
            /\ (s.keys[k].owner \in DOMAIN s.clips =>
                  back.keys[k].frame = s.keys[k].frame - Gap(s, {i}, s.keys[k].owner))
        BY <1>1, <4>1 DEF IsRippleDeleted
      <4>3. back.keys[k].frame = s.keys[k].frame - Gap(s, {i}, o)
        BY <3>1, <4>1, <4>2
      <4> QED
        BY <3>1, <4>1, <4>2, <4>3
    <3>3. back.keys[k].frame = doc.keys[k].frame
      BY <2>2, <3>1, <3>2
    <3>4. back.keys[k] \in KeyRecords /\ doc.keys[k] \in KeyRecords
      BY <2>1, <2>3
    <3> QED
      BY <3>2, <3>3, <3>4 DEF KeyRecords
  <2> QED
    BY <2>1, <2>3, <2>4
<1>6. back.marks = doc.marks
  <2>1. /\ doc.marks \in [DOMAIN doc.marks -> Int]
        /\ \A m \in DOMAIN doc.marks : doc.marks[m] \in Int
    BY NowIs, TimelineTyped, MarkMapFacts DEF Ready
  <2>2. doc'.marks = ShiftMarks(doc.marks, c.start, c.end - c.start)
    BY DEF IsGrown
  <2>3. DOMAIN doc'.marks = DOMAIN doc.marks
    BY <2>2 DEF ShiftMarks
  <2>4. ASSUME NEW m \in DOMAIN doc.marks, m \in ContentMarks
        PROVE  doc'.marks[m] \notin all
               /\ doc'.marks[m] - Closed(all, doc'.marks[m]) = doc.marks[m]
    <3>1. CASE doc.marks[m] >= c.start
      <4>1. doc'.marks[m] = doc.marks[m] + (c.end - c.start)
        BY <2>2, <2>4, <3>1 DEF ShiftMarks
      <4>2. doc'.marks[m] >= c.end /\ doc'.marks[m] \in Int
        BY <1>1, <2>1, <3>1, <4>1
      <4>3. Closed(all, doc'.marks[m]) = c.end - c.start
        BY <1>1, <4>2, ClosedInterval
      <4> QED
        BY <1>1, <2>1, <4>1, <4>2, <4>3
    <3>2. CASE ~(doc.marks[m] >= c.start)
      <4>1. doc'.marks[m] = doc.marks[m]
        BY <2>2, <2>4, <3>2 DEF ShiftMarks
      <4>2. doc.marks[m] <= c.start /\ doc.marks[m] \in Int /\ doc.marks[m] \notin all
        BY <1>1, <2>1, <3>2
      <4>3. Closed(all, doc.marks[m]) = 0
        BY <1>1, <4>2, ClosedInterval
      <4> QED
        BY <2>1, <4>1, <4>2, <4>3
    <3> QED
      BY <3>1, <3>2
  <2>5. \A m \in DOMAIN doc.marks : m \notin ContentMarks => doc'.marks[m] = doc.marks[m]
    BY <2>2 DEF ShiftMarks
  <2>6. back.marks = [m \in {x \in DOMAIN doc'.marks :
                               x \notin ContentMarks \/ doc'.marks[x] \notin all} |->
                        IF m \in ContentMarks
                        THEN doc'.marks[m] - Closed(all, doc'.marks[m]) ELSE doc'.marks[m]]
    BY <1>1 DEF IsRippleDeleted
  <2>7. {x \in DOMAIN doc'.marks : x \notin ContentMarks \/ doc'.marks[x] \notin all}
          = DOMAIN doc.marks
    BY <2>3, <2>4
  <2> HIDE DEF all
  <2> QED
    BY <2>1, <2>4, <2>5, <2>6, <2>7
<1> QED
  BY <1>4, <1>5, <1>6 DEF back, s

LEMMA NextMarks ==
  ASSUME IInv, Next
  PROVE  MarkersStay /\ InsertionIsUndone
<1>1. Ready
  BY NextReady DEF IInv, Ready
<1>2. CASE did'.kind \notin {"insert", "ripple-delete"}
  BY <1>2 DEF MarkersStay, InsertionIsUndone
<1>3. CASE did'.kind = "insert"
  <2>1. PICK c \in NewClips : Free # {} /\ Insert(Min(Free), c)
    BY <1>3, NextCommand DEF Command, Else, Trims
  <2> DEFINE i == Min(Free)
  <2>2. IsGrown(doc', i, c) /\ did'.clips = {i}
    BY <1>1, <2>1, InsertedDocument
  <2> HIDE DEF i
  <2>3. InsertionIsUndone
    BY <1>1, <2>2, GrownBack DEF InsertionIsUndone
  <2>4. {doc'.clips[x].track : x \in did'.clips} = {c.track}
    BY <2>2 DEF IsGrown, Written
  <2>5. ASSUME NEW m \in ContentMarks \cap DOMAIN doc'.marks
        PROVE  Shows(doc, c.track, doc.marks[m]) = Shows(doc', c.track, doc'.marks[m])
    <3>1. doc'.marks = ShiftMarks(doc.marks, c.start, c.end - c.start)
      BY <2>2 DEF IsGrown
    <3>2. m \in DOMAIN doc.marks
      BY <3>1 DEF ShiftMarks
    <3>3. doc'.marks[m] = IF doc.marks[m] >= c.start THEN doc.marks[m] + (c.end - c.start)
                                                     ELSE doc.marks[m]
      BY <3>1, <3>2 DEF ShiftMarks
    <3>4. doc.marks[m] \in Int /\ c.start \in Int /\ c.end \in Int
      BY <1>1, <2>2, <3>2, ReadyMark, GrownRead
    <3>5. doc'.marks[m] \in Int
      BY <3>3, <3>4
    <3> QED
      BY <1>1, <2>2, <3>3, <3>4, <3>5, InsertShows
  <2> QED
    BY <1>3, <2>3, <2>4, <2>5 DEF MarkersStay
<1>4. CASE did'.kind = "ripple-delete"
  <2>1. PICK S \in SUBSET DOMAIN doc.clips : RippleDelete(S)
    BY <1>4, NextCommand DEF Command, Else, Trims
  <2>2. IsRippled(doc', S) /\ did'.clips = S
    BY <1>1, <2>1, RippledDocument
  <2>3. ASSUME Cardinality({doc.clips[x].track : x \in S}) = 1,
               NEW t \in {doc.clips[x].track : x \in S} \ AudioTracks,
               NEW m \in ContentMarks \cap DOMAIN doc'.marks
        PROVE  Shows(doc, t, doc.marks[m]) = Shows(doc', t, doc'.marks[m])
    <3> DEFINE D == Deleted(now, S, t)
               f == doc.marks[m]
               T == {doc.clips[x].track : x \in S}
    <3>1. IsFiniteSet(T)
      <4> DEFINE g == [x \in S |-> doc.clips[x].track]
      <4>1. g \in Surjection(S, T)
        BY DEF Surjection
      <4>2. IsFiniteSet(S)
        BY <1>1, Snapshot, FS_Subset
      <4> HIDE DEF g, T
      <4> QED
        BY <4>1, <4>2, FS_Surjection
    <3>2. T = {t}
      <4>1. t \in T /\ Cardinality(T) = 1
        BY <2>3
      <4> HIDE DEF T
      <4>2. \E u : T = {u}
        BY <3>1, <4>1, FS_Singleton
      <4> QED
        BY <4>1, <4>2
    <3>3. AllDeleted(now, S) = D
      <4>1. S \cap On(now, t) = S
        BY <1>1, <3>2, Snapshot DEF On
      <4> QED
        BY <4>1 DEF AllDeleted, Deleted
    <3>4. m \in DOMAIN doc.marks /\ f \notin D /\ doc'.marks[m] = f - Closed(D, f)
      <4> HIDE DEF D
      <4> QED
        BY <2>2, <3>3 DEF IsRippled
    <3>5. f \in Int /\ D \in SUBSET Int /\ IsFiniteSet(D)
      BY <1>1, <3>4, ReadyMark, DeletedOn
    <3>6. Closed(D, f) = Below(D, f)
      <4> HIDE DEF D, f
      <4> QED
        BY <3>4, <3>5, ClosedBelow
    <3>7. Shows(doc', t, f - Below(Deleted(now, S, t), f)) = Shows(doc, t, f)
      <4>1. t \notin AudioTracks /\ f \in Int /\ f \notin Deleted(now, S, t)
        BY <3>4, <3>5
      <4> HIDE DEF f
      <4> QED
        BY <1>1, <2>2, <4>1, RippleCut
    <3> QED
      BY <3>4, <3>6, <3>7
  <2> QED
    BY <1>4, <2>2, <2>3 DEF MarkersStay, InsertionIsUndone
<1> QED
  BY <1>2, <1>3, <1>4
-----------------------------------------------------------------------------
(* The remaining results.                                                   *)

(* None of the commands forgets a lock or a link that it should respect     *)
(* (assertClipWritable and assertLinkedCoverage): no clip of a locked track *)
(* is moved, trimmed, added or removed, and where tracks are linked clip by *)
(* clip, neither a removal takes linked clips apart, nor a trim that gives  *)
(* them the same edge and frame.                                            *)
THEOREM EditsRespect == Spec => EditsRespectLocksAndLinks
<1>1. IInv /\ [Next]_vars => [LinkedStayInStep /\ LockedTracksKeepTheirClips]_vars
  BY NextLinks, NextLocks
<1> QED
  BY <1>1, Invariant, PTL DEF Spec, EditsRespectLocksAndLinks

(* Cutting shows every other frame as before: a ripple delete of any clips  *)
(* takes just their frames out of each track that holds no sounds           *)
(* (ripple-delete's collapsed distance), and a split changes nothing.       *)
THEOREM CutsKeep == Spec => CutsKeepTheRest
<1>1. IInv /\ [Next]_vars => [RippleDeleteIsACut /\ SplitChangesNothingShown]_vars
  BY NextCuts
<1> QED
  BY <1>1, Invariant, PTL DEF Spec, CutsKeepTheRest

(* What is anchored to content stays with it under every command, and a     *)
(* ripple deletion undoes an insertion (clip.insert's shifts, and those of  *)
(* clips.ripple-delete, of clips, keyframes and content markers).           *)
THEOREM AnchorsStay == Spec => AnchorsStayOnContent
<1>1. IInv /\ [Next]_vars => [KeyframesStay /\ MarkersStay /\ InsertionIsUndone]_vars
  BY NextKeys, NextMarks
<1> QED
  BY <1>1, Invariant, PTL DEF Spec, AnchorsStayOnContent
=============================================================================
