------------------------------ MODULE Timeline ------------------------------
(* The edits of a timeline document: executeTimelineDocumentEdit reads the  *)
(* document into a snapshot (document-adapter.ts), applies one command to   *)
(* it (commands.ts, professional.ts), validates the result (validation.ts)  *)
(* and writes it back as a document.  Every edit goes through that cycle,   *)
(* and what the document does not keep is made up when it is read again.    *)
(* Rates and speeds are 1, which is what reading a document makes of them.  *)
EXTENDS Integers, FiniteSets, FiniteSetsExt, Sequences, SequencesExt, Functions

CONSTANTS
  Clips,         \* the identities of clips, in their order
  Tracks, AudioTracks, Keys, Marks,
  ContentMarks,  \* the markers anchored to content rather than time
  Links, Assets, None,
  Starts,        \* the timelines to begin with
  MaxFrame, MaxEdits  \* bounds

ASSUME TimelineAssumption ==
  /\ Clips \subseteq Nat /\ AudioTracks \subseteq Tracks
  /\ ContentMarks \subseteq Marks
  /\ "new" \in Assets /\ MaxFrame \in Nat /\ MaxEdits \in Nat

VARIABLES
  doc,   \* the timeline document
  did,   \* the last accepted command: its kind, and the clips it was for
  edits  \* how many commands were accepted

vars == <<doc, did, edits>>

Frames == 0 .. MaxFrame

-----------------------------------------------------------------------------
(* Documents and snapshots.  A clip shows its asset from src up to srcEnd   *)
(* on the frames from start up to end, and avail bounds srcEnd; bus says    *)
(* that the document routes the clip to an audio bus.                       *)

On(s, t) == {i \in DOMAIN s.clips : s.clips[i].track = t}
TrackSet(s) == Range(s.tracks)
ShownOn(c) == c.start .. c.end - 1
Overlap(c, d) == c.start < d.end /\ d.start < c.end
Still(c) == c.src = 0 /\ c.srcEnd = 1 /\ c.avail = 1

(* Reading: a track's bus is that of one of its clips.                      *)
Read(d) ==
  [d EXCEPT !.routed = {t \in TrackSet(d) : \E i \in On(d, t) : d.clips[i].bus}]

X_Write(s) ==  \* a clip keeps the bus it had, and gets none
  [s EXCEPT !.routed = {},
            !.clips = [i \in DOMAIN s.clips |->
              [s.clips[i] EXCEPT !.avail = s.clips[i].srcEnd, !.nested = FALSE]]]

(* Writing: a clip keeps the bus it had, or gets its track's; neither the   *)
(* source beyond its end nor a nested sequence is kept.                     *)
Write(s) ==
  [s EXCEPT !.routed = {},
            !.clips = [i \in DOMAIN s.clips |->
              [s.clips[i] EXCEPT !.bus = s.clips[i].bus \/ s.clips[i].track \in s.routed,
                                 !.avail = s.clips[i].srcEnd,
                                 !.nested = FALSE]]]

ValidTracks(s) ==
  IsInjective(s.tracks) /\ \A t \in TrackSet(s) : t \in AudioTracks <=> t \in s.routed

ValidClip(s, c) ==
  /\ c.track \in TrackSet(s)
  /\ 0 <= c.start /\ c.start < c.end /\ c.end <= s.duration
  /\ 0 <= c.src /\ c.src < c.srcEnd /\ c.srcEnd <= c.avail
  /\ (c.asset = None) <=> c.nested

(* Only sounds overlap on a track.                                          *)
ValidPlacement(s, i) ==
  \A j \in On(s, s.clips[i].track) \ {i} :
    Overlap(s.clips[i], s.clips[j]) => s.clips[i].track \in AudioTracks

ValidMarks(s) == \A m \in DOMAIN s.marks : s.marks[m] \in 0 .. s.duration

ValidKeys(s) ==
  \A k \in DOMAIN s.keys :
    /\ s.keys[k].owner \in DOMAIN s.clips
    /\ s.keys[k].frame \in ShownOn(s.clips[s.keys[k].owner])

(* validateTimelineCore.                                                    *)
Valid(s) ==
  /\ ValidTracks(s) /\ ValidMarks(s) /\ ValidKeys(s)
  /\ \A i \in DOMAIN s.clips : ValidClip(s, s.clips[i]) /\ ValidPlacement(s, i)

(* The clips, and what a timeline is.                                       *)
ClipRecords ==
  [track : Tracks, start : Int, end : Int, src : Int, srcEnd : Int, avail : Int,
   asset : Assets \cup {None}, link : Links \cup {None}, nested : BOOLEAN, bus : BOOLEAN]
KeyRecords == [owner : Clips, frame : Int]

IsTimeline(s) ==
  /\ s \in [tracks : Seq(Tracks), locked : SUBSET Tracks, routed : SUBSET Tracks,
            duration : Int, clips : [DOMAIN s.clips -> ClipRecords],
            keys : [DOMAIN s.keys -> KeyRecords], marks : [DOMAIN s.marks -> Int],
            inOut : [start : Int, end : Int] \cup {None}]
  /\ DOMAIN s.clips \subseteq Clips /\ IsFiniteSet(DOMAIN s.clips)
  /\ DOMAIN s.keys \subseteq Keys /\ DOMAIN s.marks \subseteq Marks
  /\ s.locked \subseteq TrackSet(s)

(* A document holds what a document keeps: the source of its clips up to    *)
(* their ends, the buses of its sounds.                                     *)
IsDocument(d) ==
  /\ IsTimeline(d) /\ d.routed = {} /\ d.duration <= MaxFrame
  /\ \A i \in DOMAIN d.clips :
       /\ d.clips[i].avail = d.clips[i].srcEnd /\ ~d.clips[i].nested
       /\ d.clips[i].track \in AudioTracks => d.clips[i].bus

ASSUME StartsAssumption == \A d \in Starts : IsDocument(d) /\ Valid(Read(d))

Init == doc \in Starts /\ edits = 0 /\ did = [kind |-> "none", clips |-> {}]

now == Read(doc)
Editing == edits < MaxEdits /\ Valid(now)

X_Commit(kind, S, s) ==  \* validated before the command and not after it
  /\ s.duration <= MaxFrame
  /\ doc' = Write(s) /\ edits' = edits + 1
  /\ did' = [kind |-> kind, clips |-> S]

(* An accepted command: its result is valid, and is written.                *)
Commit(kind, S, s) ==
  /\ s.duration <= MaxFrame /\ Valid(s)
  /\ doc' = Write(s) /\ edits' = edits + 1
  /\ did' = [kind |-> kind, clips |-> S]

-----------------------------------------------------------------------------
(* What the commands are made of.                                           *)

Ends(s) == {s.clips[i].end : i \in DOMAIN s.clips} \cup {0}

(* Plain commands only lengthen a timeline, professional ones fit it.       *)
Finalize(s) == [s EXCEPT !.duration = Max(Ends(s) \cup {@})]
Fit(s) == [s EXCEPT !.duration = Max(Ends(s))]

Shifted(c, d) == [c EXCEPT !.start = @ + d, !.end = @ + d]

(* Each clip i of s and its keyframes moved by by[i].                       *)
ShiftClips(s, by) ==
  [s EXCEPT !.clips = [i \in DOMAIN @ |->
                         IF i \in DOMAIN by THEN Shifted(@[i], by[i]) ELSE @[i]],
            !.keys = [k \in DOMAIN @ |->
                        IF @[k].owner \in DOMAIN by
                        THEN [s.keys[k] EXCEPT !.frame = @ + by[s.keys[k].owner]]
                        ELSE @[k]]]

ShiftMarks(marks, boundary, d) ==
  [m \in DOMAIN marks |->
     IF m \in ContentMarks /\ marks[m] >= boundary THEN marks[m] + d ELSE marks[m]]

RemoveClips(s, S) ==
  [s EXCEPT !.clips = Restrict(@, DOMAIN @ \ S),
            !.keys = Restrict(@, {k \in DOMAIN @ : @[k].owner \notin S})]

Put(f, x, v) == [y \in DOMAIN f \cup {x} |-> IF y = x THEN v ELSE f[y]]
With(s, i, c) == [s EXCEPT !.clips = Put(@, i, c)]

Writable(t) == t \in TrackSet(doc) \ doc.locked
X_ClipsWritable(S) ==  \* one of the clips is looked at
  \E i \in S : Writable(doc.clips[i].track)
ClipsWritable(S) == \A i \in S : Writable(doc.clips[i].track)

Linked(i) == {j \in DOMAIN doc.clips :
                doc.clips[i].link # None /\ doc.clips[j].link = doc.clips[i].link}
Covers(S) == \A i \in S : Linked(i) \subseteq S

(* The clip a caller makes up, under the next free identity.                *)
Free == Clips \ DOMAIN doc.clips
NewClip(t, f, n, src) ==
  [track |-> t, start |-> f, end |-> f + n, src |-> src, srcEnd |-> src + n,
   avail |-> src + n, asset |-> "new", link |-> None, nested |-> FALSE, bus |-> FALSE]
NewClips == {NewClip(t, f, n, src) : t \in TrackSet(doc), f \in Frames,
                                     n \in 1 .. 2, src \in 0 .. 1}

-----------------------------------------------------------------------------
(* Placing clips (commands.ts).                                             *)

(* clips.move, of one clip anywhere or of several by the same distance; the *)
(* rest of a link group need not come along.                                *)
Moving(s, S, t, d) ==
  LET moved == ShiftClips(s, [i \in S |-> d])
  IN [moved EXCEPT !.clips = [i \in DOMAIN @ |->
        IF i \in S /\ t # None THEN [@[i] EXCEPT !.track = t] ELSE @[i]]]

Move(S, t, d) ==
  /\ ClipsWritable(S) /\ (t # None => Cardinality(S) = 1 /\ Writable(t))
  /\ Commit("move", S, Finalize(Moving(now, S, t, d)))

Placed(s, t, n) ==
  [s EXCEPT !.tracks = InsertAt(@, n, t),
            !.routed = IF t \in AudioTracks THEN @ \cup {t} ELSE @]

(* clips.move-to-new-track: the track is added, then the clip moves to it.  *)
MoveToNewTrack(i, t, n, d) ==
  /\ ClipsWritable({i}) /\ t \notin TrackSet(doc)
  /\ Commit("move", {i}, Finalize(Moving(Placed(now, t, n), {i}, t, d)))

X_Inserted(s, i, c) ==  \* keyframes stay behind
  LET later == {j \in On(s, c.track) : s.clips[j].start >= c.start}
      n == c.end - c.start
  IN [With(ShiftClips(s, [j \in later |-> n]), i, c) EXCEPT
        !.keys = s.keys, !.marks = ShiftMarks(@, c.start, n)]

Y_Inserted(s, i, c) ==  \* a marker at the insertion point stays behind
  LET later == {j \in On(s, c.track) : s.clips[j].start >= c.start}
      n == c.end - c.start
  IN [With(ShiftClips(s, [j \in later |-> n]), i, c) EXCEPT
        !.marks = ShiftMarks(@, c.start + 1, n)]

(* The clips of the track from c.start on make room, and so do all markers. *)
Inserted(s, i, c) ==
  LET later == {j \in On(s, c.track) : s.clips[j].start >= c.start}
      n == c.end - c.start
  IN [With(ShiftClips(s, [j \in later |-> n]), i, c) EXCEPT
        !.marks = ShiftMarks(@, c.start, n)]

Insert(i, c) ==
  /\ Writable(c.track)
  /\ ~\E j \in On(doc, c.track) :
        doc.clips[j].start < c.start /\ c.start < doc.clips[j].end
  /\ Commit("insert", {i}, Finalize(Inserted(now, i, c)))

(* clip.overwrite: what it overlaps is removed, whatever is linked to that. *)
Overwrite(i, c) ==
  /\ Writable(c.track)
  /\ LET under == {j \in On(doc, c.track) : Overlap(doc.clips[j], c)}
     IN Commit("overwrite", {i} \cup under,
               Finalize(With(RemoveClips(now, under), i, c)))

Replace(i, c) ==
  /\ ClipsWritable({i}) /\ Writable(c.track)
  /\ Commit("replace", {i},
            Finalize(With(now, i, [c EXCEPT !.bus = doc.clips[i].bus])))

(* clips.duplicate and clips.paste: a copy, without the keyframes.          *)
Copy(i, j, t, d) ==
  /\ Writable(t)
  /\ Commit("copy", {j}, Finalize(With(now, j,
       [Shifted(now.clips[i], d) EXCEPT !.track = t, !.bus = FALSE])))

(* clips.link, which asks for no writable track.                            *)
Link(S, g) ==
  /\ Commit("link", S, [now EXCEPT !.clips = [i \in DOMAIN @ |->
       IF i \in S THEN [@[i] EXCEPT !.link = g] ELSE @[i]]])

-----------------------------------------------------------------------------
(* Splitting, trimming and removing.                                        *)

SourceAt(c, f) == IF Still(c) THEN c.src ELSE c.src + f - c.start

(* A clip made to end, or to start, at frame f.                             *)
EndAt(c, f) == [c EXCEPT !.end = f, !.srcEnd = IF Still(c) THEN @ ELSE SourceAt(c, f)]
X_StartAt(c, f) == [c EXCEPT !.start = f]  \* and shows its first frame there
StartAt(c, f) == [c EXCEPT !.start = f, !.src = SourceAt(c, f)]

(* The clips of S cut at a frame; right[i] is what is right of it, and gets *)
(* the keyframes from there on.                                             *)
Split(S, right, at) ==
  /\ ClipsWritable(S)
  /\ \A i \in S : doc.clips[i].start < at /\ at < doc.clips[i].end
  /\ \A i \in S : {j \in Linked(i) : doc.clips[j].start < at /\ at < doc.clips[j].end}
                    \subseteq S
  /\ \A i \in S : Still(doc.clips[i]) \/ SourceAt(doc.clips[i], at) < doc.clips[i].srcEnd
  /\ LET RightOf(j) == [StartAt(now.clips[CHOOSE i \in S : right[i] = j], at)
                          EXCEPT !.bus = FALSE]
     IN Commit("split", S \cup Range(right),
          [now EXCEPT
             !.clips = [i \in DOMAIN @ \cup Range(right) |->
                          IF i \in Range(right) THEN RightOf(i)
                          ELSE IF i \in S THEN EndAt(@[i], at) ELSE @[i]],
             !.keys = [k \in DOMAIN @ |->
                         IF @[k].owner \in S /\ @[k].frame >= at
                         THEN [now.keys[k] EXCEPT !.owner = right[@]]
                         ELSE @[k]]])

(* One edge of a clip moved to frame f; a ripple keeps its start in place.  *)
Trimmed(c, edge, f, ripple) ==
  IF edge = "out"
  THEN [c EXCEPT !.end = f, !.srcEnd = c.src + f - c.start]
  ELSE [c EXCEPT !.src = @ + f - c.start,
                 !.start = IF ripple THEN @ ELSE f,
                 !.end = IF ripple THEN @ - (f - c.start) ELSE @]

(* How far a ripple moves what follows.                                     *)
Ripple(c, edge, f) == IF edge = "out" THEN f - c.end ELSE c.start - f

(* A ripple from some beginning, and linked clips that are trimmed apart.   *)
TrimKind(S, edge, to, ripple) ==
  LET inward == ripple /\ \E i \in S : edge[i] = "in"
      apart == \E i \in S : \E j \in Linked(i) \cap S :
                 <<edge[i], to[i]>> # <<edge[j], to[j]>>
  IN CASE apart -> IF inward THEN "ripple-in-apart" ELSE "trim-apart"
       [] OTHER -> IF inward THEN "ripple-in" ELSE "trim"

(* A content marker at frame g after a shift by x[2] of all from x[1] on.   *)
Carried(g, x) == IF g >= x[1] THEN g + x[2] ELSE g

(* clips.trim: an edge of each clip of S, all on different tracks, each to  *)
(* a frame of its own, linked or not.  The markers follow one after the     *)
(* other, in the order of the request.                                      *)
Trim(S, edge, to, ripple) ==
  /\ ClipsWritable(S) /\ Covers(S)
  /\ \A i, j \in S : i # j => doc.clips[i].track # doc.clips[j].track
  /\ \A i \in S : IF edge[i] = "in" THEN to[i] < doc.clips[i].end
                                    ELSE to[i] > doc.clips[i].start
  /\ \A i \in S : LET c == Trimmed(now.clips[i], edge[i], to[i], ripple)
                  IN /\ c.src >= 0 /\ c.srcEnd <= c.avail
                     /\ \A k \in DOMAIN doc.keys :
                          doc.keys[k].owner = i => doc.keys[k].frame \in ShownOn(c)
  /\ LET After(i) == {j \in On(doc, doc.clips[i].track) :
                        doc.clips[j].start >= doc.clips[i].end}
         Leads(j) == CHOOSE i \in S : j \in After(i)
         d(i) == Ripple(doc.clips[i], edge[i], to[i])
         by == IF ~ripple THEN <<>>
               ELSE [j \in UNION {After(i) : i \in S} |-> d(Leads(j))]
         shifts == IF ~ripple THEN {} ELSE {<<doc.clips[i].end, d(i)>> : i \in S}
         moved == ShiftClips(now, by)
     IN \E order \in SetToSeqs(shifts) :
          Commit(TrimKind(S, edge, to, ripple), S,
            Finalize([moved EXCEPT
              !.clips = [i \in DOMAIN @ |->
                           IF i \in S THEN Trimmed(@[i], edge[i], to[i], ripple) ELSE @[i]],
              !.marks = [m \in DOMAIN @ |->
                           IF m \in ContentMarks
                           THEN FoldLeft(Carried, @[m], order) ELSE @[m]]]))

(* clips.lift and clips.delete.                                             *)
Delete(S) ==
  /\ ClipsWritable(S) /\ Covers(S)
  /\ Commit("delete", S, Finalize(RemoveClips(now, S)))

(* How many of the deleted frames lie in blocks of them that end by f.      *)
Closed(deleted, f) ==
  Cardinality({g \in deleted : g < f /\ \E h \in g .. f : h \notin deleted})

X_RippleDeleted(s, S) ==  \* every track closes up by all that was deleted
  LET all == UNION {ShownOn(s.clips[i]) : i \in S}
      kept == RemoveClips(s, S)
      shifted == ShiftClips(kept, [j \in DOMAIN kept.clips |->
                                     0 - Closed(all, s.clips[j].start)])
  IN [shifted EXCEPT !.marks =
        [m \in {x \in DOMAIN @ : x \notin ContentMarks \/ @[x] \notin all} |->
           IF m \in ContentMarks THEN @[m] - Closed(all, @[m]) ELSE @[m]]]

(* clips.ripple-delete: each track closes the gaps made on it; the markers  *)
(* follow what was deleted anywhere.                                        *)
RippleDeleted(s, S) ==
  LET deleted(t) == UNION {ShownOn(s.clips[i]) : i \in S \cap On(s, t)}
      all == UNION {ShownOn(s.clips[i]) : i \in S}
      kept == RemoveClips(s, S)
      shifted == ShiftClips(kept, [j \in DOMAIN kept.clips |->
                   0 - Closed(deleted(s.clips[j].track), s.clips[j].start)])
  IN [shifted EXCEPT !.marks =
        [m \in {x \in DOMAIN @ : x \notin ContentMarks \/ @[x] \notin all} |->
           IF m \in ContentMarks THEN @[m] - Closed(all, @[m]) ELSE @[m]]]

X_RippleDelete(S) ==  \* clips linked to the deleted ones may stay
  /\ ClipsWritable(S)
  /\ Commit("ripple-delete", S, Finalize(RippleDeleted(now, S)))

RippleDelete(S) ==
  /\ ClipsWritable(S) /\ Covers(S)
  /\ Commit("ripple-delete", S, Finalize(RippleDeleted(now, S)))

-----------------------------------------------------------------------------
(* Tracks, ranges, markers and keyframes.                                   *)

SetRange(a, b) ==
  /\ b <= doc.duration
  /\ Commit("range", {}, [now EXCEPT !.inOut = [start |-> a, end |-> b]])

ClearRange == Commit("range", {}, [now EXCEPT !.inOut = None])

AddTrack(t, n) ==
  /\ t \notin TrackSet(doc)
  /\ Commit("track", {}, Placed(now, t, n))

LockTrack(t, on) ==
  /\ t \in TrackSet(doc)
  /\ Commit("track", {},
       [now EXCEPT !.locked = IF on THEN @ \cup {t} ELSE @ \ {t}])

RemoveTrack(t, clipsToo) ==
  /\ Writable(t)
  /\ LET S == On(doc, t) IN
       /\ S # {} => clipsToo /\ Covers(S)
       /\ Commit("delete", S, [RemoveClips(now, S) EXCEPT
            !.tracks = RemoveAt(@, CHOOSE n \in DOMAIN @ : @[n] = t),
            !.routed = @ \ {t}])

ReorderTracks(order) ==
  /\ order \in Seq(TrackSet(doc)) /\ Len(order) = Len(doc.tracks)
  /\ IsInjective(order)
  /\ Commit("track", {}, [now EXCEPT !.tracks = order])

(* marker.add and marker.update; markers.remove.                            *)
SetMark(m, f) ==
  /\ Commit("mark", {}, [now EXCEPT !.marks = Put(@, m, f)])

RemoveMark(m) ==
  /\ m \in DOMAIN doc.marks
  /\ Commit("mark", {}, [now EXCEPT !.marks = Restrict(@, DOMAIN @ \ {m})])

(* keyframe.add and keyframe.update, on a locked track too.                 *)
SetKey(k, i, f) ==
  /\ (k \in DOMAIN doc.keys => doc.keys[k].owner = i)
  /\ Commit("key", {i},
       [now EXCEPT !.keys = Put(@, k, [owner |-> i, frame |-> f])])

RemoveKey(k) ==
  /\ k \in DOMAIN doc.keys
  /\ Commit("key", {}, [now EXCEPT !.keys = Restrict(@, DOMAIN @ \ {k})])

-----------------------------------------------------------------------------
(* Professional edits (professional.ts): roll, slip, slide, compound.       *)

Handles(c) == Still(c) \/ (c.src >= 0 /\ c.src < c.srcEnd /\ c.srcEnd <= c.avail)

Adjacent(i, j) ==
  doc.clips[i].track = doc.clips[j].track /\ doc.clips[i].end = doc.clips[j].start

(* The clips to roll with i and j: of each clip linked to i, the first one  *)
(* linked to j that follows it.                                             *)
RollPairs(i, j, linked) ==
  IF ~linked \/ Linked(i) = {} \/ Linked(j) = {} THEN {<<i, j>>}
  ELSE {<<p, Min({q \in Linked(j) : Adjacent(p, q)})>> :
          p \in {p \in Linked(i) : \E q \in Linked(j) : Adjacent(p, q)}}

Roll(i, j, f, linked) ==
  LET pairs == RollPairs(i, j, linked) IN
  /\ pairs # {} /\ ClipsWritable({i, j})
  /\ linked => ClipsWritable(Linked(i) \cup Linked(j))
  /\ \A p \in pairs :
       /\ Adjacent(p[1], p[2])
       /\ doc.clips[p[1]].start < f /\ f < doc.clips[p[2]].end
       /\ Handles(EndAt(now.clips[p[1]], f)) /\ Handles(StartAt(now.clips[p[2]], f))
  /\ Commit("roll", {p[1] : p \in pairs} \cup {p[2] : p \in pairs},
       Fit([now EXCEPT !.clips = [c \in DOMAIN @ |->
              IF \E p \in pairs : c = p[2] THEN StartAt(@[c], f)
              ELSE IF \E p \in pairs : c = p[1] THEN EndAt(@[c], f) ELSE @[c]]]))

Group(i, linked) == IF linked THEN Linked(i) \cup {i} ELSE {i}

Slip(i, d, linked) ==
  LET S == Group(i, linked)
      Slipped(c) == [c EXCEPT !.src = @ + d, !.srcEnd = @ + d]
  IN /\ ClipsWritable(S)
     /\ Commit("slip", S, [now EXCEPT !.clips = [c \in DOMAIN @ |->
                             IF c \in S THEN Slipped(@[c]) ELSE @[c]]])

(* The order of the clips of a track, and the ones next to i in it.         *)
Earlier(i, j) ==
  \/ doc.clips[i].start < doc.clips[j].start
  \/ doc.clips[i].start = doc.clips[j].start /\ i < j
NextTo(i, j) ==
  /\ doc.clips[i].track = doc.clips[j].track /\ Earlier(i, j)
  /\ ~\E k \in On(doc, doc.clips[i].track) : Earlier(i, k) /\ Earlier(k, j)

(* clip.slide: the neighbours give and take what the clip moves by.  One    *)
(* that several of the slid clips touch is as the last of them leaves it.   *)
Slide(i, f, linked) ==
  LET S == Group(i, linked)
      d == f - doc.clips[i].start
      Left(j) == CHOOSE l \in DOMAIN doc.clips : NextTo(l, j)
      Right(j) == CHOOSE r \in DOMAIN doc.clips : NextTo(j, r)
      Touching(c) == {j \in S : c \in {Left(j), j, Right(j)}}
      Slid(c, j) == IF c = j THEN Shifted(now.clips[c], d)
                    ELSE IF c = Left(j) THEN EndAt(now.clips[c], now.clips[j].start + d)
                    ELSE StartAt(now.clips[c], now.clips[j].end + d)
  IN /\ ClipsWritable(S)
     /\ \A j \in S : \E l, r \in DOMAIN doc.clips :
          /\ NextTo(l, j) /\ NextTo(j, r) /\ Adjacent(l, j) /\ Adjacent(j, r)
          /\ doc.clips[l].start < doc.clips[j].start + d
          /\ doc.clips[j].end + d < doc.clips[r].end
          /\ Handles(EndAt(now.clips[l], doc.clips[j].start + d))
          /\ Handles(StartAt(now.clips[r], doc.clips[j].end + d))
     /\ Commit("slide", S,
          Fit([now EXCEPT
            !.clips = [c \in DOMAIN @ |->
                         IF Touching(c) = {} THEN @[c] ELSE Slid(c, Max(Touching(c)))],
            !.keys = [k \in DOMAIN @ |-> IF @[k].owner \in S
                        THEN [now.keys[k] EXCEPT !.frame = @ + d] ELSE @[k]]]))

(* compound.create: clips that follow one another on a track become one     *)
(* nested clip.                                                             *)
Compound(S, j) ==
  LET first == CHOOSE i \in S : ~\E k \in S : Earlier(k, i)
      last == CHOOSE i \in S : ~\E k \in S : Earlier(i, k)
  IN /\ S # {} /\ ClipsWritable(S)
     /\ \A i \in S \ {last} : \E k \in S : Adjacent(i, k)
     /\ \A i \in S : doc.clips[i].track = doc.clips[first].track
     /\ Commit("compound", S \cup {j},
          Fit(With(RemoveClips(now, S), j,
            [NewClip(doc.clips[first].track, doc.clips[first].start,
                     doc.clips[last].end - doc.clips[first].start, 0)
               EXCEPT !.asset = None, !.nested = TRUE])))

-----------------------------------------------------------------------------
Sets == {S \in SUBSET DOMAIN doc.clips : Cardinality(S) \in 1 .. 2}
Delta == -MaxFrame .. MaxFrame

Next ==  \* no command is applied to an invalid snapshot
  /\ Editing
  /\ \/ \E S \in Sets, t \in TrackSet(doc) \cup {None}, d \in Delta : Move(S, t, d)
     \/ \E i \in DOMAIN doc.clips, t \in Tracks, n \in 1 .. Len(doc.tracks) + 1,
           d \in Delta : MoveToNewTrack(i, t, n, d)
     \/ /\ Free # {}
        /\ \/ \E c \in NewClips : Insert(Min(Free), c) \/ Overwrite(Min(Free), c)
           \/ \E i \in DOMAIN doc.clips, t \in TrackSet(doc), d \in Delta :
                Copy(i, Min(Free), t, d)
           \/ \E S \in Sets : Compound(S, Min(Free))
     \/ \E i \in DOMAIN doc.clips, c \in NewClips :
          c.start = doc.clips[i].start /\ Replace(i, c)
     \/ \E S \in Sets, g \in Links \cup {None} : Link(S, g)
     \/ \E S \in Sets, at \in Frames :
          \E right \in {r \in [S -> Free] : IsInjective(r)} : Split(S, right, at)
     \/ \E S \in Sets, ripple \in BOOLEAN :
          \E edge \in [S -> {"in", "out"}], to \in [S -> Frames] : Trim(S, edge, to, ripple)
     \/ \E S \in SUBSET DOMAIN doc.clips \ {{}} : Delete(S) \/ RippleDelete(S)
     \/ \E a, b \in Frames : a < b /\ SetRange(a, b)
     \/ ClearRange
     \/ \E t \in Tracks, n \in 1 .. Len(doc.tracks) + 1 : AddTrack(t, n)
     \/ \E t \in Tracks, b \in BOOLEAN : LockTrack(t, b) \/ RemoveTrack(t, b)
     \/ \E order \in SetToSeqs(TrackSet(doc)) : ReorderTracks(order)
     \/ \E m \in Marks : RemoveMark(m) \/ \E f \in Frames : SetMark(m, f)
     \/ \E k \in Keys :
          RemoveKey(k) \/ \E i \in DOMAIN doc.clips, f \in Frames : SetKey(k, i, f)
     \/ \E i, j \in DOMAIN doc.clips, f \in Frames, b \in BOOLEAN : Roll(i, j, f, b)
     \/ \E i \in DOMAIN doc.clips, d \in Delta, b \in BOOLEAN : Slip(i, d, b)
     \/ \E i \in DOMAIN doc.clips, f \in Frames, b \in BOOLEAN : Slide(i, f, b)

Spec == Init /\ [][Next]_vars

-----------------------------------------------------------------------------
(* Properties.                                                              *)

(* What track t shows at frame f: the frames of the assets lying there.     *)
Shows(d, t, f) ==
  {<<d.clips[i].asset, SourceAt(d.clips[i], f)>> :
     i \in {j \in On(d, t) : f \in ShownOn(d.clips[j])}}

(* Every keyframe that no command sets stays on the frame of its asset that *)
(* it was set on, whatever is moved, inserted, split, trimmed, rolled or    *)
(* deleted, and whichever clip shows that frame now.  Not under a slip or a *)
(* replacement, which change the asset below it, nor under a ripple trim of *)
(* the beginning, which moves the asset but leaves the keyframes, nor under *)
(* a slide of neighbours, of which only the last moves with its keyframes.  *)
KeyframesStay ==
  /\ did'.kind \notin {"slip", "replace", "ripple-in", "ripple-in-apart", "key"}
  /\ ~(did'.kind = "slide" /\ \E i, j \in did'.clips : NextTo(i, j))
  =>
    \A k \in DOMAIN doc.keys \cap DOMAIN doc'.keys :
      LET c == doc.clips[doc.keys[k].owner]
          e == doc'.clips[doc'.keys[k].owner]
      IN Still(c) \/ Still(e) \/
           SourceAt(c, doc.keys[k].frame) = SourceAt(e, doc'.keys[k].frame)

(* A content marker stays with what its track shows under it: an insertion  *)
(* or ripple deletion on one track carries it along.                        *)
MarkersStay ==
  did'.kind \in {"insert", "ripple-delete"} =>
    LET d == IF did'.kind = "insert" THEN doc' ELSE doc
        on == {d.clips[i].track : i \in did'.clips}
    IN Cardinality(on) = 1 =>
         \A t \in on \ AudioTracks, m \in ContentMarks \cap DOMAIN doc'.marks :
           Shows(doc, t, doc.marks[m]) = Shows(doc', t, doc'.marks[m])

(* Deleting what was inserted, with a ripple, brings the timeline back, but *)
(* for its length.                                                          *)
InsertionIsUndone ==
  did'.kind = "insert" =>
    LET back == RippleDeleted(Read(doc'), did'.clips)
    IN back.keys = doc.keys /\ back.marks = doc.marks
       /\ \A i \in DOMAIN doc.clips : back.clips[i] = doc.clips[i]

(* What is anchored to content stays with it under every command, and       *)
(* insertion and ripple deletion are each other's inverse.                  *)
AnchorsStayOnContent ==
  [][KeyframesStay /\ MarkersStay /\ InsertionIsUndone]_vars

(* A ripple delete cuts the deleted frames out of each track that holds no  *)
(* overlapping clips, and nothing else: the track shows, one after the      *)
(* other, the frames it showed before.                                      *)
RippleDeleteIsACut ==
  did'.kind = "ripple-delete" =>
    \A t \in TrackSet(doc) \ AudioTracks :
      LET cut == UNION {ShownOn(doc.clips[i]) : i \in did'.clips \cap On(doc, t)}
          Before(f) == Cardinality({g \in cut : g < f})
      IN /\ \A f \in Frames \ cut : Shows(doc', t, f - Before(f)) = Shows(doc, t, f)
         /\ \A f \in Frames : f > MaxFrame - Cardinality(cut) => Shows(doc', t, f) = {}

(* A split changes nothing that is shown.                                   *)
SplitChangesNothingShown ==
  did'.kind = "split" =>
    \A t \in Tracks, f \in Frames : Shows(doc', t, f) = Shows(doc, t, f)

(* Cutting, of one or of several clips at once, on tracks with gaps, stills *)
(* and overlapping sounds, shows every other frame as before.               *)
CutsKeepTheRest == [][RippleDeleteIsACut /\ SplitChangesNothingShown]_vars

(* The clips linked to a clip; linked clips that start and end together, on *)
(* tracks of their own; tracks that are linked clip by clip.                *)
Partners(d, i) ==
  {j \in DOMAIN d.clips \ {i} : d.clips[i].link # None /\ d.clips[j].link = d.clips[i].link}
InStep(d) ==
  \A i \in DOMAIN d.clips : \A j \in Partners(d, i) :
    /\ d.clips[i].track # d.clips[j].track
    /\ d.clips[i].start = d.clips[j].start /\ d.clips[i].end = d.clips[j].end
Paired(d) ==
  \A i, k \in DOMAIN d.clips :
    /\ Partners(d, i) # {}
    /\ d.clips[i].track = d.clips[k].track =>
         {d.clips[j].track : j \in Partners(d, i)} = {d.clips[j].track : j \in Partners(d, k)}

(* Linked clips that start and end together still do after a removal, and   *)
(* after a trim, with or without a ripple, that gives the linked ones of    *)
(* its clips the same edge and frame, as long as every clip is linked to    *)
(* one of its track's partner track: a ripple then never takes picture and  *)
(* sound apart.  (Where they are not, it does; and a trim that names linked *)
(* clips with different edges or frames is accepted, and takes them apart.) *)
LinkedStayInStep ==
  Paired(doc) /\ InStep(doc)
  /\ did'.kind \in {"trim", "ripple-in", "delete", "ripple-delete"}
    => InStep(doc')

(* No command moves, trims, adds or removes a clip of a locked track; only  *)
(* its links, and its keyframes, can be changed there.                      *)
LockedTracksKeepTheirClips ==
  LET Lasting(d, t) == {<<i, [d.clips[i] EXCEPT !.link = None]>> : i \in On(d, t)}
  IN \A t \in doc.locked : Lasting(doc, t) = Lasting(doc', t)

(* None of the commands forgets a lock or a link that it should respect.    *)
EditsRespectLocksAndLinks ==
  [][LinkedStayInStep /\ LockedTracksKeepTheirClips]_vars

(* A document that an accepted command has written reads back as a valid    *)
(* timeline, after whatever the document does not keep is made up again;    *)
(* unless an audio track has lost its last clip, and its bus with it, a     *)
(* sound has taken its bus to a video track, or a clip is nested, in a      *)
(* sequence that was not written.                                           *)
DocumentsReopen ==
  \/ Valid(Read(doc))
  \/ \E t \in TrackSet(doc) \cap AudioTracks : On(doc, t) = {}
  \/ \E i \in DOMAIN doc.clips :
       \/ doc.clips[i].bus /\ doc.clips[i].track \notin AudioTracks
       \/ doc.clips[i].asset = None
=============================================================================
