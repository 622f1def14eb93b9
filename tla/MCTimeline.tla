------------------------------ MODULE MCTimeline ------------------------------
(* An instance of Timeline for TLC: two scenes of linked picture and sound, *)
(* one with a gap, a still and overlapping sounds, and a row of clips, of   *)
(* which two neighbours are linked.                                         *)
EXTENDS Timeline

Clip(t, a, b, src, asset, link) ==
  [track |-> t, start |-> a, end |-> b, src |-> src, srcEnd |-> src + b - a,
   avail |-> src + b - a, asset |-> asset, link |-> link, nested |-> FALSE,
   bus |-> t \in AudioTracks]
Scenes ==
  [tracks |-> <<"V", "A">>, locked |-> {}, routed |-> {}, duration |-> 5,
   clips |-> <<Clip("V", 0, 2, 1, "a", "p"), Clip("A", 0, 2, 1, "a", "p"),
               Clip("V", 2, 4, 0, "b", "q"), Clip("A", 2, 4, 0, "b", "q")>>,
   keys |-> [k |-> [owner |-> 3, frame |-> 2]],
   marks |-> [m |-> 3, n |-> 1], inOut |-> None]
Gapped ==
  [tracks |-> <<"V", "A">>, locked |-> {"A"}, routed |-> {}, duration |-> 5,
   clips |-> <<Clip("V", 0, 1, 0, "a", None), Clip("A", 0, 3, 0, "a", None),
               Clip("V", 2, 5, 1, "b", None), Clip("A", 1, 4, 0, "b", None)>>,
   keys |-> [k |-> [owner |-> 3, frame |-> 4]],
   marks |-> [m |-> 2], inOut |-> [start |-> 1, end |-> 5]]
Row ==
  [tracks |-> <<"V">>, locked |-> {}, routed |-> {}, duration |-> 7,
   clips |-> <<Clip("V", 0, 2, 0, "a", None), Clip("V", 2, 4, 1, "b", "p"),
               Clip("V", 4, 5, 1, "c", "p"), Clip("V", 5, 7, 1, "d", None)>>,
   keys |-> [k |-> [owner |-> 2, frame |-> 3]], marks |-> [m |-> 3], inOut |-> None]
StartSet == {Scenes, Gapped, Row}
=============================================================================
