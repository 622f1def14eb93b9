--------------------------- MODULE MCPreviewSession ---------------------------
(* An instance of PreviewSession for TLC: a long, then a short timeline.     *)
EXTENDS PreviewSession

Do(kind) == [kind |-> kind]
LongThenShort == <<3, 2>>
ControlSet ==
  {Do("play"), [kind |-> "seek", frame |-> 2], [kind |-> "rate", rate |-> -1],
   [kind |-> "loop", range |-> [start |-> 1, end |-> 3]]}
=============================================================================
