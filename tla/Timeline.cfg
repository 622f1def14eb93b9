SPECIFICATION Spec
CONSTANTS
  Clips = {1, 2, 3, 4, 5, 6}
  Tracks = {"V", "A", "W"}
  AudioTracks = {"A"}
  Keys = {"k"}
  Marks = {"m", "n"}
  ContentMarks = {"m"}
  Links = {"p", "q"}
  Assets = {"a", "b", "c", "d", "new"}
  None = None
  Starts <- StartSet
  MaxFrame = 7
  MaxEdits = 2
CHECK_DEADLOCK FALSE
INVARIANT DocumentsReopen
PROPERTIES
  AnchorsStayOnContent
  CutsKeepTheRest
  EditsRespectLocksAndLinks
