SPECIFICATION Spec
CONSTANTS
  Sessions = {s1, s2}
  Settings <- MCSettings
  MaxNew = 2
  Samples = {"lead", "cont"}
  Styles = {"full", "next"}
  Thinking = {TRUE}
  MaxDepth = 2
SYMMETRY Symmetry
INVARIANTS
  HistoryIsCached
  TranscriptIsCached
  Deduplicates
  RoomForReply
