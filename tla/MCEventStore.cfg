SPECIFICATION Spec
CONSTANTS
  NoId = NoId
  home = home
  likes = likes
  Ids = {e1, e2, e3}
  Keys = {home, likes}
  Events <- MCEvents
  MaxCount = 3
  U32Max = 3
  SizeMax = 5
  LegacyLogs <- MCLegacyLogs
SYMMETRY Symmetry
ACTION_CONSTRAINT Bounds
INVARIANTS
  FlagsDerived
  HistorySound
  IntactLoadSucceeds
PROPERTIES
  OnlyAppends
CHECK_DEADLOCK FALSE
