SPECIFICATION SessionSpec
CONSTANTS
  Modes = {"plain", "resident"}
  NoId = NoId
  NoText = NoText
  home = home
  a0 = a0
  a1 = a1
  a2 = a2
  a3 = a3
  a4 = a4
  Ids = {a0, a1, a2, a3, a4, c0}
  ClientIds = {c0}
  AutoIds <- MCAutoIds
  Keys = {home}
  Events <- MCEvents
  WriterSpans <- MCSpans
  Texts = {t1, t2}
  Priorities = {0}
  MaxTexts = 2
  MaxSlots = 3
  MaxCount = 3
  U32Max = 3
  SizeMax = 5
SYMMETRY Symmetry
ACTION_CONSTRAINT SmallSnapshots
INVARIANTS
  TextsMatchEvents
  WritesNotBlocked
PROPERTIES
  FailedWriteKeepsContents
  RetryStoresOnce
