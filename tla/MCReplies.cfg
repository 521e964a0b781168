CONSTANTS
  u = u
  v = v
  w = w
  Eos = Eos
  Unusable = Unusable
  Free = Free
  Words <- MCWords
  Values <- MCValues
  Trajectories <- MCTrajectories
  Prompts = {1, 3}
  MaxNew = 5
  MaxReads = 2
  MaxTotal = 7
  MaxValueTokens = 2
  Generators = {"value", "native"}
  Vocabulary = {"a", "stop"}
  Stops = {"stop"}
  Cases <- MCCases
  Memorized = 2
  Networks <- MCNetworks
  Backends = {"continuous", "role", "joint"}
  MaxNewTokens = 2
  Rooms = {1, 5}
SPECIFICATION RepliesSpec
INVARIANTS
  ValuesWhole
  RoomToEnd
  TeacherReplayed
  ReportedIsGenerated
  AuditVouches
CHECK_DEADLOCK FALSE
