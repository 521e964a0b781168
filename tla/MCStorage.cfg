SPECIFICATION StorageSpec
CONSTANTS
  Mechanisms = {"generations", "in place"}
  Resident = TRUE
  v1 = v1
  v2 = v2
  Values = {v1, v2}
  Saves <- MCSaves
  Legacy = Legacy
  NoResult = NoResult
  Absent = Absent
  Torn = Torn
  Ids = {"demo", "other"}
  Facts = {"f", "g"}
  Modes = {"plain", "memory", "ranking"}
  OldFiles <- MCOldFiles
  MaxEpisodes = 3
INVARIANTS
  CrashLeavesAGeneration
  StateRoundTrips
  FeaturesMatchTexts
PROPERTIES
  Atomic
