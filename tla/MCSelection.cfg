SPECIFICATION Spec
CONSTANTS
  Trainers <- MCTrainers
  Steps = 5
  Every = 2
  Patience = 2
  Best = 1
  MaxRuns = 2
INVARIANTS
  PublishedIsBest
  DirectoryTruthful
CHECK_DEADLOCK FALSE
