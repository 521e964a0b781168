SPECIFICATION Spec
CONSTANTS
  Directions = {"up", "down"}
  Files <- MCFiles
  Destinations = {"first", "second"}
  MaxAttempts = 2
  Stored <- MCFiles
  Expected <- MCExpected
INVARIANTS
  PublishedIsWhole

  
CHECK_DEADLOCK FALSE
