SPECIFICATION LineageSpec
CONSTANTS
  Lines <- MCLines
  Together = 1
  MaxVersions = 2
INVARIANTS
  
  
  
  LaunchedAsQualified
CHECK_DEADLOCK FALSE
