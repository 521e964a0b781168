SPECIFICATION CampaignSpec
CONSTANTS
  Protocols <- MCProtocols
  Memory <- MCMemory
  Normal <- MCNormal
  Reviewers <- MCReviewers
  Possible <- MCPossible
  Needed = 1
  Steps = 1
  Relaunches = 0
  MaxGenerations = 2
  MaxAudits = 2
  MaxSources = 2
INVARIANTS
  OneAllocation
  
  SelectedIsQualified
CHECK_DEADLOCK FALSE
