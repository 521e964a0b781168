SPECIFICATION DataSpec
CONSTANTS
  Inventories <- MCBinding
  Salts = {1, 2}
  MaxStarts = 2
  LinkBanks <- MCLinkBanks
  Scores = {0, 1, 2}
  Names = {k1, k2}
  NoName = NoName
  Measures = {"set", "joint", "threshold", "keys"}
  Parts = {"data"}
INVARIANTS
  UnchangedVerifies
CHECK_DEADLOCK FALSE
