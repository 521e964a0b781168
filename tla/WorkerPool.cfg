\* A counter of generations that wraps at GenMod = 2.  The matrices need no
\* worker (1 row), two chunks, or three, the last of them incomplete (5 rows,
\* two at a time).
SPECIFICATION FairSpec
CONSTANTS
  Workers = {w1, w2, w3}
  Evals = {c1, c2}
  Projectors = {}
  Nobody = Nobody
  MaxRows = 5
  RowCounts = {1, 4, 5}
  Threshold = 2
  Chunk = 2
  GenMod = 2
INVARIANTS
  DescriptorStable
  RowsOnce
  NoLateWriter
PROPERTIES
  CallReturns
