\* Any download, mux or player may fail; a live source.
SPECIFICATION FairSpec
CONSTANTS
  WindowSize = 2
  MaxSegments = 3
  SampleSize = 2
  ListSize = 3
  MaxEdge = 6
  MaxJump = 2
  MaxFaults = 3
  MaxRemovals = 0
INVARIANTS
  TypeOK
  NoDuplicate
  NumberingLag
  StoreBounded
PROPERTIES
  ClearedIsOld
  StartsOnAFile
