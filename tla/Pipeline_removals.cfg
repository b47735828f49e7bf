\* A STOP that removes the directories at any step; a live source.
SPECIFICATION FairSpec
CONSTANTS
  WindowSize = 2
  MaxSegments = 3
  SampleSize = 2
  ListSize = 3
  MaxEdge = 4
  MaxJump = 2
  MaxFaults = 1
  MaxRemovals = 1
INVARIANTS
  NoDuplicate
PROPERTIES
  PlayerComesBack
