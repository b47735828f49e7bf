\* A round loses only the newest segments it asked for; one removal.
SPECIFICATION FairTailSpec
CONSTANTS
  WindowSize = 2
  MaxSegments = 3
  SampleSize = 2
  ListSize = 3
  MaxEdge = 4
  MaxJump = 2
  MaxFaults = 2
  MaxRemovals = 1
PROPERTIES
  StreamSpec
  PlayInOrder
  Delivered
