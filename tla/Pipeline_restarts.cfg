\* What the worker's log says of a round, against what the round did.
SPECIFICATION Spec
CONSTANTS
  WindowSize = 2
  MaxSegments = 3
  SampleSize = 2
  ListSize = 3
  MaxEdge = 3
  MaxJump = 2
  MaxFaults = 1
  MaxRemovals = 0
INVARIANTS
  RestartsWhenEmpty
