SPECIFICATION Spec
CONSTANTS
  Limit = 2
  Lead = 2
  Durations = {1, 2}
  VideoDuration = 3
  MaxSegments = 7
INVARIANT PairsMatch
PROPERTY MovesForward
PROPERTY ListsOffered
CHECK_DEADLOCK FALSE
