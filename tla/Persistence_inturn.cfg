SPECIFICATION FairInTurnSpec
CONSTANTS
  Script = {dazn, sling}
  Dazn = dazn
  Channel = {a, b}
  MaxRequests = 3
  MaxReboots = 1
  CleanStarts = TRUE
INVARIANT TypeOK
INVARIANT AsWished
PROPERTY RestoreEnds
PROPERTY ListSpec
CHECK_DEADLOCK FALSE
