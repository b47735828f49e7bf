SPECIFICATION Spec
CONSTANTS
  Script = {dazn, sling}
  Dazn = dazn
  Channel = {a, b}
  MaxRequests = 2
  MaxReboots = 0
  CleanStarts = FALSE
INVARIANT AnsweredIsKept
CHECK_DEADLOCK FALSE
