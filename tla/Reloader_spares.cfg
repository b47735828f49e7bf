\* Requests of pages, users and restore.php that overlap, with restarts.
SPECIFICATION ReloaderSpec
CONSTANTS
  Script = {dazn, sling}
  Dazn = dazn
  Sling = sling
  Channel = {a}
  MaxRequests = 3
  MaxReboots = 1
  CleanStarts = FALSE
  MaxPages = 1
INVARIANTS
  ReloaderTypeOK
  StaysShut
  StaysWished
CHECK_DEADLOCK FALSE
