\* Requests at any time for one channel.
SPECIFICATION FairSpec
CONSTANTS
  a = a
  b = b
  Channel = {a}
  Within <- Alone
  MaxCommands = 3
  MaxReboots = 0
  KeystoreFails = TRUE
INVARIANTS
  TypeOK
PROPERTIES
  SelfHeals
  RunningIsShown
CHECK_DEADLOCK FALSE
