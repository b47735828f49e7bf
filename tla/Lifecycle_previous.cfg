\* 'Shutting down previous instances.', for requests at any time.
SPECIFICATION Spec
CONSTANTS
  a = a
  b = b
  Channel = {a, b}
  Within <- Apart
  MaxCommands = 2
  MaxReboots = 0
  KeystoreFails = FALSE
INVARIANTS
  PreviousShutDown
CHECK_DEADLOCK FALSE
