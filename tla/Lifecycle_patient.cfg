\* Requests made when the panel is at rest; names that contain each other.
SPECIFICATION PatientSpec
CONSTANTS
  a = a
  b = b
  Channel = {a, b}
  Within <- Prefix
  MaxCommands = 5
  MaxReboots = 1
  KeystoreFails = FALSE
INVARIANTS
  OneWorker
  AsRequested
CHECK_DEADLOCK FALSE
