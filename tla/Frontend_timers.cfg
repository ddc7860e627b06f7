SPECIFICATION FrontendSpec
CONSTANTS
  Tuned = TRUE
  LockTimeout = 2
  MuteTimeout = 3
  QuitTimeout = 4
  MaxErrors = 1
  MaxEvents = 2
  Off = Off
CHECK_DEADLOCK FALSE
INVARIANTS
  FrontendTypeOK
  LockedIsWatched
PROPERTIES
  SupervisionKept
  Retried
  Ends
