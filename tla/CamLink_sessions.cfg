SPECIFICATION Spec
CONSTANTS
  NbSlots = 2
  MaxSessions = 2
  Resources = {"CA", "DT", "MMI", "HC"}
  MaxQueue = 1
INVARIANTS
  
  QueuedIsAwaited
  
  NoneHalfOpen
  SysFollowsSession
PROPERTIES
  PendingIsKept
