SPECIFICATION Spec
CONSTANTS
  MaxOutputs = 2
  Blocks = {b1, b2, b3}
  BlockCount = 2
  Latencies = {1, 2}
  Retention = 1
  Never = Never
  MaxNow = 2
  MaxWrite = 1
INVARIANTS
  PendingIsArmed
  NextSendCovers
  LateOnlyByIdle
PROPERTIES
  ImplementsLines
  EverySent
