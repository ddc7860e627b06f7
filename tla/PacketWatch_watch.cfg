SPECIFICATION Spec
CONSTANTS
  Pids = {20, 100}
  TdtPid = 20
  PesPids = {100}
  MaxOutputs = 2
  Takers <- MCTakers
  EsTimeout = 2
  TdtTimeout = 3
  Wait = 1
  Refractory = 2
  MaxErrors = 1
INVARIANTS
  WatchIsExact
PROPERTIES
  ResetsSpaced
  FailingIsReset
