SPECIFICATION Spec
CONSTANTS
  MaxOutputs = 2
  Programs = {1}
  Configs <- MCConfigs
  Sections <- MCSections
  Room = 4
  MinFragment = 1
  CcMod = 3
  Retention = 1
  Pids = {50}
  Cats <- MCCats
  BudgetMode = FALSE
  MaxRefs = 2
  MaxUsers = 1
  None = None
INVARIANTS
  EitIsOwn
  EmmIsReceived
PROPERTIES
  EitCcContinuous
  TailLeaves
