SPECIFICATION Spec
CONSTANTS
  Ids = 3
  Lengths <- MCLengths
  Room = 3
  CcMod = 4
  MaxLoss = 2
  Misread = 2
PROPERTIES
  AssemblyExact
