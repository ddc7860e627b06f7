SPECIFICATION Spec
CONSTANTS
  Slots = {o1, o2}
  MaxPid = 6
  GlobalMap <- MCNoMap
  Lines <- MCLines
  Pmts <- MCPmts
  MaxBlocks = 2
  None = None
INVARIANTS
  WireAsAnnounced
  MappedApart
  SharedIsIntact
