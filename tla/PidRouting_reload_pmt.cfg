SPECIFICATION Spec
CONSTANTS
  MaxOutputs = 2
  Addrs = {x, y}
  Sids = {s1, s2}
  Pids = {m1, m2, v, a, z}
  TablePids = {z}
  TimePids = {}
  TSIDs = {t1}
  PatTables <- MCPatTables
  PmtTables <- MCPmtTables
  Configs <- WholeConfigs
  NoSid = NoSid
  NoPid = NoPid
  NoTsid = NoTsid
  SelectPmts = TRUE
  BudgetMode = FALSE
  DevMayFail = FALSE
  s1 = s1
  s2 = s2
  m1 = m1
  m2 = m2
  v = v
  a = a
  z = z
  MaxDrift = 1
  MaxPsi = 2
SYMMETRY AddrSymmetry
CONSTRAINT BoundedCounts
INVARIANTS
  StreamedPmtIsParsed
