SPECIFICATION Spec
CONSTANTS
  MaxOutputs = 2
  Sids = {1, 2}
  Pids = {100, 200}
  TSIDs = {7, 8}
  Texts = {"a", "b"}
  Pats <- MCPats
  Sdts <- MCSdts
  Configs <- MCConfigs
  GlobalPid = 0
  RandomTsid = FALSE
  MaxRebuilds = 2
  None = None
INVARIANTS
  SectionsFollowInput
  PmtWhereAnnounced
  VersionTells
