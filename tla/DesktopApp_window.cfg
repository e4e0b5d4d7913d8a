SPECIFICATION FairSpec
CONSTANTS
  None = None
  Clients = {c1, c2}
  Connectors = {k1, k2}
  Windows = {w1, w2}
  MaxSaves = 2
  MaxJobs = 1
INVARIANTS
  NothingStray
  FlagsMeanJobs
  SettingsReachClient
PROPERTIES
  DisplayCatchesUp
CHECK_DEADLOCK FALSE
