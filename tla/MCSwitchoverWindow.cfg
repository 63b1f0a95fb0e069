SPECIFICATION Spec
CONSTANTS
  m = m
  s1 = s1
  s2 = s2
  NoServer = NoServer
  Servers = {m, s1, s2}
  Trx = {t1, t2}
  OldMaster = m
  NewMaster = s2
  SlaveList <- MCSlaveList
  Confs <- DemoteConfs
  WaitsExpire = FALSE
  MaxCrashes = 0
INVARIANTS
  NoWriteLost
CHECK_DEADLOCK FALSE
