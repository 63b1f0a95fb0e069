SPECIFICATION FairSpec
CONSTANTS
  m = m
  s1 = s1
  s2 = s2
  NoServer = NoServer
  Servers = {m, s1, s2}
  Trx = {t1, t2}
  OldMaster = m
  NewMaster = s2
  SlaveList <- MCSlaveList
  Confs <- AllConfs
  WaitsExpire = TRUE
  MaxCrashes = 1
INVARIANTS
  TypeOK
  TopologySwitched
  SnapshotIsFinal
  SlavesCaughtUp
  NoReplicationCycle
PROPERTIES
  Terminates
  Converges
CHECK_DEADLOCK FALSE
