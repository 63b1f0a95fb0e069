SPECIFICATION FairSpec
CONSTANTS
  m = m
  s1 = s1
  s2 = s2
  s3 = s3
  NoServer = NoServer
  Servers = {m, s1, s2}
  Trx = {t1, t2}
  OldMaster = m
  SlaveList <- MCTwoSlaves
  Candidates <- MCCandidates
  Confs <- AllConfs
  MasterMayLive = TRUE
  WaitsExpire = TRUE
  MaxCrashes = 1
INVARIANTS
  TypeOK
  TopologyRebuilt
PROPERTIES
  Terminates
  Converges
CHECK_DEADLOCK FALSE
