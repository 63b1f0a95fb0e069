SPECIFICATION Spec
CONSTANTS
  m = m
  s1 = s1
  s2 = s2
  s3 = s3
  NoServer = NoServer
  Servers = {m, s1, s2, s3}
  Trx = {t1, t2}
  OldMaster = m
  SlaveList <- MCSlaveList
  Candidates <- NoCandidates
  Confs <- PlainConfs
  MasterMayLive = FALSE
  WaitsExpire = TRUE
  MaxCrashes = 1
INVARIANTS
  CandidateIsBest
CHECK_DEADLOCK FALSE
