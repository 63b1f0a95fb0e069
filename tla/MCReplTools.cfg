SPECIFICATION RtSpec
CONSTANTS
  r1 = r1
  r2 = r2
  SyncSlaves <- MCSyncSlaves
  MaxTrx = 3
  TableTrx = {2, 3}
  Former = 1
  SyncConfs <- MCSyncConfs
  RplTimeout = 1
  MaxChecks = 2
  Nothing = Nothing
  a = a
  b = b
  Masters <- MCMasters
  NoMaster = NoMaster
  MsTrx = 2
  SetupTries = 1
  MsConfs <- MCMsConfs
  x = x
  y = y
  z = z
  uo = uo
  um = um
  EtSlaves <- MCEtSlaves
  Uuids <- MCUuids
  MasterUuid = um
  MaxSeq = 2
  EtStarts <- MCEtStarts
  EtGiven <- MCEtGiven
  DryRuns = {TRUE, FALSE}
  GsUuids = {uo, um}
  GsMax = 4
  GsStarts <- MCGsStarts
INVARIANTS
  TypeOK
  NoFalseDiff
  NothingLeftBehind
  NoGaps
  SkippedOnAll
  FoundUntilSkipped
  SyncPointIsUnion
PROPERTIES
  TableReleased
  EveryMasterReplicated
CHECK_DEADLOCK FALSE
