SPECIFICATION DtSpec
CONSTANTS
  tA = tA
  tB = tB
  Tables = {tA, tB}
  MaxHistory = 2
  NoPoint = NoPoint
  CpConfs <- MCCpConfs
  s1 = s1
  s2 = s2
  PurgeSlaves = {s1, s2}
  MaxLog = 4
  Wrap = 9
  BlConfs <- MCBlConfs
  h1 = h1
  h2 = h2
  h3 = h3
  h4 = h4
  TmHosts = {h1, h2, h3, h4}
  NoHost = NoHost
  TmSeed = h1
  TmListings <- MCTmListings
  TmConfs <- MCTmConfs
  v1 = v1
  v2 = v2
  v3 = v3
  VoViews <- MCVoViews
  VoDefinitions <- MCVoDefinitions
  IxTables <- MCIxTables
  IxText <- MCIxText
  ImFiles <- MCImFiles
  ImConfs <- MCImConfs
  MaxBulkInsert = 2
  MaxBulkValues = 3
  PacketRoom = 4
  key1 = key1
  key2 = key2
  key3 = key3
  valA = valA
  valB = valB
  valC = valC
  NoRow = NoRow
  DcKeys <- MCDcKeys
  DcValues = {valA, valB, valC}
  Sign <- MCSign
  SpanOf <- MCSpanOf
  Spans <- MCSpans
  DcStarts <- MCDcStarts
  DcConfs <- MCDcConfs
  MaxWrites = 1
INVARIANTS
  TypeOK
  TablesFromOnePoint
  LockedExportIsExact
  ActiveLogStays
  IndexMatchesFiles
  NeededLogsKept
  TopologyMapped
  BasesFirst
  CoverKept
  ImportedInOrder
  DiffMakesEqual
CHECK_DEADLOCK FALSE
