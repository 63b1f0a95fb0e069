SPECIFICATION FairSpec
CONSTANTS
  c1 = c1
  c2 = c2
  m1 = m1
  s1 = s1
  s2 = s2
  NoServer = NoServer
  Instances = {c1, c2}
  Servers = {m1, s1, s2}
  Master = m1
  Confs <- AllConfs
  Discovers = TRUE
  StartsApart = TRUE
  Retries = 1
  MaxCrashes = 1
  MaxStarts = 2
INVARIANTS
  TypeOK
  AtMostOneActive
  ActiveIsRegistered
PROPERTIES
  FailsOverOwnSlaves
  FailoverHappens
CHECK_DEADLOCK FALSE
