SPECIFICATION Spec
CONSTANTS
  c1 = c1
  c2 = c2
  m1 = m1
  s1 = s1
  s2 = s2
  NoServer = NoServer
  Instances = {c1, c2}
  Servers = {m1, s1, s2}
  Master = m1
  Confs <- ADaemon
  Discovers = FALSE
  StartsApart = TRUE
  Retries = 1
  MaxCrashes = 0
  MaxStarts = 1
PROPERTIES
  BlockedLeavesOthers
CHECK_DEADLOCK FALSE
