\* Two processes, two requests of the first, two migrations; a tick is 5 s.
SPECIFICATION FairSpec
CONSTANTS
  s1 = s1
  s2 = s2
  h1 = h1
  h2 = h2
  Null = Null
  Servers = {s1, s2}
  Handlers = {h1, h2}
  Home <- OnFirst
  Configs <- SomeConfigs
  IntHalf = 4
  LastVersion = 2
  Grace = 2
  SnapshotTimeout = 1
  MaxFaults = 2
INVARIANTS
  TypeOK
  ServesMigrated
  GracefulStop
  SnapshotsOutliveStop
PROPERTIES
  StopEnds
  ConnectionComes
  StartServes
