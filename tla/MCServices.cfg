SPECIFICATION ServicesSpec
CONSTANTS
  stdout = stdout  stderr = stderr
  Writers = {stdout, stderr}
  Limit = 3
  ByteLimit = 5
  MaxLine = 2
  PartLengths = {0, 1, 2}
  EntrySizes = {1, 3, 6}
  Requests = {w1, w2}
  Lengths <- MCLengths
  BlockSize = 2
  MaxLineSize = 4
  Limits <- MCLimits
  DefaultLimit = 1
  MaxLimit = 2
  MaxEvents = 3
  MaxTears = 2
  RouteLists <- MCRouteLists
  maxConcurrentChecks = 2
  Probes = {p1, p2}
INVARIANTS
  LogExact
  ReadExact
  DamageContained
  StatusHonest
  ExitsHonest
PROPERTIES
  ImplementsBoundedLog
  CheckReturns
  ReadyzHonest
  ExitNoticed
CHECK_DEADLOCK FALSE
