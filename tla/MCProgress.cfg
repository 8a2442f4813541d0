SPECIFICATION FairSpec
CONSTANTS
  c0 = c0  c1 = c1  c2 = c2  d0 = d0  d1 = d1
  None = None  Mixed = Mixed
  Content = {c0, c1}
  Empty = c0
  MaxRevision = 1
  Callers = {a1, bg}
  Background = bg
  Lives = {0}  Boots = {0}  Certs = {0}
  FirstLive = 0  FirstBoot = 0  FirstCert = 0
  Discs = {d0, d1}
  NoDisc = d0
  Unrenderable <- OneConflict
  AzureEnabled = TRUE
  MaxFaults = 2
  MaxCrashes = 0
PROPERTIES
  RequestsReturn
  StateRepaired
