SPECIFICATION Spec
CONSTANTS
  c0 = c0  c1 = c1  c2 = c2  d0 = d0  d1 = d1
  None = None  Mixed = Mixed
  Content = {c0, c1}
  Empty = c0
  MaxRevision = 2
  Callers = {a1, bg}
  Background = bg
  Lives = {0, 1}  Boots = {0, 1}  Certs = {0, 1}
  FirstLive = 0  FirstBoot = 0  FirstCert = 0
  Discs = {d0}
  NoDisc = d0
  Unrenderable <- NoConflicts
  AzureEnabled = FALSE
  MaxFaults = 2
  MaxCrashes = 0
INVARIANTS
  Agreement
PROPERTIES
  ImportedRoutesLast
