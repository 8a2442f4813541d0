SPECIFICATION MCSpec
CONSTANTS
  g1 = g1  g2 = g2  g3 = g3
  Gateways = {g1, g2, g3}
  DirOf <- MCDirOf
  Hosts <- MCHosts
  Configs <- MCConfigs
  PortOf <- MCPortOf
  MaxEdits = 1
  MaxApplies = 1
  MaxFaults = 1
INVARIANTS
  PassesSound
  IdentityExact
PROPERTIES
  RecordsSafe
  PassesConverge
