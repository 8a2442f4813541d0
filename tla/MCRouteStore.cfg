SPECIFICATION Spec
CONSTANTS
  l1 = l1  l2 = l2  p1 = p1  p2 = p2  r1 = r1  r2 = r2
  h1 = h1  h2 = h2  b1 = b1  root = root  sub = sub  n1 = n1  t1 = t1  t2 = t2  k1 = k1
  ListenerIDs <- MCListenerIDs
  PoolIDs <- MCPoolIDs
  RuleIDs <- MCRuleIDs
  Hosts = {h1, h2}
  Binds = {b1}
  Paths <- MCPaths
  PoolNames = {n1}
  Targets = {t1}
  Bundles <- MCBundles
  LegacyFiles <- MCLegacyFiles
  Callers = {k1}
  MaxRevision = 2
INVARIANTS
  Integrity
  RoutesCoherent
  FileLoadable
PROPERTIES
  ImplementsStagedStore
