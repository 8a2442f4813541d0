SPECIFICATION StoreSpec
CONSTANTS
  c0 = c0  c1 = c1  c2 = c2  k1 = k1  k2 = k2
  Content = {c0, c1, c2}
  Empty = c0
  Callers = {k1, k2}
  MaxRevision = 4
SYMMETRY Interchangeable
INVARIANTS
  Durable
  PendingExact
  SnapshotsSound
PROPERTIES
  AppliedMonotone
