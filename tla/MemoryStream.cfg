CONSTANTS
  p1 = p1  p2 = p2  p3 = p3  r1 = r1  r2 = r2  m1 = m1  m2 = m2  s1 = s1  k1 = k1  k2 = k2
  Nil = Nil
  Nobody = Nobody
  Procs = {p1, p2}
  RevisionIds = {r1, r2}
  Metadata = {m1, m2}
  Slots = {s1}
  IdempotencyKeys = {k1, k2}
  Paths <- MCPaths
  Times = {1, 3}
  MaxUint64 = 4
  HistoryRetention = 2
  EventRetention = 1
  EventRetentionLimit = 2
  Requests <- StreamRequests
SPECIFICATION Spec
SYMMETRY Symmetry
INVARIANTS TypeOK HistoryIsSuffix StreamContiguous PagesHaveNoGap
PROPERTIES ImplementsLocalStore
