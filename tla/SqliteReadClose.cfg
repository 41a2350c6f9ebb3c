CONSTANTS
  p1 = p1  p2 = p2  p3 = p3  r1 = r1  r2 = r2  m1 = m1  m2 = m2  s1 = s1  k1 = k1  k2 = k2
  Nil = Nil
  Nobody = Nobody
  Procs = {p1, p2}
  QueueCapacity = 2
  MaxReaders = 1
  RevisionIds = {r1}
  Metadata = {m1}
  Slots = {s1}
  IdempotencyKeys = {k1, k2}
  Paths <- MCPaths
  Times = {1}
  MaxUint64 = 3
  HistoryRetention = 2
  EventRetention = 5
  EventRetentionLimit = 5
  BackupEventRetention = 1
  BackupBacklogLimit = 2
  Requests <- GenerationRequests
SPECIFICATION Spec
SYMMETRY Symmetry
INVARIANT ReadsNeverPanic
