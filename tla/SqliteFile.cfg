CONSTANTS
  a = a
  b = b
  Procs = {a, b}
  Queries = {q1, q2}
  Workloads <- MCWorkloads
  Keys = {k1, k2}
  NoKey = NoKey
  EmbeddedMigrations = 1
  MaxVersion = 1
  MaxCrashes = 2
SPECIFICATION Spec
INVARIANTS
  MaintenanceIsAlone
  MigrationIsAtomic
  ExportsAreWhole
PROPERTY CallsEnd
