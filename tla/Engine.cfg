CONSTANTS
  p1 = p1  p2 = p2  r1 = r1  r2 = r2  s1 = s1
  NoLoad = NoLoad  None = None  NoCall = NoCall
  Procs = {p1, p2}
  Revisions = {r1, r2}
  ApproximateBytes <- MCBytes
  MaxEntries = 2
  MaxBytes = 3
  LoadIds = {1, 2}
  Slots = {s1}
  MaxCallsPerPort = 1
  MaxGeneration = 2
  MaxData = 1
  MaxLeaving = 1
  Workloads <- MCWorkloads
SPECIFICATION Spec
INVARIANTS ResourcesHeldExactly SessionsArePinned LoadsAreShared
PROPERTY CancelledCallsReturn
