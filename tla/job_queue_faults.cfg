SPECIFICATION Spec
CONSTANTS
  j1 = j1
  j2 = j2
  j3 = j3
  j4 = j4
  w1 = w1
  w2 = w2
  m1 = m1
  m2 = m2
  None = None
  Jobs = {j1, j2, j3}
  Workers = {w1, w2}
  MaxAttempts = 1
  MaxPerMinute = 1
  Batch = 2
  Priority <- FirstFirst
  QueueSettings <- OneAtATime
  Punctual = FALSE
  CrashProne = {}
  Cancellable = {j1}
  Managers = {m1}
  SoleManager = FALSE
  MaxManualRetries = 0
SYMMETRY SymmetryButJ1
CHECK_DEADLOCK FALSE
INVARIANTS
  AttemptLedger
  DependenciesHonoured
