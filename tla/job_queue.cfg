SPECIFICATION Spec
CONSTANTS
  j1 = j1
  j2 = j2
  j3 = j3
  j4 = j4
  w1 = w1
  w2 = w2
  m1 = m1
  m2 = m2
  None = None
  Jobs = {j1, j2, j3, j4}
  Workers = {w1, w2}
  MaxAttempts = 2
  MaxPerMinute = 1
  Batch = 4
  Priority <- Alike
  QueueSettings <- Adjustable
  Punctual = TRUE
  CrashProne = {w1, w2}
  Cancellable = {}
  Managers = {m1}
  SoleManager = TRUE
  MaxManualRetries = 1
CHECK_DEADLOCK FALSE
CONSTRAINT Extent
SYMMETRY Symmetry
INVARIANTS
  TypeOK
  SingleExecution
  LeasedIsRecoverable
  RetryBudget
PROPERTIES
  LeaseWithinLimit
  AttemptOutcomeFinal
  ImplementsLifecycle
