SPECIFICATION Spec
CONSTANTS
  j1 = j1
  j2 = j2
  j3 = j3
  j4 = j4
  w1 = w1
  w2 = w2
  m1 = m1
  m2 = m2
  None = None
  Jobs = {j1}
  Workers = {w1, w2}
  MaxAttempts = 1
  MaxPerMinute = 4
  Batch = 1
  Priority <- Alike
  QueueSettings <- OneAtATime
  Punctual = TRUE
  CrashProne = {}
  Cancellable = {}
  Managers = {m1, m2}
  SoleManager = FALSE
  MaxManualRetries = 2
CHECK_DEADLOCK FALSE
PROPERTY
  NoLiveJobRetried
