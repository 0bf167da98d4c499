SPECIFICATION FairSpec
CONSTANTS
  j1 = j1
  j2 = j2
  j3 = j3
  j4 = j4
  w1 = w1
  w2 = w2
  m1 = m1
  m2 = m2
  None = None
  Jobs = {j1, j2}
  Workers = {w1, w2}
  MaxAttempts = 2
  MaxPerMinute = 1
  Batch = 2
  Priority <- Alike
  QueueSettings <- OneAtATime
  Punctual = TRUE
  CrashProne = {w1}
  Cancellable = {}
  Managers = {m1}
  SoleManager = TRUE
  MaxManualRetries = 0
CHECK_DEADLOCK FALSE
PROPERTIES
  EveryJobEnds
  DependentsEnd
