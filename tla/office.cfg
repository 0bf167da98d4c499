SPECIFICATION OfficeSpec
CONSTANTS
  None = None
  Focuses = {"audit", "members", "sign-ins", "legal data", "holds", "versions", "envelopes", "backups", "intake", "sweeps", "documents", "knowledge"}
  NoWriter = NoWriter
  Writers = {w1, w2, w3}
  FlushesFirst = {w1}
  Founder = o1
  Memberships = {o1, o2, o3}
  Updates = {r1}
  Logins = {r1, r2}
  SessionIds = {k1, k2, k3, k4}
  max_concurrent_sessions = 2
  s1 = s1
  s2 = s2
  x1 = x1
  x2 = x2
  Statutes = {s1, s2}
  Texts = {x1, x2}
  Manifests <- Feed
  Ingestions = {r1, r2}
  Importers = {r1}
  Managers = {r1}
  Releases = {p1, p2}
  MaxRuns = 2
  m1 = m1
  d1 = d1
  d2 = d2
  Matters = {m1, m2}
  HoldIds = {h1, h2}
  Deletions = {d1, d2}
  Desks = {r1, r2}
  resource_matter <- MatterOf
  u1 = u1
  u2 = u2
  u3 = u3
  f1 = f1
  f2 = f2
  Uploaders = {u1, u2, u3}
  Files = {x1, x2}
  FileNames = {f1, f2}
  filename <- NameOf
  MaxNumber = 2
  Signers = {s1, s2}
  Clerks = {r1}
  Deliveries = {r1, r2}
  Attempts = {1, 2}
  Events = {"created", "sent", "completed"}
  BackupWorkers = {w1, w2}
  Verifiers = {r1}
  MaxBackupRuns = 3
  MaxBackupLimit = 2
  retention_days = 1
  LastDay = 3
  Leads = {d1}
  ClientIds = {m1}
  KYCRecords = {k1}
  MaxChecks = 2
  Sweepers = {r1, r2}
  Deadlines = {d1}
  ManualTasks = {d2}
  MaxLevel = 2
  Docs = {d1, d2}
  Contents = {f1, f2}
  contents <- ContentsOf
  Extracts = {x1, x2}
  Callers = {r1, r2}
  Readers = {r1, r2}
  Bodies = {x1, x2}
  MaxVersions = 2
CHECK_DEADLOCK FALSE
CONSTRAINT Extent
INVARIANTS
  OfficeTypeOK
  ChainIntact
  OwnerUnlessInvited
  SessionLimit
  OneActiveRelease
  ChangeIsRecorded
  BlockNamesItsHold
  VersionsImmutable
  CompletedWhenSigned
  FollowsProvider
  NewestRestorable
  FilesOfSuccessful
  GatesAgree
  SweptOnce
  StoredFileThere
  ReadyIsExtracted
  IndexedExist
  HistoryAgrees
PROPERTIES
  RequestsEnd
  HeldOrFinalStays
  ReviewedBeforeActivation
