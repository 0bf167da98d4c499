SPECIFICATION Spec
CONSTANTS
  i1 = i1
  t1 = t1
  m1 = m1
  None = None
  Invoices = {i1, i2}
  Sources = {s1}
  Requests = {r1}
  Series = {"INV/2026", "INV/2027"}
  Total <- TwoUnits
  Lines <- SharedSource
  Amounts = {1, 2}
  MaxVersions = 2
  Overlap = FALSE
  Transfers = {t1, t2}
  Cashiers = {c1}
  Users = {u1, u2}
  Pools = {m1, None}
  Pays <- PaysFirst
  Pool <- FromMatter
  Amount <- OneUnit
  require_separate_approver = TRUE
  MaxDeposits = 2
CHECK_DEADLOCK FALSE
SYMMETRY Symmetry
INVARIANTS
  LedgerAgrees
  PostedOnce
  NextNumberFree
  MatterNotOverdrawn
