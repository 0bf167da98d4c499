SPECIFICATION Spec
CONSTANTS
  i1 = i1
  t1 = t1
  m1 = m1
  None = None
  Invoices = {i1}
  Sources = {s1}
  Requests = {r1, r2}
  Series = {"INV/2026"}
  Total <- TwoUnits
  Lines <- SharedSource
  Amounts = {1, 2}
  MaxVersions = 2
  Overlap = TRUE
  Transfers = {t1}
  Cashiers = {c1, c2}
  Users = {u1, u2}
  Pools = {m1, None}
  Pays <- PaysFirst
  Pool <- FromMatter
  Amount <- OneUnit
  require_separate_approver = TRUE
  MaxDeposits = 2
CHECK_DEADLOCK FALSE
SYMMETRY Symmetry
INVARIANTS
  TypeOK
  PaidIsReceived
  PaidInFull
  IndependentlyApproved
