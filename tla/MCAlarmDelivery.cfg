\* Two drains, a crash and a lost answer: claims, leases and accounting.
CONSTANTS
  Payments = {p1, p2}
  Workers = {w1, w2}
  Admins = {a1}
  None = None
  Lease = 2
  RequestTimeout = 1
  Batch = 1
  Rounds = 1
  MaxTime = 2
  MaxEdits = 0
  MaxSaves = 2
  MaxUnsaved = 1
  MaxCrashes = 1
SPECIFICATION Spec
SYMMETRY Symmetry
INVARIANTS
  TypeOK
  ExclusiveDelivery
  RingsAccounted
PROPERTIES
  LedgerSpec
  RingsOnlyWhenOn
  NeverReplayed
