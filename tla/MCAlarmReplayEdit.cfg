\* A refund after enabling is the first update seen of a sale completed before.
CONSTANTS
  Payments = {p1}
  Workers = {w1}
  Admins = {a1}
  None = None
  Lease = 2
  RequestTimeout = 1
  Batch = 1
  Rounds = 1
  MaxTime = 4
  MaxEdits = 1
  MaxSaves = 3
  MaxUnsaved = 1
  MaxCrashes = 0
SPECIFICATION Spec
PROPERTIES
  NeverReplayed
