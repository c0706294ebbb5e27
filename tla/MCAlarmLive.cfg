\* Fair drains and a fair endpoint settle every pending sale, whatever two
\* administrators save meanwhile.
CONSTANTS
  Payments = {p1, p2}
  Workers = {w1}
  Admins = {a1, a2}
  None = None
  Lease = 2
  RequestTimeout = 1
  Batch = 1
  Rounds = 2
  MaxTime = 1
  MaxEdits = 1
  MaxSaves = 1
  MaxUnsaved = 0
  MaxCrashes = 1
SPECIFICATION FairSpec
INVARIANTS
  EnabledHasBoundary
PROPERTIES
  PendingIsSettled
