\* Passes that overlap webhooks, a switch, a failure and a crash.
CONSTANTS
  Payments = {p1, p2}
  Merchants = {m1, m2}
  Hooks = {h1}
  None = None
  Overlap = 1
  Backfill = 2
  Delay = 1
  Cap = 1
  Polls = TRUE
  Alarms = FALSE
  MaxTime = 3
  MaxUpdates = 3
  MaxFailures = 1
  MaxSwitches = 1
  MaxCrashes = 0
SPECIFICATION Spec
SYMMETRY Symmetry
INVARIANTS
  TypeOK
  NothingMissed
  OneAccount
  ReceiptsTookEffect
PROPERTIES
  NeverBackwards
