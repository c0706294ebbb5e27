\* Every update arrives although a pass fails, the process crashes and
\* webhooks are not configured.
CONSTANTS
  Payments = {p1, p2}
  Merchants = {m1}
  Hooks = {}
  None = None
  Overlap = 1
  Backfill = 2
  Delay = 1
  Cap = 1
  Polls = TRUE
  Alarms = FALSE
  MaxTime = 3
  MaxUpdates = 3
  MaxFailures = 1
  MaxSwitches = 0
  MaxCrashes = 1
SPECIFICATION FairSpec
PROPERTIES
  EventuallyStored
