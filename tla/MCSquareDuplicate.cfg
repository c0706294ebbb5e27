\* With the poller disabled, a trigger fails and a duplicate is delivered.
CONSTANTS
  Payments = {p1}
  Merchants = {m1}
  Hooks = {h1}
  None = None
  Overlap = 1
  Backfill = 2
  Delay = 1
  Cap = 1
  Polls = FALSE
  Alarms = TRUE
  MaxTime = 2
  MaxUpdates = 2
  MaxFailures = 1
  MaxSwitches = 0
  MaxCrashes = 0
SPECIFICATION FairSpec
PROPERTIES
  DuplicateRetriesAlarm
