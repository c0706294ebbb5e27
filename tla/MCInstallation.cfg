CONSTANTS
  Procs = {s1, s2}
  Hosts = {h1}
  Users = {root, clerk}
  Admins = {root}
  First = root
  Passwords = {pa, pb}
  Addresses = {here, there}
  Requests = {q1, q2}
  None = None
  NoOne = NoOne
  MaxFailures = 1
  KeyLimit = 1
  MaxWork = 4
  MaxSessions = 2
  MaxLaunches = 3
  MaxDeaths = 1
SPECIFICATION Spec
CONSTRAINT Budget
SYMMETRY Symmetry
INVARIANTS
  TypeOK
  KeyAgreement
  LonePairMatches
  NoOldSession
  SetupOnce
  GuessesBounded
  ShownSecretWorks
CHECK_DEADLOCK FALSE
