CONSTANTS
  Tasks = {t1, t2}
  Accounts = {a1, a2}
  Hosts = {h1, h2}
  Consoles = {c1, c2}
  Cameras = {1, 2}
  None = None
  KeptStates = 1
  MaxReplaced = 1
  MaxRequests = 4
SPECIFICATION Spec
SYMMETRY Symmetry
INVARIANTS
  TypeOK
  OwnData
PROPERTIES
  SwitchConfirmed
CHECK_DEADLOCK FALSE
