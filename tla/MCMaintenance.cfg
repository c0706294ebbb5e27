\* Policies saved and runs asked for while runs are under way, around a crash.
CONSTANTS
  Payments = {p1}
  Admins = {u1}
  Startup = Startup
  Qualities = {"small"}
  Runners = {r1, r2}
  MaxSaves = 2
  MaxPictures = 2
  MaxCrashes = 1
SPECIFICATION FairSpec
INVARIANTS
  TypeOK
  SingleRunner
  StatusHonest
PROPERTIES
  PolicyInForce
  RequestsServed
