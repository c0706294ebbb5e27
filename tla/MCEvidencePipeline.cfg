\* One payment, two workers: takeovers, edits, retirement, switches, a crash.
CONSTANTS
  Payments = {p1}
  Workers = {w1, w2}
  Cameras = {c1, c2}
  Sources = {till}
  Anywhere = Anywhere
  Moments = {1, 2}
  Names = {f1, f2, f3}
  None = None
  Lost = Lost
  Batch = 1
  MaxChanges = 3
  MaxCrashes = 1
SPECIFICATION Spec
SYMMETRY Symmetry
INVARIANTS
  TypeOK
  PicturesMatch
  QueueExact
  NoStrayFiles
PROPERTIES
  RetiredForGood
  DeletesOnlyUnused
