\* Two browsers, each with an editor; two sales in the database, which the filter finds,
\* and a third to come.  A filter finds a tag or a note.
CONSTANTS
  Sales = {1, 2, 3}
  Known = {1, 2}
  KnownTag = tip
  Tags = {paid, tip}
  Notes = {empty, tip}
  Filters = {all, tip}
  Everything = all
  Readers = {r1, r2}
  None = None
  PageSize = 1
  MaxSnapshots = 2
  Empty = empty
  MaxTime = 2
  MaxSteps = 2
SPECIFICATION Spec
INVARIANTS
  TypeOK
  PagesExact
PROPERTIES
  NoUnseenOverwrite
  ReadersFinish
CHECK_DEADLOCK FALSE
