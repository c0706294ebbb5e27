\* One worker under fairness: every wanted picture is captured in the end.  One
\* change is the first mapping, the other may leave a file behind, the crash one
\* more: four names leave one for each payment.
CONSTANTS
  Payments = {p1, p2}
  Workers = {w1}
  Cameras = {c1}
  Sources = {till}
  Anywhere = Anywhere
  Moments = {1}
  Names = {f1, f2, f3, f4}
  None = None
  Lost = Lost
  Batch = 2
  MaxChanges = 2
  MaxCrashes = 1
SPECIFICATION FairSpec
PROPERTIES
  EventuallyCaptured
