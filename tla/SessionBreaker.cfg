CONSTANTS
  c1 = c1
  c2 = c2
  c3 = c3
  c4 = c4
  Call = {c1, c2, c3, c4}
  Threshold = 3
  ResetTimeout = 3
  Deadline = 2
SPECIFICATION FairSpec
INVARIANTS
  TypeOK
  HalfOpenWaits
  OneProbe
PROPERTIES
  Recovers
