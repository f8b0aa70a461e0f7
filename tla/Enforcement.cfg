CONSTANTS
  b1 = b1
  b2 = b2
  k1 = k1
  k2 = k2
  q1 = q1
  none = none
  Budget = {b1}
  Limits = {1}
  NoRow = none
  Call = {k1, k2}
  MaxTries = 2
  Request = {q1}
  PosMin = 1
  PosMax = 1
  NegTTL = 1
SPECIFICATION Spec
SYMMETRY Symmetry
INVARIANTS
  TypeOK
  RevocationBound
  SkipBound
  RejectsOnlyRevoked
  ConfirmedIsEnforced
  Enforced
