SPECIFICATION Spec
CONSTANTS
  e1 = e1
  e2 = e2
  r1 = r1
  r2 = r2
  r3 = r3
  NoSession = NoSession
  Entity <- BothEntities
  Request <- TwoRequests
  Scopes <- BothScopes
  Configs <- LimitedConfigs
  Backoff <- OneBackoff
  Session = {}
  Estimates = {2}
  Costs = {0, 3}
  Seeds = {0}
  Starts = {1}
  OrgFlags = {TRUE}
  TTL = 2
  Soon = 1
  SessionTTL = 4
  MaxAttempts = 2
  LastCall = 3
  MaxRestarts = 0
SYMMETRY RequestSymmetry
INVARIANTS
  TypeOK
  NoLeakedHold
  BookedOnce
  NothingAdmittedWhileTripped
PROPERTIES
  FollowsLifecycle
