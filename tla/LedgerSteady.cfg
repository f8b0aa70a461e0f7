SPECIFICATION SpecSteady
CONSTANTS
  e1 = e1
  e2 = e2
  r1 = r1
  r2 = r2
  r3 = r3
  NoSession = NoSession
  Entity <- BothEntities
  Request <- ThreeRequests
  Scopes <- BothScopes
  Configs <- SteadyConfigs
  Backoff <- OneBackoff
  Session = {s1}
  Estimates = {1, 2}
  Costs = {0, 1}
  Seeds = {0, 1}
  Starts = {0}
  OrgFlags = {FALSE}
  TTL = 2
  Soon = 1
  SessionTTL = 2
  MaxAttempts = 2
  LastCall = 3
  MaxRestarts = 0
SYMMETRY RequestSymmetry
INVARIANTS
  HoldsExact
  NoOverdraft
  SessionTotals
