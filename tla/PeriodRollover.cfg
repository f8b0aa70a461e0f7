SPECIFICATION SpecSteady
CONSTANTS
  e1 = e1
  e2 = e2
  r1 = r1
  r2 = r2
  r3 = r3
  NoSession = NoSession
  Entity <- BothEntities
  Request <- TwoRequests
  Scopes <- BothScopes
  Configs <- PeriodicConfigs
  Backoff <- OneBackoff
  Session = {}
  Estimates = {2}
  Costs = {2}
  Seeds = {0}
  Starts = {1}
  OrgFlags = {FALSE}
  TTL = 2
  Soon = 1
  SessionTTL = 4
  MaxAttempts = 2
  LastCall = 4
  MaxRestarts = 0
SYMMETRY RequestSymmetry
INVARIANTS
  NoOverdraft
