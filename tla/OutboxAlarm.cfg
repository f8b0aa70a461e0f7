SPECIFICATION Spec
CONSTANTS
  e1 = e1
  e2 = e2
  r1 = r1
  r2 = r2
  r3 = r3
  NoSession = NoSession
  Entity <- OneEntity
  Request <- TwoRequests
  Scopes <- OneScope
  Configs <- OutboxSessionConfigs
  Backoff <- OneBackoff
  Session = {s1}
  Estimates = {1}
  Costs = {1}
  Seeds = {0}
  Starts = {0}
  OrgFlags = {TRUE}
  TTL = 2
  Soon = 1
  SessionTTL = 10
  MaxAttempts = 2
  LastCall = 4
  MaxRestarts = 0
SYMMETRY RequestSymmetry
INVARIANTS
  OutboxAlarmSoon
