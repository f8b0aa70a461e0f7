SPECIFICATION FairSpec
CONSTANTS
  e1 = e1
  e2 = e2
  r1 = r1
  r2 = r2
  r3 = r3
  NoSession = NoSession
  Entity <- OneEntity
  Request <- ThreeRequests
  Scopes <- OneScope
  Configs <- OutboxConfigs
  Backoff <- OneBackoff
  Session = {}
  Estimates = {1}
  Costs = {1}
  Seeds = {0}
  Starts = {0}
  OrgFlags = {TRUE}
  TTL = 2
  Soon = 1
  SessionTTL = 4
  MaxAttempts = 2
  LastCall = 3
  MaxRestarts = 1
INVARIANTS
  AlarmCoversHolds
PROPERTIES
  HoldsReleased
  OutboxSettles
