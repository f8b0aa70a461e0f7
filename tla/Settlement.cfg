SPECIFICATION FairSpec
CONSTANTS
  e1 = e1
  e2 = e2
  r1 = r1
  r2 = r2
  w1 = w1
  w2 = w2
  Nobody = Nobody
  Request <- TwoRequests
  Entity <- BothEntities
  Worker <- BothWorkers
  Keys <- Overlapping
  OrgLess = {}
  VolatileRows = {e2}
  MaxDeliveries = 2
  MaxAttempts = 2
  MaxEvictions = 1
  DoubtfulSends = {r2}
INVARIANTS
  TypeOK
  ChargedOnce
  OnlySettledCharged
  SettledIsCharged
PROPERTIES
  SettledReachesPostgres
CHECK_DEADLOCK FALSE
