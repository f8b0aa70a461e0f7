SPECIFICATION Spec
CONSTANTS
  e1 = e1
  e2 = e2
  r1 = r1
  r2 = r2
  w1 = w1
  w2 = w2
  Nobody = Nobody
  Request <- TwoRequests
  Entity <- OneEntity
  Worker <- BothWorkers
  Keys <- OneCovered
  OrgLess = {}
  VolatileRows = {}
  MaxDeliveries = 2
  MaxAttempts = 2
  MaxEvictions = 1
  DoubtfulSends = {}
PROPERTIES
  DeadLetterReconciles
