CONSTANTS
  N = 4
  Event <- MCEvent
  Keyed = {3}
  Key <- MCEvent
  BatchSize = 1
  MaxQueue = 2
  MaxTries = 2
  Unlucky = {2}
SPECIFICATION FairSpec
CHECK_DEADLOCK FALSE
INVARIANTS
  TypeOK
  NothingVanishes
  StoredOnce
PROPERTIES
  KeepsPromise
  ShutdownReturnsAtLast
