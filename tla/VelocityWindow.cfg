SPECIFICATION Spec
CONSTANTS
  Window = 4
  Limit = 8
  Cooldown = 4
  Estimates = {3, 8}
  MaxTime = 13
  MaxForgotten = 2
INVARIANTS
  WithinThreeLimits
  CooldownOutlastsSpend
