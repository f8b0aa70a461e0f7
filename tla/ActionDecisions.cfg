CONSTANTS
  a1 = a1
  a2 = a2
  agent = agent
  gate = gate
  e1 = e1
  none = none
  Action = {a1, a2}
  Entity = {e1}
  Client = {agent, gate}
  Gates = {gate}
  Nothing = none
  Amounts = {1, 2}
  Limits = {0, 1}
  Cap = 2
  MaxTries = 3
SPECIFICATION Spec
SYMMETRY ActionSymmetry
INVARIANTS
  TypeOK
  CapHolds
  RefusedForGood
  RefusalStands
  RunsOnlyApproved
  ReportTrue
PROPERTY LegalTransitions
