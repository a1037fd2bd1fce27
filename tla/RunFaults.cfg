SPECIFICATION FairSpec
CONSTANTS
  Runs = {r1}
  Roles = {e1, e2}
  NStages = 2
  Pipelines <- TwoStages
  Limits = {2}
  Costs = {1}
  Cap = 1
  Width = 2
  SoftSpend = 1
  MaxFailures = 2
INVARIANTS
  OnlyTornStagesAreAbandoned
PROPERTIES
  EveryRunSettles
  EveryWaiterHears
CHECK_DEADLOCK FALSE
