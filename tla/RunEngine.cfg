SPECIFICATION Spec
CONSTANTS
  Runs = {r1}
  Roles = {e1, e2}
  NStages = 3
  Pipelines <- ThreeStages
  Limits = {0, 1, 2}
  Costs = {0, 1}
  Cap = 1
  Width = 2
  SoftSpend = 1
SYMMETRY RoleSymmetry
INVARIANTS
  NothingHeldForSettledRuns
  LedgerExact
  PolicyPinned
PROPERTIES
  StagesStartWithinBudget
  KeepsPromise
