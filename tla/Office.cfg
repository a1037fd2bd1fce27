SPECIFICATION Spec
CONSTANTS
  Names = {a}
  Paths = {p0, p1}
  Runs = {r1, r2}
  Askers = {r1}
  Default = p0
  MaxSpend = 1
  MaxOpened = 2
  MaxCrashes = 1
INVARIANTS
  HeardIsDurable
  LedgersAddUp
PROPERTIES
  DecisionsStand
CHECK_DEADLOCK FALSE
