SPECIFICATION Spec
CONSTANTS
  Asks = {a1}
  MaxQueue = 2
  ReplayLimit = 3
  MaxTyped = 2
  MaxDrops = 1
  MaxRestarts = 1
  MaxClicks = 1
  MaxDetails = 1
INVARIANTS
  RunInStep
  PromptsInStep
  CommandsInOrder
CHECK_DEADLOCK FALSE
