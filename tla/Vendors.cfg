SPECIFICATION Spec
CONSTANTS
  Turns = {t1, t2}
  Askers = {t1}
INVARIANTS
  OneAtATime
  AgentsGoWithTheirTurn
  OutcomeTellsWhy
PROPERTY
  EngagementsEnd
CHECK_DEADLOCK FALSE
