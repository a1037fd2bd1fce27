SPECIFICATION Spec
CONSTANTS
  elsewhere = elsewhere
  here = here
  t1 = t1
  Scopes = {elsewhere, here}
  Turns = {t1}
  Visible <- Narrow
  Limit = 2
  MaxFacts = 3
  MaxFrames = 2
  MaxCrashes = 1
INVARIANTS
  CorrectionsStand
  OneBeliefOnScreen
  RecallsAreTrue
PROPERTIES
  NothingComesBack
CHECK_DEADLOCK FALSE
