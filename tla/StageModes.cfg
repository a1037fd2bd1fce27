SPECIFICATION FairSpec
CONSTANTS
  Roles <- Everybody
  StageSpecs <- AllStages
  Writers <- AllWriters
  Cap <- AllCap
  Width = 2
INVARIANTS
  TurnsAsTheEngineAssumes
  NobodyIsPassedOver
PROPERTIES
  HaltStopsTheStage
  StageReturns
CHECK_DEADLOCK FALSE
