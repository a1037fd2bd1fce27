SPECIFICATION CallsSpec
CONSTANTS
  TopTier = 1
  Prices <- OnePrice
  Logged <- LoggedPrice
  Models <- ThreeModels
  TurnRequests <- OneRequest
  MaxRetries = 1
  MaxTrips = 3
PROPERTIES
  OffIsOff
  TurnEnds
CHECK_DEADLOCK FALSE
