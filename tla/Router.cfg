SPECIFICATION RoutingSpec
CONSTANTS
  TopTier = 2
  Prices <- ThreePrices
  Logged <- LoggedPrices
  Catalogues <- ThreeModels
  Requests <- SomeRequests
INVARIANTS
  UnratedAsBefore
  RulesKeepTheTier
CHECK_DEADLOCK FALSE
