SPECIFICATION Spec
CONSTANTS
  NumConns = 3
  Address <- MCAddress
  PoolSize = 3
  Limit = 21
  Load = 3
  MaxInFlight = 1
  Calm = FALSE
  Patient = FALSE
CHECK_DEADLOCK FALSE
PROPERTIES FeedReachesClients
