SPECIFICATION Spec
CONSTANTS
  NumConns = 3
  PoolSize = 2
  MaxInFlight = 1
  Loads = {FALSE}
CHECK_DEADLOCK FALSE
PROPERTIES FeedReachesClients
