SPECIFICATION ServerSpec
CONSTANTS
  NumConns = 4
  Address <- MCAddress
  PoolSize = 4
  Limit = 0
  Load = 3
  MaxInFlight = 1
  Calm = TRUE
  Patient = TRUE
CHECK_DEADLOCK FALSE
INVARIANTS ServerTypeOK CounterExact WellDefined
PROPERTIES QueueMovesWhileUp LeaversLeaveWhileUp FeedReachesClientsWhileUp StopCompletes
