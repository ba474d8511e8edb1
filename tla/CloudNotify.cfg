SPECIFICATION Spec
CONSTANTS
  NumConns = 3
  PoolSize = 2
  MaxInFlight = 1
  Loads = {TRUE, FALSE}
CHECK_DEADLOCK FALSE
INVARIANTS TypeOK WellDefined EntryPerThread
PROPERTIES ClosesComplete CalmFeedReachesClients
