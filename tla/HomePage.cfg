SPECIFICATION PageSpec
CONSTANTS
  MaxAge = 3
  Wait = 2
  UUIDs = {u1, u2}
INVARIANTS PageTypeOK NeverBackwards AudibleIsShown
PROPERTIES UpdatesUntilFailure SpinnerKept
