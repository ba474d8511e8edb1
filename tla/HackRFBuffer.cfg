SPECIFICATION Spec
CONSTANTS
  Threshold = 5
  Block = 3
  Lengths <- MCLengths
CHECK_DEADLOCK FALSE
INVARIANTS TypeOK FreshTail
PROPERTIES BlocksKeepComing
