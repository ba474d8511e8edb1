SPECIFICATION Spec
CONSTANTS
  Threads = {t1, t2}
  MaxAge = 2
SYMMETRY MCSymmetry
CHECK_DEADLOCK FALSE
INVARIANTS TypeOK AnnouncedHonest
