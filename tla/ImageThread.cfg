SPECIFICATION Spec
CONSTANTS
  NumSlots = 3
  ImageHeight = 10
  Stagger = 3
  NumNames = 5
  GarbageRows = {0, 10}
  EarlyFlush = 2
  LateFlush = 3
  MaxFailures = 1
CHECK_DEADLOCK FALSE
INVARIANTS TypeOK WholeImages AnnouncedServable
PROPERTIES AnnouncedInOrder RecentImagesStay FeedImplemented StaggeredFiles OutageSurvived ImagesKeepComing
