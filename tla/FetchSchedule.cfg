SPECIFICATION Spec
CONSTANTS
  RecordTime = 11
  MaxBusy = 14
  MayFail = TRUE
  Start = 7125
  Horizon = 7230
CHECK_DEADLOCK FALSE
INVARIANTS TypeOK LabelIsClose
PROPERTIES LabelsNeverGoBack EverySlot
