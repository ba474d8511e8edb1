SPECIFICATION Spec
CONSTANTS
  sampleCnt = 10400
  filterLengthOne = 33
  filterLengthTwo = 33
  stageOneDecimation = 40
  stageTwoDecimation = 10
  sample_rate = 17640000
  MaxRate = 1
  Word = 768
  MaxBlocks = 17
  Horizon = 16
  Block = 8
  Window = 18
  Hop = 9
  Carried = 1
  Size = 26
  MaxAge = 14
CHECK_DEADLOCK FALSE
INVARIANTS TypeOK AudioContinuous HeaderCovers RowsFromSamples
PROPERTIES OldHalfStays
