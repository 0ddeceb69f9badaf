CONSTANTS
  LastSegmentIndex = 1
  Reps = {0, 1}
  BDelays = {0}
  SegmentSize <- MCSegmentSize
SPECIFICATION FairSpec
PROPERTY
  SessionCloses
CHECK_DEADLOCK FALSE
