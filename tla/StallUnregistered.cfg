CONSTANTS
  LastSegmentIndex = 2
  Reps = {0, 1}
  BDelays = {0, 1}
  SegmentSize <- MCSegmentSize
SPECIFICATION Spec
INVARIANT
  StallRegistered
CHECK_DEADLOCK FALSE
