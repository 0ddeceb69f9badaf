CONSTANTS
  LastSegmentIndex = 3
  Reps = {0, 1}
  BDelays = {0}
  SegmentSize <- MCSegmentSize
SPECIFICATION Spec
INVARIANT
  EndsWithLastSegment
CHECK_DEADLOCK FALSE
