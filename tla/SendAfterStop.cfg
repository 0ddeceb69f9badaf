CONSTANTS
  LastSegmentIndex = 3
  Reps = {0, 1}
  BDelays = {0, 1}
  SegmentSize <- MCSegmentSize
SPECIFICATION Spec
INVARIANT
  ClosedSocketEndsSession
CHECK_DEADLOCK FALSE
