CONSTANTS
  LastSegmentIndex = 3
  Reps = {0, 1}
  BDelays = {0, 1}
  SegmentSize <- MCSegmentSize
  Client = client
  SndBufSize = 2
SPECIFICATION FairSystemSpec
INVARIANTS
  ClientServerBalance
PROPERTY
  SegmentArrives
CHECK_DEADLOCK FALSE
