CONSTANTS
  HighestRepIndex = 5
  AverageBitrate <- MCAverageBitrate
  SegmentDuration = 2
  FiveSeconds = 5
  Bandwidths = {1, 5, 10, 34, 120}
  SegmentBits <- MCSegmentBits
  MaxLevel = 40
SPECIFICATION Spec
INVARIANT ReplyIsRepresentation
CHECK_DEADLOCK FALSE
