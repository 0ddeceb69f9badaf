CONSTANTS
  LastSegmentIndex = 4
  Reps = {0, 1}
  BDelays = {0, 1, 3, 5, 7}
  SegmentSize <- MCSegmentSize
  SegmentDuration = 3
SPECIFICATION ClientSpec
INVARIANTS
  TypeOK
  ExactlyOneRequest
  SegmentsConserved
  OnePlaybackClock
  OneDelay
  ReplyPerSegment
  UnderrunRegistered
  TimedTypeOK
  LevelNeverAhead
  LevelExact
  Gapless
  MarkIsGap
  DelayEndsFirst
PROPERTIES
  ImplementsSession
  ReceivedIsPlayed
  EndsUnlessStuck
CHECK_DEADLOCK FALSE
