CONSTANTS
  HighestRepIndex = 5
  AverageBitrate <- MCAverageBitrate
  SegmentDuration = 2
  FiveSeconds = 5
  Bandwidths = {1, 5, 10, 34, 120}
  SegmentBits <- MCSegmentBits
  MaxLevel = 40
  Sizes = {5, 12}
  Durations = {1, 5}
  IdleTimes = {0, 1, 6}
  m_windowSize = 2
  m_deltaTime_1 = 2
  m_deltaTime_2 = 6
  NoRate <- MCNoRate
  SegmentCount = 4
  ClientIds = {c1, c2}
  TbSizes = {1}
  IntervalTime = 2
  FewBlocks = 2
  SampleMax = 3
  BlockMax = 6
  ClockMax = 5
  DecisionMax = 3
  ReceptionMax = 5
SPECIFICATION DecisionSpec
INVARIANTS
  TypeOK
  IndexInRange
  DelayLeavesReserve
  BufferBounded
  EstimationTypeOK
  EstimatesAreMeans
  OrderedUnlessIdle
  NoPauseInTrace
  ScaleNotShortened
PROPERTY ReachesHighest
CHECK_DEADLOCK FALSE
