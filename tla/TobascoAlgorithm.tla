------------------------- MODULE TobascoAlgorithm --------------------------
(***************************************************************************)
(* TobascoAlgorithm::GetNextRep: a fast start that climbs while the buffer *)
(* grows, and then a choice by the buffer level.                           *)
(***************************************************************************)
EXTENDS AdaptationAlgorithm

VARIABLE m_runningFastStart

bMin == 2 * FiveSeconds
bLow == 3 * FiveSeconds
bHigh == 5 * FiveSeconds
bOpt == 4 * FiveSeconds
TobascoUpperbound == 8 * FiveSeconds

NextHighestRepBitrate ==
  AverageBitrate[IF m_lastRepIndex # HighestRepIndex THEN m_lastRepIndex + 1 ELSE m_lastRepIndex]

\* Mutant: the fast start may climb beyond the highest representation.
FastStartUncapped(bufferNow, bandwidth) ==
  /\ m_runningFastStart
  /\ bufferNow >= bufferLevel
  /\ segmentCounter >= 3 => AtMost(AverageBitrate[m_lastRepIndex], 85, bandwidth)

FastStart(bufferNow, bandwidth) ==
  /\ m_runningFastStart
  /\ m_lastRepIndex # HighestRepIndex
  /\ bufferNow >= bufferLevel
  /\ segmentCounter >= 3 => AtMost(AverageBitrate[m_lastRepIndex], 85, bandwidth)

FastRep(bufferNow, bandwidth) ==
  LET percent == IF bufferNow < bMin THEN 33 ELSE IF bufferNow < bLow THEN 50 ELSE 75
  IN  m_lastRepIndex + IF AtMost(NextHighestRepBitrate, percent, bandwidth) THEN 1 ELSE 0

\* Mutant: the comparison is the wrong way round.
SaturatedSwapped(bandwidth) ==
  m_lastRepIndex = HighestRepIndex \/ 100 * NextHighestRepBitrate <= 90 * bandwidth

Saturated(bandwidth) ==
  m_lastRepIndex = HighestRepIndex \/ 100 * NextHighestRepBitrate >= 90 * bandwidth

SlowRep(bufferNow, bandwidth, lastThroughput) ==
  CASE bufferNow < bMin -> 0
    [] bufferNow \in bMin .. bLow - 1 ->
         IF m_lastRepIndex # 0 /\ AverageBitrate[m_lastRepIndex] >= lastThroughput
         THEN m_lastRepIndex - 1 ELSE m_lastRepIndex
    [] bufferNow \in bLow .. bHigh - 1 -> m_lastRepIndex
    [] bufferNow >= bHigh ->
         IF Saturated(bandwidth) THEN m_lastRepIndex ELSE m_lastRepIndex + 1

\* expectBuffer: the level a branch wants to wait for, zero when it wants none.
FastExpect(bufferNow) == IF bufferNow > bHigh THEN bHigh - SegmentDuration ELSE 0

SlowExpect(bufferNow, bandwidth) ==
  IF bufferNow >= bLow /\ Saturated(bandwidth)
  THEN Larger(bufferNow - SegmentDuration, bOpt) ELSE 0

\* The wait for expectBuffer comes to nothing: it is set when expectBuffer is not below
\* the level, and then it is negative.  What remains is the upper bound.
TobascoDelay(bufferNow, expectBuffer) ==
  LET wait == IF expectBuffer < bufferNow THEN 0 ELSE bufferNow - expectBuffer
      over == Larger(expectBuffer, bufferNow) - (TobascoUpperbound - SegmentDuration)
  IN  Larger(0, wait + Larger(0, over))

TobascoReply(bufferNow, bandwidth, lastThroughput) ==
  \/ /\ segmentCounter = 0
     /\ Reply(0, TobascoDelay(bufferNow, 0))
     /\ UNCHANGED m_runningFastStart
  \/ /\ segmentCounter # 0
     /\ FastStart(bufferNow, bandwidth)
     /\ Reply(FastRep(bufferNow, bandwidth), TobascoDelay(bufferNow, FastExpect(bufferNow)))
     /\ UNCHANGED m_runningFastStart
  \/ /\ segmentCounter # 0
     /\ ~FastStart(bufferNow, bandwidth)
     /\ Reply(SlowRep(bufferNow, bandwidth, lastThroughput),
              TobascoDelay(bufferNow, SlowExpect(bufferNow, bandwidth)))
     /\ m_runningFastStart' = FALSE

=============================================================================
