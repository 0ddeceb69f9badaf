--------------------------- MODULE SaraAlgorithm ---------------------------
(***************************************************************************)
(* SaraAlgorithm::GetNextRep: the choice by the time the next segment, at  *)
(* its own size, takes to download, against the buffer above a threshold.  *)
(***************************************************************************)
EXTENDS AdaptationAlgorithm

SaraMin == 6 * SegmentDuration
SaraLow == 8 * SegmentDuration
SaraHigh == 10 * SegmentDuration

\* bits[rep] is the size of the next segment; it takes longer than spare.
Late(bits, rep, bandwidth, spare) == bits[rep] > spare * bandwidth

\* The loop up from zero: one below the first late representation, at least zero.
BelowFirstLate(bits, bandwidth, spare) ==
  LET late == {rep \in 0 .. m_lastRepIndex - 1 : Late(bits, rep, bandwidth, spare)}
  IN  Larger(0, Min(late \union {m_lastRepIndex}) - 1)

\* The loop down from the highest to the last representation; where all are late it
\* leaves one below the last, which is -1 when the last is 0.
HighestInTime(bits, bandwidth, spare) ==
  Max({rep \in m_lastRepIndex .. HighestRepIndex : ~Late(bits, rep, bandwidth, spare)}
        \union {m_lastRepIndex - 1})

SaraRep(bufferNow, bandwidth, bits) ==
  LET aboveMin == bufferNow - SaraMin
  IN  CASE bufferNow <= SaraMin -> 0
        [] bufferNow > SaraMin /\ Late(bits, m_lastRepIndex, bandwidth, aboveMin) ->
             BelowFirstLate(bits, bandwidth, aboveMin)
        [] OTHER ->
             IF bufferNow <= SaraLow
             THEN IF /\ m_lastRepIndex < HighestRepIndex
                     /\ ~Late(bits, m_lastRepIndex + 1, bandwidth, aboveMin)
                  THEN m_lastRepIndex + 1 ELSE m_lastRepIndex
             ELSE HighestInTime(bits, bandwidth,
                    IF bufferNow <= SaraHigh THEN aboveMin ELSE bufferNow - SaraLow)

SaraDelay(bufferNow) == Larger(0, bufferNow - SaraHigh)

\* m_bufferHigh is below the upper bound less a segment, so no delay is added.
SaraReply(bufferNow, bandwidth, bits) ==
  \/ segmentCounter = 0 /\ Reply(m_lastRepIndex, 0)
  \/ segmentCounter # 0 /\ Reply(SaraRep(bufferNow, bandwidth, bits), SaraDelay(bufferNow))

=============================================================================
