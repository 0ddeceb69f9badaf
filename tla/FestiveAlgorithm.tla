------------------------- MODULE FestiveAlgorithm --------------------------
(***************************************************************************)
(* FestiveAlgorithm::GetNextRep: one representation up or down at a time,  *)
(* up only after three equal ones in a row, and only when the efficiency   *)
(* gained is worth the switch.                                             *)
(***************************************************************************)
EXTENDS AdaptationAlgorithm

VARIABLE steady  \* entries before playbackIndex.back() that equal it, to m_smooth[0]

SmoothSteps == 3  \* m_smooth[0]

\* The levels randBuf may be drawn from: m_targetBuffer - m_delta to m_targetBuffer
\* + m_delta.  All are below the upper bound less a segment.
RandBuf == 8 * SegmentDuration .. 12 * SegmentDuration

Down(bandwidth) ==
  m_lastRepIndex > 0 /\ ~AtMost(AverageBitrate[m_lastRepIndex], 95, bandwidth)

Up(bandwidth) ==
  /\ m_lastRepIndex < HighestRepIndex
  /\ steady >= SmoothSteps
  /\ AverageBitrate[m_lastRepIndex + 1] <= bandwidth

RefIndex(bandwidth) ==
  m_lastRepIndex + IF Down(bandwidth) THEN -1 ELSE IF Up(bandwidth) THEN 1 ELSE 0

\* The scores of RefIndex and of the representation kept, with m_alpha = 12 and
\* numberOfSwitches = 0: the playback start before the last is never in the future.
\* Both are multiplied by the smaller of bandwidth and reference bit rate.
WorthSwitching(bandwidth, ref) ==
  LET scale == Min({bandwidth, AverageBitrate[ref]})
      Inefficiency(rep) == Larger(AverageBitrate[rep] - scale, scale - AverageBitrate[rep])
  IN  12 * Inefficiency(m_lastRepIndex) >= scale + 12 * Inefficiency(ref)

FestiveRep(bandwidth) ==
  LET ref == RefIndex(bandwidth)
  IN  IF WorthSwitching(bandwidth, ref) THEN ref ELSE m_lastRepIndex

\* Mutant: the delay is set below randBuf too.
FestiveDelayUnguarded(bufferNow, randBuf) == bufferNow - randBuf

FestiveDelay(bufferNow, randBuf) == Larger(0, bufferNow - randBuf)

CountSteady ==
  steady' = IF segmentCounter # 0 /\ m_lastRepIndex' = m_lastRepIndex
            THEN Min({steady + 1, SmoothSteps}) ELSE 0

FestiveReply(bufferNow, bandwidth, randBuf) ==
  /\ \/ segmentCounter < 3 /\ Reply(0, 0)
     \/ /\ segmentCounter >= 3
        /\ Reply(FestiveRep(bandwidth), FestiveDelay(bufferNow, randBuf))
  /\ CountSteady

=============================================================================
