------------------------ MODULE AdaptationAlgorithm ------------------------
(***************************************************************************)
(* What the adaptation algorithms have in common: the video they read, the *)
(* state they share with the client and the reply they give.  Time is in   *)
(* units of which SegmentDuration make a segment; bit rates are bits for   *)
(* each unit.                                                              *)
(***************************************************************************)
EXTENDS Integers, FiniteSetsExt

CONSTANTS
  HighestRepIndex,  \* m_highestRepIndex
  AverageBitrate,   \* m_videoData.averageBitrate, of each representation
  SegmentDuration,  \* m_videoData.segmentDuration
  FiveSeconds       \* 5000000 microseconds, the unit of the fixed thresholds

RepIndex == 0 .. HighestRepIndex

ASSUME VideoAssumption ==
  /\ HighestRepIndex \in Nat \ {0}
  /\ AverageBitrate \in [RepIndex -> Nat \ {0}]
  /\ SegmentDuration \in Nat \ {0}
  /\ FiveSeconds \in Nat \ {0}

\* At most twenty seconds; the driver's segments have ten, those of run.sh one.
ASSUME SegmentAssumption == SegmentDuration <= 4 * FiveSeconds

VARIABLES
  segmentCounter,    \* m_segmentCounter; from three on, which is all that is ever asked
                     \* of it, 3 and 4 in turn, so that every decision is a change
  bufferLevel,       \* bufferNow of the last decision (m_lastBuffer of Tobasco)
  m_lastRepIndex,    \* nextRepIndex of the last reply, also playbackIndex.back()
  nextDownloadDelay  \* nextDownloadDelay of the last reply

replyVars == <<m_lastRepIndex, nextDownloadDelay>>

Reply(rep, delay) == m_lastRepIndex' = rep /\ nextDownloadDelay' = delay

Larger(a, b) == IF a < b THEN b ELSE a

\* Share of a bandwidth that a bit rate takes, compared in hundredths.
AtMost(bitrate, percent, bandwidth) == 100 * bitrate <= percent * bandwidth

=============================================================================
