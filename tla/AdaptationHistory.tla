------------------------- MODULE AdaptationHistory -------------------------
(***************************************************************************)
(* The times that the loop of AdaptationLoop leaves in the client's        *)
(* history, for the estimators to read: how long the client waited before  *)
(* the last segment and how long it took to receive it.                    *)
(***************************************************************************)
EXTENDS AdaptationLoop

CONSTANT Slowest  \* bound: by how much a download outlasts the buffer

VARIABLES
  waited,   \* from the end of the segment before to the start of this one
  received  \* from its start to its end

historyVars == <<waited, received>>

Delay == IF bufferLevel > SegmentDuration THEN nextDownloadDelay ELSE 0

\* A download takes what the buffer loses beyond the delay, or more than that when
\* nothing is left.  No segment is received in no time.
DownloadTimes(left) ==
  LET losing == bufferLevel - Delay
  IN  IF left = 0 THEN Larger(1, losing) .. losing + Slowest ELSE {losing - left} \ {0}

HistoryInit == Init /\ waited = 0 /\ received = 1

HistoryNext == \E bandwidth \in Bandwidths :
  \/ FirstSegment(bandwidth) /\ UNCHANGED historyVars
  \/ \E left \in LevelsLeft :
       /\ NextSegment(bandwidth, left)
       /\ received' \in DownloadTimes(left)
       /\ waited' = Delay

\* The end of the history: the segment before, which is taken to end at 1, and the last.
Begun == 1 + waited
Ended == Begun + received

Estimators == INSTANCE BandwidthEstimators WITH
  Sizes <- {1}, Durations <- Nat \ {0}, IdleTimes <- Nat, m_windowSize <- 5,
  m_deltaTime_1 <- 2 * FiveSeconds, m_deltaTime_2 <- 6 * FiveSeconds,
  NoRate <- 0, SegmentCount <- 2, longAvg <- 0, bandwidthanswer <- <<>>, timeNow <- Ended,
  segments <- <<[start |-> 0, end |-> 1, size |-> 1], [start |-> Begun, end |-> Ended, size |-> 1]>>


=============================================================================
