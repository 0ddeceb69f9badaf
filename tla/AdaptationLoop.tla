--------------------------- MODULE AdaptationLoop --------------------------
(***************************************************************************)
(* A client and its adaptation algorithm, one step for each segment: the   *)
(* segment asked for arrives after the delay and any download time, the    *)
(* buffer gains it, and the algorithm decides on the next.  The buffer     *)
(* level is the one TcpStreamClientTimed keeps, looked at when a segment   *)
(* has just arrived; the bandwidth an estimator reports and the size of    *)
(* the next segment are any of a set.                                      *)
(***************************************************************************)
EXTENDS TobascoAlgorithm, FestiveAlgorithm, SaraAlgorithm, TomatoAlgorithm

CONSTANTS
  Bandwidths,   \* bandwidthEstimate, and the throughput of one segment
  SegmentBits,  \* sizes a segment may have, for each representation
  MaxLevel      \* bound on the buffer of an algorithm that never waits

ASSUME LoopAssumption ==
  /\ Bandwidths \subseteq Nat \ {0}
  /\ SegmentBits \subseteq [RepIndex -> Nat \ {0}]
  /\ MaxLevel \in Nat

VARIABLE algo

vars == <<algo, segmentCounter, bufferLevel, replyVars, m_runningFastStart, steady, tomatoVars>>

Algorithms == {"tobasco", "festive", "sara", "tomato", "constbitrate"}

ConstRepIndex == 4  \* m_constRepIndex

Init ==
  /\ algo \in Algorithms
  /\ segmentCounter = 0
  /\ bufferLevel = 0
  /\ m_lastRepIndex = 0
  /\ nextDownloadDelay = 0
  /\ m_runningFastStart = TRUE
  /\ steady = 0
  /\ m_expBuffer = 0
  /\ m_multipleTinyDrop = 0
  /\ betaSteps = 0
  /\ betaFell = FALSE

Tobasco(bandwidth) ==
  /\ algo = "tobasco"
  /\ \E throughput \in Bandwidths : TobascoReply(bufferLevel', bandwidth, throughput)
  /\ UNCHANGED <<steady, tomatoVars>>

Festive(bandwidth) ==
  /\ algo = "festive"
  /\ \E randBuf \in RandBuf : FestiveReply(bufferLevel', bandwidth, randBuf)
  /\ UNCHANGED <<m_runningFastStart, tomatoVars>>

Sara(bandwidth) ==
  /\ algo = "sara"
  /\ \E bits \in SegmentBits : SaraReply(bufferLevel', bandwidth, bits)
  /\ UNCHANGED <<m_runningFastStart, steady, tomatoVars>>

Tomato(bandwidth) ==
  /\ algo = "tomato"
  /\ TomatoReply(bufferLevel', bandwidth)
  /\ UNCHANGED <<m_runningFastStart, steady>>

ConstBitrate ==
  /\ algo = "constbitrate"
  /\ bufferLevel' <= MaxLevel
  /\ Reply(ConstRepIndex, 0)
  /\ UNCHANGED <<m_runningFastStart, steady, tomatoVars>>

GetNextRep(bandwidth) ==
  \/ Tobasco(bandwidth)
  \/ Festive(bandwidth)
  \/ Sara(bandwidth)
  \/ Tomato(bandwidth)
  \/ ConstBitrate

\* The decision on the first segment, when nothing is buffered.
FirstSegment(bandwidth) ==
  /\ segmentCounter = 0
  /\ bufferLevel' = 0
  /\ GetNextRep(bandwidth)
  /\ segmentCounter' = 1
  /\ UNCHANGED algo

\* The buffer left when the segment asked for arrives: the delay and the download take
\* what they take.  A client that has stalled, with one segment, ignores its delay.
LevelsLeft ==
  0 .. IF bufferLevel > SegmentDuration
       THEN Larger(0, bufferLevel - nextDownloadDelay) ELSE bufferLevel

\* Without the segment's size, at an index out of range, the client cannot ask for it.
NextSegment(bandwidth, left) ==
  /\ segmentCounter > 0
  /\ m_lastRepIndex \in RepIndex
  /\ bufferLevel' = left + SegmentDuration
  /\ GetNextRep(bandwidth)
  /\ segmentCounter' = IF segmentCounter = 4 THEN 3 ELSE segmentCounter + 1
  /\ UNCHANGED algo

Decide == \E bandwidth \in Bandwidths :
  FirstSegment(bandwidth) \/ \E left \in LevelsLeft : NextSegment(bandwidth, left)

Next == Decide

Spec == Init /\ [][Next]_vars

-----------------------------------------------------------------------------
(* Properties.                                                             *)

\* Every variable keeps its type.
TypeOK ==
  /\ algo \in Algorithms
  /\ segmentCounter \in 0 .. 4
  /\ bufferLevel \in Nat
  /\ m_lastRepIndex \in Int
  /\ nextDownloadDelay \in Nat
  /\ m_runningFastStart \in BOOLEAN
  /\ steady \in 0 .. SmoothSteps
  /\ m_expBuffer \in Nat
  /\ m_multipleTinyDrop \in 0 .. 3
  /\ betaSteps \in 0 .. 2 * HighestRepIndex
  /\ betaFell \in BOOLEAN

\* The index replied is one of the video's: every step up is guarded in every branch,
\* and every step down.  Sara's may be below zero (see ReplyIsRepresentation).
IndexInRange ==
  /\ algo # "constbitrate" => m_lastRepIndex <= HighestRepIndex
  /\ algo # "sara" => m_lastRepIndex >= 0

\* The reply names a representation of the video, as interface.h:36 says of it.
ReplyIsRepresentation == algo # "constbitrate" => m_lastRepIndex \in RepIndex

\* The level down to which an algorithm may wait, and the level it may reach.
Reserve ==
  CASE algo = "tobasco" -> bMin
    [] algo = "festive" -> SegmentDuration
    [] algo = "sara" -> SaraMin
    [] algo = "tomato" -> TargetBuffer
    [] algo = "constbitrate" -> MaxLevel

Upperbound ==
  CASE algo = "tobasco" -> TobascoUpperbound
    [] algo = "festive" -> 13 * SegmentDuration
    [] algo = "sara" -> SaraHigh + SegmentDuration
    [] algo = "tomato" -> TomatoUpperbound
    [] algo = "constbitrate" -> MaxLevel

\* A delay never takes the buffer down to where the algorithm chooses the lowest
\* representation, Tomato's to less than the target of the lowest one, however m_beta
\* has been smoothed and rounded, or Festive's to less than a segment.  So delays are
\* shorter than the buffer, as TcpStreamClientTimed needs.
DelayLeavesReserve ==
  nextDownloadDelay > 0 => bufferLevel - nextDownloadDelay >= Reserve

\* The delays keep the buffer within the bound each algorithm has: m_bufferUpperbound,
\* or one segment above the level from which it waits.
BufferBounded == bufferLevel <= Upperbound

\* A segment that arrives at once, and a bandwidth for every representation.
AmpleStep ==
  \E bandwidth \in {Max(Bandwidths)}, left \in {Max(LevelsLeft)} :
    FirstSegment(bandwidth) \/ NextSegment(bandwidth, left)

\* When the network is fast from some moment on, Tobasco, Festive and Sara reach the
\* highest representation (or Sara has failed before).  Tomato may not: at its upper
\* bound the buffer cannot exceed the level it expects, and RiseTo keeps the
\* representation.
ReachesHighest ==
  <>[][AmpleStep]_vars /\ algo \in {"tobasco", "festive", "sara"} =>
    <>(m_lastRepIndex = HighestRepIndex \/ m_lastRepIndex \notin RepIndex)

=============================================================================
