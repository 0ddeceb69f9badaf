------------------------ MODULE AdaptationLoopProofs -----------------------
(***************************************************************************)
(* What the client relies on of its adaptation algorithm, for every video, *)
(* every bandwidth and every download time: the index replied is one of    *)
(* the video's, the delay leaves the buffer its reserve, and the buffer    *)
(* stays within its bound.                                                 *)
(***************************************************************************)
EXTENDS AdaptationLoop, TLAPS, WellFoundedInduction

-----------------------------------------------------------------------------
(* Searches among the representations.                                     *)

LEMMA LeastNatural ==
  ASSUME NEW S \in SUBSET Nat, S # {}
  PROVE  \E x \in S : \A y \in S : x <= y
<1>1. PICK x \in S : \A y \in S : ~ (<<y, x>> \in OpToRel(<, Nat))
  BY NatLessThanWellFounded, WFMin
<1>2. \A y \in S : ~ (y < x)
  BY <1>1 DEF OpToRel
<1> QED
  BY <1>2

LEMMA MinOfNaturals ==
  ASSUME NEW S \in SUBSET Nat, S # {}
  PROVE  Min(S) \in S /\ \A y \in S : Min(S) <= y
  BY LeastNatural DEF Min

\* The greatest of some integers up to a bound is the one nearest to the bound.
LEMMA MaxOfBounded ==
  ASSUME NEW top \in Int, NEW S \in SUBSET Int, S # {}, \A x \in S : x <= top
  PROVE  Max(S) \in S /\ \A y \in S : Max(S) >= y
<1> DEFINE D == {top - x : x \in S}
<1>0. \A x \in S : top - x \in Nat
  OBVIOUS
<1>1. D \in SUBSET Nat /\ D # {}
  BY <1>0, Zenon
<1>2. PICK d \in D : \A e \in D : d <= e
  BY <1>1, LeastNatural
<1>3. PICK x \in S : d = top - x
  BY <1>2
<1>4. \A y \in S : x >= y
  BY <1>2, <1>3
<1> QED
  BY <1>3, <1>4 DEF Max

LEMMA LargerType ==
  ASSUME NEW a \in Int, NEW b \in Int
  PROVE  /\ Larger(a, b) \in Int
         /\ Larger(a, b) >= a
         /\ Larger(a, b) >= b
         /\ Larger(a, b) \in {a, b}
  BY DEF Larger

LEMMA Constants ==
  /\ HighestRepIndex \in Nat /\ HighestRepIndex >= 1
  /\ SegmentDuration \in Nat /\ SegmentDuration >= 1
  /\ FiveSeconds \in Nat /\ FiveSeconds >= 1
  /\ SegmentDuration <= 4 * FiveSeconds
  /\ \A rep \in RepIndex : AverageBitrate[rep] \in Nat \ {0}
  BY VideoAssumption, SegmentAssumption

-----------------------------------------------------------------------------
(* One lemma for each algorithm: its reply to any buffer level.            *)

\* What holds of the reply to a buffer level, for given bounds.
GoodReply(bufferNow, reserve, most) ==
  /\ nextDownloadDelay' \in Nat
  /\ nextDownloadDelay' > 0 => bufferNow - nextDownloadDelay' >= reserve
  /\ bufferNow - nextDownloadDelay' <= most - SegmentDuration

LEMMA TobascoDelayGood ==
  ASSUME NEW bufferNow \in Nat, NEW expect \in Int,
         expect < bufferNow \/ expect = 0 \/ (bufferNow < expect /\ expect <= bOpt)
         \/ expect = bufferNow
  PROVE  LET delay == TobascoDelay(bufferNow, expect)
         IN  /\ delay \in Nat
             /\ delay > 0 => bufferNow - delay >= bMin
             /\ bufferNow - delay <= TobascoUpperbound - SegmentDuration
  BY Constants DEF TobascoDelay, bOpt, bMin, TobascoUpperbound, Larger

LEMMA FastRepGood ==
  ASSUME NEW bufferNow \in Nat, NEW bandwidth \in Nat \ {0}, m_lastRepIndex \in RepIndex,
         FastStart(bufferNow, bandwidth)
  PROVE  FastRep(bufferNow, bandwidth) \in RepIndex
<1>1. m_lastRepIndex + 1 \in RepIndex
  BY Constants DEF FastStart, RepIndex
<1>2. FastRep(bufferNow, bandwidth) \in {m_lastRepIndex, m_lastRepIndex + 1}
  BY Constants DEF FastRep, RepIndex
<1> QED
  BY <1>1, <1>2

LEMMA SlowRepGood ==
  ASSUME NEW bufferNow \in Nat, NEW bandwidth \in Nat \ {0}, NEW throughput \in Nat,
         m_lastRepIndex \in RepIndex
  PROVE  SlowRep(bufferNow, bandwidth, throughput) \in RepIndex
<1> DEFINE lower == m_lastRepIndex # 0 /\ AverageBitrate[m_lastRepIndex] >= throughput
<1>1. lower => m_lastRepIndex - 1 \in RepIndex
  BY Constants DEF RepIndex
<1>2. ~Saturated(bandwidth) => m_lastRepIndex + 1 \in RepIndex
  BY Constants DEF RepIndex, Saturated
<1>3. 0 \in RepIndex
  BY Constants DEF RepIndex
<1>4. CASE bufferNow < bMin
  BY <1>3, <1>4, Constants DEF SlowRep, bMin, bLow, bHigh
<1>5. CASE bufferNow \in bMin .. bLow - 1
  BY <1>1, <1>5, Constants DEF SlowRep, bMin, bLow, bHigh
<1>6. CASE bufferNow \in bLow .. bHigh - 1
  BY <1>6, Constants DEF SlowRep, bMin, bLow, bHigh
<1>7. CASE bufferNow >= bHigh
  BY <1>2, <1>7, Constants DEF SlowRep, bMin, bLow, bHigh
<1> QED
  BY <1>4, <1>5, <1>6, <1>7, Constants DEF bMin, bLow, bHigh

LEMMA TobascoGood ==
  ASSUME NEW bufferNow \in Nat, NEW bandwidth \in Nat \ {0}, NEW throughput \in Nat,
         m_lastRepIndex \in RepIndex, m_runningFastStart \in BOOLEAN,
         TobascoReply(bufferNow, bandwidth, throughput)
  PROVE  /\ GoodReply(bufferNow, bMin, TobascoUpperbound)
         /\ m_lastRepIndex' \in RepIndex
         /\ m_runningFastStart' \in BOOLEAN
<1>1. CASE segmentCounter = 0
  <2>1. nextDownloadDelay' = TobascoDelay(bufferNow, 0) /\ m_lastRepIndex' = 0
    BY <1>1 DEF TobascoReply, Reply
  <2>2. GoodReply(bufferNow, bMin, TobascoUpperbound)
    BY <2>1, TobascoDelayGood DEF GoodReply
  <2> QED
    BY <1>1, <2>1, <2>2, Constants DEF TobascoReply, RepIndex
<1>2. CASE segmentCounter # 0 /\ FastStart(bufferNow, bandwidth)
  <2> DEFINE expect == FastExpect(bufferNow)
  <2>1. nextDownloadDelay' = TobascoDelay(bufferNow, expect)
    BY <1>2 DEF TobascoReply, Reply
  <2>2. expect \in Int /\ (expect < bufferNow \/ expect = 0)
    BY Constants DEF FastExpect, bHigh
  <2>3. GoodReply(bufferNow, bMin, TobascoUpperbound)
    BY <2>1, <2>2, TobascoDelayGood DEF GoodReply
  <2>4. m_lastRepIndex' \in RepIndex
    BY <1>2, FastRepGood DEF TobascoReply, Reply
  <2> QED
    BY <1>2, <2>3, <2>4 DEF TobascoReply
<1>3. CASE segmentCounter # 0 /\ ~FastStart(bufferNow, bandwidth)
  <2> DEFINE expect == SlowExpect(bufferNow, bandwidth)
  <2>1. nextDownloadDelay' = TobascoDelay(bufferNow, expect)
    BY <1>3 DEF TobascoReply, Reply
  <2>2. /\ expect \in Int
        /\ expect < bufferNow \/ expect = 0 \/ (bufferNow < expect /\ expect <= bOpt)
           \/ expect = bufferNow
    BY Constants DEF SlowExpect, bHigh, bLow, bOpt, Larger
  <2>3. GoodReply(bufferNow, bMin, TobascoUpperbound)
    BY <2>1, <2>2, TobascoDelayGood DEF GoodReply
  <2>4. m_lastRepIndex' \in RepIndex
    BY <1>3, SlowRepGood DEF TobascoReply, Reply
  <2> QED
    BY <1>3, <2>3, <2>4 DEF TobascoReply
<1> QED
  BY <1>1, <1>2, <1>3 DEF TobascoReply

LEMMA FestiveGood ==
  ASSUME NEW bufferNow \in Nat, NEW bandwidth \in Nat \ {0}, NEW randBuf \in RandBuf,
         m_lastRepIndex \in RepIndex, steady \in 0 .. SmoothSteps, segmentCounter \in Nat,
         segmentCounter < 3 => bufferNow <= 2 * SegmentDuration,
         FestiveReply(bufferNow, bandwidth, randBuf)
  PROVE  /\ GoodReply(bufferNow, SegmentDuration, 13 * SegmentDuration)
         /\ m_lastRepIndex' \in RepIndex
         /\ steady' \in 0 .. SmoothSteps
<1>1. GoodReply(bufferNow, SegmentDuration, 13 * SegmentDuration)
  <2>1. nextDownloadDelay' = IF segmentCounter < 3 THEN 0 ELSE FestiveDelay(bufferNow, randBuf)
    BY DEF FestiveReply, Reply
  <2> QED
    BY <2>1, Constants DEF GoodReply, FestiveDelay, Larger, RandBuf
<1>2. m_lastRepIndex' \in RepIndex
  <2>1. RefIndex(bandwidth) \in RepIndex
    BY Constants DEF RefIndex, Down, Up, RepIndex
  <2>2. FestiveRep(bandwidth) \in RepIndex
    BY <2>1 DEF FestiveRep
  <2> QED
    BY <2>2, Constants DEF FestiveReply, Reply, RepIndex
<1>3. steady' \in 0 .. SmoothSteps
  <2>1. Min({steady + 1, SmoothSteps}) \in {steady + 1, SmoothSteps}
    BY MinOfNaturals, {steady + 1, SmoothSteps} \in SUBSET Nat DEF SmoothSteps
  <2>2. Min({steady + 1, SmoothSteps}) <= SmoothSteps
    BY MinOfNaturals, {steady + 1, SmoothSteps} \in SUBSET Nat DEF SmoothSteps
  <2> QED
    BY <2>1, <2>2 DEF FestiveReply, CountSteady, SmoothSteps
<1> QED
  BY <1>1, <1>2, <1>3

LEMMA BelowFirstLateGood ==
  ASSUME NEW bits, NEW bandwidth, NEW spare, m_lastRepIndex \in RepIndex
  PROVE  BelowFirstLate(bits, bandwidth, spare) \in RepIndex
<1> DEFINE S == {rep \in 0 .. m_lastRepIndex - 1 : Late(bits, rep, bandwidth, spare)}
                  \union {m_lastRepIndex}
<1>1. S \in SUBSET Nat /\ S # {} /\ m_lastRepIndex \in S
  BY Constants DEF RepIndex
<1>2. Min(S) \in Nat /\ Min(S) <= m_lastRepIndex
  BY <1>1, MinOfNaturals
<1> QED
  BY <1>2, Constants DEF BelowFirstLate, RepIndex, Larger

LEMMA HighestInTimeGood ==
  ASSUME NEW bits, NEW bandwidth, NEW spare, m_lastRepIndex \in RepIndex
  PROVE  HighestInTime(bits, bandwidth, spare) \in -1 .. HighestRepIndex
<1> DEFINE S == {rep \in m_lastRepIndex .. HighestRepIndex : ~Late(bits, rep, bandwidth, spare)}
                  \union {m_lastRepIndex - 1}
<1>1. /\ S \in SUBSET Int /\ S # {} /\ m_lastRepIndex - 1 \in S
      /\ \A x \in S : x <= HighestRepIndex
  BY Constants DEF RepIndex
<1>2. Max(S) \in S /\ Max(S) >= m_lastRepIndex - 1
  <2> HIDE DEF S
  <2>1. HighestRepIndex \in Int
    BY Constants
  <2> QED
    BY <1>1, <2>1, MaxOfBounded
<1> QED
  BY <1>1, <1>2, Constants DEF HighestInTime, RepIndex

LEMMA SaraGood ==
  ASSUME NEW bufferNow \in Nat, NEW bandwidth \in Nat \ {0}, NEW bits \in SegmentBits,
         m_lastRepIndex \in RepIndex, segmentCounter = 0 => bufferNow = 0,
         SaraReply(bufferNow, bandwidth, bits)
  PROVE  /\ GoodReply(bufferNow, SaraMin, SaraHigh + SegmentDuration)
         /\ m_lastRepIndex' \in -1 .. HighestRepIndex
<1>1. GoodReply(bufferNow, SaraMin, SaraHigh + SegmentDuration)
  <2>1. nextDownloadDelay' = IF segmentCounter = 0 THEN 0 ELSE SaraDelay(bufferNow)
    BY DEF SaraReply, Reply
  <2> QED
    BY <2>1, Constants DEF GoodReply, SaraDelay, SaraMin, SaraHigh, Larger
<1>2. m_lastRepIndex' \in -1 .. HighestRepIndex
  <2>1. SaraRep(bufferNow, bandwidth, bits) \in -1 .. HighestRepIndex
    <3> DEFINE aboveMin == bufferNow - SaraMin
               low == bufferNow <= SaraMin
               late == Late(bits, m_lastRepIndex, bandwidth, aboveMin)
    <3>1. CASE low
      <4>1. SaraRep(bufferNow, bandwidth, bits) = 0
        BY <3>1, Constants DEF SaraRep, SaraMin
      <4> QED
        BY <4>1, Constants
    <3>2. CASE ~low /\ late
      <4>1. SaraRep(bufferNow, bandwidth, bits) = BelowFirstLate(bits, bandwidth, aboveMin)
        BY <3>2, Constants DEF SaraRep, SaraMin
      <4> QED
        BY <4>1, BelowFirstLateGood, Constants DEF RepIndex
    <3>3. CASE ~low /\ ~late
      <4> DEFINE spare == IF bufferNow <= SaraHigh THEN aboveMin ELSE bufferNow - SaraLow
      <4>1. \/ SaraRep(bufferNow, bandwidth, bits) = HighestInTime(bits, bandwidth, spare)
            \/ SaraRep(bufferNow, bandwidth, bits) = m_lastRepIndex
            \/ /\ SaraRep(bufferNow, bandwidth, bits) = m_lastRepIndex + 1
               /\ m_lastRepIndex < HighestRepIndex
        BY <3>3, Constants DEF SaraRep, SaraMin
      <4> QED
        BY <4>1, HighestInTimeGood, Constants DEF RepIndex
    <3> QED
      BY <3>1, <3>2, <3>3
  <2> QED
    BY <2>1, Constants DEF SaraReply, Reply, RepIndex
<1> QED
  BY <1>1, <1>2

LEMMA NextHighestIndexGood ==
  ASSUME NEW bufferNow \in Nat, NEW bandwidth \in Nat \ {0}
  PROVE  NextHighestIndex(bufferNow, bandwidth) \in RepIndex
<1> DEFINE S == {0} \union {rep \in RepIndex : AverageBitrate[rep] <= bandwidth}
<1>1. /\ S \in SUBSET Int /\ S # {} /\ \A x \in S : x <= HighestRepIndex
      /\ S \in SUBSET RepIndex
  BY Constants DEF RepIndex
<1>2. Max(S) \in S
  <2> HIDE DEF S
  <2>1. HighestRepIndex \in Int
    BY Constants
  <2> QED
    BY <1>1, <2>1, MaxOfBounded
<1> QED
  BY <1>1, <1>2, Constants DEF NextHighestIndex, RepIndex

LEMMA FallToGood ==
  ASSUME NEW bufferNow \in Nat, NEW next \in RepIndex, next < m_lastRepIndex,
         m_lastRepIndex \in RepIndex, m_expBuffer \in Nat
  PROVE  FallTo(bufferNow, next) \in RepIndex
<1> DEFINE half == m_lastRepIndex \div 2
<1>1. half \in RepIndex /\ m_lastRepIndex - 1 \in RepIndex
  BY Constants DEF RepIndex
<1>2. Min({next, half}) \in RepIndex
  <2>1. {next, half} \in SUBSET Nat /\ {next, half} # {}
    BY <1>1, Constants DEF RepIndex
  <2> QED
    BY <1>1, <2>1, MinOfNaturals
<1>3. Larger(next, half) \in RepIndex
  BY <1>1 DEF Larger
<1>4. SegmentDuration \div 2 \in Nat /\ SegmentDuration \div 2 <= SegmentDuration
  BY Constants
<1> QED
  BY <1>1, <1>2, <1>3, <1>4, Constants DEF FallTo, Missing, MissingHalf, TinyDrop

LEMMA TomatoRepGood ==
  ASSUME NEW bufferNow \in Nat, NEW bandwidth \in Nat \ {0},
         m_lastRepIndex \in RepIndex, m_expBuffer \in Nat
  PROVE  TomatoRep(bufferNow, bandwidth) \in RepIndex
<1> DEFINE next == NextHighestIndex(bufferNow, bandwidth)
<1>1. next \in RepIndex
  BY NextHighestIndexGood
<1>2. next > m_lastRepIndex => RiseTo(bufferNow, next) \in RepIndex
  BY <1>1, Constants DEF RiseTo, RepIndex
<1>3. next < m_lastRepIndex => FallTo(bufferNow, next) \in RepIndex
  BY <1>1, FallToGood
<1>4. 0 \in RepIndex
  BY Constants DEF RepIndex
<1> QED
  BY <1>1, <1>2, <1>3, <1>4 DEF TomatoRep

\* With m_beta at least one, Tomato's target is at least m_targetBuffer.
LEMMA TargetGood ==
  ASSUME NEW beta \in Nat, beta >= HighestRepIndex
  PROVE  Target(beta) \in Nat /\ Target(beta) >= TargetBuffer
<1> DEFINE H == HighestRepIndex
           n == TargetBuffer * beta
           q == n \div H
<1>1. H \in Nat /\ H >= 1 /\ TargetBuffer \in Nat
  BY Constants DEF TargetBuffer
<1>2. n \in Nat
  BY <1>1
<1>3. q \in Int /\ q >= 0 /\ n < H * (q + 1)
  <2> HIDE DEF n
  <2> QED
    BY <1>1, <1>2
<1>4. n >= TargetBuffer * H
  <2>1. \A a, b, c \in Nat : a <= b => c * a <= c * b
    OBVIOUS
  <2> QED
    BY <2>1, <1>1
<1>5. TargetBuffer * H < (q + 1) * H
  <2> HIDE DEF n, q
  <2> QED
    BY <1>1, <1>2, <1>3, <1>4
<1>6. TargetBuffer < q + 1
  <2>1. \A a, b, c \in Nat : a <= b => a * c <= b * c
    OBVIOUS
  <2>2. SUFFICES ASSUME q + 1 <= TargetBuffer PROVE FALSE
    BY <1>1, <1>3
  <2> HIDE DEF q
  <2>3. (q + 1) * H <= TargetBuffer * H
    BY <2>1, <2>2, <1>1, <1>3
  <2> QED
    BY <2>3, <1>1, <1>3, <1>5
<1> QED
  BY <1>1, <1>3, <1>6 DEF Target

\* A value that has fallen, by rounding or not, was at least what the representation
\* calls for; so above the lowest representation m_beta stays at least one.
LEMMA BetaGood ==
  ASSUME NEW rep \in RepIndex, NEW fall \in Falls(rep), betaSteps \in 0 .. 2 * HighestRepIndex
  PROVE  /\ fall \in BOOLEAN
         /\ Beta(rep, fall) \in 0 .. 2 * HighestRepIndex
         /\ rep > 0 => Beta(rep, fall) >= HighestRepIndex
<1>1. rep \in 0 .. HighestRepIndex /\ HighestRepIndex \in Nat \ {0}
  BY Constants DEF RepIndex
<1>2. fall \in BOOLEAN
  <2> DEFINE even == HighestRepIndex + rep = betaSteps /\ betaFell /\ ~ExactSteps
             falls == HighestRepIndex + rep < betaSteps
  <2>1. fall \in IF even THEN BOOLEAN ELSE {falls}
    BY DEF Falls
  <2>2. falls \in BOOLEAN
    BY <1>1
  <2> HIDE DEF even, falls
  <2>3. CASE even
    BY <2>1, <2>3, Zenon
  <2>4. CASE ~even
    BY <2>1, <2>2, <2>4, Zenon
  <2> QED
    BY <2>3, <2>4
<1>3. CASE fall
  <2>1. HighestRepIndex + rep = betaSteps \/ HighestRepIndex + rep < betaSteps
    <3>1. CASE HighestRepIndex + rep = betaSteps
      BY <3>1
    <3>2. CASE HighestRepIndex + rep # betaSteps
      <4>1. fall = (HighestRepIndex + rep < betaSteps)
        BY <3>2, Zenon DEF Falls
      <4> QED
        BY <1>3, <4>1, Zenon
    <3> QED
      BY <3>1, <3>2
  <2>2. Beta(rep, fall) = betaSteps - 1
    BY <1>3 DEF Beta
  <2> QED
    BY <1>1, <1>2, <2>1, <2>2
<1>4. CASE ~fall
  <2>1. Beta(rep, fall) = HighestRepIndex + rep
    BY <1>4 DEF Beta
  <2> QED
    BY <1>1, <1>2, <2>1
<1> QED
  BY <1>3, <1>4

LEMMA TomatoGood ==
  ASSUME NEW bufferNow \in Nat, NEW bandwidth \in Nat \ {0},
         m_lastRepIndex \in RepIndex, m_expBuffer \in Nat,
         m_multipleTinyDrop \in 0 .. 3, betaSteps \in 0 .. 2 * HighestRepIndex,
         betaFell \in BOOLEAN, TomatoReply(bufferNow, bandwidth)
  PROVE  /\ GoodReply(bufferNow, TargetBuffer, TomatoUpperbound)
         /\ m_lastRepIndex' \in RepIndex
         /\ m_expBuffer' \in Nat
         /\ m_multipleTinyDrop' \in 0 .. 3
         /\ betaSteps' \in 0 .. 2 * HighestRepIndex
         /\ betaFell' \in BOOLEAN
<1>1. CASE segmentCounter = 0
  <2>1. /\ m_expBuffer' = bufferNow
        /\ m_lastRepIndex' = m_lastRepIndex
        /\ nextDownloadDelay' = TomatoOver(bufferNow)
        /\ UNCHANGED <<m_multipleTinyDrop, betaSteps, betaFell>>
    BY <1>1 DEF TomatoReply, Reply
  <2>2. GoodReply(bufferNow, TargetBuffer, TomatoUpperbound)
    BY <2>1, Constants, SegmentAssumption
       DEF GoodReply, TomatoOver, TargetBuffer, TomatoUpperbound, Larger
  <2> QED
    BY <2>1, <2>2
<1>2. CASE segmentCounter # 0
  <2> DEFINE rep == TomatoRep(bufferNow, bandwidth)
  <2>1. PICK fall \in Falls(rep) :
          /\ betaSteps' = Beta(rep, fall)
          /\ betaFell' = fall
          /\ m_expBuffer' = IF TomatoWait(bufferNow, rep, Beta(rep, fall)) > 0
                            THEN Target(Beta(rep, fall)) ELSE bufferNow
          /\ Reply(rep, TomatoWait(bufferNow, rep, Beta(rep, fall)) + TomatoOver(m_expBuffer'))
    BY <1>2 DEF TomatoReply
  <2> DEFINE beta == Beta(rep, fall)
             wait == TomatoWait(bufferNow, rep, beta)
             level == IF wait > 0 THEN Target(beta) ELSE bufferNow
  <2>2. /\ m_expBuffer' = level
        /\ m_lastRepIndex' = rep
        /\ nextDownloadDelay' = wait + TomatoOver(level)
    BY <2>1 DEF Reply
  <2>3. rep \in RepIndex
    BY TomatoRepGood
  <2>4. /\ fall \in BOOLEAN
        /\ beta \in 0 .. 2 * HighestRepIndex
        /\ rep > 0 => beta >= HighestRepIndex
    <3> HIDE DEF rep
    <3> QED
      BY <2>1, <2>3, BetaGood
  <2>5. rep > 0 => Target(beta) \in Nat /\ Target(beta) >= TargetBuffer
    <3> HIDE DEF rep, beta
    <3> QED
      BY <2>4, TargetGood, Constants
  <2>6. wait = 0 \/ (rep > 0 /\ wait = Larger(0, bufferNow - Target(beta)))
    <3> HIDE DEF rep, beta
    <3> QED
      BY <2>3, Constants DEF TomatoWait, RepIndex
  <2>7. wait \in Nat /\ level \in Nat /\ wait = bufferNow - level
    <3> HIDE DEF rep, beta
    <3>1. CASE wait = 0
      BY <3>1
    <3>2. CASE wait # 0
      BY <3>2, <2>5, <2>6 DEF Larger
    <3> QED
      BY <3>1, <3>2
  <2>8. wait > 0 => level >= TargetBuffer
    <3> HIDE DEF rep, beta
    <3> QED
      BY <2>5, <2>6, <2>7
  <2>9. GoodReply(bufferNow, TargetBuffer, TomatoUpperbound)
    <3> HIDE DEF wait, level
    <3> QED
      BY <2>2, <2>7, <2>8, Constants, SegmentAssumption
         DEF GoodReply, TomatoOver, TomatoUpperbound, TargetBuffer, Larger
  <2>10. m_multipleTinyDrop' \in 0 .. 3
    BY <1>2 DEF TomatoReply, CountTinyDrops
  <2> QED
    BY <2>1, <2>2, <2>3, <2>4, <2>7, <2>9, <2>10
<1> QED
  BY <1>1, <1>2

-----------------------------------------------------------------------------
(* The inductive invariant.                                                *)

\* After its delay the buffer has room for a segment; before the third decision, when
\* Festive sets no delay, it has it by the segments that have arrived.
RoomForSegment ==
  algo # "constbitrate" => bufferLevel - nextDownloadDelay <= Upperbound - SegmentDuration

Startup ==
  /\ segmentCounter = 0 => m_lastRepIndex = 0
  /\ segmentCounter <= 1 => bufferLevel = 0
  /\ segmentCounter = 2 => bufferLevel <= SegmentDuration

IInv ==
  /\ TypeOK
  /\ IndexInRange
  /\ DelayLeavesReserve
  /\ BufferBounded
  /\ RoomForSegment
  /\ Startup

LEMMA Bounds ==
  ASSUME algo \in Algorithms
  PROVE  /\ Upperbound \in Nat
         /\ Reserve \in Nat
         /\ algo # "constbitrate" => 2 * SegmentDuration <= Upperbound
<1>1. algo = "tobasco" => Upperbound = TobascoUpperbound /\ Reserve = bMin
  BY DEF Upperbound, Reserve
<1>2. algo = "festive" => Upperbound = 13 * SegmentDuration /\ Reserve = SegmentDuration
  BY DEF Upperbound, Reserve
<1>3. algo = "sara" => Upperbound = SaraHigh + SegmentDuration /\ Reserve = SaraMin
  BY DEF Upperbound, Reserve
<1>4. algo = "tomato" => Upperbound = TomatoUpperbound /\ Reserve = TargetBuffer
  BY DEF Upperbound, Reserve
<1>5. algo = "constbitrate" => Upperbound = MaxLevel /\ Reserve = MaxLevel
  BY DEF Upperbound, Reserve
<1> QED
  BY <1>1, <1>2, <1>3, <1>4, <1>5, Constants, LoopAssumption
     DEF Algorithms, TobascoUpperbound, bMin, SaraHigh, SaraMin, TomatoUpperbound, TargetBuffer

LEMMA InitIInv == Init => IInv
<1> SUFFICES ASSUME Init PROVE IInv
  OBVIOUS
<1>1. TypeOK
  <2>1. betaFell \in BOOLEAN /\ m_runningFastStart \in BOOLEAN
    BY Zenon DEF Init
  <2> QED
    BY <2>1, Constants DEF Init, TypeOK, SmoothSteps
<1>2. Upperbound \in Nat /\ (algo # "constbitrate" => 2 * SegmentDuration <= Upperbound)
  BY Bounds DEF Init
<1>3. IndexInRange /\ DelayLeavesReserve /\ BufferBounded /\ RoomForSegment /\ Startup
  BY <1>2, Constants DEF Init, IndexInRange, DelayLeavesReserve, BufferBounded, RoomForSegment,
                         Startup
<1> QED
  BY <1>1, <1>3 DEF IInv

\* A decision on a level within the bound keeps all that does not depend on how the
\* level came about.
LEMMA DecisionGood ==
  ASSUME TypeOK, m_lastRepIndex \in RepIndex, NEW bandwidth \in Bandwidths,
         GetNextRep(bandwidth), algo' = algo, bufferLevel' \in Nat,
         segmentCounter' \in 0 .. 4, bufferLevel' <= Upperbound,
         segmentCounter < 3 => bufferLevel' <= 2 * SegmentDuration,
         segmentCounter = 0 => bufferLevel' = 0
  PROVE  (TypeOK /\ IndexInRange /\ DelayLeavesReserve /\ BufferBounded /\ RoomForSegment)'
<1> DEFINE now == bufferLevel'
<1>1. bandwidth \in Nat \ {0}
  BY LoopAssumption
<1>2. Upperbound' = Upperbound /\ Reserve' = Reserve
  BY DEF Upperbound, Reserve
<1>3. SUFFICES /\ algo # "constbitrate" => GoodReply(now, Reserve, Upperbound)
               /\ algo = "constbitrate" => nextDownloadDelay' = 0
               /\ m_lastRepIndex' \in Int
               /\ algo \notin {"sara", "constbitrate"} => m_lastRepIndex' \in RepIndex
               /\ algo = "sara" => m_lastRepIndex' \in -1 .. HighestRepIndex
               /\ algo = "constbitrate" => m_lastRepIndex' = ConstRepIndex
               /\ m_runningFastStart' \in BOOLEAN
               /\ steady' \in 0 .. SmoothSteps
               /\ m_expBuffer' \in Nat
               /\ m_multipleTinyDrop' \in 0 .. 3
               /\ betaSteps' \in 0 .. 2 * HighestRepIndex
               /\ betaFell' \in BOOLEAN
  <2>1. TypeOK'
    BY <1>3 DEF TypeOK, GoodReply
  <2>2. IndexInRange'
    BY <1>3, Constants DEF IndexInRange, RepIndex, ConstRepIndex
  <2>3. (DelayLeavesReserve /\ RoomForSegment)'
    BY <1>2, <1>3 DEF DelayLeavesReserve, RoomForSegment, GoodReply
  <2>4. BufferBounded'
    BY <1>2 DEF BufferBounded
  <2> QED
    BY <2>1, <2>2, <2>3, <2>4
<1>4. CASE Tobasco(bandwidth)
  <2>1. PICK throughput \in Bandwidths : TobascoReply(now, bandwidth, throughput)
    BY <1>4 DEF Tobasco
  <2>2. throughput \in Nat
    BY LoopAssumption
  <2>3. /\ GoodReply(now, bMin, TobascoUpperbound)
        /\ m_lastRepIndex' \in RepIndex
        /\ m_runningFastStart' \in BOOLEAN
    BY <1>1, <2>1, <2>2, TobascoGood DEF TypeOK
  <2>4. algo = "tobasco" /\ Reserve = bMin /\ Upperbound = TobascoUpperbound
    BY <1>4 DEF Tobasco, Reserve, Upperbound
  <2>5. UNCHANGED <<steady, m_expBuffer, m_multipleTinyDrop, betaSteps, betaFell>>
    BY <1>4 DEF Tobasco, tomatoVars
  <2> QED
    BY <2>3, <2>4, <2>5 DEF TypeOK, RepIndex
<1>5. CASE Festive(bandwidth)
  <2>1. PICK randBuf \in RandBuf : FestiveReply(now, bandwidth, randBuf)
    BY <1>5 DEF Festive
  <2>2. segmentCounter \in Nat
    BY DEF TypeOK
  <2>3. /\ GoodReply(now, SegmentDuration, 13 * SegmentDuration)
        /\ m_lastRepIndex' \in RepIndex
        /\ steady' \in 0 .. SmoothSteps
    BY <1>1, <2>1, <2>2, FestiveGood DEF TypeOK
  <2>4. algo = "festive" /\ Reserve = SegmentDuration /\ Upperbound = 13 * SegmentDuration
    BY <1>5 DEF Festive, Reserve, Upperbound
  <2>5. UNCHANGED <<m_runningFastStart, m_expBuffer, m_multipleTinyDrop, betaSteps, betaFell>>
    BY <1>5 DEF Festive, tomatoVars
  <2> QED
    BY <2>3, <2>4, <2>5 DEF TypeOK, RepIndex
<1>6. CASE Sara(bandwidth)
  <2>1. PICK bits \in SegmentBits : SaraReply(now, bandwidth, bits)
    BY <1>6 DEF Sara
  <2>2. /\ GoodReply(now, SaraMin, SaraHigh + SegmentDuration)
        /\ m_lastRepIndex' \in -1 .. HighestRepIndex
    BY <1>1, <2>1, SaraGood
  <2>3. algo = "sara" /\ Reserve = SaraMin /\ Upperbound = SaraHigh + SegmentDuration
    BY <1>6 DEF Sara, Reserve, Upperbound
  <2>4. UNCHANGED <<m_runningFastStart, steady, m_expBuffer, m_multipleTinyDrop, betaSteps, betaFell>>
    BY <1>6 DEF Sara, tomatoVars
  <2> QED
    BY <2>2, <2>3, <2>4 DEF TypeOK
<1>7. CASE Tomato(bandwidth)
  <2>1. /\ GoodReply(now, TargetBuffer, TomatoUpperbound)
        /\ m_lastRepIndex' \in RepIndex
        /\ m_expBuffer' \in Nat
        /\ m_multipleTinyDrop' \in 0 .. 3
        /\ betaSteps' \in 0 .. 2 * HighestRepIndex
        /\ betaFell' \in BOOLEAN
    BY <1>1, <1>7, TomatoGood DEF Tomato, TypeOK
  <2>2. algo = "tomato" /\ Reserve = TargetBuffer /\ Upperbound = TomatoUpperbound
    BY <1>7 DEF Tomato, Reserve, Upperbound
  <2>3. UNCHANGED <<m_runningFastStart, steady>>
    BY <1>7 DEF Tomato
  <2> QED
    BY <2>1, <2>2, <2>3 DEF TypeOK, RepIndex
<1>8. CASE ConstBitrate
  BY <1>8 DEF ConstBitrate, Reply, TypeOK, tomatoVars, ConstRepIndex
<1> QED
  BY <1>4, <1>5, <1>6, <1>7, <1>8 DEF GetNextRep

LEMMA StepIInv == IInv /\ [Next]_vars => IInv'
<1> SUFFICES ASSUME IInv, [Next]_vars PROVE IInv'
  OBVIOUS
<1>1. CASE UNCHANGED vars
  BY <1>1 DEF IInv, TypeOK, IndexInRange, DelayLeavesReserve, BufferBounded, RoomForSegment,
              Startup, vars, replyVars, tomatoVars, Upperbound, Reserve
<1>2. ASSUME NEW bandwidth \in Bandwidths, FirstSegment(bandwidth)
      PROVE  IInv'
  <2>1. m_lastRepIndex \in RepIndex
    BY <1>2, Constants DEF FirstSegment, IInv, Startup, RepIndex
  <2>2. Upperbound \in Nat
    BY Bounds DEF IInv, TypeOK
  <2>3. (TypeOK /\ IndexInRange /\ DelayLeavesReserve /\ BufferBounded /\ RoomForSegment)'
    BY <1>2, <2>1, <2>2, Constants, DecisionGood DEF FirstSegment, IInv
  <2>4. Startup'
    BY <1>2, Constants DEF FirstSegment, Startup
  <2> QED
    BY <2>3, <2>4 DEF IInv
<1>3. ASSUME NEW bandwidth \in Bandwidths, NEW left \in LevelsLeft, NextSegment(bandwidth, left)
      PROVE  IInv'
  <2>1. m_lastRepIndex \in RepIndex /\ algo' = algo /\ GetNextRep(bandwidth)
    BY <1>3 DEF NextSegment
  <2>2. /\ Upperbound \in Nat
        /\ algo # "constbitrate" => 2 * SegmentDuration <= Upperbound
    BY Bounds DEF IInv, TypeOK
  <2>3. /\ bufferLevel \in Nat /\ nextDownloadDelay \in Nat
        /\ segmentCounter \in 1 .. 4 /\ segmentCounter' \in 2 .. 4
        /\ segmentCounter' = 2 => segmentCounter = 1
    BY <1>3 DEF IInv, TypeOK, NextSegment
  <2>4. /\ left \in Nat /\ left <= bufferLevel
        /\ algo # "constbitrate" => left <= Upperbound - SegmentDuration
    BY <1>3, <2>2, <2>3, Constants DEF LevelsLeft, Larger, IInv, RoomForSegment
  <2>5. bufferLevel' = left + SegmentDuration /\ bufferLevel' \in Nat
    BY <1>3, <2>4, Constants DEF NextSegment
  <2>6. bufferLevel' <= Upperbound
    <3>1. CASE algo # "constbitrate"
      BY <3>1, <2>2, <2>4, <2>5, Constants
    <3>2. CASE algo = "constbitrate"
      BY <3>2, <2>1
         DEF GetNextRep, Tobasco, Festive, Sara, Tomato, ConstBitrate, Upperbound
    <3> QED
      BY <3>1, <3>2
  <2>7. segmentCounter < 3 => bufferLevel <= SegmentDuration
    BY <2>3, Constants DEF IInv, Startup
  <2>8. segmentCounter < 3 => bufferLevel' <= 2 * SegmentDuration
    BY <2>3, <2>4, <2>5, <2>7, Constants
  <2>9. (TypeOK /\ IndexInRange /\ DelayLeavesReserve /\ BufferBounded /\ RoomForSegment)'
    BY <2>1, <2>3, <2>5, <2>6, <2>8, DecisionGood DEF IInv
  <2>10. Startup'
    BY <2>3, <2>4, <2>5, Constants DEF Startup, IInv
  <2> QED
    BY <2>9, <2>10 DEF IInv
<1> QED
  BY <1>1, <1>2, <1>3 DEF Next, Decide

\* The five parts hold together: what an algorithm may find in the buffer depends on
\* the delay it set before, and the delay it sets on what it finds.
THEOREM LoopInvariance == Spec => []IInv
  BY InitIInv, StepIInv, PTL DEF Spec

\* Every variable keeps its type.
THEOREM LoopTypes == Spec => []TypeOK
<1>1. IInv => TypeOK
  BY DEF IInv
<1> QED
  BY <1>1, LoopInvariance, PTL

\* Tobasco, Festive and Tomato always reply a representation of the video, and Sara
\* never one above it.
THEOREM RepliesInRange == Spec => []IndexInRange
<1>1. IInv => IndexInRange
  BY DEF IInv
<1> QED
  BY <1>1, LoopInvariance, PTL

\* A delay always leaves the buffer its reserve.
THEOREM DelaysLeaveReserve == Spec => []DelayLeavesReserve
<1>1. IInv => DelayLeavesReserve
  BY DEF IInv
<1> QED
  BY <1>1, LoopInvariance, PTL

\* The buffer stays within the bound of the algorithm.
THEOREM BufferStaysBounded == Spec => []BufferBounded
<1>1. IInv => BufferBounded
  BY DEF IInv
<1> QED
  BY <1>1, LoopInvariance, PTL

=============================================================================
