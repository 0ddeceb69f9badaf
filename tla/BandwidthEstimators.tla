------------------------ MODULE BandwidthEstimators ------------------------
(***************************************************************************)
(* The five bandwidth estimators, bandwidth-*.cc.  A client asks one of    *)
(* them before every request, when the segment before has been received.   *)
(* They read the same history, so the model asks all five at once.         *)
(*                                                                         *)
(* A bandwidth is an exact fraction <<bits, time>>: the doubles of the     *)
(* code are taken for exact, the cast to int64_t in AverageBandwidth's     *)
(* caller is kept.  A time unit stands for some seconds; no segment is     *)
(* received in no time, which would be a division by zero.  The build is   *)
(* one without assertions, which goes on where WindowOrdered fails.        *)
(***************************************************************************)
EXTENDS Integers, Sequences, SequencesExt

CONSTANTS
  Sizes,         \* the sizes of a segment, in bits
  Durations,     \* how long it may take to receive one
  IdleTimes,     \* how long a client may wait before it asks for one
  m_windowSize,  \* 5 segments
  m_deltaTime_1, m_deltaTime_2,  \* 10 and 30 seconds
  NoRate,        \* what the cast of 0/0 to int64_t gives, on a given machine
  SegmentCount   \* bound: segments received

ASSUME EstimatorAssumption ==
  /\ Sizes \subseteq Nat \ {0}
  /\ Durations \subseteq Nat \ {0}
  /\ m_windowSize \in Nat \ {0}
  /\ IdleTimes \subseteq Nat
  /\ m_deltaTime_1 \in Nat /\ m_deltaTime_2 \in Nat
  /\ NoRate \in Int
  /\ SegmentCount \in Nat

VARIABLES
  timeNow,
  segments,         \* the history: [start, end, size] of every segment received
  longAvg,          \* m_lastBandwidthEstimate of BandwidthLongAvgAlgorithm
  bandwidthanswer   \* the estimate of each algorithm

bwVars == <<timeNow, segments, longAvg, bandwidthanswer>>

-----------------------------------------------------------------------------
(* Fractions with a positive denominator.                                  *)

Gcd(n, d) == Max({k \in 1 .. d : n % k = 0 /\ d % k = 0})

Reduced(n, d) == <<n \div Gcd(n, d), d \div Gcd(n, d)>>

Zero == <<0, 1>>
Plus(p, q) == Reduced(p[1] * q[2] + q[1] * p[2], p[2] * q[2])
Minus(p, q) == Reduced(p[1] * q[2] - q[1] * p[2], p[2] * q[2])
Over(p, n) == Reduced(p[1], p[2] * n)
Leq(p, q) == p[1] * q[2] <= q[1] * p[2]
Same(p, q) == p[1] * q[2] = q[1] * p[2]

\* The cast to int64_t.  A window whose ends have crossed has no segments, and 0/0 is
\* not a number.
Truncated(p) == IF p[2] = 0 THEN NoRate ELSE p[1] \div p[2]

-----------------------------------------------------------------------------
(* The algorithms.  segs is the history, segmentCounter its length.        *)

Rate(s) == <<s.size, s.end - s.start>>
Pause(s) == <<s.end - s.start, s.size>>

Rates(segs) == [i \in 1 .. Len(segs) |-> Rate(segs[i])]
Pauses(segs) == [i \in 1 .. Len(segs) |-> Pause(segs[i])]

Total(numbers) == FoldLeft(LAMBDA sum, n : sum + n, 0, numbers)
SumOf(fractions) == FoldLeft(Plus, Zero, fractions)

\* The last segments, at most m_windowSize.
Window(segs) == SubSeq(segs, Max({1, Len(segs) - m_windowSize + 1}), Len(segs))

\* All bits over all time.
Pooled(segs) ==
  <<Total([i \in 1 .. Len(segs) |-> segs[i].size]),
    Total([i \in 1 .. Len(segs) |-> segs[i].end - segs[i].start])>>

WHarmonic(segs) == IF segs = <<>> THEN Zero ELSE Pooled(Window(segs))

\* Mutant: the sum is divided by the size of a full window.
AvgInFullWindow(segs) ==
  IF segs = <<>> THEN Zero
  ELSE Over(SumOf(Rates(Window(segs))), m_windowSize)

AvgInChunk(segs) ==
  IF segs = <<>> THEN Zero
  ELSE Over(SumOf(Rates(Window(segs))), Len(Window(segs)))

Harmonic(segs) ==
  IF segs = <<>> THEN Zero
  ELSE LET sum == SumOf(Pauses(Window(segs)))
       IN <<Len(Window(segs)) * sum[2], sum[1]>>

LongAvg(segs, last) ==
  IF segs = <<>> THEN last
  ELSE IF Len(segs) = 1 THEN Rate(segs[1])
  ELSE Plus(last, Over(Minus(Rate(segs[Len(segs)]), last), Len(segs)))

\* The first segment that ended in or after the window, and the last one that
\* began in or before it; without one, the ends of the history.
IndexStart(segs, t_1) ==
  LET late == {i \in 1 .. Len(segs) : segs[i].end >= t_1}
  IN IF late = {} THEN 1 ELSE CHOOSE i \in late : \A j \in late : i <= j

\* Mutant: the last one that ended in or before it.
IndexEndByEnd(segs, t_2) ==
  LET early == {i \in 1 .. Len(segs) : segs[i].end <= t_2}
  IN IF early = {} THEN Len(segs) ELSE CHOOSE i \in early : \A j \in early : i >= j

IndexEnd(segs, t_2) ==
  LET early == {i \in 1 .. Len(segs) : segs[i].start <= t_2}
  IN IF early = {} THEN Len(segs) ELSE CHOOSE i \in early : \A j \in early : i >= j

\* t_1 is not before the beginning of the simulation.
FromStart(t_1) == IF t_1 < 0 THEN 0 ELSE t_1

\* An empty history gives the last estimate, which is then still 0.
AverageBandwidth(segs, t_1, t_2) ==
  IF segs = <<>> THEN Zero
  ELSE Pooled(SubSeq(segs, IndexStart(segs, FromStart(t_1)), IndexEnd(segs, t_2)))

\* The windows read at time t: the latest, and after some time the one before.
Windows(t) ==
  LET latest == <<t - m_deltaTime_1, t>>
      earlier == <<t - m_deltaTime_2, t - m_deltaTime_1>>
  IN IF t <= m_deltaTime_1 THEN <<latest>> ELSE <<latest, earlier>>

AvgInTime(segs, t) ==
  <<Total([i \in 1 .. Len(Windows(t)) |->
             Truncated(AverageBandwidth(segs, Windows(t)[i][1], Windows(t)[i][2]))]),
    Len(Windows(t))>>

-----------------------------------------------------------------------------
(* The steps.                                                              *)

BandwidthAlgo(segs, t) ==
  /\ longAvg' = LongAvg(segs, longAvg)
  /\ bandwidthanswer' =
       [wharmonic |-> WHarmonic(segs), avginchunk |-> AvgInChunk(segs),
        harmonic |-> Harmonic(segs), avgintime |-> AvgInTime(segs, t),
        longavg |-> LongAvg(segs, longAvg)]

\* The first request, without a history.
FirstRequest(t) ==
  /\ bandwidthanswer = <<>>
  /\ timeNow' = t
  /\ BandwidthAlgo(segments, t)
  /\ UNCHANGED segments

\* A segment is received after a pause, and the next one is about to be requested.
SegmentReceived(idle, duration, size) ==
  /\ bandwidthanswer # <<>>
  /\ Len(segments) < SegmentCount
  /\ timeNow' = timeNow + idle + duration
  /\ segments' = Append(segments, [start |-> timeNow + idle, end |-> timeNow',
                                   size |-> size])
  /\ BandwidthAlgo(segments', timeNow')

BwInit ==
  /\ timeNow = 0
  /\ segments = <<>>
  /\ longAvg = Zero
  /\ bandwidthanswer = <<>>

BwNext ==
  \/ \E t \in IdleTimes : FirstRequest(t)
  \/ \E idle \in IdleTimes, duration \in Durations, size \in Sizes :
       SegmentReceived(idle, duration, size)

BwSpec == BwInit /\ [][BwNext]_bwVars

-----------------------------------------------------------------------------
(* Properties.                                                             *)

Fraction(p) == p[1] \in Nat /\ p[2] \in Nat \ {0}

\* The types of the variables; every estimate has a denominator.
BwTypeOK ==
  /\ timeNow \in Nat
  /\ segments \in Seq([start : Nat, end : Nat, size : Sizes])
  /\ Fraction(longAvg)
  /\ \A a \in DOMAIN bandwidthanswer :
       /\ bandwidthanswer[a][1] \in IF a = "avgintime" THEN Int ELSE Nat
       /\ bandwidthanswer[a][2] \in Nat \ {0}

\* The assertion of AverageBandwidth, "indexEnd should be >= indexStart": the windows
\* in time have a segment.
WindowOrdered ==
  segments # <<>> =>
    \A i \in 1 .. Len(Windows(timeNow)) :
      IndexStart(segments, FromStart(Windows(timeNow)[i][1]))
        <= IndexEnd(segments, Windows(timeNow)[i][2])

LongPause ==
  \E i \in 1 .. Len(segments) - 1 :
    segments[i + 1].start - segments[i].end > m_deltaTime_2 - m_deltaTime_1

\* The ends of a window cross only when the client has waited between two segments for
\* longer than the earlier window lasts, however late it has begun.
OrderedUnlessIdle == LongPause \/ WindowOrdered

\* The estimate, give or take what the cast takes off, is between two rates.
Between(p, cast, segs) ==
  /\ \E i \in 1 .. Len(segs) : Leq(Rate(segs[i]), Plus(p, cast))
  /\ \E i \in 1 .. Len(segs) : Leq(p, Rate(segs[i]))

WithinRates ==
  /\ \A a \in {"wharmonic", "avginchunk", "harmonic"} :
       Between(bandwidthanswer[a], Zero, Window(segments))
  /\ Between(bandwidthanswer.longavg, Zero, segments)
  /\ WindowOrdered => Between(bandwidthanswer.avgintime, <<1, 1>>, segments)

MeansAgree ==
  /\ Same(bandwidthanswer.longavg, Over(SumOf(Rates(segments)), Len(segments)))
  /\ Leq(bandwidthanswer.harmonic, bandwidthanswer.avginchunk)

\* The estimators are means of what they look at.  None of them invents bandwidth:
\* each answers with something between the slowest and the fastest download - of
\* the last m_windowSize segments for three of them, from the first segment on -,
\* up to the bit that the cast takes off the average in time, and that one only where
\* its windows have not crossed.  The long-term one, which keeps only its last value,
\* is the mean of all rates, and in the window the harmonic mean is not above the
\* arithmetic one.
EstimatesAreMeans == segments # <<>> => WithinRates /\ MeansAgree

=============================================================================
