------------------------ MODULE CrossLayerEstimator ------------------------
(***************************************************************************)
(* The bandwidth estimate from the physical layer: updateScale, BWEstimate *)
(* and GetPhyRate of tcp-stream-client.cc, on the transport blocks that    *)
(* phy-rx-stats-calculator.cc collects.  Every client computes it with     *)
(* every request; it is used for the request when CROSSLAYER is set.       *)
(*                                                                         *)
(* The blocks, the pauses, traceBegin and lastEndTime are globals, shared  *)
(* by all clients.  The model stops at the samples, a number of bits over  *)
(* a scale in milliseconds each; how they are smoothed is left out.        *)
(***************************************************************************)
EXTENDS Integers, Sequences, SequencesExt

CONSTANTS
  ClientIds,
  TbSizes,        \* the sizes of a transport block
  IntervalTime,   \* 500 ms, between samples and to both sides of one
  FewBlocks,      \* 39: without a block in the interval, as many as these are taken
  SampleMax,      \* 50
  BlockMax,       \* 5000: the blocks GetCorrectTbs returns
  ClockMax, DecisionMax, ReceptionMax  \* bounds of the model

ASSUME CrossLayerAssumption ==
  /\ TbSizes \subseteq Nat
  /\ IntervalTime \in Nat \ {0} /\ FewBlocks \in Nat
  /\ SampleMax \in Nat /\ BlockMax \in Nat \ {0}
  /\ ClockMax \in Nat /\ DecisionMax \in Nat /\ ReceptionMax \in Nat

VARIABLES
  clock,        \* simulation time in milliseconds
  result,       \* the blocks received, the latest first
  pause,        \* <<start, end>> of the pauses logged
  traceBegin,
  lastEndTime,  \* when a client, any client, last received a segment
  begun,        \* the clients whose m_segmentCounter has left 0
  samples,      \* phy_throughput of the last estimate
  firstOne      \* that estimate was for a client's first segment

xVars == <<clock, result, pause, traceBegin, lastEndTime, begun, samples, firstOne>>

-----------------------------------------------------------------------------
(* The estimate.                                                           *)

\* The deque is filled up with blocks of time 0, or loses the oldest.
GetCorrectTbs ==
  [i \in 1 .. BlockMax |-> IF i <= Len(result) THEN result[i] ELSE [timestamp |-> 0, tbsize |-> 0]]

Oldest(new_stats) == new_stats[Len(new_stats)].timestamp
Newest(new_stats) == new_stats[1].timestamp

\* What a pause takes off the time between the oldest and the newest block.
Subtracted(p, new_stats) ==
  LET oldest == Oldest(new_stats) IN
  IF 0 < oldest /\ oldest < p[1] /\ Newest(new_stats) > p[2] THEN p[2] - p[1]
  ELSE IF 0 < oldest /\ p[1] < oldest /\ oldest < p[2] THEN p[2] - oldest
  ELSE 0

updateScale(scale, pauses, new_stats) ==
  IF new_stats = <<>> THEN scale
  ELSE FoldLeft(LAMBDA rest, p : rest - Subtracted(p, new_stats), scale, pauses)

\* The index of the block nearest to a time - of the first before it, in effect,
\* since the differences compared are signed.
Nearest(phy_stats, RequestTime) ==
  LET before == {i \in 2 .. Len(phy_stats) : phy_stats[i].timestamp < RequestTime}
      i == CHOOSE first \in before : \A j \in before : first <= j
  IN IF before = {} THEN 1
     ELSE IF phy_stats[i].timestamp - RequestTime < phy_stats[i - 1].timestamp - RequestTime
          THEN i ELSE i - 1

Traced(block) == block.timestamp >= traceBegin /\ traceBegin > 0

\* The blocks of a sequence that are in a set, in their order.
Kept(stats, blocks) ==
  FoldLeft(LAMBDA kept, b : IF b \in blocks THEN Append(kept, b) ELSE kept, <<>>, stats)

\* The blocks after and before that index, the latest first; without one near
\* enough in time, the few that are nearest in number.
RightOf(phy_stats, L, RequestTime) ==
  LET traced == {b \in Range(phy_stats) : Traced(b)}
      right == Kept(SubSeq(phy_stats, L, Len(phy_stats)),
                    {b \in traced : b.timestamp < RequestTime})
      near == Kept(right, {b \in traced : /\ RequestTime >= IntervalTime
                                          /\ b.timestamp > RequestTime - IntervalTime})
  IN IF near # <<>> THEN near ELSE SubSeq(right, 1, Min({FewBlocks, Len(right)}))

LeftOf(phy_stats, L, RequestTime) ==
  LET traced == {b \in Range(phy_stats) : Traced(b)}
      left == Kept(SubSeq(phy_stats, 2, L), {b \in traced : b.timestamp > RequestTime})
      near == Kept(left, {b \in traced : b.timestamp < RequestTime + IntervalTime})
  IN IF near # <<>> THEN near
     ELSE SubSeq(left, Max({0, Len(left) - FewBlocks}) + 1, Len(left))

\* The two latest blocks count for nothing.
CumTbs(new_stats) == FoldLeft(LAMBDA sum, b : sum + b.tbsize, 0, SubSeq(new_stats, 3, Len(new_stats)))

Sample(new_stats, pauses) ==
  LET span == Newest(new_stats) - Oldest(new_stats)
  IN [tbs |-> CumTbs(new_stats), span |-> span, scale |-> updateScale(span, pauses, new_stats)]

\* One round of the loop: a sample when there are more than three blocks, which are
\* otherwise kept for the next.
Round(r, phy_stats, pauses) ==
  LET L == Nearest(phy_stats, r.RequestTime)
      new_stats == r.new_stats \o LeftOf(phy_stats, L, r.RequestTime)
                     \o RightOf(phy_stats, L, r.RequestTime)
      enough == Len(new_stats) > 3
  IN [RequestTime |-> r.RequestTime - IntervalTime,
      more |-> r.RequestTime > IntervalTime,
      new_stats |-> IF enough THEN <<>> ELSE new_stats,
      phy_throughput |-> IF enough THEN Append(r.phy_throughput, Sample(new_stats, pauses))
                         ELSE r.phy_throughput]

BWEstimate(phy_stats, pauses) ==
  LET latest == Newest(phy_stats)
      first == [RequestTime |-> IF latest > IntervalTime THEN latest - IntervalTime ELSE latest,
                more |-> TRUE, new_stats |-> <<>>, phy_throughput |-> <<>>]
      round[k \in 0 .. SampleMax] ==
        IF k = 0 THEN first
        ELSE IF round[k - 1].more /\ round[k - 1].RequestTime > Oldest(phy_stats)
             THEN Round(round[k - 1], phy_stats, pauses)
             ELSE round[k - 1]
  IN round[SampleMax].phy_throughput

-----------------------------------------------------------------------------
(* The steps.                                                              *)

Passes ==
  /\ clock < ClockMax
  /\ clock' = clock + 1
  /\ UNCHANGED <<result, pause, traceBegin, lastEndTime, begun, samples, firstOne>>

\* A block reaches a user equipment, any one: only the first transmission of one
\* received correctly is kept.
DlPhyReception(m_size, m_rv, m_correctness) ==
  /\ Len(result) < ReceptionMax
  /\ result' = IF m_correctness = 1 /\ m_rv = 0
               THEN <<[timestamp |-> clock, tbsize |-> m_size]>> \o result ELSE result
  /\ UNCHANGED <<clock, pause, traceBegin, lastEndTime, begun, samples, firstOne>>

Logged(start, end) ==
  IF start > 0 /\ end > 0 THEN Append(pause, <<start, end>>) ELSE pause

\* Mutant: the beginning of the trace is set once for all clients.
TraceBeginOnce(c) == IF c \notin begun /\ traceBegin = 0 THEN clock ELSE traceBegin

\* Mutant: the trace begins an interval earlier.
TraceBeginBefore(c) == IF c \notin begun THEN clock - IntervalTime ELSE traceBegin

TraceBegin(c) == IF c \notin begun THEN clock ELSE traceBegin

\* PauseStartTime is lastEndTime as it is then.
RequestRepIndex(c, PauseStartTime) ==
  /\ Len(pause) < DecisionMax
  /\ pause' = Logged(PauseStartTime, clock)
  /\ samples' = BWEstimate(GetCorrectTbs, pause')
  /\ traceBegin' = TraceBegin(c)
  /\ firstOne' = (c \notin begun)
  /\ begun' = begun \union {c}
  /\ UNCHANGED <<clock, result>>

\* A client has its connection.
FirstDecision(c) ==
  /\ c \notin begun
  /\ RequestRepIndex(c, lastEndTime)
  /\ UNCHANGED lastEndTime

\* Mutant: the end of the download is noted after the decision.
SegmentReceivedLate(c) ==
  /\ c \in begun
  /\ lastEndTime' = clock
  /\ RequestRepIndex(c, lastEndTime)

\* A client has received a segment, and decides on the next at once.
SegmentReceivedHandle(c) ==
  /\ c \in begun
  /\ lastEndTime' = clock
  /\ RequestRepIndex(c, lastEndTime')

\* Or it was the last one.
LastSegmentReceived(c) ==
  /\ c \in begun
  /\ lastEndTime' = clock
  /\ UNCHANGED <<clock, result, pause, traceBegin, begun, samples, firstOne>>

XInit ==
  /\ clock = 0
  /\ result = <<>>
  /\ pause = <<>>
  /\ traceBegin = 0
  /\ lastEndTime = 0
  /\ begun = {}
  /\ samples = <<>>
  /\ firstOne = TRUE

XNext ==
  \/ Passes
  \/ \E m_size \in TbSizes, m_rv \in {0, 1}, m_correctness \in {0, 1} :
       DlPhyReception(m_size, m_rv, m_correctness)
  \/ \E c \in ClientIds :
       FirstDecision(c) \/ SegmentReceivedHandle(c) \/ LastSegmentReceived(c)

XSpec == XInit /\ [][XNext]_xVars

-----------------------------------------------------------------------------
(* Properties.                                                             *)

\* The types of the variables.
XTypeOK ==
  /\ clock \in Nat
  /\ result \in Seq([timestamp : Nat, tbsize : TbSizes])
  /\ pause \in Seq(Nat \X Nat)
  /\ traceBegin \in Nat
  /\ lastEndTime \in Nat
  /\ begun \subseteq ClientIds
  /\ samples \in Seq([tbs : Nat, span : Int, scale : Int])
  /\ firstOne \in BOOLEAN

\* Though all clients write the same globals: a pause ends after it begins, and one
\* of some length was over when the trace that is read now began.  Such pauses are
\* only logged by a client's first request, which then begins the trace anew.
NoPauseInTrace ==
  \A i \in 1 .. Len(pause) :
    /\ pause[i][1] <= pause[i][2] /\ pause[i][2] <= clock
    /\ pause[i][1] < pause[i][2] => pause[i][2] <= traceBegin

\* So no pause shortens a sample, except in the estimate for a client's first
\* segment: the scale is the whole time between the first and the last block.
\* (That time is itself negative when blocks kept from the round before, with a gap
\* after them, come ahead of later ones.)
ScaleNotShortened ==
  ~firstOne => \A i \in 1 .. Len(samples) : samples[i].scale = samples[i].span

=============================================================================
