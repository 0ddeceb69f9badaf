--------------------- MODULE CrossLayerEstimatorProofs ---------------------
(***************************************************************************)
(* The pauses that all clients log in one list do no harm to a trace, for  *)
(* any number of clients, any order of their requests and any times; and   *)
(* through all rounds of BWEstimate, whatever blocks they read, the scale  *)
(* of a sample is the time between its blocks.                             *)
(***************************************************************************)
EXTENDS MCEstimation, BandwidthEstimatorsProofs

\* What the clients share never lies in the future, and only the first request of a
\* client, which begins the trace anew, may log a pause of some length.
Shared ==
  /\ clock \in Nat
  /\ traceBegin \in Nat /\ traceBegin <= clock
  /\ lastEndTime \in Nat /\ lastEndTime <= clock
  /\ pause \in Seq(Nat \X Nat)
  /\ NoPauseInTrace

\* Nothing is logged at first.
LEMMA SharedBegins == XInit => Shared
  BY DEF XInit, Shared, NoPauseInTrace

\* Logging a pause that ends now keeps the list in order, provided that it is empty
\* or the trace begins now.
LEMMA LoggedKeeps ==
  ASSUME Shared, clock' = clock, NEW begin \in Nat, begin <= clock,
         pause' = Logged(begin, clock),
         traceBegin' = clock \/ (traceBegin' = traceBegin /\ begin = clock)
  PROVE  pause' \in Seq(Nat \X Nat) /\ NoPauseInTrace'
<1>1. clock \in Nat /\ traceBegin \in Nat /\ traceBegin <= clock /\ pause \in Seq(Nat \X Nat)
  BY DEF Shared
<1>2. CASE pause' = pause
  <2> SUFFICES ASSUME NEW i \in 1 .. Len(pause)
               PROVE  /\ pause[i][1] <= pause[i][2] /\ pause[i][2] <= clock
                      /\ pause[i][1] < pause[i][2] => pause[i][2] <= traceBegin'
    BY <1>1, <1>2 DEF NoPauseInTrace
  <2>1. pause[i] \in Nat \X Nat
    BY <1>1
  <2> QED
    BY <1>1, <2>1 DEF Shared, NoPauseInTrace
<1>3. CASE pause' = Append(pause, <<begin, clock>>)
  <2> DEFINE n == Len(pause)
  <2>1. n \in Nat /\ Len(pause') = n + 1 /\ pause' \in Seq(Nat \X Nat)
    BY <1>1, <1>3
  <2>2. pause'[n + 1] = <<begin, clock>> /\ \A i \in 1 .. n : pause'[i] = pause[i]
    BY <1>1, <1>3
  <2> SUFFICES ASSUME NEW i \in 1 .. n + 1
               PROVE  /\ pause'[i][1] <= pause'[i][2] /\ pause'[i][2] <= clock
                      /\ pause'[i][1] < pause'[i][2] => pause'[i][2] <= traceBegin'
    BY <2>1 DEF NoPauseInTrace
  <2>3. CASE i \in 1 .. n
    <3>1. pause[i] \in Nat \X Nat
      BY <1>1, <2>3
    <3> QED
      BY <1>1, <2>2, <2>3, <3>1 DEF Shared, NoPauseInTrace
  <2>4. CASE i = n + 1
    <3>1. pause'[i][1] = begin /\ pause'[i][2] = clock
      BY <2>2, <2>4
    <3>2. begin < clock => traceBegin' = clock
      BY <1>1
    <3> QED
      BY <1>1, <3>1, <3>2
  <2>5. i \in 1 .. n \/ i = n + 1
    BY <2>1
  <2> QED
    BY <2>3, <2>4, <2>5, Zenon
<1>4. pause' = pause \/ pause' = Append(pause, <<begin, clock>>)
  BY Zenon DEF Logged
<1> QED
  BY <1>2, <1>3, <1>4, Zenon

\* No step logs a pause in the trace.
LEMMA SharedStep ==
  ASSUME Shared, [XNext]_xVars
  PROVE  Shared'
<1> USE DEF Shared
<1>1. CASE Passes
  <2>1. pause' = pause /\ traceBegin' = traceBegin /\ clock' = clock + 1
    BY <1>1 DEF Passes
  <2>2. NoPauseInTrace'
    <3> SUFFICES ASSUME NEW i \in 1 .. Len(pause)
                 PROVE  /\ pause[i][1] <= pause[i][2] /\ pause[i][2] <= clock + 1
                        /\ pause[i][1] < pause[i][2] => pause[i][2] <= traceBegin
      BY <2>1 DEF NoPauseInTrace
    <3>1. pause[i] \in Nat \X Nat
      OBVIOUS
    <3>2. pause[i][1] \in Nat /\ pause[i][2] \in Nat
      BY <3>1
    <3>3. pause[i][1] <= pause[i][2] /\ pause[i][2] <= clock
      BY DEF NoPauseInTrace
    <3>4. pause[i][1] < pause[i][2] => pause[i][2] <= traceBegin
      BY DEF NoPauseInTrace
    <3> QED
      BY <3>2, <3>3, <3>4
  <2> QED
    BY <1>1, <2>1, <2>2 DEF Passes
<1>2. ASSUME NEW m_size \in TbSizes, NEW m_rv \in {0, 1}, NEW m_correctness \in {0, 1},
             DlPhyReception(m_size, m_rv, m_correctness)
      PROVE  Shared'
  BY <1>2 DEF DlPhyReception, NoPauseInTrace
<1>3. ASSUME NEW c \in ClientIds, FirstDecision(c)
      PROVE  Shared'
  <2>1. /\ pause' = Logged(lastEndTime, clock) /\ clock' = clock
        /\ traceBegin' = clock /\ lastEndTime' = lastEndTime
    BY <1>3 DEF FirstDecision, RequestRepIndex, TraceBegin
  <2>2. pause' \in Seq(Nat \X Nat) /\ NoPauseInTrace'
    BY <2>1, LoggedKeeps
  <2> QED
    BY <2>1, <2>2
<1>4. ASSUME NEW c \in ClientIds, SegmentReceivedHandle(c)
      PROVE  Shared'
  <2>1. /\ pause' = Logged(clock, clock) /\ clock' = clock
        /\ traceBegin' = traceBegin /\ lastEndTime' = clock
    BY <1>4 DEF SegmentReceivedHandle, RequestRepIndex, TraceBegin
  <2>2. pause' \in Seq(Nat \X Nat) /\ NoPauseInTrace'
    BY <2>1, LoggedKeeps
  <2> QED
    BY <2>1, <2>2
<1>5. ASSUME NEW c \in ClientIds, LastSegmentReceived(c)
      PROVE  Shared'
  BY <1>5 DEF LastSegmentReceived, NoPauseInTrace
<1>6. CASE UNCHANGED xVars
  BY <1>6 DEF xVars, NoPauseInTrace
<1> QED
  BY <1>1, <1>2, <1>3, <1>4, <1>5, <1>6 DEF XNext

\* NoPauseInTrace: a pause of some length was over when the trace began.
THEOREM PausesBeforeTrace == XSpec => []NoPauseInTrace
<1>1. XInit => Shared
  BY SharedBegins
<1>2. Shared /\ [XNext]_xVars => Shared'
  BY SharedStep
<1>3. Shared => NoPauseInTrace
  BY DEF Shared
<1> QED
  BY <1>1, <1>2, <1>3, PTL DEF XSpec

-----------------------------------------------------------------------------
(* What this means for a sample.                                           *)

\* A block as BWEstimate reads it: of a time and a size, those of time 0 that fill the
\* deque among them.
Block == [timestamp : Nat, tbsize : TbSizes \union {0}]

\* The blocks that belong to the trace.
InTrace == {b \in Block : Traced(b)}

\* A pause that was over when the trace began, or has no length, takes nothing off blocks
\* of the trace.
LEMMA PauseBeforeTrace ==
  ASSUME traceBegin \in Nat, NEW p \in Nat \X Nat,
         p[1] <= p[2], p[1] < p[2] => p[2] <= traceBegin,
         NEW new_stats \in Seq(InTrace), new_stats # <<>>
  PROVE  Subtracted(p, new_stats) = 0
<1> DEFINE oldest == Oldest(new_stats)
<1>1. oldest \in Nat /\ oldest >= traceBegin
  <2>1. Len(new_stats) \in 1 .. Len(new_stats)
    OBVIOUS
  <2>2. new_stats[Len(new_stats)] \in InTrace
    BY <2>1
  <2> QED
    BY <2>2, Zenon DEF Oldest, Traced, Block, InTrace
<1>2. p[1] \in Nat /\ p[2] \in Nat
  OBVIOUS
<1>3. Subtracted(p, new_stats) = IF 0 < oldest /\ oldest < p[1] /\ Newest(new_stats) > p[2]
                                 THEN p[2] - p[1]
                                 ELSE IF 0 < oldest /\ p[1] < oldest /\ oldest < p[2]
                                 THEN p[2] - oldest ELSE 0
  BY Zenon DEF Subtracted
<1> HIDE DEF oldest
<1> QED
  BY <1>1, <1>2, <1>3

\* No pause logged takes anything off blocks that belong to the trace: what updateScale
\* subtracts for each of them is zero.
THEOREM NothingSubtracted ==
  ASSUME Shared, NEW i \in 1 .. Len(pause),
         NEW new_stats \in Seq(InTrace), new_stats # <<>>
  PROVE  Subtracted(pause[i], new_stats) = 0
<1>1. pause[i] \in Nat \X Nat /\ traceBegin \in Nat
  BY DEF Shared
<1>2. /\ pause[i][1] <= pause[i][2]
      /\ pause[i][1] < pause[i][2] => pause[i][2] <= traceBegin
  BY DEF Shared, NoPauseInTrace
<1> QED
  BY <1>1, <1>2, PauseBeforeTrace

-----------------------------------------------------------------------------
(* Folds over a sequence, and rounds.                                      *)

\* A recursion over an interval has a solution.
RoundsOf(n, base, H, f) ==
  \A k \in 0 .. n : f[k] = IF k = 0 THEN base ELSE H[f[k - 1]]

\* There is such a recursion.
LEMMA RoundsExist ==
  ASSUME NEW n \in Nat, NEW R, NEW base \in R, NEW H \in [R -> R]
  PROVE  \E f \in [0 .. n -> R] : RoundsOf(n, base, H, f)
<1> DEFINE Solves(k, f) ==
             \A j \in 0 .. k : f[j] = IF j = 0 THEN base ELSE H[f[j - 1]]
           Good == {k \in 0 .. n : \E f \in [0 .. n -> R] : Solves(k, f)}
<1>1. 0 \in Good
  <2> DEFINE g == [j \in 0 .. n |-> base]
  <2>1. g \in [0 .. n -> R] /\ Solves(0, g)
    OBVIOUS
  <2> HIDE DEF g, Solves
  <2> QED
    BY <2>1
<1>2. ASSUME NEW k \in 1 .. n, k - 1 \in Good PROVE k \in Good
  <2>1. PICK f \in [0 .. n -> R] : Solves(k - 1, f)
    BY <1>2
  <2> DEFINE g == [j \in 0 .. n |-> IF j = k THEN H[f[k - 1]] ELSE f[j]]
  <2>2. g \in [0 .. n -> R]
    <3>1. f[k - 1] \in R
      OBVIOUS
    <3> QED
      BY <3>1
  <2>3. Solves(k, g)
    <3> SUFFICES ASSUME NEW j \in 0 .. k
                 PROVE  g[j] = IF j = 0 THEN base ELSE H[g[j - 1]]
      OBVIOUS
    <3>1. CASE j = k
      <4>1. k - 1 \in 0 .. n /\ k - 1 # k /\ k # 0 /\ k \in 0 .. n
        OBVIOUS
      <4>2. g[k] = H[f[k - 1]] /\ g[k - 1] = f[k - 1]
        BY <4>1
      <4> QED
        BY <3>1, <4>1, <4>2
    <3>2. CASE j # k
      <4>1. j \in 0 .. k - 1 /\ j - 1 # k /\ j \in 0 .. n /\ (j # 0 => j - 1 \in 0 .. n)
        BY <3>2
      <4>2. g[j] = f[j] /\ (j # 0 => g[j - 1] = f[j - 1])
        BY <3>2, <4>1
      <4>3. f[j] = IF j = 0 THEN base ELSE H[f[j - 1]]
        BY <2>1, <4>1
      <4> QED
        BY <4>2, <4>3
    <3> QED
      BY <3>1, <3>2
  <2> HIDE DEF g, Solves
  <2> QED
    BY <2>2, <2>3
<1>3. n \in Good
  <2>1. Good \in SUBSET Int /\ n \in 0 .. n
    OBVIOUS
  <2> HIDE DEF Good
  <2>2. 0 .. n \subseteq Good
    BY <1>1, <1>2, <2>1, AlongInterval
  <2> QED
    BY <2>1, <2>2
<1> QED
  BY <1>3 DEF RoundsOf

\* A fold stays where its steps stay.
LEMMA FoldEndsIn ==
  ASSUME NEW n \in Nat, NEW R, NEW base \in R, NEW G \in [1 .. n -> [R -> R]], NEW F,
         F[{}] = base, StepsIn(n, R, G, F)
  PROVE  F[1 .. n] \in R
<1>1. \A k \in 0 .. n : F[1 .. k] \in R
  BY FoldIn
<1> QED
  BY <1>1

\* Kept gives blocks of the set.
LEMMA KeptIn ==
  ASSUME NEW n \in Nat, NEW s, DOMAIN s = 1 .. n, NEW T, NEW B \in SUBSET T
  PROVE  Kept(s, B) \in Seq(T)
<1> DEFINE R == Seq(T)
           none == <<>>
           Step(k, r) == IF s[k] \in B THEN Append(r, s[k]) ELSE r
           Solves(f) == f = [t \in SUBSET (1 .. n) |->
                               IF t = {} THEN none ELSE Step(Max(t), f[t \ {Max(t)}])]
           F == CHOOSE f : Solves(f)
           G == [k \in 1 .. n |-> [r \in R |-> Step(k, r)]]
<1>1. Kept(s, B) = F[1 .. n]
  BY DEF Kept, FoldLeft, MapThenFoldSet
<1>2. \A k \in 1 .. n, r \in R : Step(k, r) \in R
  OBVIOUS
<1>3. none \in R
  OBVIOUS
<1> HIDE DEF Step, R, none
<1>4. G \in [1 .. n -> [R -> R]]
  BY <1>2
<1>5. PICK f \in [SUBSET (1 .. n) -> R] : \A t \in SUBSET (1 .. n) :
        f[t] = IF t = {} THEN none ELSE G[Max(t)][f[t \ {Max(t)}]]
  <2> HIDE DEF G
  <2>1. \E f \in [SUBSET (1 .. n) -> R] : FoldOf(n, none, G, f)
    BY <1>3, <1>4, FoldExists
  <2> QED
    BY <2>1 DEF FoldOf
<1>6. Solves(f)
  <2>1. \A t \in SUBSET (1 .. n) :
          f[t] = IF t = {} THEN none ELSE Step(Max(t), f[t \ {Max(t)}])
    <3> SUFFICES ASSUME NEW t \in SUBSET (1 .. n), t # {}
                 PROVE  f[t] = Step(Max(t), f[t \ {Max(t)}])
      BY <1>5
    <3>1. Max(t) \in 1 .. n /\ t \ {Max(t)} \in SUBSET (1 .. n)
      BY Greatest
    <3>2. f[t] = G[Max(t)][f[t \ {Max(t)}]] /\ f[t \ {Max(t)}] \in R
      BY <1>5, <3>1
    <3> QED
      BY <3>1, <3>2
  <2> QED
    BY <2>1
<1>7. Solves(F)
  <2> HIDE DEF Solves
  <2> QED
    BY <1>6
<1> HIDE DEF F
<1>8. F[{}] = none
  <2>1. {} \in SUBSET (1 .. n)
    OBVIOUS
  <2> QED
    BY <1>7, <2>1
<1>9. StepsIn(n, R, G, F)
  <2> SUFFICES ASSUME NEW t \in SUBSET (1 .. n), t # {}, F[t \ {Max(t)}] \in R
               PROVE  F[t] = G[Max(t)][F[t \ {Max(t)}]]
    BY DEF StepsIn
  <2>1. Max(t) \in 1 .. n
    BY Greatest
  <2>2. F[t] = Step(Max(t), F[t \ {Max(t)}])
    BY <1>7
  <2> QED
    BY <2>1, <2>2
<1>10. F[1 .. n] \in R
  <2> HIDE DEF G
  <2> QED
    BY <1>3, <1>4, <1>8, <1>9, FoldEndsIn
<1> QED
  BY <1>1, <1>10 DEF R

\* A scale stays in a set that what is subtracted does not lead out of.
LEMMA ScaleIn ==
  ASSUME NEW n \in Nat, NEW pauses, DOMAIN pauses = 1 .. n, NEW new_stats, new_stats # <<>>,
         NEW R, NEW scale \in R,
         \A k \in 1 .. n, r \in R : r - Subtracted(pauses[k], new_stats) \in R
  PROVE  updateScale(scale, pauses, new_stats) \in R
<1> DEFINE Step(k, r) == r - Subtracted(pauses[k], new_stats)
           Solves(f) == f = [t \in SUBSET (1 .. n) |->
                               IF t = {} THEN scale ELSE Step(Max(t), f[t \ {Max(t)}])]
           F == CHOOSE f : Solves(f)
           G == [k \in 1 .. n |-> [r \in R |-> Step(k, r)]]
<1>1. updateScale(scale, pauses, new_stats) = F[1 .. n]
  BY DEF updateScale, FoldLeft, MapThenFoldSet
<1>2. \A k \in 1 .. n, r \in R : Step(k, r) \in R
  OBVIOUS
<1>3. scale \in R
  OBVIOUS
<1> HIDE DEF Step
<1>4. G \in [1 .. n -> [R -> R]]
  BY <1>2
<1>5. PICK f \in [SUBSET (1 .. n) -> R] : \A t \in SUBSET (1 .. n) :
        f[t] = IF t = {} THEN scale ELSE G[Max(t)][f[t \ {Max(t)}]]
  <2> HIDE DEF G
  <2>1. \E f \in [SUBSET (1 .. n) -> R] : FoldOf(n, scale, G, f)
    BY <1>3, <1>4, FoldExists
  <2> QED
    BY <2>1 DEF FoldOf
<1>6. Solves(f)
  <2>1. \A t \in SUBSET (1 .. n) :
          f[t] = IF t = {} THEN scale ELSE Step(Max(t), f[t \ {Max(t)}])
    <3> SUFFICES ASSUME NEW t \in SUBSET (1 .. n), t # {}
                 PROVE  f[t] = Step(Max(t), f[t \ {Max(t)}])
      BY <1>5
    <3>1. Max(t) \in 1 .. n /\ t \ {Max(t)} \in SUBSET (1 .. n)
      BY Greatest
    <3>2. f[t] = G[Max(t)][f[t \ {Max(t)}]] /\ f[t \ {Max(t)}] \in R
      BY <1>5, <3>1
    <3> QED
      BY <3>1, <3>2
  <2> QED
    BY <2>1
<1>7. Solves(F)
  <2> HIDE DEF Solves
  <2> QED
    BY <1>6
<1> HIDE DEF F
<1>8. F[{}] = scale
  <2>1. {} \in SUBSET (1 .. n)
    OBVIOUS
  <2> QED
    BY <1>7, <2>1
<1>9. StepsIn(n, R, G, F)
  <2> SUFFICES ASSUME NEW t \in SUBSET (1 .. n), t # {}, F[t \ {Max(t)}] \in R
               PROVE  F[t] = G[Max(t)][F[t \ {Max(t)}]]
    BY DEF StepsIn
  <2>1. Max(t) \in 1 .. n
    BY Greatest
  <2>2. F[t] = Step(Max(t), F[t \ {Max(t)}])
    BY <1>7
  <2> QED
    BY <2>1, <2>2
<1>10. F[1 .. n] \in R
  <2> HIDE DEF G
  <2> QED
    BY <1>3, <1>4, <1>8, <1>9, FoldEndsIn
<1> QED
  BY <1>1, <1>10

\* So does a sum of sizes.
LEMMA CumTbsIn ==
  ASSUME NEW n \in Nat, NEW new_stats, DOMAIN SubSeq(new_stats, 3, Len(new_stats)) = 1 .. n,
         \A k \in 1 .. n : SubSeq(new_stats, 3, Len(new_stats))[k].tbsize \in Nat
  PROVE  CumTbs(new_stats) \in Nat
<1> DEFINE s == SubSeq(new_stats, 3, Len(new_stats))
           R == Nat
           zero == 0
           Step(k, r) == r + s[k].tbsize
           Solves(f) == f = [t \in SUBSET (1 .. n) |->
                               IF t = {} THEN zero ELSE Step(Max(t), f[t \ {Max(t)}])]
           F == CHOOSE f : Solves(f)
           G == [k \in 1 .. n |-> [r \in R |-> Step(k, r)]]
<1>1. CumTbs(new_stats) = F[1 .. n]
  BY DEF CumTbs, FoldLeft, MapThenFoldSet
<1>2. \A k \in 1 .. n, r \in R : Step(k, r) \in R
  <2> TAKE k \in 1 .. n
  <2> DEFINE size == s[k].tbsize
  <2>1. size \in Nat
    OBVIOUS
  <2> HIDE DEF size
  <2>2. \A r \in R : r + size \in R
    BY <2>1
  <2> QED
    BY <2>2 DEF size
<1>3. zero \in R
  OBVIOUS
<1> HIDE DEF Step, R, zero, s
<1>4. G \in [1 .. n -> [R -> R]]
  BY <1>2
<1>5. PICK f \in [SUBSET (1 .. n) -> R] : \A t \in SUBSET (1 .. n) :
        f[t] = IF t = {} THEN zero ELSE G[Max(t)][f[t \ {Max(t)}]]
  <2> HIDE DEF G
  <2>1. \E f \in [SUBSET (1 .. n) -> R] : FoldOf(n, zero, G, f)
    BY <1>3, <1>4, FoldExists
  <2> QED
    BY <2>1 DEF FoldOf
<1>6. Solves(f)
  <2>1. \A t \in SUBSET (1 .. n) :
          f[t] = IF t = {} THEN zero ELSE Step(Max(t), f[t \ {Max(t)}])
    <3> SUFFICES ASSUME NEW t \in SUBSET (1 .. n), t # {}
                 PROVE  f[t] = Step(Max(t), f[t \ {Max(t)}])
      BY <1>5
    <3>1. Max(t) \in 1 .. n /\ t \ {Max(t)} \in SUBSET (1 .. n)
      BY Greatest
    <3>2. f[t] = G[Max(t)][f[t \ {Max(t)}]] /\ f[t \ {Max(t)}] \in R
      BY <1>5, <3>1
    <3> QED
      BY <3>1, <3>2
  <2> QED
    BY <2>1
<1>7. Solves(F)
  <2> HIDE DEF Solves
  <2> QED
    BY <1>6
<1> HIDE DEF F
<1>8. F[{}] = zero
  <2>1. {} \in SUBSET (1 .. n)
    OBVIOUS
  <2> QED
    BY <1>7, <2>1
<1>9. StepsIn(n, R, G, F)
  <2> SUFFICES ASSUME NEW t \in SUBSET (1 .. n), t # {}, F[t \ {Max(t)}] \in R
               PROVE  F[t] = G[Max(t)][F[t \ {Max(t)}]]
    BY DEF StepsIn
  <2>1. Max(t) \in 1 .. n
    BY Greatest
  <2>2. F[t] = Step(Max(t), F[t \ {Max(t)}])
    BY <1>7
  <2> QED
    BY <2>1, <2>2
<1>10. F[1 .. n] \in R
  <2> HIDE DEF G
  <2> QED
    BY <1>3, <1>4, <1>8, <1>9, FoldEndsIn
<1> QED
  BY <1>1, <1>10 DEF R

-----------------------------------------------------------------------------
(* The estimate.                                                           *)

\* A sample of blocks: its size, its span and what the pauses leave of that.
LEMMA SampleOfBlocks ==
  ASSUME NEW new_stats \in Seq(Block), Len(new_stats) > 3,
         NEW pauses \in Seq(Nat \X Nat)
  PROVE  /\ Sample(new_stats, pauses) \in [tbs : Nat, span : Int, scale : Int]
         /\ (\A i \in 1 .. Len(pauses) : Subtracted(pauses[i], new_stats) = 0)
              => Sample(new_stats, pauses).scale = Sample(new_stats, pauses).span
<1> DEFINE span == Newest(new_stats) - Oldest(new_stats)
           scale == updateScale(span, pauses, new_stats)
           n == Len(new_stats)
<1>1. n \in Nat /\ n > 3 /\ new_stats # <<>> /\ \A k \in 1 .. n : new_stats[k] \in Block
  OBVIOUS
<1>2. \A b \in Block : b.timestamp \in Nat /\ b.tbsize \in Nat
  <2>0. TbSizes \subseteq Nat
    BY CrossLayerAssumption
  <2> TAKE b \in Block
  <2>1. b.timestamp \in Nat /\ b.tbsize \in TbSizes \union {0}
    BY DEF Block
  <2> QED
    <3>1. TbSizes \union {0} \subseteq Nat
      BY <2>0
    <3> QED
      BY <2>1, <3>1, Zenon
<1> HIDE DEF n
<1>3. CumTbs(new_stats) \in Nat
  <2> DEFINE s == SubSeq(new_stats, 3, n)
  <2>1. \A k \in 3 .. n : new_stats[k] \in Block
    BY <1>1
  <2>2. s \in Seq(Block) /\ Len(s) = n - 2
    BY <1>1, <2>1, SubSeqProperties
  <2>3. n - 2 \in Nat /\ DOMAIN s = 1 .. n - 2 /\ \A k \in 1 .. n - 2 : s[k] \in Block
    BY <1>1, <2>2
  <2>4. \A k \in 1 .. n - 2 : s[k].tbsize \in Nat
    BY <1>2, <2>3
  <2> QED
    BY <2>3, <2>4, CumTbsIn DEF n
<1>4. Newest(new_stats) \in Nat /\ Oldest(new_stats) \in Nat
  <2>1. 1 \in 1 .. n /\ n \in 1 .. n
    BY <1>1
  <2> QED
    BY <1>1, <1>2, <2>1 DEF Newest, Oldest, n
<1>5. span \in Int
  BY <1>4
<1>6. \A i \in 1 .. Len(pauses) : Subtracted(pauses[i], new_stats) \in Int
  <2> TAKE i \in 1 .. Len(pauses)
  <2>1. pauses[i][1] \in Nat /\ pauses[i][2] \in Nat
    OBVIOUS
  <2> QED
    BY <1>4, <2>1 DEF Subtracted
<1>7. Len(pauses) \in Nat /\ DOMAIN pauses = 1 .. Len(pauses)
  OBVIOUS
<1> HIDE DEF span
<1>8. scale \in Int
  <2>1. \A i \in 1 .. Len(pauses), r \in Int : r - Subtracted(pauses[i], new_stats) \in Int
    BY <1>6
  <2> QED
    BY <1>1, <1>5, <1>7, <2>1, ScaleIn
<1>9. ASSUME \A i \in 1 .. Len(pauses) : Subtracted(pauses[i], new_stats) = 0
      PROVE  scale = span
  <2>1. \A i \in 1 .. Len(pauses), r \in {span} :
          r - Subtracted(pauses[i], new_stats) \in {span}
    BY <1>5, <1>9
  <2>2. scale \in {span}
    BY <1>1, <1>7, <2>1, ScaleIn
  <2> QED
    BY <2>2
<1>10. Sample(new_stats, pauses) = [tbs |-> CumTbs(new_stats), span |-> span, scale |-> scale]
  BY DEF Sample, span
<1> HIDE DEF scale
<1> QED
  BY <1>3, <1>5, <1>8, <1>9, <1>10

\* Nearest is a place in the list.
LEMMA NearestIn ==
  ASSUME NEW phy_stats \in Seq(Block), phy_stats # <<>>, NEW RequestTime \in Int
  PROVE  Nearest(phy_stats, RequestTime) \in 1 .. Len(phy_stats)
<1> DEFINE before == {i \in 2 .. Len(phy_stats) : phy_stats[i].timestamp < RequestTime}
           i == CHOOSE first \in before : \A j \in before : first <= j
<1>1. Len(phy_stats) \in Nat /\ Len(phy_stats) # 0
  OBVIOUS
<1>2. CASE before = {}
  BY <1>1, <1>2 DEF Nearest
<1>3. CASE before # {}
  <2>1. before \in SUBSET Nat
    OBVIOUS
  <2>2. \E first \in before : \A j \in before : first <= j
    <3> HIDE DEF before
    <3> QED
      BY <1>3, <2>1, Least
  <2>3. i \in before
    <3> HIDE DEF before
    <3> QED
      BY <2>2
  <2>4. i \in 1 .. Len(phy_stats) /\ i - 1 \in 1 .. Len(phy_stats)
    <3> HIDE DEF i
    <3> QED
      BY <1>1, <2>3
  <2>5. Nearest(phy_stats, RequestTime) \in {i, i - 1}
    BY <1>3 DEF Nearest
  <2> QED
    BY <2>4, <2>5
<1> QED
  BY <1>2, <1>3

\* A part of a sequence is a sequence of the same things.
LEMMA PartIn ==
  ASSUME NEW S, NEW s \in Seq(S), NEW a \in Nat \ {0}, NEW b \in Nat, b <= Len(s)
  PROVE  /\ SubSeq(s, a, b) \in Seq(S)
         /\ \E n \in Nat : DOMAIN SubSeq(s, a, b) = 1 .. n
<1>1. \A i \in a .. b : s[i] \in S
  OBVIOUS
<1>2. SubSeq(s, a, b) \in Seq(S)
  BY <1>1, SubSeqProperties
<1>3. Len(SubSeq(s, a, b)) \in Nat /\ DOMAIN SubSeq(s, a, b) = 1 .. Len(SubSeq(s, a, b))
  BY <1>2
<1> QED
  BY <1>2, <1>3

\* The blocks near a request belong to the trace.
LEMMA NearBlocks ==
  ASSUME NEW phy_stats \in Seq(Block), NEW L \in 1 .. Len(phy_stats), NEW RequestTime
  PROVE  /\ RightOf(phy_stats, L, RequestTime) \in Seq(InTrace)
         /\ LeftOf(phy_stats, L, RequestTime) \in Seq(InTrace)
<1> DEFINE T == InTrace
           traced == {b \in Range(phy_stats) : Traced(b)}
<1>1. traced \subseteq T
  BY DEF InTrace, Range
<1>2. ASSUME NEW S, NEW s \in Seq(S), NEW P \in SUBSET traced
      PROVE  Kept(s, P) \in Seq(T)
  <2>1. Len(s) \in Nat /\ DOMAIN s = 1 .. Len(s) /\ P \in SUBSET T
    BY <1>1
  <2> QED
    BY <2>1, KeptIn
<1>3. RightOf(phy_stats, L, RequestTime) \in Seq(T)
  <2> DEFINE s == SubSeq(phy_stats, L, Len(phy_stats))
             P == {b \in traced : b.timestamp < RequestTime}
             N == {b \in traced : /\ RequestTime >= IntervalTime
                                  /\ b.timestamp > RequestTime - IntervalTime}
             right == Kept(s, P)
             near == Kept(right, N)
             m == Min({FewBlocks, Len(right)})
  <2>1. s \in Seq(Block)
    BY PartIn
  <2>2. P \in SUBSET traced /\ N \in SUBSET traced
    OBVIOUS
  <2>3. RightOf(phy_stats, L, RequestTime) = IF near # <<>> THEN near ELSE SubSeq(right, 1, m)
    BY DEF RightOf
  <2> HIDE DEF s, P, N, traced, T
  <2>4. right \in Seq(T)
    BY <1>2, <2>1, <2>2
  <2>5. near \in Seq(T)
    <3> HIDE DEF right
    <3> QED
      BY <1>2, <2>2, <2>4
  <2> HIDE DEF near, right
  <2>6. m \in Nat /\ m <= Len(right)
    BY <2>4, CrossLayerAssumption DEF Min
  <2> HIDE DEF m
  <2>7. SubSeq(right, 1, m) \in Seq(T)
    BY <2>4, <2>6, PartIn
  <2> QED
    BY <2>3, <2>5, <2>7
<1>4. LeftOf(phy_stats, L, RequestTime) \in Seq(T)
  <2> DEFINE s == SubSeq(phy_stats, 2, L)
             P == {b \in traced : b.timestamp > RequestTime}
             N == {b \in traced : b.timestamp < RequestTime + IntervalTime}
             left == Kept(s, P)
             near == Kept(left, N)
             m == Max({0, Len(left) - FewBlocks}) + 1
  <2>1. s \in Seq(Block)
    BY PartIn
  <2>2. P \in SUBSET traced /\ N \in SUBSET traced
    OBVIOUS
  <2>3. LeftOf(phy_stats, L, RequestTime)
          = IF near # <<>> THEN near ELSE SubSeq(left, m, Len(left))
    BY DEF LeftOf
  <2> HIDE DEF s, P, N, traced, T
  <2>4. left \in Seq(T)
    BY <1>2, <2>1, <2>2
  <2>5. near \in Seq(T)
    <3> HIDE DEF left
    <3> QED
      BY <1>2, <2>2, <2>4
  <2> HIDE DEF near, left
  <2>6. Len(left) \in Nat
    BY <2>4
  <2>7. m \in Nat \ {0}
    <3> DEFINE z == Len(left) - FewBlocks
               g == Max({0, z})
    <3>1. z \in Int
      BY <2>6, CrossLayerAssumption
    <3> HIDE DEF z
    <3>2. g = CHOOSE x \in {0, z} : \A y \in {0, z} : x >= y
      BY DEF Max
    <3>3. \E x \in {0, z} : \A y \in {0, z} : x >= y
      BY <3>1
    <3> HIDE DEF g
    <3>4. g \in {0, z} /\ g >= 0
      BY <3>2, <3>3
    <3>5. g + 1 \in Nat \ {0}
      BY <3>1, <3>4
    <3> QED
      BY <3>5 DEF g, z
  <2> HIDE DEF m
  <2>8. SubSeq(left, m, Len(left)) \in Seq(T)
    BY <2>4, <2>6, <2>7, PartIn
  <2> QED
    BY <2>3, <2>5, <2>8
<1> QED
  BY <1>3, <1>4

\* A round: its blocks belong to the trace, its samples to Q.
RoundsIn(Q) ==
  [RequestTime : Int, more : BOOLEAN, new_stats : Seq(InTrace), phy_throughput : Seq(Q)]

\* Every sample of such blocks belongs to Q.
SamplesIn(pauses, Q) ==
  \A new_stats \in Seq(InTrace) : Len(new_stats) > 3 => Sample(new_stats, pauses) \in Q

\* A round goes from such a state to such a state.
LEMMA RoundStays ==
  ASSUME NEW phy_stats \in Seq(Block), phy_stats # <<>>, NEW pauses, NEW Q,
         SamplesIn(pauses, Q), NEW r \in RoundsIn(Q)
  PROVE  Round(r, phy_stats, pauses) \in RoundsIn(Q)
<1> DEFINE L == Nearest(phy_stats, r.RequestTime)
           left == LeftOf(phy_stats, L, r.RequestTime)
           right == RightOf(phy_stats, L, r.RequestTime)
           new_stats == r.new_stats \o left \o right
           next == IF Len(new_stats) > 3 THEN <<>> ELSE new_stats
           samples2 == IF Len(new_stats) > 3
                       THEN Append(r.phy_throughput, Sample(new_stats, pauses))
                       ELSE r.phy_throughput
<1>1. /\ r.RequestTime \in Int /\ r.new_stats \in Seq(InTrace)
      /\ r.phy_throughput \in Seq(Q)
  BY DEF RoundsIn
<1>2. L \in 1 .. Len(phy_stats)
  BY <1>1, NearestIn
<1>3. Round(r, phy_stats, pauses)
        = [RequestTime |-> r.RequestTime - IntervalTime, more |-> r.RequestTime > IntervalTime,
           new_stats |-> next, phy_throughput |-> samples2]
  BY DEF Round
<1> HIDE DEF L
<1>4. left \in Seq(InTrace) /\ right \in Seq(InTrace)
  BY <1>2, NearBlocks
<1> HIDE DEF left, right
<1>5. new_stats \in Seq(InTrace)
  BY <1>1, <1>4, ConcatProperties
<1> HIDE DEF new_stats
<1>6. next \in Seq(InTrace)
  BY <1>5
<1>7. samples2 \in Seq(Q)
  <2>1. CASE Len(new_stats) > 3
    <3>1. Sample(new_stats, pauses) \in Q
      BY <1>5, <2>1 DEF SamplesIn
    <3> QED
      BY <1>1, <2>1, <3>1, AppendProperties
  <2>2. CASE ~(Len(new_stats) > 3)
    BY <1>1, <2>2
  <2> QED
    BY <2>1, <2>2
<1> HIDE DEF next, samples2
<1>8. r.RequestTime - IntervalTime \in Int /\ (r.RequestTime > IntervalTime) \in BOOLEAN
  BY <1>1, CrossLayerAssumption
<1> QED
  BY <1>3, <1>6, <1>7, <1>8 DEF RoundsIn

\* Every sample of the estimate belongs to Q.
LEMMA EstimateIn ==
  ASSUME NEW phy_stats \in Seq(Block), phy_stats # <<>>, NEW pauses, NEW Q,
         SamplesIn(pauses, Q)
  PROVE  BWEstimate(phy_stats, pauses) \in Seq(Q)
<1> DEFINE R == RoundsIn(Q)
           latest == Newest(phy_stats)
           first == [RequestTime |-> IF latest > IntervalTime THEN latest - IntervalTime ELSE latest,
                     more |-> TRUE, new_stats |-> <<>>, phy_throughput |-> <<>>]
           Step(r) == IF r.more /\ r.RequestTime > Oldest(phy_stats)
                      THEN Round(r, phy_stats, pauses) ELSE r
           Solves(f) == f = [k \in 0 .. SampleMax |-> IF k = 0 THEN first ELSE Step(f[k - 1])]
           F == CHOOSE f : Solves(f)
           H == [r \in R |-> Step(r)]
<1>1. BWEstimate(phy_stats, pauses) = F[SampleMax].phy_throughput
  BY DEF BWEstimate
<1>2. first \in R
  <2>1. latest \in Int
    <3>1. 1 \in 1 .. Len(phy_stats)
      OBVIOUS
    <3>2. phy_stats[1] \in Block
      BY <3>1
    <3> QED
      BY <3>2 DEF Newest, Block
  <2> HIDE DEF latest
  <2>2. (IF latest > IntervalTime THEN latest - IntervalTime ELSE latest) \in Int
    BY <2>1, CrossLayerAssumption
  <2> QED
    BY <2>2 DEF RoundsIn
<1>3. \A r \in R : Step(r) \in R
  BY RoundStays
<1>4. SampleMax \in Nat
  BY CrossLayerAssumption
<1> HIDE DEF first, Step, R
<1>5. H \in [R -> R]
  BY <1>3
<1>6. PICK f \in [0 .. SampleMax -> R] : RoundsOf(SampleMax, first, H, f)
  <2> HIDE DEF H
  <2> QED
    BY <1>2, <1>4, <1>5, RoundsExist
<1>7. Solves(f)
  <2>1. \A k \in 0 .. SampleMax : f[k] = IF k = 0 THEN first ELSE Step(f[k - 1])
    <3> SUFFICES ASSUME NEW k \in 0 .. SampleMax, k # 0
                 PROVE  f[k] = Step(f[k - 1])
      BY <1>6 DEF RoundsOf
    <3>1. k - 1 \in 0 .. SampleMax
      BY <1>4
    <3>2. f[k] = H[f[k - 1]] /\ f[k - 1] \in R
      BY <1>6, <3>1 DEF RoundsOf
    <3> QED
      BY <3>2
  <2> QED
    BY <2>1
<1>8. Solves(F)
  <2> HIDE DEF Solves
  <2> QED
    BY <1>7
<1> HIDE DEF F
<1> DEFINE Good == {k \in 0 .. SampleMax : F[k] \in R}
<1>9. 0 \in Good
  BY <1>2, <1>4, <1>8
<1>10. ASSUME NEW k \in 1 .. SampleMax, k - 1 \in Good PROVE k \in Good
  <2>1. k \in 0 .. SampleMax /\ k # 0
    BY <1>4
  <2>2. F[k] = Step(F[k - 1])
    BY <1>8, <2>1
  <2> QED
    BY <1>3, <1>10, <2>1, <2>2
<1>11. SampleMax \in Good
  <2>1. Good \in SUBSET Int /\ SampleMax \in 0 .. SampleMax
    BY <1>4
  <2> HIDE DEF Good
  <2> QED
    BY <1>4, <1>9, <1>10, <2>1, AlongInterval
<1> QED
  BY <1>1, <1>11 DEF R, RoundsIn

\* The blocks collected, filled up with those of time 0.
LEMMA CorrectTbs ==
  ASSUME result \in Seq([timestamp : Nat, tbsize : TbSizes])
  PROVE  GetCorrectTbs \in Seq(Block) /\ GetCorrectTbs # <<>>
<1>1. BlockMax \in Nat /\ BlockMax # 0
  BY CrossLayerAssumption
<1>2. \A i \in 1 .. BlockMax :
        (IF i <= Len(result) THEN result[i] ELSE [timestamp |-> 0, tbsize |-> 0]) \in Block
  <2> SUFFICES ASSUME NEW i \in 1 .. BlockMax, i <= Len(result)
               PROVE  result[i] \in Block
    BY DEF Block
  <2> DEFINE Reception == [timestamp : Nat, tbsize : TbSizes]
  <2>1. result[i] \in Reception
    <3>1. result \in Seq(Reception)
      OBVIOUS
    <3> HIDE DEF Reception
    <3>2. Len(result) \in Nat /\ i \in 1 .. Len(result)
      BY <3>1, CrossLayerAssumption
    <3> QED
      BY <3>1, <3>2
  <2> QED
    BY <2>1 DEF Block
<1>3. GetCorrectTbs \in [1 .. BlockMax -> Block]
  BY <1>2 DEF GetCorrectTbs
<1>4. GetCorrectTbs \in Seq(Block) /\ Len(GetCorrectTbs) = BlockMax
  BY <1>1, <1>3
<1> QED
  BY <1>1, <1>4

\* The samples of an estimate.
Samples == [tbs : Nat, span : Int, scale : Int]

\* The estimate for any list of pauses.
LEMMA EstimateTyped ==
  ASSUME result \in Seq([timestamp : Nat, tbsize : TbSizes]), NEW pauses \in Seq(Nat \X Nat)
  PROVE  BWEstimate(GetCorrectTbs, pauses) \in Seq(Samples)
<1>1. SamplesIn(pauses, Samples)
  <2> SUFFICES ASSUME NEW new_stats \in Seq(InTrace), Len(new_stats) > 3
               PROVE  Sample(new_stats, pauses) \in Samples
    BY DEF SamplesIn
  <2>1. new_stats \in Seq(Block)
    BY DEF InTrace
  <2> QED
    BY <2>1, SampleOfBlocks DEF Samples
<1> QED
  BY <1>1, CorrectTbs, EstimateIn

\* One for pauses that were over when the trace began, or have no length.
LEMMA EstimateNotShortened ==
  ASSUME result \in Seq([timestamp : Nat, tbsize : TbSizes]), NEW pauses \in Seq(Nat \X Nat),
         traceBegin \in Nat,
         \A i \in 1 .. Len(pauses) :
           /\ pauses[i][1] <= pauses[i][2]
           /\ pauses[i][1] < pauses[i][2] => pauses[i][2] <= traceBegin
  PROVE  LET samples2 == BWEstimate(GetCorrectTbs, pauses)
         IN \A i \in 1 .. Len(samples2) : samples2[i].scale = samples2[i].span
<1> DEFINE Q == {q \in Samples : q.scale = q.span}
<1>1. SamplesIn(pauses, Q)
  <2> SUFFICES ASSUME NEW new_stats \in Seq(InTrace), Len(new_stats) > 3
               PROVE  Sample(new_stats, pauses) \in Q
    BY DEF SamplesIn
  <2>1. new_stats \in Seq(Block) /\ new_stats # <<>>
    BY DEF InTrace
  <2>2. \A i \in 1 .. Len(pauses) : Subtracted(pauses[i], new_stats) = 0
    <3> TAKE i \in 1 .. Len(pauses)
    <3>1. pauses[i] \in Nat \X Nat
      OBVIOUS
    <3> QED
      BY <2>1, <3>1, PauseBeforeTrace
  <2> QED
    BY <2>1, <2>2, SampleOfBlocks DEF Samples
<1> HIDE DEF Q
<1>2. BWEstimate(GetCorrectTbs, pauses) \in Seq(Q)
  BY <1>1, CorrectTbs, EstimateIn
<1>3. \A q \in Q : q.scale = q.span
  BY DEF Q
<1> DEFINE samples2 == BWEstimate(GetCorrectTbs, pauses)
<1>4. ASSUME NEW i \in 1 .. Len(samples2) PROVE samples2[i].scale = samples2[i].span
  <2>1. samples2 \in Seq(Q)
    BY <1>2
  <2> HIDE DEF samples2
  <2>2. samples2[i] \in Q
    BY <2>1
  <2> QED
    BY <1>3, <2>2, Zenon
<1> QED
  BY <1>4

-----------------------------------------------------------------------------
(* Invariants of the samples.                                              *)

\* XTypeOK: the types of what all clients share, of the blocks and of the samples.
THEOREM EstimateTypesHold == XSpec => []XTypeOK
<1>1. XInit => XTypeOK
  BY DEF XInit, XTypeOK
<1>2. ASSUME XTypeOK, Shared, Shared', [XNext]_xVars
      PROVE  XTypeOK'
  <2> USE DEF XTypeOK
  <2>1. CASE Passes
    BY <1>2, <2>1 DEF Passes
  <2>2. ASSUME NEW m_size \in TbSizes, NEW m_rv \in {0, 1}, NEW m_correctness \in {0, 1},
               DlPhyReception(m_size, m_rv, m_correctness)
        PROVE  XTypeOK'
    <3> DEFINE Reception == [timestamp : Nat, tbsize : TbSizes]
               block == [timestamp |-> clock, tbsize |-> m_size]
    <3>1. block \in Reception /\ result \in Seq(Reception)
      BY <1>2
    <3>2. result' = result \/ result' = <<block>> \o result
      BY <2>2 DEF DlPhyReception
    <3> HIDE DEF Reception, block
    <3>3. <<block>> \in Seq(Reception)
      BY <3>1
    <3>4. result' \in Seq(Reception)
      BY <3>1, <3>2, <3>3, ConcatProperties
    <3> QED
      BY <1>2, <2>2, <3>4 DEF DlPhyReception, Reception
  <2>3. ASSUME NEW c \in ClientIds, NEW start, RequestRepIndex(c, start),
               lastEndTime' \in Nat
        PROVE  XTypeOK'
    <3>1. pause' \in Seq(Nat \X Nat) /\ traceBegin' \in Nat
      BY <1>2 DEF Shared
    <3>2. samples' \in Seq([tbs : Nat, span : Int, scale : Int])
      BY <1>2, <2>3, <3>1, EstimateTyped DEF RequestRepIndex, Samples
    <3>3. /\ clock' = clock /\ result' = result /\ firstOne' = (c \notin begun)
          /\ begun' = begun \union {c}
      BY <2>3 DEF RequestRepIndex
    <3> QED
      BY <1>2, <2>3, <3>1, <3>2, <3>3
  <2>4. ASSUME NEW c \in ClientIds, FirstDecision(c)
        PROVE  XTypeOK'
    BY <1>2, <2>3, <2>4 DEF FirstDecision
  <2>5. ASSUME NEW c \in ClientIds, SegmentReceivedHandle(c)
        PROVE  XTypeOK'
    BY <1>2, <2>3, <2>5 DEF SegmentReceivedHandle
  <2>6. ASSUME NEW c \in ClientIds, LastSegmentReceived(c)
        PROVE  XTypeOK'
    BY <1>2, <2>6 DEF LastSegmentReceived
  <2>7. CASE UNCHANGED xVars
    BY <1>2, <2>7 DEF xVars
  <2> QED
    BY <1>2, <2>1, <2>2, <2>4, <2>5, <2>6, <2>7 DEF XNext
<1>3. XSpec => []Shared
  BY SharedBegins, SharedStep, PTL DEF XSpec
<1> QED
  BY <1>1, <1>2, <1>3, PTL DEF XSpec

\* ScaleNotShortened: in the estimate for any segment but a client's first, no pause
\* shortens the time a sample is divided by.
THEOREM SamplesNotShortened == XSpec => []ScaleNotShortened
<1>1. XInit => ScaleNotShortened
  BY DEF XInit, ScaleNotShortened
<1>2. ASSUME ScaleNotShortened, XTypeOK, Shared, Shared', [XNext]_xVars
      PROVE  ScaleNotShortened'
  <2>1. CASE UNCHANGED <<samples, firstOne>>
    BY <1>2, <2>1 DEF ScaleNotShortened
  <2>2. ASSUME NEW c \in ClientIds, FirstDecision(c)
        PROVE  ScaleNotShortened'
    BY <2>2 DEF FirstDecision, RequestRepIndex, ScaleNotShortened
  <2>3. ASSUME NEW c \in ClientIds, SegmentReceivedHandle(c)
        PROVE  ScaleNotShortened'
    <3>1. /\ samples' = BWEstimate(GetCorrectTbs, pause') /\ traceBegin' = traceBegin
      BY <2>3 DEF SegmentReceivedHandle, RequestRepIndex, TraceBegin
    <3>2. pause' \in Seq(Nat \X Nat)
      BY <1>2 DEF Shared
    <3>3. \A i \in 1 .. Len(pause') :
            /\ pause'[i][1] <= pause'[i][2]
            /\ pause'[i][1] < pause'[i][2] => pause'[i][2] <= traceBegin
      BY <1>2, <3>1 DEF Shared, NoPauseInTrace
    <3>4. result \in Seq([timestamp : Nat, tbsize : TbSizes]) /\ traceBegin \in Nat
      BY <1>2 DEF XTypeOK
    <3>5. \A i \in 1 .. Len(samples') : samples'[i].scale = samples'[i].span
      BY <3>1, <3>2, <3>3, <3>4, EstimateNotShortened
    <3> QED
      BY <3>5 DEF ScaleNotShortened
  <2> QED
    BY <1>2, <2>1, <2>2, <2>3
    DEF XNext, Passes, DlPhyReception, LastSegmentReceived, xVars
<1>3. XSpec => []Shared
  BY SharedBegins, SharedStep, PTL DEF XSpec
<1> QED
  BY <1>1, <1>2, <1>3, EstimateTypesHold, PTL DEF XSpec

-----------------------------------------------------------------------------
(* The two kinds of estimate beside each other.                            *)

\* EstimationTypeOK: the types of both, since a step of one is none of the other.
THEOREM EstimationTypesHold == EstimationSpec => []EstimationTypeOK
<1>1. EstimationInit => BwInit /\ XInit
  BY DEF EstimationInit
<1>2. [EstimationNext]_<<bwVars, xVars, focus>> => [BwNext]_bwVars /\ [XNext]_xVars
  BY DEF EstimationNext
<1>3. EstimationSpec => BwSpec /\ XSpec
  BY <1>1, <1>2, PTL DEF EstimationSpec, BwSpec, XSpec
<1>4. BwTypeOK /\ XTypeOK => EstimationTypeOK
  BY DEF EstimationTypeOK
<1> QED
  BY <1>3, <1>4, EstimatorTypesHold, EstimateTypesHold, PTL

=============================================================================
