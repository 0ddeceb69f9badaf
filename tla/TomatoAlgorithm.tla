-------------------------- MODULE TomatoAlgorithm --------------------------
(***************************************************************************)
(* TomatoAlgorithm::GetNextRep: the highest representation the bandwidth   *)
(* allows, held back by the distance of the buffer from its expected level *)
(* (m_expBuffer), with a target that rises with the representation.        *)
(***************************************************************************)
EXTENDS AdaptationAlgorithm

VARIABLES
  m_expBuffer,
  m_multipleTinyDrop,
  betaSteps,  \* m_beta in steps of 1 / HighestRepIndex
  betaFell    \* m_beta is the result of a subtraction

tomatoVars == <<m_expBuffer, m_multipleTinyDrop, betaSteps, betaFell>>

TargetBuffer == 3 * FiveSeconds
TomatoMin == 2 * FiveSeconds
TomatoUpperbound == 8 * FiveSeconds

\* alpha is a division of integers: one from the target on, below it zero, and then
\* the search ends at the lowest representation.
NextHighestIndex(bufferNow, bandwidth) ==
  IF bufferNow < TargetBuffer THEN 0
  ELSE Max({0} \union {rep \in RepIndex : AverageBitrate[rep] <= bandwidth})

RiseTo(bufferNow, next) ==
  IF bufferNow <= m_expBuffer THEN m_lastRepIndex
  ELSE IF bufferNow < m_expBuffer + SegmentDuration \div 2 THEN m_lastRepIndex + 1
  ELSE next

\* How far the buffer is below the level expected, in segments.
Missing(bufferNow, segments) == bufferNow < m_expBuffer - segments * SegmentDuration

MissingHalf(bufferNow) == bufferNow < m_expBuffer - SegmentDuration \div 2

TinyDrop(bufferNow) == ~MissingHalf(bufferNow)

FallTo(bufferNow, next) ==
  CASE Missing(bufferNow, 3) -> next
    [] Missing(bufferNow, 2) /\ ~Missing(bufferNow, 3) -> Min({next, m_lastRepIndex \div 2})
    [] Missing(bufferNow, 1) /\ ~Missing(bufferNow, 2) -> Larger(next, m_lastRepIndex \div 2)
    [] MissingHalf(bufferNow) /\ ~Missing(bufferNow, 1) -> m_lastRepIndex - 1
    [] TinyDrop(bufferNow) ->
         IF m_multipleTinyDrop >= 3 THEN m_lastRepIndex - 1 ELSE m_lastRepIndex

TomatoRep(bufferNow, bandwidth) ==
  LET next == NextHighestIndex(bufferNow, bandwidth)
  IN  IF bufferNow < TomatoMin THEN 0
      ELSE IF next > m_lastRepIndex THEN RiseTo(bufferNow, next)
      ELSE IF next < m_lastRepIndex THEN FallTo(bufferNow, next)
      ELSE next

\* Tiny drops are counted while the representation should fall, and forgotten when it does.
CountTinyDrops(bufferNow, bandwidth) ==
  m_multipleTinyDrop' =
    IF bufferNow >= TomatoMin /\ NextHighestIndex(bufferNow, bandwidth) < m_lastRepIndex
    THEN IF MissingHalf(bufferNow) \/ m_multipleTinyDrop >= 3 THEN 0
         ELSE m_multipleTinyDrop + IF bufferNow < m_expBuffer THEN 1 ELSE 0
    ELSE m_multipleTinyDrop

\* Doubles hold a multiple of 1 / HighestRepIndex exactly.
ExactSteps == \E k \in 0 .. HighestRepIndex : 2^k = HighestRepIndex

\* Whether 1 + rep / HighestRepIndex comes out below the last m_beta.  Of two that
\* should be equal it may, when the last is the rounded result of a subtraction.
Falls(rep) ==
  IF HighestRepIndex + rep = betaSteps /\ betaFell /\ ~ExactSteps THEN BOOLEAN
  ELSE {HighestRepIndex + rep < betaSteps}

\* Mutant: the base value 1.0 is forgotten.
BetaWithoutBase(rep, fall) == IF fall THEN betaSteps - 1 ELSE rep

\* 1 + rep / HighestRepIndex, or one step below the last value.
Beta(rep, fall) == IF fall THEN betaSteps - 1 ELSE HighestRepIndex + rep

\* m_targetBuffer * m_beta, in whole units.
Target(beta) == (TargetBuffer * beta) \div HighestRepIndex

TomatoWait(bufferNow, rep, beta) ==
  IF rep > m_lastRepIndex /\ bufferNow > m_expBuffer
  THEN Larger(0, bufferNow - Target(beta)) ELSE 0

\* Mutant: the upper bound is not enforced.
TomatoOverNever(level) == 0

\* The part of the level expected that is above the upper bound less a segment.
TomatoOver(level) == Larger(0, level - (TomatoUpperbound - SegmentDuration))

TomatoReply(bufferNow, bandwidth) ==
  \/ /\ segmentCounter = 0
     /\ m_expBuffer' = bufferNow
     /\ Reply(m_lastRepIndex, TomatoOver(bufferNow))
     /\ UNCHANGED <<m_multipleTinyDrop, betaSteps, betaFell>>
  \/ /\ segmentCounter # 0
     /\ LET rep == TomatoRep(bufferNow, bandwidth)
        IN  \E fall \in Falls(rep) :
              LET wait == TomatoWait(bufferNow, rep, Beta(rep, fall))
              IN  /\ betaSteps' = Beta(rep, fall)
                  /\ betaFell' = fall
                  /\ m_expBuffer' = IF wait > 0 THEN Target(Beta(rep, fall)) ELSE bufferNow
                  /\ Reply(rep, wait + TomatoOver(m_expBuffer'))
     /\ CountTinyDrops(bufferNow, bandwidth)

=============================================================================
