-------------------------- MODULE MCAdaptationLoop -------------------------
(* Values for the constants of AdaptationLoop that a .cfg cannot write.    *)
EXTENDS AdaptationLoop

\* Six representations, each half again as large as the one below.
MCAverageBitrate == [rep \in 0 .. 5 |-> <<4, 6, 9, 14, 21, 32>>[rep + 1]]

\* A segment of the average size, and one of twice that size.
MCSegmentBits ==
  {[rep \in 0 .. 5 |-> size * SegmentDuration * MCAverageBitrate[rep]] : size \in {1, 2}}

=============================================================================
