------------------------ MODULE MCAdaptationHistory ------------------------
(* Tomato alone: it is the one that waits longest.                         *)
EXTENDS AdaptationHistory, MCAdaptationLoop

TomatoInit == HistoryInit /\ algo = "tomato"

TomatoSpec == TomatoInit /\ [][HistoryNext]_<<vars, historyVars>>

=============================================================================
