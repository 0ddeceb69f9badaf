---------------------------- MODULE MCEstimation ----------------------------
(* The two kinds of estimate, which share no state, one beside the other:   *)
(* each behaviour follows one of them.                                      *)
EXTENDS BandwidthEstimators, CrossLayerEstimator

VARIABLE focus  \* the estimate that is followed

EstimationInit == BwInit /\ XInit /\ focus \in {"history", "physical"}

EstimationNext ==
  \/ focus = "history" /\ BwNext /\ UNCHANGED <<xVars, focus>>
  \/ focus = "physical" /\ XNext /\ UNCHANGED <<bwVars, focus>>

EstimationSpec == EstimationInit /\ [][EstimationNext]_<<bwVars, xVars, focus>>

\* The types of all variables.
EstimationTypeOK == BwTypeOK /\ XTypeOK

\* What a cast without a result gives: here, a number below any rate.
MCNoRate == -1000

=============================================================================
