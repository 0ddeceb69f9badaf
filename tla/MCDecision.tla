----------------------------- MODULE MCDecision -----------------------------
(* What a request rests on: the estimates and the algorithm's decision.     *)
(* They share no state; each behaviour follows one of the three.            *)
EXTENDS MCAdaptationLoop, MCEstimation

VARIABLE followed

decisionVars == <<vars, bwVars, xVars, focus, followed>>

DecisionInit ==
  /\ Init /\ EstimationInit
  /\ followed \in {"decision", "estimate"}
  /\ followed = "decision" => focus = "history"
  /\ followed = "estimate" => algo = "constbitrate"

FollowDecision == followed = "decision" /\ Next /\ UNCHANGED <<bwVars, xVars, focus, followed>>

FollowEstimate == followed = "estimate" /\ EstimationNext /\ UNCHANGED <<vars, followed>>

DecisionNext == FollowDecision \/ FollowEstimate

\* As long as the video lasts, a segment asked for arrives (SegmentArrives).
DecisionSpec ==
  DecisionInit /\ [][DecisionNext]_decisionVars /\ WF_vars(FollowDecision)

=============================================================================
