---------------------- MODULE MCTcpStreamClientTimed -----------------------
(* The client with its clock, and without: then a timer may run at any      *)
(* moment, and only the screen follows what is played.                     *)
EXTENDS TcpStreamClientTimed, MCTcpStreamClient

VARIABLE clocked

FreeNext ==
  /\ Next
  /\ IF TimerExpires("playbackFinished") THEN Screen("playbackFinished")
     ELSE Screen("irdFinished")
  /\ UNCHANGED <<due, bufferLevel, prudent>>

ClientInit == TimedInit /\ clocked \in BOOLEAN /\ (prudent => clocked)

ClientNext ==
  \/ clocked /\ TimedNext /\ UNCHANGED clocked
  \/ ~clocked /\ FreeNext /\ UNCHANGED clocked

\* With the clock, Fairness says that time goes on.
ClientSpec == ClientInit /\ [][ClientNext]_<<timedVars, clocked>> /\ Fairness

=============================================================================
