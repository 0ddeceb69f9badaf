------------------------- MODULE MCTcpStreamClient -------------------------
(* Values for the constants of TcpStreamClient that a .cfg cannot write.   *)
EXTENDS TcpStreamClient

\* Segments of one and two bytes, so that one arrives whole or in two packets.
MCSegmentSize ==
  [rep \in Reps |-> [segment \in 0 .. LastSegmentIndex |-> 1 + ((rep + segment) % 2)]]

=============================================================================
