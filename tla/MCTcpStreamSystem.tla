------------------------- MODULE MCTcpStreamSystem -------------------------
EXTENDS TcpStreamSystem

\* Segments of one, two and three bytes, below and above the send buffer.
MCSegmentSize == [r \in Reps |-> [s \in 0 .. LastSegmentIndex |-> 1 + r + (s % 2)]]

=============================================================================
