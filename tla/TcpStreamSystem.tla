-------------------------- MODULE TcpStreamSystem --------------------------
(***************************************************************************)
(* One client and the server, connected by a TCP connection.  The client's *)
(* own module lets requested bytes arrive at its pleasure; here they come  *)
(* from the server's HandleSend through the socket's send buffer, and the  *)
(* request travels too.  The server's list of connected clients stops the  *)
(* simulation, timers and all.                                             *)
(***************************************************************************)
EXTENDS TcpStreamClient, Sequences

CONSTANTS
  Client,      \* the client's address
  SndBufSize   \* the server socket's send buffer

ASSUME SystemAssumption == SndBufSize \in Nat \ {0}

VARIABLES
  m_callbackData, m_connectedClients, link, request, unacked, unread, stopped

bytesAsked == {SegmentSize[r][s] : r \in Reps, s \in 0 .. LastSegmentIndex}

Server == INSTANCE TcpStreamServer WITH
  Peers <- {Client},
  Sizes <- bytesAsked,
  awaited <- [p \in {Client} |-> toArrive]

serverSide == <<m_callbackData, m_connectedClients, link, stopped>>
systemVars == <<vars, serverSide, request, unacked, unread>>

SystemInit == Init /\ Server!Init

-----------------------------------------------------------------------------
\* Mutant: the request does not reach the network.
RequestedNothing(rest) == UNCHANGED request

\* What the client has asked for in this step, rest bytes being left of what it
\* asked for before.
Requested(rest) ==
  request' = [request EXCEPT ![Client] = IF toArrive' > rest THEN toArrive' - rest ELSE @]

\* A step of the client that reads nothing.
ClientActs(step) ==
  /\ step
  /\ Requested(toArrive)
  /\ UNCHANGED <<serverSide, unacked, unread>>

ClientReads(n) ==
  /\ n <= unread[Client]
  /\ HandleRead(n)
  /\ Requested(toArrive - n)
  /\ unread' = [unread EXCEPT ![Client] = @ - n]
  /\ UNCHANGED <<serverSide, unacked>>

\* After the application has closed its socket, the simulator drops what arrives.
Discarded(n) ==
  /\ m_socket = "closed"
  /\ n <= unread[Client]
  /\ unread' = [unread EXCEPT ![Client] = @ - n]
  /\ UNCHANGED <<vars, serverSide, request, unacked>>

\* The server sees the connection after the client does: the client's first
\* packet completes it.
Accepted == state # "initial" /\ Server!HandleAccept(Client)

\* The client has closed its socket; its FIN follows whatever it has sent.
Closed == m_socket = "closed" /\ Server!HandlePeerClose(Client)

ServerActs ==
  /\ UNCHANGED vars
  /\ \/ Accepted
     \/ Server!HandleRead(Client)
     \/ \E k \in 1 .. SndBufSize : Server!Acknowledged(Client, k)
     \/ Closed
     \/ m_socket = "closed" /\ Server!HandlePeerError(Client)

SystemNext ==
  /\ ~stopped
  /\ ~aborted
  /\ \/ ClientActs(StartApplication)
     \/ ClientActs(ConnectionSucceeded)
     \/ \E ev \in TimerEvents : ClientActs(TimerExpires(ev))
     \/ ClientActs(StopApplication)
     \/ \E n \in 1 .. SndBufSize : ClientReads(n)
     \/ \E n \in 1 .. SndBufSize : Discarded(n)
     \/ ServerActs

SystemSpec == SystemInit /\ [][SystemNext]_systemVars

\* The simulator runs scheduled timers and delivers what either side has sent.
SystemFairness ==
  /\ \A ev \in TimerEvents :
       WF_systemVars(~stopped /\ ~aborted /\ ClientActs(TimerExpires(ev)))
  /\ WF_systemVars(~stopped /\ ~aborted /\ \E n \in 1 .. SndBufSize : ClientReads(n))
  /\ WF_systemVars(~stopped /\ ~aborted /\ UNCHANGED vars /\ Accepted)
  /\ WF_systemVars(~stopped /\ ~aborted /\ UNCHANGED vars /\ Server!HandleRead(Client))
  /\ WF_systemVars(~stopped /\ ~aborted /\ UNCHANGED vars
                   /\ \E k \in 1 .. SndBufSize : Server!Acknowledged(Client, k))

FairSystemSpec == SystemSpec /\ SystemFairness

-----------------------------------------------------------------------------
(* Properties.                                                             *)

\* While the connection is open, what the client waits for is what the server is
\* about to do for it: bytes in the request, owed by the entry or in the socket.
\* So the server never sends a byte too many, which the client would count towards
\* another segment.
ClientServerBalance ==
  m_socket = "open" => toArrive = request[Client] + Server!Owed(Client) + unread[Client]

\* TcpStreamServer takes it for granted that a client asks for one segment at a
\* time; this client does, so its request never overwrites an unfinished answer.
RequestMeetsIdleEntry == Server!NoAnswerCutShort

\* Every segment the client asks for arrives, through any send buffer, unless the
\* application stops first.
SegmentArrives ==
  \A s \in Segments :
    received = s /\ toArrive > 0 ~> received > s \/ m_socket = "closed" \/ aborted

=============================================================================
