-------------------------- MODULE TcpStreamServer --------------------------
(***************************************************************************)
(* The server of tcp-stream-server.cc.  It keeps one callbackData entry    *)
(* for each client, filled by HandleRead when a request arrives and worked *)
(* off by HandleSend, which the socket calls back whenever its send buffer *)
(* has room again.  The entries of all clients are independent, the list   *)
(* of connected clients is shared: emptying it stops the simulator.        *)
(*                                                                         *)
(* The sockets are the simulator's: a send buffer of SndBufSize bytes that *)
(* empties as its bytes are acknowledged, which may be some time after the *)
(* client has read them.  A request is the number of bytes asked for.      *)
(***************************************************************************)
EXTENDS Integers, Sequences

CONSTANTS
  Peers,       \* the addresses of the clients
  Sizes,       \* the numbers of bytes a client may ask for
  SndBufSize   \* the size of a socket's send buffer

ASSUME SizesAssumption == Sizes \subseteq Nat \ {0}
ASSUME SndBufSizeAssumption == SndBufSize \in Nat \ {0}

VARIABLES
  m_callbackData,      \* [peer |-> [currentTxBytes, packetSizeToReturn, send]]
  m_connectedClients,  \* sequence of peers
  link,                \* the accepted socket of each peer
  request,             \* the request on its way to the server, or 0
  unacked,             \* bytes in the send buffer
  unread,              \* those of them that the client has not read
  awaited,             \* bytes the client asked for and has not read
  stopped              \* Simulator::Stop was called

socketVars == <<unacked, unread>>
serverVars == <<m_callbackData, m_connectedClients, link, request, socketVars, awaited, stopped>>

\* "reset" is a connection that ended with an error.
Links == {"idle", "open", "closed", "reset"}

Idle == [currentTxBytes |-> 0, packetSizeToReturn |-> 0, send |-> FALSE]

\* m_callbackData has no entry for a client before it is accepted; reading it
\* creates the same entry that HandleAccept stores.
Init ==
  /\ m_callbackData = [p \in Peers |-> Idle]
  /\ m_connectedClients = <<>>
  /\ link = [p \in Peers |-> "idle"]
  /\ request = [p \in Peers |-> 0]
  /\ unacked = [p \in Peers |-> 0]
  /\ unread = [p \in Peers |-> 0]
  /\ awaited = [p \in Peers |-> 0]
  /\ stopped = FALSE

-----------------------------------------------------------------------------
(* HandleSend. held is what the send buffer of p holds when it is called.  *)

Smaller(a, b) == IF a < b THEN a ELSE b

TxAvailable(held) == SndBufSize - held

\* Mutants: the room in the buffer is not looked at; the bytes sent are not counted;
\* the flag is cleared after the first part.
SendSomeAll(p, cbd, held) ==
  LET toSend == cbd.packetSizeToReturn - cbd.currentTxBytes IN
  /\ TxAvailable(held) > 0 /\ cbd.send
  /\ m_callbackData' =
       [m_callbackData EXCEPT ![p] = [cbd EXCEPT !.currentTxBytes = @ + toSend]]
  /\ unacked' = [unacked EXCEPT ![p] = held + toSend]
  /\ unread' = [unread EXCEPT ![p] = @ + toSend]
SendSomeUncounted(p, cbd, held) ==
  LET toSend == Smaller(TxAvailable(held), cbd.packetSizeToReturn) IN
  /\ TxAvailable(held) > 0 /\ cbd.send
  /\ m_callbackData' = [m_callbackData EXCEPT ![p] = cbd]
  /\ unacked' = [unacked EXCEPT ![p] = held + toSend]
  /\ unread' = [unread EXCEPT ![p] = @ + toSend]
SendSomeOnce(p, cbd, held) ==
  LET toSend == Smaller(TxAvailable(held), cbd.packetSizeToReturn - cbd.currentTxBytes) IN
  /\ TxAvailable(held) > 0 /\ cbd.send
  /\ m_callbackData' =
       [m_callbackData EXCEPT ![p] = [cbd EXCEPT !.currentTxBytes = @ + toSend, !.send = FALSE]]
  /\ unacked' = [unacked EXCEPT ![p] = held + toSend]
  /\ unread' = [unread EXCEPT ![p] = @ + toSend]

\* As much of the rest of the segment as the send buffer takes.
SendSome(p, cbd, held) ==
  LET toSend == Smaller(TxAvailable(held), cbd.packetSizeToReturn - cbd.currentTxBytes) IN
  /\ TxAvailable(held) > 0
  /\ cbd.send
  /\ m_callbackData' =
       [m_callbackData EXCEPT ![p] = [cbd EXCEPT !.currentTxBytes = @ + toSend]]
  /\ unacked' = [unacked EXCEPT ![p] = held + toSend]
  /\ unread' = [unread EXCEPT ![p] = @ + toSend]

SendNothing(p, cbd, held) ==
  /\ m_callbackData' = [m_callbackData EXCEPT ![p] = cbd]
  /\ unacked' = [unacked EXCEPT ![p] = held]
  /\ UNCHANGED unread

\* With the entry cbd in place for p: the segment is finished, goes on, or waits
\* for room in the buffer.
HandleSend(p, cbd, held) ==
  \/ /\ cbd.currentTxBytes = cbd.packetSizeToReturn
     /\ SendNothing(p, Idle, held)
  \/ /\ cbd.currentTxBytes # cbd.packetSizeToReturn
     /\ SendSome(p, cbd, held)
  \/ /\ cbd.currentTxBytes # cbd.packetSizeToReturn
     /\ ~(TxAvailable(held) > 0 /\ cbd.send)
     /\ SendNothing(p, cbd, held)

-----------------------------------------------------------------------------
(* The callbacks of the sockets. The operators marked "mutant" are not part *)
(* of the server: each is the definition after it with a bug.               *)

\* Mutant: the bytes sent for the last segment are still counted.
NewEntryCounting(p) ==
  [m_callbackData[p] EXCEPT !.packetSizeToReturn = request[p], !.send = TRUE]

\* The entry for the number of bytes that GetCommand reads from the request.
NewEntry(p) ==
  [currentTxBytes |-> 0, packetSizeToReturn |-> request[p], send |-> TRUE]

HandleRead(p) ==
  /\ link[p] = "open"
  /\ request[p] > 0
  /\ request' = [request EXCEPT ![p] = 0]
  /\ HandleSend(p, NewEntry(p), unacked[p])
  /\ UNCHANGED <<m_connectedClients, link, awaited, stopped>>

HandleAccept(p) ==
  /\ link[p] = "idle"
  /\ link' = [link EXCEPT ![p] = "open"]
  /\ m_callbackData' = [m_callbackData EXCEPT ![p] = Idle]
  /\ m_connectedClients' = Append(m_connectedClients, p)
  /\ UNCHANGED <<request, socketVars, awaited, stopped>>

\* k bytes that the client has read are acknowledged: the buffer has room again
\* and the socket calls HandleSend.
Acknowledged(p, k) ==
  /\ k <= unacked[p] - unread[p]
  /\ HandleSend(p, m_callbackData[p], unacked[p] - k)
  /\ UNCHANGED <<m_connectedClients, link, request, awaited, stopped>>

\* The place of p in the list, the first one if there were several.
Position(p) ==
  CHOOSE i \in 1 .. Len(m_connectedClients) :
    m_connectedClients[i] = p /\ \A j \in 1 .. i - 1 : m_connectedClients[j] # p

\* Mutants: the entry taken out is the one that was connected last; p is taken out
\* with all that were connected after it.
WithoutLast(p) == SubSeq(m_connectedClients, 1, Len(m_connectedClients) - 1)
WithoutRest(p) == SubSeq(m_connectedClients, 1, Position(p) - 1)

\* The list after the entry of p has been erased.
Without(p) ==
  SubSeq(m_connectedClients, 1, Position(p) - 1)
    \o SubSeq(m_connectedClients, Position(p) + 1, Len(m_connectedClients))

Listed(p) == \E i \in 1 .. Len(m_connectedClients) : m_connectedClients[i] = p

\* p has closed its end. Its entry stays, and what is left of an answer is sent.
HandlePeerClose(p) ==
  /\ link[p] = "open"
  /\ request[p] = 0
  /\ link' = [link EXCEPT ![p] = "closed"]
  /\ m_connectedClients' = IF Listed(p) THEN Without(p) ELSE m_connectedClients
  /\ stopped' = (stopped \/ (Listed(p) /\ m_connectedClients' = <<>>))
  /\ UNCHANGED <<m_callbackData, request, socketVars, awaited>>

\* The connection of p is reset. The handler does nothing, so p stays in the list;
\* the socket is gone with what it held.
HandlePeerError(p) ==
  /\ link[p] = "open"
  /\ link' = [link EXCEPT ![p] = "reset"]
  /\ request' = [request EXCEPT ![p] = 0]
  /\ unacked' = [unacked EXCEPT ![p] = 0]
  /\ unread' = [unread EXCEPT ![p] = 0]
  /\ UNCHANGED <<m_callbackData, m_connectedClients, awaited, stopped>>

-----------------------------------------------------------------------------
(* The clients: they ask for one segment at a time, as TcpStreamClient does *)
(* (ExactlyOneRequest there), and the first request may overtake the        *)
(* server's side of the connection.                                         *)

Ask(p, n) ==
  /\ link[p] \in {"idle", "open"}
  /\ awaited[p] = 0
  /\ awaited' = [awaited EXCEPT ![p] = n]
  /\ request' = [request EXCEPT ![p] = n]
  /\ UNCHANGED <<m_callbackData, m_connectedClients, link, socketVars, stopped>>

Read(p, n) ==
  /\ n <= unread[p]
  /\ unread' = [unread EXCEPT ![p] = @ - n]
  /\ awaited' = [awaited EXCEPT ![p] = @ - n]
  /\ UNCHANGED <<m_callbackData, m_connectedClients, link, request, unacked, stopped>>

PeerNext(p) ==
  \/ HandleAccept(p)
  \/ HandleRead(p)
  \/ \E k \in 1 .. SndBufSize : Acknowledged(p, k)
  \/ HandlePeerClose(p)
  \/ HandlePeerError(p)
  \/ \E n \in Sizes : Ask(p, n)
  \/ \E n \in 1 .. SndBufSize : Read(p, n)

Next == ~stopped /\ \E p \in Peers : PeerNext(p)

Spec == Init /\ [][Next]_serverVars

\* The simulator completes the connection, delivers requests and acknowledgements,
\* and the client reads what arrives. Nobody has to ask or to close.
Fairness ==
  \A p \in Peers :
    /\ WF_serverVars(~stopped /\ HandleAccept(p))
    /\ WF_serverVars(~stopped /\ HandleRead(p))
    /\ WF_serverVars(~stopped /\ \E k \in 1 .. SndBufSize : Acknowledged(p, k))
    /\ WF_serverVars(~stopped /\ \E n \in 1 .. SndBufSize : Read(p, n))

FairSpec == Spec /\ Fairness

-----------------------------------------------------------------------------
(* Properties.                                                             *)

CallbackData == [currentTxBytes : Nat, packetSizeToReturn : Nat, send : BOOLEAN]

\* Every variable keeps its type; the send buffer never holds more than it can.
TypeOK ==
  /\ m_callbackData \in [Peers -> CallbackData]
  /\ m_connectedClients \in Seq(Peers)
  /\ link \in [Peers -> Links]
  /\ request \in [Peers -> Nat]
  /\ unacked \in [Peers -> 0 .. SndBufSize]
  /\ unread \in [Peers -> 0 .. SndBufSize]
  /\ awaited \in [Peers -> Nat]
  /\ stopped \in BOOLEAN

\* What HandleSend still has to write for p.
Owed(p) == m_callbackData[p].packetSizeToReturn - m_callbackData[p].currentTxBytes

\* Until the connection is reset, each byte a client waits for is in exactly one
\* place: asked for in the request, still owed by the entry, or in the socket. No
\* byte is sent twice or for a segment that was not asked for, whichever of a
\* request and an acknowledgement comes first.
AnswerBalance ==
  \A p \in Peers : link[p] # "reset" => awaited[p] = request[p] + Owed(p) + unread[p]

\* A request never meets an unfinished answer: the entry that HandleRead overwrites
\* owes nothing, though the callback that clears it may not have come yet.
NoAnswerCutShort ==
  \A p \in Peers : request[p] > 0 => Owed(p) = 0 /\ unread[p] = 0

\* An answer that is not complete waits for a callback that will come: the send
\* flag is set and the buffer holds bytes whose acknowledgement is outstanding.
SomeoneWillCall ==
  \A p \in Peers : link[p] # "reset" /\ Owed(p) > 0 =>
    m_callbackData[p].send /\ unacked[p] > 0

\* A client is in the list of connected clients once from its accept to its close;
\* one whose connection was reset is never taken out.
ConnectedListed ==
  /\ \A i, j \in 1 .. Len(m_connectedClients) :
       m_connectedClients[i] = m_connectedClients[j] => i = j
  /\ \A p \in Peers :
       link[p] \in {"open", "reset"} <=> Listed(p)

\* The server stops the simulation only when every client it accepted has closed.
StopsWhenAllClosed ==
  stopped => /\ \E p \in Peers : link[p] = "closed"
             /\ \A p \in Peers : link[p] \in {"idle", "closed"}

\* A client that asks for a segment gets all of it, whatever the size of the
\* segment and of the send buffer, unless the simulation stops or the connection
\* is reset.
Answered ==
  \A p \in Peers : awaited[p] > 0 ~> awaited[p] = 0 \/ link[p] = "reset" \/ stopped

=============================================================================
