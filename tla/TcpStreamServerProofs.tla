----------------------- MODULE TcpStreamServerProofs -----------------------
(***************************************************************************)
(* The server of any number of clients, segments of any sizes, and send    *)
(* buffers of any size: nobody gets a byte too many or too few, and the    *)
(* list of clients follows their connections.                              *)
(***************************************************************************)
EXTENDS TcpStreamServer, SequenceTheorems, TLAPS

-----------------------------------------------------------------------------
(* The answers: each client's entry, request and socket.                   *)

\* The entry never counts more than it was asked for, what was not read is still in
\* the buffer, and a connection that is not there holds nothing; with these, the
\* properties of TcpStreamServer, for one client.
PeerSound(p) ==
  /\ m_callbackData[p].currentTxBytes <= m_callbackData[p].packetSizeToReturn
  /\ unread[p] <= unacked[p]
  /\ link[p] = "idle" => Owed(p) = 0 /\ unacked[p] = 0
  /\ link[p] = "reset" => unacked[p] = 0 /\ request[p] = 0
  /\ link[p] # "reset" => awaited[p] = request[p] + Owed(p) + unread[p]
  /\ request[p] > 0 => Owed(p) = 0 /\ unread[p] = 0
  /\ link[p] # "reset" /\ Owed(p) > 0 => m_callbackData[p].send /\ unacked[p] > 0

Answers == TypeOK /\ \A p \in Peers : PeerSound(p)

LEMMA AnswersImply == Answers => AnswerBalance /\ NoAnswerCutShort /\ SomeoneWillCall
  BY DEF Answers, PeerSound, AnswerBalance, NoAnswerCutShort, SomeoneWillCall

\* What is known of one client.
LEMMA PeerTypes ==
  ASSUME TypeOK, NEW p \in Peers
  PROVE  /\ m_callbackData[p] \in CallbackData
         /\ m_callbackData[p].currentTxBytes \in Nat
         /\ m_callbackData[p].packetSizeToReturn \in Nat
         /\ Owed(p) \in Int
         /\ link[p] \in Links
         /\ request[p] \in Nat /\ awaited[p] \in Nat
         /\ unacked[p] \in 0 .. SndBufSize /\ unread[p] \in 0 .. SndBufSize
         /\ SndBufSize \in Nat \ {0}
  BY SndBufSizeAssumption DEF TypeOK, CallbackData, Owed

\* A step that leaves all of a client's state alone keeps it sound.
LEMMA OthersKeep ==
  ASSUME NEW q \in Peers, PeerSound(q),
         m_callbackData'[q] = m_callbackData[q], link'[q] = link[q],
         request'[q] = request[q], unacked'[q] = unacked[q], unread'[q] = unread[q],
         awaited'[q] = awaited[q]
  PROVE  PeerSound(q)'
  BY DEF PeerSound, Owed

LEMMA IdleEntry ==
  /\ Idle \in CallbackData
  /\ Idle.currentTxBytes = 0 /\ Idle.packetSizeToReturn = 0
  BY DEF Idle, CallbackData

LEMMA AnswersBegin == Init => Answers
<1> SUFFICES ASSUME Init
             PROVE  Answers
  OBVIOUS
<1>0. 0 \in 0 .. SndBufSize
  BY SndBufSizeAssumption
<1>1. TypeOK
  <2>1. m_callbackData \in [Peers -> CallbackData]
    BY IdleEntry DEF Init
  <2>2. m_connectedClients \in Seq(Peers)
    BY DEF Init
  <2>6. stopped \in BOOLEAN
    BY Zenon DEF Init
  <2>5. link \in [Peers -> Links]
    BY Zenon DEF Init, Links
  <2>3. request \in [Peers -> Nat] /\ awaited \in [Peers -> Nat]
    BY DEF Init
  <2>4. unacked \in [Peers -> 0 .. SndBufSize] /\ unread \in [Peers -> 0 .. SndBufSize]
    BY <1>0 DEF Init
  <2> QED
    BY <2>1, <2>2, <2>3, <2>4, <2>5, <2>6 DEF TypeOK
<1>2. ASSUME NEW p \in Peers
      PROVE  /\ m_callbackData[p].currentTxBytes = 0
             /\ m_callbackData[p].packetSizeToReturn = 0
             /\ unread[p] = 0 /\ unacked[p] = 0 /\ request[p] = 0 /\ awaited[p] = 0
  <2>1. m_callbackData[p] = Idle
    BY Zenon DEF Init
  <2>2. unread[p] = 0 /\ unacked[p] = 0 /\ request[p] = 0 /\ awaited[p] = 0
    BY Zenon DEF Init
  <2> QED
    BY <2>1, <2>2, IdleEntry
<1>3. ASSUME NEW p \in Peers
      PROVE  PeerSound(p)
  <2>1. Owed(p) = 0
    BY <1>2 DEF Owed
  <2> QED
    BY <1>2, <2>1 DEF PeerSound
<1> QED
  BY <1>1, <1>3 DEF Answers

\* What HandleSend has done when it returns: it has sent some bytes, as many as the
\* entry has counted and the buffer had room for, and if it still owes bytes it has
\* left some in the buffer.
Sends(p, cbd, held, e, sent) ==
  /\ m_callbackData' = [m_callbackData EXCEPT ![p] = e]
  /\ unacked' = [unacked EXCEPT ![p] = held + sent]
  /\ unread' = [unread EXCEPT ![p] = @ + sent]
  /\ held + sent <= SndBufSize
  /\ e.currentTxBytes <= e.packetSizeToReturn
  /\ (e.packetSizeToReturn - e.currentTxBytes) + sent
       = cbd.packetSizeToReturn - cbd.currentTxBytes
  /\ cbd.send /\ e.currentTxBytes < e.packetSizeToReturn => e.send /\ held + sent > 0

LEMMA HandleSendSends ==
  ASSUME NEW p \in Peers, NEW cbd \in CallbackData, NEW held \in 0 .. SndBufSize,
         cbd.currentTxBytes <= cbd.packetSizeToReturn,
         unread \in [Peers -> 0 .. SndBufSize],
         HandleSend(p, cbd, held)
  PROVE  \E e \in CallbackData, sent \in 0 .. SndBufSize : Sends(p, cbd, held, e, sent)
<1> DEFINE rest == cbd.packetSizeToReturn - cbd.currentTxBytes
<1>0. /\ SndBufSize \in Nat \ {0}
      /\ cbd.currentTxBytes \in Nat /\ cbd.packetSizeToReturn \in Nat /\ cbd.send \in BOOLEAN
      /\ unread[p] \in Nat
  BY SndBufSizeAssumption DEF CallbackData
<1>1. ASSUME NEW e \in CallbackData, SendNothing(p, e, held),
             \/ e = Idle /\ rest = 0
             \/ e = cbd /\ (cbd.send => TxAvailable(held) = 0)
      PROVE  Sends(p, cbd, held, e, 0)
  <2>1. /\ m_callbackData' = [m_callbackData EXCEPT ![p] = e]
        /\ unacked' = [unacked EXCEPT ![p] = held + 0]
        /\ unread' = [unread EXCEPT ![p] = @ + 0]
    <3>1. held + 0 = held /\ unread[p] + 0 = unread[p]
      BY <1>0
    <3>2. unread' = [unread EXCEPT ![p] = unread[p]]
      BY <1>1 DEF SendNothing
    <3> QED
      BY <1>1, <3>1, <3>2 DEF SendNothing
  <2>2. /\ e.currentTxBytes <= e.packetSizeToReturn
        /\ (e.packetSizeToReturn - e.currentTxBytes) + 0 = rest
        /\ cbd.send /\ e.currentTxBytes < e.packetSizeToReturn => e.send /\ held + 0 > 0
    <3>1. CASE e = Idle /\ rest = 0
      BY <1>0, <3>1 DEF Idle
    <3>2. CASE e = cbd /\ (cbd.send => TxAvailable(held) = 0)
      BY <1>0, <3>2 DEF TxAvailable
    <3> QED
      BY <1>1, <3>1, <3>2
  <2> QED
    BY <1>0, <2>1, <2>2 DEF Sends
<1>2. CASE rest = 0 /\ SendNothing(p, Idle, held)
  <2>1. Sends(p, cbd, held, Idle, 0)
    BY <1>1, <1>2, IdleEntry
  <2> QED
    BY <1>0, <2>1, IdleEntry
<1>3. CASE rest # 0 /\ SendSome(p, cbd, held)
  <2> DEFINE toSend == Smaller(TxAvailable(held), rest)
             e == [cbd EXCEPT !.currentTxBytes = @ + toSend]
  <2>1. /\ toSend \in 1 .. SndBufSize /\ toSend <= rest /\ held + toSend <= SndBufSize
    BY <1>0, <1>3 DEF SendSome, Smaller, TxAvailable
  <2>2. /\ m_callbackData' = [m_callbackData EXCEPT ![p] = e]
        /\ unacked' = [unacked EXCEPT ![p] = held + toSend]
        /\ unread' = [unread EXCEPT ![p] = @ + toSend]
        /\ cbd.send
    BY <1>3 DEF SendSome
  <2>3. /\ e \in CallbackData /\ e.currentTxBytes = cbd.currentTxBytes + toSend
        /\ e.packetSizeToReturn = cbd.packetSizeToReturn /\ e.send = cbd.send
    <3> HIDE DEF toSend
    <3> QED
      BY <1>0, <2>1 DEF CallbackData
  <2> HIDE DEF toSend, e
  <2>4. Sends(p, cbd, held, e, toSend)
    BY <1>0, <2>1, <2>2, <2>3 DEF Sends
  <2> QED
    BY <1>0, <2>1, <2>3, <2>4
<1>4. CASE SendNothing(p, cbd, held) /\ ~(TxAvailable(held) > 0 /\ cbd.send)
  <2>1. cbd.send => TxAvailable(held) = 0
    BY <1>0, <1>4 DEF TxAvailable
  <2> QED
    BY <1>0, <1>1, <1>4, <2>1
<1> QED
  BY <1>0, <1>2, <1>3, <1>4 DEF HandleSend

\* HandleSend keeps the answers, whatever entry and buffer it is called with, if
\* with these p's bytes add up.
LEMMA HandleSendKeeps ==
  ASSUME Answers, NEW p \in Peers, NEW cbd \in CallbackData, NEW held \in 0 .. SndBufSize,
         cbd.currentTxBytes <= cbd.packetSizeToReturn, unread[p] <= held,
         link[p] \in {"open", "closed"},
         awaited[p] = request'[p] + (cbd.packetSizeToReturn - cbd.currentTxBytes) + unread[p],
         request'[p] > 0 => cbd.packetSizeToReturn = cbd.currentTxBytes /\ unread[p] = 0,
         cbd.packetSizeToReturn > cbd.currentTxBytes => cbd.send,
         HandleSend(p, cbd, held),
         request' \in [Peers -> Nat],
         \A q \in Peers : q # p => request'[q] = request[q],
         UNCHANGED <<m_connectedClients, link, awaited, stopped>>
  PROVE  Answers'
<1>0. TypeOK /\ unread \in [Peers -> 0 .. SndBufSize] /\ SndBufSize \in Nat \ {0}
  BY SndBufSizeAssumption DEF Answers, TypeOK
<1>1. PICK e \in CallbackData, sent \in 0 .. SndBufSize : Sends(p, cbd, held, e, sent)
  BY <1>0, HandleSendSends
<1>2. /\ cbd.currentTxBytes \in Nat /\ cbd.packetSizeToReturn \in Nat
      /\ e.currentTxBytes \in Nat /\ e.packetSizeToReturn \in Nat
      /\ unread[p] \in Nat /\ request'[p] \in Nat /\ awaited[p] \in Nat
  BY <1>0, PeerTypes DEF CallbackData
<1>3. TypeOK'
  <2>1. m_callbackData' \in [Peers -> CallbackData]
    BY <1>0, <1>1 DEF TypeOK, Sends
  <2>2. held + sent \in 0 .. SndBufSize /\ unread[p] + sent \in 0 .. SndBufSize
    BY <1>0, <1>1, <1>2 DEF Sends
  <2>3. unacked' \in [Peers -> 0 .. SndBufSize]
    BY <1>0, <1>1, <2>2 DEF TypeOK, Sends
  <2>4. unread' \in [Peers -> 0 .. SndBufSize]
    BY <1>0, <1>1, <2>2 DEF TypeOK, Sends
  <2> QED
    BY <1>0, <2>1, <2>3, <2>4 DEF TypeOK
<1>4. ASSUME NEW q \in Peers, q # p
      PROVE  PeerSound(q)'
  <2>1. /\ m_callbackData'[q] = m_callbackData[q]
        /\ unacked'[q] = unacked[q] /\ unread'[q] = unread[q]
    BY <1>0, <1>1, <1>4 DEF TypeOK, Sends
  <2> QED
    BY <1>4, <2>1, OthersKeep DEF Answers
<1>5. PeerSound(p)'
  <2>1. /\ m_callbackData'[p] = e /\ unacked'[p] = held + sent
        /\ unread'[p] = unread[p] + sent /\ link'[p] = link[p] /\ awaited'[p] = awaited[p]
    BY <1>0, <1>1 DEF TypeOK, Sends
  <2>2. Owed(p)' = e.packetSizeToReturn - e.currentTxBytes
    BY <2>1 DEF Owed
  <2>3. /\ e.currentTxBytes <= e.packetSizeToReturn
        /\ (e.packetSizeToReturn - e.currentTxBytes) + sent
             = cbd.packetSizeToReturn - cbd.currentTxBytes
        /\ cbd.send /\ e.currentTxBytes < e.packetSizeToReturn => e.send /\ held + sent > 0
    BY <1>1 DEF Sends
  <2>4. unread'[p] <= unacked'[p]
    BY <1>2, <2>1
  <2>5. awaited'[p] = request'[p] + Owed(p)' + unread'[p]
    BY <1>2, <2>1, <2>2, <2>3
  <2>6. request'[p] > 0 => Owed(p)' = 0 /\ unread'[p] = 0
    <3> SUFFICES ASSUME request'[p] > 0
                 PROVE  Owed(p)' = 0 /\ unread'[p] = 0
      OBVIOUS
    <3>1. cbd.packetSizeToReturn - cbd.currentTxBytes = 0 /\ unread[p] = 0
      BY <1>2
    <3>2. e.packetSizeToReturn - e.currentTxBytes = 0 /\ sent = 0
      BY <1>2, <2>3, <3>1
    <3> QED
      BY <2>1, <2>2, <3>1, <3>2
  <2>7. Owed(p)' > 0 => e.send /\ unacked'[p] > 0
    BY <1>2, <2>1, <2>2, <2>3
  <2>8. link'[p] # "idle" /\ link'[p] # "reset"
    BY <2>1
  <2> QED
    BY <2>1, <2>3, <2>4, <2>5, <2>6, <2>7, <2>8 DEF PeerSound
<1> QED
  BY <1>3, <1>4, <1>5 DEF Answers

-----------------------------------------------------------------------------
(* One lemma for each callback, and for what the client does.              *)

LEMMA HandleReadKeeps ==
  ASSUME Answers, NEW p \in Peers, HandleRead(p)
  PROVE  Answers'
<1> DEFINE cbd == NewEntry(p)
<1>1. TypeOK /\ PeerSound(p)
  BY DEF Answers
<1>2. /\ link[p] = "open" /\ request[p] > 0 /\ request' = [request EXCEPT ![p] = 0]
      /\ HandleSend(p, cbd, unacked[p])
      /\ UNCHANGED <<m_connectedClients, link, awaited, stopped>>
  BY DEF HandleRead
<1>3. /\ request' \in [Peers -> Nat] /\ request'[p] = 0
      /\ \A q \in Peers : q # p => request'[q] = request[q]
  BY <1>1, <1>2 DEF TypeOK
<1>4. /\ cbd \in CallbackData /\ cbd.currentTxBytes = 0
      /\ cbd.packetSizeToReturn = request[p] /\ cbd.send
  BY <1>1, PeerTypes DEF NewEntry, CallbackData
<1>5. Owed(p) = 0 /\ unread[p] = 0 /\ awaited[p] = request[p]
  BY <1>1, <1>2, PeerTypes DEF PeerSound
<1>6. unacked[p] \in 0 .. SndBufSize /\ request[p] \in Nat
  BY <1>1, PeerTypes
<1>7. unread[p] <= unacked[p] /\ link[p] \in {"open", "closed"}
  BY <1>2, <1>5, <1>6
<1>8. awaited[p] = request'[p] + (cbd.packetSizeToReturn - cbd.currentTxBytes) + unread[p]
  BY <1>3, <1>4, <1>5, <1>6
<1> HIDE DEF cbd
<1>9. cbd.currentTxBytes <= cbd.packetSizeToReturn
  BY <1>4, <1>6
<1> QED
  BY <1>2, <1>3, <1>4, <1>6, <1>7, <1>8, <1>9, HandleSendKeeps

LEMMA AcknowledgedKeeps ==
  ASSUME Answers, NEW p \in Peers, NEW k \in 1 .. SndBufSize, Acknowledged(p, k)
  PROVE  Answers'
<1> DEFINE cbd == m_callbackData[p]
           held == unacked[p] - k
<1>1. TypeOK /\ PeerSound(p)
  BY DEF Answers
<1>2. /\ k <= unacked[p] - unread[p] /\ HandleSend(p, cbd, held)
      /\ UNCHANGED <<m_connectedClients, link, request, awaited, stopped>>
  BY DEF Acknowledged
<1>3. /\ cbd \in CallbackData /\ cbd.currentTxBytes \in Nat /\ cbd.packetSizeToReturn \in Nat
      /\ unacked[p] \in 0 .. SndBufSize /\ unread[p] \in 0 .. SndBufSize
      /\ link[p] \in Links /\ request[p] \in Nat /\ SndBufSize \in Nat
      /\ Owed(p) = cbd.packetSizeToReturn - cbd.currentTxBytes
  BY <1>1, PeerTypes DEF Owed
<1>4. held \in 0 .. SndBufSize /\ unread[p] <= held /\ unacked[p] # 0
  BY <1>2, <1>3
<1>5. link[p] \in {"open", "closed"}
  BY <1>1, <1>3, <1>4 DEF PeerSound, Links
<1>6. /\ cbd.currentTxBytes <= cbd.packetSizeToReturn
      /\ awaited[p] = request[p] + Owed(p) + unread[p]
      /\ request[p] > 0 => Owed(p) = 0 /\ unread[p] = 0
      /\ Owed(p) > 0 => cbd.send
  BY <1>1, <1>5 DEF PeerSound
<1>7. /\ request' \in [Peers -> Nat] /\ request' = request
  BY <1>1, <1>2 DEF TypeOK
<1> HIDE DEF cbd, held
<1>8. /\ awaited[p] = request'[p] + (cbd.packetSizeToReturn - cbd.currentTxBytes) + unread[p]
      /\ request'[p] > 0 => cbd.packetSizeToReturn = cbd.currentTxBytes /\ unread[p] = 0
      /\ cbd.packetSizeToReturn > cbd.currentTxBytes => cbd.send
  BY <1>3, <1>6, <1>7
<1> QED
  BY <1>2, <1>3, <1>4, <1>5, <1>6, <1>7, <1>8, HandleSendKeeps

LEMMA HandleAcceptKeeps ==
  ASSUME Answers, NEW p \in Peers, HandleAccept(p)
  PROVE  Answers'
<1>1. TypeOK /\ PeerSound(p) /\ \A q \in Peers : PeerSound(q)
  BY DEF Answers
<1>2. TypeOK'
  <2>1. link' \in [Peers -> Links]
    BY <1>1 DEF TypeOK, HandleAccept, Links
  <2>2. m_callbackData' \in [Peers -> CallbackData]
    BY <1>1, IdleEntry DEF TypeOK, HandleAccept
  <2>3. m_connectedClients' \in Seq(Peers)
    BY <1>1 DEF TypeOK, HandleAccept
  <2> QED
    BY <1>1, <2>1, <2>2, <2>3 DEF TypeOK, HandleAccept, socketVars
<1>3. ASSUME NEW q \in Peers, q # p
      PROVE  PeerSound(q)'
  BY <1>1, <1>3, OthersKeep DEF TypeOK, HandleAccept, socketVars
<1>4. PeerSound(p)'
  <2>1. /\ link[p] = "idle" /\ link'[p] = "open" /\ m_callbackData'[p] = Idle
        /\ request'[p] = request[p] /\ unacked'[p] = unacked[p] /\ unread'[p] = unread[p]
        /\ awaited'[p] = awaited[p]
    BY <1>1 DEF TypeOK, HandleAccept, socketVars
  <2>2. Owed(p) = 0 /\ Owed(p)' = 0
    BY <1>1, <2>1, IdleEntry DEF PeerSound, Owed
  <2>3. /\ unread[p] <= unacked[p] /\ awaited[p] = request[p] + Owed(p) + unread[p]
        /\ request[p] > 0 => unread[p] = 0
    BY <1>1, <2>1 DEF PeerSound
  <2> QED
    BY <2>1, <2>2, <2>3, IdleEntry DEF PeerSound
<1> QED
  BY <1>2, <1>3, <1>4 DEF Answers

LEMMA PeerCloseKeeps ==
  ASSUME Answers, NEW p \in Peers, HandlePeerClose(p), m_connectedClients' \in Seq(Peers)
  PROVE  Answers'
<1>1. TypeOK /\ PeerSound(p) /\ \A q \in Peers : PeerSound(q)
  BY DEF Answers
<1>2. TypeOK'
  <2>1. link' \in [Peers -> Links]
    BY <1>1 DEF TypeOK, HandlePeerClose, Links
  <2>2. stopped' \in BOOLEAN
    BY Zenon DEF HandlePeerClose
  <2> QED
    BY <1>1, <2>1, <2>2 DEF TypeOK, HandlePeerClose, socketVars
<1>3. /\ link[p] = "open" /\ link'[p] = "closed" /\ \A q \in Peers : q # p => link'[q] = link[q]
      /\ UNCHANGED <<m_callbackData, request, unacked, unread, awaited>>
  BY <1>1 DEF TypeOK, HandlePeerClose, socketVars
<1>4. ASSUME NEW q \in Peers, q # p
      PROVE  PeerSound(q)'
  BY <1>1, <1>3, <1>4, OthersKeep
<1>5. PeerSound(p)'
  BY <1>1, <1>3 DEF PeerSound, Owed
<1> QED
  BY <1>2, <1>4, <1>5 DEF Answers

LEMMA PeerErrorKeeps ==
  ASSUME Answers, NEW p \in Peers, HandlePeerError(p)
  PROVE  Answers'
<1>1. TypeOK /\ PeerSound(p) /\ \A q \in Peers : PeerSound(q)
  BY DEF Answers
<1>2. TypeOK'
  <2>1. link' \in [Peers -> Links]
    BY <1>1 DEF TypeOK, HandlePeerError, Links
  <2>2. request' \in [Peers -> Nat]
    BY <1>1 DEF TypeOK, HandlePeerError
  <2>3. unacked' \in [Peers -> 0 .. SndBufSize] /\ unread' \in [Peers -> 0 .. SndBufSize]
    BY <1>1, SndBufSizeAssumption DEF TypeOK, HandlePeerError
  <2> QED
    BY <1>1, <2>1, <2>2, <2>3 DEF TypeOK, HandlePeerError
<1>3. ASSUME NEW q \in Peers, q # p
      PROVE  PeerSound(q)'
  BY <1>1, <1>3, OthersKeep DEF TypeOK, HandlePeerError
<1>4. PeerSound(p)'
  <2>1. /\ link'[p] = "reset" /\ request'[p] = 0 /\ unacked'[p] = 0 /\ unread'[p] = 0
        /\ m_callbackData' = m_callbackData
    BY <1>1 DEF TypeOK, HandlePeerError
  <2> QED
    BY <1>1, <2>1 DEF PeerSound, Owed
<1> QED
  BY <1>2, <1>3, <1>4 DEF Answers

LEMMA AskKeeps ==
  ASSUME Answers, NEW p \in Peers, NEW n \in Sizes, Ask(p, n)
  PROVE  Answers'
<1>1. TypeOK /\ PeerSound(p) /\ (\A q \in Peers : PeerSound(q)) /\ n \in Nat
  BY SizesAssumption DEF Answers
<1>2. TypeOK'
  BY <1>1 DEF TypeOK, Ask, socketVars
<1>3. ASSUME NEW q \in Peers, q # p
      PROVE  PeerSound(q)'
  BY <1>1, <1>3, OthersKeep DEF TypeOK, Ask, socketVars
<1>4. PeerSound(p)'
  <2>1. /\ link[p] \in {"idle", "open"} /\ awaited[p] = 0 /\ awaited'[p] = n /\ request'[p] = n
        /\ UNCHANGED <<m_callbackData, link, unacked, unread>>
    BY <1>1 DEF TypeOK, Ask, socketVars
  <2>2. Owed(p) >= 0
    BY <1>1, PeerTypes DEF PeerSound, Owed
  <2>3. awaited[p] = request[p] + Owed(p) + unread[p]
    BY <1>1, <2>1 DEF PeerSound
  <2>4. Owed(p) = 0 /\ unread[p] = 0
    BY <1>1, <2>1, <2>2, <2>3, PeerTypes
  <2>5. Owed(p)' = Owed(p)
    BY <2>1 DEF Owed
  <2>6. /\ m_callbackData[p].currentTxBytes <= m_callbackData[p].packetSizeToReturn
        /\ unread[p] <= unacked[p] /\ (link[p] = "idle" => unacked[p] = 0)
    BY <1>1 DEF PeerSound
  <2> QED
    BY <1>1, <2>1, <2>4, <2>5, <2>6 DEF PeerSound
<1> QED
  BY <1>2, <1>3, <1>4 DEF Answers

LEMMA ReadKeeps ==
  ASSUME Answers, NEW p \in Peers, NEW n \in 1 .. SndBufSize, Read(p, n)
  PROVE  Answers'
<1>1. TypeOK /\ PeerSound(p) /\ \A q \in Peers : PeerSound(q)
  BY DEF Answers
<1>2. /\ unread[p] \in 0 .. SndBufSize /\ unacked[p] \in 0 .. SndBufSize
      /\ awaited[p] \in Nat /\ request[p] \in Nat /\ Owed(p) \in Int
      /\ SndBufSize \in Nat /\ n <= unread[p]
  BY <1>1, PeerTypes DEF Read
<1>3. /\ unread[p] <= unacked[p] /\ unacked[p] # 0 /\ link[p] # "reset" /\ Owed(p) >= 0
      /\ awaited[p] = request[p] + Owed(p) + unread[p]
  BY <1>1, <1>2, PeerTypes DEF PeerSound, Owed
<1>4. unread[p] - n \in 0 .. SndBufSize /\ awaited[p] - n \in Nat
  BY <1>2, <1>3
<1>5. TypeOK'
  <2>1. unread' \in [Peers -> 0 .. SndBufSize]
    BY <1>1, <1>4 DEF TypeOK, Read
  <2>2. awaited' \in [Peers -> Nat]
    BY <1>1, <1>4 DEF TypeOK, Read
  <2> QED
    BY <1>1, <2>1, <2>2 DEF TypeOK, Read
<1>6. ASSUME NEW q \in Peers, q # p
      PROVE  PeerSound(q)'
  BY <1>1, <1>6, OthersKeep DEF TypeOK, Read
<1>7. PeerSound(p)'
  <2>1. /\ unread'[p] = unread[p] - n /\ awaited'[p] = awaited[p] - n
        /\ UNCHANGED <<m_callbackData, link, request, unacked>>
    BY <1>1 DEF TypeOK, Read
  <2>2. Owed(p)' = Owed(p)
    BY <2>1 DEF Owed
  <2>3. awaited'[p] = request'[p] + Owed(p)' + unread'[p]
    BY <1>2, <1>3, <2>1, <2>2
  <2>4. request[p] = 0
    BY <1>1, <1>2 DEF PeerSound
  <2>5. unread'[p] <= unacked'[p]
    BY <1>2, <1>3, <2>1
  <2> QED
    BY <1>1, <1>2, <1>3, <2>1, <2>2, <2>3, <2>4, <2>5 DEF PeerSound
<1> QED
  BY <1>5, <1>6, <1>7 DEF Answers

-----------------------------------------------------------------------------
(* The list of connected clients.                                          *)

\* Erasing the entry of p moves those after it forward by one.
LEMMA WithoutList ==
  ASSUME m_connectedClients \in Seq(Peers), ConnectedListed, NEW p \in Peers, Listed(p)
  PROVE  /\ Position(p) \in 1 .. Len(m_connectedClients)
         /\ m_connectedClients[Position(p)] = p
         /\ Without(p) \in Seq(Peers)
         /\ Len(Without(p)) = Len(m_connectedClients) - 1
         /\ \A i \in 1 .. Len(m_connectedClients) - 1 :
              Without(p)[i] = m_connectedClients[IF i < Position(p) THEN i ELSE i + 1]
<1> DEFINE list == m_connectedClients
           k == Position(p)
           before == SubSeq(list, 1, k - 1)
           after == SubSeq(list, k + 1, Len(list))
<1>1. k \in 1 .. Len(list) /\ list[k] = p
  <2>1. PICK i \in 1 .. Len(list) : list[i] = p
    BY DEF Listed
  <2>2. \A j \in 1 .. i - 1 : list[j] # p
    BY <2>1 DEF ConnectedListed
  <2> QED
    BY <2>1, <2>2 DEF Position
<1>2. Len(list) \in Nat /\ k \in Int
  BY <1>1
<1> HIDE DEF k
<1>3. /\ before \in Seq(Peers) /\ Len(before) = k - 1
      /\ \A i \in 1 .. k - 1 : before[i] = list[i]
  <2>1. \A i \in 1 .. k - 1 : list[i] \in Peers
    BY <1>1, <1>2
  <2>2. /\ before \in Seq(Peers)
        /\ Len(before) = IF 1 <= k - 1 THEN k - 1 - 1 + 1 ELSE 0
        /\ \A i \in 1 .. k - 1 - 1 + 1 : before[i] = list[1 + i - 1]
    BY <1>1, <1>2, <2>1, SubSeqProperties
  <2> QED
    BY <1>1, <1>2, <2>2
<1>4. /\ after \in Seq(Peers) /\ Len(after) = Len(list) - k
      /\ \A i \in 1 .. Len(list) - k : after[i] = list[k + i]
  <2>1. \A i \in k + 1 .. Len(list) : list[i] \in Peers
    BY <1>1, <1>2
  <2>2. /\ after \in Seq(Peers)
        /\ Len(after) = IF k + 1 <= Len(list) THEN Len(list) - (k + 1) + 1 ELSE 0
        /\ \A i \in 1 .. Len(list) - (k + 1) + 1 : after[i] = list[(k + 1) + i - 1]
    BY <1>1, <1>2, <2>1, SubSeqProperties
  <2> QED
    BY <1>1, <1>2, <2>2
<1>5. Without(p) = before \o after
  BY Zenon DEF Without, k
<1> HIDE DEF before, after
<1>6. Without(p) \in Seq(Peers) /\ Len(Without(p)) = Len(list) - 1
  BY <1>2, <1>3, <1>4, <1>5
<1>7. ASSUME NEW i \in 1 .. Len(list) - 1
      PROVE  Without(p)[i] = list[IF i < k THEN i ELSE i + 1]
  <2>1. CASE i < k
    BY <1>2, <1>3, <1>4, <1>5, <2>1
  <2>2. CASE ~(i < k)
    <3>1. Without(p)[i] = after[i - (k - 1)]
      BY <1>2, <1>3, <1>4, <1>5, <2>2
    <3>2. i - (k - 1) \in 1 .. Len(list) - k
      BY <1>1, <1>2, <2>2
    <3>3. after[i - (k - 1)] = list[k + (i - (k - 1))]
      BY <1>4, <3>2
    <3>4. k + (i - (k - 1)) = i + 1
      BY <1>2
    <3> QED
      BY <2>2, <3>1, <3>3, <3>4
  <2> QED
    BY <2>1, <2>2
<1> QED
  BY <1>1, <1>6, <1>7 DEF k

LEMMA ErasingKeepsList ==
  ASSUME TypeOK, ConnectedListed, NEW p \in Peers, link[p] = "open", HandlePeerClose(p)
  PROVE  m_connectedClients' \in Seq(Peers) /\ ConnectedListed'
<1> DEFINE list == m_connectedClients
           new == Without(p)
           k == Position(p)
<1>1. /\ list \in Seq(Peers) /\ Len(list) \in Nat /\ Listed(p)
      /\ link' = [link EXCEPT ![p] = "closed"] /\ link \in [Peers -> Links]
  BY DEF TypeOK, ConnectedListed, HandlePeerClose
<1>2. m_connectedClients' = new
  BY <1>1 DEF HandlePeerClose
<1>3. /\ k \in 1 .. Len(list) /\ list[k] = p /\ new \in Seq(Peers)
      /\ Len(new) = Len(list) - 1
      /\ \A i \in 1 .. Len(list) - 1 : new[i] = list[IF i < k THEN i ELSE i + 1]
  BY <1>1, WithoutList
<1> HIDE DEF new, k
<1>4. \A i, j \in 1 .. Len(list) : list[i] = list[j] => i = j
  BY DEF ConnectedListed
<1>5. \A i, j \in 1 .. Len(new) : new[i] = new[j] => i = j
  BY <1>1, <1>3, <1>4
<1>6. ASSUME NEW q \in Peers
      PROVE  (\E i \in 1 .. Len(new) : new[i] = q) <=> (q # p /\ Listed(q))
  <2>1. ASSUME NEW i \in 1 .. Len(new), new[i] = q
        PROVE  q # p /\ Listed(q)
    <3> DEFINE j == IF i < k THEN i ELSE i + 1
    <3>1. j \in 1 .. Len(list) /\ j # k /\ new[i] = list[j]
      BY <1>1, <1>3
    <3> HIDE DEF j
    <3> QED
      BY <1>3, <1>4, <2>1, <3>1 DEF Listed
  <2>2. ASSUME q # p, Listed(q)
        PROVE  \E i \in 1 .. Len(new) : new[i] = q
    <3>1. PICK j \in 1 .. Len(list) : list[j] = q
      BY <2>2 DEF Listed
    <3>2. CASE j < k
      BY <1>1, <1>3, <3>1, <3>2
    <3>3. CASE j > k
      <4>1. j - 1 \in 1 .. Len(new) /\ new[j - 1] = list[j]
        BY <1>1, <1>3, <3>3
      <4> QED
        BY <3>1, <4>1
    <3> QED
      BY <1>1, <1>3, <2>2, <3>1, <3>2, <3>3
  <2> QED
    BY <2>1, <2>2
<1>7. ASSUME NEW q \in Peers
      PROVE  link'[q] \in {"open", "reset"} <=> Listed(q)'
  <2>1. link'[q] \in {"open", "reset"} <=> q # p /\ link[q] \in {"open", "reset"}
    BY <1>1
  <2>2. link[q] \in {"open", "reset"} <=> Listed(q)
    BY DEF ConnectedListed
  <2>3. Listed(q)' <=> (\E i \in 1 .. Len(new) : new[i] = q)
    BY <1>2 DEF Listed
  <2> QED
    BY <1>6, <2>1, <2>2, <2>3
<1> QED
  BY <1>2, <1>3, <1>5, <1>7 DEF ConnectedListed

LEMMA AcceptKeepsList ==
  ASSUME TypeOK, ConnectedListed, NEW p \in Peers, HandleAccept(p)
  PROVE  ConnectedListed'
<1> DEFINE list == m_connectedClients
           n == Len(list)
<1>1. /\ list \in Seq(Peers) /\ n \in Nat /\ list' = Append(list, p)
      /\ link[p] = "idle" /\ link' = [link EXCEPT ![p] = "open"] /\ link \in [Peers -> Links]
  BY DEF TypeOK, HandleAccept
<1>2. ~Listed(p)
  BY <1>1 DEF ConnectedListed
<1>3. Len(list') = n + 1 /\ list'[n + 1] = p /\ \A i \in 1 .. n : list'[i] = list[i]
  BY <1>1
<1>4. \A i, j \in 1 .. n : list[i] = list[j] => i = j
  BY DEF ConnectedListed
<1>5. \A i \in 1 .. n : list[i] # p
  BY <1>2 DEF Listed
<1>6. ASSUME NEW i \in 1 .. n + 1, NEW j \in 1 .. n + 1, list'[i] = list'[j]
      PROVE  i = j
  <2>1. (i \in 1 .. n \/ i = n + 1) /\ (j \in 1 .. n \/ j = n + 1)
    BY <1>1
  <2> QED
    BY <1>3, <1>4, <1>5, <1>6, <2>1
<1>7. ASSUME NEW q \in Peers
      PROVE  link'[q] \in {"open", "reset"} <=> Listed(q)'
  <2>1. link'[q] \in {"open", "reset"} <=> q = p \/ link[q] \in {"open", "reset"}
    BY <1>1
  <2>2. link[q] \in {"open", "reset"} <=> Listed(q)
    BY DEF ConnectedListed
  <2>3. Listed(q)' <=> q = p \/ Listed(q)
    <3>1. \A i : i \in 1 .. n + 1 <=> i \in 1 .. n \/ i = n + 1
      BY <1>1
    <3> QED
      BY <1>3, <3>1 DEF Listed
  <2> QED
    BY <2>1, <2>2, <2>3
<1> QED
  BY <1>3, <1>6, <1>7 DEF ConnectedListed

\* With the list empty, every client has closed or was never accepted.
LEMMA EmptyListMeansClosed ==
  ASSUME NEW p \in Peers, TypeOK', ConnectedListed', m_connectedClients' = <<>>,
         link'[p] = "closed"
  PROVE  StopsWhenAllClosed'
<1>1. \A q \in Peers : ~Listed(q)'
  BY DEF Listed
<1>2. \A q \in Peers : link'[q] \in Links /\ link'[q] \notin {"open", "reset"}
  BY <1>1 DEF ConnectedListed, TypeOK
<1> QED
  BY <1>2 DEF StopsWhenAllClosed, Links

-----------------------------------------------------------------------------
(* The theorems.                                                           *)

ServerInv == Answers /\ ConnectedListed /\ StopsWhenAllClosed

LEMMA ServerInvBegins == Init => ServerInv
<1> SUFFICES ASSUME Init
             PROVE  ServerInv
  OBVIOUS
<1>1. ASSUME NEW p \in Peers
      PROVE  link[p] = "idle" /\ ~Listed(p)
  <2>1. link[p] = "idle"
    BY Zenon DEF Init
  <2>2. Len(m_connectedClients) = 0
    BY DEF Init
  <2> QED
    BY <2>1, <2>2 DEF Listed
<1>2. ConnectedListed
  BY <1>1 DEF Init, ConnectedListed
<1>3. ~stopped
  BY Zenon DEF Init
<1> QED
  BY <1>2, <1>3, AnswersBegin DEF ServerInv, StopsWhenAllClosed

\* What the callbacks that neither add nor remove a client leave alone.
LEMMA ListUntouched ==
  ASSUME ConnectedListed, UNCHANGED <<m_connectedClients, link>>
  PROVE  ConnectedListed'
  BY DEF ConnectedListed, Listed

LEMMA ServerInvStep ==
  ASSUME ServerInv, [Next]_serverVars
  PROVE  ServerInv'
<1> USE DEF ServerInv
<1>0. TypeOK
  BY DEF Answers
<1>1. CASE UNCHANGED serverVars
  BY <1>1 DEF serverVars, socketVars, Answers, TypeOK, PeerSound, Owed, ConnectedListed,
     Listed, StopsWhenAllClosed
<1>2. ASSUME ~stopped, NEW p \in Peers, PeerNext(p)
      PROVE  ServerInv'
  <2>1. CASE HandleAccept(p)
    <3>1. ~stopped'
      BY <1>2, <2>1, Zenon DEF HandleAccept
    <3> QED
      BY <1>0, <2>1, <3>1, HandleAcceptKeeps, AcceptKeepsList DEF StopsWhenAllClosed
  <2>2. CASE HandleRead(p)
    <3>1. ~stopped' /\ UNCHANGED <<m_connectedClients, link>>
      BY <1>2, <2>2, Zenon DEF HandleRead
    <3> QED
      BY <2>2, <3>1, HandleReadKeeps, ListUntouched DEF StopsWhenAllClosed
  <2>3. ASSUME NEW k \in 1 .. SndBufSize, Acknowledged(p, k)
        PROVE  ServerInv'
    <3>1. ~stopped' /\ UNCHANGED <<m_connectedClients, link>>
      BY <1>2, <2>3, Zenon DEF Acknowledged
    <3> QED
      BY <2>3, <3>1, AcknowledgedKeeps, ListUntouched DEF StopsWhenAllClosed
  <2>4. CASE HandlePeerClose(p)
    <3>1. link[p] = "open" /\ link' = [link EXCEPT ![p] = "closed"]
      BY <2>4 DEF HandlePeerClose
    <3>2. m_connectedClients' \in Seq(Peers) /\ ConnectedListed'
      BY <1>0, <2>4, <3>1, ErasingKeepsList
    <3>3. Answers'
      BY <2>4, <3>2, PeerCloseKeeps
    <3>4. StopsWhenAllClosed'
      <4>1. CASE ~stopped'
        BY <4>1 DEF StopsWhenAllClosed
      <4>2. CASE stopped'
        <5>1. m_connectedClients' = <<>>
          BY <1>2, <2>4, <4>2, Zenon DEF HandlePeerClose
        <5>2. link'[p] = "closed" /\ TypeOK'
          BY <1>0, <3>1, <3>3 DEF TypeOK, Answers
        <5> QED
          BY <3>2, <5>1, <5>2, EmptyListMeansClosed
      <4> QED
        BY <4>1, <4>2
    <3> QED
      BY <3>2, <3>3, <3>4
  <2>5. CASE HandlePeerError(p)
    <3>1. ~stopped' /\ m_connectedClients' = m_connectedClients
      BY <1>2, <2>5, Zenon DEF HandlePeerError
    <3>2. ConnectedListed'
      <4>1. /\ link \in [Peers -> Links] /\ link[p] = "open"
            /\ link' = [link EXCEPT ![p] = "reset"]
        BY <1>0, <2>5 DEF TypeOK, HandlePeerError
      <4>2. \A q \in Peers : link'[q] \in {"open", "reset"} <=> link[q] \in {"open", "reset"}
        BY <4>1
      <4> QED
        BY <3>1, <4>2 DEF ConnectedListed, Listed
    <3> QED
      BY <2>5, <3>1, <3>2, PeerErrorKeeps DEF StopsWhenAllClosed
  <2>6. ASSUME NEW n \in Sizes, Ask(p, n)
        PROVE  ServerInv'
    <3>1. ~stopped' /\ UNCHANGED <<m_connectedClients, link>>
      BY <1>2, <2>6, Zenon DEF Ask
    <3> QED
      BY <2>6, <3>1, AskKeeps, ListUntouched DEF StopsWhenAllClosed
  <2>7. ASSUME NEW n \in 1 .. SndBufSize, Read(p, n)
        PROVE  ServerInv'
    <3>1. ~stopped' /\ UNCHANGED <<m_connectedClients, link>>
      BY <1>2, <2>7, Zenon DEF Read
    <3> QED
      BY <2>7, <3>1, ReadKeeps, ListUntouched DEF StopsWhenAllClosed
  <2> QED
    BY <1>2, <2>1, <2>2, <2>3, <2>4, <2>5, <2>6, <2>7 DEF PeerNext
<1> QED
  BY <1>1, <1>2 DEF Next

\* The inductive invariant of the server.
THEOREM ServerInvariance == Spec => []ServerInv
<1>1. Init => ServerInv
  BY ServerInvBegins
<1>2. ServerInv /\ [Next]_serverVars => ServerInv'
  BY ServerInvStep
<1> QED
  BY <1>1, <1>2, PTL DEF Spec

\* TypeOK: among others, HandleSend never writes more than the send buffer takes.
THEOREM ServerTypes == Spec => []TypeOK
<1>1. ServerInv => TypeOK
  BY DEF ServerInv, Answers
<1> QED
  BY <1>1, ServerInvariance, PTL

\* AnswerBalance: each byte a client waits for is in one place, so it is sent once.
THEOREM AnswersBalance == Spec => []AnswerBalance
<1>1. ServerInv => AnswerBalance
  BY AnswersImply DEF ServerInv
<1> QED
  BY <1>1, ServerInvariance, PTL

\* NoAnswerCutShort: the entry that HandleRead overwrites owes nothing.
THEOREM NoAnswerIsCutShort == Spec => []NoAnswerCutShort
<1>1. ServerInv => NoAnswerCutShort
  BY AnswersImply DEF ServerInv
<1> QED
  BY <1>1, ServerInvariance, PTL

\* SomeoneWillCall: an answer that HandleSend has not finished will be taken up again.
THEOREM HandleSendIsCalledAgain == Spec => []SomeoneWillCall
<1>1. ServerInv => SomeoneWillCall
  BY AnswersImply DEF ServerInv
<1> QED
  BY <1>1, ServerInvariance, PTL

\* ConnectedListed: HandleAccept and HandlePeerClose keep the list of the connected.
THEOREM ListFollowsConnections == Spec => []ConnectedListed
<1>1. ServerInv => ConnectedListed
  BY DEF ServerInv
<1> QED
  BY <1>1, ServerInvariance, PTL

\* StopsWhenAllClosed: no client that is connected is cut off by Simulator::Stop.
THEOREM StopsOnlyWhenAllClosed == Spec => []StopsWhenAllClosed
<1>1. ServerInv => StopsWhenAllClosed
  BY DEF ServerInv
<1> QED
  BY <1>1, ServerInvariance, PTL

=============================================================================
