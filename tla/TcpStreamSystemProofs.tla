----------------------- MODULE TcpStreamSystemProofs ------------------------
(***************************************************************************)
(* Client and server stay in balance over their connection, for every      *)
(* table of segment sizes, every send buffer and every algorithm.          *)
(***************************************************************************)
EXTENDS TcpStreamSystem, TcpStreamClientProofs

LinkTypes ==
  /\ m_callbackData \in [{Client} -> Server!CallbackData]
  /\ link \in [{Client} -> Server!Links]
  /\ request \in [{Client} -> Nat]
  /\ unread \in [{Client} -> Nat]
  /\ unacked \in [{Client} -> Int]

\* What the server still has to write is never negative, and is nothing before the
\* client is accepted.
OwedOK ==
  /\ m_callbackData[Client].currentTxBytes <= m_callbackData[Client].packetSizeToReturn
  /\ link[Client] = "idle" => Server!Owed(Client) = 0

\* Nothing is under way before the client has its connection.
BeforeConnection ==
  m_socket \in {"none", "connecting"} =>
    link[Client] = "idle" /\ request[Client] = 0 /\ unread[Client] = 0

\* A request is alone on the connection.
RequestAlone ==
  request[Client] > 0 => Server!Owed(Client) = 0 /\ unread[Client] = 0

Balanced ==
  LinkTypes /\ OwedOK /\ BeforeConnection /\ RequestAlone /\ ClientServerBalance

SystemInv == IInv /\ Balanced

LEMMA Quantities ==
  ASSUME LinkTypes, OwedOK
  PROVE  /\ request[Client] \in Nat /\ unread[Client] \in Nat /\ unacked[Client] \in Int
         /\ Server!Owed(Client) \in Nat
         /\ Server!Owed(Client) = m_callbackData[Client].packetSizeToReturn
                                    - m_callbackData[Client].currentTxBytes
         /\ m_callbackData[Client].packetSizeToReturn \in Nat
         /\ m_callbackData[Client].currentTxBytes \in Nat
BY DEF LinkTypes, OwedOK, Server!CallbackData, Server!Owed

LEMMA QuantitiesAfter ==
  ASSUME LinkTypes', OwedOK'
  PROVE  unread'[Client] \in Nat /\ Server!Owed(Client)' \in Nat
BY DEF LinkTypes, OwedOK, Server!CallbackData, Server!Owed

\* Facts about numbers that the steps below cite.
LEMMA Increase ==
  ASSUME NEW a \in Nat, NEW b \in Nat, a > b
  PROVE  a - b \in Nat
OBVIOUS

LEMMA PositiveDifference ==
  ASSUME NEW a \in Int, NEW b \in Int, a - b > 0
  PROVE  a # b
OBVIOUS

LEMMA NothingLeft ==
  ASSUME NEW a \in Nat, NEW b \in Nat
  PROVE  b - a = 0 <=> a = b
OBVIOUS

LEMMA SystemBegins == SystemInit => SystemInv
<1> SUFFICES ASSUME SystemInit PROVE SystemInv
  OBVIOUS
<1>1. IInv
  BY InitIInv DEF SystemInit
<1>2. /\ m_callbackData = [p \in {Client} |-> Server!Idle]
      /\ link = [p \in {Client} |-> "idle"]
      /\ request = [p \in {Client} |-> 0]
      /\ unread = [p \in {Client} |-> 0]
      /\ unacked = [p \in {Client} |-> 0]
      /\ m_socket = "none"
  BY DEF SystemInit, Init, Server!Init
<1>3. Server!Idle \in Server!CallbackData
  BY DEF Server!Idle, Server!CallbackData
<1>4. LinkTypes
  BY <1>2, <1>3 DEF LinkTypes, Server!Links
<1>5. OwedOK
  BY <1>2 DEF OwedOK, Server!Owed, Server!Idle
<1>6. BeforeConnection /\ RequestAlone /\ ClientServerBalance
  BY <1>2 DEF BeforeConnection, RequestAlone, ClientServerBalance
<1> QED
  BY <1>1, <1>4, <1>5, <1>6 DEF SystemInv, Balanced

-----------------------------------------------------------------------------
(* Steps of the client.                                                    *)

\* What a step of the client that reads nothing does to its socket.
LEMMA SocketEffect ==
  ASSUME IInv,
         \/ StartApplication \/ ConnectionSucceeded \/ StopApplication
         \/ \E ev \in TimerEvents : TimerExpires(ev)
  PROVE  /\ IInv'
         /\ toArrive' \in Nat /\ toArrive \in Nat
         /\ \/ toArrive' = toArrive /\ m_socket' = m_socket
            \/ toArrive' = toArrive /\ m_socket = "none" /\ m_socket' = "connecting"
            \/ m_socket' = "closed" /\ toArrive' = 0
            \/ /\ m_socket \in {"connecting", "open"} /\ m_socket' = "open"
               /\ toArrive = 0
<1>1. CASE StartApplication
  <2>1. IInv'
    BY <1>1, StartKeeps
  <2> QED
    BY <1>1, <2>1 DEF StartApplication, IInv, TypeOK
<1>2. CASE ConnectionSucceeded
  <2>1. IInv'
    BY <1>2, ConnectKeeps
  <2>2. state = "initial" /\ m_socket = "connecting" /\ toArrive = 0
        /\ Controller("init", toArrive)
    BY <1>2 DEF IInv, TypeOK, StatePhase, ExactlyOneRequest, ConnectionSucceeded
  <2>3. m_socket' = "open"
    BY <2>2, Dispatch DEF ControllerInitial, Send
  <2> QED
    BY <2>1, <2>2, <2>3 DEF IInv, TypeOK
<1>3. CASE StopApplication
  <2>1. IInv'
    BY <1>3, StopKeeps
  <2> QED
    BY <1>3, <2>1 DEF StopApplication, CloseSocket, IInv, TypeOK
<1>4. CASE TimerExpires("playbackFinished")
  <2>1. IInv'
    BY <1>4, PlaybackTimerTaken, PlayOrStallKeeps, PlayingTickKeeps
  <2>2. \/ PlayOrStall("playbackFinished", toArrive)
        \/ PlayOn("playbackFinished", toArrive)
        \/ Terminate("playbackFinished", toArrive)
        \/ Ignore("playbackFinished", toArrive)
    BY <1>4, PlaybackTimerTaken, Dispatch
  <2>3. NoSend(toArrive) \/ CloseSocket
    BY <2>2 DEF PlayOrStall, PlayOn, Terminate, Ignore
  <2> QED
    BY <2>1, <2>3 DEF NoSend, CloseSocket, IInv, TypeOK
<1>5. CASE TimerExpires("irdFinished")
  <2>1. IInv'
    BY <1>5, DelayTimerKeeps
  <2>2. /\ pending["irdFinished"] > 0 /\ Controller("irdFinished", toArrive)
        /\ state \in {"playing", "terminal"} /\ toArrive = 0
    BY <1>5 DEF IInv, OneDelay, TimerExpires
  <2>3. NoSend(toArrive) \/ Send(toArrive)
    BY <2>2, Dispatch DEF DelayedDownload, Ignore
  <2>4. \/ toArrive' = toArrive /\ m_socket' = m_socket
        \/ m_socket \in {"connecting", "open"} /\ m_socket' = "open"
    BY <2>3 DEF NoSend, Send
  <2> QED
    BY <2>1, <2>2, <2>4 DEF IInv, TypeOK
<1> QED
  BY <1>1, <1>2, <1>3, <1>4, <1>5 DEF TimerEvents

LEMMA ClientActsKeeps ==
  ASSUME SystemInv,
         \/ StartApplication \/ ConnectionSucceeded \/ StopApplication
         \/ \E ev \in TimerEvents : TimerExpires(ev),
         Requested(toArrive),
         UNCHANGED <<serverSide, unacked, unread>>
  PROVE  SystemInv'
<1>1. /\ IInv' /\ toArrive' \in Nat /\ toArrive \in Nat
      /\ \/ toArrive' = toArrive /\ m_socket' = m_socket
         \/ toArrive' = toArrive /\ m_socket = "none" /\ m_socket' = "connecting"
         \/ m_socket' = "closed" /\ toArrive' = 0
         \/ /\ m_socket \in {"connecting", "open"} /\ m_socket' = "open"
            /\ toArrive = 0
  BY SocketEffect DEF SystemInv
<1>2. UNCHANGED <<m_callbackData, link, unacked, unread>>
  BY DEF serverSide
<1>3. LinkTypes /\ OwedOK /\ BeforeConnection /\ RequestAlone /\ ClientServerBalance
  BY DEF SystemInv, Balanced
<1>4. Server!Owed(Client)' = Server!Owed(Client) /\ OwedOK'
  BY <1>2, <1>3 DEF Server!Owed, OwedOK
<1>5. /\ request' \in [{Client} -> Nat]
      /\ toArrive' > toArrive => request'[Client] = toArrive' - toArrive
      /\ ~(toArrive' > toArrive) => request'[Client] = request[Client]
  <2> DEFINE asked == IF toArrive' > toArrive THEN toArrive' - toArrive
                                               ELSE request[Client]
  <2>1. request \in [{Client} -> Nat]
    BY <1>3 DEF LinkTypes
  <2>2. asked \in Nat
    <3>1. request[Client] \in Nat
      BY <2>1
    <3>2. toArrive' \in Nat /\ toArrive \in Nat
      BY <1>1
    <3>3. toArrive' > toArrive => toArrive' - toArrive \in Nat
      BY <3>2, Increase
    <3> QED
      BY <3>1, <3>3
  <2>3. request' = [request EXCEPT ![Client] = asked]
    BY DEF Requested
  <2>4. /\ toArrive' > toArrive => asked = toArrive' - toArrive
        /\ ~(toArrive' > toArrive) => asked = request[Client]
    OBVIOUS
  <2> HIDE DEF asked
  <2> QED
    BY <2>1, <2>2, <2>3, <2>4
<1>6. LinkTypes'
  BY <1>2, <1>3, <1>5 DEF LinkTypes
<1>7. toArrive = 0 /\ m_socket \in {"connecting", "open"} =>
        request[Client] = 0 /\ Server!Owed(Client) = 0 /\ unread[Client] = 0
  BY <1>3, Quantities DEF BeforeConnection, OwedOK, ClientServerBalance
<1>8. BeforeConnection'
  <2> SUFFICES ASSUME m_socket' \in {"none", "connecting"}
               PROVE  link'[Client] = "idle" /\ request'[Client] = 0 /\ unread'[Client] = 0
    BY DEF BeforeConnection
  <2>1. toArrive' = toArrive /\ m_socket \in {"none", "connecting"}
    BY <1>1
  <2>2. ~(toArrive' > toArrive)
    BY <1>1, <2>1
  <2>3. link[Client] = "idle" /\ request[Client] = 0 /\ unread[Client] = 0
    BY <1>3, <2>1 DEF BeforeConnection
  <2> QED
    BY <1>2, <1>5, <2>2, <2>3
<1>9. RequestAlone'
  <2> SUFFICES ASSUME request'[Client] > 0
               PROVE  Server!Owed(Client)' = 0 /\ unread'[Client] = 0
    BY DEF RequestAlone
  <2>1. CASE toArrive' > toArrive
    <3>1. toArrive = 0 /\ m_socket \in {"connecting", "open"}
      BY <1>1, <2>1
    <3> QED
      BY <1>2, <1>4, <1>7, <3>1
  <2>2. CASE ~(toArrive' > toArrive)
    <3>1. request[Client] > 0
      BY <1>5, <2>2
    <3>2. Server!Owed(Client) = 0 /\ unread[Client] = 0
      BY <1>3, <3>1 DEF RequestAlone
    <3> QED
      BY <1>2, <1>4, <3>2
  <2> QED
    BY <2>1, <2>2
<1>10. ClientServerBalance'
  <2> SUFFICES ASSUME m_socket' = "open"
               PROVE  toArrive' = request'[Client] + Server!Owed(Client)' + unread'[Client]
    BY DEF ClientServerBalance
  <2>1. /\ request[Client] \in Nat /\ unread[Client] \in Nat
        /\ Server!Owed(Client) \in Nat
    BY <1>3, Quantities
  <2>2. CASE toArrive' = toArrive /\ m_socket = "open"
    <3>1. toArrive = request[Client] + Server!Owed(Client) + unread[Client]
      BY <1>3, <2>2 DEF ClientServerBalance
    <3>2. request'[Client] = request[Client]
      BY <1>1, <1>5, <2>2
    <3> QED
      BY <1>2, <1>4, <2>2, <3>1, <3>2
  <2>3. CASE toArrive = 0 /\ m_socket \in {"connecting", "open"}
    <3>1. request'[Client] = toArrive'
      BY <1>1, <1>5, <1>7, <2>3
    <3> QED
      BY <1>1, <1>2, <1>4, <1>7, <2>3, <3>1
  <2> QED
    BY <1>1, <2>2, <2>3
<1> QED
  BY <1>1, <1>4, <1>6, <1>8, <1>9, <1>10 DEF SystemInv, Balanced

\* A packet that completes no segment leaves the Controller alone; one that does
\* leaves nothing on its way, and the Controller may ask for the next segment.
LEMMA ReadEffect ==
  ASSUME IInv, NEW n \in 1 .. toArrive, HandleRead(n)
  PROVE  /\ IInv' /\ toArrive' \in Nat /\ toArrive \in Nat
         /\ m_socket = "open" /\ m_socket' \in {"open", "closed"}
         /\ toArrive' = toArrive - n \/ toArrive - n = 0
<1>1. IInv'
  BY ReadKeeps
<1>2. toArrive' \in Nat /\ toArrive \in Nat /\ m_socket = "open"
  BY <1>1 DEF IInv, TypeOK, HandleRead
<1>3. CASE m_bytesReceived + n # SegmentSize[m_currentRepIndex][m_segmentCounter]
  BY <1>1, <1>2, <1>3 DEF HandleRead
<1>4. CASE m_bytesReceived + n = SegmentSize[m_currentRepIndex][m_segmentCounter]
  <2>1. Controller("downloadFinished", 0) /\ toArrive - n = 0 /\ Downloading
    BY <1>4, SegmentComplete
  <2>2. \/ ControllerDownloading("downloadFinished", 0)
        \/ NextDownload("downloadFinished", 0)
    BY <2>1, Dispatch DEF Downloading
  <2>3. Send(0) \/ NoSend(0)
    BY <2>2 DEF ControllerDownloading, NextDownload
  <2>4. m_socket' \in {"open", "closed"}
    BY <1>2, <2>3 DEF Send, NoSend
  <2> QED
    BY <1>1, <1>2, <2>1, <2>4
<1> QED
  BY <1>3, <1>4

\* A read of all that is awaited takes all that is unread.
LEMMA Drained ==
  ASSUME NEW awaited \in Nat, NEW owed \in Nat, NEW held \in Nat, NEW n \in Nat,
         awaited = owed + held, awaited - n = 0, n <= held
  PROVE  owed = 0 /\ held = n
OBVIOUS

LEMMA ClientReadsKeeps ==
  ASSUME SystemInv, NEW n \in 1 .. SndBufSize, ClientReads(n)
  PROVE  SystemInv'
<1>1. /\ HandleRead(n) /\ n \in Int /\ n > 0 /\ n <= unread[Client]
      /\ Requested(toArrive - n)
      /\ unread' = [unread EXCEPT ![Client] = unread[Client] - n]
      /\ UNCHANGED <<m_callbackData, link, unacked>>
  BY SystemAssumption DEF ClientReads, serverSide
<1>2. LinkTypes /\ OwedOK /\ RequestAlone /\ ClientServerBalance
  BY DEF SystemInv, Balanced
<1>3. /\ request[Client] \in Nat /\ unread[Client] \in Nat
      /\ Server!Owed(Client) \in Nat
  BY <1>2, Quantities
<1>4. m_socket = "open" /\ n \in 1 .. toArrive
  BY <1>1, SystemAssumption DEF HandleRead, SystemInv, IInv, TypeOK
<1>5. /\ IInv' /\ toArrive' \in Nat /\ toArrive \in Nat
      /\ m_socket' \in {"open", "closed"}
      /\ toArrive' = toArrive - n \/ toArrive - n = 0
  BY <1>1, <1>4, ReadEffect DEF SystemInv
<1>6. toArrive = request[Client] + Server!Owed(Client) + unread[Client]
  BY <1>2, <1>4 DEF ClientServerBalance
<1>7. request[Client] = 0
  BY <1>1, <1>2, <1>3 DEF RequestAlone
<1>8. Server!Owed(Client)' = Server!Owed(Client) /\ OwedOK'
  BY <1>1, <1>2 DEF Server!Owed, OwedOK
<1>9. /\ unread' \in [{Client} -> Nat]
      /\ unread'[Client] = unread[Client] - n
  <2>1. unread \in [{Client} -> Nat] /\ unread[Client] - n \in Nat
    BY <1>1, <1>2, <1>3 DEF LinkTypes
  <2> QED
    BY <1>1, <2>1
<1>10. /\ request' \in [{Client} -> Nat]
       /\ request'[Client] = toArrive' - (toArrive - n)
  <2> DEFINE asked == IF toArrive' > toArrive - n THEN toArrive' - (toArrive - n)
                                                  ELSE request[Client]
  <2>1. request \in [{Client} -> Nat]
    BY <1>2 DEF LinkTypes
  <2>2. asked = toArrive' - (toArrive - n) /\ asked \in Nat
    BY <1>1, <1>5, <1>7
  <2>3. request' = [request EXCEPT ![Client] = asked]
    BY <1>1 DEF Requested
  <2> HIDE DEF asked
  <2> QED
    BY <2>1, <2>2, <2>3
<1>11. LinkTypes'
  BY <1>1, <1>2, <1>9, <1>10 DEF LinkTypes
<1>12. BeforeConnection'
  BY <1>5 DEF BeforeConnection
<1>13. toArrive - n = 0 => Server!Owed(Client) = 0 /\ unread[Client] = n
  <2> SUFFICES ASSUME toArrive - n = 0
               PROVE  Server!Owed(Client) = 0 /\ unread[Client] = n
    OBVIOUS
  <2>1. toArrive \in Nat /\ n \in Nat /\ n <= unread[Client]
    BY <1>1, <1>5
  <2>2. toArrive = Server!Owed(Client) + unread[Client]
    BY <1>3, <1>6, <1>7
  <2> QED
    BY <1>3, <2>1, <2>2, Drained
<1>14. RequestAlone'
  <2> SUFFICES ASSUME request'[Client] > 0
               PROVE  Server!Owed(Client)' = 0 /\ unread'[Client] = 0
    BY DEF RequestAlone
  <2>1. toArrive' # toArrive - n
    <3>1. toArrive' \in Int /\ toArrive - n \in Int
      BY <1>1, <1>5
    <3>2. toArrive' - (toArrive - n) > 0
      BY <1>10
    <3> QED
      BY <3>1, <3>2, PositiveDifference
  <2>2. toArrive - n = 0
    BY <1>5, <2>1
  <2> QED
    BY <1>1, <1>8, <1>9, <1>13, <2>2
<1>15. ClientServerBalance'
  <2>1. toArrive' = request'[Client] + Server!Owed(Client) + unread'[Client]
    BY <1>1, <1>3, <1>5, <1>6, <1>7, <1>9, <1>10
  <2> QED
    BY <1>8, <2>1 DEF ClientServerBalance
<1> QED
  BY <1>5, <1>8, <1>11, <1>12, <1>14, <1>15 DEF SystemInv, Balanced

LEMMA DiscardedKeeps ==
  ASSUME SystemInv, NEW n \in 1 .. SndBufSize, Discarded(n)
  PROVE  SystemInv'
<1>1. /\ m_socket = "closed" /\ m_socket' = "closed"
      /\ n \in Int /\ n > 0 /\ n <= unread[Client]
      /\ unread' = [unread EXCEPT ![Client] = unread[Client] - n]
      /\ UNCHANGED <<vars, m_callbackData, link, request, unacked>>
  BY SystemAssumption DEF Discarded, serverSide, vars, linkVars
<1>2. IInv'
  BY <1>1, StutterKeeps DEF SystemInv
<1>3. LinkTypes /\ OwedOK /\ RequestAlone
  BY DEF SystemInv, Balanced
<1>4. unread' \in [{Client} -> Nat]
  <2>1. unread \in [{Client} -> Nat] /\ unread[Client] - n \in Nat
    BY <1>1, <1>3, Quantities DEF LinkTypes
  <2> QED
    BY <1>1, <2>1
<1>5. LinkTypes'
  BY <1>1, <1>3, <1>4 DEF LinkTypes
<1>6. OwedOK' /\ BeforeConnection' /\ ClientServerBalance'
  BY <1>1, <1>3 DEF OwedOK, BeforeConnection, ClientServerBalance, Server!Owed
<1>7. RequestAlone'
  <2>1. unread[Client] \in Nat /\ unread[Client] > 0
    BY <1>1, <1>3, Quantities
  <2>2. ~(request[Client] > 0)
    BY <1>3, <2>1 DEF RequestAlone
  <2> QED
    BY <1>1, <2>2 DEF RequestAlone
<1> QED
  BY <1>2, <1>5, <1>6, <1>7 DEF SystemInv, Balanced

-----------------------------------------------------------------------------
(* Steps of the server.                                                    *)

\* HandleSend moves bytes from what is owed to the socket, and creates none.
LEMMA SendBalance ==
  ASSUME LinkTypes, NEW cbd \in Server!CallbackData, NEW held \in Int,
         cbd.currentTxBytes <= cbd.packetSizeToReturn,
         Server!HandleSend(Client, cbd, held)
  PROVE  /\ m_callbackData' \in [{Client} -> Server!CallbackData]
         /\ unread' \in [{Client} -> Nat]
         /\ unacked' \in [{Client} -> Int]
         /\ m_callbackData'[Client].currentTxBytes
              <= m_callbackData'[Client].packetSizeToReturn
         /\ Server!Owed(Client)' + unread'[Client]
              = (cbd.packetSizeToReturn - cbd.currentTxBytes) + unread[Client]
         /\ cbd.currentTxBytes = cbd.packetSizeToReturn =>
              Server!Owed(Client)' = 0 /\ unread'[Client] = unread[Client]
<1>1. /\ m_callbackData \in [{Client} -> Server!CallbackData]
      /\ unread \in [{Client} -> Nat] /\ unacked \in [{Client} -> Int]
      /\ unread[Client] \in Nat
  BY DEF LinkTypes
<1>2. cbd.currentTxBytes \in Nat /\ cbd.packetSizeToReturn \in Nat
  BY DEF Server!CallbackData
<1>3. CASE /\ cbd.currentTxBytes = cbd.packetSizeToReturn
           /\ Server!SendNothing(Client, Server!Idle, held)
  <2>1. /\ m_callbackData' = [m_callbackData EXCEPT ![Client] = Server!Idle]
        /\ unacked' = [unacked EXCEPT ![Client] = held]
        /\ unread' = unread
    BY <1>3 DEF Server!SendNothing
  <2>2. /\ Server!Idle \in Server!CallbackData
        /\ Server!Idle.currentTxBytes = 0 /\ Server!Idle.packetSizeToReturn = 0
    BY DEF Server!Idle, Server!CallbackData
  <2>3. m_callbackData'[Client] = Server!Idle
    BY <1>1, <2>1
  <2>4. Server!Owed(Client)' = 0
    BY <2>2, <2>3 DEF Server!Owed
  <2>5. /\ m_callbackData' \in [{Client} -> Server!CallbackData]
        /\ unacked' \in [{Client} -> Int]
    BY <1>1, <2>1, <2>2
  <2> QED
    BY <1>1, <1>2, <1>3, <2>1, <2>2, <2>3, <2>4, <2>5
<1>4. CASE /\ cbd.currentTxBytes # cbd.packetSizeToReturn
           /\ Server!SendSome(Client, cbd, held)
  <2> DEFINE toSend == Server!Smaller(Server!TxAvailable(held),
                                      cbd.packetSizeToReturn - cbd.currentTxBytes)
             entry == [cbd EXCEPT !.currentTxBytes = cbd.currentTxBytes + toSend]
  <2>1. /\ Server!TxAvailable(held) > 0
        /\ m_callbackData' = [m_callbackData EXCEPT ![Client] = entry]
        /\ unacked' = [unacked EXCEPT ![Client] = held + toSend]
        /\ unread' = [unread EXCEPT ![Client] = unread[Client] + toSend]
    BY <1>4 DEF Server!SendSome
  <2>2. toSend \in Nat /\ toSend <= cbd.packetSizeToReturn - cbd.currentTxBytes
    <3>1. Server!TxAvailable(held) \in Int
      BY SystemAssumption DEF Server!TxAvailable
    <3> QED
      BY <1>2, <2>1, <3>1 DEF Server!Smaller
  <2> HIDE DEF toSend
  <2>3. /\ entry \in Server!CallbackData
        /\ entry.currentTxBytes = cbd.currentTxBytes + toSend
        /\ entry.packetSizeToReturn = cbd.packetSizeToReturn
    BY <1>2, <2>2 DEF Server!CallbackData
  <2> HIDE DEF entry
  <2>4. /\ m_callbackData'[Client] = entry
        /\ unread'[Client] = unread[Client] + toSend
    BY <1>1, <2>1
  <2>5. Server!Owed(Client)' = cbd.packetSizeToReturn - (cbd.currentTxBytes + toSend)
    BY <2>3, <2>4 DEF Server!Owed
  <2>6. unread[Client] + toSend \in Nat /\ held + toSend \in Int
    BY <1>1, <2>2
  <2>7. /\ m_callbackData' \in [{Client} -> Server!CallbackData]
        /\ unread' \in [{Client} -> Nat]
        /\ unacked' \in [{Client} -> Int]
    BY <1>1, <2>1, <2>3, <2>6
  <2>8. Server!Owed(Client)' + unread'[Client]
          = (cbd.packetSizeToReturn - cbd.currentTxBytes) + unread[Client]
    BY <1>1, <1>2, <2>2, <2>4, <2>5
  <2>9. m_callbackData'[Client].currentTxBytes <= m_callbackData'[Client].packetSizeToReturn
    BY <1>2, <2>2, <2>3, <2>4
  <2> QED
    BY <1>4, <2>7, <2>8, <2>9
<1>5. CASE /\ cbd.currentTxBytes # cbd.packetSizeToReturn
           /\ Server!SendNothing(Client, cbd, held)
  <2>1. /\ m_callbackData' = [m_callbackData EXCEPT ![Client] = cbd]
        /\ unacked' = [unacked EXCEPT ![Client] = held]
        /\ unread' = unread
    BY <1>5 DEF Server!SendNothing
  <2>2. m_callbackData'[Client] = cbd
    BY <1>1, <2>1
  <2>3. Server!Owed(Client)' = cbd.packetSizeToReturn - cbd.currentTxBytes
    BY <2>2 DEF Server!Owed
  <2>4. /\ m_callbackData' \in [{Client} -> Server!CallbackData]
        /\ unacked' \in [{Client} -> Int]
    BY <1>1, <2>1
  <2> QED
    BY <1>1, <1>5, <2>1, <2>2, <2>3, <2>4
<1> QED
  BY <1>3, <1>4, <1>5 DEF Server!HandleSend

LEMMA RequestHandledKeeps ==
  ASSUME SystemInv, UNCHANGED vars, Server!HandleRead(Client)
  PROVE  SystemInv'
<1>1. IInv' /\ UNCHANGED <<m_socket, toArrive>>
  BY StutterKeeps DEF SystemInv, vars, linkVars
<1>2. LinkTypes /\ OwedOK /\ BeforeConnection /\ RequestAlone /\ ClientServerBalance
  BY DEF SystemInv, Balanced
<1>3. /\ link[Client] = "open" /\ request[Client] > 0
      /\ request' = [request EXCEPT ![Client] = 0]
      /\ Server!HandleSend(Client, Server!NewEntry(Client), unacked[Client])
      /\ link' = link
  BY DEF Server!HandleRead
<1>4. /\ request[Client] \in Nat /\ unacked[Client] \in Int
      /\ unread[Client] = 0 /\ Server!Owed(Client) = 0
  BY <1>2, <1>3, Quantities DEF RequestAlone
<1>5. /\ Server!NewEntry(Client) \in Server!CallbackData
      /\ Server!NewEntry(Client).currentTxBytes = 0
      /\ Server!NewEntry(Client).packetSizeToReturn = request[Client]
  BY <1>4 DEF Server!NewEntry, Server!CallbackData
<1>6. /\ m_callbackData' \in [{Client} -> Server!CallbackData]
      /\ unread' \in [{Client} -> Nat] /\ unacked' \in [{Client} -> Int]
      /\ m_callbackData'[Client].currentTxBytes
           <= m_callbackData'[Client].packetSizeToReturn
      /\ Server!Owed(Client)' + unread'[Client] = request[Client]
  <2>1. Server!NewEntry(Client).currentTxBytes
          <= Server!NewEntry(Client).packetSizeToReturn
    BY <1>4, <1>5
  <2>2. (Server!NewEntry(Client).packetSizeToReturn
           - Server!NewEntry(Client).currentTxBytes) + unread[Client] = request[Client]
    BY <1>4, <1>5
  <2> QED
    BY <1>2, <1>3, <1>4, <1>5, <2>1, <2>2, SendBalance
<1>7. request' \in [{Client} -> Nat] /\ request'[Client] = 0
  BY <1>2, <1>3 DEF LinkTypes
<1>8. LinkTypes'
  BY <1>2, <1>3, <1>6, <1>7 DEF LinkTypes
<1>9. OwedOK' /\ BeforeConnection' /\ RequestAlone'
  BY <1>1, <1>2, <1>3, <1>6, <1>7 DEF OwedOK, BeforeConnection, RequestAlone
<1>10. Server!Owed(Client)' \in Nat /\ unread'[Client] \in Nat
  BY <1>8, <1>9, QuantitiesAfter
<1>11. ClientServerBalance'
  <2>1. m_socket = "open" => toArrive = request[Client]
    BY <1>2, <1>4 DEF ClientServerBalance
  <2> QED
    BY <1>1, <1>6, <1>7, <1>10, <2>1 DEF ClientServerBalance
<1> QED
  BY <1>1, <1>8, <1>9, <1>11 DEF SystemInv, Balanced

LEMMA AcknowledgedKeeps ==
  ASSUME SystemInv, UNCHANGED vars, NEW k \in 1 .. SndBufSize,
         Server!Acknowledged(Client, k)
  PROVE  SystemInv'
<1>1. IInv' /\ UNCHANGED <<m_socket, toArrive>>
  BY StutterKeeps DEF SystemInv, vars, linkVars
<1>2. LinkTypes /\ OwedOK /\ BeforeConnection /\ RequestAlone /\ ClientServerBalance
  BY DEF SystemInv, Balanced
<1>3. /\ Server!HandleSend(Client, m_callbackData[Client], unacked[Client] - k)
      /\ UNCHANGED <<link, request>>
  BY DEF Server!Acknowledged
<1>4. /\ unacked[Client] - k \in Int
      /\ request[Client] \in Nat /\ unread[Client] \in Nat
      /\ Server!Owed(Client) \in Nat
      /\ m_callbackData[Client] \in Server!CallbackData
      /\ m_callbackData[Client].currentTxBytes <= m_callbackData[Client].packetSizeToReturn
      /\ m_callbackData[Client].currentTxBytes \in Nat
      /\ m_callbackData[Client].packetSizeToReturn \in Nat
      /\ Server!Owed(Client) = m_callbackData[Client].packetSizeToReturn
                                 - m_callbackData[Client].currentTxBytes
  BY <1>2, Quantities, SystemAssumption DEF LinkTypes, OwedOK
<1>5. /\ m_callbackData' \in [{Client} -> Server!CallbackData]
      /\ unread' \in [{Client} -> Nat] /\ unacked' \in [{Client} -> Int]
      /\ m_callbackData'[Client].currentTxBytes
           <= m_callbackData'[Client].packetSizeToReturn
      /\ Server!Owed(Client)' + unread'[Client] = Server!Owed(Client) + unread[Client]
      /\ Server!Owed(Client) = 0 =>
           Server!Owed(Client)' = 0 /\ unread'[Client] = unread[Client]
  <2> DEFINE cbd == m_callbackData[Client]
             held == unacked[Client] - k
  <2>1. /\ cbd \in Server!CallbackData /\ held \in Int
        /\ cbd.currentTxBytes <= cbd.packetSizeToReturn
        /\ cbd.currentTxBytes \in Nat /\ cbd.packetSizeToReturn \in Nat
        /\ Server!HandleSend(Client, cbd, held)
        /\ Server!Owed(Client) = cbd.packetSizeToReturn - cbd.currentTxBytes
    BY <1>3, <1>4
  <2> HIDE DEF cbd, held
  <2>2. Server!Owed(Client) = 0 <=> cbd.currentTxBytes = cbd.packetSizeToReturn
    BY <2>1, NothingLeft
  <2> QED
    BY <1>2, <2>1, <2>2, SendBalance
<1>6. LinkTypes'
  BY <1>2, <1>3, <1>5 DEF LinkTypes
<1>7. OwedOK'
  BY <1>2, <1>3, <1>5 DEF OwedOK
<1>8. BeforeConnection'
  BY <1>1, <1>2, <1>3, <1>5 DEF BeforeConnection, OwedOK
<1>9. RequestAlone'
  BY <1>2, <1>3, <1>5 DEF RequestAlone
<1>10. Server!Owed(Client)' \in Nat /\ unread'[Client] \in Nat
  BY <1>6, <1>7, QuantitiesAfter
<1>11. ClientServerBalance'
  <2>1. m_socket = "open" =>
          toArrive = request[Client] + (Server!Owed(Client)' + unread'[Client])
    BY <1>2, <1>4, <1>5 DEF ClientServerBalance
  <2> QED
    BY <1>1, <1>3, <1>4, <1>10, <2>1 DEF ClientServerBalance
<1> QED
  BY <1>1, <1>6, <1>7, <1>8, <1>9, <1>11 DEF SystemInv, Balanced

LEMMA AcceptedKeeps ==
  ASSUME SystemInv, UNCHANGED vars, Accepted
  PROVE  SystemInv'
<1>1. IInv' /\ UNCHANGED <<m_socket, toArrive>>
  BY StutterKeeps DEF SystemInv, vars, linkVars
<1>2. LinkTypes /\ OwedOK /\ BeforeConnection /\ RequestAlone /\ ClientServerBalance
  BY DEF SystemInv, Balanced
<1>3. m_socket \notin {"none", "connecting"}
  BY DEF Accepted, SystemInv, IInv, StatePhase
<1>4. /\ link[Client] = "idle"
      /\ link' = [link EXCEPT ![Client] = "open"]
      /\ m_callbackData' = [m_callbackData EXCEPT ![Client] = Server!Idle]
      /\ UNCHANGED <<request, unacked, unread>>
  BY DEF Accepted, Server!HandleAccept, Server!socketVars
<1>5. Server!Owed(Client) = 0
  BY <1>2, <1>4 DEF OwedOK
<1>6. /\ Server!Idle \in Server!CallbackData
      /\ Server!Idle.currentTxBytes = 0 /\ Server!Idle.packetSizeToReturn = 0
  BY DEF Server!Idle, Server!CallbackData
<1>7. m_callbackData \in [{Client} -> Server!CallbackData] /\ link \in [{Client} -> Server!Links]
  BY <1>2 DEF LinkTypes
<1>8. m_callbackData'[Client] = Server!Idle
  BY <1>4, <1>7
<1>9. /\ m_callbackData' \in [{Client} -> Server!CallbackData]
      /\ link' \in [{Client} -> Server!Links]
  <2>1. "open" \in Server!Links
    BY DEF Server!Links
  <2> QED
    BY <1>4, <1>6, <1>7, <2>1
<1>10. Server!Owed(Client)' = 0
  BY <1>6, <1>8 DEF Server!Owed
<1>11. LinkTypes'
  BY <1>2, <1>4, <1>9 DEF LinkTypes
<1>12. OwedOK'
  BY <1>6, <1>8, <1>10 DEF OwedOK
<1>13. BeforeConnection' /\ RequestAlone' /\ ClientServerBalance'
  BY <1>1, <1>2, <1>3, <1>4, <1>5, <1>10
     DEF BeforeConnection, RequestAlone, ClientServerBalance
<1> QED
  BY <1>1, <1>11, <1>12, <1>13 DEF SystemInv, Balanced

LEMMA ClosedKeeps ==
  ASSUME SystemInv, UNCHANGED vars, Closed
  PROVE  SystemInv'
<1>1. IInv' /\ UNCHANGED <<m_socket, toArrive>>
  BY StutterKeeps DEF SystemInv, vars, linkVars
<1>2. LinkTypes /\ OwedOK /\ RequestAlone
  BY DEF SystemInv, Balanced
<1>3. /\ m_socket = "closed" /\ link' = [link EXCEPT ![Client] = "closed"]
      /\ UNCHANGED <<m_callbackData, request, unacked, unread>>
  BY DEF Closed, Server!HandlePeerClose, Server!socketVars
<1>4. link' \in [{Client} -> Server!Links] /\ link'[Client] = "closed"
  BY <1>2, <1>3 DEF LinkTypes, Server!Links
<1>5. LinkTypes'
  BY <1>2, <1>3, <1>4 DEF LinkTypes
<1>6. Server!Owed(Client)' = Server!Owed(Client)
  BY <1>3 DEF Server!Owed
<1>7. OwedOK' /\ RequestAlone'
  BY <1>2, <1>3, <1>4, <1>6 DEF OwedOK, RequestAlone
<1>8. BeforeConnection' /\ ClientServerBalance'
  BY <1>1, <1>3 DEF BeforeConnection, ClientServerBalance
<1> QED
  BY <1>1, <1>5, <1>7, <1>8 DEF SystemInv, Balanced

LEMMA ResetKeeps ==
  ASSUME SystemInv, UNCHANGED vars, m_socket = "closed", Server!HandlePeerError(Client)
  PROVE  SystemInv'
<1>1. IInv' /\ UNCHANGED <<m_socket, toArrive>>
  BY StutterKeeps DEF SystemInv, vars, linkVars
<1>2. LinkTypes /\ OwedOK
  BY DEF SystemInv, Balanced
<1>3. /\ link' = [link EXCEPT ![Client] = "reset"]
      /\ request' = [request EXCEPT ![Client] = 0]
      /\ unacked' = [unacked EXCEPT ![Client] = 0]
      /\ unread' = [unread EXCEPT ![Client] = 0]
      /\ m_callbackData' = m_callbackData
  BY DEF Server!HandlePeerError
<1>4. /\ link' \in [{Client} -> Server!Links] /\ link'[Client] = "reset"
      /\ request' \in [{Client} -> Nat] /\ request'[Client] = 0
      /\ unread' \in [{Client} -> Nat]
      /\ unacked' \in [{Client} -> Int]
  BY <1>2, <1>3 DEF LinkTypes, Server!Links
<1>5. LinkTypes'
  BY <1>2, <1>3, <1>4 DEF LinkTypes
<1>6. OwedOK' /\ RequestAlone'
  BY <1>2, <1>3, <1>4 DEF OwedOK, RequestAlone
<1>7. BeforeConnection' /\ ClientServerBalance'
  BY <1>1 DEF BeforeConnection, ClientServerBalance
<1> QED
  BY <1>1, <1>5, <1>6, <1>7 DEF SystemInv, Balanced

-----------------------------------------------------------------------------
LEMMA SystemStutterKeeps == SystemInv /\ UNCHANGED systemVars => SystemInv'
<1> SUFFICES ASSUME SystemInv, UNCHANGED systemVars PROVE SystemInv'
  OBVIOUS
<1>1. /\ UNCHANGED <<vars, m_callbackData, link, request, unacked, unread>>
      /\ UNCHANGED <<m_socket, toArrive>>
  BY DEF systemVars, serverSide, vars, linkVars
<1>2. IInv'
  BY <1>1, StutterKeeps DEF SystemInv
<1>3. Balanced
  BY DEF SystemInv
<1>4. LinkTypes' /\ OwedOK' /\ BeforeConnection'
  BY <1>1, <1>3 DEF Balanced, LinkTypes, OwedOK, BeforeConnection, Server!Owed
<1>5. RequestAlone' /\ ClientServerBalance'
  BY <1>1, <1>3 DEF Balanced, RequestAlone, ClientServerBalance, Server!Owed
<1> QED
  BY <1>2, <1>4, <1>5 DEF SystemInv, Balanced

LEMMA SystemKeeps == SystemInv /\ [SystemNext]_systemVars => SystemInv'
<1> SUFFICES ASSUME SystemInv, SystemNext PROVE SystemInv'
  BY SystemStutterKeeps
<1>1. CASE ClientActs(StartApplication)
  BY <1>1, ClientActsKeeps DEF ClientActs
<1>2. CASE ClientActs(ConnectionSucceeded)
  BY <1>2, ClientActsKeeps DEF ClientActs
<1>3. ASSUME NEW ev \in TimerEvents, ClientActs(TimerExpires(ev)) PROVE SystemInv'
  <2>1. \E event \in TimerEvents : TimerExpires(event)
    BY <1>3 DEF ClientActs
  <2> QED
    BY <1>3, <2>1, ClientActsKeeps DEF ClientActs
<1>4. CASE ClientActs(StopApplication)
  BY <1>4, ClientActsKeeps DEF ClientActs
<1>5. ASSUME NEW n \in 1 .. SndBufSize, ClientReads(n) PROVE SystemInv'
  BY <1>5, ClientReadsKeeps
<1>6. ASSUME NEW n \in 1 .. SndBufSize, Discarded(n) PROVE SystemInv'
  BY <1>6, DiscardedKeeps
<1>7. CASE ServerActs
  <2>1. UNCHANGED vars
    BY <1>7 DEF ServerActs
  <2>2. CASE Accepted
    BY <2>1, <2>2, AcceptedKeeps
  <2>3. CASE Server!HandleRead(Client)
    BY <2>1, <2>3, RequestHandledKeeps
  <2>4. ASSUME NEW k \in 1 .. SndBufSize, Server!Acknowledged(Client, k) PROVE SystemInv'
    BY <2>1, <2>4, AcknowledgedKeeps
  <2>5. CASE Closed
    BY <2>1, <2>5, ClosedKeeps
  <2>6. CASE m_socket = "closed" /\ Server!HandlePeerError(Client)
    BY <2>1, <2>6, ResetKeeps
  <2> QED
    BY <1>7, <2>2, <2>3, <2>4, <2>5, <2>6 DEF ServerActs
<1> QED
  BY <1>1, <1>2, <1>3, <1>4, <1>5, <1>6, <1>7 DEF SystemNext

\* The client's own invariant survives the composition, together with the balance.
THEOREM SystemInvariance == SystemSpec => []SystemInv
<1> QED
  BY SystemBegins, SystemKeeps, PTL DEF SystemSpec

\* What the client waits for on an open connection is in the request, owed by the
\* server or in the socket: HandleSend never sends a byte too many or too few.
THEOREM BytesBalance == SystemSpec => []ClientServerBalance
<1>1. SystemInv => ClientServerBalance
  BY DEF SystemInv, Balanced
<1> QED
  BY <1>1, SystemInvariance, PTL

\* The assumption TcpStreamServer makes of its clients is one this client meets:
\* HandleRead of the server never overwrites an entry that still owes bytes.
THEOREM OneSegmentAtATime == SystemSpec => []RequestMeetsIdleEntry
<1>1. SystemInv => RequestMeetsIdleEntry
  BY DEF SystemInv, Balanced, RequestAlone, RequestMeetsIdleEntry, Server!NoAnswerCutShort
<1> QED
  BY <1>1, SystemInvariance, PTL

-----------------------------------------------------------------------------
(* The composed system against the specifications of its parts.            *)

\* Of the client's variables, every step of the system changes what a step of the
\* client on its own may change: the server delivers nothing that was not asked for.
LEMMA SystemStepIsClients == SystemInv /\ [SystemNext]_systemVars => [Next]_vars
<1> SUFFICES ASSUME SystemInv, SystemNext PROVE [Next]_vars
  BY DEF systemVars
<1>0. ~aborted
  BY DEF SystemNext
<1>1. CASE ClientActs(StartApplication)
  BY <1>0, <1>1 DEF ClientActs, Next
<1>2. CASE ClientActs(ConnectionSucceeded)
  BY <1>0, <1>2 DEF ClientActs, Next
<1>3. ASSUME NEW ev \in TimerEvents, ClientActs(TimerExpires(ev)) PROVE Next
  BY <1>0, <1>3 DEF ClientActs, Next
<1>4. CASE ClientActs(StopApplication)
  BY <1>0, <1>4 DEF ClientActs, Next
<1>5. ASSUME NEW n \in 1 .. SndBufSize, ClientReads(n) PROVE Next
  <2>1. HandleRead(n)
    BY <1>5 DEF ClientReads
  <2>2. n \in 1 .. toArrive
    BY <2>1, SystemAssumption DEF HandleRead, SystemInv, IInv, TypeOK
  <2> QED
    BY <1>0, <2>1, <2>2 DEF Next
<1>6. ASSUME NEW n \in 1 .. SndBufSize, Discarded(n) PROVE UNCHANGED vars
  BY <1>6 DEF Discarded
<1>7. CASE ServerActs
  BY <1>7 DEF ServerActs
<1> QED
  BY <1>1, <1>2, <1>3, <1>4, <1>5, <1>6, <1>7 DEF SystemNext

\* Connected to the server, the client behaves as it does on its own: all that is
\* proved of TcpStreamClient holds in the system.
THEOREM SystemRefinesClient == SystemSpec => Spec
<1>1. SystemInit => Init
  BY DEF SystemInit
<1> QED
  BY <1>1, SystemStepIsClients, SystemInvariance, PTL DEF SystemSpec, Spec

\* ImplementsSession: what the viewer sees of the client and the server together is
\* a session.
THEOREM SystemImplementsSession == SystemSpec => ImplementsSession
  BY SystemRefinesClient, Refinement

-----------------------------------------------------------------------------
(* What the server promises its clients, kept in the composition.          *)

\* The send buffer holds all that was not read and never more than it can.
BufferSound ==
  /\ unread[Client] <= unacked[Client]
  /\ unacked[Client] <= SndBufSize
  /\ link[Client] \in {"idle", "reset"} => unacked[Client] = 0

\* An answer that is not finished is still marked as such, and waits for an
\* acknowledgement that is outstanding.
WillBeCalled ==
  link[Client] # "reset" /\ Server!Owed(Client) > 0 =>
    m_callbackData[Client].send /\ unacked[Client] > 0

\* The server's list and its stop of the simulation follow the one connection.
ListSound ==
  /\ m_connectedClients = IF link[Client] \in {"open", "reset"} THEN <<Client>> ELSE <<>>
  /\ link[Client] \in {"closed", "reset"} => m_socket = "closed"
  /\ stopped = (link[Client] = "closed")

Delivery == BufferSound /\ WillBeCalled /\ ListSound

LEMMA DeliveryBegins == SystemInit => Delivery
<1> SUFFICES ASSUME SystemInit PROVE Delivery
  OBVIOUS
<1>1. /\ m_callbackData = [p \in {Client} |-> Server!Idle]
      /\ m_connectedClients = <<>>
      /\ link = [p \in {Client} |-> "idle"]
      /\ unread = [p \in {Client} |-> 0]
      /\ unacked = [p \in {Client} |-> 0]
      /\ stopped = FALSE
  BY DEF SystemInit, Server!Init
<1>2. BufferSound
  BY <1>1, SystemAssumption DEF BufferSound
<1>3. WillBeCalled
  BY <1>1 DEF WillBeCalled, Server!Owed, Server!Idle
<1>4. ListSound
  BY <1>1 DEF ListSound
<1> QED
  BY <1>2, <1>3, <1>4 DEF Delivery

\* Once the client has closed its socket it never opens it again.
LEMMA StaysClosed ==
  ASSUME SystemInv, SystemNext, m_socket = "closed"
  PROVE  m_socket' = "closed"
<1>1. ASSUME \/ StartApplication \/ ConnectionSucceeded \/ StopApplication
             \/ \E ev \in TimerEvents : TimerExpires(ev)
      PROVE  m_socket' = "closed"
  BY <1>1, SocketEffect DEF SystemInv
<1>2. ASSUME NEW n \in 1 .. SndBufSize, ClientReads(n) PROVE FALSE
  BY <1>2 DEF ClientReads, HandleRead
<1>3. ASSUME UNCHANGED vars PROVE m_socket' = "closed"
  BY <1>3 DEF vars, linkVars
<1> QED
  BY <1>1, <1>2, <1>3 DEF SystemNext, ClientActs, Discarded, ServerActs

\* HandleSend leaves the buffer within its size and, when bytes are still owed, full.
LEMMA SendFills ==
  ASSUME LinkTypes, NEW cbd \in Server!CallbackData, NEW held \in 0 .. SndBufSize,
         cbd.currentTxBytes <= cbd.packetSizeToReturn,
         cbd.currentTxBytes # cbd.packetSizeToReturn => cbd.send,
         unread[Client] <= held,
         Server!HandleSend(Client, cbd, held)
  PROVE  /\ unread'[Client] <= unacked'[Client]
         /\ unacked'[Client] <= SndBufSize
         /\ Server!Owed(Client)' > 0 => m_callbackData'[Client].send /\ unacked'[Client] > 0
<1>1. /\ m_callbackData \in [{Client} -> Server!CallbackData]
      /\ unread \in [{Client} -> Nat] /\ unacked \in [{Client} -> Int]
      /\ unread[Client] \in Nat
  BY DEF LinkTypes
<1>2. /\ cbd.currentTxBytes \in Nat /\ cbd.packetSizeToReturn \in Nat
      /\ held \in Nat /\ held <= SndBufSize /\ SndBufSize \in Nat /\ SndBufSize > 0
  BY SystemAssumption DEF Server!CallbackData
<1>3. CASE /\ cbd.currentTxBytes = cbd.packetSizeToReturn
           /\ Server!SendNothing(Client, Server!Idle, held)
  <2>1. /\ m_callbackData'[Client] = Server!Idle
        /\ unacked'[Client] = held
        /\ unread' = unread
    BY <1>1, <1>3 DEF Server!SendNothing
  <2>2. Server!Owed(Client)' = 0
    BY <2>1 DEF Server!Owed, Server!Idle
  <2> QED
    BY <1>2, <2>1, <2>2
<1>4. CASE /\ cbd.currentTxBytes # cbd.packetSizeToReturn
           /\ Server!SendSome(Client, cbd, held)
  <2> DEFINE toSend == Server!Smaller(Server!TxAvailable(held),
                                      cbd.packetSizeToReturn - cbd.currentTxBytes)
             entry == [cbd EXCEPT !.currentTxBytes = cbd.currentTxBytes + toSend]
  <2>1. /\ m_callbackData' = [m_callbackData EXCEPT ![Client] = entry]
        /\ unacked' = [unacked EXCEPT ![Client] = held + toSend]
        /\ unread' = [unread EXCEPT ![Client] = unread[Client] + toSend]
        /\ cbd.send
    BY <1>4 DEF Server!SendSome
  <2>2. toSend \in Nat /\ toSend <= SndBufSize - held /\ toSend > 0
    <3>1. Server!TxAvailable(held) = SndBufSize - held /\ SndBufSize - held \in Int
          /\ SndBufSize - held > 0
      BY <1>2, <1>4 DEF Server!TxAvailable, Server!SendSome
    <3>2. cbd.packetSizeToReturn - cbd.currentTxBytes > 0
      BY <1>2, <1>4
    <3> QED
      BY <1>2, <3>1, <3>2 DEF Server!Smaller
  <2> HIDE DEF toSend
  <2>3. entry.send = cbd.send
    BY DEF Server!CallbackData
  <2> HIDE DEF entry
  <2>4. /\ m_callbackData'[Client] = entry
        /\ unread'[Client] = unread[Client] + toSend
        /\ unacked'[Client] = held + toSend
    BY <1>1, <2>1
  <2>5. m_callbackData'[Client].send
    BY <2>1, <2>3, <2>4
  <2> QED
    BY <1>1, <1>2, <2>2, <2>4, <2>5
<1>5. CASE /\ cbd.currentTxBytes # cbd.packetSizeToReturn
           /\ ~(Server!TxAvailable(held) > 0 /\ cbd.send)
           /\ Server!SendNothing(Client, cbd, held)
  <2>1. /\ m_callbackData'[Client] = cbd
        /\ unacked'[Client] = held
        /\ unread' = unread
    BY <1>1, <1>5 DEF Server!SendNothing
  <2>2. cbd.send
    BY <1>5
  <2>3. ~(SndBufSize - held > 0)
    BY <1>5, <2>2 DEF Server!TxAvailable
  <2>4. held > 0
    BY <1>2, <2>3
  <2> QED
    BY <1>2, <2>1, <2>2, <2>4
<1> QED
  BY <1>3, <1>4, <1>5 DEF Server!HandleSend

\* Steps in which the server writes nothing and the connection stays as it is.
LEMMA QuietKeeps ==
  ASSUME SystemInv, Delivery, SystemInv', m_socket = "closed" => m_socket' = "closed",
         UNCHANGED <<serverSide, unacked>>, unread'[Client] <= unread[Client]
  PROVE  Delivery'
<1>1. UNCHANGED <<m_callbackData, m_connectedClients, link, stopped, unacked>>
  BY DEF serverSide
<1>2. /\ unread[Client] \in Nat /\ unacked[Client] \in Int
      /\ unread'[Client] \in Nat
  BY DEF SystemInv, Balanced, LinkTypes
<1>3. BufferSound'
  BY <1>1, <1>2 DEF BufferSound, Delivery
<1>4. WillBeCalled'
  BY <1>1 DEF WillBeCalled, Delivery, Server!Owed
<1>5. ListSound'
  BY <1>1 DEF ListSound, Delivery
<1> QED
  BY <1>3, <1>4, <1>5 DEF Delivery

LEMMA AcceptedDelivers ==
  ASSUME SystemInv, Delivery, UNCHANGED vars, Accepted
  PROVE  Delivery'
<1>1. /\ link[Client] = "idle"
      /\ link' = [link EXCEPT ![Client] = "open"]
      /\ m_callbackData' = [m_callbackData EXCEPT ![Client] = Server!Idle]
      /\ m_connectedClients' = Append(m_connectedClients, Client)
      /\ UNCHANGED <<unacked, unread, stopped>>
  BY DEF Accepted, Server!HandleAccept, Server!socketVars
<1>2. link'[Client] = "open" /\ m_callbackData'[Client] = Server!Idle
  BY <1>1 DEF SystemInv, Balanced, LinkTypes
<1>3. Server!Owed(Client)' = 0
  BY <1>2 DEF Server!Owed, Server!Idle
<1>4. m_connectedClients' = <<Client>>
  <2>1. m_connectedClients = <<>>
    BY <1>1 DEF Delivery, ListSound
  <2>2. Append(<<>>, Client) = <<Client>>
    OBVIOUS
  <2> QED
    BY <1>1, <2>1, <2>2
<1>5. BufferSound' /\ WillBeCalled'
  BY <1>1, <1>2, <1>3 DEF Delivery, BufferSound, WillBeCalled
<1>6. ListSound'
  BY <1>1, <1>2, <1>4 DEF Delivery, ListSound
<1> QED
  BY <1>5, <1>6 DEF Delivery

LEMMA RequestDelivers ==
  ASSUME SystemInv, Delivery, UNCHANGED vars, Server!HandleRead(Client)
  PROVE  Delivery'
<1>1. /\ link[Client] = "open" /\ request[Client] > 0
      /\ Server!HandleSend(Client, Server!NewEntry(Client), unacked[Client])
      /\ UNCHANGED <<m_connectedClients, link, stopped>>
  BY DEF Server!HandleRead
<1>2. LinkTypes /\ OwedOK /\ m_socket' = m_socket
  BY DEF SystemInv, Balanced, vars, linkVars
<1>3. /\ request[Client] \in Nat
      /\ unread[Client] \in Nat /\ unread[Client] <= unacked[Client]
      /\ unacked[Client] \in 0 .. SndBufSize
  BY <1>2, Quantities, SystemAssumption DEF Delivery, BufferSound
<1>4. /\ Server!NewEntry(Client) \in Server!CallbackData
      /\ Server!NewEntry(Client).currentTxBytes <= Server!NewEntry(Client).packetSizeToReturn
      /\ Server!NewEntry(Client).send
  BY <1>3 DEF Server!NewEntry, Server!CallbackData
<1>5. /\ unread'[Client] <= unacked'[Client]
      /\ unacked'[Client] <= SndBufSize
      /\ Server!Owed(Client)' > 0 => m_callbackData'[Client].send /\ unacked'[Client] > 0
  BY <1>1, <1>2, <1>3, <1>4, SendFills
<1>6. BufferSound' /\ WillBeCalled'
  BY <1>1, <1>5 DEF BufferSound, WillBeCalled
<1>7. ListSound'
  BY <1>1, <1>2 DEF Delivery, ListSound
<1> QED
  BY <1>6, <1>7 DEF Delivery

LEMMA AcknowledgedDelivers ==
  ASSUME SystemInv, Delivery, UNCHANGED vars, NEW k \in 1 .. SndBufSize,
         Server!Acknowledged(Client, k)
  PROVE  Delivery'
<1> DEFINE cbd == m_callbackData[Client]
           held == unacked[Client] - k
<1>1. /\ k <= unacked[Client] - unread[Client]
      /\ Server!HandleSend(Client, cbd, held)
      /\ UNCHANGED <<m_connectedClients, link, stopped>>
  BY DEF Server!Acknowledged
<1>2. LinkTypes /\ OwedOK /\ m_socket' = m_socket
  BY DEF SystemInv, Balanced, vars, linkVars
<1>3. /\ unread[Client] \in Nat /\ unacked[Client] \in Int
      /\ unacked[Client] <= SndBufSize /\ k \in Nat /\ k > 0 /\ SndBufSize \in Nat
  BY <1>2, Quantities, SystemAssumption DEF Delivery, BufferSound
<1>4. held \in 0 .. SndBufSize /\ unread[Client] <= held /\ unacked[Client] # 0
  BY <1>1, <1>3
<1>5. link[Client] \notin {"idle", "reset"}
  BY <1>4 DEF Delivery, BufferSound
<1>6. /\ cbd \in Server!CallbackData
      /\ cbd.currentTxBytes \in Nat /\ cbd.packetSizeToReturn \in Nat
      /\ cbd.currentTxBytes <= cbd.packetSizeToReturn
      /\ Server!Owed(Client) = cbd.packetSizeToReturn - cbd.currentTxBytes
  BY <1>2, Quantities DEF LinkTypes, OwedOK
<1>7. cbd.currentTxBytes # cbd.packetSizeToReturn => cbd.send
  <2>1. cbd.currentTxBytes # cbd.packetSizeToReturn => Server!Owed(Client) > 0
    BY <1>6
  <2> QED
    BY <1>5, <2>1 DEF Delivery, WillBeCalled
<1> HIDE DEF cbd, held
<1>8. /\ unread'[Client] <= unacked'[Client]
      /\ unacked'[Client] <= SndBufSize
      /\ Server!Owed(Client)' > 0 => m_callbackData'[Client].send /\ unacked'[Client] > 0
  BY <1>1, <1>2, <1>4, <1>6, <1>7, SendFills
<1>9. BufferSound' /\ WillBeCalled'
  BY <1>1, <1>5, <1>8 DEF BufferSound, WillBeCalled
<1>10. ListSound'
  BY <1>1, <1>2 DEF Delivery, ListSound
<1> QED
  BY <1>9, <1>10 DEF Delivery

\* The entry erased is the only one, and with it the simulation stops.
LEMMA ClosedDelivers ==
  ASSUME SystemInv, Delivery, UNCHANGED vars, Closed
  PROVE  Delivery'
<1>1. /\ m_socket = "closed" /\ link[Client] = "open"
      /\ link' = [link EXCEPT ![Client] = "closed"]
      /\ m_connectedClients' = IF Server!Listed(Client) THEN Server!Without(Client)
                               ELSE m_connectedClients
      /\ stopped' = (stopped \/ (Server!Listed(Client) /\ m_connectedClients' = <<>>))
      /\ UNCHANGED <<m_callbackData, unacked, unread>>
  BY DEF Closed, Server!HandlePeerClose, Server!socketVars
<1>2. m_connectedClients = <<Client>>
  BY <1>1 DEF Delivery, ListSound
<1>3. Server!Listed(Client) /\ Server!Position(Client) = 1
  <2>1. Len(m_connectedClients) = 1 /\ m_connectedClients[1] = Client
    BY <1>2
  <2>2. 1 \in 1 .. Len(m_connectedClients) /\ \A i \in 1 .. Len(m_connectedClients) : i = 1
    BY <2>1
  <2>3. Server!Listed(Client)
    BY <2>1, <2>2 DEF Server!Listed
  <2>4. Server!Position(Client) \in 1 .. Len(m_connectedClients)
    BY <2>1, <2>2 DEF Server!Position
  <2> QED
    BY <2>2, <2>3, <2>4
<1>4. Server!Without(Client) = <<>>
  BY <1>2, <1>3 DEF Server!Without
<1>5. m_connectedClients' = <<>>
  BY <1>1, <1>3, <1>4
<1>6. stopped' = TRUE
  BY <1>1, <1>3, <1>5
<1>7. link'[Client] = "closed" /\ m_socket' = "closed"
  BY <1>1 DEF SystemInv, Balanced, LinkTypes, vars, linkVars
<1>8. BufferSound' /\ WillBeCalled'
  BY <1>1, <1>7 DEF Delivery, BufferSound, WillBeCalled, Server!Owed
<1>9. ListSound'
  BY <1>5, <1>6, <1>7 DEF ListSound
<1> QED
  BY <1>8, <1>9 DEF Delivery

LEMMA ResetDelivers ==
  ASSUME SystemInv, Delivery, UNCHANGED vars, m_socket = "closed",
         Server!HandlePeerError(Client)
  PROVE  Delivery'
<1>1. /\ link[Client] = "open" /\ link'[Client] = "reset"
      /\ unacked'[Client] = 0 /\ unread'[Client] = 0
      /\ UNCHANGED <<m_callbackData, m_connectedClients, stopped>>
      /\ m_socket' = "closed"
  BY DEF Server!HandlePeerError, SystemInv, Balanced, LinkTypes, vars, linkVars
<1>2. BufferSound' /\ WillBeCalled' /\ ListSound'
  BY <1>1, SystemAssumption DEF Delivery, BufferSound, WillBeCalled, ListSound
<1> QED
  BY <1>2 DEF Delivery

LEMMA DeliveryKeeps ==
  SystemInv /\ SystemInv' /\ Delivery /\ [SystemNext]_systemVars => Delivery'
<1> SUFFICES ASSUME SystemInv, SystemInv', Delivery, [SystemNext]_systemVars
             PROVE  Delivery'
  OBVIOUS
<1>0. unread[Client] \in Nat /\ unread'[Client] \in Nat
  BY DEF SystemInv, Balanced, LinkTypes
<1>1. CASE UNCHANGED systemVars
  BY <1>0, <1>1, QuietKeeps DEF systemVars, vars, linkVars
<1>2. CASE SystemNext
  <2>1. m_socket = "closed" => m_socket' = "closed"
    BY <1>2, StaysClosed
  <2>2. CASE UNCHANGED <<serverSide, unacked, unread>>
    BY <1>0, <2>1, <2>2, QuietKeeps
  <2>3. ASSUME NEW n \in 1 .. SndBufSize, ClientReads(n) \/ Discarded(n) PROVE Delivery'
    <3>1. /\ unread' = [unread EXCEPT ![Client] = unread[Client] - n]
          /\ UNCHANGED <<serverSide, unacked>>
      BY <2>3 DEF ClientReads, Discarded
    <3>2. unread'[Client] = unread[Client] - n
      BY <3>1 DEF SystemInv, Balanced, LinkTypes
    <3>3. unread'[Client] <= unread[Client]
      BY <1>0, <3>2, SystemAssumption
    <3> QED
      BY <2>1, <3>1, <3>3, QuietKeeps
  <2>4. CASE ServerActs
    <3>1. UNCHANGED vars
      BY <2>4 DEF ServerActs
    <3>2. CASE Accepted
      BY <3>1, <3>2, AcceptedDelivers
    <3>3. CASE Server!HandleRead(Client)
      BY <3>1, <3>3, RequestDelivers
    <3>4. ASSUME NEW k \in 1 .. SndBufSize, Server!Acknowledged(Client, k) PROVE Delivery'
      BY <3>1, <3>4, AcknowledgedDelivers
    <3>5. CASE Closed
      BY <3>1, <3>5, ClosedDelivers
    <3>6. CASE m_socket = "closed" /\ Server!HandlePeerError(Client)
      BY <3>1, <3>6, ResetDelivers
    <3> QED
      BY <2>4, <3>2, <3>3, <3>4, <3>5, <3>6 DEF ServerActs
  <2> QED
    BY <1>2, <2>2, <2>3, <2>4 DEF SystemNext, ClientActs
<1> QED
  BY <1>1, <1>2

LEMMA DeliveryInvariance == SystemSpec => []Delivery
<1> QED
  BY DeliveryBegins, DeliveryKeeps, SystemInvariance, PTL DEF SystemSpec

\* The properties of the server that do not need its own account of what is awaited:
\* they hold of the server when TcpStreamClient is its client.
ServerSound ==
  /\ Server!TypeOK
  /\ RequestMeetsIdleEntry
  /\ Server!SomeoneWillCall
  /\ Server!ConnectedListed
  /\ Server!StopsWhenAllClosed

\* The server keeps its promises in the composition: its types, the send flag of an
\* unfinished answer, its list of clients and its reason to stop the simulation.
THEOREM ServerSoundInSystem == SystemSpec => []ServerSound
<1>1. ASSUME SystemInv, Delivery PROVE ServerSound
  <2>1. LinkTypes /\ toArrive \in Nat
    BY <1>1 DEF SystemInv, Balanced, IInv, TypeOK
  <2>2. Server!TypeOK
    <3>1. unacked[Client] \in 0 .. SndBufSize /\ unread[Client] \in 0 .. SndBufSize
      BY <1>1, <2>1, SystemAssumption DEF Delivery, BufferSound, LinkTypes
    <3>2. /\ unacked \in [{Client} -> 0 .. SndBufSize]
          /\ unread \in [{Client} -> 0 .. SndBufSize]
      BY <2>1, <3>1 DEF LinkTypes
    <3>3. m_connectedClients \in Seq({Client})
      <4>1. <<>> \in Seq({Client}) /\ <<Client>> \in Seq({Client})
        OBVIOUS
      <4>2. m_connectedClients \in {<<>>, <<Client>>}
        BY <1>1, Zenon DEF Delivery, ListSound
      <4> QED
        BY <4>1, <4>2, Zenon
    <3>4. stopped \in BOOLEAN
      BY <1>1 DEF Delivery, ListSound
    <3>5. [p \in {Client} |-> toArrive] \in [{Client} -> Nat]
      BY <2>1
    <3> QED
      BY <2>1, <3>2, <3>3, <3>4, <3>5 DEF Server!TypeOK, LinkTypes
  <2>3. RequestMeetsIdleEntry
    BY <1>1 DEF SystemInv, Balanced, RequestAlone, RequestMeetsIdleEntry,
                Server!NoAnswerCutShort
  <2>4. Server!SomeoneWillCall
    BY <1>1 DEF Delivery, WillBeCalled, Server!SomeoneWillCall
  <2>5. Server!ConnectedListed
    <3>1. CASE link[Client] \in {"open", "reset"}
      <4>1. m_connectedClients = <<Client>>
        BY <1>1, <3>1 DEF Delivery, ListSound
      <4>2. Len(m_connectedClients) = 1 /\ m_connectedClients[1] = Client
        BY <4>1
      <4>3. 1 \in 1 .. Len(m_connectedClients) /\ \A i \in 1 .. Len(m_connectedClients) : i = 1
        BY <4>2
      <4> QED
        BY <3>1, <4>2, <4>3 DEF Server!ConnectedListed, Server!Listed
    <3>2. CASE link[Client] \notin {"open", "reset"}
      <4>1. m_connectedClients = <<>>
        BY <1>1, <3>2 DEF Delivery, ListSound
      <4>2. 1 .. Len(m_connectedClients) = {}
        BY <4>1
      <4> QED
        BY <3>2, <4>2 DEF Server!ConnectedListed, Server!Listed
    <3> QED
      BY <3>1, <3>2
  <2>6. Server!StopsWhenAllClosed
    BY <1>1 DEF Delivery, ListSound, Server!StopsWhenAllClosed
  <2> QED
    BY <2>2, <2>3, <2>4, <2>5, <2>6 DEF ServerSound
<1> QED
  BY <1>1, SystemInvariance, DeliveryInvariance, PTL

\* A segment that the client waits for is always on its way: the connection is about to
\* be accepted, the request about to be read, bytes about to be read, or an
\* acknowledgement outstanding on which HandleSend finds the rest of the answer and
\* room for it.  Client and server never wait for each other.
SegmentUnderway ==
  m_socket = "open" /\ toArrive > 0 =>
    /\ ~stopped
    /\ \/ link[Client] = "idle" /\ state # "initial"
       \/ link[Client] = "open" /\ request[Client] > 0
       \/ link[Client] = "open" /\ unread[Client] > 0
       \/ /\ link[Client] = "open" /\ unacked[Client] - unread[Client] > 0
          /\ m_callbackData[Client].send /\ Server!Owed(Client) > 0
          /\ Server!TxAvailable(unacked[Client] - 1) > 0

THEOREM NobodyWaitsInVain == SystemSpec => []SegmentUnderway
<1>1. ASSUME SystemInv, Delivery, m_socket = "open", toArrive > 0
      PROVE  /\ ~stopped
             /\ \/ link[Client] = "idle" /\ state # "initial"
                \/ link[Client] = "open" /\ request[Client] > 0
                \/ link[Client] = "open" /\ unread[Client] > 0
                \/ /\ link[Client] = "open" /\ unacked[Client] - unread[Client] > 0
                   /\ m_callbackData[Client].send /\ Server!Owed(Client) > 0
                   /\ Server!TxAvailable(unacked[Client] - 1) > 0
  <2>1. /\ request[Client] \in Nat /\ unread[Client] \in Nat /\ unacked[Client] \in Int
        /\ Server!Owed(Client) \in Nat /\ toArrive \in Nat
    BY <1>1, Quantities DEF SystemInv, Balanced, IInv, TypeOK
  <2>2. toArrive = request[Client] + Server!Owed(Client) + unread[Client]
    BY <1>1 DEF SystemInv, Balanced, ClientServerBalance
  <2>3. link[Client] \in {"idle", "open"} /\ ~stopped
    BY <1>1 DEF SystemInv, Balanced, LinkTypes, Delivery, ListSound, Server!Links
  <2>4. state # "initial"
    BY <1>1 DEF SystemInv, IInv, StatePhase
  <2>5. CASE request[Client] = 0 /\ unread[Client] = 0
    <3>1. Server!Owed(Client) > 0
      BY <1>1, <2>1, <2>2, <2>5
    <3>2. m_callbackData[Client].send /\ unacked[Client] > 0
      BY <1>1, <2>3, <3>1 DEF Delivery, WillBeCalled
    <3>3. unacked[Client] - unread[Client] > 0
      BY <2>1, <2>5, <3>2
    <3>4. Server!TxAvailable(unacked[Client] - 1) > 0
      BY <1>1, <2>1, SystemAssumption DEF Delivery, BufferSound, Server!TxAvailable
    <3> QED
      BY <2>3, <2>4, <3>1, <3>2, <3>3, <3>4
  <2> QED
    BY <2>1, <2>3, <2>4, <2>5
<1>2. SystemInv /\ Delivery => SegmentUnderway
  BY <1>1 DEF SegmentUnderway
<1> QED
  BY <1>2, SystemInvariance, DeliveryInvariance, PTL

=============================================================================
