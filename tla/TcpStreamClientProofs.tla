----------------------- MODULE TcpStreamClientProofs -----------------------
(***************************************************************************)
(* The safety properties of TcpStreamClient hold for every number of       *)
(* segments, every table of segment sizes and every algorithm's replies,   *)
(* and the client implements StreamSession.                                *)
(***************************************************************************)
EXTENDS TcpStreamClient, TLAPS

LEMMA InitIInv == Init => IInv
<1> SUFFICES ASSUME Init PROVE IInv
  OBVIOUS
<1>0. FlagsOK
  BY DEF Init, FlagsOK
<1>1. TypeOK
  BY <1>0, LastSegmentAssumption DEF Init, TypeOK, States, SocketStates, TimerEvents, Segments
<1>2. /\ pending["playbackFinished"] = 0
      /\ pending["irdFinished"] = 0
  BY DEF Init, TimerEvents
<1>3. ExactlyOneRequest /\ SegmentsConserved /\ OnePlaybackClock /\ OneDelay
  BY <1>2, LastSegmentAssumption DEF Init, ExactlyOneRequest, SegmentsConserved, OnePlaybackClock, OneDelay,
              Downloading
<1>4. ReplyPerSegment /\ UnderrunRegistered /\ NothingLeftAtEnd /\ StatePhase
  BY <1>2, LastSegmentAssumption DEF Init, ReplyPerSegment, UnderrunRegistered, NothingLeftAtEnd, StatePhase,
              Downloading
<1> QED
  BY <1>1, <1>3, <1>4 DEF IInv

LEMMA SegmentSizeType ==
  ASSUME NEW rep \in Reps, NEW segment \in Segments
  PROVE  SegmentSize[rep][segment] \in Nat /\ SegmentSize[rep][segment] > 0
<1>1. SegmentSize[rep] \in [Segments -> Nat \ {0}]
  BY SegmentSizeAssumption DEF Segments
<1>2. SegmentSize[rep][segment] \in Nat \ {0}
  BY <1>1
<1> QED
  BY <1>2

\* Which branch of the Controller an event takes in each state.
LEMMA Dispatch ==
  ASSUME NEW ev, NEW rest, Controller(ev, rest)
  PROVE  /\ state = "initial" => ControllerInitial(ev, rest)
         /\ state = "downloading" => ControllerDownloading(ev, rest)
         /\ state = "downloadingPlaying" /\ ev = "downloadFinished" =>
              NextDownload(ev, rest)
         /\ state = "downloadingPlaying" /\ ev = "playbackFinished" =>
              PlayOrStall(ev, rest)
         /\ state = "playing" /\ ev = "irdFinished" => DelayedDownload(ev, rest)
         /\ state = "playing" /\ ev = "playbackFinished" =>
              PlayOn(ev, rest) \/ Terminate(ev, rest) \/ Ignore(ev, rest)
         /\ state = "terminal" => Ignore(ev, rest)
BY DEF Controller, ControllerInitial, ControllerDownloading, NextDownload, PlayOrStall,
       DelayedDownload, PlayOn, Terminate, Ignore, TimerEvents

LEMMA TimersKept ==
  ASSUME TypeOK, NEW ev, ev \notin TimerEvents
  PROVE  Timers(ev) = pending
BY DEF TypeOK, Timers, TimerEvents

LEMMA TimersAfter ==
  ASSUME TypeOK, NEW ev \in TimerEvents, pending[ev] > 0
  PROVE  /\ Timers(ev) \in [TimerEvents -> Nat]
         /\ Timers(ev)[ev] = pending[ev] - 1
         /\ \A t \in TimerEvents \ {ev} : Timers(ev)[t] = pending[t]
BY DEF TypeOK, Timers, TimerEvents

-----------------------------------------------------------------------------
(* Preservation, one lemma per entry point.                                *)

LEMMA StartKeeps == IInv /\ StartApplication => IInv'
<1> SUFFICES ASSUME IInv, StartApplication PROVE IInv'
  OBVIOUS
<1> USE DEF StartApplication, replyVars, readVars, playbackVars
<1>1. FlagsOK'
  BY DEF IInv, TypeOK, FlagsOK
<1>2. TypeOK'
  BY <1>1 DEF IInv, TypeOK, SocketStates
<1>3. ExactlyOneRequest' /\ SegmentsConserved' /\ OnePlaybackClock' /\ OneDelay'
  BY DEF IInv, TypeOK, StatePhase, ExactlyOneRequest, SegmentsConserved,
         OnePlaybackClock, OneDelay, Downloading
<1>4. ReplyPerSegment' /\ UnderrunRegistered' /\ NothingLeftAtEnd' /\ StatePhase'
  BY DEF IInv, ReplyPerSegment, UnderrunRegistered, NothingLeftAtEnd, StatePhase,
         Downloading
<1> QED
  BY <1>2, <1>3, <1>4 DEF IInv

LEMMA ConnectKeeps == IInv /\ ConnectionSucceeded => IInv'
<1> SUFFICES ASSUME IInv, ConnectionSucceeded PROVE IInv'
  OBVIOUS
<1>0. /\ state = "initial"
      /\ m_socket = "connecting"
      /\ m_segmentCounter = 0 /\ received = 0 /\ m_bytesReceived = 0 /\ decided = 0
      /\ m_segmentsInBuffer = 0 /\ m_currentPlaybackIndex = 0
      /\ m_bufferUnderrun = FALSE
  <2>1. state = "initial"
    BY DEF IInv, StatePhase, ConnectionSucceeded
  <2>2. m_segmentsInBuffer = 0 /\ m_currentPlaybackIndex = 0
    BY <2>1 DEF IInv, TypeOK, StatePhase, SegmentsConserved
  <2>3. ~m_bufferUnderrun
    BY <2>2, LastSegmentAssumption DEF IInv, UnderrunRegistered
  <2>4. m_bufferUnderrun = FALSE
    BY <2>3 DEF IInv, TypeOK, FlagsOK
  <2> QED
    BY <2>1, <2>2, <2>4 DEF IInv, StatePhase, ReplyPerSegment, ConnectionSucceeded
<1>1. /\ toArrive = 0
      /\ ControllerInitial("init", toArrive)
  BY <1>0, Dispatch DEF IInv, TypeOK, ExactlyOneRequest, ConnectionSucceeded
<1>2. /\ state' = "downloading"
      /\ m_socket' = "open"
      /\ m_currentRepIndex' \in Reps
      /\ m_bDelay' \in BDelays
      /\ decided' = decided + 1
      /\ toArrive' = 0 + SegmentSize[m_currentRepIndex'][m_segmentCounter']
      /\ pending' = pending
      /\ m_segmentsInBuffer' = m_segmentsInBuffer
      /\ UNCHANGED <<m_segmentCounter, m_currentPlaybackIndex, m_bufferUnderrun, aborted,
                     received, m_bytesReceived>>
  BY <1>0, <1>1, TimersKept DEF IInv, TypeOK, ConnectionSucceeded, ControllerInitial,
       RequestRepIndex, Send, NoPlayback, Buffered, TimerEvents, readVars
<1>3. toArrive' \in Nat /\ toArrive' > 0
      /\ toArrive' = SegmentSize[m_currentRepIndex'][m_segmentCounter']
  BY <1>2, SegmentSizeType DEF IInv, TypeOK
<1>4. FlagsOK'
  BY <1>2 DEF IInv, TypeOK, FlagsOK
<1>5. TypeOK'
  BY <1>2, <1>3, <1>4 DEF IInv, TypeOK, States, SocketStates
<1>6. ExactlyOneRequest' /\ SegmentsConserved' /\ OnePlaybackClock' /\ OneDelay'
  BY <1>0, <1>1, <1>2, <1>3, LastSegmentAssumption
     DEF IInv, TypeOK, StatePhase, ExactlyOneRequest, SegmentsConserved,
         OnePlaybackClock, OneDelay, TimerEvents, Downloading
<1>7. ReplyPerSegment' /\ UnderrunRegistered' /\ NothingLeftAtEnd' /\ StatePhase'
  BY <1>0, <1>1, <1>2, <1>3, LastSegmentAssumption
     DEF IInv, TypeOK, StatePhase, SegmentsConserved, ReplyPerSegment,
         UnderrunRegistered, NothingLeftAtEnd, Downloading
<1> QED
  BY <1>5, <1>6, <1>7 DEF IInv

LEMMA PacketKeeps ==
  ASSUME IInv, NEW n \in 1 .. toArrive, HandleRead(n),
         m_bytesReceived + n # SegmentSize[m_currentRepIndex][m_segmentCounter]
  PROVE  IInv'
<1>1. /\ m_socket = "open"
      /\ n \in Nat /\ n > 0
      /\ m_bytesReceived' = m_bytesReceived + n
      /\ toArrive' = toArrive - n
      /\ UNCHANGED <<state, m_segmentCounter, m_currentRepIndex, m_bDelay, decided,
                     received, m_segmentsInBuffer, m_currentPlaybackIndex,
                     m_bufferUnderrun, pending, m_socket, aborted>>
  BY DEF HandleRead, replyVars, playbackVars, IInv, TypeOK
<1>2. toArrive' > 0 /\ toArrive' \in Nat
  BY <1>1 DEF IInv, TypeOK, ExactlyOneRequest
<1>3. FlagsOK'
  BY <1>1 DEF IInv, TypeOK, FlagsOK
<1>4. TypeOK'
  BY <1>1, <1>2, <1>3 DEF IInv, TypeOK
<1>5. ExactlyOneRequest' /\ SegmentsConserved' /\ OnePlaybackClock' /\ OneDelay'
  BY <1>1, <1>2 DEF IInv, TypeOK, ExactlyOneRequest, SegmentsConserved,
                    OnePlaybackClock, OneDelay, Downloading
<1>6. ReplyPerSegment' /\ UnderrunRegistered' /\ NothingLeftAtEnd' /\ StatePhase'
  BY <1>1, <1>2 DEF IInv, TypeOK, ExactlyOneRequest, ReplyPerSegment,
                    UnderrunRegistered, NothingLeftAtEnd, StatePhase, Downloading
<1> QED
  BY <1>4, <1>5, <1>6 DEF IInv

\* What HandleRead has done to the buffer when the Controller gets downloadFinished.
LEMMA SegmentComplete ==
  ASSUME IInv, NEW n \in 1 .. toArrive, HandleRead(n),
         m_bytesReceived + n = SegmentSize[m_currentRepIndex][m_segmentCounter]
  PROVE  /\ Controller("downloadFinished", 0)
         /\ toArrive - n = 0
         /\ m_socket = "open"
         /\ Downloading
         /\ received = m_segmentCounter
         /\ m_bytesReceived' = 0
         /\ received' = received + 1
         /\ Timers("downloadFinished") = pending
         /\ pending["irdFinished"] = 0
         /\ Buffered("downloadFinished") = m_segmentsInBuffer + 1
<1>1. m_socket = "open" /\ Downloading /\ n \in Nat /\ toArrive = n
  BY SegmentSizeType DEF IInv, TypeOK, ExactlyOneRequest, HandleRead
<1>2. pending["irdFinished"] = 0
  BY <1>1 DEF IInv, TypeOK, OneDelay, Downloading, TimerEvents
<1>3. toArrive - n = 0
  BY <1>1
<1>4. /\ Controller("downloadFinished", toArrive - n)
      /\ m_bytesReceived' = 0
      /\ received' = received + 1
  BY DEF HandleRead
<1>5. Timers("downloadFinished") = pending
  BY TimersKept DEF IInv, TimerEvents
<1>6. received = m_segmentCounter
  BY <1>1 DEF IInv, SegmentsConserved
<1> QED
  BY <1>1, <1>2, <1>3, <1>4, <1>5, <1>6 DEF Buffered

\* The first segment, or the one a stall was waiting for.
LEMMA DownloadingKeeps ==
  ASSUME IInv, NEW n \in 1 .. toArrive, HandleRead(n),
         m_bytesReceived + n = SegmentSize[m_currentRepIndex][m_segmentCounter],
         state = "downloading"
  PROVE  IInv'
<1>1. /\ ControllerDownloading("downloadFinished", 0)
      /\ m_socket = "open"
      /\ received = m_segmentCounter
      /\ m_bytesReceived' = 0
      /\ received' = received + 1
      /\ Timers("downloadFinished") = pending
      /\ pending["irdFinished"] = 0
      /\ Buffered("downloadFinished") = m_segmentsInBuffer + 1
  BY SegmentComplete, Dispatch
<1>2. /\ m_segmentsInBuffer = 0
      /\ m_currentPlaybackIndex = m_segmentCounter
      /\ pending["playbackFinished"] = 0
  BY <1>1 DEF IInv, TypeOK, OnePlaybackClock, SegmentsConserved
<1>3. /\ m_segmentsInBuffer' = 0
      /\ m_currentPlaybackIndex' = m_currentPlaybackIndex + 1
      /\ m_bufferUnderrun' = FALSE
      /\ pending' = [pending EXCEPT !["playbackFinished"] = @ + 1]
  BY <1>1, <1>2 DEF ControllerDownloading, PlaybackHandle, Schedule
<1>4. /\ pending' \in [TimerEvents -> Nat]
      /\ pending'["playbackFinished"] = 1
      /\ pending'["irdFinished"] = 0
  BY <1>1, <1>2, <1>3 DEF IInv, TypeOK, TimerEvents
<1>5. CASE m_segmentCounter < LastSegmentIndex
  <2>1. /\ state' = "downloadingPlaying"
        /\ m_segmentCounter' = m_segmentCounter + 1
        /\ m_currentRepIndex' \in Reps
        /\ m_bDelay' \in BDelays
        /\ decided' = decided + 1
        /\ m_socket' = "open"
        /\ toArrive' = 0 + SegmentSize[m_currentRepIndex'][m_segmentCounter']
        /\ aborted' = aborted
    BY <1>1, <1>2, <1>3, <1>5, LastSegmentAssumption
       DEF IInv, TypeOK, Segments, ControllerDownloading, RequestRepIndex, Send
  <2>2. m_segmentCounter' \in Segments
    BY <2>1, <1>5, LastSegmentAssumption DEF IInv, TypeOK, Segments
  <2>3. toArrive' \in Nat /\ toArrive' > 0
        /\ toArrive' = SegmentSize[m_currentRepIndex'][m_segmentCounter']
    BY <2>1, <2>2, SegmentSizeType
  <2>4. FlagsOK'
    BY <1>3, <2>1 DEF IInv, TypeOK, FlagsOK
  <2>5. TypeOK'
    BY <1>1, <1>3, <1>4, <2>1, <2>2, <2>3, <2>4 DEF IInv, TypeOK, States, SocketStates
  <2>6. ExactlyOneRequest' /\ SegmentsConserved' /\ OnePlaybackClock' /\ OneDelay'
    BY <1>1, <1>2, <1>3, <1>4, <2>1, <2>2, <2>3
       DEF IInv, TypeOK, Segments, ExactlyOneRequest, SegmentsConserved,
           OnePlaybackClock, OneDelay, Downloading
  <2>7. ReplyPerSegment' /\ UnderrunRegistered' /\ NothingLeftAtEnd' /\ StatePhase'
    BY <1>1, <1>2, <1>3, <2>1, <2>2
       DEF IInv, TypeOK, Segments, ReplyPerSegment, UnderrunRegistered,
           NothingLeftAtEnd, StatePhase, Downloading
  <2> QED
    BY <2>5, <2>6, <2>7 DEF IInv
<1>6. CASE m_segmentCounter = LastSegmentIndex
  <2>1. /\ state' = "playing"
        /\ m_bDelay' = 0
        /\ toArrive' = 0
        /\ UNCHANGED <<m_segmentCounter, m_currentRepIndex, decided, m_socket, aborted>>
    BY <1>1, <1>2, <1>3, <1>6, LastSegmentAssumption
       DEF ControllerDownloading, KeepReply, Delay, NoSend
  <2>2. FlagsOK'
    BY <1>3, <2>1 DEF IInv, TypeOK, FlagsOK
  <2>3. TypeOK'
    BY <1>1, <1>3, <1>4, <2>1, <2>2 DEF IInv, TypeOK, States, SocketStates
  <2>4. ExactlyOneRequest' /\ SegmentsConserved' /\ OnePlaybackClock' /\ OneDelay'
    BY <1>1, <1>2, <1>3, <1>4, <1>6, <2>1
       DEF IInv, TypeOK, Segments, ExactlyOneRequest, SegmentsConserved,
           OnePlaybackClock, OneDelay, Downloading
  <2>5. ReplyPerSegment' /\ UnderrunRegistered' /\ NothingLeftAtEnd' /\ StatePhase'
    BY <1>1, <1>2, <1>3, <1>6, <2>1
       DEF IInv, TypeOK, Segments, ReplyPerSegment, UnderrunRegistered,
           NothingLeftAtEnd, StatePhase, Downloading
  <2> QED
    BY <2>3, <2>4, <2>5 DEF IInv
<1> QED
  BY <1>5, <1>6, LastSegmentAssumption DEF IInv, TypeOK, Segments

\* A segment that arrives while another one plays: the four ways on.
LEMMA DownloadingPlayingKeeps ==
  ASSUME IInv, NEW n \in 1 .. toArrive, HandleRead(n),
         m_bytesReceived + n = SegmentSize[m_currentRepIndex][m_segmentCounter],
         state = "downloadingPlaying"
  PROVE  IInv'
<1>1. /\ NextDownload("downloadFinished", 0)
      /\ m_socket = "open"
      /\ received = m_segmentCounter
      /\ m_bytesReceived' = 0
      /\ received' = received + 1
      /\ Timers("downloadFinished") = pending
      /\ pending["irdFinished"] = 0
      /\ pending["playbackFinished"] = 1
      /\ Buffered("downloadFinished") = m_segmentsInBuffer + 1
  BY SegmentComplete, Dispatch DEF IInv, OnePlaybackClock
<1>2. /\ m_segmentsInBuffer' = m_segmentsInBuffer + 1
      /\ UNCHANGED <<m_currentPlaybackIndex, m_bufferUnderrun>>
  BY <1>1 DEF NextDownload, NoPlayback
<1>3. CASE m_segmentCounter < LastSegmentIndex
  <2>1. /\ m_segmentCounter' = m_segmentCounter + 1
        /\ m_currentRepIndex' \in Reps
        /\ m_bDelay' \in BDelays
        /\ m_bDelay' \in Int
        /\ decided' = decided + 1
    BY <1>1, <1>3, BDelaysAssumption DEF NextDownload, RequestRepIndex
  <2>2. m_segmentCounter' \in Segments
    BY <2>1, <1>3, LastSegmentAssumption DEF IInv, TypeOK, Segments
  <2>3. CASE m_bDelay' > 0
    <3>1. /\ state' = "playing"
          /\ pending' = [pending EXCEPT !["irdFinished"] = @ + 1]
          /\ toArrive' = 0
          /\ UNCHANGED <<m_socket, aborted>>
      BY <1>1, <2>3 DEF NextDownload, Schedule, NoSend
    <3>2. FlagsOK'
      BY <1>2, <3>1 DEF IInv, TypeOK, FlagsOK
    <3>3. TypeOK'
      BY <1>1, <1>2, <2>1, <2>2, <3>1, <3>2
         DEF IInv, TypeOK, States, SocketStates, TimerEvents
    <3>4. ExactlyOneRequest' /\ SegmentsConserved' /\ OnePlaybackClock' /\ OneDelay'
      BY <1>1, <1>2, <2>1, <3>1
         DEF IInv, TypeOK, ExactlyOneRequest, SegmentsConserved, OnePlaybackClock,
             OneDelay, Downloading, TimerEvents
    <3>5. ReplyPerSegment' /\ UnderrunRegistered' /\ NothingLeftAtEnd' /\ StatePhase'
      BY <1>1, <1>2, <2>1, <3>1
         DEF IInv, TypeOK, Segments, SegmentsConserved, ReplyPerSegment,
             UnderrunRegistered, NothingLeftAtEnd, StatePhase, Downloading
    <3> QED
      BY <3>3, <3>4, <3>5 DEF IInv
  <2>4. CASE ~(m_bDelay' > 0) /\ m_segmentCounter' = LastSegmentIndex
    <3>1. /\ state' = "playing"
          /\ toArrive' = 0
          /\ UNCHANGED <<pending, m_socket, aborted>>
      BY <1>1, <2>4 DEF NextDownload, NoSend
    <3>2. FlagsOK'
      BY <1>2, <3>1 DEF IInv, TypeOK, FlagsOK
    <3>3. TypeOK'
      BY <1>1, <1>2, <2>1, <2>2, <3>1, <3>2 DEF IInv, TypeOK, States
    <3>4. ExactlyOneRequest' /\ SegmentsConserved' /\ OnePlaybackClock' /\ OneDelay'
      BY <1>1, <1>2, <2>1, <2>4, <3>1
         DEF IInv, TypeOK, Segments, ExactlyOneRequest, SegmentsConserved,
             OnePlaybackClock, OneDelay, Downloading
    <3>5. ReplyPerSegment' /\ UnderrunRegistered' /\ NothingLeftAtEnd' /\ StatePhase'
      BY <1>1, <1>2, <2>1, <3>1
         DEF IInv, TypeOK, Segments, SegmentsConserved, ReplyPerSegment,
             UnderrunRegistered, NothingLeftAtEnd, StatePhase, Downloading
    <3> QED
      BY <3>3, <3>4, <3>5 DEF IInv
  <2>5. CASE ~(m_bDelay' > 0) /\ m_segmentCounter' # LastSegmentIndex
    <3>1. /\ state' = "downloadingPlaying"
          /\ m_socket' = "open"
          /\ toArrive' = 0 + SegmentSize[m_currentRepIndex'][m_segmentCounter']
          /\ UNCHANGED <<pending, aborted>>
      BY <1>1, <2>5 DEF NextDownload, Send
    <3>2. toArrive' \in Nat /\ toArrive' > 0
          /\ toArrive' = SegmentSize[m_currentRepIndex'][m_segmentCounter']
      BY <2>1, <2>2, <3>1, SegmentSizeType
    <3>3. FlagsOK'
      BY <1>2, <3>1 DEF IInv, TypeOK, FlagsOK
    <3>4. TypeOK'
      BY <1>1, <1>2, <2>1, <2>2, <3>1, <3>2, <3>3
         DEF IInv, TypeOK, States, SocketStates
    <3>5. ExactlyOneRequest' /\ SegmentsConserved' /\ OnePlaybackClock' /\ OneDelay'
      BY <1>1, <1>2, <2>1, <3>1, <3>2
         DEF IInv, TypeOK, ExactlyOneRequest, SegmentsConserved, OnePlaybackClock,
             OneDelay, Downloading
    <3>6. ReplyPerSegment' /\ UnderrunRegistered' /\ NothingLeftAtEnd' /\ StatePhase'
      BY <1>1, <1>2, <2>1, <3>1
         DEF IInv, TypeOK, Segments, SegmentsConserved, ReplyPerSegment,
             UnderrunRegistered, NothingLeftAtEnd, StatePhase, Downloading
    <3> QED
      BY <3>4, <3>5, <3>6 DEF IInv
  <2> QED
    BY <2>3, <2>4, <2>5
<1>4. CASE m_segmentCounter = LastSegmentIndex
  <2>1. /\ state' = "playing"
        /\ m_bDelay' = 0
        /\ toArrive' = 0
        /\ UNCHANGED <<m_segmentCounter, m_currentRepIndex, decided, pending, m_socket,
                       aborted>>
    BY <1>1, <1>4, LastSegmentAssumption DEF NextDownload, KeepReply, Delay, NoSend
  <2>2. FlagsOK'
    BY <1>2, <2>1 DEF IInv, TypeOK, FlagsOK
  <2>3. TypeOK'
    BY <1>1, <1>2, <2>1, <2>2 DEF IInv, TypeOK, States
  <2>4. ExactlyOneRequest' /\ SegmentsConserved' /\ OnePlaybackClock' /\ OneDelay'
    BY <1>1, <1>2, <1>4, <2>1
       DEF IInv, TypeOK, Segments, ExactlyOneRequest, SegmentsConserved,
           OnePlaybackClock, OneDelay, Downloading
  <2>5. ReplyPerSegment' /\ UnderrunRegistered' /\ NothingLeftAtEnd' /\ StatePhase'
    BY <1>1, <1>2, <1>4, <2>1
       DEF IInv, TypeOK, Segments, SegmentsConserved, ReplyPerSegment,
           UnderrunRegistered, NothingLeftAtEnd, StatePhase, Downloading
  <2> QED
    BY <2>3, <2>4, <2>5 DEF IInv
<1> QED
  BY <1>3, <1>4, LastSegmentAssumption DEF IInv, TypeOK, Segments

LEMMA ReadKeeps ==
  ASSUME IInv, NEW n \in 1 .. toArrive, HandleRead(n)
  PROVE  IInv'
BY PacketKeeps, SegmentComplete, DownloadingKeeps, DownloadingPlayingKeeps DEF Downloading

\* The timers once one of them has been taken off to run.
LEMMA PlaybackTimerTaken ==
  ASSUME IInv, TimerExpires("playbackFinished")
  PROVE  /\ state \in {"downloadingPlaying", "playing"}
         /\ Controller("playbackFinished", toArrive)
         /\ UNCHANGED <<received, m_bytesReceived>>
         /\ Buffered("playbackFinished") = m_segmentsInBuffer
         /\ Delay("playbackFinished") = m_bDelay
         /\ Timers("playbackFinished") \in [TimerEvents -> Nat]
         /\ Timers("playbackFinished")["playbackFinished"] = 0
         /\ Timers("playbackFinished")["irdFinished"] = pending["irdFinished"]
<1>1. /\ state \in {"downloadingPlaying", "playing"}
      /\ pending["playbackFinished"] = 1
  BY DEF IInv, TypeOK, TimerExpires, OnePlaybackClock, States, TimerEvents
<1>2. /\ Timers("playbackFinished") \in [TimerEvents -> Nat]
      /\ Timers("playbackFinished")["playbackFinished"] = 0
      /\ Timers("playbackFinished")["irdFinished"] = pending["irdFinished"]
  BY <1>1, TimersAfter DEF IInv, TimerEvents
<1>3. /\ Buffered("playbackFinished") = m_segmentsInBuffer
      /\ Delay("playbackFinished") = m_bDelay
  BY DEF Buffered, Delay, IInv, TypeOK
<1> QED
  BY <1>1, <1>2, <1>3 DEF TimerExpires, readVars

LEMMA PlayOrStallKeeps ==
  ASSUME IInv, TimerExpires("playbackFinished"), state = "downloadingPlaying"
  PROVE  IInv'
<1>1. /\ PlayOrStall("playbackFinished", toArrive)
      /\ UNCHANGED <<received, m_bytesReceived, m_segmentCounter, m_bDelay,
                     m_currentRepIndex, decided, toArrive, m_socket, aborted>>
  BY PlaybackTimerTaken, Dispatch DEF PlayOrStall, KeepReply, NoSend
<1>2. pending["irdFinished"] = 0 /\ pending["playbackFinished"] = 1
  BY DEF IInv, TypeOK, OneDelay, OnePlaybackClock, TimerEvents
<1>3. received = m_segmentCounter
  BY DEF IInv, SegmentsConserved, Downloading
<1>4. CASE m_segmentsInBuffer > 0
  <2>1. /\ state' = "downloadingPlaying"
        /\ m_segmentsInBuffer' = m_segmentsInBuffer - 1
        /\ m_currentPlaybackIndex' = m_currentPlaybackIndex + 1
        /\ m_bufferUnderrun' = FALSE
        /\ pending' = [Timers("playbackFinished") EXCEPT !["playbackFinished"] = @ + 1]
    BY <1>1, <1>4, PlaybackTimerTaken
       DEF IInv, TypeOK, PlayOrStall, PlaybackHandle, Schedule
  <2>2. /\ pending' \in [TimerEvents -> Nat]
        /\ pending'["playbackFinished"] = 1
        /\ pending'["irdFinished"] = 0
    BY <1>2, <2>1, PlaybackTimerTaken DEF TimerEvents
  <2>3. FlagsOK'
    BY <1>1, <2>1 DEF IInv, TypeOK, FlagsOK
  <2>4. TypeOK'
    BY <1>1, <1>4, <2>1, <2>2, <2>3 DEF IInv, TypeOK, States
  <2>5. ExactlyOneRequest' /\ SegmentsConserved' /\ OnePlaybackClock' /\ OneDelay'
    BY <1>1, <1>2, <1>3, <1>4, <2>1, <2>2
       DEF IInv, TypeOK, ExactlyOneRequest, SegmentsConserved, OnePlaybackClock,
           OneDelay, Downloading
  <2>6. ReplyPerSegment' /\ UnderrunRegistered' /\ NothingLeftAtEnd' /\ StatePhase'
    BY <1>1, <1>3, <1>4, <2>1
       DEF IInv, TypeOK, Segments, SegmentsConserved, ReplyPerSegment,
           UnderrunRegistered, NothingLeftAtEnd, StatePhase, Downloading
  <2> QED
    BY <2>4, <2>5, <2>6 DEF IInv
<1>5. CASE m_segmentsInBuffer = 0
  <2>1. /\ state' = "downloading"
        /\ m_segmentsInBuffer' = 0
        /\ m_currentPlaybackIndex' = m_currentPlaybackIndex
        /\ m_bufferUnderrun' = (m_bufferUnderrun \/ m_currentPlaybackIndex < LastSegmentIndex)
        /\ pending' = Timers("playbackFinished")
    BY <1>1, <1>5, PlaybackTimerTaken DEF PlayOrStall, PlaybackHandle
  <2>2. /\ pending' \in [TimerEvents -> Nat]
        /\ pending'["playbackFinished"] = 0
        /\ pending'["irdFinished"] = 0
    BY <1>2, <2>1, PlaybackTimerTaken
  <2>3. FlagsOK'
    BY <1>1, <2>1 DEF IInv, TypeOK, FlagsOK
  <2>4. TypeOK'
    BY <1>1, <2>1, <2>2, <2>3 DEF IInv, TypeOK, States
  <2>5. ExactlyOneRequest' /\ SegmentsConserved' /\ OnePlaybackClock' /\ OneDelay'
    BY <1>1, <1>2, <1>3, <1>5, <2>1, <2>2
       DEF IInv, TypeOK, ExactlyOneRequest, SegmentsConserved, OnePlaybackClock,
           OneDelay, Downloading
  <2>6. UnderrunRegistered'
    <3>1. m_bufferUnderrun' <=> m_bufferUnderrun \/ m_currentPlaybackIndex < LastSegmentIndex
      BY <2>1
    <3>2. m_currentPlaybackIndex > 0 /\ m_currentPlaybackIndex \in Nat
      BY DEF IInv, TypeOK, StatePhase
    <3> QED
      BY <2>1, <3>1, <3>2, LastSegmentAssumption DEF IInv, UnderrunRegistered
  <2>7. ReplyPerSegment' /\ NothingLeftAtEnd' /\ StatePhase'
    BY <1>1, <1>3, <1>5, <2>1
       DEF IInv, TypeOK, Segments, SegmentsConserved, ReplyPerSegment,
           NothingLeftAtEnd, StatePhase, Downloading
  <2> QED
    BY <2>4, <2>5, <2>6, <2>7 DEF IInv
<1> QED
  BY <1>4, <1>5 DEF IInv, TypeOK

\* PlaybackHandle on the segments already buffered.
LEMMA PlaybackEffect ==
  ASSUME IInv, PlaybackHandle(m_segmentsInBuffer)
  PROVE  /\ m_segmentsInBuffer' \in Nat
         /\ m_currentPlaybackIndex' \in Nat
         /\ m_bufferUnderrun' \in BOOLEAN
         /\ m_currentPlaybackIndex' >= m_currentPlaybackIndex
         /\ m_currentPlaybackIndex' + m_segmentsInBuffer' =
              m_currentPlaybackIndex + m_segmentsInBuffer
         /\ m_segmentsInBuffer' > 0 => m_currentPlaybackIndex' > m_currentPlaybackIndex
         /\ m_currentPlaybackIndex' =
              m_currentPlaybackIndex + (IF m_segmentsInBuffer > 0 THEN 1 ELSE 0)
         /\ m_bufferUnderrun' => /\ m_segmentsInBuffer = 0
                                 /\ m_currentPlaybackIndex <= LastSegmentIndex
<1> USE LastSegmentAssumption
<1>1. CASE m_segmentsInBuffer > 0
  <2>1. /\ m_segmentsInBuffer' = m_segmentsInBuffer - 1
        /\ m_currentPlaybackIndex' = m_currentPlaybackIndex + 1
        /\ m_bufferUnderrun' = FALSE
    BY <1>1 DEF PlaybackHandle
  <2>2. m_bufferUnderrun' \in BOOLEAN
    BY <2>1
  <2> QED
    BY <1>1, <2>1, <2>2 DEF IInv, TypeOK
<1>2. CASE m_segmentsInBuffer = 0
  <2>0. /\ m_segmentsInBuffer' = 0
        /\ m_bufferUnderrun' = (m_bufferUnderrun \/ m_currentPlaybackIndex < LastSegmentIndex)
        /\ m_currentPlaybackIndex' = m_currentPlaybackIndex
    BY <1>2 DEF PlaybackHandle
  <2>1. m_bufferUnderrun' \in BOOLEAN
    BY <2>0
  <2>2. m_bufferUnderrun' <=> m_bufferUnderrun \/ m_currentPlaybackIndex < LastSegmentIndex
    BY <2>0
  <2>3. m_bufferUnderrun => m_currentPlaybackIndex <= LastSegmentIndex
    BY DEF IInv, TypeOK, UnderrunRegistered
  <2> QED
    BY <1>2, <2>0, <2>1, <2>2, <2>3 DEF IInv, TypeOK
<1> QED
  BY <1>1, <1>2 DEF IInv, TypeOK

LEMMA PlayingTickKeeps ==
  ASSUME IInv, TimerExpires("playbackFinished"), state = "playing"
  PROVE  IInv'
<1> USE LastSegmentAssumption
<1>1. /\ \/ PlayOn("playbackFinished", toArrive)
         \/ Terminate("playbackFinished", toArrive)
         \/ Ignore("playbackFinished", toArrive)
      /\ UNCHANGED <<received, m_bytesReceived>>
  BY PlaybackTimerTaken, Dispatch
<1>2. /\ m_currentPlaybackIndex > 0
      /\ toArrive = 0
      /\ pending["irdFinished"] \in {0, 1}
      /\ pending["irdFinished"] = 1 => received = m_segmentCounter
      /\ pending["irdFinished"] = 0 =>
           m_segmentCounter = LastSegmentIndex /\ received >= LastSegmentIndex
  BY DEF IInv, TypeOK, StatePhase, ExactlyOneRequest, OneDelay, SegmentsConserved,
         Downloading, TimerEvents
<1>3. CASE PlayOn("playbackFinished", toArrive)
  <2>1. /\ m_currentPlaybackIndex < LastSegmentIndex
        /\ PlaybackHandle(m_segmentsInBuffer)
        /\ state' = "playing"
        /\ pending' = [Timers("playbackFinished") EXCEPT !["playbackFinished"] = @ + 1]
        /\ UNCHANGED <<m_segmentCounter, m_bDelay, m_currentRepIndex, decided, toArrive,
                       m_socket, aborted>>
    BY <1>3, PlaybackTimerTaken DEF PlayOn, Schedule, KeepReply, NoSend
  <2>2. /\ pending' \in [TimerEvents -> Nat]
        /\ pending'["playbackFinished"] = 1
        /\ pending'["irdFinished"] = pending["irdFinished"]
    BY <1>2, <2>1, PlaybackTimerTaken DEF TimerEvents
  <2>3. FlagsOK'
    BY <2>1, PlaybackEffect DEF IInv, TypeOK, FlagsOK
  <2>4. TypeOK'
    BY <1>1, <2>1, <2>2, <2>3, PlaybackEffect DEF IInv, TypeOK
  <2>5. ExactlyOneRequest' /\ SegmentsConserved' /\ OnePlaybackClock' /\ OneDelay'
    BY <1>1, <1>2, <2>1, <2>2, PlaybackEffect
       DEF IInv, TypeOK, ExactlyOneRequest, SegmentsConserved, OnePlaybackClock,
           OneDelay, Downloading
  <2>6. ReplyPerSegment' /\ UnderrunRegistered' /\ NothingLeftAtEnd' /\ StatePhase'
    BY <1>1, <1>2, <2>1, PlaybackEffect
       DEF IInv, TypeOK, Segments, SegmentsConserved, ReplyPerSegment,
           UnderrunRegistered, NothingLeftAtEnd, StatePhase, Downloading
  <2> QED
    BY <2>4, <2>5, <2>6 DEF IInv
<1>4. CASE Terminate("playbackFinished", toArrive)
  <2>1. /\ m_currentPlaybackIndex = LastSegmentIndex
        /\ PlaybackHandle(m_segmentsInBuffer)
        /\ state' = "terminal"
        /\ m_socket' = "closed"
        /\ toArrive' = 0
        /\ pending' = Timers("playbackFinished")
        /\ UNCHANGED <<m_segmentCounter, m_bDelay, m_currentRepIndex, decided, aborted>>
    BY <1>4, PlaybackTimerTaken DEF Terminate, CloseSocket, KeepReply
  <2>2. /\ pending' \in [TimerEvents -> Nat]
        /\ pending'["playbackFinished"] = 0
        /\ pending'["irdFinished"] = pending["irdFinished"]
    BY <2>1, PlaybackTimerTaken
  <2>3. FlagsOK'
    BY <2>1, PlaybackEffect DEF IInv, TypeOK, FlagsOK
  <2>4. TypeOK'
    BY <1>1, <2>1, <2>2, <2>3, PlaybackEffect DEF IInv, TypeOK, States, SocketStates
  <2>5. /\ m_segmentCounter = LastSegmentIndex
        /\ m_segmentsInBuffer' = 0
        /\ received >= LastSegmentIndex
    BY <1>2, <2>1, PlaybackEffect
       DEF IInv, TypeOK, Segments, SegmentsConserved, StatePhase
  <2>6. ExactlyOneRequest' /\ SegmentsConserved' /\ OnePlaybackClock' /\ OneDelay'
    BY <1>1, <1>2, <2>1, <2>2, <2>5, PlaybackEffect
       DEF IInv, TypeOK, ExactlyOneRequest, SegmentsConserved, OnePlaybackClock,
           OneDelay, Downloading
  <2>7. ReplyPerSegment' /\ UnderrunRegistered' /\ NothingLeftAtEnd' /\ StatePhase'
    BY <1>1, <1>2, <2>1, <2>5, PlaybackEffect
       DEF IInv, TypeOK, Segments, SegmentsConserved, ReplyPerSegment,
           UnderrunRegistered, NothingLeftAtEnd, StatePhase, Downloading
  <2> QED
    BY <2>4, <2>6, <2>7 DEF IInv
<1>5. CASE Ignore("playbackFinished", toArrive)
  <2>1. /\ m_currentPlaybackIndex > LastSegmentIndex
        /\ state' = "playing"
        /\ pending' = Timers("playbackFinished")
        /\ UNCHANGED <<m_segmentCounter, m_bDelay, m_currentRepIndex, decided, toArrive,
                       m_segmentsInBuffer, m_currentPlaybackIndex, m_bufferUnderrun,
                       m_socket, aborted>>
    BY <1>5, PlaybackTimerTaken DEF Ignore, KeepReply, NoSend, NoPlayback, TimerEvents
  <2>2. /\ pending' \in [TimerEvents -> Nat]
        /\ pending'["playbackFinished"] = 0
        /\ pending'["irdFinished"] = pending["irdFinished"]
    BY <2>1, PlaybackTimerTaken
  <2>3. FlagsOK'
    BY <2>1 DEF IInv, TypeOK, FlagsOK
  <2>4. TypeOK'
    BY <1>1, <2>1, <2>2, <2>3 DEF IInv, TypeOK
  <2>5. ExactlyOneRequest' /\ SegmentsConserved' /\ OnePlaybackClock' /\ OneDelay'
    BY <1>1, <1>2, <2>1, <2>2
       DEF IInv, TypeOK, ExactlyOneRequest, SegmentsConserved, OnePlaybackClock,
           OneDelay, Downloading
  <2>6. ReplyPerSegment' /\ UnderrunRegistered' /\ NothingLeftAtEnd' /\ StatePhase'
    BY <1>1, <1>2, <2>1
       DEF IInv, TypeOK, Segments, SegmentsConserved, ReplyPerSegment,
           UnderrunRegistered, NothingLeftAtEnd, StatePhase, Downloading
  <2> QED
    BY <2>4, <2>5, <2>6 DEF IInv
<1> QED
  BY <1>1, <1>3, <1>4, <1>5

LEMMA DelayTimerKeeps ==
  ASSUME IInv, TimerExpires("irdFinished")
  PROVE  IInv'
<1>1. /\ pending["irdFinished"] = 1
      /\ state \in {"playing", "terminal"}
      /\ toArrive = 0
      /\ received = m_segmentCounter
      /\ received' = received
      /\ m_bytesReceived' = m_bytesReceived
  BY DEF IInv, TypeOK, OneDelay, TimerExpires, readVars, TimerEvents
<1>2. /\ Timers("irdFinished") \in [TimerEvents -> Nat]
      /\ Timers("irdFinished")["irdFinished"] = 0
      /\ Timers("irdFinished")["playbackFinished"] = pending["playbackFinished"]
  BY <1>1, TimersAfter DEF IInv, TimerEvents
<1>3. /\ Controller("irdFinished", toArrive)
      /\ Buffered("irdFinished") = m_segmentsInBuffer
      /\ Delay("irdFinished") = m_bDelay
  BY DEF TimerExpires, Buffered, Delay, IInv, TypeOK
<1>4. CASE state = "playing"
  <2>1. /\ state' = "downloadingPlaying"
        /\ pending' = Timers("irdFinished")
        /\ Send(toArrive)
        /\ UNCHANGED <<m_segmentCounter, m_bDelay, m_currentRepIndex, decided,
                       m_segmentsInBuffer, m_currentPlaybackIndex, m_bufferUnderrun>>
    BY <1>3, <1>4, Dispatch DEF DelayedDownload, KeepReply, NoPlayback
  <2>2. pending["playbackFinished"] = 1
    <3>1. m_currentPlaybackIndex <= LastSegmentIndex
      BY <1>1, LastSegmentAssumption DEF IInv, TypeOK, SegmentsConserved, Segments
    <3> QED
      BY <1>4, <3>1, LastSegmentAssumption DEF IInv, TypeOK, OnePlaybackClock
  <2>3. CASE m_socket = "open"
    <3>1. /\ m_socket' = "open"
          /\ toArrive' = 0 + SegmentSize[m_currentRepIndex][m_segmentCounter]
          /\ aborted' = aborted
          /\ m_bytesReceived = 0
      BY <1>1, <1>4, <2>1, <2>3 DEF Send, IInv, StatePhase, Downloading
    <3>2. toArrive' \in Nat /\ toArrive' > 0
          /\ toArrive' = SegmentSize[m_currentRepIndex][m_segmentCounter]
      BY <3>1, SegmentSizeType DEF IInv, TypeOK
    <3>3. FlagsOK'
      BY <2>1, <3>1 DEF IInv, TypeOK, FlagsOK
    <3>4. TypeOK'
      BY <1>1, <1>2, <2>1, <3>1, <3>2, <3>3 DEF IInv, TypeOK, States, SocketStates
    <3>5. ExactlyOneRequest' /\ SegmentsConserved' /\ OnePlaybackClock' /\ OneDelay'
      BY <1>1, <1>2, <2>1, <2>2, <3>1, <3>2
         DEF IInv, TypeOK, ExactlyOneRequest, SegmentsConserved, OnePlaybackClock,
             OneDelay, Downloading
    <3>6. ReplyPerSegment' /\ UnderrunRegistered' /\ NothingLeftAtEnd' /\ StatePhase'
      BY <1>1, <1>4, <2>1, <2>3, <3>1
         DEF IInv, TypeOK, Segments, SegmentsConserved, ReplyPerSegment,
             UnderrunRegistered, NothingLeftAtEnd, StatePhase, Downloading
    <3> QED
      BY <3>4, <3>5, <3>6 DEF IInv
  <2>4. CASE m_socket = "closed"
    <3>1. /\ aborted' = TRUE
          /\ UNCHANGED <<m_socket, toArrive>>
      BY <2>1, <2>4 DEF Send
    <3>2. FlagsOK'
      BY <2>1, <3>1 DEF IInv, TypeOK, FlagsOK
    <3>3. TypeOK'
      BY <1>1, <1>2, <2>1, <3>1, <3>2 DEF IInv, TypeOK, States
    <3>4. ExactlyOneRequest' /\ SegmentsConserved' /\ OnePlaybackClock' /\ OneDelay'
      BY <1>1, <1>2, <2>1, <2>2, <2>4, <3>1
         DEF IInv, TypeOK, ExactlyOneRequest, SegmentsConserved, OnePlaybackClock,
             OneDelay, Downloading
    <3>5. ReplyPerSegment' /\ UnderrunRegistered' /\ NothingLeftAtEnd' /\ StatePhase'
      BY <1>1, <1>4, <2>1, <2>4, <3>1
         DEF IInv, TypeOK, Segments, SegmentsConserved, ReplyPerSegment,
             UnderrunRegistered, NothingLeftAtEnd, StatePhase, Downloading
    <3> QED
      BY <3>3, <3>4, <3>5 DEF IInv
  <2> QED
    BY <1>4, <2>3, <2>4 DEF IInv, TypeOK, StatePhase, SocketStates
<1>5. CASE state = "terminal"
  <2>1. /\ pending' = Timers("irdFinished")
        /\ UNCHANGED <<state, m_segmentCounter, m_bDelay, m_currentRepIndex, decided,
                       m_segmentsInBuffer, m_currentPlaybackIndex, m_bufferUnderrun,
                       toArrive, m_socket, aborted>>
    BY <1>3, <1>5, Dispatch DEF Ignore, KeepReply, NoPlayback, NoSend
  <2>2. FlagsOK'
    BY <2>1 DEF IInv, TypeOK, FlagsOK
  <2>3. TypeOK'
    BY <1>1, <1>2, <2>1, <2>2 DEF IInv, TypeOK
  <2>4. ExactlyOneRequest' /\ SegmentsConserved' /\ OnePlaybackClock' /\ OneDelay'
    BY <1>1, <1>2, <1>5, <2>1
       DEF IInv, TypeOK, ExactlyOneRequest, SegmentsConserved, OnePlaybackClock,
           OneDelay, Downloading
  <2>5. ReplyPerSegment' /\ UnderrunRegistered' /\ NothingLeftAtEnd' /\ StatePhase'
    BY <1>1, <1>5, <2>1
       DEF IInv, TypeOK, ReplyPerSegment, UnderrunRegistered, NothingLeftAtEnd,
           StatePhase, Downloading
  <2> QED
    BY <2>3, <2>4, <2>5 DEF IInv
<1> QED
  BY <1>1, <1>4, <1>5

LEMMA StopKeeps == IInv /\ StopApplication => IInv'
<1> SUFFICES ASSUME IInv, StopApplication PROVE IInv'
  OBVIOUS
<1>1. /\ m_socket' = "closed"
      /\ toArrive' = 0
      /\ UNCHANGED <<state, m_segmentCounter, m_currentRepIndex, m_bDelay, decided,
                     received, m_bytesReceived, m_segmentsInBuffer,
                     m_currentPlaybackIndex, m_bufferUnderrun, pending, aborted>>
  BY DEF StopApplication, CloseSocket, replyVars, readVars, playbackVars
<1>2. FlagsOK'
  BY <1>1 DEF IInv, TypeOK, FlagsOK
<1>3. TypeOK'
  BY <1>1, <1>2 DEF IInv, TypeOK, SocketStates
<1>4. ExactlyOneRequest' /\ SegmentsConserved' /\ OnePlaybackClock' /\ OneDelay'
  BY <1>1 DEF IInv, ExactlyOneRequest, SegmentsConserved, OnePlaybackClock, OneDelay,
              Downloading
<1>5. ReplyPerSegment' /\ UnderrunRegistered' /\ NothingLeftAtEnd' /\ StatePhase'
  BY <1>1 DEF IInv, ReplyPerSegment, UnderrunRegistered, NothingLeftAtEnd, StatePhase,
              Downloading
<1> QED
  BY <1>3, <1>4, <1>5 DEF IInv

LEMMA StutterKeeps == IInv /\ UNCHANGED vars => IInv'
<1> SUFFICES ASSUME IInv, UNCHANGED vars PROVE IInv'
  OBVIOUS
<1> USE DEF vars, replyVars, readVars, playbackVars, linkVars
<1>1. FlagsOK'
  BY DEF IInv, TypeOK, FlagsOK
<1>2. TypeOK'
  BY <1>1 DEF IInv, TypeOK
<1>3. ExactlyOneRequest' /\ SegmentsConserved' /\ OnePlaybackClock' /\ OneDelay'
  BY DEF IInv, ExactlyOneRequest, SegmentsConserved, OnePlaybackClock, OneDelay,
         Downloading
<1>4. ReplyPerSegment' /\ UnderrunRegistered' /\ NothingLeftAtEnd' /\ StatePhase'
  BY DEF IInv, ReplyPerSegment, UnderrunRegistered, NothingLeftAtEnd, StatePhase,
         Downloading
<1> QED
  BY <1>2, <1>3, <1>4 DEF IInv

LEMMA NextKeeps == IInv /\ [Next]_vars => IInv'
<1> SUFFICES ASSUME IInv, Next PROVE IInv'
  BY StutterKeeps
<1>1. CASE StartApplication
  BY <1>1, StartKeeps
<1>2. CASE ConnectionSucceeded
  BY <1>2, ConnectKeeps
<1>3. ASSUME NEW n \in 1 .. toArrive, HandleRead(n) PROVE IInv'
  BY <1>3, ReadKeeps
<1>4. CASE TimerExpires("playbackFinished")
  BY <1>4, PlaybackTimerTaken, PlayOrStallKeeps, PlayingTickKeeps
<1>5. CASE TimerExpires("irdFinished")
  BY <1>5, DelayTimerKeeps
<1>6. CASE StopApplication
  BY <1>6, StopKeeps
<1> QED
  BY <1>1, <1>2, <1>3, <1>4, <1>5, <1>6 DEF Next, TimerEvents

\* The invariant that carries all the others.
THEOREM Invariance == Spec => []IInv
<1> QED
  BY InitIInv, NextKeeps, PTL DEF Spec

\* Every variable keeps its type, whatever the algorithm replies.
THEOREM TypeCorrect == Spec => []TypeOK
<1>1. IInv => TypeOK
  BY DEF IInv
<1> QED
  BY <1>1, Invariance, PTL

\* The byte count of HandleRead always ends on the size of the segment asked for.
THEOREM OneRequest == Spec => []ExactlyOneRequest
<1>1. IInv => ExactlyOneRequest
  BY DEF IInv
<1> QED
  BY <1>1, Invariance, PTL

\* Received segments are in the buffer or played, and the counter keeps up.
THEOREM Conservation == Spec => []SegmentsConserved
<1>1. IInv => SegmentsConserved
  BY DEF IInv
<1> QED
  BY <1>1, Invariance, PTL

\* There is exactly one playback timer while there is something left to play.
THEOREM PlaybackClock == Spec => []OnePlaybackClock
<1>1. IInv => OnePlaybackClock
  BY DEF IInv
<1> QED
  BY <1>1, Invariance, PTL

\* One delay at a time, with nothing being downloaded.
THEOREM DelayAlone == Spec => []OneDelay
<1>1. IInv => OneDelay
  BY DEF IInv
<1> QED
  BY <1>1, Invariance, PTL

\* The reply vectors stay aligned with the segment indexes.
THEOREM ReplyAligned == Spec => []ReplyPerSegment
<1>1. IInv => ReplyPerSegment
  BY DEF IInv
<1> QED
  BY <1>1, Invariance, PTL

\* UnderrunRegistered: a stall in the middle of the video is registered, and the mark is
\* one of a stall.
THEOREM UnderrunMark == Spec => []UnderrunRegistered
<1>1. IInv => UnderrunRegistered
  BY DEF IInv
<1> QED
  BY <1>1, Invariance, PTL

\* The terminal state is entered with an empty buffer and all but perhaps the
\* last segment played.
THEOREM CleanEnd == Spec => []NothingLeftAtEnd
<1>1. IInv => NothingLeftAtEnd
  BY DEF IInv
<1> QED
  BY <1>1, Invariance, PTL

-----------------------------------------------------------------------------
(* The client implements StreamSession.                                    *)

LEMMA SessionStart == Init => Session!SessionInit
BY DEF Init, Session!SessionInit, TimerEvents

LEMMA ConnectIsBegin ==
  ASSUME IInv, IInv', ConnectionSucceeded
  PROVE  Session!Begin
<1>1. /\ state = "initial"
      /\ m_socket = "connecting"
      /\ toArrive = 0
      /\ received = 0
      /\ ControllerInitial("init", toArrive)
  BY Dispatch DEF IInv, TypeOK, StatePhase, ExactlyOneRequest, ConnectionSucceeded
<1>2. /\ m_socket' = "open"
      /\ state' = "downloading"
      /\ received' = received
      /\ m_currentPlaybackIndex' = m_currentPlaybackIndex
      /\ pending' = pending
  BY <1>1, TimersKept
     DEF ConnectionSucceeded, ControllerInitial, Send, NoPlayback, readVars, IInv,
         TimerEvents
<1>3. toArrive' > 0
  BY <1>2 DEF IInv, ExactlyOneRequest, Downloading
<1> QED
  BY <1>1, <1>2, <1>3, LastSegmentAssumption DEF Session!Begin

LEMMA ReadIsFetch ==
  ASSUME IInv, IInv', NEW n \in 1 .. toArrive, HandleRead(n)
  PROVE  Session!Fetch \/ UNCHANGED Session!sessionVars
<1>1. CASE m_bytesReceived + n # SegmentSize[m_currentRepIndex][m_segmentCounter]
  <2>1. /\ m_socket' = "open"
        /\ UNCHANGED <<state, received, m_currentPlaybackIndex, pending, m_socket>>
    BY <1>1 DEF HandleRead, playbackVars
  <2>2. toArrive > 0 /\ toArrive' > 0
    BY <2>1 DEF IInv, TypeOK, ExactlyOneRequest, Downloading
  <2> QED
    BY <2>1, <2>2 DEF Session!sessionVars
<1>2. CASE m_bytesReceived + n = SegmentSize[m_currentRepIndex][m_segmentCounter]
  <2>1. /\ Controller("downloadFinished", 0)
        /\ m_socket = "open"
        /\ Downloading
        /\ received' = received + 1
        /\ Timers("downloadFinished") = pending
        /\ Buffered("downloadFinished") = m_segmentsInBuffer + 1
    BY <1>2, SegmentComplete
  <2>2. /\ state = "downloading" =>
             /\ pending["playbackFinished"] = 0
             /\ m_currentPlaybackIndex = received
             /\ m_currentPlaybackIndex' = m_currentPlaybackIndex + 1
        /\ state = "downloadingPlaying" =>
             /\ pending["playbackFinished"] = 1
             /\ UNCHANGED m_currentPlaybackIndex
        /\ state' \in {"downloadingPlaying", "playing"}
        /\ pending'["playbackFinished"] = 1
        /\ m_socket' = "open"
    <3>1. CASE state = "downloading"
      <4>1. ControllerDownloading("downloadFinished", 0)
        BY <2>1, <3>1, Dispatch
      <4>2. m_segmentsInBuffer = 0 /\ pending["playbackFinished"] = 0
        BY <3>1 DEF IInv, OnePlaybackClock
      <4>3. m_currentPlaybackIndex = received
        BY <4>2 DEF IInv, TypeOK, SegmentsConserved
      <4>4. m_currentPlaybackIndex' = m_currentPlaybackIndex + 1
        BY <2>1, <4>1, <4>2 DEF ControllerDownloading, PlaybackHandle
      <4>5. pending'["playbackFinished"] = 1
        BY <2>1, <4>1, <4>2 DEF ControllerDownloading, Schedule, IInv, TypeOK, TimerEvents
      <4>6. m_socket' = "open" /\ state' \in {"downloadingPlaying", "playing"}
        BY <2>1, <4>1 DEF ControllerDownloading, Send, NoSend
      <4> QED
        BY <3>1, <4>2, <4>3, <4>4, <4>5, <4>6
    <3>2. CASE state = "downloadingPlaying"
      <4>1. NextDownload("downloadFinished", 0)
        BY <2>1, <3>2, Dispatch
      <4>2. pending["playbackFinished"] = 1
        BY <3>2 DEF IInv, OnePlaybackClock
      <4>3. UNCHANGED m_currentPlaybackIndex
        BY <4>1 DEF NextDownload, NoPlayback
      <4>4. m_socket' = "open" /\ state' \in {"downloadingPlaying", "playing"}
        BY <2>1, <3>2, <4>1 DEF NextDownload, Send, NoSend
      <4>5. pending'["playbackFinished"] = 1
        BY <2>1, <4>1, <4>2 DEF NextDownload, Schedule, IInv, TypeOK, TimerEvents
      <4> QED
        BY <3>2, <4>2, <4>3, <4>4, <4>5
    <3> QED
      BY <2>1, <3>1, <3>2 DEF Downloading
  <2>3. toArrive > 0
    BY <2>1 DEF IInv, ExactlyOneRequest
  <2>4. /\ received \in Nat
        /\ received' <= LastSegmentIndex + 1
        /\ toArrive' > 0 => received' <= LastSegmentIndex
    BY LastSegmentAssumption
       DEF IInv, TypeOK, Segments, StatePhase, SegmentsConserved, ExactlyOneRequest
  <2> QED
    BY <2>1, <2>2, <2>3, <2>4, LastSegmentAssumption
       DEF Session!Fetch, Session!MayRequestAnother, Downloading
<1> QED
  BY <1>1, <1>2

LEMMA TickIsPlayback ==
  ASSUME IInv, IInv', TimerExpires("playbackFinished")
  PROVE  \/ Session!Play \/ Session!Stall \/ Session!End \/ Session!RunOut
         \/ UNCHANGED Session!sessionVars
<1> USE LastSegmentAssumption
<1>1. /\ pending["playbackFinished"] > 0
      /\ received' = received
      /\ received \in Nat /\ received <= LastSegmentIndex + 1
      /\ m_currentPlaybackIndex + m_segmentsInBuffer = received
      /\ m_currentPlaybackIndex \in Nat /\ m_segmentsInBuffer \in Nat
  <2>1. pending["playbackFinished"] > 0 /\ received' = received
    BY DEF TimerExpires, readVars
  <2>2. received <= m_segmentCounter + 1 /\ m_segmentCounter \in Segments
    BY DEF IInv, TypeOK, StatePhase
  <2>3. /\ received \in Nat
        /\ m_currentPlaybackIndex \in Nat
        /\ m_segmentsInBuffer \in Nat
        /\ m_currentPlaybackIndex + m_segmentsInBuffer = received
    BY DEF IInv, TypeOK, SegmentsConserved
  <2>4. received <= LastSegmentIndex + 1
    BY <2>2, <2>3 DEF Segments
  <2> QED
    BY <2>1, <2>3, <2>4
<1>2. CASE state = "downloadingPlaying"
  <2>1. /\ PlayOrStall("playbackFinished", toArrive)
        /\ PlaybackHandle(m_segmentsInBuffer)
        /\ UNCHANGED <<m_socket, toArrive>>
    BY <1>2, PlaybackTimerTaken, Dispatch DEF PlayOrStall, NoSend
  <2>2. CASE m_segmentsInBuffer > 0
    <3>1. /\ m_currentPlaybackIndex' = m_currentPlaybackIndex + 1
          /\ state' = "downloadingPlaying"
      BY <1>2, <2>1, <2>2, PlaybackTimerTaken DEF PlayOrStall, PlaybackHandle
    <3>2. pending'["playbackFinished"] > 0
      BY <3>1 DEF IInv, OnePlaybackClock
    <3>3. Session!Play
      BY <1>1, <2>1, <2>2, <3>1, <3>2 DEF Session!Play
    <3> QED
      BY <3>3
  <2>3. CASE m_segmentsInBuffer = 0
    <3>1. /\ m_currentPlaybackIndex' = m_currentPlaybackIndex
          /\ state' = "downloading"
      BY <2>1, <2>3, PlaybackTimerTaken DEF PlayOrStall, PlaybackHandle
    <3>2. pending'["playbackFinished"] = 0
      BY <3>1 DEF IInv, OnePlaybackClock
    <3>3. toArrive > 0 \/ m_socket # "open"
      BY <1>2 DEF IInv, ExactlyOneRequest, Downloading
    <3>4. Session!Stall
      BY <1>1, <2>1, <2>3, <3>1, <3>2, <3>3 DEF Session!Stall
    <3> QED
      BY <3>4
  <2> QED
    BY <1>1, <2>2, <2>3
<1>3. CASE state = "playing"
  <2>1. toArrive = 0
    BY <1>3 DEF IInv, TypeOK, ExactlyOneRequest, Downloading
  <2>2. CASE PlayOn("playbackFinished", toArrive)
    <3>1. /\ PlaybackHandle(m_segmentsInBuffer)
          /\ state' = "playing"
          /\ m_currentPlaybackIndex < LastSegmentIndex
          /\ UNCHANGED <<m_socket, toArrive>>
      BY <2>2, PlaybackTimerTaken DEF PlayOn, NoSend
    <3>2. pending'["playbackFinished"] > 0
      BY <2>2, PlaybackTimerTaken DEF PlayOn, Schedule, TimerEvents
    <3>3. CASE m_segmentsInBuffer > 0
      <4>1. m_currentPlaybackIndex' = m_currentPlaybackIndex + 1
        BY <3>1, <3>3 DEF PlaybackHandle
      <4> QED
        BY <1>1, <3>1, <3>2, <3>3, <4>1 DEF Session!Play
    <3>4. CASE m_segmentsInBuffer = 0
      <4>1. m_currentPlaybackIndex' = m_currentPlaybackIndex
        BY <3>1, <3>4 DEF PlaybackHandle
      <4> QED
        BY <1>1, <3>1, <3>2, <4>1 DEF Session!sessionVars
    <3> QED
      BY <1>1, <3>3, <3>4
  <2>3. CASE Terminate("playbackFinished", toArrive)
    <3>1. /\ m_currentPlaybackIndex = LastSegmentIndex
          /\ state' = "terminal"
          /\ m_socket' = "closed"
          /\ toArrive' = 0
      BY <2>3 DEF Terminate, CloseSocket
    <3>2. /\ pending'["playbackFinished"] = 0
          /\ m_currentPlaybackIndex' = received'
          /\ received' >= LastSegmentIndex
      <4>1. pending'["playbackFinished"] = 0
        BY <3>1 DEF IInv, OnePlaybackClock
      <4>2. m_segmentsInBuffer' = 0 /\ received' >= LastSegmentIndex
        BY <3>1 DEF IInv, NothingLeftAtEnd
      <4>3. /\ m_currentPlaybackIndex' \in Nat
            /\ m_segmentsInBuffer' \in Nat
            /\ received' \in Nat
            /\ received' = m_currentPlaybackIndex' + m_segmentsInBuffer'
        BY DEF IInv, TypeOK, SegmentsConserved
      <4>4. \A a, b, c \in Nat : a = b + c /\ c = 0 => a = b
        OBVIOUS
      <4>5. m_currentPlaybackIndex' = received'
        BY <4>2, <4>3, <4>4
      <4> QED
        BY <4>1, <4>2, <4>5
    <3>3. Session!End
      BY <1>1, <3>1, <3>2 DEF Session!End
    <3> QED
      BY <3>3
  <2>4. CASE Ignore("playbackFinished", toArrive)
    <3>1. /\ m_currentPlaybackIndex > LastSegmentIndex
          /\ UNCHANGED <<m_currentPlaybackIndex, m_socket, toArrive>>
          /\ pending'["playbackFinished"] = 0
      BY <1>3, <2>4, PlaybackTimerTaken DEF Ignore, NoSend, NoPlayback, TimerEvents
    <3>2. Session!RunOut
      BY <1>1, <2>1, <3>1 DEF Session!RunOut
    <3> QED
      BY <3>2
  <2> QED
    BY <1>3, <2>2, <2>3, <2>4, PlaybackTimerTaken, Dispatch
<1> QED
  BY <1>2, <1>3, PlaybackTimerTaken

LEMMA DelayIsRequest ==
  ASSUME IInv, IInv', TimerExpires("irdFinished")
  PROVE  Session!Request \/ UNCHANGED Session!sessionVars
<1>1. /\ pending["irdFinished"] = 1
      /\ state \in {"playing", "terminal"}
      /\ toArrive = 0
      /\ received = m_segmentCounter
      /\ received' = received
      /\ received \in Nat /\ received <= LastSegmentIndex
      /\ Controller("irdFinished", toArrive)
  BY LastSegmentAssumption
     DEF IInv, TypeOK, Segments, OneDelay, TimerExpires, readVars, TimerEvents
<1>2. Timers("irdFinished")["playbackFinished"] = pending["playbackFinished"]
  BY <1>1, TimersAfter DEF IInv, TimerEvents
<1>3. CASE state = "playing"
  <2>1. /\ state' = "downloadingPlaying"
        /\ Send(toArrive)
        /\ pending' = Timers("irdFinished")
        /\ UNCHANGED m_currentPlaybackIndex
    BY <1>1, <1>3, Dispatch DEF DelayedDownload, NoPlayback
  <2>2. pending'["playbackFinished"] = pending["playbackFinished"]
        /\ pending["playbackFinished"] > 0
    BY <1>2, <2>1 DEF IInv, OnePlaybackClock
  <2>3. CASE m_socket = "open"
    <3>1. m_socket' = "open"
      BY <2>1, <2>3 DEF Send
    <3>2. toArrive' > 0
      BY <2>1, <3>1 DEF IInv, ExactlyOneRequest, Downloading
    <3> QED
      BY <1>1, <2>1, <2>2, <2>3, <3>1, <3>2, LastSegmentAssumption DEF Session!Request
  <2>4. CASE m_socket = "closed"
    <3>1. UNCHANGED <<m_socket, toArrive>>
      BY <2>1, <2>4 DEF Send
    <3> QED
      BY <1>1, <2>1, <2>2, <3>1 DEF Session!sessionVars
  <2> QED
    BY <1>3, <2>3, <2>4 DEF IInv, TypeOK, StatePhase, SocketStates
<1>4. CASE state = "terminal"
  <2>1. /\ pending' = Timers("irdFinished")
        /\ UNCHANGED <<m_currentPlaybackIndex, m_socket, toArrive>>
    BY <1>1, <1>4, Dispatch DEF Ignore, NoPlayback, NoSend
  <2> QED
    BY <1>1, <1>2, <2>1 DEF Session!sessionVars
<1> QED
  BY <1>1, <1>3, <1>4

LEMMA SessionStep ==
  IInv /\ IInv' /\ [Next]_vars => [Session!SessionNext]_(Session!sessionVars)
<1> SUFFICES ASSUME IInv, IInv', [Next]_vars
             PROVE  Session!SessionNext \/ UNCHANGED Session!sessionVars
  OBVIOUS
<1>1. CASE StartApplication
  BY <1>1 DEF StartApplication, readVars, playbackVars, Session!sessionVars
<1>2. CASE ConnectionSucceeded
  BY <1>2, ConnectIsBegin DEF Session!SessionNext
<1>3. ASSUME NEW n \in 1 .. toArrive, HandleRead(n)
      PROVE  Session!SessionNext \/ UNCHANGED Session!sessionVars
  BY <1>3, ReadIsFetch DEF Session!SessionNext
<1>4. CASE TimerExpires("playbackFinished")
  BY <1>4, TickIsPlayback DEF Session!SessionNext
<1>5. CASE TimerExpires("irdFinished")
  BY <1>5, DelayIsRequest DEF Session!SessionNext
<1>6. CASE StopApplication
  <2>1. Session!Stop
    BY <1>6 DEF StopApplication, CloseSocket, readVars, playbackVars, Session!Stop,
                IInv, TypeOK
  <2> QED
    BY <2>1 DEF Session!SessionNext
<1>7. CASE UNCHANGED vars
  BY <1>7 DEF vars, readVars, playbackVars, linkVars, Session!sessionVars
<1> QED
  BY <1>1, <1>2, <1>3, <1>4, <1>5, <1>6, <1>7 DEF Next, TimerEvents

\* Whatever the algorithm replies and whenever packets arrive, timers expire and
\* the application is stopped, the client keeps the session's promises.
THEOREM Refinement == Spec => ImplementsSession
<1>1. Spec => []IInv
  BY Invariance
<1> QED
  BY <1>1, SessionStart, SessionStep, PTL
     DEF Spec, ImplementsSession, Session!SessionSpec

=============================================================================
