--------------------- MODULE TcpStreamClientTimedProofs ---------------------
(***************************************************************************)
(* The buffer level that the algorithms are told is never ahead of what is *)
(* left to play, and is exactly that when delays are shorter than the      *)
(* buffer, for every length of segment and every delay.                    *)
(***************************************************************************)
EXTENDS TcpStreamClientTimed, TcpStreamClientProofs

\* The playback tick of the segment on screen is still to come.
ScreenTimed == onScreen /\ state # "terminal" => pending["playbackFinished"] > 0

\* A running delay ends before the buffer does.
DelayWithin ==
  prudent /\ state # "terminal" /\ pending["irdFinished"] > 0 =>
    due["irdFinished"] < bufferLevel

Clock ==
  /\ TimedTypeOK
  /\ ScreenTimed
  /\ LevelNeverAhead
  /\ LevelExact
  /\ Gapless
  /\ DelayWithin
  /\ DelayEndsFirst

TimedInv == IInv /\ Clock

-----------------------------------------------------------------------------
(* What the invariants of TcpStreamClient say of the two timers, and the   *)
(* arithmetic of buffered time.                                            *)

LEMMA TimerNames ==
  "playbackFinished" \in TimerEvents /\ "irdFinished" \in TimerEvents
BY DEF TimerEvents

LEMMA ClockTypes ==
  ASSUME IInv, TimedTypeOK
  PROVE  /\ due["playbackFinished"] \in Nat /\ due["irdFinished"] \in Nat
         /\ pending["playbackFinished"] \in Nat /\ pending["irdFinished"] \in Nat
         /\ bufferLevel \in Nat
         /\ m_segmentsInBuffer \in Nat
         /\ m_currentPlaybackIndex \in Nat
         /\ due["playbackFinished"] <= SegmentDuration
BY TimerNames DEF IInv, TypeOK, TimedTypeOK

LEMMA BufferedTime ==
  ASSUME NEW b \in Nat
  PROVE  /\ b * SegmentDuration \in Nat
         /\ 0 * SegmentDuration = 0
         /\ (b + 1) * SegmentDuration = b * SegmentDuration + SegmentDuration
         /\ (b - 1) * SegmentDuration = b * SegmentDuration - SegmentDuration
BY SegmentDurationAssumption

LEMMA TimeLeftIs ==
  ASSUME IInv, TimedTypeOK
  PROVE  /\ onScreen => TimeLeft = m_segmentsInBuffer * SegmentDuration
                                     + due["playbackFinished"]
         /\ ~onScreen => TimeLeft = m_segmentsInBuffer * SegmentDuration
         /\ TimeLeft \in Nat
<1>1. m_segmentsInBuffer * SegmentDuration \in Nat /\ due["playbackFinished"] \in Nat
  BY ClockTypes, BufferedTime
<1>2. CASE onScreen
  BY <1>1, <1>2 DEF TimeLeft
<1>3. CASE ~onScreen
  BY <1>1, <1>3 DEF TimeLeft
<1> QED
  BY <1>2, <1>3

\* In each state: whether the playback timer runs and what the buffer holds.
LEMMA ClientStates ==
  ASSUME IInv
  PROVE  /\ state \in {"initial", "downloading"} =>
              /\ m_segmentsInBuffer = 0
              /\ pending["playbackFinished"] = 0
              /\ pending["irdFinished"] = 0
         /\ state = "downloadingPlaying" =>
              /\ pending["playbackFinished"] = 1
              /\ pending["irdFinished"] = 0
              /\ m_currentPlaybackIndex <= LastSegmentIndex
         /\ state = "playing" /\ m_currentPlaybackIndex > LastSegmentIndex =>
              m_segmentsInBuffer = 0 /\ pending["irdFinished"] = 0
         /\ state = "playing" /\ m_currentPlaybackIndex <= LastSegmentIndex =>
              pending["playbackFinished"] = 1
         /\ state = "playing" /\ pending["irdFinished"] = 0 =>
              m_currentPlaybackIndex + m_segmentsInBuffer >= LastSegmentIndex
         /\ state = "playing" /\ pending["irdFinished"] > 0 =>
              m_currentPlaybackIndex + m_segmentsInBuffer <= LastSegmentIndex
<1> USE LastSegmentAssumption
<1>1. /\ pending["playbackFinished"] \in Nat /\ pending["irdFinished"] \in Nat
      /\ m_segmentsInBuffer \in Nat /\ m_currentPlaybackIndex \in Nat
      /\ m_segmentCounter \in Nat /\ m_segmentCounter <= LastSegmentIndex
      /\ received = m_currentPlaybackIndex + m_segmentsInBuffer
      /\ received <= m_segmentCounter + 1
  BY TimerNames DEF IInv, TypeOK, Segments, SegmentsConserved, StatePhase
<1>2. /\ Downloading \/ pending["irdFinished"] > 0 => received = m_segmentCounter
      /\ state = "playing" /\ pending["irdFinished"] = 0 => received >= LastSegmentIndex
  BY DEF IInv, SegmentsConserved
<1>3. pending["irdFinished"] > 0 => state \in {"playing", "terminal"}
  BY DEF IInv, OneDelay
<1>4. /\ state = "downloadingPlaying" => pending["playbackFinished"] = 1
      /\ state = "playing" => \/ pending["playbackFinished"] = 1
                              \/ m_currentPlaybackIndex > LastSegmentIndex
      /\ state \in {"initial", "downloading"} => pending["playbackFinished"] = 0
      /\ state = "downloading" => m_segmentsInBuffer = 0
  BY DEF IInv, OnePlaybackClock
<1>5. state = "initial" => received = 0
  BY DEF IInv, StatePhase
<1> QED
  BY <1>1, <1>2, <1>3, <1>4, <1>5 DEF Downloading

LEMMA TimedBegins == TimedInit => TimedInv
<1> SUFFICES ASSUME TimedInit PROVE TimedInv
  OBVIOUS
<1>1. IInv
  BY InitIInv DEF TimedInit
<1>2. /\ due["playbackFinished"] = 0 /\ due["irdFinished"] = 0
      /\ bufferLevel = 0
      /\ state = "initial"
  BY TimerNames DEF TimedInit, Init
<1>3. onScreen \in BOOLEAN /\ prudent \in BOOLEAN /\ ~onScreen
  BY DEF TimedInit
<1>4. due \in [TimerEvents -> Nat] /\ bufferLevel \in Nat
  BY DEF TimedInit
<1>5. TimedTypeOK
  BY <1>2, <1>3, <1>4, SegmentDurationAssumption DEF TimedTypeOK
<1>6. m_segmentsInBuffer = 0 /\ pending["irdFinished"] = 0
  BY <1>1, <1>2, ClientStates
<1>7. TimeLeft = 0
  BY <1>1, <1>3, <1>5, <1>6, TimeLeftIs, BufferedTime
<1>8. LevelNeverAhead /\ LevelExact
  BY <1>2, <1>7 DEF LevelNeverAhead, LevelExact
<1>9. ScreenTimed /\ Gapless /\ DelayWithin /\ DelayEndsFirst
  BY <1>2, <1>3, <1>6 DEF ScreenTimed, Gapless, DelayWithin, DelayEndsFirst
<1> QED
  BY <1>1, <1>5, <1>8, <1>9 DEF TimedInv, Clock

-----------------------------------------------------------------------------
(* Preservation of Clock, one lemma per kind of step.                      *)

\* Time passes with every pending timer still to run.
LEMMA ElapseKeeps ==
  ASSUME TimedInv, Elapse, UNCHANGED prudent
  PROVE  Clock'
<1> USE TimerNames
<1>1. IInv /\ TimedTypeOK
  BY DEF TimedInv, Clock
<1>2. UNCHANGED <<state, m_segmentsInBuffer, m_currentPlaybackIndex, pending>>
  BY DEF Elapse, vars, playbackVars
<1>3. UNCHANGED onScreen
  BY DEF Elapse
<1>4. /\ pending["playbackFinished"] > 0 => due["playbackFinished"] > 0
      /\ pending["irdFinished"] > 0 => due["irdFinished"] > 0
      /\ due' = [ev \in TimerEvents |-> IF due[ev] > 0 THEN due[ev] - 1 ELSE 0]
      /\ bufferLevel' = IF bufferLevel > 0 THEN bufferLevel - 1 ELSE 0
  BY DEF Elapse, Decayed
<1>5. /\ due'["playbackFinished"] =
           IF due["playbackFinished"] > 0 THEN due["playbackFinished"] - 1 ELSE 0
      /\ due'["irdFinished"] =
           IF due["irdFinished"] > 0 THEN due["irdFinished"] - 1 ELSE 0
  BY <1>4
<1>6. TimedTypeOK'
  <2>1. due' \in [TimerEvents -> Nat] /\ bufferLevel' \in Nat
    BY <1>1, <1>4 DEF TimedTypeOK
  <2>2. onScreen' \in BOOLEAN /\ prudent' \in BOOLEAN
    BY <1>1, <1>3 DEF TimedTypeOK
  <2>3. due'["playbackFinished"] <= SegmentDuration
    BY <1>1, <1>5, ClockTypes, SegmentDurationAssumption
  <2> QED
    BY <2>1, <2>2, <2>3 DEF TimedTypeOK
<1>7. ScreenTimed'
  <2>1. ScreenTimed
    BY DEF TimedInv, Clock
  <2> QED
    BY <1>2, <1>3, <2>1, Zenon DEF ScreenTimed
<1>8. Gapless'
  <2>1. Gapless
    BY DEF TimedInv, Clock
  <2> QED
    BY <1>2, <1>3, <2>1, Zenon DEF Gapless
<1>9. DelayEndsFirst'
  <2>1. DelayEndsFirst
    BY DEF TimedInv, Clock
  <2> QED
    BY <1>2, <2>1, Zenon DEF DelayEndsFirst
<1>10. DelayWithin'
  <2>1. /\ prudent' = prudent
        /\ prudent /\ state # "terminal" /\ pending["irdFinished"] > 0 =>
             due["irdFinished"] < bufferLevel
    BY DEF TimedInv, Clock, DelayWithin
  <2> QED
    BY <1>1, <1>2, <1>4, <1>5, <2>1, ClockTypes DEF DelayWithin
<1> DEFINE Played == m_segmentsInBuffer * SegmentDuration
<1>11. /\ onScreen => /\ TimeLeft = Played + due["playbackFinished"]
                      /\ TimeLeft' = Played + due'["playbackFinished"]
       /\ ~onScreen => TimeLeft = Played /\ TimeLeft' = Played
       /\ Played \in Nat
  <2>1. Played \in Nat /\ due'["playbackFinished"] \in Nat
    BY <1>1, <1>5, ClockTypes, BufferedTime
  <2>2. CASE onScreen
    <3>1. onScreen'
      BY <1>3, <2>2
    <3>2. TimeLeft' = Played + due'["playbackFinished"]
      BY <1>2, <2>1, <3>1 DEF TimeLeft
    <3> QED
      BY <1>1, <2>1, <2>2, <3>2, TimeLeftIs
  <2>3. CASE ~onScreen
    <3>1. ~onScreen'
      BY <1>3, <2>3
    <3>2. TimeLeft' = Played
      BY <1>2, <2>1, <3>1 DEF TimeLeft
    <3> QED
      BY <1>1, <2>1, <2>3, <3>2, TimeLeftIs
  <2> QED
    BY <2>2, <2>3
<1> HIDE DEF Played
<1>12. LevelNeverAhead'
  <2>1. /\ state # "terminal" => bufferLevel <= TimeLeft
        /\ state # "terminal" /\ onScreen => pending["playbackFinished"] > 0
    BY DEF TimedInv, Clock, LevelNeverAhead, ScreenTimed
  <2> QED
    BY <1>1, <1>2, <1>4, <1>5, <1>11, <2>1, ClockTypes DEF LevelNeverAhead
<1>13. LevelExact'
  <2> SUFFICES ASSUME prudent', state' # "terminal" PROVE bufferLevel' = TimeLeft'
    BY DEF LevelExact
  <2>1. prudent /\ state # "terminal"
    BY <1>2
  <2>2. bufferLevel = TimeLeft
    BY <2>1 DEF TimedInv, Clock, LevelExact
  <2>3. CASE onScreen
    <3>1. pending["playbackFinished"] > 0
      BY <2>1, <2>3 DEF TimedInv, Clock, ScreenTimed
    <3> QED
      BY <1>1, <1>4, <1>5, <1>11, <2>2, <2>3, <3>1, ClockTypes
  <2>4. CASE ~onScreen
    <3>1. ~(state \in {"downloadingPlaying", "playing"}
              /\ m_currentPlaybackIndex <= LastSegmentIndex)
      BY <2>1, <2>4 DEF TimedInv, Clock, Gapless
    <3>2. /\ m_currentPlaybackIndex \in Nat
          /\ state \in States
      BY <1>1 DEF IInv, TypeOK
    <3>3. m_segmentsInBuffer = 0
      BY <1>1, <2>1, <3>1, <3>2, ClientStates, LastSegmentAssumption DEF States
    <3>4. Played = 0
      BY <3>3, BufferedTime DEF Played
    <3> QED
      BY <1>4, <1>11, <2>2, <2>4, <3>4
  <2> QED
    BY <2>3, <2>4
<1> QED
  BY <1>6, <1>7, <1>8, <1>9, <1>10, <1>12, <1>13 DEF Clock

\* A step that moves no clock and no timer, plays nothing and buffers nothing.
LEMMA UntouchedKeeps ==
  ASSUME TimedInv,
         UNCHANGED <<due, bufferLevel, pending, m_segmentsInBuffer,
                     m_currentPlaybackIndex>>,
         UNCHANGED onScreen, UNCHANGED prudent,
         \/ state' = state
         \/ state = "initial" /\ state' = "downloading"
  PROVE  Clock'
<1>1. /\ TimedTypeOK /\ ScreenTimed /\ LevelNeverAhead /\ LevelExact
      /\ Gapless /\ DelayWithin /\ DelayEndsFirst
  BY DEF TimedInv, Clock
<1>2. TimeLeft' = TimeLeft
  BY DEF TimeLeft
<1>3. TimedTypeOK'
  <2>1. onScreen' \in BOOLEAN /\ prudent' \in BOOLEAN
    BY <1>1 DEF TimedTypeOK
  <2> QED
    BY <1>1, <2>1 DEF TimedTypeOK
<1>4. state' = "terminal" <=> state = "terminal"
  OBVIOUS
<1>5. ScreenTimed' /\ LevelNeverAhead'
  BY <1>1, <1>2, <1>4 DEF ScreenTimed, LevelNeverAhead
<1>6. LevelExact' /\ DelayEndsFirst'
  BY <1>1, <1>2, <1>4 DEF LevelExact, DelayEndsFirst
<1>7. Gapless'
  <2>1. state' \in {"downloadingPlaying", "playing"} =>
          state \in {"downloadingPlaying", "playing"}
    OBVIOUS
  <2> QED
    BY <1>1, <2>1, Zenon DEF Gapless
<1>8. DelayWithin'
  BY <1>1, <1>4 DEF DelayWithin
<1> QED
  BY <1>3, <1>5, <1>6, <1>7, <1>8 DEF Clock

\* The first segment, or the one a stall was waiting for, starts to play at once.
LEMMA FirstSegmentKeeps ==
  ASSUME TimedInv, NEW n \in 1 .. toArrive, HandleRead(n),
         m_bytesReceived + n = SegmentSize[m_currentRepIndex][m_segmentCounter],
         Delivered("downloadFinished"), state = "downloading", UNCHANGED prudent
  PROVE  Clock'
<1> USE TimerNames
<1>1. IInv /\ TimedTypeOK
  BY DEF TimedInv, Clock
<1>2. /\ ControllerDownloading("downloadFinished", 0)
      /\ Timers("downloadFinished") = pending
      /\ Buffered("downloadFinished") = m_segmentsInBuffer + 1
      /\ m_segmentsInBuffer = 0
      /\ pending["irdFinished"] = 0 /\ pending["playbackFinished"] = 0
  BY <1>1, SegmentComplete, Dispatch, ClientStates
<1>3. /\ m_segmentsInBuffer' = 0
      /\ m_currentPlaybackIndex' = m_currentPlaybackIndex + 1
      /\ pending' = [pending EXCEPT !["playbackFinished"] = @ + 1]
      /\ state' \in {"downloadingPlaying", "playing"}
  BY <1>2 DEF ControllerDownloading, PlaybackHandle, Schedule
<1>4. /\ pending'["playbackFinished"] = 1 /\ pending'["irdFinished"] = 0
  BY <1>1, <1>2, <1>3 DEF IInv, TypeOK
<1>5. bufferLevel = 0
  <2>1. ~onScreen
    BY <1>2 DEF TimedInv, Clock, ScreenTimed
  <2>2. TimeLeft = 0
    BY <1>1, <1>2, <2>1, TimeLeftIs, BufferedTime
  <2> QED
    BY <1>1, <2>2, ClockTypes DEF TimedInv, Clock, LevelNeverAhead
<1>6. /\ bufferLevel' = SegmentDuration
      /\ due'["playbackFinished"] = SegmentDuration
      /\ due'["irdFinished"] = due["irdFinished"]
      /\ due' \in [TimerEvents -> Nat]
  <2>1. \A t \in TimerEvents : due'[t] = IF pending'[t] > pending[t] THEN Duration(t) ELSE due[t]
    BY <1>2 DEF Delivered, ScheduleDue
  <2>2. /\ due'["playbackFinished"] = SegmentDuration
        /\ due'["irdFinished"] = due["irdFinished"]
    BY <1>2, <1>4, <2>1 DEF Duration
  <2>3. due' = [t \in TimerEvents |-> due'[t]]
    BY <1>2 DEF Delivered, ScheduleDue
  <2>4. due' \in [TimerEvents -> Nat]
    BY <1>1, <2>2, <2>3, ClockTypes, SegmentDurationAssumption DEF TimerEvents
  <2>5. bufferLevel' = SegmentDuration
    BY <1>5, SegmentDurationAssumption DEF Delivered, LevelAfter
  <2> QED
    BY <2>2, <2>4, <2>5
<1>7. onScreen' = TRUE
  <2>1. m_currentPlaybackIndex' > m_currentPlaybackIndex
    BY <1>1, <1>3, ClockTypes
  <2> QED
    BY <2>1, Zenon DEF Delivered, Screen
<1>8. TimedTypeOK'
  <2>1. onScreen' \in BOOLEAN /\ prudent' \in BOOLEAN
    BY <1>1, <1>7 DEF TimedTypeOK
  <2> QED
    BY <1>6, <2>1, SegmentDurationAssumption DEF TimedTypeOK
<1>9. TimeLeft' = SegmentDuration
  <2>1. m_segmentsInBuffer' * SegmentDuration = 0
    BY <1>3, BufferedTime
  <2> QED
    BY <1>6, <1>7, <2>1, SegmentDurationAssumption DEF TimeLeft
<1>10. LevelNeverAhead' /\ LevelExact'
  BY <1>6, <1>9, SegmentDurationAssumption DEF LevelNeverAhead, LevelExact
<1>11. ScreenTimed' /\ Gapless'
  BY <1>4, <1>7 DEF ScreenTimed, Gapless
<1>12. DelayWithin' /\ DelayEndsFirst'
  BY <1>4 DEF DelayWithin, DelayEndsFirst
<1> QED
  BY <1>8, <1>10, <1>11, <1>12 DEF Clock

\* A later segment while another plays: the level and the buffer grow together, and
\* the delay that may begin is the one the algorithm has just replied.
LEMMA LaterSegmentKeeps ==
  ASSUME TimedInv, NEW n \in 1 .. toArrive, HandleRead(n),
         m_bytesReceived + n = SegmentSize[m_currentRepIndex][m_segmentCounter],
         Delivered("downloadFinished"), state = "downloadingPlaying",
         prudent => DelayShorterThanBuffer, UNCHANGED prudent
  PROVE  Clock'
<1> USE TimerNames
<1>1. IInv /\ TimedTypeOK
  BY DEF TimedInv, Clock
<1>2. /\ NextDownload("downloadFinished", 0)
      /\ Timers("downloadFinished") = pending
      /\ Buffered("downloadFinished") = m_segmentsInBuffer + 1
      /\ pending["irdFinished"] = 0 /\ pending["playbackFinished"] = 1
      /\ m_currentPlaybackIndex <= LastSegmentIndex
  BY <1>1, SegmentComplete, Dispatch, ClientStates
<1>3. /\ m_segmentsInBuffer' = m_segmentsInBuffer + 1
      /\ m_currentPlaybackIndex' = m_currentPlaybackIndex
      /\ state' \in {"downloadingPlaying", "playing"}
  BY <1>2 DEF NextDownload, NoPlayback
<1>4. /\ pending'["playbackFinished"] = 1
      /\ \/ pending'["irdFinished"] = 0
         \/ /\ pending'["irdFinished"] = 1
            /\ m_bDelay' > 0
            /\ m_bDelay' \in Int
            /\ decided' > decided
  <2>1. pending \in [TimerEvents -> Nat] /\ decided \in Nat /\ m_segmentCounter \in Segments
    BY <1>1 DEF IInv, TypeOK
  <2>2. \/ /\ m_bDelay' > 0
           /\ pending' = [pending EXCEPT !["irdFinished"] = @ + 1]
        \/ pending' = pending
    BY <1>2 DEF NextDownload, Schedule
  <2>3. CASE m_segmentCounter < LastSegmentIndex
    <3>1. m_bDelay' \in BDelays /\ decided' = decided + 1
      BY <1>2, <2>3 DEF NextDownload, RequestRepIndex
    <3>2. m_bDelay' \in Int
      BY <3>1, BDelaysAssumption
    <3> QED
      BY <1>2, <2>1, <2>2, <3>1, <3>2
  <2>4. CASE ~(m_segmentCounter < LastSegmentIndex)
    <3>1. m_segmentCounter = LastSegmentIndex
      BY <2>1, <2>4, LastSegmentAssumption DEF Segments
    <3>2. m_bDelay' = 0
      BY <1>2, <2>4, <3>1 DEF NextDownload, KeepReply, Delay
    <3> QED
      BY <1>2, <2>2, <3>2
  <2> QED
    BY <2>3, <2>4
<1>5. bufferLevel' = bufferLevel + SegmentDuration
  BY DEF Delivered, LevelAfter
<1>6. onScreen' = onScreen
  <2>1. ~(m_currentPlaybackIndex' > m_currentPlaybackIndex)
    BY <1>1, <1>3, ClockTypes
  <2>2. onScreen' = (m_currentPlaybackIndex' > m_currentPlaybackIndex
                      \/ (onScreen /\ "downloadFinished" # "playbackFinished"))
    BY Zenon DEF Delivered, Screen
  <2>3. "downloadFinished" # "playbackFinished"
    OBVIOUS
  <2>4. onScreen \in BOOLEAN
    BY <1>1 DEF TimedTypeOK
  <2>5. CASE onScreen = TRUE
    BY <2>1, <2>2, <2>3, <2>5, Zenon
  <2>6. CASE onScreen = FALSE
    BY <2>1, <2>2, <2>3, <2>6, Zenon
  <2> QED
    BY <2>4, <2>5, <2>6, Zenon
<1>7. /\ due'["playbackFinished"] = due["playbackFinished"]
      /\ pending'["irdFinished"] > 0 => due'["irdFinished"] = m_bDelay'
      /\ due' \in [TimerEvents -> Nat]
  <2>1. \A t \in TimerEvents : due'[t] = IF pending'[t] > pending[t] THEN Duration(t) ELSE due[t]
    BY <1>2 DEF Delivered, ScheduleDue
  <2>2. due'["playbackFinished"] = due["playbackFinished"]
    BY <1>2, <1>4, <2>1
  <2>3. /\ pending'["irdFinished"] > 0 => due'["irdFinished"] = m_bDelay'
        /\ ~(pending'["irdFinished"] > 0) => due'["irdFinished"] = due["irdFinished"]
    BY <1>2, <1>4, <2>1 DEF Duration
  <2>4. due' = [t \in TimerEvents |-> due'[t]]
    BY <1>2 DEF Delivered, ScheduleDue
  <2>5. due'["playbackFinished"] \in Nat /\ due'["irdFinished"] \in Nat
    BY <1>1, <1>4, <2>2, <2>3, ClockTypes
  <2> QED
    BY <2>2, <2>3, <2>4, <2>5 DEF TimerEvents
<1>8. TimedTypeOK'
  <2>1. onScreen' \in BOOLEAN /\ prudent' \in BOOLEAN
    BY <1>1, <1>6 DEF TimedTypeOK
  <2>2. bufferLevel' \in Nat
    BY <1>1, <1>5, ClockTypes, SegmentDurationAssumption
  <2> QED
    BY <1>1, <1>7, <2>1, <2>2, ClockTypes DEF TimedTypeOK
<1>9. TimeLeft' = TimeLeft + SegmentDuration
  <2>1. /\ m_segmentsInBuffer' * SegmentDuration =
             m_segmentsInBuffer * SegmentDuration + SegmentDuration
        /\ m_segmentsInBuffer * SegmentDuration \in Nat
        /\ due["playbackFinished"] \in Nat
    BY <1>1, <1>3, BufferedTime, ClockTypes
  <2>2. CASE onScreen
    <3>1. onScreen'
      BY <1>6, <2>2
    <3>2. TimeLeft' = m_segmentsInBuffer' * SegmentDuration + due'["playbackFinished"]
      BY <3>1 DEF TimeLeft
    <3>3. TimeLeft = m_segmentsInBuffer * SegmentDuration + due["playbackFinished"]
      BY <1>1, <2>2, TimeLeftIs
    <3> QED
      BY <1>7, <2>1, <3>2, <3>3, SegmentDurationAssumption
  <2>3. CASE ~onScreen
    <3>1. ~onScreen'
      BY <1>6, <2>3
    <3>2. TimeLeft' = m_segmentsInBuffer' * SegmentDuration + 0
      BY <3>1 DEF TimeLeft
    <3>3. TimeLeft = m_segmentsInBuffer * SegmentDuration
      BY <1>1, <2>3, TimeLeftIs
    <3> QED
      BY <2>1, <3>2, <3>3, SegmentDurationAssumption
  <2> QED
    BY <2>2, <2>3
<1>10. LevelNeverAhead'
  BY <1>1, <1>5, <1>9, ClockTypes, TimeLeftIs, SegmentDurationAssumption
     DEF TimedInv, Clock, LevelNeverAhead
<1>11. LevelExact'
  <2>1. prudent => bufferLevel = TimeLeft
    BY DEF TimedInv, Clock, LevelExact
  <2> QED
    BY <1>5, <1>9, <2>1 DEF LevelExact
<1>12. ScreenTimed'
  BY <1>4 DEF ScreenTimed
<1>13. Gapless'
  <2>1. prudent => onScreen
    BY <1>2 DEF TimedInv, Clock, Gapless
  <2>2. prudent' => onScreen'
    BY <1>6, <2>1
  <2> QED
    BY <2>2 DEF Gapless
<1>14. DelayWithin'
  <2>1. prudent' /\ decided' > decided => m_bDelay' <= 0 \/ m_bDelay' < bufferLevel'
    BY DEF DelayShorterThanBuffer
  <2> QED
    BY <1>4, <1>7, <2>1 DEF DelayWithin
<1>15. DelayEndsFirst'
  BY <1>3 DEF DelayEndsFirst
<1> QED
  BY <1>8, <1>10, <1>11, <1>12, <1>13, <1>14, <1>15 DEF Clock

\* What a playback tick does to the clock: the segment on screen is over, so the
\* buffer is all that is left, and the tick of the next segment is set.
LEMMA TickClock ==
  ASSUME TimedInv, TimedTimer("playbackFinished"), UNCHANGED prudent,
         NEW p \in {0, 1},
         pending' = [Timers("playbackFinished") EXCEPT !["playbackFinished"] = p]
  PROVE  /\ bufferLevel' = bufferLevel
         /\ bufferLevel <= m_segmentsInBuffer * SegmentDuration
         /\ prudent => bufferLevel = m_segmentsInBuffer * SegmentDuration
         /\ pending'["playbackFinished"] = p
         /\ pending'["irdFinished"] = pending["irdFinished"]
         /\ due'["playbackFinished"] = p * SegmentDuration
         /\ due'["irdFinished"] = due["irdFinished"]
         /\ onScreen' <=> m_currentPlaybackIndex' > m_currentPlaybackIndex
         /\ TimedTypeOK'
<1> USE TimerNames
<1> DEFINE Left == Timers("playbackFinished")
<1>1. /\ IInv /\ TimedTypeOK
      /\ TimerExpires("playbackFinished")
      /\ due["playbackFinished"] = 0
  BY DEF TimedInv, Clock, TimedTimer
<1>2. /\ Left \in [TimerEvents -> Nat]
      /\ Left["playbackFinished"] = 0
      /\ Left["irdFinished"] = pending["irdFinished"]
      /\ state \in {"downloadingPlaying", "playing"}
  BY <1>1, PlaybackTimerTaken
<1> HIDE DEF Left
<1>3. /\ pending'["playbackFinished"] = p
      /\ pending'["irdFinished"] = pending["irdFinished"]
  BY <1>2 DEF Left
<1>4. /\ bufferLevel <= TimeLeft
      /\ prudent => bufferLevel = TimeLeft
  BY <1>2 DEF TimedInv, Clock, LevelNeverAhead, LevelExact
<1>5. TimeLeft = m_segmentsInBuffer * SegmentDuration
  <2>1. m_segmentsInBuffer * SegmentDuration \in Nat
    BY <1>1, ClockTypes, BufferedTime
  <2> QED
    BY <1>1, <2>1, TimeLeftIs
<1>6. bufferLevel' = bufferLevel
  BY <1>1, ClockTypes DEF TimedTimer, Delivered, LevelAfter
<1>7. /\ due'["playbackFinished"] = p * SegmentDuration
      /\ due'["irdFinished"] = due["irdFinished"]
      /\ due' \in [TimerEvents -> Nat]
  <2>1. \A t \in TimerEvents : due'[t] = IF pending'[t] > Left[t] THEN Duration(t) ELSE due[t]
    BY DEF TimedTimer, Delivered, ScheduleDue, Left
  <2>2. due'["irdFinished"] = due["irdFinished"]
    BY <1>1, <1>2, <1>3, <2>1, ClockTypes
  <2>3. due'["playbackFinished"] = p * SegmentDuration
    BY <1>1, <1>2, <1>3, <2>1, SegmentDurationAssumption DEF Duration
  <2>4. due' = [t \in TimerEvents |-> due'[t]]
    BY DEF TimedTimer, Delivered, ScheduleDue
  <2>5. p * SegmentDuration \in Nat
    BY SegmentDurationAssumption
  <2> QED
    BY <1>1, <2>2, <2>3, <2>4, <2>5, ClockTypes DEF TimerEvents
<1>8. onScreen' = (m_currentPlaybackIndex' > m_currentPlaybackIndex
                    \/ (onScreen /\ "playbackFinished" # "playbackFinished"))
  BY Zenon DEF TimedTimer, Delivered, Screen
<1>9. onScreen' <=> m_currentPlaybackIndex' > m_currentPlaybackIndex
  BY <1>8
<1>10. TimedTypeOK'
  <2>1. (m_currentPlaybackIndex' > m_currentPlaybackIndex
          \/ (onScreen /\ "playbackFinished" # "playbackFinished")) \in BOOLEAN
    OBVIOUS
  <2>2. onScreen' \in BOOLEAN
    BY <1>8, <2>1, Zenon
  <2>3. prudent' \in BOOLEAN
    BY <1>1 DEF TimedTypeOK
  <2>4. p * SegmentDuration <= SegmentDuration
    BY SegmentDurationAssumption
  <2> QED
    BY <1>1, <1>6, <1>7, <2>2, <2>3, <2>4 DEF TimedTypeOK
<1> QED
  BY <1>3, <1>4, <1>5, <1>6, <1>7, <1>9, <1>10

\* A tick that starts the next segment: it takes its time from the buffer.
LEMMA NextSegmentPlays ==
  ASSUME TimedInv, TimedTimer("playbackFinished"), UNCHANGED prudent,
         pending' = [Timers("playbackFinished") EXCEPT !["playbackFinished"] = 1],
         m_segmentsInBuffer > 0,
         m_segmentsInBuffer' = m_segmentsInBuffer - 1,
         m_currentPlaybackIndex' = m_currentPlaybackIndex + 1,
         UNCHANGED state
  PROVE  Clock'
<1>1. IInv /\ TimedTypeOK /\ TimerExpires("playbackFinished")
  BY DEF TimedInv, Clock, TimedTimer
<1>2. state # "terminal"
  BY <1>1, PlaybackTimerTaken
<1>3. /\ bufferLevel' = bufferLevel
      /\ bufferLevel <= m_segmentsInBuffer * SegmentDuration
      /\ prudent => bufferLevel = m_segmentsInBuffer * SegmentDuration
      /\ pending'["playbackFinished"] = 1
      /\ pending'["irdFinished"] = pending["irdFinished"]
      /\ due'["playbackFinished"] = 1 * SegmentDuration
      /\ due'["irdFinished"] = due["irdFinished"]
      /\ onScreen' <=> m_currentPlaybackIndex' > m_currentPlaybackIndex
      /\ TimedTypeOK'
  BY TickClock
<1>4. onScreen'
  BY <1>1, <1>3, ClockTypes
<1>5. TimeLeft' = m_segmentsInBuffer * SegmentDuration
  <2>1. /\ m_segmentsInBuffer' * SegmentDuration =
             m_segmentsInBuffer * SegmentDuration - SegmentDuration
        /\ m_segmentsInBuffer * SegmentDuration \in Nat
    BY <1>1, ClockTypes, BufferedTime
  <2> QED
    BY <1>3, <1>4, <2>1, SegmentDurationAssumption DEF TimeLeft
<1>6. LevelNeverAhead' /\ LevelExact'
  BY <1>3, <1>5 DEF LevelNeverAhead, LevelExact
<1>7. ScreenTimed' /\ Gapless'
  BY <1>3, <1>4 DEF ScreenTimed, Gapless
<1>8. DelayWithin' /\ DelayEndsFirst'
  BY <1>2, <1>3 DEF TimedInv, Clock, DelayWithin, DelayEndsFirst
<1> QED
  BY <1>3, <1>6, <1>7, <1>8 DEF Clock

\* A tick that finds the buffer empty and does not end the session: nothing is left
\* to play and the level says so. A prudent algorithm lets that happen only while a
\* download is awaited, or at the end.
LEMMA NothingPlays ==
  ASSUME TimedInv, TimedTimer("playbackFinished"), UNCHANGED prudent,
         NEW p \in {0, 1},
         pending' = [Timers("playbackFinished") EXCEPT !["playbackFinished"] = p],
         m_segmentsInBuffer = 0,
         UNCHANGED <<m_segmentsInBuffer, m_currentPlaybackIndex>>,
         \/ state' = "downloading"
         \/ /\ state = "playing" /\ state' = "playing"
            /\ m_currentPlaybackIndex # LastSegmentIndex
  PROVE  Clock'
<1>1. IInv /\ TimedTypeOK /\ TimerExpires("playbackFinished")
  BY DEF TimedInv, Clock, TimedTimer
<1>2. state # "terminal" /\ state' # "terminal"
  BY <1>1, PlaybackTimerTaken
<1>3. /\ bufferLevel' = bufferLevel
      /\ bufferLevel <= m_segmentsInBuffer * SegmentDuration
      /\ pending'["irdFinished"] = pending["irdFinished"]
      /\ due'["irdFinished"] = due["irdFinished"]
      /\ onScreen' <=> m_currentPlaybackIndex' > m_currentPlaybackIndex
      /\ TimedTypeOK'
  BY TickClock
<1>4. ~onScreen'
  BY <1>1, <1>3, ClockTypes
<1>5. bufferLevel = 0
  BY <1>1, <1>3, ClockTypes, BufferedTime
<1>6. TimeLeft' = 0
  BY <1>4, BufferedTime DEF TimeLeft
<1>7. LevelNeverAhead' /\ LevelExact'
  BY <1>3, <1>5, <1>6 DEF LevelNeverAhead, LevelExact
<1>8. ScreenTimed' /\ DelayEndsFirst'
  BY <1>2, <1>4 DEF ScreenTimed, DelayEndsFirst
<1>9. DelayWithin'
  BY <1>2, <1>3 DEF TimedInv, Clock, DelayWithin
<1>10. Gapless'
  <2> SUFFICES ASSUME prudent', state' = "playing",
                      m_currentPlaybackIndex' <= LastSegmentIndex
               PROVE  FALSE
    BY <1>2 DEF Gapless
  <2>1. state = "playing" /\ prudent
    OBVIOUS
  <2>2. CASE pending["irdFinished"] > 0
    <3>1. due["irdFinished"] < bufferLevel
      BY <1>2, <2>1, <2>2 DEF TimedInv, Clock, DelayWithin
    <3> QED
      BY <1>1, <1>5, <3>1, ClockTypes
  <2>3. CASE ~(pending["irdFinished"] > 0)
    <3>1. m_currentPlaybackIndex # LastSegmentIndex
      OBVIOUS
    <3> QED
      BY <1>1, <2>1, <2>3, <3>1, ClientStates, ClockTypes, LastSegmentAssumption
  <2> QED
    BY <2>2, <2>3
<1> QED
  BY <1>3, <1>7, <1>8, <1>9, <1>10 DEF Clock

LEMMA PlaybackTickKeeps ==
  ASSUME TimedInv, TimedTimer("playbackFinished"), UNCHANGED prudent
  PROVE  Clock'
<1> USE TimerNames
<1> DEFINE Left == Timers("playbackFinished")
<1>1. /\ IInv /\ TimedTypeOK
      /\ TimerExpires("playbackFinished")
      /\ due["playbackFinished"] = 0
  BY DEF TimedInv, Clock, TimedTimer
<1>2. /\ Left \in [TimerEvents -> Nat]
      /\ Left["playbackFinished"] = 0
      /\ Left["irdFinished"] = pending["irdFinished"]
      /\ Buffered("playbackFinished") = m_segmentsInBuffer
      /\ state \in {"downloadingPlaying", "playing"}
      /\ \/ PlayOrStall("playbackFinished", toArrive)
         \/ PlayOn("playbackFinished", toArrive)
         \/ Terminate("playbackFinished", toArrive)
         \/ Ignore("playbackFinished", toArrive)
  BY <1>1, PlaybackTimerTaken, Dispatch
<1>3. /\ Left = [Left EXCEPT !["playbackFinished"] = 0]
      /\ [Left EXCEPT !["playbackFinished"] = @ + 1] =
           [Left EXCEPT !["playbackFinished"] = 1]
  BY <1>2
<1>4. m_segmentsInBuffer \in Nat /\ m_currentPlaybackIndex \in Nat
  BY <1>1, ClockTypes
<1>5. CASE PlayOrStall("playbackFinished", toArrive)
  <2>1. PlaybackHandle(m_segmentsInBuffer) /\ state = "downloadingPlaying"
    BY <1>2, <1>5 DEF PlayOrStall
  <2>2. CASE m_segmentsInBuffer > 0
    <3>1. state' = state /\ pending' = [Left EXCEPT !["playbackFinished"] = @ + 1]
      BY <1>2, <1>5, <2>2 DEF PlayOrStall, Schedule
    <3> QED
      BY <1>3, <2>1, <2>2, <3>1, NextSegmentPlays DEF PlaybackHandle
  <2>3. CASE m_segmentsInBuffer = 0
    <3>1. state' = "downloading" /\ pending' = Left
      BY <1>2, <1>5, <2>3 DEF PlayOrStall
    <3> QED
      BY <1>3, <2>1, <2>3, <3>1, NothingPlays DEF PlaybackHandle
  <2> QED
    BY <1>4, <2>2, <2>3
<1>6. CASE PlayOn("playbackFinished", toArrive)
  <2>1. /\ PlaybackHandle(m_segmentsInBuffer)
        /\ state = "playing" /\ state' = "playing"
        /\ m_currentPlaybackIndex < LastSegmentIndex
        /\ pending' = [Left EXCEPT !["playbackFinished"] = 1]
    BY <1>2, <1>3, <1>6 DEF PlayOn, Schedule
  <2>2. CASE m_segmentsInBuffer > 0
    BY <2>1, <2>2, NextSegmentPlays DEF PlaybackHandle
  <2>3. CASE m_segmentsInBuffer = 0
    <3>1. m_currentPlaybackIndex # LastSegmentIndex
      BY <1>4, <2>1, LastSegmentAssumption
    <3>2. UNCHANGED <<m_segmentsInBuffer, m_currentPlaybackIndex>>
      BY <2>1, <2>3 DEF PlaybackHandle
    <3> QED
      BY <2>1, <2>3, <3>1, <3>2, NothingPlays
  <2> QED
    BY <1>4, <2>2, <2>3
<1>7. CASE Terminate("playbackFinished", toArrive)
  <2>1. /\ state = "playing" /\ state' = "terminal"
        /\ m_currentPlaybackIndex = LastSegmentIndex
        /\ pending' = [Left EXCEPT !["playbackFinished"] = 0]
    BY <1>3, <1>7 DEF Terminate
  <2>2. /\ TimedTypeOK'
        /\ pending'["irdFinished"] = pending["irdFinished"]
        /\ prudent => bufferLevel = m_segmentsInBuffer * SegmentDuration
    BY <2>1, TickClock
  <2>3. DelayEndsFirst'
    <3> SUFFICES ASSUME prudent, pending["irdFinished"] # 0 PROVE FALSE
      BY <2>2 DEF DelayEndsFirst
    <3>1. pending["irdFinished"] > 0
      BY <1>1, ClockTypes
    <3>2. m_segmentsInBuffer = 0
      BY <1>1, <1>4, <2>1, <3>1, ClientStates, LastSegmentAssumption
    <3>3. due["irdFinished"] < bufferLevel
      BY <2>1, <3>1 DEF TimedInv, Clock, DelayWithin
    <3>4. bufferLevel = 0
      BY <2>2, <3>2, BufferedTime
    <3> QED
      BY <1>1, <3>3, <3>4, ClockTypes
  <2>4. LevelNeverAhead' /\ LevelExact' /\ ScreenTimed' /\ Gapless' /\ DelayWithin'
    BY <2>1 DEF LevelNeverAhead, LevelExact, ScreenTimed, Gapless, DelayWithin
  <2> QED
    BY <2>2, <2>3, <2>4 DEF Clock
<1>8. CASE Ignore("playbackFinished", toArrive)
  <2>1. /\ state = "playing" /\ state' = "playing"
        /\ m_currentPlaybackIndex > LastSegmentIndex
        /\ pending' = [Left EXCEPT !["playbackFinished"] = 0]
        /\ UNCHANGED <<m_segmentsInBuffer, m_currentPlaybackIndex>>
    BY <1>2, <1>3, <1>8 DEF Ignore, NoPlayback
  <2>2. m_segmentsInBuffer = 0 /\ m_currentPlaybackIndex # LastSegmentIndex
    BY <1>1, <1>4, <2>1, ClientStates, LastSegmentAssumption
  <2> QED
    BY <2>1, <2>2, NothingPlays
<1> QED
  BY <1>2, <1>5, <1>6, <1>7, <1>8

\* The end of a delay moves neither the buffer nor the screen.
LEMMA DelayEndKeeps ==
  ASSUME TimedInv, TimedTimer("irdFinished"), UNCHANGED prudent
  PROVE  Clock'
<1> USE TimerNames
<1>1. /\ IInv /\ TimedTypeOK
      /\ TimerExpires("irdFinished")
  BY DEF TimedInv, Clock, TimedTimer
<1>2. /\ Timers("irdFinished") \in [TimerEvents -> Nat]
      /\ Timers("irdFinished")["irdFinished"] = 0
      /\ Timers("irdFinished")["playbackFinished"] = pending["playbackFinished"]
      /\ Buffered("irdFinished") = m_segmentsInBuffer
      /\ state \in {"playing", "terminal"}
      /\ pending["irdFinished"] > 0
      /\ Controller("irdFinished", toArrive)
  <2>1. pending["irdFinished"] > 0 /\ Controller("irdFinished", toArrive)
    BY <1>1 DEF TimerExpires
  <2>2. pending["irdFinished"] = 1 /\ state \in {"playing", "terminal"}
    BY <1>1, <2>1 DEF IInv, OneDelay
  <2>3. Buffered("irdFinished") = m_segmentsInBuffer
    BY <1>1, ClockTypes DEF Buffered
  <2>4. TypeOK
    BY <1>1 DEF IInv
  <2>5. /\ Timers("irdFinished") \in [TimerEvents -> Nat]
        /\ Timers("irdFinished")["irdFinished"] = pending["irdFinished"] - 1
        /\ Timers("irdFinished")["playbackFinished"] = pending["playbackFinished"]
    BY <2>1, <2>4, TimersAfter
  <2> QED
    BY <2>1, <2>2, <2>3, <2>5
<1>3. /\ UNCHANGED <<m_segmentsInBuffer, m_currentPlaybackIndex>>
      /\ pending' = Timers("irdFinished")
      /\ \/ state = "playing" /\ state' = "downloadingPlaying"
         \/ state = "terminal" /\ state' = "terminal"
  <2>1. CASE state = "playing"
    BY <1>2, <2>1, Dispatch DEF DelayedDownload, NoPlayback
  <2>2. CASE state = "terminal"
    BY <1>2, <2>2, Dispatch DEF Ignore, NoPlayback
  <2> QED
    BY <1>2, <2>1, <2>2
<1>4. /\ pending'["irdFinished"] = 0
      /\ pending'["playbackFinished"] = pending["playbackFinished"]
  BY <1>2, <1>3
<1>5. bufferLevel' = bufferLevel
  BY <1>1, ClockTypes DEF TimedTimer, Delivered, LevelAfter
<1>6. due' = due
  <2>1. \A t \in TimerEvents : ~(pending'[t] > Timers("irdFinished")[t])
    BY <1>2, <1>3
  <2>2. due' = [t \in TimerEvents |-> due[t]]
    BY <2>1 DEF TimedTimer, Delivered, ScheduleDue
  <2> QED
    BY <1>1, <2>2 DEF TimedTypeOK
<1>7. onScreen' = onScreen
  <2>1. ~(m_currentPlaybackIndex' > m_currentPlaybackIndex)
    BY <1>1, <1>3, ClockTypes
  <2>2. onScreen' = (m_currentPlaybackIndex' > m_currentPlaybackIndex
                      \/ (onScreen /\ "irdFinished" # "playbackFinished"))
    BY Zenon DEF TimedTimer, Delivered, Screen
  <2>3. "irdFinished" # "playbackFinished"
    OBVIOUS
  <2>4. onScreen \in BOOLEAN
    BY <1>1 DEF TimedTypeOK
  <2>5. CASE onScreen = TRUE
    BY <2>1, <2>2, <2>3, <2>5, Zenon
  <2>6. CASE onScreen = FALSE
    BY <2>1, <2>2, <2>3, <2>6, Zenon
  <2> QED
    BY <2>4, <2>5, <2>6, Zenon
<1>8. TimedTypeOK'
  <2>1. onScreen' \in BOOLEAN /\ prudent' \in BOOLEAN
    BY <1>1, <1>7 DEF TimedTypeOK
  <2> QED
    BY <1>1, <1>5, <1>6, <2>1 DEF TimedTypeOK
<1>9. TimeLeft' = TimeLeft
  BY <1>3, <1>6, <1>7 DEF TimeLeft
<1>10. LevelNeverAhead' /\ LevelExact'
  BY <1>3, <1>5, <1>9 DEF TimedInv, Clock, LevelNeverAhead, LevelExact
<1>11. ScreenTimed'
  BY <1>3, <1>4, <1>7 DEF TimedInv, Clock, ScreenTimed
<1>12. Gapless'
  <2> SUFFICES ASSUME prudent, m_currentPlaybackIndex <= LastSegmentIndex,
                      state = "playing"
               PROVE  onScreen
    BY <1>3, <1>7 DEF Gapless
  <2> QED
    BY DEF TimedInv, Clock, Gapless
<1>13. DelayWithin' /\ DelayEndsFirst'
  BY <1>4 DEF DelayWithin, DelayEndsFirst
<1> QED
  BY <1>8, <1>10, <1>11, <1>12, <1>13 DEF Clock

-----------------------------------------------------------------------------

LEMMA TimedStep == TimedInv /\ [TimedNext]_timedVars => TimedInv'
<1> SUFFICES ASSUME TimedInv, [TimedNext]_timedVars PROVE TimedInv'
  OBVIOUS
<1>1. CASE UNCHANGED timedVars
  <2>1. IInv'
    BY <1>1, StutterKeeps DEF TimedInv, timedVars
  <2>2. Clock'
    <3>1. UNCHANGED <<due, bufferLevel, pending, m_segmentsInBuffer,
                      m_currentPlaybackIndex, state>>
      BY <1>1 DEF timedVars, vars, clockVars, playbackVars
    <3>2. UNCHANGED onScreen /\ UNCHANGED prudent
      BY <1>1 DEF timedVars, clockVars
    <3> QED
      BY <3>1, <3>2, UntouchedKeeps
  <2> QED
    BY <2>1, <2>2 DEF TimedInv
<1>2. CASE TimedNext
  <2>0. ~aborted /\ UNCHANGED prudent /\ (prudent => DelayShorterThanBuffer)
    BY <1>2 DEF TimedNext
  <2>1. CASE Elapse
    <3>1. IInv'
      BY <2>1, StutterKeeps DEF TimedInv, Elapse
    <3> QED
      BY <2>0, <2>1, <3>1, ElapseKeeps DEF TimedInv
  <2>2. CASE (StartApplication \/ ConnectionSucceeded \/ StopApplication)
               /\ UNCHANGED clockVars
    <3>1. IInv'
      BY <2>2, StartKeeps, ConnectKeeps, StopKeeps DEF TimedInv
    <3>2. UNCHANGED <<due, bufferLevel>> /\ UNCHANGED onScreen
      BY <2>2 DEF clockVars
    <3>3. CASE ConnectionSucceeded
      <4>1. state = "initial" /\ Controller("init", toArrive) /\ TypeOK
        BY <3>3 DEF TimedInv, IInv, StatePhase, ConnectionSucceeded
      <4>2. ControllerInitial("init", toArrive)
        BY <4>1, Dispatch
      <4>3. Timers("init") = pending /\ Buffered("init") = m_segmentsInBuffer
        BY <4>1, TimersKept DEF TimerEvents, Buffered, TypeOK
      <4>4. /\ state' = "downloading"
            /\ UNCHANGED <<pending, m_segmentsInBuffer, m_currentPlaybackIndex>>
        BY <4>2, <4>3 DEF ControllerInitial, NoPlayback
      <4> QED
        BY <2>0, <3>1, <3>2, <4>1, <4>4, UntouchedKeeps DEF TimedInv
    <3>4. CASE StartApplication \/ StopApplication
      <4>1. UNCHANGED <<state, pending, m_segmentsInBuffer, m_currentPlaybackIndex>>
        BY <3>4 DEF StartApplication, StopApplication, playbackVars
      <4> QED
        BY <2>0, <3>1, <3>2, <4>1, UntouchedKeeps DEF TimedInv
    <3> QED
      BY <2>2, <3>3, <3>4
  <2>3. ASSUME NEW n \in 1 .. toArrive, TimedRead(n) PROVE TimedInv'
    <3>1. IInv /\ HandleRead(n) /\ received \in Nat
      BY <2>3 DEF TimedInv, IInv, TypeOK, TimedRead
    <3>2. IInv'
      BY <3>1, ReadKeeps
    <3>3. CASE m_bytesReceived + n = SegmentSize[m_currentRepIndex][m_segmentCounter]
      <4>1. received' = received + 1 /\ state \in {"downloading", "downloadingPlaying"}
        BY <3>1, <3>3, SegmentComplete DEF Downloading
      <4>2. Delivered("downloadFinished")
        BY <2>3, <3>1, <4>1 DEF TimedRead
      <4> QED
        BY <2>0, <3>1, <3>2, <3>3, <4>1, <4>2, FirstSegmentKeeps, LaterSegmentKeeps
           DEF TimedInv
    <3>4. CASE m_bytesReceived + n # SegmentSize[m_currentRepIndex][m_segmentCounter]
      <4>1. UNCHANGED <<state, pending, received, m_segmentsInBuffer,
                        m_currentPlaybackIndex>>
        BY <3>1, <3>4 DEF HandleRead, playbackVars
      <4>2. UNCHANGED clockVars
        BY <2>3, <3>1, <4>1 DEF TimedRead
      <4>3. UNCHANGED <<due, bufferLevel>> /\ UNCHANGED onScreen
        BY <4>2 DEF clockVars
      <4> QED
        BY <2>0, <3>2, <4>1, <4>3, UntouchedKeeps DEF TimedInv
    <3> QED
      BY <3>3, <3>4
  <2>4. CASE TimedTimer("playbackFinished")
    <3>1. Next
      BY <2>0, <2>4 DEF TimedTimer, Next, TimerEvents
    <3> QED
      BY <2>0, <2>4, <3>1, NextKeeps, PlaybackTickKeeps DEF TimedInv
  <2>5. CASE TimedTimer("irdFinished")
    <3>1. Next
      BY <2>0, <2>5 DEF TimedTimer, Next, TimerEvents
    <3> QED
      BY <2>0, <2>5, <3>1, NextKeeps, DelayEndKeeps DEF TimedInv
  <2> QED
    BY <1>2, <2>1, <2>2, <2>3, <2>4, <2>5 DEF TimedNext, TimerEvents
<1> QED
  BY <1>1, <1>2

\* The invariant that carries the properties of the clock.
THEOREM TimedInvariance == TimedSpec => []TimedInv
<1> QED
  BY TimedBegins, TimedStep, PTL DEF TimedSpec

\* The clock variables keep their types, whatever delays are replied.
THEOREM TimedTypes == TimedSpec => []TimedTypeOK
<1>1. TimedInv => TimedTypeOK
  BY DEF TimedInv, Clock
<1> QED
  BY <1>1, TimedInvariance, PTL

\* The level the algorithms decide on is never more than what is left to play.
THEOREM LevelIsNeverAhead == TimedSpec => []LevelNeverAhead
<1>1. TimedInv => LevelNeverAhead
  BY DEF TimedInv, Clock
<1> QED
  BY <1>1, TimedInvariance, PTL

\* With delays shorter than the buffer it is exactly what is left to play.
THEOREM LevelIsExact == TimedSpec => []LevelExact
<1>1. TimedInv => LevelExact
  BY DEF TimedInv, Clock
<1> QED
  BY <1>1, TimedInvariance, PTL

\* With such delays playback only ever stops for a download.
THEOREM PlaybackIsGapless == TimedSpec => []Gapless
<1>1. TimedInv => Gapless
  BY DEF TimedInv, Clock
<1> QED
  BY <1>1, TimedInvariance, PTL

\* With such delays no session ends with a delay still running.
THEOREM DelaysEndFirst == TimedSpec => []DelayEndsFirst
<1>1. TimedInv => DelayEndsFirst
  BY DEF TimedInv, Clock
<1> QED
  BY <1>1, TimedInvariance, PTL

-----------------------------------------------------------------------------
(* The underrun mark and the screen.                                       *)

\* A step that plays nothing and is no tick leaves both as they are.
LEMMA MarkUntouched ==
  ASSUME MarkIsGap, UNCHANGED <<m_currentPlaybackIndex, m_bufferUnderrun>>, UNCHANGED onScreen
  PROVE  MarkIsGap'
BY Zenon DEF MarkIsGap

\* A segment that starts to play clears the mark and is on the screen.
LEMMA MarkCleared ==
  ASSUME onScreen', ~m_bufferUnderrun'
  PROVE  MarkIsGap'
BY DEF MarkIsGap

\* What PlaybackHandle does to the mark.
LEMMA HandleMarks ==
  ASSUME IInv, NEW segments \in Nat, PlaybackHandle(segments)
  PROVE  /\ segments > 0 => /\ m_currentPlaybackIndex' > m_currentPlaybackIndex
                            /\ ~m_bufferUnderrun'
         /\ segments = 0 => /\ m_currentPlaybackIndex' = m_currentPlaybackIndex
                            /\ m_currentPlaybackIndex < LastSegmentIndex => m_bufferUnderrun'
<1>1. m_currentPlaybackIndex \in Nat
  BY DEF IInv, TypeOK
<1>2. CASE segments > 0
  BY <1>1, <1>2 DEF PlaybackHandle
<1>3. CASE segments = 0
  <2>1. /\ m_currentPlaybackIndex' = m_currentPlaybackIndex
        /\ m_bufferUnderrun' = (m_bufferUnderrun \/ m_currentPlaybackIndex < LastSegmentIndex)
    BY <1>3 DEF PlaybackHandle
  <2>2. m_currentPlaybackIndex < LastSegmentIndex => m_bufferUnderrun'
    BY <2>1, Zenon
  <2> QED
    BY <1>3, <2>1, <2>2
<1> QED
  BY <1>2, <1>3

\* A segment that has arrived: it starts to play at once, or nothing changes.
LEMMA ReadMarks ==
  ASSUME TimedInv, MarkIsGap, NEW n \in 1 .. toArrive, TimedRead(n)
  PROVE  MarkIsGap'
<1>1. IInv /\ HandleRead(n) /\ received \in Nat /\ m_currentPlaybackIndex \in Nat
      /\ onScreen \in BOOLEAN
  BY DEF TimedInv, IInv, TypeOK, TimedRead, Clock, TimedTypeOK
<1>2. CASE m_bytesReceived + n = SegmentSize[m_currentRepIndex][m_segmentCounter]
  <2>1. received' = received + 1 /\ state \in {"downloading", "downloadingPlaying"}
    BY <1>1, <1>2, SegmentComplete DEF Downloading
  <2>2. Screen("downloadFinished")
    BY <1>1, <2>1 DEF TimedRead, Delivered
  <2>3. onScreen' = (m_currentPlaybackIndex' > m_currentPlaybackIndex
                      \/ (onScreen /\ "downloadFinished" # "playbackFinished"))
    BY <2>2, Zenon DEF Screen
  <2>4. CASE state = "downloading"
    <3>1. /\ ControllerDownloading("downloadFinished", 0)
          /\ Buffered("downloadFinished") = 1
      BY <1>1, <1>2, <2>4, SegmentComplete, Dispatch, ClientStates
    <3>2. m_currentPlaybackIndex' > m_currentPlaybackIndex /\ ~m_bufferUnderrun'
      <4>1. PlaybackHandle(1)
        BY <3>1 DEF ControllerDownloading
      <4> QED
        BY <1>1, <4>1, HandleMarks
    <3>3. onScreen'
      BY <2>3, <3>2, Zenon
    <3> QED
      BY <3>2, <3>3, MarkCleared
  <2>5. CASE state = "downloadingPlaying"
    <3>1. NextDownload("downloadFinished", 0)
      BY <1>1, <1>2, <2>5, SegmentComplete, Dispatch
    <3>2. UNCHANGED <<m_currentPlaybackIndex, m_bufferUnderrun>>
      BY <3>1 DEF NextDownload, NoPlayback
    <3>3. ~(m_currentPlaybackIndex' > m_currentPlaybackIndex)
      BY <1>1, <3>2
    <3>4. onScreen' = onScreen
      <4>1. "downloadFinished" # "playbackFinished"
        OBVIOUS
      <4>2. CASE onScreen = TRUE
        BY <2>3, <3>3, <4>1, <4>2, Zenon
      <4>3. CASE onScreen = FALSE
        BY <2>3, <3>3, <4>1, <4>3, Zenon
      <4> QED
        BY <1>1, <4>2, <4>3, Zenon
    <3> QED
      BY <3>2, <3>4, MarkUntouched
  <2> QED
    BY <2>1, <2>4, <2>5
<1>3. CASE m_bytesReceived + n # SegmentSize[m_currentRepIndex][m_segmentCounter]
  <2>1. UNCHANGED <<received, m_currentPlaybackIndex, m_bufferUnderrun>>
    BY <1>1, <1>3 DEF HandleRead, playbackVars
  <2>2. UNCHANGED onScreen
    BY <1>1, <2>1 DEF TimedRead, clockVars
  <2> QED
    BY <2>1, <2>2, MarkUntouched
<1> QED
  BY <1>2, <1>3

\* A tick: the next segment plays, or the gap begins, or goes on, and is marked.
LEMMA TickMarks ==
  ASSUME TimedInv, MarkIsGap, TimedTimer("playbackFinished")
  PROVE  MarkIsGap'
<1>1. /\ IInv /\ TimerExpires("playbackFinished")
      /\ m_currentPlaybackIndex \in Nat /\ m_segmentsInBuffer \in Nat
  BY DEF TimedInv, IInv, TypeOK, TimedTimer
<1>2. /\ Buffered("playbackFinished") = m_segmentsInBuffer
      /\ \/ PlayOrStall("playbackFinished", toArrive)
         \/ PlayOn("playbackFinished", toArrive)
         \/ Terminate("playbackFinished", toArrive)
         \/ Ignore("playbackFinished", toArrive)
  BY <1>1, PlaybackTimerTaken, Dispatch
<1>3. onScreen' = (m_currentPlaybackIndex' > m_currentPlaybackIndex
                    \/ (onScreen /\ "playbackFinished" # "playbackFinished"))
  BY Zenon DEF TimedTimer, Delivered, Screen
<1>4. CASE Ignore("playbackFinished", toArrive)
  <2>1. m_currentPlaybackIndex' > LastSegmentIndex
    BY <1>1, <1>4, PlaybackTimerTaken DEF Ignore, NoPlayback
  <2>2. m_currentPlaybackIndex' \notin 1 .. LastSegmentIndex - 1
    BY <2>1, LastSegmentAssumption
  <2> QED
    BY <2>2, Zenon DEF MarkIsGap
<1>5. CASE ~Ignore("playbackFinished", toArrive)
  <2>1. PlaybackHandle(m_segmentsInBuffer)
    BY <1>2, <1>5 DEF PlayOrStall, PlayOn, Terminate
  <2>2. CASE m_segmentsInBuffer > 0
    <3>1. m_currentPlaybackIndex' > m_currentPlaybackIndex /\ ~m_bufferUnderrun'
      BY <1>1, <2>1, <2>2, HandleMarks
    <3>2. onScreen'
      BY <1>3, <3>1, Zenon
    <3> QED
      BY <3>1, <3>2, MarkCleared
  <2>3. CASE m_segmentsInBuffer = 0
    <3>1. /\ m_currentPlaybackIndex' = m_currentPlaybackIndex
          /\ m_currentPlaybackIndex < LastSegmentIndex => m_bufferUnderrun'
      BY <1>1, <2>1, <2>3, HandleMarks
    <3>9. ~(m_currentPlaybackIndex' > m_currentPlaybackIndex)
      BY <1>1, <3>1
    <3>2. ~onScreen'
      BY <1>3, <3>9, Zenon
    <3>3. m_currentPlaybackIndex' \in 1 .. LastSegmentIndex - 1 => m_bufferUnderrun'
      BY <1>1, <3>1, LastSegmentAssumption
    <3> QED
      BY <3>2, <3>3, Zenon DEF MarkIsGap
  <2> QED
    BY <1>1, <2>2, <2>3
<1> QED
  BY <1>4, <1>5

\* The end of a delay plays nothing.
LEMMA DelayMarks ==
  ASSUME TimedInv, MarkIsGap, TimedTimer("irdFinished")
  PROVE  MarkIsGap'
<1>1. /\ IInv /\ TypeOK /\ TimerExpires("irdFinished")
      /\ m_currentPlaybackIndex \in Nat /\ onScreen \in BOOLEAN
  BY DEF TimedInv, IInv, TypeOK, TimedTimer, Clock, TimedTypeOK
<1>2. Controller("irdFinished", toArrive) /\ state \in {"playing", "terminal"}
  BY <1>1 DEF TimerExpires, IInv, OneDelay
<1>3. UNCHANGED <<m_currentPlaybackIndex, m_bufferUnderrun>>
  <2>1. CASE state = "playing"
    BY <1>2, <2>1, Dispatch DEF DelayedDownload, NoPlayback
  <2>2. CASE state = "terminal"
    BY <1>2, <2>2, Dispatch DEF Ignore, NoPlayback
  <2> QED
    BY <1>2, <2>1, <2>2
<1>4. onScreen' = onScreen
  <2>1. ~(m_currentPlaybackIndex' > m_currentPlaybackIndex)
    BY <1>1, <1>3
  <2>2. onScreen' = (m_currentPlaybackIndex' > m_currentPlaybackIndex
                      \/ (onScreen /\ "irdFinished" # "playbackFinished"))
    BY Zenon DEF TimedTimer, Delivered, Screen
  <2>3. "irdFinished" # "playbackFinished"
    OBVIOUS
  <2>4. CASE onScreen = TRUE
    BY <2>1, <2>2, <2>3, <2>4, Zenon
  <2>5. CASE onScreen = FALSE
    BY <2>1, <2>2, <2>3, <2>5, Zenon
  <2> QED
    BY <1>1, <2>4, <2>5, Zenon
<1> QED
  BY <1>3, <1>4, MarkUntouched

LEMMA MarkStep == TimedInv /\ MarkIsGap /\ [TimedNext]_timedVars => MarkIsGap'
<1> SUFFICES ASSUME TimedInv, MarkIsGap, [TimedNext]_timedVars PROVE MarkIsGap'
  OBVIOUS
<1>1. CASE UNCHANGED timedVars
  <2>1. UNCHANGED <<m_currentPlaybackIndex, m_bufferUnderrun>> /\ UNCHANGED onScreen
    BY <1>1 DEF timedVars, vars, clockVars, playbackVars
  <2> QED
    BY <2>1, MarkUntouched
<1>2. CASE Elapse
  <2>1. UNCHANGED <<m_currentPlaybackIndex, m_bufferUnderrun>> /\ UNCHANGED onScreen
    BY <1>2 DEF Elapse, vars, playbackVars
  <2> QED
    BY <2>1, MarkUntouched
<1>3. CASE (StartApplication \/ ConnectionSucceeded \/ StopApplication)
             /\ UNCHANGED clockVars
  <2>1. UNCHANGED onScreen
    BY <1>3 DEF clockVars
  <2>2. UNCHANGED <<m_currentPlaybackIndex, m_bufferUnderrun>>
    <3>1. CASE ConnectionSucceeded
      <4>1. state = "initial" /\ Controller("init", toArrive) /\ TypeOK
        BY <3>1 DEF TimedInv, IInv, StatePhase, ConnectionSucceeded
      <4> QED
        BY <4>1, Dispatch DEF ControllerInitial, NoPlayback
    <3>2. CASE StartApplication \/ StopApplication
      BY <3>2 DEF StartApplication, StopApplication, playbackVars
    <3> QED
      BY <1>3, <3>1, <3>2
  <2> QED
    BY <2>1, <2>2, MarkUntouched
<1> QED
  BY <1>1, <1>2, <1>3, ReadMarks, TickMarks, DelayMarks DEF TimedNext, TimerEvents

\* MarkIsGap: between the first segment and the last the mark is the gap.
THEOREM UnderrunMarksGap == TimedSpec => []MarkIsGap
<1>1. TimedInit => MarkIsGap
  BY DEF TimedInit, Init, MarkIsGap
<1> QED
  BY <1>1, MarkStep, TimedInvariance, PTL DEF TimedSpec

-----------------------------------------------------------------------------
\* With the clock taken away, a step of the timed client is one of the client.
LEMMA TimedStepIsClients == [TimedNext]_timedVars => [Next]_vars
<1> SUFFICES ASSUME TimedNext PROVE [Next]_vars
  BY DEF timedVars
<1>1. CASE Elapse
  BY <1>1 DEF Elapse
<1>2. CASE StartApplication \/ ConnectionSucceeded \/ StopApplication
  BY <1>2 DEF TimedNext, Next
<1>3. ASSUME NEW n \in 1 .. toArrive, TimedRead(n) PROVE Next
  BY <1>3 DEF TimedRead, TimedNext, Next
<1>4. ASSUME NEW ev \in TimerEvents, TimedTimer(ev) PROVE Next
  BY <1>4 DEF TimedTimer, TimedNext, Next
<1> QED
  BY <1>1, <1>2, <1>3, <1>4 DEF TimedNext

\* The clock only takes behaviours away: when a timer may run and how long it waits
\* never lets the client do what TcpStreamClient does not.
THEOREM TimedRefinesClient == TimedSpec => Spec
<1>1. TimedInit => Init
  BY DEF TimedInit
<1> QED
  BY <1>1, TimedStepIsClients, PTL DEF TimedSpec, Spec

\* ImplementsSession: the session of the timed client is one the viewer expects.
THEOREM TimedImplementsSession == TimedSpec => ImplementsSession
  BY TimedRefinesClient, Refinement

=============================================================================
