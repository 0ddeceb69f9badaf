----------------------- MODULE TcpStreamClientTimed ------------------------
(***************************************************************************)
(* TcpStreamClient with the simulator's clock: a timer runs when its time  *)
(* has come, never before and never later, and the client keeps the buffer *)
(* level it reports to the adaptation algorithms next to the buffer the    *)
(* playback really draws on.  Time is counted in units; a segment lasts    *)
(* SegmentDuration of them.  A download may take any time.                 *)
(*                                                                         *)
(* Events of one instant run in any order here; the simulator runs them in *)
(* the order they were scheduled.                                          *)
(***************************************************************************)
EXTENDS TcpStreamClient

CONSTANT SegmentDuration  \* m_videoData.segmentDuration
ASSUME SegmentDurationAssumption == SegmentDuration \in Nat \ {0}

VARIABLES
  due,          \* time left until a pending event runs
  bufferLevel,  \* bufferLevelNew.back(), less the time since, at least zero
  onScreen,     \* the segment last started is still playing
  prudent       \* the algorithm never waits for as long as the buffer lasts

clockVars == <<due, bufferLevel, onScreen>>
timedVars == <<vars, clockVars, prudent>>

TimedInit ==
  /\ Init
  /\ due = [ev \in TimerEvents |-> 0]
  /\ bufferLevel = 0
  /\ onScreen = FALSE
  /\ prudent \in BOOLEAN

\* Mutant: the delay is scheduled twice as long.
DurationDoubled(ev) == IF ev = "irdFinished" THEN 2 * m_bDelay' ELSE SegmentDuration

Duration(ev) == IF ev = "irdFinished" THEN m_bDelay' ELSE SegmentDuration

\* Events that this step, which delivered ev, has put on the simulator's agenda.
ScheduleDue(ev) ==
  due' = [t \in TimerEvents |-> IF pending'[t] > Timers(ev)[t] THEN Duration(t) ELSE due[t]]

\* A playback tick ends the segment on screen; PlaybackHandle may start another.
Screen(ev) ==
  onScreen' = \/ m_currentPlaybackIndex' > m_currentPlaybackIndex
              \/ onScreen /\ ev # "playbackFinished"

\* Mutants: the level does not sink with time; it sinks below zero.
DecayedNot(level) == level
DecayedBelowZero(level) == level - 1

Decayed(level) == IF level > 0 THEN level - 1 ELSE 0

\* The next unit of time, when nothing is left to run in this one.
Elapse ==
  /\ \A ev \in TimerEvents : pending[ev] > 0 => due[ev] > 0
  /\ due' = [ev \in TimerEvents |-> IF due[ev] > 0 THEN due[ev] - 1 ELSE 0]
  /\ bufferLevel' = Decayed(bufferLevel)
  /\ UNCHANGED <<vars, onScreen>>

\* bufferLevelOld is the level now, bufferLevelNew a segment more.
LevelAfter(ev) ==
  bufferLevel + IF ev = "downloadFinished" THEN SegmentDuration ELSE 0

Delivered(ev) == ScheduleDue(ev) /\ Screen(ev) /\ bufferLevel' = LevelAfter(ev)

TimedRead(n) ==
  /\ HandleRead(n)
  /\ IF received' > received THEN Delivered("downloadFinished") ELSE UNCHANGED clockVars

TimedTimer(ev) ==
  /\ due[ev] = 0
  /\ TimerExpires(ev)
  /\ Delivered(ev)

\* What a prudent algorithm answers: those of this repository wait for the part of
\* the buffer above a positive target (DelayLeavesReserve of AdaptationLoop).
DelayShorterThanBuffer ==
  decided' > decided => m_bDelay' <= 0 \/ m_bDelay' < bufferLevel'

TimedNext ==
  /\ ~aborted
  /\ \/ Elapse
     \/ (StartApplication \/ ConnectionSucceeded \/ StopApplication) /\ UNCHANGED clockVars
     \/ \E n \in 1 .. toArrive : TimedRead(n)
     \/ \E ev \in TimerEvents : TimedTimer(ev)
  /\ prudent => DelayShorterThanBuffer
  /\ UNCHANGED prudent

TimedSpec == TimedInit /\ [][TimedNext]_timedVars

-----------------------------------------------------------------------------
(* Properties.                                                             *)

\* Playing time that is really left, the segment on screen included.
TimeLeft ==
  m_segmentsInBuffer * SegmentDuration + IF onScreen THEN due["playbackFinished"] ELSE 0

\* The clock variables keep their types, and a timer never waits longer than the
\* time it was set to.
TimedTypeOK ==
  /\ due \in [TimerEvents -> Nat]
  /\ bufferLevel \in Nat
  /\ onScreen \in BOOLEAN
  /\ prudent \in BOOLEAN
  /\ due["playbackFinished"] <= SegmentDuration

\* The level the algorithms decide on never exceeds what is left to play, even
\* when a delay outlasts the buffer and playback idles until the next tick.
LevelNeverAhead == state # "terminal" => bufferLevel <= TimeLeft

\* With delays shorter than the buffer the two are the same at every moment: the
\* arithmetic on arrival times and the count of segments never drift apart.
LevelExact == prudent /\ state # "terminal" => bufferLevel = TimeLeft

\* With such delays playback is gapless: once started, a segment is on screen at
\* every moment except while the client waits for a download in downloading.
Gapless ==
  prudent /\ state \in {"downloadingPlaying", "playing"}
          /\ m_currentPlaybackIndex <= LastSegmentIndex =>
    onScreen

\* Whatever the delays, from the first segment until the last one's turn the underrun
\* mark says what the viewer sees: it is set exactly while nothing is on screen, for a
\* stall in downloading and for a tick that passes during a delay.
MarkIsGap ==
  m_currentPlaybackIndex \in 1 .. LastSegmentIndex - 1 =>
    (m_bufferUnderrun <=> ~onScreen)

\* With such delays the session never ends while a delay is still running, so a
\* segment that was decided on with a delay is downloaded.
DelayEndsFirst == prudent /\ state = "terminal" => pending["irdFinished"] = 0

=============================================================================
