-------------------------- MODULE TcpStreamClient --------------------------
(***************************************************************************)
(* The streaming client of tcp-stream-client.cc: the Controller state      *)
(* machine with everything it calls, driven by the socket callbacks and by *)
(* the two timers it schedules on the simulator.                           *)
(*                                                                         *)
(* Time is not modelled here: a pending timer may expire at any moment, so *)
(* every order of timers and packets is allowed.  TcpStreamClientTimed     *)
(* adds the clock.  Log files and their contents are left out.             *)
(***************************************************************************)
EXTENDS Integers

CONSTANTS
  LastSegmentIndex,  \* m_lastSegmentIndex
  Reps,              \* the representation indexes an algorithm may reply
  SegmentSize,       \* SegmentSize[rep][segment], in bytes
  BDelays            \* the download delays an algorithm may reply

ASSUME LastSegmentAssumption == LastSegmentIndex \in Nat
ASSUME RepsAssumption == Reps # {}
ASSUME SegmentSizeAssumption ==
  SegmentSize \in [Reps -> [0 .. LastSegmentIndex -> Nat \ {0}]]
ASSUME BDelaysAssumption == BDelays # {} /\ BDelays \subseteq Int

VARIABLES
  state,                   \* controllerState
  m_segmentCounter,        \* index of the segment being obtained
  m_currentRepIndex,
  m_bDelay,
  decided,                 \* size of m_videoData.repIndex
  received,                \* size of m_bufferData.timeNow
  m_bytesReceived,
  m_segmentsInBuffer,
  m_currentPlaybackIndex,  \* also the size of m_playbackData.playbackStart
  m_bufferUnderrun,
  pending,                 \* scheduled simulator events, by controllerEvent
  m_socket,                \* the connection behind the pointer
  toArrive,                \* requested bytes that have not arrived yet
  aborted                  \* the program dereferenced the null m_socket

playbackVars == <<m_segmentsInBuffer, m_currentPlaybackIndex, m_bufferUnderrun>>
replyVars == <<m_currentRepIndex, m_bDelay, decided>>
readVars == <<received, m_bytesReceived>>
linkVars == <<m_socket, toArrive, aborted>>
vars == <<state, m_segmentCounter, replyVars, readVars, playbackVars, pending,
          linkVars>>

States == {"initial", "downloading", "downloadingPlaying", "playing", "terminal"}
TimerEvents == {"playbackFinished", "irdFinished"}

\* "none" and "closed" are the null pointer, before the start and after the stop.
SocketStates == {"none", "connecting", "open", "closed"}

Init ==
  /\ state = "initial"
  /\ m_segmentCounter = 0
  /\ m_currentRepIndex \in Reps
  /\ m_bDelay = 0
  /\ decided = 0
  /\ received = 0
  /\ m_bytesReceived = 0
  /\ m_segmentsInBuffer = 0
  /\ m_currentPlaybackIndex = 0
  /\ m_bufferUnderrun = FALSE
  /\ pending = [ev \in TimerEvents |-> 0]
  /\ m_socket = "none"
  /\ toArrive = 0
  /\ aborted = FALSE

-----------------------------------------------------------------------------
(* What the Controller calls. The operators marked "mutant" are not part   *)
(* of the client: each is the definition after it with a bug, to show that *)
(* the properties below tell the two apart.                                *)

\* Mutant: the segment received is not counted.
BufferedForgotten(ev) == m_segmentsInBuffer

\* The values the Controller finds when ev is delivered: SegmentReceivedHandle
\* has put the segment in the buffer and cleared the delay of the last one; the
\* simulator has removed the event it runs.
Buffered(ev) == m_segmentsInBuffer + IF ev = "downloadFinished" THEN 1 ELSE 0
Delay(ev) == IF ev = "downloadFinished" /\ m_segmentCounter = LastSegmentIndex
             THEN 0 ELSE m_bDelay
Timers(ev) == [t \in TimerEvents |-> pending[t] - IF t = ev THEN 1 ELSE 0]

\* Mutants: the delay is scheduled as a playback; nothing is scheduled.
ScheduleAnother(ev, timers) ==
  pending' = [timers EXCEPT !["playbackFinished"] = @ + 1]
ScheduleNothing(ev, timers) == pending' = timers

Schedule(ev, timers) == pending' = [timers EXCEPT ![ev] = @ + 1]

\* The algorithm's reply is an input: any representation and any delay it may give.
RequestRepIndex ==
  /\ m_currentRepIndex' \in Reps
  /\ m_bDelay' \in BDelays
  /\ decided' = decided + 1

\* Mutant: the algorithm is asked although no segment is to be decided on.
KeepReplyAsks(ev) == RequestRepIndex

KeepReply(ev) == m_bDelay' = Delay(ev) /\ UNCHANGED <<m_currentRepIndex, decided>>

\* Ask for the current segment; rest bytes of earlier requests are on their way.
\* ConnectionSucceeded calls it while the socket here is still "connecting".
Send(rest) ==
  IF m_socket \in {"connecting", "open"}
  THEN /\ m_socket' = "open"
       /\ toArrive' = rest + SegmentSize[m_currentRepIndex'][m_segmentCounter']
       /\ aborted' = aborted
  ELSE /\ aborted' = TRUE
       /\ UNCHANGED <<m_socket, toArrive>>

\* Mutant: a request where none is due.
NoSendSends(rest) == Send(rest)

NoSend(rest) == toArrive' = rest /\ UNCHANGED <<m_socket, aborted>>

\* Mutant: the socket is left open.
CloseSocketKeeps == UNCHANGED linkVars

CloseSocket == m_socket' = "closed" /\ toArrive' = 0 /\ aborted' = aborted

\* Mutant: the buffer is not looked at.
PlaybackHandleUnguarded(segments) ==
  /\ m_segmentsInBuffer' = segments - 1
  /\ m_currentPlaybackIndex' = m_currentPlaybackIndex + 1
  /\ m_bufferUnderrun' = FALSE

\* Mutant: the end of an underrun is not registered.
PlaybackHandleKeepsMark(segments) ==
  \/ /\ segments > 0
     /\ m_segmentsInBuffer' = segments - 1
     /\ m_currentPlaybackIndex' = m_currentPlaybackIndex + 1
     /\ UNCHANGED m_bufferUnderrun
  \/ /\ segments = 0
     /\ m_segmentsInBuffer' = 0
     /\ m_bufferUnderrun' = (m_bufferUnderrun \/ m_currentPlaybackIndex < LastSegmentIndex)
     /\ UNCHANGED m_currentPlaybackIndex

\* The next segment starts to play, or the buffer is found empty. The function
\* returns true in the second case, which is what `segments = 0' stands for.
PlaybackHandle(segments) ==
  \/ /\ segments > 0
     /\ m_segmentsInBuffer' = segments - 1
     /\ m_currentPlaybackIndex' = m_currentPlaybackIndex + 1
     /\ m_bufferUnderrun' = FALSE
  \/ /\ segments = 0
     /\ m_segmentsInBuffer' = 0
     /\ m_bufferUnderrun' = (m_bufferUnderrun \/ m_currentPlaybackIndex < LastSegmentIndex)
     /\ UNCHANGED m_currentPlaybackIndex

NoPlayback(segments) ==
  m_segmentsInBuffer' = segments /\ UNCHANGED <<m_currentPlaybackIndex, m_bufferUnderrun>>

-----------------------------------------------------------------------------
(* Controller: one operator per state; downloading reacts to any event.    *)

ControllerInitial(ev, rest) ==
  /\ state = "initial"
  /\ state' = "downloading"
  /\ UNCHANGED m_segmentCounter
  /\ RequestRepIndex
  /\ Send(rest)
  /\ pending' = Timers(ev)
  /\ NoPlayback(Buffered(ev))

ControllerDownloading(ev, rest) ==
  /\ state = "downloading"
  /\ PlaybackHandle(Buffered(ev))
  /\ Schedule("playbackFinished", Timers(ev))
  /\ IF m_currentPlaybackIndex' <= LastSegmentIndex
     THEN /\ state' = "downloadingPlaying"
          /\ m_segmentCounter' = m_segmentCounter + 1
          /\ RequestRepIndex
          /\ Send(rest)
     ELSE /\ state' = "playing"
          /\ UNCHANGED m_segmentCounter
          /\ KeepReply(ev)
          /\ NoSend(rest)

\* downloadFinished in downloadingPlaying: decide on the next segment, then wait
\* out the delay, stop downloading, or ask for it.
NextDownload(ev, rest) ==
  /\ state = "downloadingPlaying"
  /\ ev = "downloadFinished"
  /\ NoPlayback(Buffered(ev))
  /\ IF m_segmentCounter < LastSegmentIndex
     THEN m_segmentCounter' = m_segmentCounter + 1 /\ RequestRepIndex
     ELSE UNCHANGED m_segmentCounter /\ KeepReply(ev)
  /\ IF m_bDelay' > 0
     THEN state' = "playing" /\ Schedule("irdFinished", Timers(ev)) /\ NoSend(rest)
     ELSE /\ pending' = Timers(ev)
          /\ IF m_segmentCounter' = LastSegmentIndex
             THEN state' = "playing" /\ NoSend(rest)
             ELSE UNCHANGED state /\ Send(rest)

\* playbackFinished in downloadingPlaying: play on, or stall.
PlayOrStall(ev, rest) ==
  /\ state = "downloadingPlaying"
  /\ ev = "playbackFinished"
  /\ PlaybackHandle(Buffered(ev))
  /\ IF Buffered(ev) > 0
     THEN UNCHANGED state /\ Schedule("playbackFinished", Timers(ev))
     ELSE state' = "downloading" /\ pending' = Timers(ev)
  /\ UNCHANGED m_segmentCounter
  /\ KeepReply(ev)
  /\ NoSend(rest)

\* irdFinished in playing: the delay is over, ask for the segment decided on.
DelayedDownload(ev, rest) ==
  /\ state = "playing"
  /\ ev = "irdFinished"
  /\ state' = "downloadingPlaying"
  /\ UNCHANGED m_segmentCounter
  /\ KeepReply(ev)
  /\ Send(rest)
  /\ pending' = Timers(ev)
  /\ NoPlayback(Buffered(ev))

\* playbackFinished in playing, before the last segment: the timer is set again
\* whether or not there was something to play.
PlayOn(ev, rest) ==
  /\ state = "playing"
  /\ ev = "playbackFinished"
  /\ m_currentPlaybackIndex < LastSegmentIndex
  /\ PlaybackHandle(Buffered(ev))
  /\ Schedule("playbackFinished", Timers(ev))
  /\ UNCHANGED <<state, m_segmentCounter>>
  /\ KeepReply(ev)
  /\ NoSend(rest)

\* playbackFinished in playing, at the last segment: the session ends.
Terminate(ev, rest) ==
  /\ state = "playing"
  /\ ev = "playbackFinished"
  /\ m_currentPlaybackIndex = LastSegmentIndex
  /\ PlaybackHandle(Buffered(ev))
  /\ state' = "terminal"
  /\ CloseSocket
  /\ pending' = Timers(ev)
  /\ UNCHANGED m_segmentCounter
  /\ KeepReply(ev)

\* Events for which the state has no branch.
Ignore(ev, rest) ==
  /\ \/ <<state, ev>> \in {<<"downloadingPlaying", "irdFinished">>,
                           <<"playing", "downloadFinished">>}
                          \cup ({"terminal"} \X (TimerEvents \cup {"downloadFinished"}))
     \/ <<state, ev>> = <<"playing", "playbackFinished">>
        /\ m_currentPlaybackIndex > LastSegmentIndex
  /\ NoPlayback(Buffered(ev))
  /\ pending' = Timers(ev)
  /\ UNCHANGED <<state, m_segmentCounter>>
  /\ KeepReply(ev)
  /\ NoSend(rest)

Controller(ev, rest) ==
  \/ ControllerInitial(ev, rest)
  \/ ControllerDownloading(ev, rest)
  \/ NextDownload(ev, rest)
  \/ PlayOrStall(ev, rest)
  \/ DelayedDownload(ev, rest)
  \/ PlayOn(ev, rest)
  \/ Terminate(ev, rest)
  \/ Ignore(ev, rest)

-----------------------------------------------------------------------------
(* The entry points: application start and stop, socket callbacks, timers. *)

StartApplication ==
  /\ m_socket = "none"
  /\ m_socket' = "connecting"
  /\ UNCHANGED <<state, m_segmentCounter, replyVars, readVars, playbackVars,
                 pending, toArrive, aborted>>

ConnectionSucceeded ==
  /\ m_socket = "connecting"
  /\ Controller("init", toArrive)
  /\ UNCHANGED readVars

\* A packet of n bytes. The segment is complete when the bytes received equal
\* the size of the segment asked for; SegmentReceivedHandle then takes over.
HandleRead(n) ==
  /\ m_socket = "open"
  /\ n <= toArrive
  /\ IF m_bytesReceived + n = SegmentSize[m_currentRepIndex][m_segmentCounter]
     THEN /\ m_bytesReceived' = 0
          /\ received' = received + 1
          /\ Controller("downloadFinished", toArrive - n)
     ELSE /\ m_bytesReceived' = m_bytesReceived + n
          /\ toArrive' = toArrive - n
          /\ UNCHANGED <<state, m_segmentCounter, replyVars, received, playbackVars,
                         pending, m_socket, aborted>>

\* The simulator runs a scheduled Controller event.
TimerExpires(ev) ==
  /\ pending[ev] > 0
  /\ Controller(ev, toArrive)
  /\ UNCHANGED readVars

\* The stop time set by the driver. Scheduled events are left scheduled.
StopApplication ==
  /\ m_socket \in {"connecting", "open"}
  /\ CloseSocket
  /\ UNCHANGED <<state, m_segmentCounter, replyVars, readVars, playbackVars, pending>>

Next ==
  /\ ~aborted
  /\ \/ StartApplication
     \/ ConnectionSucceeded
     \/ \E n \in 1 .. toArrive : HandleRead(n)
     \/ \E ev \in TimerEvents : TimerExpires(ev)
     \/ StopApplication

Spec == Init /\ [][Next]_vars

\* The simulator runs every event that is scheduled, and TCP delivers what was
\* requested on an open connection. Nothing obliges a connection to succeed.
Fairness ==
  /\ \A ev \in TimerEvents : WF_vars(~aborted /\ TimerExpires(ev))
  /\ WF_vars(~aborted /\ \E n \in 1 .. toArrive : HandleRead(n))

FairSpec == Spec /\ Fairness

-----------------------------------------------------------------------------
(* Properties.                                                             *)

Segments == 0 .. LastSegmentIndex
Downloading == state \in {"downloading", "downloadingPlaying"}

FlagsOK == m_bufferUnderrun \in BOOLEAN /\ aborted \in BOOLEAN

\* Every variable keeps its type.
TypeOK ==
  /\ state \in States
  /\ m_segmentCounter \in Segments
  /\ m_currentRepIndex \in Reps
  /\ m_bDelay \in BDelays \cup {0}
  /\ decided \in Nat
  /\ received \in Nat
  /\ m_bytesReceived \in Nat
  /\ m_segmentsInBuffer \in Nat
  /\ m_currentPlaybackIndex \in Nat
  /\ pending \in [TimerEvents -> Nat]
  /\ m_socket \in SocketStates
  /\ toArrive \in Nat
  /\ FlagsOK

\* HandleRead compares the bytes received with the size of the segment it thinks
\* it is receiving. Bytes are on their way exactly while the Controller waits for
\* a segment on an open socket, and together with those received they make up
\* that segment, so the comparison is never overshot or made with another size.
ExactlyOneRequest ==
  /\ toArrive > 0 <=> m_socket = "open" /\ Downloading
  /\ toArrive > 0 =>
       m_bytesReceived + toArrive = SegmentSize[m_currentRepIndex][m_segmentCounter]

\* No segment is lost or counted twice between SegmentReceivedHandle and
\* PlaybackHandle, and the counter names the segment after those received; it
\* stays at the last one.
SegmentsConserved ==
  /\ received = m_currentPlaybackIndex + m_segmentsInBuffer
  /\ Downloading \/ pending["irdFinished"] > 0 => received = m_segmentCounter
  /\ state = "playing" /\ pending["irdFinished"] = 0 =>
       m_segmentCounter = LastSegmentIndex /\ received >= LastSegmentIndex

\* The playback timer is never doubled and never lost while there is something
\* left to play: one tick is scheduled in the two playing states, none while the
\* client waits for a segment with nothing to play.
OnePlaybackClock ==
  /\ state = "downloadingPlaying" => pending["playbackFinished"] = 1
  /\ state = "playing" =>
       \/ pending["playbackFinished"] = 1
       \/ pending["playbackFinished"] = 0 /\ m_currentPlaybackIndex > LastSegmentIndex
  /\ state \in {"initial", "downloading", "terminal"} => pending["playbackFinished"] = 0
  /\ state = "downloading" => m_segmentsInBuffer = 0

\* A download delay runs at most once at a time, only while nothing is being
\* downloaded, and never for a segment that is already there.
OneDelay ==
  pending["irdFinished"] > 0 =>
    /\ pending["irdFinished"] = 1
    /\ state \in {"playing", "terminal"}
    /\ toArrive = 0
    /\ received = m_segmentCounter

\* repIndex and playbackIndex have one entry for each segment decided on, so the
\* entry at the index of a segment is the one decided for it; LogPlayback reads
\* the entry of the segment it starts, which is there.
ReplyPerSegment ==
  /\ decided = (IF state = "initial" THEN 0 ELSE m_segmentCounter + 1)
  /\ m_segmentsInBuffer > 0 => m_currentPlaybackIndex < decided

\* A stall in the middle of the video is registered when it begins, and the mark is
\* one of a stall: something has been played before it, something is still to come.
\* (A stall that ends with the last segment is the question of StallRegistered.)
UnderrunRegistered ==
  /\ state = "downloading" /\ m_currentPlaybackIndex \in 1 .. LastSegmentIndex - 1 =>
       m_bufferUnderrun
  /\ m_bufferUnderrun => m_currentPlaybackIndex \in 1 .. LastSegmentIndex

\* Once the session has ended everything that was received has been played.
NothingLeftAtEnd ==
  state = "terminal" => /\ m_segmentsInBuffer = 0
                        /\ received >= LastSegmentIndex
                        /\ m_socket = "closed"

\* What each state of the Controller implies about the connection and about how
\* far the session is. With the properties above it is inductive.
StatePhase ==
  /\ m_socket \in {"none", "connecting"} => state = "initial"
  /\ m_socket = "open" => state \notin {"initial", "terminal"}
  /\ m_socket = "open" /\ ~Downloading => m_bytesReceived = 0
  /\ aborted => m_socket = "closed"
  /\ state = "initial" =>
       m_segmentCounter = 0 /\ received = 0 /\ m_bytesReceived = 0
  /\ state \in {"downloadingPlaying", "playing", "terminal"} => m_currentPlaybackIndex > 0
  /\ state = "terminal" => m_segmentCounter = LastSegmentIndex
  /\ received <= m_segmentCounter + 1

IInv ==
  /\ TypeOK
  /\ ExactlyOneRequest
  /\ SegmentsConserved
  /\ OnePlaybackClock
  /\ OneDelay
  /\ ReplyPerSegment
  /\ UnderrunRegistered
  /\ NothingLeftAtEnd
  /\ StatePhase

\* A segment that was received is eventually played, whatever the timers, the
\* delays and a stop of the application do, unless the program aborts.
ReceivedIsPlayed ==
  \A s \in Segments : received > s ~> m_currentPlaybackIndex > s \/ aborted

\* A session with a connection ends by itself, or is stopped, except when the
\* last segment was played after a stall: then playing is never left.
EndsUnlessStuck ==
  m_socket = "open" ~>
    \/ m_socket = "closed"
    \/ state = "playing" /\ m_currentPlaybackIndex > LastSegmentIndex

-----------------------------------------------------------------------------
(* What the header says of the Controller and the code does not do.        *)

\* tcp-stream-client.h:192-196. Without a delay, downloadingPlaying is left for
\* playing when the last segment's download is finished, and the session ends
\* after the playback of all segments.
EndsWithLastSegment == state = "terminal" => received = LastSegmentIndex + 1

\* tcp-stream-client.h:202-205. After a stall on the last segment that segment is
\* played and the terminal state is entered, which closes the socket.
SessionCloses == m_socket = "open" ~> m_socket = "closed"

\* tcp-stream-client.h:188-191, 268-270. A tick that finds the buffer empty registers
\* an underrun; the client that waits in downloading after one has it registered.
StallRegistered == state = "downloading" /\ m_currentPlaybackIndex > 0 => m_bufferUnderrun

\* tcp-stream-client.h:195-196. With the socket closed the session of the client
\* ends: it does not ask for another segment.
ClosedSocketEndsSession == ~aborted

-----------------------------------------------------------------------------
\* The session as its viewer sees it.
Session == INSTANCE StreamSession WITH
  Segments <- LastSegmentIndex + 1,
  requested <- received + (IF toArrive > 0 THEN 1 ELSE 0),
  fetched <- received,
  played <- m_currentPlaybackIndex,
  ticking <- pending["playbackFinished"] > 0,
  open <- m_socket = "open"

\* The client does nothing a session may not do.
ImplementsSession == Session!SessionSpec

=============================================================================
