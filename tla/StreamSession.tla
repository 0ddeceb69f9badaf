--------------------------- MODULE StreamSession ---------------------------
(***************************************************************************)
(* What a streaming session promises to whoever watches it: the segments   *)
(* are asked for in order and one at a time, a segment plays only after it *)
(* was fetched, playback halts only with nothing left to play, and a       *)
(* segment that arrives while playback is halted starts at once.           *)
(* The three counters are numbers of segments; the order is the index.     *)
(***************************************************************************)
EXTENDS Integers

CONSTANT Segments  \* how many segments the video has

VARIABLES
  requested,  \* segments asked for
  fetched,    \* segments that arrived completely
  played,     \* segments whose playback started
  ticking,    \* the playback clock runs
  open        \* segments can be asked for and can arrive

sessionVars == <<requested, fetched, played, ticking, open>>

SessionInit ==
  /\ requested = 0
  /\ fetched = 0
  /\ played = 0
  /\ ticking = FALSE
  /\ open = FALSE

\* The connection is there and the first segment is asked for.
Begin ==
  /\ ~open
  /\ requested = 0
  /\ requested < Segments
  /\ open' = TRUE
  /\ requested' = 1
  /\ UNCHANGED <<fetched, played, ticking>>

MayRequestAnother(asked) ==
  requested' \in {asked, asked + 1} /\ requested' <= Segments

\* The awaited segment arrives. If playback had halted it resumes with it.
Fetch ==
  /\ open
  /\ requested = fetched + 1
  /\ fetched' = fetched + 1
  /\ IF ticking
     THEN UNCHANGED played
     ELSE played = fetched /\ played' = fetched'
  /\ ticking' = TRUE
  /\ MayRequestAnother(requested)
  /\ UNCHANGED open

\* The next segment is asked for some time after the last one arrived.
Request ==
  /\ open
  /\ ticking
  /\ requested = fetched
  /\ requested < Segments
  /\ requested' = requested + 1
  /\ UNCHANGED <<fetched, played, ticking, open>>

\* A segment's duration is over and the next one is there.
Play ==
  /\ ticking
  /\ played < fetched
  /\ played' = played + 1
  /\ UNCHANGED <<requested, fetched, ticking, open>>

\* Nothing is left to play while a segment is awaited, or when none can come.
Stall ==
  /\ ticking
  /\ played = fetched
  /\ requested = fetched + 1 \/ ~open
  /\ ticking' = FALSE
  /\ UNCHANGED <<requested, fetched, played, open>>

\* The session ends by itself: nothing fetched is left unplayed, and at most the
\* last segment was never fetched.
End ==
  /\ ticking
  /\ fetched >= Segments - 1
  /\ played' = fetched
  /\ fetched <= played + 1
  /\ ticking' = FALSE
  /\ open' = FALSE
  /\ requested' = fetched
  /\ UNCHANGED fetched

\* Everything has played and the clock stops.
RunOut ==
  /\ ticking
  /\ played = Segments
  /\ ticking' = FALSE
  /\ UNCHANGED <<requested, fetched, played, open>>

\* The session is stopped from outside; what is buffered may still play.
Stop ==
  /\ open' = FALSE
  /\ requested' = fetched
  /\ UNCHANGED <<fetched, played, ticking>>

SessionNext == Begin \/ Fetch \/ Request \/ Play \/ Stall \/ End \/ RunOut \/ Stop

SessionSpec == SessionInit /\ [][SessionNext]_sessionVars

=============================================================================
