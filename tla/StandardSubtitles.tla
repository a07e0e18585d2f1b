-------------------------- MODULE StandardSubtitles --------------------------
(***************************************************************************)
(* StandardSubtitleSession (src/sona/subtitles/sessions.py): the           *)
(* subtitles of the browser, with a supervisor that reconnects for ever    *)
(* and, inside each connection it serves, a send task.                     *)
(*                                                                         *)
(* Every chunk pushed while the subtitles are committed is to be           *)
(* accounted for: the history variables heard, reported and discarded say  *)
(* where it went beside the queue, the send task and _gap_dropped_bytes.   *)
(***************************************************************************)
EXTENDS SharedAudio

VARIABLES
  subLease,      \* how far prepare and commit are
  subStream,     \* _stream, by its epoch; 0 is None
  subConnected,  \* the connection of that stream is up
  subReady,      \* _ready
  subEpoch, subOffset, subAudio, subInput,  \* _epoch, _offset_ms, _audio_ms, _input_ms
  subGap,        \* _gap_dropped_bytes
  supervisor,    \* the await _supervise is suspended at
  serving,       \* the stream it serves or dials
  subInHand,     \* chunks in the send task, 0 or 1
  heard,         \* chunks of this lease sent to a stream
  reported,      \* chunks announced to the browser as a gap
  discarded      \* chunks a clear, or the other session, took out of the account

subConnection == <<subStream, subConnected, subReady, serving>>
subClock == <<subEpoch, subOffset, subAudio, subInput>>
account == <<heard, reported, discarded>>
subtitleVars == <<subLease, subConnection, subClock, subGap, supervisor, subInHand, account>>

SubLeaseStates == {"none", "connecting", "waiting", "prepared", "committed"}
Committed == subLease = "committed"
Current == subStream = serving /\ serving # 0

SubtitlesInit ==
  /\ subLease = "none" /\ subStream = 0 /\ subConnected = FALSE /\ subReady = FALSE
  /\ subEpoch = 0 /\ subOffset = 0 /\ subAudio = 0 /\ subInput = 0
  /\ subGap = 0 /\ supervisor = "none" /\ serving = 0 /\ subInHand = 0
  /\ heard = 0 /\ reported = 0 /\ discarded = 0

\* Mutant of CloseStream: the queue is left to the next session.
CloseStreamKeeping ==
  /\ subLease' = "none" /\ subGap' = 0
  /\ supervisor' = "none" /\ serving' = 0 /\ subInHand' = 0
  /\ subStream' = 0 /\ subConnected' = FALSE
  /\ heard' = 0 /\ reported' = 0 /\ discarded' = 0
  /\ unfinished' = unfinished - subInHand
  /\ UNCHANGED <<queue, subReady, subClock>>
\* close_stream: the supervisor ends, nothing it or the queue held is counted.
CloseStream ==
  /\ subLease' = "none" /\ subGap' = 0
  /\ supervisor' = "none" /\ serving' = 0 /\ subInHand' = 0
  /\ subStream' = 0 /\ subConnected' = FALSE
  /\ heard' = 0 /\ reported' = 0 /\ discarded' = 0
  /\ Drain(subInHand)
  /\ UNCHANGED <<subReady, subClock>>

\* prepare: a new epoch with its own time, and an empty queue.
PrepareSubtitles ==
  /\ subLease = "none"
  /\ subLease' = "connecting"
  /\ subEpoch' = subEpoch + 1 /\ subOffset' = 0 /\ subAudio' = 0 /\ subInput' = 0
  /\ subGap' = 0 /\ subReady' = FALSE
  /\ subStream' = subEpoch + 1 /\ serving' = subEpoch + 1 /\ subConnected' = FALSE
  /\ Drain(0)
  /\ Says("connecting")
  /\ UNCHANGED <<supervisor, subInHand, account>>

SubtitlesConnected ==
  /\ subLease = "connecting"
  /\ subLease' = "waiting" /\ supervisor' = "serving"
  /\ subConnected' = Current
  /\ Says("connected")
  /\ UNCHANGED <<running, queue, unfinished, leases, faults, subStream, subReady, serving,
                 subClock, subGap, subInHand, account>>

SubtitlesPrepared ==
  /\ subLease = "waiting" /\ subReady
  /\ subLease' = "prepared"
  /\ UNCHANGED <<sharedVars, subConnection, subClock, subGap, supervisor, subInHand, account>>

CommitSubtitles ==
  /\ subLease = "prepared" /\ running /\ subStream # 0 /\ subReady /\ supervisor # "done"
  /\ subLease' = "committed"
  /\ Says("connected")
  /\ UNCHANGED <<running, queue, unfinished, leases, faults,
                 subConnection, subClock, subGap, supervisor, subInHand, account>>
-----------------------------------------------------------------------------
\* push_audio: counted as a gap while no stream is ready; a full queue gives up its
\* oldest chunk.
PushSubtitles ==
  /\ Committed /\ running /\ subInput < MaxChunks
  /\ subInput' = subInput + 1
  /\ \/ /\ subStream = 0 \/ ~subReady
        /\ subGap' = subGap + 1
        /\ UNCHANGED <<queue, unfinished>>
     \/ /\ subStream # 0 /\ subReady /\ Full
        /\ queue' = Append(Tail(queue), "subtitles")
        /\ subGap' = subGap + 1
        /\ UNCHANGED unfinished
     \/ /\ subStream # 0 /\ subReady /\ ~Full
        /\ Enqueue("subtitles")
        /\ UNCHANGED subGap
  /\ UNCHANGED <<running, proxyState, leases, faults, subLease, subConnection,
                 subEpoch, subOffset, subAudio, supervisor, subInHand, account>>

\* clear_subtitles: the stream is closed under the supervisor, and the gap forgotten.
ClearSubtitles ==
  /\ subStream # 0 /\ Spend
  /\ subStream' = 0 /\ subConnected' = FALSE /\ subReady' = FALSE
  /\ subGap' = 0 /\ discarded' = discarded + subGap
  /\ UNCHANGED <<running, proxyState, queue, unfinished, leases, subLease, serving,
                 subClock, supervisor, subInHand, heard, reported>>
-----------------------------------------------------------------------------
(***************************************************************************)
(* _serve_connection with its send task, and the events.                   *)
(***************************************************************************)
SubtitlesReady ==
  /\ supervisor = "serving" /\ Current /\ subConnected /\ ~subReady
  /\ subReady' = TRUE
  /\ UNCHANGED <<sharedVars, subLease, subStream, subConnected, serving,
                 subClock, subGap, supervisor, subInHand, account>>

TakeChunk ==
  /\ supervisor = "serving" /\ Current /\ Committed /\ subInHand = 0 /\ queue # <<>>
  /\ queue' = Tail(queue) /\ subInHand' = 1
  /\ UNCHANGED <<running, proxyState, unfinished, leases, faults,
                 subLease, subConnection, subClock, subGap, supervisor, account>>
SendChunk ==
  /\ supervisor = "serving" /\ Current /\ subConnected /\ subInHand = 1
  /\ subInHand' = 0 /\ unfinished' = unfinished - 1
  /\ subAudio' = subAudio + 1 /\ heard' = heard + 1
  /\ UNCHANGED <<running, proxyState, queue, leases, faults, subLease, subConnection,
                 subEpoch, subOffset, subInput, subGap, supervisor, reported, discarded>>

SubtitlesBreak ==
  /\ subConnected /\ Spend
  /\ subConnected' = FALSE
  /\ UNCHANGED <<running, proxyState, queue, unfinished, leases, subLease, subStream, subReady,
                 serving, subClock, subGap, supervisor, subInHand, account>>

\* The chunks a connection leaves behind are a gap while its stream is the current one.
Leaves(n) ==
  /\ subGap' = IF Committed /\ Current THEN subGap + n ELSE subGap
  /\ discarded' = IF Committed /\ Current THEN discarded ELSE discarded + n
\* Mutant of Leftover: the chunk that could not be sent is forgotten.
LeftoverQueued == Len(queue)
Leftover == Len(queue) + subInHand
\* Mutant of Retries: a dial that fails is the last.
RetriesServed == Committed /\ supervisor = "serving"
Retries == Committed
\* The connection of a serve or a dial is over: the send task is cancelled, the stream is
\* closed and the queue drained.  A preparation is not reconnected.
ConnectionEnds ==
  /\ Leaves(Leftover)
  /\ Drain(subInHand) /\ subInHand' = 0
  /\ subStream' = IF Current THEN 0 ELSE subStream
  /\ subConnected' = FALSE /\ serving' = 0
  /\ IF Retries THEN supervisor' = "backoff" /\ Says("backoff")
                ELSE supervisor' = "done" /\ Says("paused")
  /\ UNCHANGED <<running, leases, subLease, subReady, subClock, heard, reported>>
ServeEnds ==
  /\ supervisor = "serving" /\ ~(Current /\ subConnected)
  /\ ConnectionEnds /\ UNCHANGED faults
-----------------------------------------------------------------------------
(***************************************************************************)
(* _supervise: back-off and reconnection.                                  *)
(***************************************************************************)
Larger(a, b) == IF a > b THEN a ELSE b
Resume == Larger(subOffset + subAudio, subInput)
RedialSubtitles ==
  /\ supervisor = "backoff"
  /\ supervisor' = "dialing"
  /\ subOffset' = Resume /\ subAudio' = 0 /\ subEpoch' = subEpoch + 1
  /\ subStream' = subEpoch + 1 /\ serving' = subEpoch + 1
  /\ subConnected' = FALSE /\ subReady' = FALSE
  /\ Says("connecting")
  /\ UNCHANGED <<running, queue, unfinished, leases, faults, subLease, subInput, subGap,
                 subInHand, account>>
\* The connection is up, and what was lost until now is announced.
SubtitlesRedialed ==
  /\ supervisor = "dialing"
  /\ supervisor' = "serving" /\ subConnected' = Current
  /\ reported' = reported + subGap /\ subGap' = 0
  /\ Says("connected")
  /\ UNCHANGED <<running, queue, unfinished, leases, faults, subLease, subStream, subReady,
                 serving, subClock, subInHand, heard, discarded>>
SubtitlesRedialFails ==
  /\ supervisor = "dialing" /\ Spend
  /\ ConnectionEnds
=============================================================================
