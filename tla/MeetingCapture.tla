---------------------------- MODULE MeetingCapture ----------------------------
(***************************************************************************)
(* MeetingCaptureSession (src/sona/subtitles/sessions.py): the lease of a  *)
(* meeting on a SpeechRail stream, with its event task, which reconnects,  *)
(* and its send task, which survives the reconnections.                    *)
(*                                                                         *)
(* A step runs from one await to the next.  close() is one step: it turns  *)
(* the input off before it first waits, and the tasks it cancels only      *)
(* finish the chunk they hold.                                             *)
(***************************************************************************)
EXTENDS SharedAudio

VARIABLES
  lease,       \* how far the lease is: prepare, commit and finish
  stream,      \* _stream, by its epoch; 0 is None
  connected,   \* the connection of that stream is up
  epoch, offset, audio, input, ready,  \* _epoch, _offset_ms, _audio_ms, _input_ms, _ready
  events,      \* the await _event_loop is suspended at
  reading,     \* the stream it reads
  attempt,     \* the delays its _reconnect has used
  sender,      \* the await _send_loop is suspended at
  sendingOn,   \* its active_stream
  inHand       \* its pending chunk

connection == <<stream, connected, ready>>
clock == <<epoch, offset, audio, input>>
eventTask == <<events, reading, attempt>>
sendTask == <<sender, sendingOn, inHand>>
captureVars == <<lease, connection, clock, eventTask, sendTask>>

LeaseStates == {"none", "connecting", "waiting", "prepared", "accepting",
                "joining", "flushing", "ending"}
Owned == lease # "none"
Accepting == lease = "accepting"

CaptureInit ==
  /\ lease = "none" /\ stream = 0 /\ connected = FALSE /\ ready = FALSE
  /\ epoch = 0 /\ offset = 0 /\ audio = 0 /\ input = 0
  /\ events = "none" /\ reading = 0 /\ attempt = 0
  /\ sender = "none" /\ sendingOn = 0 /\ inHand = NoChunk

\* The chunk in the hand of the send task, which its finally clause finishes.
Held == IF inHand = NoChunk THEN 0 ELSE 1
\* close: the tasks end, the stream is closed and whatever is queued goes, also what was
\* queued for the other session.
CloseCapture ==
  /\ lease' = "none"
  /\ stream' = 0 /\ connected' = FALSE /\ ready' = FALSE
  /\ events' = "none" /\ reading' = 0 /\ attempt' = 0
  /\ sender' = "none" /\ sendingOn' = 0 /\ inHand' = NoChunk
  /\ Drain(Held)
  /\ UNCHANGED clock
-----------------------------------------------------------------------------
(***************************************************************************)
(* prepare, commit, finish.                                                *)
(***************************************************************************)
PrepareCapture ==
  /\ ~Owned
  /\ lease' = "connecting"
  /\ epoch' = epoch + 1 /\ offset' = 0 /\ audio' = 0 /\ input' = 0
  /\ stream' = epoch + 1 /\ connected' = FALSE /\ ready' = FALSE
  /\ Says("connecting")
  /\ UNCHANGED <<queue, unfinished, eventTask, sendTask>>

CaptureConnected ==
  /\ lease = "connecting"
  /\ lease' = "waiting" /\ connected' = TRUE
  /\ events' = "reading" /\ reading' = stream
  /\ sender' = "idle"
  /\ Says("connected")
  /\ UNCHANGED <<running, queue, unfinished, leases, faults, stream, ready, clock,
                 attempt, sendingOn, inHand>>

CapturePrepared ==
  /\ lease = "waiting" /\ ready
  /\ lease' = "prepared"
  /\ UNCHANGED <<sharedVars, connection, clock, eventTask, sendTask>>

CommitCapture ==
  /\ lease = "prepared" /\ stream # 0 /\ ready
  /\ events # "done" /\ sender # "done"
  /\ lease' = "accepting"
  /\ Says("connected")
  /\ UNCHANGED <<running, queue, unfinished, leases, faults,
                 connection, clock, eventTask, sendTask>>

\* finish: the input is off, and queue.join() waits for the send task.
FinishCapture ==
  /\ Accepting /\ stream # 0
  /\ lease' = "joining"
  /\ UNCHANGED <<sharedVars, connection, clock, eventTask, sendTask>>
Joined ==
  /\ lease = "joining" /\ unfinished = 0
  /\ lease' = "flushing"
  /\ UNCHANGED <<sharedVars, connection, clock, eventTask, sendTask>>
Flushed ==
  /\ lease = "flushing" /\ connected
  /\ lease' = "ending"
  /\ UNCHANGED <<sharedVars, connection, clock, eventTask, sendTask>>
-----------------------------------------------------------------------------
\* push_audio.  Without a stream the chunk is left to the gap of the reconnection; when
\* the queue is full the chunk itself is given up.
PushMeeting ==
  /\ Accepting /\ input < MaxChunks
  /\ input' = input + 1
  /\ IF stream = 0 \/ Full THEN UNCHANGED <<queue, unfinished>>
     ELSE Enqueue("meeting")
  /\ UNCHANGED <<running, proxyState, leases, faults, lease, connection,
                 epoch, offset, audio, eventTask, sendTask>>
-----------------------------------------------------------------------------
(***************************************************************************)
(* _send_loop.                                                             *)
(***************************************************************************)
\* active and stream_available are set; the chunk is awaited.
AwaitChunk ==
  /\ sender = "idle" /\ lease \in {"accepting", "joining"} /\ stream # 0
  /\ sender' = "getting"
  /\ UNCHANGED <<sharedVars, lease, connection, clock, eventTask, sendingOn, inHand>>
\* The chunk is there; without a stream it is kept in hand.
GetChunk ==
  /\ sender = "getting" /\ queue # <<>>
  /\ inHand' = Head(queue) /\ queue' = Tail(queue)
  /\ sender' = IF stream = 0 THEN "holding" ELSE "sending"
  /\ sendingOn' = stream
  /\ UNCHANGED <<running, proxyState, unfinished, leases, faults,
                 lease, connection, clock, eventTask>>
Unhold ==
  /\ sender = "holding" /\ stream # 0
  /\ sender' = "sending" /\ sendingOn' = stream
  /\ UNCHANGED <<sharedVars, lease, connection, clock, eventTask, inHand>>

SendEnds ==
  /\ sender' = "idle" /\ sendingOn' = 0 /\ inHand' = NoChunk /\ unfinished' = unfinished - 1
  /\ audio' = audio + 1
SendMeeting ==
  /\ sender = "sending" /\ sendingOn = stream /\ connected
  /\ SendEnds
  /\ UNCHANGED <<running, proxyState, queue, leases, faults, lease, connection,
                 epoch, offset, input, eventTask>>
\* send_audio raises; the stream is dropped if it is still the current one, and its
\* close is awaited.
SendFails ==
  /\ sender = "sending" /\ ~(sendingOn = stream /\ connected)
  /\ sender' = "closing"
  /\ stream' = IF stream = sendingOn THEN 0 ELSE stream
  /\ connected' = (connected /\ stream # sendingOn)
  /\ UNCHANGED <<sharedVars, lease, ready, clock, eventTask, sendingOn, inHand>>
\* The chunk is given up, and moves the clock as if the stream had heard it.
GiveUpChunk ==
  /\ sender = "closing"
  /\ SendEnds
  /\ UNCHANGED <<running, proxyState, queue, leases, faults, lease, connection,
                 epoch, offset, input, eventTask>>
-----------------------------------------------------------------------------
(***************************************************************************)
(* _event_loop and _reconnect.                                             *)
(***************************************************************************)
CaptureReady ==
  /\ events = "reading" /\ reading = stream /\ connected /\ ~ready
  /\ ready' = TRUE
  /\ UNCHANGED <<sharedVars, lease, stream, connected, clock, eventTask, sendTask>>

\* The server or the network ends the connection.
MeetingBreaks ==
  /\ connected /\ Spend
  /\ connected' = FALSE
  /\ UNCHANGED <<running, proxyState, queue, unfinished, leases,
                 lease, stream, ready, clock, eventTask, sendTask>>

\* Mutant of NewClock: what the old stream has heard is counted twice.
NewClockKept == offset' = offset + audio /\ UNCHANGED audio
NewClock == offset' = offset + audio /\ audio' = 0
\* The events end, or raise.  A lease that takes no input is not reconnected.
EventsEnd ==
  /\ events = "reading" /\ ~(reading = stream /\ connected)
  /\ IF ~Accepting
     THEN /\ events' = "done"
          /\ UNCHANGED <<proxyState, connection, clock, attempt>>
     ELSE /\ events' = "backoff" /\ attempt' = 0
          /\ stream' = IF stream = reading THEN 0 ELSE stream
          /\ NewClock /\ epoch' = epoch + 1
          /\ Says("backoff")
          /\ UNCHANGED <<connected, ready, input>>
  /\ UNCHANGED <<running, queue, unfinished, leases, faults, lease, reading, sendTask>>

\* The back-off is over.  What was pushed meanwhile is a gap, and the new stream starts
\* here; the old one was closed before, so that no send on it is still under way.
RedialCapture ==
  /\ events = "backoff" /\ sender # "sending"
  /\ events' = "dialing" /\ attempt' = attempt + 1
  /\ offset' = input
  /\ Says("connecting")
  /\ UNCHANGED <<running, queue, unfinished, leases, faults, lease, connection,
                 epoch, audio, input, reading, sendTask>>
CaptureRedialed ==
  /\ events = "dialing"
  /\ events' = "reading" /\ reading' = epoch /\ attempt' = 0
  /\ stream' = epoch /\ connected' = TRUE /\ ready' = FALSE
  /\ Says("connected")
  /\ UNCHANGED <<running, queue, unfinished, leases, faults, lease, clock,
                 sendTask>>
\* The dial fails: the queue is emptied, and after the last delay the session gives up,
\* with its lease still held and its input on.
RedialFails ==
  /\ events = "dialing"
  /\ Drain(0)
  /\ Says("backoff")
  /\ IF attempt < MaxDelays
     THEN events' = "backoff" /\ UNCHANGED offset
     ELSE events' = "done" /\ offset' = input
  /\ UNCHANGED <<running, leases, faults, lease, connection, epoch, audio, input,
                 reading, attempt, sendTask>>
=============================================================================
