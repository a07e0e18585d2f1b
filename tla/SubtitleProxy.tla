---------------------------- MODULE SubtitleProxy ----------------------------
(***************************************************************************)
(* SubtitleProxy (src/sona/subtitles/proxy.py): the facade over the two    *)
(* sessions.  It hands each chunk to one of them, guards the preparation   *)
(* and the commit of one against the other, and closes them.               *)
(*                                                                         *)
(* Its commands come from the mode coordinator, one at a time; only the    *)
(* clearing of the subtitles and the end of a lost output source come by   *)
(* themselves.  A switch from subtitles to a meeting prepares the meeting  *)
(* while the subtitles still run.                                          *)
(***************************************************************************)
EXTENDS MeetingCapture, StandardSubtitles

vars == <<sharedVars, captureVars, subtitleVars>>

Busy == \/ lease \in {"connecting", "waiting", "joining", "flushing", "ending"}
        \/ subLease \in {"connecting", "waiting"}

Init ==
  /\ running = TRUE /\ proxyState = "paused" /\ queue = <<>> /\ unfinished = 0
  /\ leases = 0 /\ faults = 0
  /\ CaptureInit /\ SubtitlesInit

NewLease ==
  /\ leases < MaxLeases /\ leases' = leases + 1
  /\ running' = TRUE
-----------------------------------------------------------------------------
(***************************************************************************)
(* The meeting.                                                            *)
(***************************************************************************)
Prepare ==
  /\ ~Busy /\ subLease \in {"none", "committed"}
  /\ NewLease /\ PrepareCapture
  /\ UNCHANGED <<faults, subtitleVars>>

\* Mutant of Closed: the state forgets the subtitles that go on.
ClosedPaused ==
  /\ CloseCapture /\ Says("paused")
  /\ discarded' = IF Committed THEN discarded + Len(queue) ELSE discarded
  /\ UNCHANGED <<running, leases, faults, subLease, subConnection, subClock, subGap,
                 supervisor, subInHand, heard, reported>>
\* _close_capture.  When subtitles run, what they had queued is lost with the rest.
Closed ==
  /\ CloseCapture
  /\ Says(IF Committed THEN "connected" ELSE "paused")
  /\ discarded' = IF Committed THEN discarded + Len(queue) ELSE discarded
  /\ UNCHANGED <<running, leases, faults, subLease, subConnection, subClock, subGap,
                 supervisor, subInHand, heard, reported>>
\* The preparation times out, fails or is cancelled.
PrepareFails == lease \in {"connecting", "waiting"} /\ Closed
Abort == lease \in {"prepared", "accepting"} /\ ~Busy /\ Closed
\* finish is refused while the stream is lost, times out, or ends after its last wait.
FinishRefused == Accepting /\ stream = 0 /\ ~Busy /\ Closed
FinishEnds == lease \in {"joining", "flushing", "ending"} /\ Closed

Commit == ~Busy /\ ~Committed /\ CommitCapture /\ UNCHANGED subtitleVars
Finish == ~Busy /\ FinishCapture /\ UNCHANGED subtitleVars
-----------------------------------------------------------------------------
(***************************************************************************)
(* The subtitles.                                                          *)
(***************************************************************************)
PrepareBrowser ==
  /\ ~Busy /\ ~Owned
  /\ NewLease /\ PrepareSubtitles
  /\ UNCHANGED <<faults, captureVars>>
\* Aborting, deactivating and a failed preparation close the stream, the state stays.
BrowserClosed ==
  /\ CloseStream
  /\ UNCHANGED <<running, proxyState, leases, faults, captureVars>>
PrepareBrowserFails == subLease \in {"connecting", "waiting"} /\ BrowserClosed
AbortBrowser == subLease = "prepared" /\ BrowserClosed
Deactivate == Committed /\ BrowserClosed
CommitBrowser == ~Owned /\ CommitSubtitles /\ UNCHANGED captureVars

\* stop: both sessions are closed.
Stop ==
  /\ ~Busy /\ running
  /\ running' = FALSE /\ Says("stopped")
  /\ lease' = "none" /\ stream' = 0 /\ connected' = FALSE
  /\ ready' = (ready /\ ~Owned)
  /\ events' = "none" /\ reading' = 0 /\ attempt' = 0
  /\ sender' = "none" /\ sendingOn' = 0 /\ inHand' = NoChunk
  /\ subLease' = "none" /\ subGap' = 0 /\ supervisor' = "none" /\ serving' = 0
  /\ subInHand' = 0 /\ subStream' = 0 /\ subConnected' = FALSE
  /\ heard' = 0 /\ reported' = 0 /\ discarded' = 0
  /\ Drain(subInHand + Held)
  /\ UNCHANGED <<leases, faults, clock, subReady, subClock>>

\* push_audio.
Push ==
  \/ PushMeeting /\ UNCHANGED subtitleVars
  \/ ~Accepting /\ PushSubtitles /\ UNCHANGED captureVars

\* diagnostics, for the owner of the PCM.
DiagnosedReady(owner) ==
  /\ IF owner = "subtitles" THEN subStream # 0 /\ subReady
                            ELSE stream # 0 /\ ready /\ lease # "connecting"
  /\ proxyState = "connected"
Workload(owner) ==
  LET active == IF owner = "subtitles" THEN Committed ELSE Accepting
  IN IF proxyState = "backoff" \/ (active /\ ~DiagnosedReady(owner)) THEN "degraded"
     ELSE IF DiagnosedReady(owner) THEN "ready" ELSE "starting"
-----------------------------------------------------------------------------
MeetingTasks ==
  /\ \/ CaptureConnected \/ CapturePrepared \/ Joined \/ Flushed
     \/ AwaitChunk \/ GetChunk \/ Unhold \/ SendMeeting \/ SendFails \/ GiveUpChunk
     \/ CaptureReady \/ EventsEnd \/ RedialCapture \/ CaptureRedialed
  /\ UNCHANGED subtitleVars
SubtitleTasks ==
  /\ \/ SubtitlesConnected \/ SubtitlesPrepared \/ SubtitlesReady
     \/ TakeChunk \/ SendChunk \/ ServeEnds \/ RedialSubtitles \/ SubtitlesRedialed
  /\ UNCHANGED captureVars
Network ==
  \/ (MeetingBreaks \/ RedialFails) /\ UNCHANGED subtitleVars
  \/ (SubtitlesBreak \/ SubtitlesRedialFails) /\ UNCHANGED captureVars
Commands ==
  \/ Prepare \/ PrepareFails \/ Commit \/ Abort \/ Finish \/ FinishRefused \/ FinishEnds
  \/ PrepareBrowser \/ PrepareBrowserFails \/ CommitBrowser \/ AbortBrowser \/ Deactivate
  \/ ClearSubtitles /\ UNCHANGED captureVars
  \/ Stop

Next == MeetingTasks \/ SubtitleTasks \/ Network \/ Commands \/ Push

\* The tasks go on while they can, and a finish ends, at the latest by its timeout.
Fairness == WF_vars(MeetingTasks) /\ WF_vars(SubtitleTasks) /\ WF_vars(FinishEnds)

Spec == Init /\ [][Next]_vars /\ Fairness
-----------------------------------------------------------------------------
(***************************************************************************)
(* Properties.                                                             *)
(***************************************************************************)
Positions == 0..MaxChunks
TypeOK ==
  /\ running \in BOOLEAN /\ proxyState \in ProxyStates
  /\ queue \in Seq(Sessions) /\ Len(queue) <= QueueSize
  /\ lease \in LeaseStates /\ subLease \in SubLeaseStates
  /\ input \in Positions /\ subInput \in Positions
  /\ events \in {"none", "reading", "backoff", "dialing", "done"}
  /\ sender \in {"none", "idle", "getting", "holding", "sending", "closing"}
  /\ supervisor \in {"none", "serving", "backoff", "dialing", "done"}

\* Although both sessions drain and read one queue, no chunk of one conversation is ever
\* sent to the stream of the other; and the count that queue.join() waits for is that of
\* the chunks still queued or in the hands of a send task, so that a finish neither waits
\* for nothing nor raises.
OwnChunksOnly ==
  /\ TypeOK
  /\ sender = "sending" => inHand = "meeting"
  /\ Accepting => \A i \in DOMAIN queue : queue[i] = "meeting"
  /\ Committed /\ ~Accepting => \A i \in DOMAIN queue : queue[i] = "subtitles"
  /\ unfinished = Len(queue) + subInHand + (IF inHand = NoChunk THEN 0 ELSE 1)

\* Every chunk pushed to running subtitles was heard, is on its way, is counted as a gap
\* or was announced as one, unless a clear or the other session took it; and the time at
\* which the stream puts its next chunk is never ahead of the input.
SubtitlesAccounted ==
  Committed =>
    /\ subInput = heard + subInHand + Len(queue) + subGap + reported + discarded
    /\ subOffset + subAudio + subInHand + Len(queue) <= subInput

\* After any number of reconnections the clock of a meeting is ahead of its input by no
\* more than the chunks a queue and a send task can carry over.
ClockNearInput == offset + audio <= input + QueueSize + 1

\* A session that hears its input is reported as ready, whatever the other session did to
\* the state they share: no late report of the one hides the other.
HealthyIsReported ==
  /\ Accepting /\ stream # 0 /\ ready => Workload("meeting") = "ready"
  /\ Committed /\ ~Owned /\ subStream # 0 /\ subReady => Workload("subtitles") = "ready"

\* Subtitles that lost their connection get it back, as long as they are not stopped.
SubtitlesComeBack ==
  (Committed /\ ~(Current /\ subReady)) ~> (~Committed \/ (Current /\ subReady))

=============================================================================
