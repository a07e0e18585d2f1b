---------------------------- MODULE OutputCapture ----------------------------
(***************************************************************************)
(* Subtitles of what an output device plays: AudioCaptureClient,           *)
(* HelperSupervisor and PhysicalOutputSource (src/sona/audio/              *)
(* output_source.py) under SubtitleAudioWorkload (src/sona/subtitles/      *)
(* audio_workload.py), with the helper at the other end of the socket.     *)
(*                                                                         *)
(* Preparing, committing and aborting are calls of the mode coordinator,   *)
(* one at a time, that may be cancelled at any await.  Deactivating, and   *)
(* the end of a pump that lost its source, start one cleanup task that is  *)
(* never cancelled and goes on when its caller is.                         *)
(***************************************************************************)
EXTENDS CaptureHelper, FiniteSets

CONSTANTS
  MaxLeases,   \* bound on preparations
  MaxAttempts, \* restart_attempts + 1
  MaxCancels   \* bound on cancellations

ASSUME OutputAssumption ==
  MaxLeases \in Nat /\ MaxAttempts \in Nat \ {0} /\ MaxCancels \in Nat

VARIABLES
  \* AudioCaptureClient
  conn,     \* "none" | "open" | "failed": no client or closed, connected, _failure is set
  reader,   \* TRUE while _reader_loop runs
  pending,  \* the request that waits for its answer, or "none"
  answer,   \* "none" | "ok" | "error": what its future holds
  frames,   \* _pcm_queue: sequence numbers of frames, and Terminal
  \* HelperSupervisor
  attempt,  \* start attempts of this preparation
  reaping,  \* "none" | "closing" | "waiting": where _stop_current is
  orphans,  \* helpers that run and that no supervisor knows
  \* PhysicalOutputSource and SubtitleAudioWorkload
  state,    \* AudioSourceState
  op,       \* where the call of the coordinator is, or which one was the last
  pump,     \* TRUE while _forward runs
  last,     \* _last_sequence
  taken,    \* frames the pump has taken
  sinkOn,   \* browser_capture_active
  cleanup,  \* "none" | "pump" | "stop" | "reap" | "sink" | "done" | "failed"
  leases, cancels

clientVars == <<conn, reader, pending, answer, frames>>
workVars == <<attempt, reaping, orphans, state, op, pump, last, taken, sinkOn, cleanup,
              leases, cancels>>
vars == <<helperVars, clientVars, workVars>>

Terminal == 0
Init ==
  /\ HelperInit
  /\ conn = "none" /\ reader = FALSE /\ pending = "none" /\ answer = "none" /\ frames = <<>>
  /\ attempt = 0 /\ reaping = "none" /\ orphans = 0
  /\ state = "STOPPED" /\ op = "none" /\ pump = FALSE /\ last = 0 /\ taken = 0
  /\ sinkOn = FALSE /\ cleanup = "none" /\ leases = 0 /\ cancels = 0
-----------------------------------------------------------------------------
(***************************************************************************)
(* The client.                                                             *)
(***************************************************************************)
MakeRoom == IF Len(frames) < QueueSize THEN frames ELSE Tail(frames)
\* _failure is set, the request that waits is failed, and the pump is told.
Fails ==
  /\ conn' = "failed" /\ frames' = Append(MakeRoom, Terminal)
  /\ answer' = IF pending # "none" /\ answer = "none" THEN "error" ELSE answer
\* An answer that no request waits for: an error means that the capture has failed, the
\* rest goes to the event queue, which nobody reads.
Answered(m) == m.to = pending /\ answer = "none"
\* Mutant of Unexpected: late errors go to the event queue as well.
UnexpectedIgnored(m) == UNCHANGED <<conn, answer, frames>>
Unexpected(m) == IF m.what = "error" THEN Fails ELSE UNCHANGED <<conn, answer, frames>>
Read ==
  /\ reader /\ socket \in {"open", "cut"} /\ wire # <<>> /\ wire' = Tail(wire)
  /\ LET m == Head(wire) IN
     IF IsPcm(m)
     THEN /\ frames' = Append(MakeRoom, m.seq)
          /\ dropped' = dropped + Len(frames) + 1 - Len(frames')
          /\ UNCHANGED <<conn, answer>>
     ELSE /\ UNCHANGED dropped
          /\ IF Answered(m)
             THEN /\ answer' = IF m.what = "ack" THEN "ok" ELSE "error"
                  /\ UNCHANGED <<conn, frames>>
             ELSE Unexpected(m)
  /\ UNCHANGED <<process, socket, phase, ended, engine, produced, commands, replying,
                 reporting, outbox, faults, reader, pending, workVars>>
ReadsEnd ==
  /\ reader /\ socket = "cut" /\ wire = <<>> /\ reader' = FALSE
  /\ Fails
  /\ UNCHANGED <<helperVars, pending, workVars>>

\* request: what it sends and waits for; at most one waits at a time.
Sends(r) ==
  /\ conn = "open" /\ pending' = r /\ answer' = "none"
  /\ commands' = IF socket = "open" THEN Append(commands, r) ELSE commands
  /\ UNCHANGED <<process, socket, phase, ended, engine, produced, replying, reporting,
                 outbox, wire, dropped, faults, conn, reader, frames>>
Succeeds(r) == pending = r /\ answer = "ok" /\ pending' = "none"
               /\ UNCHANGED <<helperVars, conn, reader, answer, frames>>
\* It is answered with an error or the connection fails; or it times out.
Refused == (answer = "error" /\ UNCHANGED faults) \/ (answer = "none" /\ Spend)
Over == Refused \/ (answer = "ok" /\ UNCHANGED faults)
Raises(r) ==
  /\ pending = r /\ pending' = "none"
  /\ Refused
  /\ UNCHANGED <<process, socket, phase, ended, engine, produced, commands, replying,
                 reporting, outbox, wire, dropped, conn, reader, answer, frames>>
\* close: the reader is cancelled and the socket closed before the first await.
CloseClient ==
  /\ conn' = "none" /\ reader' = FALSE /\ pending' = "none" /\ answer' = "none"
  /\ frames' = <<>>
  /\ socket' = IF socket = "open" THEN "left" ELSE "none"
  /\ wire' = <<>>
  /\ UNCHANGED <<process, phase, ended, engine, produced, commands, replying, reporting,
                 outbox, dropped>>
-----------------------------------------------------------------------------
(***************************************************************************)
(* The supervisor.                                                         *)
(***************************************************************************)
Spawn ==
  /\ process' = "starting" /\ socket' = "none" /\ Fresh
  /\ orphans' = IF process \in {"starting", "up"} THEN orphans + 1 ELSE orphans
\* _start_once: connects as soon as the socket is there.
Connect ==
  /\ op = "starting" /\ process = "up" /\ socket = "none"
  /\ socket' = "open" /\ conn' = "open" /\ reader' = TRUE /\ frames' = <<>>
  /\ pending' = "hello" /\ answer' = "none" /\ commands' = <<"hello">> /\ op' = "hello"
  /\ UNCHANGED <<process, phase, ended, engine, produced, replying, reporting, outbox,
                 wire, dropped, faults, attempt, reaping, orphans, state, pump, last, taken,
                 sinkOn, cleanup, leases, cancels>>
\* The helper is gone before it was connected, or does not answer: it is stopped, and
\* started again after a pause while attempts are left.
StartFails ==
  /\ \/ op = "starting" /\ process = "none" /\ UNCHANGED faults
     \/ op = "hello" /\ Refused
  /\ CloseClient /\ op' = "restarting" /\ reaping' = "closing"
  /\ UNCHANGED <<attempt, orphans, state, pump, last, taken, sinkOn, cleanup, leases,
                 cancels>>
Restart ==
  /\ op = "backoff" /\ attempt < MaxAttempts /\ attempt' = attempt + 1
  /\ Spawn /\ op' = "starting"
  /\ UNCHANGED <<faults, clientVars, reaping, state, pump, last, taken, sinkOn, cleanup,
                 leases, cancels>>

\* _stop_current after the client is closed: the helper is told to stop, waited for, and
\* killed when it does not.
Closes == CloseClient /\ reaping' = "closing"
SaysTerminate == process' = IF process = "none" THEN "none" ELSE "terminating"
TellsHelper ==
  /\ reaping = "closing" /\ reaping' = "waiting" /\ SaysTerminate
  /\ UNCHANGED <<socket, phase, ended, engine, produced, commands, replying, reporting,
                 outbox, wire, dropped, faults, clientVars, attempt, orphans, state, op,
                 pump, last, taken, sinkOn, cleanup, leases, cancels>>
\* What follows: the pause before another attempt, the end of a refused preparation or of
\* an abort, or the rest of the cleanup.
Reaped ==
  /\ reaping = "waiting" /\ process = "none" /\ reaping' = "none"
  /\ CASE cleanup = "reap" -> cleanup' = "sink" /\ state' = "STOPPED" /\ UNCHANGED op
       [] op = "restarting" /\ attempt < MaxAttempts ->
            op' = "backoff" /\ UNCHANGED <<cleanup, state>>
       [] OTHER -> op' = "none" /\ state' = "STOPPED" /\ UNCHANGED cleanup
  /\ UNCHANGED <<helperVars, clientVars, attempt, orphans, pump, last, taken, sinkOn,
                 leases, cancels>>
-----------------------------------------------------------------------------
(***************************************************************************)
(* The source and the workload.                                            *)
(***************************************************************************)
\* Mutant of MayPrepare: it does not wait for the cleanup.
MayPrepareAtOnce == op \in {"none", "committed"} /\ (cleanup = "none" => op = "none")
MayPrepare == op = "none" /\ cleanup \in {"none", "done"}
Prepare ==
  /\ MayPrepare /\ leases < MaxLeases /\ leases' = leases + 1
  /\ cleanup' = "none" /\ op' = "starting" /\ state' = "PREPARING" /\ attempt' = 1
  /\ Spawn
  /\ conn' = "none" /\ reader' = FALSE /\ pending' = "none" /\ answer' = "none"
  /\ frames' = <<>> /\ reaping' = "none" /\ pump' = FALSE /\ last' = 0 /\ taken' = 0
  /\ UNCHANGED <<faults, sinkOn, cancels>>
AsksToPrepare ==
  /\ op = "hello" /\ answer = "ok" /\ op' = "preparing"
  /\ IF conn = "open" THEN Sends("prepare")
     ELSE pending' = "prepare" /\ answer' = "error"
          /\ UNCHANGED <<helperVars, conn, reader, frames>>
  /\ UNCHANGED <<attempt, reaping, orphans, state, pump, last, taken, sinkOn, cleanup,
                 leases, cancels>>
Prepared ==
  /\ op = "preparing" /\ Succeeds("prepare") /\ op' = "sink" /\ state' = "READY"
  /\ UNCHANGED <<attempt, reaping, orphans, pump, last, taken, sinkOn, cleanup, leases,
                 cancels>>
SinkPrepared ==
  /\ op = "sink" /\ op' = "prepared"
  /\ UNCHANGED <<helperVars, clientVars, attempt, reaping, orphans, state, pump, last,
                 taken, sinkOn, cleanup, leases, cancels>>
\* The source is refused: it fails, and its supervisor is stopped.
Unwind ==
  /\ CloseClient /\ op' = "unwinding" /\ reaping' = "closing" /\ state' = "FAILED"
  /\ UNCHANGED <<attempt, orphans, pump, last, taken, sinkOn, cleanup, leases>>
PrepareFails ==
  /\ op = "preparing" /\ pending = "prepare"
  /\ Refused
  /\ Unwind /\ UNCHANGED cancels

Kept == UNCHANGED <<attempt, reaping, orphans, pump, last, taken, sinkOn, cleanup, leases,
                    cancels>>
Commit ==
  /\ op = "prepared" /\ state = "READY"
  /\ \/ Sends("commit") /\ op' = "committing" /\ UNCHANGED state
     \/ conn = "failed" /\ state' = "FAILED" /\ UNCHANGED <<helperVars, clientVars, op>>
  /\ Kept
CommitFails == op = "committing" /\ Raises("commit") /\ op' = "prepared" /\ state' = "FAILED" /\ Kept
Committed ==
  /\ op = "committing" /\ Succeeds("commit") /\ state' = "ACTIVE"
  /\ op' = "committed" /\ sinkOn' = TRUE /\ pump' = TRUE
  /\ UNCHANGED <<attempt, reaping, orphans, last, taken, cleanup, leases, cancels>>
SinkRefuses ==
  op = "committing" /\ Succeeds("commit") /\ state' = "ACTIVE" /\ op' = "prepared" /\ Kept

\* _release of the source: the helper is asked to abort or stop if it can still be asked.
Release(r, asked, closed) ==
  IF conn = "open" THEN Sends(r) /\ asked /\ UNCHANGED reaping
                   ELSE Closes /\ closed /\ UNCHANGED faults
\* The coordinator aborts, or the sink cannot be prepared.
Abort ==
  /\ op \in {"prepared", "sink"} /\ op' = "aborting"
  /\ Release("abort", TRUE, TRUE)
  /\ UNCHANGED <<attempt, orphans, state, pump, last, taken, sinkOn, cleanup, leases, cancels>>
AbortAnswered ==
  /\ op = "aborting" /\ pending = "abort"
  /\ Over
  /\ Closes
  /\ UNCHANGED <<attempt, orphans, state, op, pump, last, taken, sinkOn, cleanup, leases,
                 cancels>>
\* A call of the coordinator is cancelled at one of its awaits.
Cancelled ==
  /\ cancels < MaxCancels /\ cancels' = cancels + 1
  /\ \/ /\ op \in {"starting", "hello", "restarting", "backoff", "preparing"}
        /\ Unwind /\ UNCHANGED faults
     \/ /\ op = "committing" /\ op' = "prepared" /\ state' = "FAILED" /\ pending' = "none"
        /\ UNCHANGED <<helperVars, conn, reader, answer, frames, attempt, reaping, orphans,
                       pump, last, taken, sinkOn, cleanup, leases>>
     \/ /\ op = "aborting" /\ reaping = "none" /\ Closes
        /\ UNCHANGED <<faults, attempt, orphans, state, op, pump, last, taken, sinkOn,
                       cleanup, leases>>
     \* While the client is closed: a refused preparation stops the supervisor once more,
     \* an abort leaves the helper running.
     \/ /\ op \in {"unwinding", "aborting"} /\ reaping # "none" /\ reaping' = "none"
        /\ op' = "none" /\ state' = "STOPPED"
        /\ IF op = "unwinding" THEN SaysTerminate ELSE UNCHANGED process
        /\ UNCHANGED <<socket, phase, ended, engine, produced, commands, replying,
                       reporting, outbox, wire, dropped, faults, clientVars, attempt,
                       orphans, pump, last, taken, sinkOn, cleanup, leases>>

\* deactivate_browser_capture, or a pump without its source: one cleanup for both.
Begin == IF cleanup = "none" THEN "pump" ELSE cleanup
Deactivate ==
  /\ op = "committed" /\ cleanup = "none" /\ cleanup' = Begin
  /\ UNCHANGED <<helperVars, clientVars, attempt, reaping, orphans, state, op, pump, last,
                 taken, sinkOn, leases, cancels>>
PumpTakes ==
  /\ pump /\ frames # <<>> /\ Head(frames) # Terminal
  /\ frames' = Tail(frames) /\ last' = Head(frames) /\ taken' = taken + 1
  /\ UNCHANGED <<helperVars, conn, reader, pending, answer, attempt, reaping, orphans,
                 state, op, pump, sinkOn, cleanup, leases, cancels>>
\* Mutant of PumpEnds: the error is recorded, the subtitles go on.
PumpEndsOnly == pump' = FALSE /\ UNCHANGED cleanup
PumpEnds == pump' = FALSE /\ cleanup' = Begin
\* The error of the client, or no frame in time.
PumpFails ==
  /\ pump /\ (frames # <<>> => Head(frames) = Terminal)
  /\ frames' = IF frames = <<>> THEN frames ELSE Tail(frames)
  /\ state' = IF frames = <<>> THEN state ELSE "FAILED"
  /\ PumpEnds
  /\ UNCHANGED <<helperVars, conn, reader, pending, answer, attempt, reaping, orphans, op,
                 last, taken, sinkOn, leases, cancels>>
CleanPump ==
  /\ cleanup = "pump" /\ pump' = FALSE
  /\ Release("stop", cleanup' = "stop", cleanup' = "reap")
  /\ UNCHANGED <<attempt, orphans, state, op, last, taken, sinkOn, leases, cancels>>
CleanStopped ==
  /\ cleanup = "stop" /\ cleanup' = "reap"
  /\ Over
  /\ Closes
  /\ UNCHANGED <<attempt, orphans, state, op, pump, last, taken, sinkOn, leases, cancels>>
\* The sink gives up its stream before anything in it can raise.
CleanSink ==
  /\ cleanup = "sink" /\ sinkOn' = FALSE /\ op' = "none"
  /\ \/ cleanup' = "done" /\ UNCHANGED faults
     \/ cleanup' = "failed" /\ Spend
  /\ UNCHANGED <<process, socket, phase, ended, engine, produced, commands, replying,
                 reporting, outbox, wire, dropped, clientVars, attempt, reaping, orphans,
                 state, pump, last, taken, leases, cancels>>
-----------------------------------------------------------------------------
Helper == (HelperThreads \/ Frame \/ NotReady \/ CaptureFails \/ Dies) /\ UNCHANGED <<clientVars, workVars>>
Tasks ==
  \/ Read \/ ReadsEnd
  \/ Connect \/ StartFails \/ Restart \/ TellsHelper \/ Reaped
  \/ AsksToPrepare \/ Prepared \/ PrepareFails \/ SinkPrepared
  \/ CommitFails \/ Committed \/ SinkRefuses \/ AbortAnswered
  \/ PumpTakes \/ PumpFails \/ CleanPump \/ CleanStopped \/ CleanSink
Calls == Prepare \/ Commit \/ Abort \/ Cancelled \/ Deactivate

Next == Helper \/ Tasks \/ Calls

\* Threads and tasks go on while they can; a helper that was told to stop is gone after a
\* while, by itself or killed.
Fairness == WF_vars(HelperThreads /\ UNCHANGED <<clientVars, workVars>>) /\ WF_vars(Tasks)

Spec == Init /\ [][Next]_vars /\ Fairness
-----------------------------------------------------------------------------
Idle == op = "none" /\ cleanup \in {"none", "done", "failed"}
Stream == wire \o outbox
Count(s) == Cardinality({i \in DOMAIN s : IsPcm(s[i])})
OnTheirWay == Count(Stream) + Cardinality({i \in DOMAIN frames : frames[i] # Terminal})

TypeOK ==
  /\ process \in {"none", "starting", "up", "terminating"}
  /\ socket \in {"none", "open", "left", "cut"}
  /\ phase \in {"stopped", "preparing", "ready", "active", "failed"}
  /\ engine \in BOOLEAN /\ Len(outbox) <= QueueSize /\ Len(frames) <= QueueSize
  /\ state \in {"STOPPED", "PREPARING", "READY", "ACTIVE", "FAILED"}
  /\ conn \in {"none", "open", "failed"} /\ pending \in Requests \cup {"none"}

\* The variables have their types, and every frame of a capture that has not failed was
\* taken by the pump, is on its way or is counted as dropped; frames keep their order.
FramesAccounted ==
  /\ TypeOK
  /\ conn = "open" /\ socket = "open" =>
       /\ produced = taken + OnTheirWay + dropped
       /\ \A i \in DOMAIN frames : frames[i] > last
       /\ \A i, j \in DOMAIN frames : i < j => frames[i] < frames[j]

\* While the source is active the helper is, or the news that it is not is on its way and
\* will not be lost: after an error, or the answer to a stop or an abort, the helper sends
\* no frame, so the error that ends the queue of the client is never pushed out of it by
\* later frames.
ActiveIsAgreed ==
  /\ \A i, j \in DOMAIN Stream :
       i < j /\ (Stream[i].what = "error" \/ Stream[i].to \in {"stop", "abort"})
         => ~IsPcm(Stream[j])
  /\ state = "ACTIVE" /\ cleanup = "none" /\ op = "committed" =>
       \/ phase = "active" /\ engine
       \/ conn = "failed" \/ socket # "open" \/ process # "up"
       \/ \E m \in reporting \cup ToSet(Stream) : m.what = "error"

\* At most one helper runs, and none when no call is under way; unless an abort was
\* cancelled while it closed the connection.
HelperReclaimed == cancels = 0 => orphans = 0 /\ (Idle => process = "none")

\* A capture that loses its helper ends, and its subtitles with it: the microphone or a
\* silent source never goes on in its place.
FailureEndsCapture == (op = "committed" /\ conn = "failed") ~> ~sinkOn

=============================================================================
