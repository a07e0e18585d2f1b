------------------------------ MODULE AudioHub -------------------------------
(***************************************************************************)
(* The microphone (src/sona/audio/hub.py): a capture thread that hands     *)
(* every chunk to the event loop with call_soon_threadsafe, a bounded      *)
(* queue and one worker per sink, and the sinks of UIRuntime               *)
(* (src/sona/ui/runtime.py), which let a chunk through by mute, PCM owner  *)
(* and session.                                                            *)
(*                                                                         *)
(* Chunks are counted.  The worker of a sink takes a chunk and calls the   *)
(* sink in one step: neither sink awaits before its checks.  The third     *)
(* sink, which measures the level, is a publication of the runtime state   *)
(* at any time (ControlChannel).                                           *)
(***************************************************************************)
EXTENDS Naturals

CONSTANTS
  Workloads,
  SinkSize,       \* queue_size of the hub
  AudioQueueSize, \* AUDIO_QUEUE_MAXSIZE
  MaxPosted,      \* bound on the callbacks of the thread that wait for the loop
  MaxInputs       \* bound on chunks, commands, subtitles, publications and failures together

ASSUME AudioHubAssumption ==
  /\ SinkSize \in Nat \ {0} /\ AudioQueueSize \in Nat \ {0}
  /\ MaxPosted \in Nat /\ MaxInputs \in Nat

Sinks == {"pipecat", "subtitle"}

VARIABLES
  mode, owner, revision, \* RuntimeModeCoordinator
  muted,      \* _muted
  hub,        \* start and stop: "off", "opening", "on", "failed", "joining", "stopped"
  thread,     \* "none", "opening", "reading", "ended"
  posted,     \* chunks whose callback waits for the event loop
  queued,     \* chunks in the queue of each sink
  audioQueue, \* chunks that wait for the conversation, UIRuntime.audio_queue
  inputs

capture == <<hub, thread, posted>>
sound == <<muted, queued, audioQueue>>

\* UIRuntime.start has returned and stop has not been called: the sockets are served.
Started == hub \in {"on", "failed"}
Running == hub \in {"opening", "on"}
Input == inputs < MaxInputs /\ inputs' = inputs + 1
Drained == [s \in Sinks |-> 0]
-----------------------------------------------------------------------------
HubStart ==
  /\ hub = "off"
  /\ hub' = "opening" /\ thread' = "opening"
  /\ UNCHANGED <<posted, sound, inputs>>

StreamOpens ==
  /\ thread = "opening"
  /\ \/ thread' = "reading" /\ UNCHANGED inputs
     \/ thread' = "ended" /\ Input
  /\ UNCHANGED <<hub, posted, sound>>

\* The thread reports how the stream was opened; a failed start takes everything down.
StartReturns ==
  /\ hub = "opening" /\ thread # "opening"
  /\ \/ thread = "reading" /\ hub' = "on" /\ UNCHANGED queued
     \/ thread = "ended" /\ hub' = "failed" /\ queued' = Drained
  /\ UNCHANGED <<thread, posted, muted, audioQueue, inputs>>

\* UIRuntime.stop, when the coordinator has stopped.
HubStop ==
  /\ hub = "on" /\ mode = "idle" /\ owner = "none"
  /\ hub' = "joining"
  /\ UNCHANGED <<thread, posted, sound, inputs>>

\* The join has a timeout: the thread may still be in its last read.
StopReturns ==
  /\ hub = "joining"
  /\ hub' = "stopped" /\ queued' = Drained
  /\ UNCHANGED <<thread, posted, muted, audioQueue, inputs>>

\* A chunk whose read ended after _running was cleared is thrown away.
ThreadReads ==
  /\ thread = "reading"
  /\ IF Running
     THEN Input /\ posted < MaxPosted /\ posted' = posted + 1 /\ UNCHANGED thread
     ELSE thread' = "ended" /\ UNCHANGED <<posted, inputs>>
  /\ UNCHANGED <<hub, sound>>

\* Mutant of Accepts: what was captured before the microphone was muted is let in.
AcceptsMuted == Running
\* The state of the hub when the callback runs, not when the chunk was read.
Accepts == Running /\ ~muted

\* _on_chunk_received: a full queue loses its oldest chunk.
OnChunk ==
  /\ posted > 0
  /\ posted' = posted - 1
  /\ queued' = IF Accepts THEN [s \in Sinks |-> IF queued[s] < SinkSize THEN queued[s] + 1
                                                                      ELSE queued[s]]
                          ELSE queued
  /\ UNCHANGED <<hub, thread, muted, audioQueue, inputs>>

Take(s) == Running /\ queued[s] > 0 /\ queued' = [queued EXCEPT ![s] = @ - 1]

\* _enqueue_audio: a full queue, or a session that is not active, loses the chunk.
EnqueueAudio ==
  /\ Take("pipecat")
  /\ \/ UNCHANGED audioQueue
     \/ /\ ~muted /\ owner = "assistant" /\ audioQueue < AudioQueueSize
        /\ audioQueue' = audioQueue + 1
  /\ UNCHANGED <<capture, muted, inputs>>

\* _push_subtitle_audio: to the proxy, or nowhere.
PushSubtitleAudio ==
  /\ Take("subtitle")
  /\ UNCHANGED <<capture, muted, audioQueue, inputs>>

\* The pump of AudioInjector.
Pump ==
  /\ audioQueue > 0
  /\ audioQueue' = audioQueue - 1
  /\ UNCHANGED <<capture, muted, queued, inputs>>

\* UIRuntime.set_mic_muted with AudioHub.set_muted.
SetMuted(m) ==
  /\ muted' = m
  /\ queued' = IF m THEN Drained ELSE queued
  /\ audioQueue' = IF m THEN 0 ELSE audioQueue

\* _set_pcm_owner.
SetPcmOwner(w) ==
  /\ audioQueue' = IF w = "none" THEN 0 ELSE audioQueue
  /\ UNCHANGED <<muted, queued>>

HubInit ==
  /\ muted = FALSE /\ hub = "off" /\ thread = "none" /\ posted = 0
  /\ queued = Drained /\ audioQueue = 0 /\ inputs = 0

HubStep ==
  \/ HubStart \/ StreamOpens \/ StartReturns \/ StopReturns \/ ThreadReads
  \/ OnChunk \/ EnqueueAudio \/ PushSubtitleAudio \/ Pump
=============================================================================
