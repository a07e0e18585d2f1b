----------------------------- MODULE SharedAudio -----------------------------
(***************************************************************************)
(* What the two SpeechRail sessions of SubtitleProxy share                 *)
(* (src/sona/subtitles/proxy.py): the bounded queue of microphone chunks   *)
(* that is handed to both, the running flag, and the one state that both   *)
(* report through _on_session_state.                                       *)
(*                                                                         *)
(* A chunk is one unit of time, and stands for the session it was pushed   *)
(* to, which the code does not keep with it.                               *)
(***************************************************************************)
EXTENDS Naturals, Sequences

CONSTANTS
  QueueSize,  \* _AUDIO_QUEUE_SIZE
  MaxChunks,  \* bound on the chunks pushed in one lease
  MaxLeases,  \* bound on the leases prepared in a behaviour
  MaxFaults,  \* bound on broken connections, failed dials of the subtitles and clears
  MaxDelays   \* the number of back-off delays

ASSUME BoundsAssumption ==
  /\ QueueSize \in Nat \ {0} /\ MaxChunks \in Nat
  /\ MaxLeases \in Nat /\ MaxFaults \in Nat /\ MaxDelays \in Nat \ {0}

Sessions == {"meeting", "subtitles"}
NoChunk == "no chunk"
ProxyStates == {"stopped", "paused", "connecting", "connected", "backoff"}

VARIABLES
  running,     \* SubtitleProxy._running
  proxyState,  \* SubtitleProxy._state
  queue,       \* _audio_buffer
  unfinished,  \* its count of chunks without task_done, for which join() waits
  leases,      \* number of leases prepared so far
  faults       \* number of faults so far

sharedVars == <<running, proxyState, queue, unfinished, leases, faults>>

Full == Len(queue) = QueueSize
Spend == faults < MaxFaults /\ faults' = faults + 1
Says(s) == proxyState' = s
Enqueue(c) == queue' = Append(queue, c) /\ unfinished' = unfinished + 1
\* get_nowait until the queue is empty, each with its task_done; done more chunks that
\* were in hand are finished as well.
Drain(done) == queue' = <<>> /\ unfinished' = unfinished - Len(queue) - done
=============================================================================
