------------------------------ MODULE UIRuntime ------------------------------
(***************************************************************************)
(* UIRuntime (src/sona/ui/runtime.py) puts the microphone (AudioHub), the  *)
(* sockets (ControlChannel) and the mode coordinator together: a change of *)
(* the owner drains the audio that waits for the conversation, a commit is *)
(* published to every socket.  Of the coordinator only PcmArbiter is used, *)
(* which RuntimeMode implements.                                           *)
(***************************************************************************)
EXTENDS ControlChannel

CONSTANT MaxRevision \* bound on the commits of the coordinator
ASSUME UIRuntimeAssumption == MaxRevision \in Nat

uiVars == <<mode, owner, revision, capture, sound, inputs, control, latest, subtitle>>

Arbiter == INSTANCE PcmArbiter

MayCommit == revision < MaxRevision /\ Started

UIInit == Arbiter!Init /\ HubInit /\ ControlInit

\* _set_transition_barrier: the audio is cut, nothing is published.
Silence ==
  /\ MayCommit /\ owner # "none"
  /\ Arbiter!Silence
  /\ SetPcmOwner("none")
  /\ UNCHANGED <<capture, inputs, control, latest, subtitle>>

\* _commit_state.
Commit ==
  /\ MayCommit
  /\ \E m \in Arbiter!Modes : Arbiter!Commit(m)
  /\ SetPcmOwner(owner')
  /\ Publish(Snapshot')
  /\ UNCHANGED <<capture, inputs, control, subtitle>>

\* UIRuntime.stop: the server has closed the sockets, the coordinator has stopped.
Stop ==
  /\ \A k \in Clients : ~Registered(k)
  /\ HubStop
  /\ UNCHANGED <<mode, owner, revision, control, latest, subtitle>>

UINext ==
  \/ Silence \/ Commit \/ Stop
  \/ HubStep /\ UNCHANGED <<mode, owner, revision, control, latest, subtitle>>
  \/ UNCHANGED <<mode, owner, revision>> /\ ControlStep

\* The event loop serves every task that can go on; a switch that took the PCM ends in a
\* commit (RuntimeMode, Settled and CommandsAnswered).
Fairness ==
  /\ WF_uiVars(owner # Arbiter!OwnerOf(mode) /\ Commit)
  /\ \A b \in Browsers :
       WF_uiVars(UNCHANGED <<mode, owner, revision>> /\ Serve(b))
       /\ WF_uiVars(UNCHANGED <<mode, owner, revision>> /\ Write(b))
  /\ \A w \in Watchers :
       WF_uiVars(UNCHANGED <<mode, owner, revision>> /\ Admit(w))
       /\ WF_uiVars(UNCHANGED <<mode, owner, revision>> /\ SendText(w))
UISpec == UIInit /\ [][UINext]_uiVars /\ Fairness
-----------------------------------------------------------------------------
UITypeOK ==
  /\ muted \in BOOLEAN /\ owner \in Arbiter!Owners /\ mode \in Arbiter!Modes
  /\ \A s \in Sinks : queued[s] \in 0 .. SinkSize
  /\ audioQueue \in 0 .. AudioQueueSize
  /\ \A b \in Browsers : Len(responses[b]) <= ResponseSize
  /\ \A w \in Watchers : Len(channel[w]) <= ChannelSize

\* A muted microphone leaves nothing behind in any queue, though its thread goes on reading
\* and may have read before; and what waits for the conversation was meant for it: neither
\* a chunk from before the microphone was muted nor one from before a switch reaches it
\* later (docs/superpowers/specs/2026-08-20-voice-realtime-architecture-remediation-design.md,
\* "mic_muted").
NothingIsOverheard ==
  /\ UITypeOK
  /\ muted => audioQueue = 0 /\ \A s \in Sinks : queued[s] = 0
  /\ audioQueue > 0 => owner = "assistant"

\* Whatever order snapshots, events and responses are made and sent in, a browser that
\* stays ends with the mode, the owner and the revision of the coordinator
\* (_replace_latest, _send_control_messages, mergeRuntimeState).
BrowserSeesTheOwner ==
  \A b \in Browsers :
    <>[](conn[b] = "open" =>
           /\ shown[b] # None
           /\ [shown[b] EXCEPT !.muted = muted] = Snapshot)

\* Every command of a browser that stays is answered, also when several wait and when an
\* event and a response are ready at once (_send_control_messages).
CommandsAreAnswered == \A b \in Browsers : owed[b] > 0 ~> owed[b] = 0 \/ conn[b] # "open"

\* A subtitle connection does not outlive the modes that have subtitles, also when the mode
\* is left while its socket is accepted (_serve_subtitle_websocket); and one that stays
\* shows the last subtitles, however slow it is (SubtitleClientHub.publish).
SubtitlesAreRevoked ==
  \A w \in Watchers :
    /\ watch[w] = "open" /\ mode \notin Eligible ~> watch[w] # "open" \/ mode \in Eligible
    /\ <>[](watch[w] = "open" => shownText[w] = text)
=============================================================================
