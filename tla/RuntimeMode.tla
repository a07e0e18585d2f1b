----------------------------- MODULE RuntimeMode -----------------------------
(***************************************************************************)
(* RuntimeModeCoordinator (src/sona/meeting/runtime_mode.py): one command  *)
(* lock and two-phase switches hand the microphone to at most one of three *)
(* workloads.  A command prepares its target, takes the PCM from the       *)
(* source, quiesces the source, commits the target and only then changes   *)
(* the mode; every failure or cancellation in between is compensated.      *)
(*                                                                         *)
(* asyncio runs code between two awaits atomically, so an action is the    *)
(* completion of one awaited workload call and the synchronous code up to  *)
(* the next await.  pc names the await at which the lock holder is         *)
(* suspended.  An awaited call ends "ok", in an "error" (an Exception) or  *)
(* in "cancel" (CancelledError); what each leaves behind in the workload   *)
(* follows the implementations: InteractionSession, SubtitleAudioWorkload  *)
(* and MeetingSession.  A call that returns without suspending is a step   *)
(* of its own too, but no cancellation is delivered at it.                 *)
(***************************************************************************)
EXTENDS Naturals, Sequences

CONSTANTS
  Clients,      \* the tasks that issue commands (one per accepted command)
  Shutdown,     \* the task of RuntimeModeCoordinator._stop_once
  Nobody,       \* no task holds the command lock
  MaxCommands,  \* bound on the commands issued in a behaviour
  Faults        \* which disturbances happen, a subset of AllFaults

AllFaults == {"error",     \* a workload call raises
              "callback",  \* on_owner_changed raises
              "cancel",    \* a caller cancels the task of its command
              "recancel",  \* or cancels it while it is rolled back
              "absorb",    \* a call swallows the cancellation it receives
              "decay"}     \* a running workload stops by itself

ASSUME TasksAssumption ==
  /\ Shutdown \notin Clients
  /\ Nobody \notin Clients \cup {Shutdown}
ASSUME BoundsAssumption == MaxCommands \in Nat /\ Faults \subseteq AllFaults

Workloads == {"assistant", "subtitles", "meeting"}
Modes == Workloads \cup {"idle"}
Owners == Workloads \cup {"none"}
Commands == {"start_assistant", "start_subtitles", "start_meeting",
             "restart_assistant", "end_meeting", "stop_active"}
NoCommand == "no command"
NoTarget == [target |-> "none", committed |-> FALSE]
Targets == [target: Workloads, committed: BOOLEAN] \cup {NoTarget}
ForceSteps == {"force_prepared", "force_interaction", "force_subtitles", "force_meeting"}
Steps == {"free", "prepare", "quiesce", "commit", "publish", "abort", "restore",
          "restore_commit", "end", "stop_quiesce", "restart", "cancel_abort"}
         \cup ForceSteps
Outcomes == {"ok", "error", "cancel"}
Causes == {"none", "error", "cancel"}

VARIABLES
  mode,            \* _mode
  pcmOwner,        \* _pcm_owner; UIRuntime._set_pcm_owner copies it before it can fail
  activeMeeting,   \* _active_meeting_id is not None
  runtimeRevision, \* _runtime_revision
  published,       \* the ownership fields of the last snapshot _publish_state sent
  preparedTarget,  \* _prepared_target
  holder,          \* the task that holds _command_lock
  waiters,         \* the queue of _command_lock
  request,         \* the command each client has submitted and not had answered
  issued,          \* number of commands submitted so far
  pc,              \* the await the holder is suspended at
  target,          \* target of the switch in progress
  source,          \* its source, the mode to restore when it fails
  cause,           \* why the switch is being rolled back
  cancelRequested, \* Task.cancel() was called on the holder and not yet delivered
  shutdown,        \* progress of stop()
  revisionAtStop,  \* revision_before_shutdown
  interaction,     \* InteractionSession
  subtitles,       \* SubtitleAudioWorkload over SubtitleProxy
  meetingSession   \* MeetingSession and its capture lease

coordinatorVars == <<mode, pcmOwner, activeMeeting, runtimeRevision, published>>
switchVars == <<target, source, cause>>
lockVars == <<holder, waiters, request, issued>>
shutdownVars == <<shutdown, revisionAtStop>>
workloadVars == <<interaction, subtitles, meetingSession>>
vars == <<coordinatorVars, preparedTarget, lockVars, pc, switchVars,
          cancelRequested, shutdownVars, workloadVars>>

Closing == shutdown # "running"
OwnerFor(m) == IF m = "idle" THEN "none" ELSE m
Ownership == [mode |-> mode, owner |-> pcmOwner, meeting |-> activeMeeting,
              revision |-> runtimeRevision]

(***************************************************************************)
(* The workloads.                                                          *)
(*   interaction     off, on (active), limbo: a stop() that did not finish *)
(*                   leaves STOPPING and the runner behind                 *)
(*   subtitles       off, prepared (a token without PCM), on, releasing:   *)
(*                   the shielded cleanup runs while the sink is still on, *)
(*                   stuck: a failed cleanup is kept, every prepare fails  *)
(*   meetingSession  off, prepared, recording, deaf: the capture was       *)
(*                   aborted but the session still has its meeting         *)
(***************************************************************************)
InteractionStates == {"off", "on", "limbo"}
SubtitleStates == {"off", "prepared", "on", "releasing", "stuck"}
MeetingStates == {"off", "prepared", "recording", "deaf"}

SubtitlesActive == subtitles \in {"on", "releasing"}
HasMeeting == meetingSession \in {"recording", "deaf"}
Active(w) == CASE w = "assistant" -> interaction = "on"
               [] w = "subtitles" -> SubtitlesActive
               [] w = "meeting" -> meetingSession = "recording"

\* UIRuntime._enqueue_audio, _push_subtitle_audio and SubtitleProxy.push_audio:
\* the workloads a microphone frame reaches in this state.
Hearing ==
  {w \in Workloads :
     CASE w = "assistant" -> pcmOwner = "assistant" /\ Active("assistant")
       [] w = "meeting" -> pcmOwner \in {"subtitles", "meeting"} /\ Active("meeting")
       [] w = "subtitles" -> /\ pcmOwner \in {"subtitles", "meeting"}
                             /\ ~Active("meeting")
                             /\ Active("subtitles")}

\* A call can succeed only when it is legal; it fails by itself only when errors happen.
Possible(out, legal) ==
  /\ out = "ok" => legal
  /\ out = "error" => ~legal \/ "error" \in Faults

\* InteractionSession.start: returns at once when running.
StartInteraction(out) ==
  /\ Possible(out, TRUE)
  /\ interaction' = IF out = "ok" \/ interaction = "on" THEN "on" ELSE "off"

\* InteractionSession.stop: the state is STOPPING before anything can fail.
StopInteraction(out) ==
  /\ Possible(out, TRUE)
  /\ interaction' = IF out = "ok" THEN "off" ELSE "limbo"

\* SubtitleAudioWorkload.prepare_browser_capture: waits for a running cleanup; a
\* kept failed cleanup raises again, a prepared or active workload refuses.
PrepareSubtitles(out) ==
  /\ Possible(out, subtitles = "off")
  /\ out = "error" => subtitles # "releasing"
  /\ subtitles' = IF out = "ok" THEN "prepared" ELSE subtitles

\* SubtitleAudioWorkload.commit_browser_capture: the token survives a failure.
CommitSubtitles(out) ==
  /\ Possible(out, subtitles = "prepared")
  /\ subtitles' = IF out = "ok" THEN "on" ELSE subtitles

\* SubtitleAudioWorkload.abort_browser_capture: drops the token first.
AbortSubtitles(out) ==
  /\ Possible(out, subtitles = "prepared")
  /\ subtitles' = IF subtitles = "prepared" THEN "off" ELSE subtitles

\* SubtitleAudioWorkload.deactivate_browser_capture: awaits a shielded cleanup,
\* which keeps running when the caller is cancelled; it does not drop a token.
DeactivateSubtitles(out) ==
  /\ Possible(out, subtitles # "stuck")
  /\ subtitles' = CASE subtitles \in {"prepared", "stuck"} -> subtitles
                    [] SubtitlesActive /\ out = "cancel" -> "releasing"
                    [] out = "error" -> "stuck"
                    [] OTHER -> "off"

\* MeetingSession.prepare_start, commit_start, abort_start, stop and interrupt.
\* The last three release the session however they end.
PrepareMeeting(out) ==
  /\ Possible(out, meetingSession = "off")
  /\ meetingSession' = IF out = "ok" THEN "prepared" ELSE meetingSession
CommitMeeting(out) ==
  /\ Possible(out, meetingSession = "prepared" /\ ~SubtitlesActive)
  /\ meetingSession' = IF out = "ok" THEN "recording" ELSE meetingSession
AbortMeeting(out) ==
  /\ Possible(out, meetingSession = "prepared")
  /\ meetingSession' = IF meetingSession = "prepared" THEN "off" ELSE meetingSession
StopMeeting(out) ==
  /\ Possible(out, meetingSession = "recording")
  /\ meetingSession' = IF HasMeeting THEN "off" ELSE meetingSession
InterruptMeeting(out) ==
  /\ Possible(out, TRUE)
  /\ meetingSession' = IF HasMeeting THEN "off" ELSE meetingSession

OnlyInteraction == UNCHANGED <<subtitles, meetingSession>>
OnlySubtitles == UNCHANGED <<interaction, meetingSession>>
OnlyMeeting == UNCHANGED <<interaction, subtitles>>
-----------------------------------------------------------------------------
(***************************************************************************)
(* How an awaited call may end, and what the holder does next.             *)
(***************************************************************************)
AbortSuspends == ~(preparedTarget.target = "assistant" /\ interaction # "on")
PrepareSuspends(w) == w = "subtitles" => subtitles \in {"off", "releasing"}

\* Does the awaited call really suspend the holder?
Suspends ==
  CASE pc = "prepare" -> PrepareSuspends(target)
    [] pc \in {"abort", "cancel_abort", "force_prepared"} -> AbortSuspends
    [] pc = "commit" -> target = "subtitles"
    [] pc = "restore" -> source # "idle" /\ ~Active(source) /\ PrepareSuspends(source)
    [] OTHER -> TRUE

\* Other tasks run only while the holder is suspended or nobody holds the lock.
Yielded == holder = Nobody \/ Suspends

\* publish_started is shielded from a cancellation until it is done.
CancelDelivered == cancelRequested /\ Suspends /\ pc # "publish"

\* Calls that await a cancelled task under suppress(CancelledError) on the way.
MayAbsorb == {"quiesce", "stop_quiesce", "abort", "cancel_abort"} \cup ForceSteps

Ends(out) ==
  /\ IF CancelDelivered
     THEN \/ out = "cancel"
          \/ out = "ok" /\ pc \in MayAbsorb /\ "absorb" \in Faults
     ELSE out # "cancel"
  /\ cancelRequested' = (cancelRequested /\ ~CancelDelivered)
  /\ UNCHANGED <<waiters, issued, revisionAtStop>>

Goto(step) == /\ pc' = step
              /\ UNCHANGED <<holder, request, shutdown>>

\* _run_serialized releases the lock; _stop_once sees the joined task end.
Finish == /\ holder' = Nobody
          /\ pc' = "free"
          /\ request' = [request EXCEPT ![holder] = NoCommand]
          /\ shutdown' = IF shutdown = "joining" THEN "joined" ELSE shutdown

\* _commit_state once its callback succeeded: bump the revision and publish.
CommitState(m, hasMeeting) ==
  /\ mode' = m
  /\ pcmOwner' = OwnerFor(m)
  /\ activeMeeting' = hasMeeting
  /\ runtimeRevision' = runtimeRevision + 1
  /\ published' = Ownership'

KeepState(hasMeeting) ==
  /\ activeMeeting' = hasMeeting
  /\ UNCHANGED <<mode, pcmOwner, runtimeRevision, published>>

CallbackMayFail(callbackOk) == callbackOk \/ "callback" \in Faults

\* The first await of _stop_all_workloads.
FirstForceStep == IF preparedTarget' # NoTarget THEN "force_prepared"
                  ELSE IF interaction' = "on" THEN "force_interaction"
                  ELSE "force_subtitles"

\* A CancelledError reaches _run_serialized.
Cancelled == IF preparedTarget' = NoTarget THEN Finish ELSE Goto("cancel_abort")

RollBack(why) == /\ cause' = why
                 /\ UNCHANGED <<target, source>>
                 /\ Goto("abort")

\* The command returns, or raises what it was rolled back for.
Leave == IF cause' = "cancel" THEN Cancelled ELSE Finish

\* _commit_state(mode, owner) in a recovery: when its callback raises, force idle.
CommitOrForce(m, hasMeeting, callbackOk) ==
  /\ CallbackMayFail(callbackOk)
  /\ IF callbackOk THEN CommitState(m, hasMeeting) /\ Leave
     ELSE KeepState(hasMeeting) /\ Goto(FirstForceStep)

\* Mutant of Barrier: the source keeps the PCM.
NoBarrier == UNCHANGED coordinatorVars
\* _set_transition_barrier once its callback succeeded.
Barrier == /\ pcmOwner' = "none"
           /\ UNCHANGED <<mode, activeMeeting, runtimeRevision, published>>
-----------------------------------------------------------------------------
(***************************************************************************)
(* A command waits for the lock and starts.                                *)
(***************************************************************************)
Submit(c, command) ==
  /\ Yielded
  /\ issued < MaxCommands
  /\ request[c] = NoCommand
  /\ request' = [request EXCEPT ![c] = command]
  /\ waiters' = Append(waiters, c)
  /\ issued' = issued + 1
  /\ UNCHANGED <<coordinatorVars, preparedTarget, holder, pc, switchVars,
                 cancelRequested, shutdownVars, workloadVars>>

\* The caller is cancelled while it waits for the lock.
CancelWaiting(c) ==
  /\ Yielded
  /\ "cancel" \in Faults
  /\ \E i \in 1..Len(waiters) :
       /\ waiters[i] = c
       /\ waiters' = SubSeq(waiters, 1, i - 1) \o SubSeq(waiters, i + 1, Len(waiters))
  /\ request' = [request EXCEPT ![c] = NoCommand]
  /\ UNCHANGED <<coordinatorVars, preparedTarget, holder, issued, pc, switchVars,
                 cancelRequested, shutdownVars, workloadVars>>

CancelRunning(c) ==
  /\ Yielded
  /\ "cancel" \in Faults
  /\ holder = c
  /\ ~cancelRequested
  /\ cause # "none" \/ pc \in {"cancel_abort"} \cup ForceSteps => "recancel" \in Faults
  /\ cancelRequested' = TRUE
  /\ UNCHANGED <<coordinatorVars, preparedTarget, lockVars, pc, switchVars,
                 shutdownVars, workloadVars>>

\* Commands that return or raise before their first await.
AnsweredAtOnce(command) ==
  \/ Closing
  \/ command = "start_assistant" /\ (mode = "meeting" \/ (mode = "assistant" /\ Active(mode)))
  \/ command = "start_subtitles" /\ (mode = "meeting" \/ (mode = "subtitles" /\ Active(mode)))
  \/ command = "start_meeting" /\ mode = "meeting"
  \/ command = "restart_assistant" /\ ~(mode = "assistant" /\ pcmOwner = "assistant")
  \/ command = "end_meeting" /\ ~(mode = "meeting" /\ activeMeeting)
  \/ command = "stop_active" /\ (mode = "idle" \/ (mode = "meeting" /\ ~activeMeeting))

AtHead(t) == holder = Nobody /\ waiters # <<>> /\ Head(waiters) = t

AnswerAtOnce(c) ==
  /\ AtHead(c)
  /\ AnsweredAtOnce(request[c])
  /\ waiters' = Tail(waiters)
  /\ request' = [request EXCEPT ![c] = NoCommand]
  /\ UNCHANGED <<coordinatorVars, preparedTarget, holder, issued, pc, switchVars,
                 cancelRequested, shutdownVars, workloadVars>>

Takes(c) ==
  /\ AtHead(c)
  /\ ~AnsweredAtOnce(request[c])
  /\ waiters' = Tail(waiters)
  /\ cancelRequested' = FALSE
  /\ UNCHANGED <<preparedTarget, issued, shutdownVars, workloadVars>>

TargetOf(command) == CASE command = "start_assistant" -> "assistant"
                       [] command = "start_subtitles" -> "subtitles"
                       [] command = "start_meeting" -> "meeting"
                       [] OTHER -> "none"

\* _start_assistant_locked, _start_subtitles_locked, _start_meeting_locked up to
\* `await prepare()`: a dead workload of the current mode counts as no source.
StartSwitch(c) ==
  /\ Takes(c)
  /\ TargetOf(request[c]) # "none"
  /\ target' = TargetOf(request[c])
  /\ source' = IF mode = TargetOf(request[c]) THEN "idle" ELSE mode
  /\ cause' = "none"
  /\ holder' = c
  /\ pc' = "prepare"
  /\ UNCHANGED <<coordinatorVars, request>>

StartRestart(c) ==
  /\ Takes(c)
  /\ request[c] = "restart_assistant"
  /\ holder' = c
  /\ pc' = "restart"
  /\ cause' = "none"
  /\ UNCHANGED <<coordinatorVars, request, target, source>>

\* _end_meeting_locked and _stop_active_mode_locked up to their first await.
StartStop(c) ==
  /\ Takes(c)
  /\ request[c] \in {"end_meeting", "stop_active"}
  /\ source' = mode
  /\ cause' = "none"
  /\ holder' = c
  /\ Barrier
  /\ pc' = IF mode = "meeting" THEN "end" ELSE "stop_quiesce"
  /\ UNCHANGED <<request, target>>

\* A barrier whose callback raises is undone and the command fails: it commits
\* the unchanged mode if that is still running, and forces idle otherwise.
StartStopWithoutBarrier(c) ==
  /\ Takes(c)
  /\ request[c] \in {"end_meeting", "stop_active"}
  /\ "callback" \in Faults
  /\ source' = mode
  /\ cause' = "error"
  /\ UNCHANGED target
  /\ \/ /\ mode = "meeting" \/ Active(mode)
        /\ CommitState(mode, activeMeeting)
        /\ request' = [request EXCEPT ![c] = NoCommand]
        /\ UNCHANGED <<holder, pc>>
     \/ /\ KeepState(activeMeeting)
        /\ holder' = c
        /\ pc' = FirstForceStep
        /\ UNCHANGED request
-----------------------------------------------------------------------------
(***************************************************************************)
(* _switch_workload.                                                       *)
(***************************************************************************)
Prepare(out) ==
  CASE target = "assistant" -> StartInteraction(out) /\ OnlyInteraction
    [] target = "subtitles" -> PrepareSubtitles(out) /\ OnlySubtitles
    [] target = "meeting" -> PrepareMeeting(out) /\ OnlyMeeting

\* The preparation failed or was cancelled: nothing was taken from the source.
PrepareFails(out) ==
  /\ pc = "prepare" /\ out # "ok"
  /\ Ends(out)
  /\ Prepare(out)
  /\ UNCHANGED <<coordinatorVars, preparedTarget, switchVars>>
  /\ IF out = "error" THEN Finish ELSE Cancelled

\* Prepared: cut the PCM of the source, if there is one, before quiescing it.
PrepareDone(callbackOk) ==
  /\ pc = "prepare"
  /\ Ends("ok")
  /\ Prepare("ok")
  /\ preparedTarget' = [target |-> target, committed |-> FALSE]
  /\ CallbackMayFail(callbackOk)
  /\ \/ source = "idle" /\ callbackOk /\ Goto("commit") /\ UNCHANGED <<coordinatorVars, switchVars>>
     \/ source # "idle" /\ callbackOk /\ Barrier /\ Goto("quiesce") /\ UNCHANGED switchVars
     \/ source # "idle" /\ ~callbackOk /\ UNCHANGED coordinatorVars /\ RollBack("error")

\* _quiesce_source.
Quiesce(out) ==
  CASE source = "assistant" -> StopInteraction(out) /\ OnlyInteraction
    [] source = "subtitles" -> DeactivateSubtitles(out) /\ OnlySubtitles

QuiesceDone(out) ==
  /\ pc = "quiesce"
  /\ Ends(out)
  /\ Quiesce(out)
  /\ UNCHANGED <<coordinatorVars, preparedTarget>>
  /\ IF out = "ok" THEN Goto("commit") /\ UNCHANGED switchVars ELSE RollBack(out)

Commit(out) ==
  CASE target = "assistant" -> out = "ok" /\ UNCHANGED workloadVars
    [] target = "subtitles" -> CommitSubtitles(out) /\ OnlySubtitles
    [] target = "meeting" -> CommitMeeting(out) /\ OnlyMeeting

CommitFails(out) ==
  /\ pc = "commit" /\ out # "ok"
  /\ Ends(out)
  /\ Commit(out)
  /\ UNCHANGED <<coordinatorVars, preparedTarget>>
  /\ RollBack(out)

\* Promoted and handed the PCM; when the owner callback raises, the mode is put
\* back and the committed target has to be deactivated.
CommitDone(callbackOk) ==
  /\ pc = "commit"
  /\ Ends("ok")
  /\ Commit("ok")
  /\ CallbackMayFail(callbackOk)
  /\ IF callbackOk
     THEN /\ CommitState(target, target = "meeting")
          /\ preparedTarget' = NoTarget
          /\ UNCHANGED switchVars
          /\ IF target = "meeting" THEN Goto("publish") ELSE Finish
     ELSE /\ KeepState(activeMeeting \/ target = "meeting")
          /\ preparedTarget' = [target |-> target, committed |-> TRUE]
          /\ RollBack("error")

\* _publish_committed_meeting_started: its failure is logged, a cancellation is
\* held back until it is done.
PublishDone ==
  /\ pc = "publish"
  /\ Ends("ok")
  /\ UNCHANGED <<coordinatorVars, preparedTarget, switchVars, workloadVars>>
  /\ Finish

\* Mutant of Abort: only subtitles are aborted.
AbortSubtitlesOnly(out) ==
  IF preparedTarget.target = "subtitles"
  THEN /\ IF preparedTarget.committed THEN DeactivateSubtitles(out) ELSE AbortSubtitles(out)
       /\ OnlySubtitles
  ELSE out = "ok" /\ UNCHANGED workloadVars

\* _abort_target and _abort_prepared_target_safely: a promoted target is
\* deactivated, a prepared one is aborted.
Abort(out) ==
  CASE preparedTarget.target = "assistant" ->
         IF interaction = "on" THEN StopInteraction(out) /\ OnlyInteraction
         ELSE out = "ok" /\ UNCHANGED workloadVars
    [] preparedTarget.target = "subtitles" ->
         /\ IF preparedTarget.committed THEN DeactivateSubtitles(out) ELSE AbortSubtitles(out)
         /\ OnlySubtitles
    [] preparedTarget.target = "meeting" ->
         /\ IF preparedTarget.committed THEN InterruptMeeting(out) ELSE AbortMeeting(out)
         /\ OnlyMeeting

\* _deactivate_target forgets the meeting it interrupted.
MeetingInterrupted(out) ==
  out = "ok" /\ preparedTarget = [target |-> "meeting", committed |-> TRUE]

ForgetIfAborted(out) == preparedTarget' = IF out = "ok" THEN NoTarget ELSE preparedTarget

\* Mutant of GivesUp: no caller's cancellation restores the source.
GivesUpWhenCancelled == cause = "cancel"
\* `if self._closing: raise`.
GivesUp == cause = "cancel" /\ Closing

\* The except branches of _switch_workload after `_abort_target`: a shutdown does
\* not restore the source, a failed abort forces idle.
AbortDone(out) ==
  /\ pc = "abort"
  /\ Ends(out)
  /\ Abort(out)
  /\ ForgetIfAborted(out)
  /\ KeepState(activeMeeting /\ ~MeetingInterrupted(out))
  /\ UNCHANGED switchVars
  /\ CASE out = "cancel" \/ GivesUp -> Cancelled
       [] out = "error" /\ ~GivesUp -> Goto(FirstForceStep)
       [] out = "ok" /\ ~GivesUp -> Goto("restore")

\* _restore_source.  A restored subtitle workload is prepared and promoted anew;
\* nobody aborts that preparation when its promotion fails.
Restore(out) ==
  CASE source = "idle" \/ Active(source) -> out = "ok" /\ UNCHANGED workloadVars
    [] source = "assistant" /\ ~Active(source) -> StartInteraction(out) /\ OnlyInteraction
    [] source = "subtitles" /\ ~Active(source) -> PrepareSubtitles(out) /\ OnlySubtitles

RestoreDone(out, callbackOk) ==
  /\ pc = "restore"
  /\ Ends(out)
  /\ Restore(out)
  /\ UNCHANGED <<preparedTarget, switchVars>>
  /\ callbackOk \/ out = "ok"
  /\ CASE out = "cancel" -> KeepState(activeMeeting) /\ Cancelled
       [] out = "error" -> KeepState(activeMeeting) /\ Goto(FirstForceStep)
       [] out = "ok" /\ source = "subtitles" /\ ~SubtitlesActive ->
            callbackOk /\ KeepState(activeMeeting) /\ Goto("restore_commit")
       [] OTHER -> CommitOrForce(source, activeMeeting, callbackOk)

RestoreCommitDone(out, callbackOk) ==
  /\ pc = "restore_commit"
  /\ Ends(out)
  /\ CommitSubtitles(out) /\ OnlySubtitles
  /\ UNCHANGED <<preparedTarget, switchVars>>
  /\ callbackOk \/ out = "ok"
  /\ CASE out = "cancel" -> KeepState(activeMeeting) /\ Cancelled
       [] out = "error" -> KeepState(activeMeeting) /\ Goto(FirstForceStep)
       [] out = "ok" -> CommitOrForce(source, activeMeeting, callbackOk)
-----------------------------------------------------------------------------
(***************************************************************************)
(* Ending the meeting, stopping a mode, restarting the assistant.          *)
(***************************************************************************)

\* _end_meeting_locked: however meeting.stop() ends, the mode becomes idle.
EndDone(out, callbackOk) ==
  /\ pc = "end"
  /\ Ends(out)
  /\ StopMeeting(out) /\ OnlyMeeting
  /\ cause' = IF out = "ok" THEN "none" ELSE out
  /\ UNCHANGED <<preparedTarget, target, source>>
  /\ CommitOrForce("idle", FALSE, callbackOk)

\* _stop_active_mode_locked after `_quiesce_source`.
StopQuiesceDone(out, callbackOk) ==
  /\ pc = "stop_quiesce"
  /\ Ends(out)
  /\ Quiesce(out)
  /\ UNCHANGED <<preparedTarget, target, source>>
  /\ CASE out = "ok" -> /\ cause' = (IF callbackOk THEN "none" ELSE "error")
                        /\ CommitOrForce("idle", FALSE, callbackOk)
       [] out = "error" -> /\ cause' = "error"
                           /\ callbackOk
                           /\ KeepState(activeMeeting)
                           /\ Goto(FirstForceStep)
       [] out = "cancel" -> /\ cause' = "cancel"
                            /\ callbackOk
                            /\ KeepState(activeMeeting)
                            /\ IF Closing THEN Cancelled ELSE Goto("restore")

\* InteractionSession.restart under the command lock.
RestartDone(out) ==
  /\ pc = "restart"
  /\ Ends(out)
  /\ Possible(out, TRUE)
  /\ interaction' \in CASE out = "ok" -> {"on"}
                        [] out = "error" -> {"off", "limbo"}
                        [] out = "cancel" -> {"off", "limbo"}
  /\ OnlyInteraction
  /\ UNCHANGED <<coordinatorVars, preparedTarget, switchVars>>
  /\ IF out = "cancel" THEN Cancelled ELSE Finish

\* The CancelledError handler of _run_serialized, with a target left prepared.
CancelAbortDone(out) ==
  /\ pc = "cancel_abort"
  /\ Ends(out)
  /\ Abort(out)
  /\ ForgetIfAborted(out)
  /\ KeepState(activeMeeting /\ ~MeetingInterrupted(out))
  /\ UNCHANGED switchVars
  /\ Finish
-----------------------------------------------------------------------------
(***************************************************************************)
(* _force_idle_state and _stop_once: _stop_all_workloads, then idle.  The  *)
(* errors of the calls are suppressed, a cancellation is not.              *)
(***************************************************************************)
ForceCommitIdle == CommitState("idle", FALSE)

\* Mutant of ShutdownCommitted: an earlier idle counts as well.
ShutdownAlreadyIdle == mode = "idle" /\ pcmOwner = "none"
\* _stop_once skips the commit when the cancelled command already made it.
ShutdownCommitted ==
  mode = "idle" /\ pcmOwner = "none" /\ runtimeRevision > revisionAtStop

ForcedIdle ==
  IF holder = Shutdown
  THEN /\ IF ShutdownCommitted THEN KeepState(FALSE) ELSE ForceCommitIdle
       /\ holder' = Nobody /\ pc' = "free" /\ shutdown' = "stopped"
       /\ UNCHANGED request
  ELSE ForceCommitIdle /\ Leave

ForcePreparedDone(out) ==
  /\ pc = "force_prepared"
  /\ Ends(out)
  /\ Abort(out)
  /\ ForgetIfAborted(out)
  /\ KeepState(activeMeeting /\ ~MeetingInterrupted(out))
  /\ UNCHANGED switchVars
  /\ IF out = "cancel" THEN Cancelled
     ELSE Goto(IF interaction' = "on" THEN "force_interaction" ELSE "force_subtitles")

ForceInteractionDone(out) ==
  /\ pc = "force_interaction"
  /\ Ends(out)
  /\ StopInteraction(out) /\ OnlyInteraction
  /\ UNCHANGED <<coordinatorVars, preparedTarget, switchVars>>
  /\ IF out = "cancel" THEN Cancelled ELSE Goto("force_subtitles")

ForceSubtitlesDone(out) ==
  /\ pc = "force_subtitles"
  /\ Ends(out)
  /\ DeactivateSubtitles(out) /\ OnlySubtitles
  /\ UNCHANGED <<preparedTarget, switchVars>>
  /\ CASE out = "cancel" -> KeepState(activeMeeting) /\ Cancelled
       [] out # "cancel" /\ (activeMeeting \/ HasMeeting) ->
            KeepState(activeMeeting) /\ Goto("force_meeting")
       [] OTHER -> ForcedIdle

ForceMeetingDone(out) ==
  /\ pc = "force_meeting"
  /\ Ends(out)
  /\ InterruptMeeting(out) /\ OnlyMeeting
  /\ UNCHANGED <<preparedTarget, switchVars>>
  /\ IF out = "cancel" THEN KeepState(activeMeeting) /\ Cancelled ELSE ForcedIdle
-----------------------------------------------------------------------------
(***************************************************************************)
(* RuntimeModeCoordinator.stop, _stop_once.                                *)
(***************************************************************************)
ShutdownUnchanged == UNCHANGED <<coordinatorVars, preparedTarget, request, issued,
                                 switchVars, workloadVars>>

RequestStop ==
  /\ Yielded
  /\ shutdown = "running"
  /\ shutdown' = "requested"
  /\ UNCHANGED <<holder, waiters, pc, cancelRequested, revisionAtStop>>
  /\ ShutdownUnchanged

\* Mutant of CancelTransition: waits for a transition that does not exist.
CancelTransitionAlways ==
  /\ Yielded
  /\ shutdown = "requested"
  /\ revisionAtStop' = runtimeRevision
  /\ cancelRequested' = (cancelRequested \/ holder \in Clients)
  /\ shutdown' = "joining"
  /\ UNCHANGED <<holder, waiters, pc>>
  /\ ShutdownUnchanged

\* Cancel the transition in progress and wait for its task to end.
CancelTransition ==
  /\ Yielded
  /\ shutdown = "requested"
  /\ revisionAtStop' = runtimeRevision
  /\ IF holder \in Clients
     THEN cancelRequested' = TRUE /\ shutdown' = "joining"
     ELSE UNCHANGED cancelRequested /\ shutdown' = "joined"
  /\ UNCHANGED <<holder, waiters, pc>>
  /\ ShutdownUnchanged

QueueShutdown ==
  /\ Yielded
  /\ shutdown = "joined"
  /\ shutdown' = "locking"
  /\ waiters' = Append(waiters, Shutdown)
  /\ UNCHANGED <<holder, pc, cancelRequested, revisionAtStop>>
  /\ ShutdownUnchanged

StopEverything ==
  /\ AtHead(Shutdown)
  /\ waiters' = Tail(waiters)
  /\ holder' = Shutdown
  /\ cancelRequested' = FALSE
  /\ pc' = (IF preparedTarget # NoTarget THEN "force_prepared"
            ELSE IF interaction = "on" THEN "force_interaction" ELSE "force_subtitles")
  /\ UNCHANGED shutdownVars
  /\ ShutdownUnchanged
-----------------------------------------------------------------------------
(***************************************************************************)
(* What the workloads do by themselves.                                    *)
(***************************************************************************)
OnlyWorkloads == UNCHANGED <<coordinatorVars, preparedTarget, lockVars, pc, switchVars,
                             cancelRequested, shutdownVars>>

\* InteractionSession._run_runner returns, fails or times out.
InteractionEnds ==
  /\ Yielded
  /\ "decay" \in Faults
  /\ interaction = "on"
  /\ interaction' = "off"
  /\ OnlyInteraction /\ OnlyWorkloads

\* SubtitleAudioWorkload._forward loses its source and starts the cleanup.
SubtitleSourceLost ==
  /\ Yielded
  /\ "decay" \in Faults
  /\ subtitles = "on"
  /\ subtitles' = "releasing"
  /\ OnlySubtitles /\ OnlyWorkloads

\* SubtitleAudioWorkload._release ends in the background.
SubtitleCleanupEnds(out) ==
  /\ Yielded
  /\ subtitles = "releasing"
  /\ out \in {"ok", "error"} /\ Possible(out, TRUE)
  /\ subtitles' = IF out = "ok" THEN "off" ELSE "stuck"
  /\ OnlySubtitles /\ OnlyWorkloads

\* MeetingSession._on_window aborts the capture when it cannot store a window.
CaptureLost ==
  /\ Yielded
  /\ "decay" \in Faults
  /\ meetingSession = "recording"
  /\ meetingSession' = "deaf"
  /\ OnlyMeeting /\ OnlyWorkloads
\* UIRuntime._publish_runtime_state: a full snapshot also goes out when the level
\* of a source changes, the microphone is muted or the subtitle source is lost.
SnapshotSent ==
  /\ Yielded
  /\ published # Ownership
  /\ published' = Ownership
  /\ UNCHANGED <<mode, pcmOwner, activeMeeting, runtimeRevision, preparedTarget, lockVars,
                 pc, switchVars, cancelRequested, shutdownVars, workloadVars>>
-----------------------------------------------------------------------------
Init ==
  /\ mode = "idle" /\ pcmOwner = "none" /\ activeMeeting = FALSE
  /\ runtimeRevision = 0
  /\ published = Ownership
  /\ preparedTarget = NoTarget
  /\ holder = Nobody /\ waiters = <<>> /\ issued = 0
  /\ request = [c \in Clients |-> NoCommand]
  /\ pc = "free"
  /\ target = "none" /\ source = "idle" /\ cause = "none"
  /\ cancelRequested = FALSE
  /\ shutdown = "running" /\ revisionAtStop = 0
  /\ interaction = "off" /\ subtitles = "off" /\ meetingSession = "off"

Begin(c) == StartSwitch(c) \/ StartRestart(c) \/ StartStop(c) \/ StartStopWithoutBarrier(c)

\* The holder of the lock takes its next step.
Proceed ==
  \/ \E out \in Outcomes :
       \/ PrepareFails(out) \/ QuiesceDone(out) \/ CommitFails(out) \/ AbortDone(out)
       \/ RestartDone(out) \/ CancelAbortDone(out) \/ ForcePreparedDone(out)
       \/ ForceInteractionDone(out) \/ ForceSubtitlesDone(out) \/ ForceMeetingDone(out)
  \/ \E callbackOk \in BOOLEAN : PrepareDone(callbackOk) \/ CommitDone(callbackOk)
  \/ \E out \in Outcomes, callbackOk \in BOOLEAN :
       \/ RestoreDone(out, callbackOk) \/ RestoreCommitDone(out, callbackOk)
       \/ EndDone(out, callbackOk) \/ StopQuiesceDone(out, callbackOk)
  \/ PublishDone

Decay == \/ InteractionEnds \/ SubtitleSourceLost \/ CaptureLost
         \/ \E out \in Outcomes : SubtitleCleanupEnds(out)

ShutdownStep == RequestStop \/ CancelTransition \/ QueueShutdown \/ StopEverything

Next ==
  \/ \E c \in Clients : \/ \E command \in Commands : Submit(c, command)
                        \/ CancelWaiting(c) \/ CancelRunning(c)
                        \/ AnswerAtOnce(c) \/ Begin(c)
  \/ Proceed
  \/ ShutdownStep
  \/ Decay
  \/ SnapshotSent

\* Every awaited workload call ends: the preparations, the stops and the meeting's
\* finalization carry timeouts, and asyncio.Lock wakes its waiters in order.
Fairness ==
  /\ WF_vars(Proceed)
  /\ WF_vars(CancelTransition \/ QueueShutdown \/ StopEverything)
  /\ WF_vars(\E out \in Outcomes : SubtitleCleanupEnds(out))
  /\ \A c \in Clients : WF_vars(AnswerAtOnce(c) \/ Begin(c))

Spec == Init /\ [][Next]_vars /\ Fairness
-----------------------------------------------------------------------------
TypeOK ==
  /\ mode \in Modes /\ pcmOwner \in Owners /\ activeMeeting \in BOOLEAN
  /\ runtimeRevision \in Nat /\ revisionAtStop \in Nat /\ issued \in Nat
  /\ published \in [mode: Modes, owner: Owners, meeting: BOOLEAN, revision: Nat]
  /\ preparedTarget \in Targets
  /\ holder \in Clients \cup {Shutdown, Nobody}
  /\ waiters \in Seq(Clients \cup {Shutdown})
  /\ request \in [Clients -> Commands \cup {NoCommand}]
  /\ pc \in Steps
  /\ target \in Workloads \cup {"none"} /\ source \in Modes /\ cause \in Causes
  /\ cancelRequested \in BOOLEAN
  /\ shutdown \in {"running", "requested", "joining", "joined", "locking", "stopped"}
  /\ interaction \in InteractionStates
  /\ subtitles \in SubtitleStates
  /\ meetingSession \in MeetingStates

\* A microphone frame only ever reaches the workload that owns the PCM, in every
\* state of every switch, rollback and shutdown (_push_subtitle_audio lets a
\* frame through for subtitles and meetings alike and leaves the routing to
\* SubtitleProxy.push_audio).
PcmReachesOnlyOwner == Hearing \subseteq {pcmOwner}

AtRest == holder = Nobody /\ shutdown \in {"running", "stopped"}

\* With no command in progress the PCM belongs to the workload of the mode, a meeting is
\* active exactly in meeting mode, the last published snapshot says so, and no workload
\* but that of the mode is capturing: a mode that was left, rolled back or forced to idle
\* has really been silenced.
OthersSilent == \A w \in Workloads : Active(w) => w = mode
Settled ==
  AtRest => /\ pcmOwner = OwnerFor(mode)
            /\ activeMeeting <=> mode = "meeting"
            /\ published = Ownership
            /\ OthersSilent

\* stop() ends idle with a new revision and nothing capturing, whatever failed or
\* was cancelled before and during it (_stop_once skips its own commit when the
\* cancelled command already made one).
StoppedIsSilent ==
  shutdown = "stopped" =>
    /\ mode = "idle" /\ pcmOwner = "none" /\ ~activeMeeting
    /\ runtimeRevision > revisionAtStop
    /\ \A w \in Workloads : ~Active(w)

\* To everybody who reads its mode, its owner and its revision the coordinator is the
\* arbiter they rely on, also when it rolls back, is forced to idle or is shut down in the
\* middle of a switch: the PCM goes from one workload to another only through nobody, so
\* that no frame of the old conversation reaches the new one, and a mode changes only under
\* a new revision, which is what the browsers order snapshots by.
Arbiter == INSTANCE PcmArbiter WITH owner <- pcmOwner, revision <- runtimeRevision
Arbitrated == Arbiter!Spec

\* Every submitted command is eventually answered, or cancelled by its caller, and stop()
\* always gets through, whatever the command it interrupts is doing: no path through the
\* rollbacks and the joins leaves the lock held or stop() waiting for a task that ended.
CommandsAnswered ==
  /\ \A c \in Clients : request[c] # NoCommand ~> request[c] = NoCommand
  /\ Closing ~> shutdown = "stopped"

\* The lock and the switch of its holder; a meeting is never left by a switch.
FreeLock == holder = Nobody <=> pc = "free"
OwnerFollowsMode == pcmOwner \in {"none", OwnerFor(mode)}
SwitchSource ==
  /\ pc \in {"prepare", "quiesce", "commit", "abort", "restore", "restore_commit"}
       => source \in {"idle", mode}
  /\ pc \in {"quiesce", "stop_quiesce"} => source = mode /\ source # "idle"
SwitchTarget ==
  /\ pc \in {"prepare", "quiesce", "commit"} => target \in Workloads
  /\ pc \in {"quiesce", "commit", "abort", "cancel_abort", "force_prepared"}
       => preparedTarget # NoTarget
BarrierTaken ==
  /\ pc \in {"quiesce", "commit"} /\ source # "idle" => pcmOwner = "none"
  /\ pc \in {"prepare", "commit"} /\ source = "idle" => mode \in {"idle", target}
MeetingLocked ==
  mode = "meeting" => pc \in {"free", "publish", "end", "cancel_abort"} \cup ForceSteps
MeetingHeld ==
  HasMeeting => \/ mode = "meeting"
                \/ /\ pc = "abort"
                   /\ preparedTarget = [target |-> "meeting", committed |-> TRUE]
                   /\ pcmOwner = "none"
SubtitlesYield == mode = "meeting" => ~SubtitlesActive

\* Why a frame reaches the owner only: an inductive invariant.  The owner is that of
\* the mode or nobody; a switch takes the PCM before it quiesces and commits; the
\* session holds a meeting only in meeting mode or while a promoted meeting is
\* rolled back; and subtitles are down before a meeting is committed.
PcmInvariant ==
  /\ FreeLock /\ OwnerFollowsMode /\ SwitchSource /\ SwitchTarget
  /\ BarrierTaken /\ MeetingLocked /\ MeetingHeld /\ SubtitlesYield
=============================================================================
