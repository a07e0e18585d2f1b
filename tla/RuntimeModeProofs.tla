-------------------------- MODULE RuntimeModeProofs --------------------------
(***************************************************************************)
(* What holds of the mode switches for any clients, any number of commands *)
(* and any disturbances: type correctness, the inductive invariant that    *)
(* relates the owner of the PCM to the switch in progress and to what the  *)
(* workloads hold, and from it PcmReachesOnlyOwner and the refinement of   *)
(* PcmArbiter; then StoppedIsSilent, because no step of a shutdown is      *)
(* passed with its workload capturing; and Settled, from what has been     *)
(* done at each await of a command, unless one is cancelled again while it *)
(* rolls back.                                                             *)
(***************************************************************************)
EXTENDS RuntimeMode, TLAPS, SequenceTheorems

Ind == TypeOK /\ PcmInvariant

\* The initial state is idle and nothing is held.
LEMMA InitInd == Init => Ind
<1> SUFFICES ASSUME Init PROVE Ind
  OBVIOUS
<1>1. TypeOK
  <2>1. waiters \in Seq(Clients \cup {Shutdown})
    BY DEF Init
  <2>2. published \in [mode: Modes, owner: Owners, meeting: BOOLEAN, revision: Nat]
    BY DEF Init, Ownership, Modes, Owners, Workloads
  <2>3. request \in [Clients -> Commands \cup {NoCommand}]
    BY DEF Init
  <2> QED
    BY <2>1, <2>2, <2>3 DEF Init, TypeOK, Modes, Owners, Workloads, Targets, Steps, Causes,
       InteractionStates, SubtitleStates, MeetingStates
<1>2. PcmInvariant
  BY TasksAssumption DEF Init, PcmInvariant, FreeLock, OwnerFollowsMode, SwitchSource, SwitchTarget, BarrierTaken,
     MeetingLocked, MeetingHeld, SubtitlesYield, HasMeeting, OwnerFor
<1> QED
  BY <1>1, <1>2 DEF Ind

-----------------------------------------------------------------------------
(***************************************************************************)
(* Type correctness, one group of variables at a time.                     *)
(***************************************************************************)
CoordinatorTypes ==
  /\ mode \in Modes /\ pcmOwner \in Owners /\ activeMeeting \in BOOLEAN
  /\ runtimeRevision \in Nat
  /\ published \in [mode: Modes, owner: Owners, meeting: BOOLEAN, revision: Nat]
LockTypes ==
  /\ holder \in Clients \cup {Shutdown, Nobody}
  /\ waiters \in Seq(Clients \cup {Shutdown})
  /\ request \in [Clients -> Commands \cup {NoCommand}]
  /\ issued \in Nat /\ revisionAtStop \in Nat
  /\ pc \in Steps
  /\ cancelRequested \in BOOLEAN
  /\ shutdown \in {"running", "requested", "joining", "joined", "locking", "stopped"}
  /\ FreeLock
SwitchTypes ==
  /\ preparedTarget \in Targets
  /\ target \in Workloads \cup {"none"} /\ source \in Modes /\ cause \in Causes
WorkloadTypes ==
  /\ interaction \in InteractionStates
  /\ subtitles \in SubtitleStates
  /\ meetingSession \in MeetingStates

LEMMA TypeGroups ==
  TypeOK /\ FreeLock <=> CoordinatorTypes /\ LockTypes /\ SwitchTypes /\ WorkloadTypes
  BY DEF TypeOK, CoordinatorTypes, LockTypes, SwitchTypes, WorkloadTypes

\* Where a step of the holder may lead: another step, the end of the command, or
\* one of the two ways of cleaning up.
Exits == {"free", "publish", "cancel_abort"} \cup ForceSteps
LeavesFor(steps) ==
  /\ LockTypes'
  /\ pc' \in steps
  /\ pc' \in {"cancel_abort", "force_prepared"} => preparedTarget' # NoTarget

LEMMA GotoLeaves ==
  ASSUME LockTypes, pc # "free", NEW out, Ends(out), NEW step \in Steps \ {"free"}, Goto(step)
  PROVE  LockTypes' /\ pc' = step
  BY DEF LockTypes, FreeLock, Ends, Goto

LEMMA FinishLeaves ==
  ASSUME LockTypes, pc # "free", NEW out, Ends(out), Finish
  PROVE  LeavesFor(Exits)
  BY DEF LockTypes, FreeLock, Ends, Finish, LeavesFor, Exits, Steps

LEMMA CancelledLeaves ==
  ASSUME LockTypes, pc # "free", NEW out, Ends(out), Cancelled
  PROVE  LeavesFor(Exits)
  BY FinishLeaves, GotoLeaves DEF Cancelled, LeavesFor, Exits, Steps

LEMMA LeaveLeaves ==
  ASSUME LockTypes, pc # "free", NEW out, Ends(out), Leave
  PROVE  LeavesFor(Exits)
  BY FinishLeaves, CancelledLeaves DEF Leave

LEMMA ForceLeaves ==
  ASSUME LockTypes, pc # "free", NEW out, Ends(out), Goto(FirstForceStep)
  PROVE  LeavesFor(Exits)
  BY GotoLeaves DEF FirstForceStep, LeavesFor, Exits, ForceSteps, Steps

LEMMA KeepTypes ==
  ASSUME CoordinatorTypes, NEW h \in BOOLEAN, KeepState(h)
  PROVE  CoordinatorTypes'
  BY DEF CoordinatorTypes, KeepState

LEMMA CommitTypes ==
  ASSUME CoordinatorTypes, NEW m \in Modes, NEW h \in BOOLEAN, CommitState(m, h)
  PROVE  CoordinatorTypes' /\ mode' = m /\ pcmOwner' = OwnerFor(m)
<1>1. OwnerFor(m) \in Owners
  BY DEF OwnerFor, Owners, Modes
<1>2. published' = [mode |-> m, owner |-> OwnerFor(m), meeting |-> h,
                    revision |-> runtimeRevision + 1]
  BY DEF CommitState, Ownership
<1> QED
  BY <1>1, <1>2 DEF CoordinatorTypes, CommitState
-----------------------------------------------------------------------------
(***************************************************************************)
(* What a call may do to a workload.                                       *)
(***************************************************************************)
Quieter == /\ WorkloadTypes'
           /\ HasMeeting' => HasMeeting
           /\ SubtitlesActive' => SubtitlesActive

LEMMA PrepareEffect ==
  ASSUME WorkloadTypes, target \in Workloads, NEW out, Prepare(out)
  PROVE  Quieter
  BY DEF WorkloadTypes, Quieter, Prepare, StartInteraction, PrepareSubtitles, PrepareMeeting,
     OnlyInteraction, OnlySubtitles, OnlyMeeting, Workloads, InteractionStates,
     SubtitleStates, MeetingStates, HasMeeting, SubtitlesActive

LEMMA QuiesceEffect ==
  ASSUME WorkloadTypes, source \in {"assistant", "subtitles"}, NEW out, Quiesce(out)
  PROVE  Quieter
  BY DEF WorkloadTypes, Quieter, Quiesce, StopInteraction, DeactivateSubtitles,
     OnlyInteraction, OnlySubtitles, InteractionStates, SubtitleStates, HasMeeting,
     SubtitlesActive

LEMMA AbortEffect ==
  ASSUME WorkloadTypes, preparedTarget.target \in Workloads, NEW out, Abort(out)
  PROVE  Quieter
  BY DEF WorkloadTypes, Quieter, Abort, StopInteraction, AbortSubtitles, DeactivateSubtitles,
     AbortMeeting, InterruptMeeting, workloadVars,
     OnlyInteraction, OnlySubtitles, OnlyMeeting, Workloads, InteractionStates,
     SubtitleStates, MeetingStates, HasMeeting, SubtitlesActive

\* An abort of a promoted meeting ends it, however the call ends.
LEMMA AbortEndsMeeting ==
  ASSUME preparedTarget = [target |-> "meeting", committed |-> TRUE], NEW out, Abort(out)
  PROVE  ~HasMeeting'
  BY DEF Abort, InterruptMeeting, HasMeeting

LEMMA RestoreEffect ==
  ASSUME WorkloadTypes, source \in {"idle", "assistant", "subtitles"}, NEW out, Restore(out)
  PROVE  Quieter
  BY DEF WorkloadTypes, Quieter, Restore, StartInteraction, PrepareSubtitles, workloadVars,
     OnlyInteraction, OnlySubtitles, Active, InteractionStates,
     SubtitleStates, MeetingStates, HasMeeting, SubtitlesActive

LEMMA PreparedTarget ==
  ASSUME preparedTarget \in Targets, preparedTarget # NoTarget
  PROVE  preparedTarget \in [target: Workloads, committed: BOOLEAN]
  BY DEF Targets
-----------------------------------------------------------------------------
(***************************************************************************)
(* Every step of the lock holder preserves Ind.                            *)
(***************************************************************************)
\* A step that gives up the switch with the workloads no louder than before.
LEMMA ExitInd ==
  ASSUME Ind, LeavesFor(Exits), CoordinatorTypes', SwitchTypes', Quieter,
         UNCHANGED <<mode, pcmOwner>>,
         HasMeeting' => mode = "meeting"
  PROVE  Ind'
<1>1. TypeOK'
  BY TypeGroups DEF LeavesFor, Quieter, TypeOK, CoordinatorTypes, LockTypes, SwitchTypes,
     WorkloadTypes
<1>2. PcmInvariant'
  BY DEF Ind, PcmInvariant, OwnerFollowsMode, SwitchSource, SwitchTarget, BarrierTaken,
     MeetingLocked, MeetingHeld, SubtitlesYield, LeavesFor, LockTypes, Exits, ForceSteps, Quieter,
     OwnerFor
<1> QED
  BY <1>1, <1>2 DEF Ind

\* The same when the mode is committed.
LEMMA CommitExitInd ==
  ASSUME Ind, LeavesFor(Exits), CoordinatorTypes', SwitchTypes', WorkloadTypes',
         pcmOwner' = OwnerFor(mode'),
         HasMeeting' => mode' = "meeting",
         mode' = "meeting" => ~SubtitlesActive'
  PROVE  Ind'
<1>1. TypeOK'
  BY TypeGroups DEF LeavesFor, TypeOK, CoordinatorTypes, LockTypes, SwitchTypes,
     WorkloadTypes
<1>2. PcmInvariant'
  BY DEF Ind, PcmInvariant, OwnerFollowsMode, SwitchSource, SwitchTarget, BarrierTaken,
     MeetingLocked, MeetingHeld, SubtitlesYield, LeavesFor, LockTypes, Exits, ForceSteps, OwnerFor
<1> QED
  BY <1>1, <1>2 DEF Ind

LEMMA PrepareFailsInd ==
  ASSUME Ind, NEW out, PrepareFails(out)
  PROVE  Ind'
<1>1. /\ CoordinatorTypes /\ LockTypes /\ SwitchTypes /\ WorkloadTypes
      /\ target \in Workloads
  BY TypeGroups DEF Ind, PcmInvariant, SwitchTarget, PrepareFails
<1>2. LeavesFor(Exits)
  BY <1>1, FinishLeaves, CancelledLeaves DEF PrepareFails
<1>3. Quieter
  BY <1>1, PrepareEffect DEF PrepareFails
<1>4. HasMeeting => mode = "meeting"
  BY DEF Ind, PcmInvariant, MeetingHeld, PrepareFails
<1>5. CoordinatorTypes' /\ SwitchTypes' /\ UNCHANGED <<mode, pcmOwner>>
  BY <1>1 DEF PrepareFails, coordinatorVars, switchVars, CoordinatorTypes, SwitchTypes
<1> QED
  BY <1>2, <1>3, <1>4, <1>5, ExitInd DEF Quieter

\* A step inside a switch or a rollback: the mode stays what it is.
LEMMA InsideInd ==
  ASSUME Ind, CoordinatorTypes', LockTypes', SwitchTypes', WorkloadTypes',
         mode' = mode, mode # "meeting", OwnerFollowsMode',
         SwitchSource', SwitchTarget', BarrierTaken', MeetingHeld'
  PROVE  Ind'
  BY TypeGroups DEF Ind, TypeOK, CoordinatorTypes, LockTypes, SwitchTypes, WorkloadTypes,
     PcmInvariant, MeetingLocked, SubtitlesYield

LEMMA PrepareDoneInd ==
  ASSUME Ind, NEW callbackOk \in BOOLEAN, PrepareDone(callbackOk)
  PROVE  Ind'
<1>1. /\ CoordinatorTypes /\ LockTypes /\ SwitchTypes /\ WorkloadTypes
      /\ target \in Workloads /\ mode # "meeting" /\ ~HasMeeting
      /\ source \in {"idle", mode} /\ (source = "idle" => mode \in {"idle", target})
  BY TypeGroups DEF Ind, PcmInvariant, SwitchTarget, SwitchSource, BarrierTaken,
     MeetingLocked, MeetingHeld, ForceSteps, PrepareDone
<1>2. Ends("ok") /\ Quieter /\ pc # "free"
  BY <1>1, PrepareEffect DEF PrepareDone
<1>3. preparedTarget' = [target |-> target, committed |-> FALSE]
  BY DEF PrepareDone
<1>4. preparedTarget' \in Targets /\ preparedTarget' # NoTarget
  BY <1>1, <1>3 DEF Targets, NoTarget, Workloads
<1>5. CASE source = "idle" /\ Goto("commit") /\ UNCHANGED <<coordinatorVars, switchVars>>
  <2>1. LockTypes' /\ pc' = "commit"
    BY <1>1, <1>2, <1>5, GotoLeaves DEF Steps
  <2> QED
    BY <1>1, <1>2, <1>4, <1>5, <2>1, InsideInd
    DEF Ind, PcmInvariant, CoordinatorTypes, SwitchTypes, Quieter, OwnerFollowsMode, SwitchSource,
        SwitchTarget, BarrierTaken, MeetingHeld, coordinatorVars, switchVars
<1>6. CASE source # "idle" /\ Barrier /\ Goto("quiesce") /\ UNCHANGED switchVars
  <2>1. LockTypes' /\ pc' = "quiesce"
    BY <1>1, <1>2, <1>6, GotoLeaves DEF Steps
  <2> QED
    BY <1>1, <1>2, <1>4, <1>6, <2>1, InsideInd
    DEF Barrier, CoordinatorTypes, Owners, SwitchTypes, Quieter, OwnerFollowsMode,
        SwitchSource, SwitchTarget, BarrierTaken, MeetingHeld, switchVars
<1>7. CASE source # "idle" /\ UNCHANGED coordinatorVars /\ RollBack("error")
  <2>1. LockTypes' /\ pc' = "abort" /\ cause' = "error" /\ UNCHANGED <<target, source>>
    BY <1>1, <1>2, <1>7, GotoLeaves DEF RollBack, Steps
  <2> QED
    BY <1>1, <1>2, <1>4, <1>7, <2>1, InsideInd
    DEF Ind, PcmInvariant, CoordinatorTypes, SwitchTypes, Causes, Quieter, OwnerFollowsMode,
        SwitchSource, SwitchTarget, BarrierTaken, MeetingHeld, coordinatorVars
<1> QED
  BY <1>5, <1>6, <1>7 DEF PrepareDone

LEMMA QuiesceDoneInd ==
  ASSUME Ind, NEW out \in Outcomes, QuiesceDone(out)
  PROVE  Ind'
<1>1. /\ CoordinatorTypes /\ LockTypes /\ SwitchTypes /\ WorkloadTypes
      /\ target \in Workloads /\ mode # "meeting" /\ ~HasMeeting
      /\ source = mode /\ source # "idle" /\ pcmOwner = "none"
      /\ preparedTarget # NoTarget
  BY TypeGroups DEF Ind, PcmInvariant, SwitchTarget, SwitchSource, BarrierTaken,
     MeetingLocked, MeetingHeld, ForceSteps, QuiesceDone
<1>2. Ends(out) /\ Quieter
  <2>1. source \in {"assistant", "subtitles"}
    BY <1>1 DEF SwitchTypes, Modes, Workloads
  <2> QED
    BY <1>1, <2>1, QuiesceEffect DEF QuiesceDone
<1>3. /\ LockTypes' /\ pc' \in {"commit", "abort"}
      /\ UNCHANGED <<target, source>> /\ cause' \in Causes
  BY <1>1, <1>2, GotoLeaves
  DEF QuiesceDone, RollBack, Steps, Outcomes, Causes, SwitchTypes, switchVars
<1> QED
  BY <1>1, <1>2, <1>3, InsideInd
  DEF QuiesceDone, CoordinatorTypes, SwitchTypes, Quieter, OwnerFollowsMode, SwitchSource,
      SwitchTarget, BarrierTaken, MeetingHeld, coordinatorVars

\* What is known when a target is about to be committed.
LEMMA AtCommit ==
  ASSUME Ind, pc = "commit"
  PROVE  /\ CoordinatorTypes /\ LockTypes /\ SwitchTypes /\ WorkloadTypes
         /\ target \in Workloads /\ mode # "meeting" /\ ~HasMeeting
         /\ source \in {"idle", mode} /\ preparedTarget # NoTarget
         /\ pcmOwner \in {"none", target}
         /\ target = "meeting" => pcmOwner = "none"
  BY TypeGroups DEF Ind, PcmInvariant, SwitchTarget, SwitchSource, BarrierTaken,
     MeetingLocked, MeetingHeld, ForceSteps, OwnerFollowsMode, OwnerFor

LEMMA CommitFailsInd ==
  ASSUME Ind, NEW out \in Outcomes, CommitFails(out)
  PROVE  Ind'
<1>1. pc = "commit" /\ out # "ok" /\ Ends(out) /\ Commit(out)
  BY DEF CommitFails
<1>2. /\ LockTypes' /\ pc' = "abort" /\ cause' \in Causes /\ UNCHANGED <<target, source>>
  BY <1>1, AtCommit, GotoLeaves DEF CommitFails, RollBack, Steps, Outcomes, Causes
<1>3. WorkloadTypes' /\ ~HasMeeting'
  BY <1>1, AtCommit
  DEF Commit, CommitSubtitles, CommitMeeting, OnlySubtitles, OnlyMeeting, workloadVars,
      WorkloadTypes, HasMeeting, Workloads
<1> QED
  BY <1>1, <1>2, <1>3, AtCommit, InsideInd
  DEF Ind, PcmInvariant, CommitFails, CoordinatorTypes, SwitchTypes, OwnerFollowsMode, SwitchSource,
      SwitchTarget, BarrierTaken, MeetingHeld, coordinatorVars

LEMMA CommitDoneInd ==
  ASSUME Ind, NEW callbackOk \in BOOLEAN, CommitDone(callbackOk)
  PROVE  Ind'
<1>1. pc = "commit" /\ Ends("ok") /\ Commit("ok")
  BY DEF CommitDone
<1>2. WorkloadTypes' /\ (HasMeeting' => target = "meeting")
      /\ (target = "meeting" => ~SubtitlesActive')
  BY <1>1, AtCommit
  DEF Commit, CommitSubtitles, CommitMeeting, Possible, OnlySubtitles, OnlyMeeting,
      workloadVars, WorkloadTypes, HasMeeting, SubtitlesActive, Workloads, SubtitleStates,
      MeetingStates
<1>3. CASE callbackOk
  <2>1. /\ CoordinatorTypes' /\ mode' = target /\ pcmOwner' = OwnerFor(target)
        /\ preparedTarget' = NoTarget /\ UNCHANGED <<target, source, cause>>
    BY <1>1, <1>3, AtCommit, CommitTypes DEF CommitDone, Modes, switchVars
  <2>2. LeavesFor(Exits)
    BY <1>1, <1>3, AtCommit, GotoLeaves, FinishLeaves
    DEF CommitDone, LeavesFor, Exits, Steps
  <2> QED
    BY <1>1, <1>2, <2>1, <2>2, AtCommit, CommitExitInd DEF SwitchTypes, Targets
<1>4. CASE ~callbackOk
  <2>1. /\ CoordinatorTypes' /\ UNCHANGED <<mode, pcmOwner, target, source>>
        /\ preparedTarget' = [target |-> target, committed |-> TRUE] /\ cause' \in Causes
        /\ LockTypes' /\ pc' = "abort"
    <3>1. (activeMeeting \/ target = "meeting") \in BOOLEAN
      OBVIOUS
    <3> QED
      BY <1>1, <1>4, <3>1, AtCommit, KeepTypes, GotoLeaves
      DEF CommitDone, KeepState, RollBack, Causes, Steps
  <2>2. preparedTarget' \in Targets /\ preparedTarget' # NoTarget
    BY <1>1, <2>1, AtCommit DEF Targets, NoTarget, Workloads
  <2> QED
    BY <1>1, <1>2, <2>1, <2>2, AtCommit, InsideInd
    DEF Ind, PcmInvariant, SwitchTypes, OwnerFollowsMode, SwitchSource, SwitchTarget,
        BarrierTaken, MeetingHeld
<1> QED
  BY <1>3, <1>4

LEMMA PublishDoneInd ==
  ASSUME Ind, PublishDone
  PROVE  Ind'
<1>1. /\ CoordinatorTypes /\ LockTypes /\ SwitchTypes /\ WorkloadTypes
      /\ HasMeeting => mode = "meeting"
  BY TypeGroups DEF Ind, PcmInvariant, MeetingHeld, PublishDone
<1>2. LeavesFor(Exits)
  BY <1>1, FinishLeaves DEF PublishDone
<1> QED
  BY <1>1, <1>2, ExitInd
  DEF PublishDone, coordinatorVars, switchVars, workloadVars, CoordinatorTypes, SwitchTypes,
      WorkloadTypes, Quieter, HasMeeting, SubtitlesActive

\* What is known when a target is about to be aborted, and what the abort leaves.
LEMMA AbortLeft ==
  ASSUME Ind, pc \in {"abort", "cancel_abort", "force_prepared"}, NEW out, Abort(out),
         ForgetIfAborted(out)
  PROVE  /\ CoordinatorTypes /\ LockTypes /\ SwitchTypes /\ WorkloadTypes
         /\ Quieter /\ preparedTarget' \in Targets
         /\ HasMeeting' => mode = "meeting"
         /\ pc = "abort" => mode # "meeting" /\ source \in {"idle", mode}
<1>1. /\ CoordinatorTypes /\ LockTypes /\ SwitchTypes /\ WorkloadTypes
      /\ preparedTarget \in Targets /\ preparedTarget # NoTarget
      /\ pc = "abort" => mode # "meeting" /\ source \in {"idle", mode}
  BY TypeGroups DEF Ind, PcmInvariant, SwitchTarget, SwitchSource, MeetingLocked,
     ForceSteps, SwitchTypes
<1>2. Quieter
  BY <1>1, PreparedTarget, AbortEffect
<1>3. preparedTarget' \in Targets
  BY <1>1 DEF ForgetIfAborted, Targets
<1>4. HasMeeting' => mode = "meeting"
  BY <1>2, AbortEndsMeeting DEF Ind, PcmInvariant, MeetingHeld, Quieter
<1> QED
  BY <1>1, <1>2, <1>3, <1>4

LEMMA AbortDoneInd ==
  ASSUME Ind, NEW out \in Outcomes, AbortDone(out)
  PROVE  Ind'
<1>1. pc = "abort" /\ Ends(out) /\ Abort(out) /\ ForgetIfAborted(out)
  BY DEF AbortDone
<1>2. CoordinatorTypes' /\ SwitchTypes' /\ UNCHANGED <<mode, pcmOwner, source, target>>
  <2>1. (activeMeeting /\ ~MeetingInterrupted(out)) \in BOOLEAN
    OBVIOUS
  <2> QED
    BY <1>1, <2>1, AbortLeft, KeepTypes DEF AbortDone, KeepState, switchVars, SwitchTypes
<1>3. CASE Cancelled \/ Goto(FirstForceStep)
  <2>1. LeavesFor(Exits)
    BY <1>1, <1>3, AbortLeft, CancelledLeaves, ForceLeaves
  <2> QED
    BY <1>1, <1>2, <2>1, AbortLeft, ExitInd
<1>4. CASE Goto("restore")
  <2>1. LockTypes' /\ pc' = "restore"
    BY <1>1, <1>4, AbortLeft, GotoLeaves DEF Steps
  <2> QED
    BY <1>1, <1>2, <2>1, AbortLeft, InsideInd
    DEF Ind, PcmInvariant, Quieter, OwnerFollowsMode, SwitchSource, SwitchTarget, BarrierTaken,
        MeetingHeld
<1> QED
  BY <1>3, <1>4 DEF AbortDone, Outcomes

LEMMA CancelAbortDoneInd ==
  ASSUME Ind, NEW out \in Outcomes, CancelAbortDone(out)
  PROVE  Ind'
<1>1. pc = "cancel_abort" /\ Ends(out) /\ Abort(out) /\ ForgetIfAborted(out)
  BY DEF CancelAbortDone
<1>2. CoordinatorTypes' /\ SwitchTypes' /\ UNCHANGED <<mode, pcmOwner>>
  <2>1. (activeMeeting /\ ~MeetingInterrupted(out)) \in BOOLEAN
    OBVIOUS
  <2> QED
    BY <1>1, <2>1, AbortLeft, KeepTypes DEF CancelAbortDone, KeepState, switchVars, SwitchTypes
<1>3. LeavesFor(Exits)
  BY <1>1, AbortLeft, FinishLeaves DEF CancelAbortDone
<1> QED
  BY <1>1, <1>2, <1>3, AbortLeft, ExitInd

LEMMA ForcePreparedDoneInd ==
  ASSUME Ind, NEW out \in Outcomes, ForcePreparedDone(out)
  PROVE  Ind'
<1>1. pc = "force_prepared" /\ Ends(out) /\ Abort(out) /\ ForgetIfAborted(out)
  BY DEF ForcePreparedDone
<1>2. CoordinatorTypes' /\ SwitchTypes' /\ UNCHANGED <<mode, pcmOwner>>
  <2>1. (activeMeeting /\ ~MeetingInterrupted(out)) \in BOOLEAN
    OBVIOUS
  <2> QED
    BY <1>1, <2>1, AbortLeft, KeepTypes
    DEF ForcePreparedDone, KeepState, switchVars, SwitchTypes
<1>3. LeavesFor(Exits)
  BY <1>1, AbortLeft, CancelledLeaves, GotoLeaves
  DEF ForcePreparedDone, LeavesFor, Exits, ForceSteps, Steps
<1> QED
  BY <1>1, <1>2, <1>3, AbortLeft, ExitInd

\* Committing the source again, or forcing idle when its owner callback fails.
LEMMA CommitOrForceInd ==
  ASSUME Ind, pc # "free", NEW out, Ends(out), NEW m \in Modes, NEW h \in BOOLEAN,
         NEW callbackOk \in BOOLEAN, CommitOrForce(m, h, callbackOk),
         SwitchTypes', Quieter, m \in {mode, "idle"}, ~HasMeeting'
  PROVE  Ind'
<1>1. CoordinatorTypes /\ LockTypes
  BY TypeGroups DEF Ind, PcmInvariant
<1>2. CASE CommitState(m, h) /\ Leave
  <2>1. LeavesFor(Exits)
    BY <1>1, <1>2, LeaveLeaves
  <2>2. CoordinatorTypes' /\ mode' = m /\ pcmOwner' = OwnerFor(m)
    BY <1>1, <1>2, CommitTypes
  <2>3. mode' = "meeting" => ~SubtitlesActive'
    BY <2>2 DEF Ind, PcmInvariant, SubtitlesYield, Quieter
  <2> QED
    BY <2>1, <2>2, <2>3, CommitExitInd DEF Quieter
<1>3. CASE KeepState(h) /\ Goto(FirstForceStep)
  <2>1. LeavesFor(Exits)
    BY <1>1, <1>3, ForceLeaves
  <2>2. CoordinatorTypes' /\ UNCHANGED <<mode, pcmOwner>>
    BY <1>1, <1>3, KeepTypes DEF KeepState
  <2> QED
    BY <2>1, <2>2, ExitInd
<1> QED
  BY <1>2, <1>3 DEF CommitOrForce

LEMMA KeepExitInd ==
  ASSUME Ind, LeavesFor(Exits), NEW h \in BOOLEAN, KeepState(h), SwitchTypes', Quieter,
         HasMeeting => mode = "meeting"
  PROVE  Ind'
<1>1. CoordinatorTypes
  BY TypeGroups DEF Ind, PcmInvariant
<1>2. CoordinatorTypes' /\ UNCHANGED <<mode, pcmOwner>>
  BY <1>1, KeepTypes DEF KeepState
<1> QED
  BY <1>2, ExitInd DEF Quieter

\* What is known in a restoration.
LEMMA AtRestore ==
  ASSUME Ind, pc \in {"restore", "restore_commit"}
  PROVE  /\ CoordinatorTypes /\ LockTypes /\ SwitchTypes /\ WorkloadTypes
         /\ mode # "meeting" /\ ~HasMeeting /\ source \in {"idle", mode}
         /\ source \in {"idle", "assistant", "subtitles"}
<1>1. /\ CoordinatorTypes /\ LockTypes /\ SwitchTypes /\ WorkloadTypes
      /\ mode # "meeting" /\ ~HasMeeting /\ source \in {"idle", mode}
  BY TypeGroups DEF Ind, PcmInvariant, SwitchSource, MeetingLocked, MeetingHeld, ForceSteps
<1> QED
  BY <1>1 DEF SwitchTypes, Modes, Workloads

LEMMA RestoreDoneInd ==
  ASSUME Ind, NEW out \in Outcomes, NEW callbackOk \in BOOLEAN, RestoreDone(out, callbackOk)
  PROVE  Ind'
<1>1. pc = "restore" /\ Ends(out) /\ Restore(out)
  BY DEF RestoreDone
<1>2. Quieter /\ ~HasMeeting'
  BY <1>1, AtRestore, RestoreEffect DEF Quieter
<1>3. SwitchTypes' /\ UNCHANGED source
  BY <1>1, AtRestore DEF RestoreDone, SwitchTypes, switchVars
<1>4. activeMeeting \in BOOLEAN
  BY <1>1, AtRestore DEF CoordinatorTypes
<1>5. CASE KeepState(activeMeeting) /\ (Cancelled \/ Goto(FirstForceStep))
  <2>1. LeavesFor(Exits)
    BY <1>1, <1>5, AtRestore, CancelledLeaves, ForceLeaves
  <2> QED
    BY <1>1, <1>2, <1>3, <1>4, <1>5, <2>1, AtRestore, KeepExitInd
<1>6. CASE KeepState(activeMeeting) /\ Goto("restore_commit")
  <2>1. LockTypes' /\ pc' = "restore_commit"
    BY <1>1, <1>6, AtRestore, GotoLeaves DEF Steps
  <2>2. CoordinatorTypes' /\ UNCHANGED <<mode, pcmOwner>>
    BY <1>1, <1>4, <1>6, AtRestore, KeepTypes DEF KeepState
  <2> QED
    BY <1>1, <1>2, <1>3, <2>1, <2>2, AtRestore, InsideInd
    DEF Ind, PcmInvariant, Quieter, OwnerFollowsMode, SwitchSource, SwitchTarget,
        BarrierTaken, MeetingHeld
<1>7. CASE CommitOrForce(source, activeMeeting, callbackOk)
  <2>1. source \in Modes /\ source \in {mode, "idle"}
    BY <1>1, AtRestore DEF SwitchTypes
  <2> QED
    BY <1>1, <1>2, <1>3, <1>4, <1>7, <2>1, CommitOrForceInd
<1> QED
  BY <1>5, <1>6, <1>7 DEF RestoreDone, Outcomes

LEMMA RestoreCommitDoneInd ==
  ASSUME Ind, NEW out \in Outcomes, NEW callbackOk \in BOOLEAN,
         RestoreCommitDone(out, callbackOk)
  PROVE  Ind'
<1>1. pc = "restore_commit" /\ Ends(out) /\ CommitSubtitles(out) /\ OnlySubtitles
  BY DEF RestoreCommitDone
<1>2. WorkloadTypes' /\ ~HasMeeting'
  BY <1>1, AtRestore
  DEF CommitSubtitles, OnlySubtitles, WorkloadTypes, SubtitleStates, HasMeeting
<1>3. SwitchTypes' /\ UNCHANGED <<source, target, preparedTarget>>
  BY <1>1, AtRestore DEF RestoreCommitDone, SwitchTypes, switchVars
<1>4. activeMeeting \in BOOLEAN /\ source \in Modes
  BY <1>1, AtRestore DEF CoordinatorTypes, SwitchTypes
<1>5. CASE KeepState(activeMeeting) /\ (Cancelled \/ Goto(FirstForceStep))
  <2>1. LeavesFor(Exits)
    BY <1>1, <1>5, AtRestore, CancelledLeaves, ForceLeaves
  <2>2. CoordinatorTypes' /\ UNCHANGED <<mode, pcmOwner>>
    BY <1>1, <1>4, <1>5, AtRestore, KeepTypes DEF KeepState
  <2>3. LockTypes' /\ pc' \in Exits
    BY <2>1 DEF LeavesFor
  <2> QED
    BY <1>1, <1>2, <1>3, <2>1, <2>2, <2>3, AtRestore, InsideInd
    DEF Ind, PcmInvariant, OwnerFollowsMode, SwitchSource, SwitchTarget,
        BarrierTaken, MeetingHeld, LeavesFor, Exits, ForceSteps
<1>6. CASE CommitOrForce(source, activeMeeting, callbackOk) /\ out = "ok"
  <2>1. CASE CommitState(source, activeMeeting) /\ Leave
    <3>1. LeavesFor(Exits)
      BY <1>1, <2>1, AtRestore, LeaveLeaves
    <3>2. CoordinatorTypes' /\ mode' = source /\ pcmOwner' = OwnerFor(source)
      BY <1>1, <1>4, <2>1, AtRestore, CommitTypes
    <3> QED
      BY <1>1, <1>2, <1>3, <3>1, <3>2, AtRestore, CommitExitInd
  <2>2. CASE KeepState(activeMeeting) /\ Goto(FirstForceStep)
    BY <1>5, <2>2
  <2> QED
    BY <1>6, <2>1, <2>2 DEF CommitOrForce
<1> QED
  BY <1>5, <1>6 DEF RestoreCommitDone, Outcomes

LEMMA EndDoneInd ==
  ASSUME Ind, NEW out \in Outcomes, NEW callbackOk \in BOOLEAN, EndDone(out, callbackOk)
  PROVE  Ind'
<1>1. /\ SwitchTypes /\ WorkloadTypes /\ Ends(out) /\ pc # "free"
      /\ StopMeeting(out) /\ OnlyMeeting
  BY TypeGroups DEF Ind, PcmInvariant, EndDone
<1>2. Quieter /\ ~HasMeeting'
  BY <1>1 DEF StopMeeting, OnlyMeeting, WorkloadTypes, Quieter, HasMeeting, SubtitlesActive,
     MeetingStates
<1>3. SwitchTypes'
  BY <1>1 DEF EndDone, SwitchTypes, Outcomes, Causes
<1>4. CommitOrForce("idle", FALSE, callbackOk)
  BY DEF EndDone
<1> QED
  BY <1>1, <1>2, <1>3, <1>4, CommitOrForceInd DEF Modes

LEMMA StopQuiesceDoneInd ==
  ASSUME Ind, NEW out \in Outcomes, NEW callbackOk \in BOOLEAN,
         StopQuiesceDone(out, callbackOk)
  PROVE  Ind'
<1>1. /\ CoordinatorTypes /\ LockTypes /\ SwitchTypes /\ WorkloadTypes
      /\ mode # "meeting" /\ ~HasMeeting /\ source = mode /\ source # "idle"
      /\ Ends(out) /\ Quiesce(out) /\ pc # "free"
  BY TypeGroups DEF Ind, PcmInvariant, SwitchSource, MeetingLocked, MeetingHeld,
     ForceSteps, StopQuiesceDone
<1>2. Quieter /\ ~HasMeeting'
  <2>1. source \in {"assistant", "subtitles"}
    BY <1>1 DEF SwitchTypes, Modes, Workloads
  <2> QED
    BY <1>1, <2>1, QuiesceEffect DEF Quieter
<1>3. SwitchTypes' /\ UNCHANGED <<source, target, preparedTarget>>
  BY <1>1 DEF StopQuiesceDone, SwitchTypes, Outcomes, Causes
<1>4. activeMeeting \in BOOLEAN
  BY <1>1 DEF CoordinatorTypes
<1>5. CASE CommitOrForce("idle", FALSE, callbackOk)
  BY <1>1, <1>2, <1>3, <1>5, CommitOrForceInd DEF Modes
<1>6. CASE KeepState(activeMeeting) /\ (Cancelled \/ Goto(FirstForceStep))
  <2>1. LeavesFor(Exits)
    BY <1>1, <1>6, CancelledLeaves, ForceLeaves
  <2> QED
    BY <1>1, <1>2, <1>3, <1>4, <1>6, <2>1, KeepExitInd
<1>7. CASE KeepState(activeMeeting) /\ Goto("restore")
  <2>1. LockTypes' /\ pc' = "restore"
    BY <1>1, <1>7, GotoLeaves DEF Steps
  <2>2. CoordinatorTypes' /\ UNCHANGED <<mode, pcmOwner>>
    BY <1>1, <1>4, <1>7, KeepTypes DEF KeepState
  <2> QED
    BY <1>1, <1>2, <1>3, <2>1, <2>2, InsideInd
    DEF Ind, PcmInvariant, Quieter, OwnerFollowsMode, SwitchSource, SwitchTarget,
        BarrierTaken, MeetingHeld
<1> QED
  BY <1>5, <1>6, <1>7 DEF StopQuiesceDone, Outcomes

LEMMA RestartDoneInd ==
  ASSUME Ind, NEW out \in Outcomes, RestartDone(out)
  PROVE  Ind'
<1>1. /\ CoordinatorTypes /\ LockTypes /\ SwitchTypes /\ WorkloadTypes
      /\ HasMeeting => mode = "meeting"
  BY TypeGroups DEF Ind, PcmInvariant, MeetingHeld, RestartDone
<1>2. LeavesFor(Exits)
  BY <1>1, FinishLeaves, CancelledLeaves DEF RestartDone
<1>3. Quieter
  BY <1>1 DEF RestartDone, OnlyInteraction, Quieter, WorkloadTypes, InteractionStates,
     HasMeeting, SubtitlesActive, Outcomes
<1> QED
  BY <1>1, <1>2, <1>3, ExitInd
  DEF RestartDone, coordinatorVars, switchVars, CoordinatorTypes, SwitchTypes, Quieter

LEMMA ForceInteractionDoneInd ==
  ASSUME Ind, NEW out \in Outcomes, ForceInteractionDone(out)
  PROVE  Ind'
<1>1. /\ CoordinatorTypes /\ LockTypes /\ SwitchTypes /\ WorkloadTypes
      /\ HasMeeting => mode = "meeting"
  BY TypeGroups DEF Ind, PcmInvariant, MeetingHeld, ForceInteractionDone
<1>2. LeavesFor(Exits)
  BY <1>1, GotoLeaves, CancelledLeaves
  DEF ForceInteractionDone, LeavesFor, Exits, ForceSteps, Steps
<1>3. Quieter
  BY <1>1 DEF ForceInteractionDone, StopInteraction, OnlyInteraction, Quieter, WorkloadTypes,
     InteractionStates, HasMeeting, SubtitlesActive
<1> QED
  BY <1>1, <1>2, <1>3, ExitInd
  DEF ForceInteractionDone, coordinatorVars, switchVars, CoordinatorTypes, SwitchTypes, Quieter

LEMMA ForcedIdleInd ==
  ASSUME Ind, pc # "free", NEW out, Ends(out), ForcedIdle, SwitchTypes', Quieter, ~HasMeeting'
  PROVE  Ind'
<1>1. CoordinatorTypes /\ LockTypes
  BY TypeGroups DEF Ind, PcmInvariant
<1>2. LeavesFor(Exits)
  <2>1. CASE holder = Shutdown
    BY <1>1, <2>1 DEF ForcedIdle, Ends, LeavesFor, LockTypes, FreeLock, Exits, Steps
  <2>2. CASE holder # Shutdown
    BY <1>1, <2>2, LeaveLeaves DEF ForcedIdle
  <2> QED
    BY <2>1, <2>2
<1>3. CoordinatorTypes' /\ mode' = "idle" /\ pcmOwner' = "none"
  <2>1. CASE CommitState("idle", FALSE)
    BY <1>1, <2>1, CommitTypes DEF Modes, OwnerFor
  <2>2. CASE KeepState(FALSE) /\ ShutdownCommitted
    BY <1>1, <2>2, KeepTypes DEF KeepState, ShutdownCommitted
  <2> QED
    BY <2>1, <2>2 DEF ForcedIdle, ForceCommitIdle
<1> QED
  BY <1>2, <1>3, CommitExitInd DEF OwnerFor, Quieter

LEMMA ForceSubtitlesDoneInd ==
  ASSUME Ind, NEW out \in Outcomes, ForceSubtitlesDone(out)
  PROVE  Ind'
<1>1. /\ CoordinatorTypes /\ LockTypes /\ SwitchTypes /\ WorkloadTypes
      /\ HasMeeting => mode = "meeting"
  BY TypeGroups DEF Ind, PcmInvariant, MeetingHeld, ForceSubtitlesDone
<1>2. pc # "free" /\ Ends(out) /\ Quieter /\ (HasMeeting' <=> HasMeeting)
  BY <1>1 DEF ForceSubtitlesDone, DeactivateSubtitles, OnlySubtitles, Quieter, WorkloadTypes,
     SubtitleStates, HasMeeting, SubtitlesActive
<1>3. SwitchTypes' /\ activeMeeting \in BOOLEAN
  BY <1>1 DEF ForceSubtitlesDone, switchVars, SwitchTypes, CoordinatorTypes
<1>4. CASE KeepState(activeMeeting) /\ (Cancelled \/ Goto("force_meeting"))
  <2>1. LeavesFor(Exits)
    BY <1>1, <1>2, <1>4, CancelledLeaves, GotoLeaves
    DEF LeavesFor, Exits, ForceSteps, Steps
  <2> QED
    BY <1>1, <1>2, <1>3, <1>4, <2>1, KeepExitInd
<1>5. CASE ForcedIdle /\ ~HasMeeting
  BY <1>2, <1>3, <1>5, ForcedIdleInd
<1> QED
  BY <1>4, <1>5 DEF ForceSubtitlesDone

LEMMA ForceMeetingDoneInd ==
  ASSUME Ind, NEW out \in Outcomes, ForceMeetingDone(out)
  PROVE  Ind'
<1>1. /\ CoordinatorTypes /\ LockTypes /\ SwitchTypes /\ WorkloadTypes
      /\ HasMeeting => mode = "meeting"
  BY TypeGroups DEF Ind, PcmInvariant, MeetingHeld, ForceMeetingDone
<1>2. pc # "free" /\ Ends(out) /\ Quieter /\ ~HasMeeting'
  BY <1>1 DEF ForceMeetingDone, InterruptMeeting, OnlyMeeting, Quieter, WorkloadTypes,
     MeetingStates, HasMeeting, SubtitlesActive
<1>3. SwitchTypes' /\ activeMeeting \in BOOLEAN
  BY <1>1 DEF ForceMeetingDone, switchVars, SwitchTypes, CoordinatorTypes
<1>4. CASE KeepState(activeMeeting) /\ Cancelled
  <2>1. LeavesFor(Exits)
    BY <1>1, <1>2, <1>4, CancelledLeaves
  <2> QED
    BY <1>1, <1>2, <1>3, <1>4, <2>1, KeepExitInd
<1>5. CASE ForcedIdle
  BY <1>2, <1>3, <1>5, ForcedIdleInd
<1> QED
  BY <1>4, <1>5 DEF ForceMeetingDone
-----------------------------------------------------------------------------
(***************************************************************************)
(* So does the start of a command.                                         *)
(***************************************************************************)
\* What is known when a client takes the lock.
LEMMA AtStart ==
  ASSUME Ind, NEW c \in Clients, AtHead(c)
  PROVE  /\ CoordinatorTypes /\ LockTypes /\ SwitchTypes /\ WorkloadTypes
         /\ HasMeeting => mode = "meeting"
         /\ waiters # <<>> /\ pc = "free"
  BY TypeGroups DEF Ind, PcmInvariant, FreeLock, MeetingHeld, AtHead

LEMMA TailTypes ==
  ASSUME waiters \in Seq(Clients \cup {Shutdown}), waiters # <<>>, waiters' = Tail(waiters)
  PROVE  waiters' \in Seq(Clients \cup {Shutdown})
  OBVIOUS

LEMMA StartSwitchInd ==
  ASSUME Ind, NEW c \in Clients, StartSwitch(c)
  PROVE  Ind'
<1>1. AtHead(c) /\ ~AnsweredAtOnce(request[c]) /\ waiters' = Tail(waiters)
      /\ UNCHANGED <<preparedTarget, issued, shutdownVars, workloadVars, coordinatorVars, request>>
      /\ cancelRequested' = FALSE /\ holder' = c /\ pc' = "prepare" /\ cause' = "none"
      /\ target' = TargetOf(request[c]) /\ target' # "none"
      /\ source' = IF mode = TargetOf(request[c]) THEN "idle" ELSE mode
  BY DEF StartSwitch, Takes
<1>2. target' \in Workloads /\ mode # "meeting"
  BY <1>1 DEF TargetOf, Workloads, AnsweredAtOnce
<1>3. LockTypes'
  BY <1>1, AtStart, TailTypes, TasksAssumption DEF LockTypes, FreeLock, Steps, shutdownVars
<1>4. SwitchTypes' /\ source' \in {"idle", mode} /\ (source' = "idle" => mode \in {"idle", target'})
  BY <1>1, <1>2, AtStart DEF SwitchTypes, CoordinatorTypes, Modes, Causes
<1>5. CoordinatorTypes' /\ WorkloadTypes' /\ ~HasMeeting'
  BY <1>1, <1>2, AtStart
  DEF coordinatorVars, workloadVars, CoordinatorTypes, WorkloadTypes, HasMeeting
<1> QED
  BY <1>1, <1>2, <1>3, <1>4, <1>5, InsideInd
  DEF Ind, PcmInvariant, OwnerFollowsMode, SwitchSource, SwitchTarget, BarrierTaken,
      MeetingHeld, coordinatorVars

LEMMA StartRestartInd ==
  ASSUME Ind, NEW c \in Clients, StartRestart(c)
  PROVE  Ind'
<1>1. AtHead(c) /\ ~AnsweredAtOnce(request[c]) /\ waiters' = Tail(waiters)
      /\ UNCHANGED <<preparedTarget, issued, shutdownVars, workloadVars, coordinatorVars,
                     request, target, source>>
      /\ cancelRequested' = FALSE /\ holder' = c /\ pc' = "restart" /\ cause' = "none"
      /\ request[c] = "restart_assistant"
  BY DEF StartRestart, Takes
<1>2. mode # "meeting"
  BY <1>1 DEF AnsweredAtOnce
<1>3. LockTypes'
  BY <1>1, AtStart, TailTypes, TasksAssumption DEF LockTypes, FreeLock, Steps, shutdownVars
<1>4. CoordinatorTypes' /\ SwitchTypes' /\ WorkloadTypes' /\ ~HasMeeting'
  BY <1>1, <1>2, AtStart
  DEF coordinatorVars, workloadVars, CoordinatorTypes, SwitchTypes, WorkloadTypes, HasMeeting,
      Causes
<1> QED
  BY <1>1, <1>2, <1>3, <1>4, InsideInd
  DEF Ind, PcmInvariant, OwnerFollowsMode, SwitchSource, SwitchTarget, BarrierTaken,
      MeetingHeld, coordinatorVars

LEMMA StartStopInd ==
  ASSUME Ind, NEW c \in Clients, StartStop(c)
  PROVE  Ind'
<1>1. AtHead(c) /\ ~AnsweredAtOnce(request[c]) /\ waiters' = Tail(waiters)
      /\ UNCHANGED <<preparedTarget, issued, shutdownVars, workloadVars, request, target,
                     mode, activeMeeting, runtimeRevision, published>>
      /\ cancelRequested' = FALSE /\ holder' = c /\ cause' = "none"
      /\ pc' = (IF mode = "meeting" THEN "end" ELSE "stop_quiesce")
      /\ source' = mode /\ pcmOwner' = "none"
      /\ request[c] \in {"end_meeting", "stop_active"}
  BY DEF StartStop, Takes, Barrier
<1>2. mode # "idle"
  BY <1>1 DEF AnsweredAtOnce
<1>3. LockTypes'
  BY <1>1, AtStart, TailTypes, TasksAssumption DEF LockTypes, FreeLock, Steps, shutdownVars
<1>4. CoordinatorTypes' /\ SwitchTypes' /\ WorkloadTypes'
  BY <1>1, AtStart
  DEF workloadVars, CoordinatorTypes, Owners, SwitchTypes, WorkloadTypes, Causes
<1>5. PcmInvariant'
  BY <1>1, <1>2, <1>3, AtStart
  DEF LockTypes, Ind, PcmInvariant, OwnerFollowsMode, SwitchSource, SwitchTarget, BarrierTaken,
      MeetingLocked, MeetingHeld, SubtitlesYield, HasMeeting, SubtitlesActive, workloadVars,
      ForceSteps
<1> QED
  BY <1>3, <1>4, <1>5
  DEF Ind, TypeOK, CoordinatorTypes, LockTypes, SwitchTypes, WorkloadTypes

LEMMA StartStopWithoutBarrierInd ==
  ASSUME Ind, NEW c \in Clients, StartStopWithoutBarrier(c)
  PROVE  Ind'
<1>1. AtHead(c) /\ waiters' = Tail(waiters)
      /\ UNCHANGED <<preparedTarget, issued, shutdownVars, workloadVars, target>>
      /\ cancelRequested' = FALSE /\ cause' = "error" /\ source' = mode
  BY DEF StartStopWithoutBarrier, Takes
<1>2. SwitchTypes' /\ Quieter
  BY <1>1, AtStart
  DEF workloadVars, SwitchTypes, CoordinatorTypes, WorkloadTypes, Causes, Quieter,
      HasMeeting, SubtitlesActive
<1>3. mode \in Modes /\ activeMeeting \in BOOLEAN
  BY <1>1, AtStart DEF CoordinatorTypes
<1>4. CASE /\ CommitState(mode, activeMeeting)
           /\ request' = [request EXCEPT ![c] = NoCommand]
           /\ UNCHANGED <<holder, pc>>
  <2>1. LeavesFor(Exits)
    <3>1. LockTypes'
      BY <1>1, <1>4, AtStart, TailTypes DEF LockTypes, FreeLock, shutdownVars
    <3> QED
      BY <1>1, <1>4, <3>1, AtStart DEF LeavesFor, Exits
  <2>2. CoordinatorTypes' /\ mode' = mode /\ pcmOwner' = OwnerFor(mode')
    BY <1>1, <1>3, <1>4, AtStart, CommitTypes DEF CommitState
  <2> QED
    BY <1>1, <1>2, <2>1, <2>2, AtStart, CommitExitInd
    DEF Ind, PcmInvariant, SubtitlesYield, Quieter
<1>5. CASE /\ KeepState(activeMeeting)
           /\ holder' = c
           /\ pc' = FirstForceStep
           /\ UNCHANGED request
  <2>1. LeavesFor(Exits)
    <3>1. LockTypes'
      BY <1>1, <1>5, AtStart, TailTypes, TasksAssumption
      DEF LockTypes, FreeLock, shutdownVars, FirstForceStep, Steps,
         ForceSteps
    <3> QED
      BY <1>5, <3>1 DEF LeavesFor, Exits, FirstForceStep, ForceSteps
  <2> QED
    BY <1>1, <1>2, <1>3, <1>5, <2>1, AtStart, KeepExitInd
<1> QED
  BY <1>4, <1>5 DEF StartStopWithoutBarrier
-----------------------------------------------------------------------------
(***************************************************************************)
(* And what happens beside the holder of the lock.                         *)
(***************************************************************************)
AsideOfPcm == UNCHANGED <<mode, pcmOwner, pc, source, target, preparedTarget>>

LEMMA AsideInd ==
  ASSUME Ind, CoordinatorTypes', LockTypes', SwitchTypes', Quieter, AsideOfPcm
  PROVE  Ind'
<1>1. TypeOK'
  BY DEF Quieter, TypeOK, CoordinatorTypes, LockTypes, SwitchTypes, WorkloadTypes
<1>2. PcmInvariant'
  BY DEF Ind, AsideOfPcm, PcmInvariant, LockTypes, OwnerFollowsMode, SwitchSource,
     SwitchTarget, BarrierTaken, MeetingLocked, MeetingHeld, SubtitlesYield, Quieter, OwnerFor
<1> QED
  BY <1>1, <1>2 DEF Ind

LEMMA Types ==
  ASSUME Ind
  PROVE  CoordinatorTypes /\ LockTypes /\ SwitchTypes /\ WorkloadTypes
  BY TypeGroups DEF Ind, PcmInvariant

\* A step that only moves the clients, the queue of the lock or the shutdown.
LEMMA QueueInd ==
  ASSUME Ind, LockTypes', pc' = pc, UNCHANGED <<coordinatorVars, preparedTarget, switchVars, workloadVars>>
  PROVE  Ind'
<1>1. CoordinatorTypes' /\ SwitchTypes' /\ Quieter /\ AsideOfPcm
  BY Types DEF coordinatorVars, switchVars, workloadVars, CoordinatorTypes, SwitchTypes,
     WorkloadTypes, Quieter, AsideOfPcm, HasMeeting, SubtitlesActive
<1> QED
  BY <1>1, AsideInd

LEMMA SubmitInd ==
  ASSUME Ind, NEW c \in Clients, NEW command \in Commands, Submit(c, command)
  PROVE  Ind'
<1>1. Append(waiters, c) \in Seq(Clients \cup {Shutdown})
  BY Types DEF LockTypes
<1>2. LockTypes'
  BY <1>1, Types DEF Submit, LockTypes, FreeLock, shutdownVars
<1> QED
  BY <1>2, QueueInd DEF Submit

LEMMA CancelWaitingInd ==
  ASSUME Ind, NEW c \in Clients, CancelWaiting(c)
  PROVE  Ind'
<1>1. waiters' \in Seq(Clients \cup {Shutdown})
  <2>1. PICK i \in 1..Len(waiters) :
          waiters' = SubSeq(waiters, 1, i - 1) \o SubSeq(waiters, i + 1, Len(waiters))
    BY DEF CancelWaiting
  <2> DEFINE Q == Clients \cup {Shutdown}
  <2>2. waiters \in Seq(Q) /\ Len(waiters) \in Nat
    BY Types DEF LockTypes
  <2>3. SubSeq(waiters, 1, i - 1) \in Seq(Q)
    <3>1. \A k \in 1..(i - 1) : waiters[k] \in Q
      BY <2>2
    <3> QED
      BY <2>2, <3>1, SubSeqProperties
  <2>4. SubSeq(waiters, i + 1, Len(waiters)) \in Seq(Q)
    <3>1. \A k \in (i + 1)..Len(waiters) : waiters[k] \in Q
      BY <2>2
    <3> QED
      BY <2>2, <3>1, SubSeqProperties
  <2> QED
    BY <2>1, <2>3, <2>4, ConcatProperties
<1>2. LockTypes'
  BY <1>1, Types DEF CancelWaiting, LockTypes, FreeLock, shutdownVars
<1> QED
  BY <1>2, QueueInd DEF CancelWaiting

LEMMA CancelRunningInd ==
  ASSUME Ind, NEW c \in Clients, CancelRunning(c)
  PROVE  Ind'
<1>1. LockTypes'
  BY Types DEF CancelRunning, LockTypes, FreeLock, lockVars, shutdownVars
<1> QED
  BY <1>1, QueueInd DEF CancelRunning

LEMMA AnswerAtOnceInd ==
  ASSUME Ind, NEW c \in Clients, AnswerAtOnce(c)
  PROVE  Ind'
<1>1. LockTypes'
  BY AtStart, TailTypes DEF AnswerAtOnce, LockTypes, FreeLock, shutdownVars
<1> QED
  BY <1>1, QueueInd DEF AnswerAtOnce

LEMMA ShutdownStepInd ==
  ASSUME Ind, ShutdownStep
  PROVE  Ind'
<1>1. CASE RequestStop
  BY <1>1, Types, QueueInd DEF RequestStop, ShutdownUnchanged, LockTypes, FreeLock
<1>2. CASE CancelTransition
  BY <1>2, Types, QueueInd
  DEF CancelTransition, ShutdownUnchanged, LockTypes, FreeLock, CoordinatorTypes
<1>3. CASE QueueShutdown
  <2>1. Append(waiters, Shutdown) \in Seq(Clients \cup {Shutdown})
    BY Types DEF LockTypes
  <2>2. LockTypes'
    BY <1>3, <2>1, Types DEF QueueShutdown, ShutdownUnchanged, LockTypes, FreeLock
  <2> QED
    BY <1>3, <2>2, QueueInd DEF QueueShutdown, ShutdownUnchanged
<1>4. CASE StopEverything
  <2>1. LockTypes' /\ pc' \in ForceSteps
        /\ (pc' = "force_prepared" => preparedTarget # NoTarget)
    BY <1>4, Types, TailTypes, TasksAssumption
    DEF StopEverything, AtHead, ShutdownUnchanged, shutdownVars, LockTypes, FreeLock, Steps, ForceSteps
  <2>2. UNCHANGED <<coordinatorVars, preparedTarget, switchVars, workloadVars>>
    BY <1>4 DEF StopEverything, ShutdownUnchanged
  <2>3. LeavesFor(Exits)
    BY <2>1, <2>2 DEF LeavesFor, Exits, ForceSteps
  <2>4. HasMeeting => mode = "meeting"
    BY <1>4 DEF StopEverything, AtHead, Ind, PcmInvariant, FreeLock, MeetingHeld
  <2> QED
    BY <2>2, <2>3, <2>4, Types, ExitInd
    DEF coordinatorVars, switchVars, workloadVars, CoordinatorTypes, SwitchTypes,
        WorkloadTypes, Quieter, HasMeeting, SubtitlesActive
<1> QED
  BY <1>1, <1>2, <1>3, <1>4 DEF ShutdownStep

LEMMA DecayInd ==
  ASSUME Ind, Decay
  PROVE  Ind'
<1>1. OnlyWorkloads /\ Quieter
  BY Types DEF Decay, InteractionEnds, SubtitleSourceLost, CaptureLost, SubtitleCleanupEnds,
     OnlyInteraction, OnlySubtitles, OnlyMeeting, Quieter, WorkloadTypes, InteractionStates,
     SubtitleStates, MeetingStates, HasMeeting, SubtitlesActive
<1> QED
  BY <1>1, Types, AsideInd
  DEF OnlyWorkloads, coordinatorVars, lockVars, shutdownVars, switchVars, CoordinatorTypes,
      LockTypes, FreeLock, SwitchTypes, AsideOfPcm

LEMMA SnapshotSentInd ==
  ASSUME Ind, SnapshotSent
  PROVE  Ind'
<1>1. published' \in [mode: Modes, owner: Owners, meeting: BOOLEAN, revision: Nat]
  BY Types DEF SnapshotSent, Ownership, CoordinatorTypes
<1>2. CoordinatorTypes' /\ LockTypes' /\ SwitchTypes' /\ Quieter /\ AsideOfPcm
  BY <1>1, Types
  DEF SnapshotSent, lockVars, shutdownVars, switchVars, workloadVars, CoordinatorTypes,
      LockTypes, FreeLock, SwitchTypes, WorkloadTypes, Quieter, HasMeeting, SubtitlesActive,
      AsideOfPcm
<1> QED
  BY <1>2, AsideInd
-----------------------------------------------------------------------------
LEMMA StutterInd ==
  ASSUME Ind, UNCHANGED vars
  PROVE  Ind'
<1>1. LockTypes' /\ pc' = pc
      /\ UNCHANGED <<coordinatorVars, preparedTarget, switchVars, workloadVars>>
  BY Types DEF vars, lockVars, shutdownVars, LockTypes, FreeLock
<1> QED
  BY <1>1, QueueInd

LEMMA NextInd ==
  ASSUME Ind, Next
  PROVE  Ind'
<1>1. CASE \E c \in Clients : \/ \E command \in Commands : Submit(c, command)
                              \/ CancelWaiting(c) \/ CancelRunning(c)
                              \/ AnswerAtOnce(c) \/ Begin(c)
  BY <1>1, SubmitInd, CancelWaitingInd, CancelRunningInd, AnswerAtOnceInd, StartSwitchInd,
     StartRestartInd, StartStopInd, StartStopWithoutBarrierInd
  DEF Begin
<1>2. CASE Proceed
  BY <1>2, PrepareFailsInd, QuiesceDoneInd, CommitFailsInd, AbortDoneInd, RestartDoneInd,
     CancelAbortDoneInd, ForcePreparedDoneInd, ForceInteractionDoneInd, ForceSubtitlesDoneInd,
     ForceMeetingDoneInd, PrepareDoneInd, CommitDoneInd, RestoreDoneInd, RestoreCommitDoneInd,
     EndDoneInd, StopQuiesceDoneInd, PublishDoneInd
  DEF Proceed
<1> QED
  BY <1>1, <1>2, ShutdownStepInd, DecayInd, SnapshotSentInd DEF Next

\* PcmInvariant, with the types of the variables, is inductive: it holds in every
\* state of RuntimeModeCoordinator, whatever fails and whoever is cancelled.
THEOREM Invariance == Spec => [](TypeOK /\ PcmInvariant)
<1>1. Ind /\ [Next]_vars => Ind'
  BY NextInd, StutterInd
<1> QED
  BY <1>1, InitInd, PTL DEF Spec, Ind

\* Every variable of the coordinator keeps its type.
THEOREM TypeCorrect == Spec => []TypeOK
  BY Invariance, PTL

\* UIRuntime lets a frame through for subtitles and meetings alike and the proxy
\* prefers a meeting; the frame nevertheless only reaches the owner, because a
\* meeting is held only in meeting mode and subtitles are down in meeting mode.
THEOREM FramesReachOnlyTheOwner == Spec => []PcmReachesOnlyOwner
<1>1. PcmInvariant => PcmReachesOnlyOwner
  BY DEF PcmInvariant, OwnerFollowsMode, MeetingHeld, SubtitlesYield, OwnerFor,
     PcmReachesOnlyOwner, Hearing, Active, HasMeeting, Workloads
<1> QED
  BY <1>1, Invariance, PTL

\* What a step may do to the mode, the owner and the revision.
Handover ==
  \/ UNCHANGED <<mode, pcmOwner, runtimeRevision>>
  \/ pcmOwner' = "none" /\ UNCHANGED <<mode, runtimeRevision>>
  \/ \E m \in Modes :
       /\ pcmOwner = "none" \/ OwnerFor(m) \in {"none", pcmOwner}
       /\ mode' = m /\ pcmOwner' = OwnerFor(m) /\ runtimeRevision' = runtimeRevision + 1

LEMMA CommitHandover ==
  ASSUME NEW m \in Modes, NEW h, CommitState(m, h),
         pcmOwner = "none" \/ OwnerFor(m) \in {"none", pcmOwner}
  PROVE  Handover
  BY DEF CommitState, Handover

LEMMA CommitOrForceHandover ==
  ASSUME Ind, NEW m \in {mode, "idle"}, NEW h, NEW callbackOk, CommitOrForce(m, h, callbackOk)
  PROVE  Handover
<1>1. m \in Modes /\ (pcmOwner = "none" \/ OwnerFor(m) \in {"none", pcmOwner})
  BY DEF Ind, TypeOK, PcmInvariant, OwnerFollowsMode, OwnerFor, Modes
<1>2. CASE CommitState(m, h)
  BY <1>1, <1>2, CommitHandover
<1>3. CASE KeepState(h)
  BY <1>3 DEF KeepState, Handover
<1> QED
  BY <1>2, <1>3 DEF CommitOrForce

LEMMA ForcedIdleHandover ==
  ASSUME ForcedIdle
  PROVE  Handover
<1>1. CASE CommitState("idle", FALSE)
  BY <1>1, CommitHandover DEF OwnerFor, Modes
<1>2. CASE KeepState(FALSE)
  BY <1>2 DEF KeepState, Handover
<1> QED
  BY <1>1, <1>2 DEF ForcedIdle, ForceCommitIdle

LEMMA ProceedHandover ==
  ASSUME Ind, Proceed
  PROVE  Handover
<1> USE DEF KeepState, Barrier, coordinatorVars
<1>1. ASSUME NEW out \in Outcomes,
             \/ PrepareFails(out) \/ QuiesceDone(out) \/ CommitFails(out) \/ AbortDone(out)
             \/ RestartDone(out) \/ CancelAbortDone(out) \/ ForcePreparedDone(out)
             \/ ForceInteractionDone(out)
      PROVE  Handover
  BY <1>1 DEF Handover, PrepareFails, QuiesceDone, CommitFails, AbortDone, RestartDone,
     CancelAbortDone, ForcePreparedDone, ForceInteractionDone
<1>2. ASSUME NEW out \in Outcomes, ForceSubtitlesDone(out) \/ ForceMeetingDone(out)
      PROVE  Handover
  BY <1>2, ForcedIdleHandover DEF Handover, ForceSubtitlesDone, ForceMeetingDone
<1>3. ASSUME NEW callbackOk \in BOOLEAN, PrepareDone(callbackOk)
      PROVE  Handover
  BY <1>3 DEF Handover, PrepareDone
<1>4. ASSUME NEW callbackOk \in BOOLEAN, CommitDone(callbackOk)
      PROVE  Handover
  <2>1. pcmOwner \in {"none", target} /\ target \in Workloads
    BY <1>4, AtCommit DEF CommitDone
  <2>2. target \in Modes /\ OwnerFor(target) = target
    BY <2>1 DEF OwnerFor, Workloads, Modes
  <2>3. CASE callbackOk
    BY <1>4, <2>1, <2>2, <2>3, CommitHandover DEF CommitDone
  <2>4. CASE ~callbackOk
    BY <1>4, <2>4 DEF CommitDone, Handover
  <2> QED
    BY <2>3, <2>4
<1>5. ASSUME NEW out \in Outcomes, NEW callbackOk \in BOOLEAN,
             RestoreDone(out, callbackOk) \/ RestoreCommitDone(out, callbackOk)
      PROVE  Handover
  <2>1. source \in {mode, "idle"}
    BY <1>5, AtRestore DEF RestoreDone, RestoreCommitDone
  <2>2. ASSUME CommitOrForce(source, activeMeeting, callbackOk)
        PROVE  Handover
    BY <2>1, <2>2, CommitOrForceHandover
  <2>3. ASSUME KeepState(activeMeeting)
        PROVE  Handover
    BY <2>3 DEF Handover
  <2> QED
    BY <1>5, <2>2, <2>3 DEF RestoreDone, RestoreCommitDone, Outcomes
<1>6. ASSUME NEW out \in Outcomes, NEW callbackOk \in BOOLEAN,
             EndDone(out, callbackOk) \/ StopQuiesceDone(out, callbackOk)
      PROVE  Handover
  <2>1. ASSUME CommitOrForce("idle", FALSE, callbackOk)
        PROVE  Handover
    BY <2>1, CommitOrForceHandover
  <2>2. ASSUME KeepState(activeMeeting)
        PROVE  Handover
    BY <2>2 DEF Handover
  <2> QED
    BY <1>6, <2>1, <2>2 DEF EndDone, StopQuiesceDone, Outcomes
<1>7. ASSUME PublishDone
      PROVE  Handover
  BY <1>7 DEF Handover, PublishDone
<1> QED
  BY <1>1, <1>2, <1>3, <1>4, <1>5, <1>6, <1>7 DEF Proceed

LEMMA BeginHandover ==
  ASSUME Ind, NEW c \in Clients, Begin(c)
  PROVE  Handover
<1>1. ASSUME StartSwitch(c) \/ StartRestart(c)
      PROVE  Handover
  BY <1>1 DEF StartSwitch, StartRestart, coordinatorVars, Handover
<1>2. ASSUME StartStop(c)
      PROVE  Handover
  BY <1>2 DEF StartStop, Barrier, Handover
<1>3. ASSUME StartStopWithoutBarrier(c)
      PROVE  Handover
  <2>1. mode \in Modes /\ (pcmOwner = "none" \/ OwnerFor(mode) \in {"none", pcmOwner})
    BY DEF Ind, TypeOK, PcmInvariant, OwnerFollowsMode
  <2>2. CASE CommitState(mode, activeMeeting)
    BY <2>1, <2>2, CommitHandover
  <2>3. CASE KeepState(activeMeeting)
    BY <2>3 DEF KeepState, Handover
  <2> QED
    BY <1>3, <2>2, <2>3 DEF StartStopWithoutBarrier
<1> QED
  BY <1>1, <1>2, <1>3 DEF Begin

LEMMA OtherHandover ==
  ASSUME Ind, Next, ~Proceed
  PROVE  Handover
<1>1. ASSUME NEW c \in Clients,
             \/ \E command \in Commands : Submit(c, command)
             \/ CancelWaiting(c) \/ CancelRunning(c) \/ AnswerAtOnce(c)
      PROVE  Handover
  BY <1>1 DEF Submit, CancelWaiting, CancelRunning, AnswerAtOnce, coordinatorVars, Handover
<1>2. ASSUME ShutdownStep \/ Decay \/ SnapshotSent
      PROVE  Handover
  BY <1>2 DEF ShutdownStep, RequestStop, CancelTransition, QueueShutdown, StopEverything,
     ShutdownUnchanged, Decay, InteractionEnds, SubtitleSourceLost, CaptureLost,
     SubtitleCleanupEnds, OnlyWorkloads, SnapshotSent, coordinatorVars, Handover
<1> QED
  BY <1>1, <1>2, BeginHandover DEF Next

\* The coordinator implements the arbiter that its readers rely on: whatever fails and
\* whoever is cancelled, the PCM goes from one workload to another through nobody, and the
\* mode changes under a new revision.
THEOREM CoordinatorImplementsArbiter == Spec => Arbitrated
<1>1. Init => Arbiter!Init
  BY DEF Init, Arbiter!Init
<1>2. ASSUME Ind, [Next]_vars
      PROVE  [Arbiter!Next]_(Arbiter!arbiter)
  <2>1. CASE UNCHANGED vars
    BY <2>1 DEF vars, coordinatorVars, Arbiter!arbiter
  <2>2. CASE Next
    <3>1. Handover
      BY <1>2, <2>2, ProceedHandover, OtherHandover
    <3> QED
      BY <3>1 DEF Handover, Arbiter!Next, Arbiter!Silence, Arbiter!Commit, Arbiter!arbiter,
         Arbiter!Modes, Arbiter!OwnerOf, Modes, OwnerFor
  <2> QED
    BY <1>2, <2>1, <2>2
<1>3. Spec => []Ind
  BY Invariance DEF Ind
<1> QED
  BY <1>1, <1>2, <1>3, PTL DEF Spec, Arbitrated, Arbiter!Spec
-----------------------------------------------------------------------------
(***************************************************************************)
(* stop().  The shutdown takes the lock once, through the queue; its calls *)
(* are never cancelled; and no force step is passed with its workload      *)
(* still capturing.                                                        *)
(***************************************************************************)
NoShutdown(q) == \A i \in 1 .. Len(q) : q[i] # Shutdown
OneShutdown(q) == \A i, j \in 1 .. Len(q) : q[i] = Shutdown /\ q[j] = Shutdown => i = j

Shutting ==
  /\ holder = Shutdown => shutdown = "locking" /\ ~cancelRequested /\ pc \in ForceSteps
  /\ holder \in Clients => shutdown \in {"running", "requested", "joining"}
  /\ shutdown = "joining" => holder \in Clients
  /\ shutdown # "locking" \/ holder = Shutdown => NoShutdown(waiters)
  /\ OneShutdown(waiters)
  /\ revisionAtStop <= runtimeRevision
Forced ==
  /\ pc \in {"force_subtitles", "force_meeting"} => interaction # "on"
  /\ pc = "force_meeting" => ~SubtitlesActive
Silent == interaction # "on" /\ ~SubtitlesActive /\ meetingSession # "recording"
Stopped ==
  shutdown = "stopped" =>
    /\ mode = "idle" /\ pcmOwner = "none" /\ ~activeMeeting
    /\ runtimeRevision > revisionAtStop
    /\ Silent
StopInv == Shutting /\ Forced /\ Stopped

LEMMA EmptyQueue == NoShutdown(<<>>) /\ OneShutdown(<<>>)
BY DEF NoShutdown, OneShutdown

LEMMA TailQueue ==
  ASSUME NEW S, NEW q \in Seq(S), q # <<>>, OneShutdown(q)
  PROVE  /\ OneShutdown(Tail(q))
         /\ NoShutdown(q) \/ Head(q) = Shutdown => NoShutdown(Tail(q))
<1>1. Len(q) \in Nat \ {0} /\ Len(Tail(q)) = Len(q) - 1 /\ Head(q) = q[1]
      /\ \A i \in 1 .. Len(q) - 1 : Tail(q)[i] = q[i + 1]
  OBVIOUS
<1>2. 1 \in 1 .. Len(q) /\ \A i \in 1 .. Len(q) - 1 : i + 1 \in 1 .. Len(q) /\ i + 1 # 1
  BY <1>1
<1>3. \A i, j \in 1 .. Len(q) - 1 : i + 1 = j + 1 => i = j
  OBVIOUS
<1> QED
  BY <1>1, <1>2, <1>3 DEF NoShutdown, OneShutdown

LEMMA AppendQueue ==
  ASSUME NEW S, NEW q \in Seq(S), NEW t \in S, NoShutdown(q) \/ t # Shutdown, OneShutdown(q)
  PROVE  /\ OneShutdown(Append(q, t))
         /\ NoShutdown(q) /\ t # Shutdown => NoShutdown(Append(q, t))
<1> DEFINE n == Len(q)
           more == Append(q, t)
<1>1. n \in Nat /\ Len(more) = n + 1 /\ more[n + 1] = t /\ \A i \in 1 .. n : more[i] = q[i]
  OBVIOUS
<1>2. (NoShutdown(q) <=> \A i \in 1 .. n : q[i] # Shutdown)
      /\ \A i, j \in 1 .. n : q[i] = Shutdown /\ q[j] = Shutdown => i = j
  BY DEF NoShutdown, OneShutdown
<1> HIDE DEF n, more
<1>3. \A i \in 1 .. n + 1 : i \in 1 .. n \/ i = n + 1
  BY <1>1
<1> QED
  BY <1>1, <1>2, <1>3 DEF NoShutdown, OneShutdown

LEMMA DropQueue ==
  ASSUME NEW S, NEW q \in Seq(S), NEW k \in 1 .. Len(q), OneShutdown(q)
  PROVE  LET r == SubSeq(q, 1, k - 1) \o SubSeq(q, k + 1, Len(q))
         IN  OneShutdown(r) /\ (NoShutdown(q) => NoShutdown(r))
<1> DEFINE n == Len(q)
           a == SubSeq(q, 1, k - 1)
           b == SubSeq(q, k + 1, n)
           r == a \o b
           from(i) == IF i < k THEN i ELSE i + 1
<1>1. n \in Nat /\ k \in Nat /\ 1 <= k /\ k <= n
  OBVIOUS
<1>2. a \in Seq(S) /\ Len(a) = k - 1 /\ \A i \in 1 .. k - 1 : a[i] = q[i]
  <2>1. \A i \in 1 .. k - 1 : q[i] \in S
    BY <1>1
  <2> QED
    BY <1>1, <2>1, SubSeqProperties
<1>3. b \in Seq(S) /\ Len(b) = n - k /\ \A i \in 1 .. n - k : b[i] = q[k + i]
  <2>1. \A i \in k + 1 .. n : q[i] \in S
    BY <1>1
  <2> QED
    BY <1>1, <2>1, SubSeqProperties
<1>4. Len(r) = n - 1 /\ \A i \in 1 .. n - 1 : r[i] = IF i <= k - 1 THEN a[i] ELSE b[i - (k - 1)]
  <2>1. /\ Len(a \o b) = Len(a) + Len(b)
        /\ \A i \in 1 .. Len(a) + Len(b) :
             (a \o b)[i] = IF i <= Len(a) THEN a[i] ELSE b[i - Len(a)]
    BY <1>2, <1>3, ConcatProperties
  <2> HIDE DEF a, b
  <2>2. Len(a) = k - 1 /\ Len(a) + Len(b) = n - 1
    BY <1>1, <1>2, <1>3
  <2> QED
    BY <2>1, <2>2
<1> HIDE DEF a, b, r
<1>5. \A i \in 1 .. n - 1 : r[i] = q[from(i)] /\ from(i) \in 1 .. n
  <2> SUFFICES ASSUME NEW i \in 1 .. n - 1 PROVE r[i] = q[from(i)] /\ from(i) \in 1 .. n
    OBVIOUS
  <2>1. CASE i < k
    BY <1>1, <1>2, <1>4, <2>1
  <2>2. CASE ~(i < k)
    <3>1. i - (k - 1) \in 1 .. n - k /\ k + (i - (k - 1)) = i + 1 /\ ~(i <= k - 1)
      BY <1>1, <2>2
    <3> QED
      BY <1>1, <1>3, <1>4, <2>2, <3>1
  <2> QED
    BY <2>1, <2>2
<1>6. \A i, j \in 1 .. n - 1 : from(i) = from(j) => i = j
  BY <1>1
<1> HIDE DEF from
<1>7. OneShutdown(r) /\ (NoShutdown(q) => NoShutdown(r))
  BY <1>4, <1>5, <1>6 DEF NoShutdown, OneShutdown, n
<1> QED
  BY <1>7 DEF r, a, b

LEMMA InitStop == Init => StopInv
BY EmptyQueue, TasksAssumption DEF Init, StopInv, Shutting, Forced, Stopped

\* How a step of the holder leaves the lock: it goes on, it returns the lock of a command,
\* or it ends the shutdown.
Holds == UNCHANGED <<holder, shutdown>> /\ (holder = Shutdown => pc' \in ForceSteps)
Returns == /\ holder \in Clients /\ holder' = Nobody /\ pc' = "free"
           /\ shutdown' = IF shutdown = "joining" THEN "joined" ELSE shutdown
Stops == holder = Shutdown /\ holder' = Nobody /\ shutdown' = "stopped" /\ Stopped'

LEMMA HolderStop ==
  ASSUME Ind, StopInv, holder # Nobody, NEW out, Ends(out),
         runtimeRevision' \in {runtimeRevision, runtimeRevision + 1}, Forced',
         Holds \/ Returns \/ Stops
  PROVE  StopInv'
<1>1. waiters' = waiters /\ revisionAtStop' = revisionAtStop
      /\ (cancelRequested' => cancelRequested)
      /\ shutdown # "stopped"
      /\ holder \in Clients \cup {Shutdown} /\ Nobody \notin Clients \cup {Shutdown}
      /\ Shutdown \notin Clients
  BY Types, TasksAssumption DEF Ends, StopInv, Shutting, LockTypes
<1>2. revisionAtStop' <= runtimeRevision'
  <2>1. revisionAtStop \in Nat /\ runtimeRevision \in Nat /\ revisionAtStop <= runtimeRevision
    BY DEF Ind, TypeOK, StopInv, Shutting
  <2> QED
    BY <1>1, <2>1
<1>3. CASE Holds
  BY <1>1, <1>2, <1>3 DEF StopInv, Shutting, Stopped, Holds, NoShutdown, OneShutdown
<1>4. CASE Returns
  BY <1>1, <1>2, <1>4 DEF StopInv, Shutting, Stopped, Returns, NoShutdown, OneShutdown
<1>5. CASE Stops
  BY <1>1, <1>2, <1>5 DEF StopInv, Shutting, Stopped, Stops, NoShutdown, OneShutdown
<1> QED
  BY <1>3, <1>4, <1>5

\* A step outside the force steps belongs to a client; it may lead into them at the first.
LEMMA ClientStop ==
  ASSUME Ind, StopInv, pc \notin ForceSteps \cup {"free"}, NEW out, Ends(out),
         runtimeRevision' \in {runtimeRevision, runtimeRevision + 1},
         \/ Finish \/ Cancelled \/ Leave \/ Goto(FirstForceStep)
         \/ \E step \in Steps \ ForceSteps : Goto(step)
  PROVE  StopInv'
<1>1. holder \in Clients /\ Shutdown \notin Clients /\ holder # Nobody
  BY Types, TasksAssumption DEF LockTypes, FreeLock, StopInv, Shutting
<1>2. Holds \/ Returns
  BY <1>1 DEF Finish, Cancelled, Leave, Goto, Holds, Returns
<1>3. Forced'
  BY DEF Finish, Cancelled, Leave, Goto, FirstForceStep, Forced, ForceSteps
<1> QED
  BY <1>1, <1>2, <1>3, HolderStop

LEMMA CommitOrForceStop ==
  ASSUME NEW m, NEW h, NEW callbackOk, CommitOrForce(m, h, callbackOk)
  PROVE  /\ runtimeRevision' \in {runtimeRevision, runtimeRevision + 1}
         /\ Leave \/ Goto(FirstForceStep)
BY DEF CommitOrForce, CommitState, KeepState

LEMMA SwitchStop ==
  ASSUME Ind, StopInv, NEW out \in Outcomes, NEW callbackOk \in BOOLEAN,
         \/ PrepareFails(out) \/ PrepareDone(callbackOk) \/ QuiesceDone(out)
         \/ CommitFails(out) \/ CommitDone(callbackOk) \/ PublishDone
         \/ AbortDone(out) \/ RestartDone(out) \/ CancelAbortDone(out)
  PROVE  StopInv'
<1> USE DEF ForceSteps, Steps
<1>1. CASE PrepareFails(out)
  BY <1>1, ClientStop DEF PrepareFails, coordinatorVars
<1>2. CASE PrepareDone(callbackOk)
  <2>1. pc = "prepare" /\ Ends("ok") /\ runtimeRevision' = runtimeRevision
        /\ (Goto("commit") \/ Goto("quiesce") \/ Goto("abort"))
    BY <1>2 DEF PrepareDone, coordinatorVars, Barrier, RollBack
  <2> QED
    BY <2>1, ClientStop
<1>3. CASE QuiesceDone(out)
  <2>1. pc = "quiesce" /\ Ends(out) /\ runtimeRevision' = runtimeRevision
        /\ (Goto("commit") \/ Goto("abort"))
    BY <1>3 DEF QuiesceDone, coordinatorVars, RollBack
  <2> QED
    BY <2>1, ClientStop
<1>4. CASE CommitFails(out)
  <2>1. pc = "commit" /\ Ends(out) /\ runtimeRevision' = runtimeRevision /\ Goto("abort")
    BY <1>4 DEF CommitFails, coordinatorVars, RollBack
  <2> QED
    BY <2>1, ClientStop
<1>5. CASE CommitDone(callbackOk)
  <2>1. pc = "commit" /\ Ends("ok") /\ runtimeRevision' \in {runtimeRevision, runtimeRevision + 1}
        /\ (Goto("publish") \/ Goto("abort") \/ Finish)
    BY <1>5 DEF CommitDone, CommitState, KeepState, RollBack
  <2> QED
    BY <2>1, ClientStop
<1>6. CASE PublishDone
  BY <1>6, ClientStop DEF PublishDone, coordinatorVars
<1>7. CASE AbortDone(out)
  <2>1. pc = "abort" /\ Ends(out) /\ runtimeRevision' = runtimeRevision
        /\ (Goto("restore") \/ Goto(FirstForceStep) \/ Cancelled)
    BY <1>7 DEF AbortDone, KeepState, Outcomes
  <2> QED
    BY <2>1, ClientStop
<1>8. CASE RestartDone(out)
  BY <1>8, ClientStop DEF RestartDone, coordinatorVars
<1>9. CASE CancelAbortDone(out)
  BY <1>9, ClientStop DEF CancelAbortDone, KeepState
<1> QED
  BY <1>1, <1>2, <1>3, <1>4, <1>5, <1>6, <1>7, <1>8, <1>9

LEMMA RestStop ==
  ASSUME Ind, StopInv, NEW out \in Outcomes, NEW callbackOk \in BOOLEAN,
         \/ RestoreDone(out, callbackOk) \/ RestoreCommitDone(out, callbackOk)
         \/ EndDone(out, callbackOk) \/ StopQuiesceDone(out, callbackOk)
  PROVE  StopInv'
<1> USE DEF ForceSteps, Steps
<1>1. CASE RestoreDone(out, callbackOk)
  <2>1. pc = "restore" /\ Ends(out) /\ runtimeRevision' \in {runtimeRevision, runtimeRevision + 1}
        /\ (Goto("restore_commit") \/ Goto(FirstForceStep) \/ Cancelled \/ Leave)
    BY <1>1, CommitOrForceStop DEF RestoreDone, KeepState, Outcomes
  <2> QED
    BY <2>1, ClientStop
<1>2. CASE RestoreCommitDone(out, callbackOk)
  <2>1. pc = "restore_commit" /\ Ends(out)
        /\ runtimeRevision' \in {runtimeRevision, runtimeRevision + 1}
        /\ (Goto(FirstForceStep) \/ Cancelled \/ Leave)
    BY <1>2, CommitOrForceStop DEF RestoreCommitDone, KeepState, Outcomes
  <2> QED
    BY <2>1, ClientStop
<1>3. CASE EndDone(out, callbackOk)
  <2>1. pc = "end" /\ Ends(out) /\ runtimeRevision' \in {runtimeRevision, runtimeRevision + 1}
        /\ (Goto(FirstForceStep) \/ Leave)
    BY <1>3, CommitOrForceStop DEF EndDone
  <2> QED
    BY <2>1, ClientStop
<1>4. CASE StopQuiesceDone(out, callbackOk)
  <2>1. pc = "stop_quiesce" /\ Ends(out)
        /\ runtimeRevision' \in {runtimeRevision, runtimeRevision + 1}
        /\ (Goto(FirstForceStep) \/ Goto("restore") \/ Cancelled \/ Leave)
    BY <1>4, CommitOrForceStop DEF StopQuiesceDone, KeepState, Outcomes
  <2> QED
    BY <2>1, ClientStop
<1> QED
  BY <1>1, <1>2, <1>3, <1>4

\* The force steps.  Only a client's are cancelled.
LEMMA NotCancelled ==
  ASSUME StopInv, holder = Shutdown, NEW out, Ends(out) PROVE out # "cancel"
BY DEF StopInv, Shutting, Ends, CancelDelivered

LEMMA ForcedIdleStop ==
  ASSUME Ind, StopInv, pc \in ForceSteps, NEW out, Ends(out), ForcedIdle, Silent'
  PROVE  StopInv'
<1>1. runtimeRevision' \in {runtimeRevision, runtimeRevision + 1}
  BY DEF ForcedIdle, ForceCommitIdle, CommitState, KeepState
<1>2. holder \in Clients \cup {Shutdown} /\ holder # Nobody /\ Shutdown \notin Clients
  BY Types, TasksAssumption DEF LockTypes, FreeLock, ForceSteps
<1>3. CASE holder # Shutdown
  <2>1. Leave
    BY <1>3 DEF ForcedIdle
  <2>2. Holds \/ Returns
    BY <1>2, <1>3, <2>1 DEF Leave, Finish, Cancelled, Goto, Holds, Returns
  <2>3. Forced'
    BY <2>1 DEF Leave, Finish, Cancelled, Goto, Forced
  <2> QED
    BY <1>1, <1>2, <2>2, <2>3, HolderStop
<1>4. CASE holder = Shutdown
  <2>1. holder' = Nobody /\ shutdown' = "stopped" /\ pc' = "free"
    BY <1>4 DEF ForcedIdle
  <2>2. mode' = "idle" /\ pcmOwner' = "none" /\ ~activeMeeting'
        /\ runtimeRevision' > revisionAtStop
    <3>1. revisionAtStop \in Nat /\ runtimeRevision \in Nat /\ revisionAtStop <= runtimeRevision
      BY DEF Ind, TypeOK, StopInv, Shutting
    <3>2. CASE ShutdownCommitted /\ KeepState(FALSE)
      BY <3>2 DEF ShutdownCommitted, KeepState
    <3>3. CASE CommitState("idle", FALSE)
      BY <3>1, <3>3 DEF CommitState, OwnerFor
    <3> QED
      BY <1>4, <3>2, <3>3 DEF ForcedIdle, ForceCommitIdle
  <2>3. revisionAtStop' = revisionAtStop
    BY DEF Ends
  <2>4. Stops /\ Forced'
    BY <1>4, <2>1, <2>2, <2>3 DEF Stops, Stopped, Forced
  <2> QED
    BY <1>1, <1>2, <2>4, HolderStop
<1> QED
  BY <1>3, <1>4

LEMMA ForceStop ==
  ASSUME Ind, StopInv, NEW out \in Outcomes,
         \/ ForcePreparedDone(out) \/ ForceInteractionDone(out)
         \/ ForceSubtitlesDone(out) \/ ForceMeetingDone(out)
  PROVE  StopInv'
<1>1. pc \in ForceSteps /\ Ends(out)
  BY DEF ForcePreparedDone, ForceInteractionDone, ForceSubtitlesDone, ForceMeetingDone, ForceSteps
<1>2. holder \in Clients \cup {Shutdown} /\ holder # Nobody /\ Shutdown \notin Clients
  BY <1>1, Types, TasksAssumption DEF LockTypes, FreeLock, ForceSteps
<1>3. ASSUME Cancelled, out = "cancel", runtimeRevision' = runtimeRevision
      PROVE  StopInv'
  <2>1. holder \in Clients
    BY <1>1, <1>2, <1>3, NotCancelled
  <2>2. (Holds \/ Returns) /\ Forced'
    BY <1>2, <1>3, <2>1 DEF Cancelled, Finish, Goto, Holds, Returns, Forced
  <2> QED
    BY <1>1, <1>2, <1>3, <2>2, HolderStop
<1>4. ASSUME NEW step \in ForceSteps, Goto(step), Forced', runtimeRevision' = runtimeRevision
      PROVE  StopInv'
  <2>1. Holds
    BY <1>4 DEF Goto, Holds
  <2> QED
    BY <1>1, <1>2, <1>4, <2>1, HolderStop
<1>5. CASE ForcePreparedDone(out)
  <2>1. CASE out = "cancel"
    BY <1>3, <1>5, <2>1 DEF ForcePreparedDone, KeepState
  <2>2. CASE out # "cancel"
    <3>1. Goto(IF interaction' = "on" THEN "force_interaction" ELSE "force_subtitles")
          /\ runtimeRevision' = runtimeRevision
      BY <1>5, <2>2 DEF ForcePreparedDone, KeepState
    <3>2. Forced'
      BY <3>1 DEF Goto, Forced
    <3> QED
      BY <1>4, <3>1, <3>2 DEF ForceSteps
  <2> QED
    BY <2>1, <2>2
<1>6. CASE ForceInteractionDone(out)
  <2>1. CASE out = "cancel"
    BY <1>3, <1>6, <2>1 DEF ForceInteractionDone, coordinatorVars
  <2>2. CASE out # "cancel"
    <3>1. Goto("force_subtitles") /\ runtimeRevision' = runtimeRevision /\ interaction' # "on"
      BY <1>6, <2>2 DEF ForceInteractionDone, coordinatorVars, StopInteraction
    <3>2. Forced'
      BY <3>1 DEF Goto, Forced
    <3> QED
      BY <1>4, <3>1, <3>2 DEF ForceSteps
  <2> QED
    BY <2>1, <2>2
<1>7. CASE ForceSubtitlesDone(out)
  <2>1. CASE out = "cancel"
    BY <1>3, <1>7, <2>1 DEF ForceSubtitlesDone, KeepState
  <2>2. CASE out # "cancel"
    <3>1. interaction' # "on" /\ ~SubtitlesActive' /\ meetingSession' = meetingSession
      BY <1>7, <2>2, Types
      DEF ForceSubtitlesDone, OnlySubtitles, DeactivateSubtitles, SubtitlesActive, StopInv,
          Forced, WorkloadTypes, SubtitleStates, Possible, Outcomes
    <3>2. CASE activeMeeting \/ HasMeeting
      <4>1. Goto("force_meeting") /\ runtimeRevision' = runtimeRevision
        BY <1>7, <2>2, <3>2 DEF ForceSubtitlesDone, KeepState
      <4>2. Forced'
        BY <3>1, <4>1 DEF Forced
      <4> QED
        BY <1>4, <4>1, <4>2 DEF ForceSteps
    <3>3. CASE ~(activeMeeting \/ HasMeeting)
      <4>1. ForcedIdle /\ Silent'
        BY <1>7, <2>2, <3>1, <3>3 DEF ForceSubtitlesDone, HasMeeting, Silent
      <4> QED
        BY <1>1, <4>1, ForcedIdleStop
    <3> QED
      BY <3>2, <3>3
  <2> QED
    BY <2>1, <2>2
<1>8. CASE ForceMeetingDone(out)
  <2>1. CASE out = "cancel"
    BY <1>3, <1>8, <2>1 DEF ForceMeetingDone, KeepState
  <2>2. CASE out # "cancel"
    <3>1. ForcedIdle /\ Silent'
      BY <1>8, <2>2
      DEF ForceMeetingDone, InterruptMeeting, HasMeeting, OnlyMeeting, SubtitlesActive,
          StopInv, Forced, Silent
    <3> QED
      BY <1>1, <3>1, ForcedIdleStop
  <2> QED
    BY <2>1, <2>2
<1> QED
  BY <1>5, <1>6, <1>7, <1>8

LEMMA ProceedStop == ASSUME Ind, StopInv, Proceed PROVE StopInv'
BY SwitchStop, RestStop, ForceStop DEF Proceed, Outcomes

\* A command starts only when nothing shuts down.
LEMMA BeginStop ==
  ASSUME Ind, StopInv, NEW c \in Clients, Begin(c) \/ AnswerAtOnce(c)
  PROVE  StopInv'
<1>1. AtHead(c) /\ waiters' = Tail(waiters) /\ c # Shutdown /\ c # Nobody
      /\ UNCHANGED <<shutdown, revisionAtStop>> /\ UNCHANGED workloadVars
      /\ holder' \in {c, Nobody}
      /\ (holder' = c => shutdown = "running")
      /\ runtimeRevision' \in {runtimeRevision, runtimeRevision + 1}
      /\ (shutdown # "running" => UNCHANGED <<coordinatorVars, pc>>)
      /\ (pc' \in {"prepare", "restart", "end", "stop_quiesce", "free", FirstForceStep})
  BY AtStart, TasksAssumption
  DEF Begin, StartSwitch, StartRestart, StartStop, StartStopWithoutBarrier, AnswerAtOnce, Takes,
      AnsweredAtOnce, Closing, CommitState, KeepState, Barrier, coordinatorVars, shutdownVars,
      AtHead
<1>2. OneShutdown(waiters') /\ (NoShutdown(waiters) => NoShutdown(waiters'))
  <2>1. waiters \in Seq(Clients \cup {Shutdown}) /\ waiters # <<>>
    BY <1>1, AtStart DEF LockTypes
  <2> QED
    BY <1>1, <2>1, TailQueue DEF StopInv, Shutting
<1>3. revisionAtStop' <= runtimeRevision'
  <2>1. revisionAtStop \in Nat /\ runtimeRevision \in Nat /\ revisionAtStop <= runtimeRevision
    BY DEF Ind, TypeOK, StopInv, Shutting
  <2> QED
    BY <1>1, <2>1
<1>4. holder = Nobody /\ shutdown # "joining"
  BY <1>1, TasksAssumption DEF AtHead, StopInv, Shutting
<1>5. Shutting'
  BY <1>1, <1>2, <1>3, <1>4, TasksAssumption DEF StopInv, Shutting
<1>6. Forced'
  BY <1>1 DEF Forced, FirstForceStep, ForceSteps
<1>7. Stopped'
  BY <1>1 DEF StopInv, Stopped, Silent, SubtitlesActive, workloadVars, coordinatorVars
<1> QED
  BY <1>5, <1>6, <1>7 DEF StopInv

LEMMA QueueStop ==
  ASSUME Ind, StopInv, NEW c \in Clients,
         \/ \E command \in Commands : Submit(c, command)
         \/ CancelWaiting(c) \/ CancelRunning(c)
  PROVE  StopInv'
<1>1. /\ UNCHANGED <<coordinatorVars, holder, pc, shutdownVars, workloadVars>>
      /\ c \in Clients \cup {Shutdown} /\ c # Shutdown
      /\ waiters \in Seq(Clients \cup {Shutdown})
  BY Types, TasksAssumption DEF Submit, CancelWaiting, CancelRunning, lockVars, LockTypes
<1>2. OneShutdown(waiters') /\ (NoShutdown(waiters) => NoShutdown(waiters'))
  <2>1. OneShutdown(waiters)
    BY DEF StopInv, Shutting
  <2>2. CASE waiters' = Append(waiters, c)
    BY <1>1, <2>1, <2>2, AppendQueue
  <2>3. CASE \E i \in 1 .. Len(waiters) :
               waiters' = SubSeq(waiters, 1, i - 1) \o SubSeq(waiters, i + 1, Len(waiters))
    BY <1>1, <2>1, <2>3, DropQueue
  <2>4. CASE waiters' = waiters
    BY <2>1, <2>4
  <2> QED
    BY <2>2, <2>3, <2>4 DEF Submit, CancelWaiting, CancelRunning, lockVars
<1>3. holder = Shutdown => cancelRequested' = cancelRequested
  BY TasksAssumption DEF Submit, CancelWaiting, CancelRunning
<1> QED
  BY <1>1, <1>2, <1>3
  DEF StopInv, Shutting, Forced, Stopped, Silent, SubtitlesActive, coordinatorVars,
      shutdownVars, workloadVars

LEMMA ShutdownStop == ASSUME Ind, StopInv, ShutdownStep PROVE StopInv'
<1>1. UNCHANGED <<mode, pcmOwner, activeMeeting, runtimeRevision, workloadVars>>
  BY DEF ShutdownStep, RequestStop, CancelTransition, QueueShutdown, StopEverything,
     ShutdownUnchanged, coordinatorVars
<1>2. waiters \in Seq(Clients \cup {Shutdown}) /\ Shutdown \notin Clients /\ Nobody \notin Clients
      /\ Shutdown # Nobody /\ runtimeRevision \in Nat
      /\ holder \in Clients \cup {Shutdown, Nobody}
  BY Types, TasksAssumption DEF LockTypes, CoordinatorTypes
<1>3. CASE RequestStop
  BY <1>1, <1>2, <1>3
  DEF RequestStop, StopInv, Shutting, Forced, Stopped, SubtitlesActive, workloadVars,
      ShutdownUnchanged
<1>4. CASE CancelTransition
  BY <1>1, <1>2, <1>4
  DEF CancelTransition, StopInv, Shutting, Forced, Stopped, SubtitlesActive, workloadVars,
      ShutdownUnchanged
<1>5. CASE QueueShutdown
  <2>1. NoShutdown(waiters) /\ OneShutdown(waiters)
    BY <1>5 DEF QueueShutdown, StopInv, Shutting
  <2>2. OneShutdown(waiters')
    BY <1>2, <1>5, <2>1, AppendQueue DEF QueueShutdown
  <2> QED
    BY <1>1, <1>2, <1>5, <2>2
    DEF QueueShutdown, StopInv, Shutting, Forced, Stopped, SubtitlesActive, workloadVars,
        ShutdownUnchanged
<1>6. CASE StopEverything
  <2>1. /\ holder = Nobody /\ waiters # <<>> /\ Head(waiters) = Shutdown
        /\ waiters' = Tail(waiters) /\ holder' = Shutdown /\ cancelRequested' = FALSE
        /\ UNCHANGED <<shutdown, revisionAtStop>>
        /\ pc' \in ForceSteps /\ pc' # "force_meeting"
        /\ (pc' = "force_subtitles" => interaction # "on")
    BY <1>6 DEF StopEverything, AtHead, shutdownVars, ForceSteps
  <2>2. shutdown = "locking"
    <3>1. Len(waiters) \in Nat \ {0} /\ waiters[1] = Shutdown
      BY <1>2, <2>1
    <3>2. ~NoShutdown(waiters)
      BY <3>1 DEF NoShutdown
    <3> QED
      BY <3>2 DEF StopInv, Shutting
  <2>3. NoShutdown(waiters') /\ OneShutdown(waiters')
    BY <1>2, <2>1, TailQueue DEF StopInv, Shutting
  <2> QED
    BY <1>1, <1>2, <2>1, <2>2, <2>3
    DEF StopInv, Shutting, Forced, Stopped, SubtitlesActive, workloadVars
<1> QED
  BY <1>3, <1>4, <1>5, <1>6 DEF ShutdownStep

LEMMA AsideStop == ASSUME Ind, StopInv, Decay \/ SnapshotSent \/ UNCHANGED vars PROVE StopInv'
<1>1. UNCHANGED <<mode, pcmOwner, activeMeeting, runtimeRevision, holder, waiters, pc,
                  cancelRequested, shutdown, revisionAtStop>>
  BY DEF Decay, InteractionEnds, SubtitleSourceLost, CaptureLost, SubtitleCleanupEnds,
     OnlyWorkloads, SnapshotSent, coordinatorVars, lockVars, shutdownVars, vars
<1>2. /\ interaction' = "on" => interaction = "on"
      /\ SubtitlesActive' => SubtitlesActive
      /\ meetingSession' = "recording" => meetingSession = "recording"
  BY DEF Decay, InteractionEnds, SubtitleSourceLost, CaptureLost, SubtitleCleanupEnds,
     OnlyInteraction, OnlySubtitles, OnlyMeeting, SnapshotSent, workloadVars, vars,
     SubtitlesActive
<1> QED
  BY <1>1, <1>2 DEF StopInv, Shutting, Forced, Stopped, Silent

LEMMA NextStop == ASSUME Ind, StopInv, [Next]_vars PROVE StopInv'
BY ProceedStop, BeginStop, QueueStop, ShutdownStop, AsideStop DEF Next

\* Whatever failed or was cancelled before and during it, stop() ends idle, under a new
\* revision, with nothing capturing.
THEOREM ShutdownSilences == Spec => []StoppedIsSilent
<1>1. Ind /\ StopInv /\ [Next]_vars => Ind' /\ StopInv'
  BY NextInd, StutterInd, NextStop
<1>2. StopInv => StoppedIsSilent
  BY DEF StopInv, Stopped, Silent, StoppedIsSilent, Active, Workloads
<1> QED
  BY <1>1, <1>2, InitInd, InitStop, PTL DEF Spec
-----------------------------------------------------------------------------
(***************************************************************************)
(* With no command in progress everything is settled, provided nobody is   *)
(* cancelled twice.                                                        *)
(***************************************************************************)
\* Nothing captures but these workloads.
Only(ws) == /\ interaction = "on" => "assistant" \in ws
            /\ SubtitlesActive => "subtitles" \in ws
            /\ meetingSession = "recording" => "meeting" \in ws

\* A mode that is served, published and alone; a target was left prepared only in idle.
Rested == /\ pcmOwner = OwnerFor(mode) /\ (activeMeeting <=> mode = "meeting")
          /\ published = Ownership /\ Only({mode})
          /\ preparedTarget # NoTarget => mode = "idle"
Rests == /\ shutdown = "running" /\ pc \in {"free", "cancel_abort"} => Rested
         /\ pc \in {"prepare", "restart", "publish"} => Rested
         /\ pc = "restart" => mode = "assistant"

\* What is prepared, promoted and still capturing in the middle of a command.
Prepared(w) == [target |-> w, committed |-> FALSE]
Promoted(w) == [target |-> w, committed |-> TRUE]
Switching ==
  /\ pc \in {"quiesce", "commit"} => preparedTarget = Prepared(target)
  /\ pc \in {"quiesce", "abort"} => Only({source, preparedTarget.target})
  /\ pc = "commit" => Only({target})
  /\ pc \in {"quiesce", "commit", "abort"} /\ preparedTarget = Prepared("subtitles")
       => ~SubtitlesActive
  /\ pc \in {"quiesce", "commit", "stop_quiesce", "restore", "restore_commit"} => ~activeMeeting
  /\ pc = "abort" /\ activeMeeting => preparedTarget = Promoted("meeting")
  /\ pc \in {"restore", "restore_commit", "stop_quiesce"} => Only({source}) /\ preparedTarget = NoTarget
  /\ pc = "restore_commit" => source = "subtitles"
  /\ pc = "end" => Only({"meeting"}) /\ preparedTarget = NoTarget /\ mode = "meeting"

\* A cancellation reaches a command before it is rolled back, or not at all.
Cancelling ==
  /\ shutdown = "running" /\ cancelRequested =>
       pc \in {"free", "prepare", "quiesce", "commit", "end", "stop_quiesce", "restart", "publish"}
  /\ pc = "commit" /\ cancelRequested => target = "subtitles"
  /\ pc \in {"abort", "restore", "restore_commit"} => cause # "none"

\* The last snapshot names the mode and its revision; while the shutdown waits for the
\* command it cancelled, a commit of that command publishes.
Publishing ==
  /\ published.mode = mode /\ published.revision = runtimeRevision
  /\ published.owner \in {"none", OwnerFor(mode)}
  /\ shutdown = "joining" /\ pc \notin {"publish", "cancel_abort"} => runtimeRevision = revisionAtStop
  /\ shutdown \in {"joining", "joined", "locking"} /\ mode # "meeting" /\ (activeMeeting \/ published.meeting)
       => runtimeRevision = revisionAtStop
  /\ shutdown = "stopped" => published = Ownership
SettledInv == Rests /\ Switching /\ Cancelling /\ Publishing

\* What Ind, StopInv and the types give to every step.
Clear == /\ mode \in Modes /\ pcmOwner \in Owners /\ activeMeeting \in BOOLEAN
         /\ runtimeRevision \in Nat /\ revisionAtStop \in Nat /\ revisionAtStop <= runtimeRevision
         /\ SwitchTypes /\ WorkloadTypes /\ pc \in Steps /\ cancelRequested \in BOOLEAN
         /\ holder \in Clients \cup {Shutdown, Nobody} /\ (holder = Nobody <=> pc = "free")
         /\ Shutdown \notin Clients /\ Nobody \notin Clients /\ Nobody # Shutdown
         /\ shutdown \in {"running", "requested", "joining", "joined", "locking", "stopped"}
         /\ holder = Shutdown => shutdown = "locking" /\ ~cancelRequested /\ pc \in ForceSteps
         /\ holder \in Clients => shutdown \in {"running", "requested", "joining"}
         /\ shutdown = "joining" => holder \in Clients
         /\ OwnerFollowsMode /\ SwitchSource /\ SwitchTarget /\ BarrierTaken
         /\ MeetingLocked /\ MeetingHeld /\ SubtitlesYield /\ Forced

LEMMA Clearly == ASSUME Ind, StopInv PROVE Clear
BY Types, TasksAssumption
DEF Ind, PcmInvariant, StopInv, Shutting, FreeLock, LockTypes, CoordinatorTypes, Clear

\* A step that commits a mode other than a meeting, or goes on to force idle.
LEMMA CommitSettles ==
  ASSUME Clear, Publishing, NEW m \in Modes \ {"meeting"}, NEW h \in BOOLEAN, ~h,
         NEW callbackOk, NEW out, Ends(out), pc \notin ForceSteps \cup {"free", "publish", "cancel_abort"},
         CommitOrForce(m, h, callbackOk), preparedTarget' = NoTarget, Only({m})'
  PROVE  Rests' /\ Publishing'
<1>1. CASE callbackOk
  <2>1. CommitState(m, h) /\ Finish
    BY <1>1 DEF CommitOrForce, Leave, Cancelled
  <2>2. Rested'
    BY <2>1 DEF CommitState, Rested, OwnerFor, Ownership
  <2>3. pc' = "free" /\ shutdown' # "joining" /\ shutdown' # "stopped" /\ h = FALSE
    BY <2>1 DEF Finish, Clear
  <2>4. Publishing'
    BY <2>1, <2>3 DEF CommitState, Publishing, Ownership, OwnerFor
  <2> QED
    BY <2>2, <2>3, <2>4 DEF Rests
<1>2. CASE ~callbackOk
  <2>1. KeepState(h) /\ Goto(FirstForceStep) /\ h = FALSE
    BY <1>2 DEF CommitOrForce
  <2>2. pc' \in ForceSteps
    BY <2>1 DEF Goto, FirstForceStep, ForceSteps
  <2>3. Rests'
    BY <2>2 DEF Rests, ForceSteps
  <2>4. Publishing'
    BY <2>1, <2>2 DEF KeepState, Goto, Publishing, Ends, Clear, ForceSteps
  <2> QED
    BY <2>3, <2>4
<1> QED
  BY <1>1, <1>2

\* A step that ends in idle after everything was stopped.
LEMMA ForcedSettles ==
  ASSUME Clear, Publishing, NEW out, Ends(out), pc \in ForceSteps, ForcedIdle, Silent',
         published \in [mode: Modes, owner: Owners, meeting: BOOLEAN, revision: Nat]
  PROVE  Rests' /\ Publishing'
<1>1. Only({"idle"})'
  BY DEF Silent, Only, SubtitlesActive
<1>2. CASE holder # Shutdown
  <2>1. CommitState("idle", FALSE) /\ Leave
    BY <1>2 DEF ForcedIdle, ForceCommitIdle
  <2>2. Rested'
    BY <1>1, <2>1 DEF CommitState, Rested, OwnerFor, Ownership
  <2>3. pc' \in {"free", "cancel_abort"} /\ shutdown' # "stopped"
        /\ (shutdown' = "joining" => pc' = "cancel_abort")
    BY <1>2, <2>1 DEF Leave, Cancelled, Finish, Goto, Clear, ForceSteps
  <2>4. Publishing'
    BY <2>1, <2>3 DEF CommitState, Publishing, Ownership, OwnerFor
  <2> QED
    BY <2>2, <2>3, <2>4 DEF Rests
<1>3. CASE holder = Shutdown
  <2>1. shutdown = "locking" /\ pc' = "free" /\ shutdown' = "stopped"
    BY <1>3 DEF ForcedIdle, Clear
  <2>2. published' = Ownership' /\ mode' = "idle" /\ pcmOwner' = "none"
    <3>1. CASE ShutdownCommitted /\ KeepState(FALSE)
      <4>1. /\ published.mode = mode /\ published.revision = runtimeRevision
            /\ published.owner = "none" /\ mode = "idle" /\ pcmOwner = "none"
        BY <3>1 DEF ShutdownCommitted, Publishing, OwnerFor
      <4>2. published.meeting = FALSE
        <5>1. revisionAtStop \in Nat /\ runtimeRevision \in Nat /\ runtimeRevision > revisionAtStop
          BY <3>1 DEF ShutdownCommitted, Clear
        <5> QED
          BY <2>1, <4>1, <5>1 DEF Publishing
      <4> QED
        BY <3>1, <4>1, <4>2 DEF KeepState, Ownership
    <3>2. CASE CommitState("idle", FALSE)
      BY <3>2 DEF CommitState, OwnerFor
    <3> QED
      BY <1>3, <3>1, <3>2 DEF ForcedIdle, ForceCommitIdle
  <2>3. published'.mode = mode' /\ published'.owner = pcmOwner'
        /\ published'.revision = runtimeRevision'
    BY <2>2 DEF Ownership
  <2> QED
    BY <2>1, <2>2, <2>3 DEF Rests, Publishing
<1> QED
  BY <1>2, <1>3

\* What is known while a source is restored or left for idle.
LEMMA AtRestoring ==
  ASSUME Clear, SettledInv, pc \in {"restore", "restore_commit", "stop_quiesce"},
         NEW out, Ends(out)
  PROVE  /\ Only({source}) /\ preparedTarget = NoTarget /\ activeMeeting = FALSE
         /\ source \in {"idle", "assistant", "subtitles"} /\ mode # "meeting"
         /\ Publishing
         /\ pc # "stop_quiesce" => cause # "none" /\ (shutdown = "running" => out # "cancel")
  BY DEF SettledInv, Switching, Cancelling, Clear, SwitchTypes, Modes, Workloads, SwitchSource,
     MeetingLocked, ForceSteps, Ends, CancelDelivered, Causes

\* A step that commits nothing.
LEMMA KeepSettles ==
  ASSUME Clear, Publishing, NEW out, Ends(out), pc \notin {"free", "publish", "cancel_abort"},
         NEW h \in BOOLEAN, h => activeMeeting, KeepState(h),
         \/ Cancelled \/ Finish \/ Goto(FirstForceStep)
         \/ \E step \in Steps \ {"free"} : Goto(step)
  PROVE  Publishing'
  BY DEF Clear, Publishing, Ends, KeepState, Cancelled, Finish, Goto, FirstForceStep

-----------------------------------------------------------------------------
(***************************************************************************)
(* Every step of the lock holder keeps things settled.                     *)
(***************************************************************************)
LEMMA PrepareFailsSettles ==
  ASSUME "recancel" \notin Faults, Ind, StopInv, SettledInv, NEW out \in Outcomes, PrepareFails(out)
  PROVE  SettledInv'
<1>1. Clear
  BY Clearly
<1>2. Rests'
  <2>1. Rested /\ target \in Workloads
    BY <1>1 DEF SettledInv, Rests, PrepareFails, Clear, SwitchTarget
  <2>2. Only({mode})'
    BY <2>1 DEF PrepareFails, Prepare, StartInteraction, PrepareSubtitles, PrepareMeeting,
       OnlyInteraction, OnlySubtitles, OnlyMeeting, Rested, Only, SubtitlesActive, coordinatorVars, Workloads
  <2>3. Rested'
    BY <2>1, <2>2 DEF PrepareFails, Rested, coordinatorVars, Ownership
  <2> QED
    BY <2>3 DEF Rests, PrepareFails, Finish, Cancelled, Goto
<1>3. Switching'
  BY <1>1 DEF Switching, PrepareFails, Finish, Cancelled, Goto
<1>4. Cancelling'
  BY <1>1 DEF SettledInv, Rests, Cancelling, PrepareFails, Finish, Cancelled, Goto, Ends, Rested,
     Outcomes, Clear
<1>5. Publishing'
  BY <1>1 DEF SettledInv, Publishing, PrepareFails, Finish, Cancelled, Goto, Ends,
     coordinatorVars, Clear
<1> QED
  BY <1>2, <1>3, <1>4, <1>5 DEF SettledInv

LEMMA PrepareDoneSettles ==
  ASSUME "recancel" \notin Faults, Ind, StopInv, SettledInv,
         NEW callbackOk \in BOOLEAN, PrepareDone(callbackOk)
  PROVE  SettledInv'
<1>1. Clear
  BY Clearly
<1>2. Rests'
  BY <1>1 DEF Rests, PrepareDone, RollBack, Goto
<1>3. Switching'
  <2>1. /\ preparedTarget' = Prepared(target) /\ UNCHANGED <<target, source, activeMeeting>>
        /\ pc' \in {"commit", "quiesce", "abort"} /\ (pc' = "commit" => source = "idle")
    BY DEF PrepareDone, coordinatorVars, switchVars, Barrier, RollBack, Goto, Prepared
  <2>2. /\ Only({mode}) /\ ~activeMeeting /\ target \in Workloads
        /\ source \in {"idle", mode} /\ (source = "idle" => mode \in {"idle", target})
    BY <1>1 DEF SettledInv, Rests, PrepareDone, Clear, MeetingLocked, ForceSteps, SwitchSource,
       SwitchTarget, BarrierTaken, Rested
  <2>3. preparedTarget'.target = target /\ preparedTarget' # NoTarget
        /\ preparedTarget' # Promoted("meeting")
        /\ (preparedTarget' = Prepared("subtitles") => target = "subtitles")
    BY <2>1, <2>2 DEF Prepared, Promoted, NoTarget, Workloads
  <2>4. /\ interaction' = "on" => interaction = "on" \/ target = "assistant"
        /\ SubtitlesActive' => SubtitlesActive
        /\ meetingSession' = "recording" => meetingSession = "recording"
        /\ target = "subtitles" => ~SubtitlesActive'
    BY <2>2 DEF PrepareDone, Prepare, StartInteraction, PrepareSubtitles, PrepareMeeting,
       OnlyInteraction, OnlySubtitles, OnlyMeeting, SubtitlesActive, Workloads
  <2>5. Only({source, target})' /\ (source = "idle" => Only({target})')
    BY <2>1, <2>2, <2>4 DEF Only
  <2> QED
    BY <2>1, <2>2, <2>3, <2>4, <2>5 DEF Switching
<1>4. Cancelling'
  <2>1. target \in Workloads
    BY <1>1 DEF PrepareDone, Clear, SwitchTarget
  <2>2. ~cancelRequested'
    <3>1. target = "subtitles" => subtitles = "off"
      BY DEF PrepareDone, Prepare, PrepareSubtitles, Possible
    <3>2. Suspends
      BY <3>1 DEF PrepareDone, Suspends, PrepareSuspends
    <3> QED
      BY <3>2 DEF PrepareDone, Ends, CancelDelivered, MayAbsorb, ForceSteps
  <2>3. pc' \in {"commit", "quiesce", "abort"} /\ (pc' = "abort" => cause' = "error")
    BY DEF PrepareDone, RollBack, Goto
  <2> QED
    BY <2>2, <2>3 DEF Cancelling
<1>5. Publishing'
  BY <1>1 DEF SettledInv, Publishing, PrepareDone, Barrier, RollBack, Goto, Ends, coordinatorVars,
     Clear
<1> QED
  BY <1>2, <1>3, <1>4, <1>5 DEF SettledInv

LEMMA QuiesceDoneSettles ==
  ASSUME "recancel" \notin Faults, Ind, StopInv, SettledInv, NEW out \in Outcomes, QuiesceDone(out)
  PROVE  SettledInv'
<1>1. Clear
  BY Clearly
<1>2. Rests'
  BY <1>1 DEF Rests, QuiesceDone, RollBack, Goto
<1>3. Switching'
  <2>1. /\ UNCHANGED <<preparedTarget, target, source, activeMeeting>>
        /\ pc' \in {"commit", "abort"} /\ (pc' = "commit" => out = "ok")
    BY DEF QuiesceDone, coordinatorVars, switchVars, RollBack, Goto
  <2>2. /\ preparedTarget = Prepared(target) /\ Only({source, target}) /\ ~activeMeeting
        /\ source \in {"assistant", "subtitles"}
        /\ preparedTarget = Prepared("subtitles") => ~SubtitlesActive
    BY <1>1 DEF SettledInv, Switching, QuiesceDone, Clear, MeetingLocked, ForceSteps,
       SwitchSource, Prepared, SwitchTypes, Modes, Workloads
  <2>3. /\ interaction' = "on" => interaction = "on" /\ (out = "ok" => source # "assistant")
        /\ SubtitlesActive' => SubtitlesActive /\ (out = "ok" => source # "subtitles")
        /\ meetingSession' = meetingSession
    BY <1>1, <2>2 DEF QuiesceDone, Quiesce, StopInteraction, DeactivateSubtitles, OnlyInteraction,
       OnlySubtitles, SubtitlesActive, Clear, WorkloadTypes, SubtitleStates
  <2>4. Only({source, target})' /\ (out = "ok" => Only({target})')
    BY <2>1, <2>2, <2>3 DEF Only
  <2>5. preparedTarget.target = target
    BY <2>2 DEF Prepared
  <2> QED
    BY <2>1, <2>2, <2>3, <2>4, <2>5 DEF Switching
<1>4. Cancelling'
  BY <1>1 DEF SettledInv, Switching, Cancelling, QuiesceDone, RollBack, Goto, Ends,
     CancelDelivered, Suspends, Outcomes, Clear
<1>5. Publishing'
  BY <1>1 DEF SettledInv, Publishing, QuiesceDone, RollBack, Goto, Ends, coordinatorVars, Clear
<1> QED
  BY <1>2, <1>3, <1>4, <1>5 DEF SettledInv

LEMMA CommitFailsSettles ==
  ASSUME "recancel" \notin Faults, Ind, StopInv, SettledInv, NEW out \in Outcomes, CommitFails(out)
  PROVE  SettledInv'
<1>1. Clear
  BY Clearly
<1>2. Rests'
  BY <1>1 DEF Rests, CommitFails, RollBack, Goto
<1>3. Switching'
  <2>1. /\ Only({target}) /\ preparedTarget = Prepared(target) /\ ~activeMeeting /\ target \in Workloads
        /\ preparedTarget = Prepared("subtitles") => ~SubtitlesActive
    BY <1>1 DEF SettledInv, Switching, CommitFails, Clear, SwitchTarget
  <2>2. pc' = "abort" /\ UNCHANGED <<preparedTarget, target, source, activeMeeting>>
    BY DEF CommitFails, RollBack, Goto, coordinatorVars
  <2>3. UNCHANGED workloadVars
    BY <2>1 DEF CommitFails, Commit, CommitSubtitles, CommitMeeting, OnlySubtitles, OnlyMeeting,
       workloadVars, Workloads
  <2>4. preparedTarget.target = target
    BY <2>1 DEF Prepared
  <2>5. Only({source, target})' /\ SubtitlesActive' = SubtitlesActive
    BY <2>1, <2>2, <2>3 DEF Only, SubtitlesActive, workloadVars
  <2> QED
    BY <2>1, <2>2, <2>4, <2>5 DEF Switching
<1>4. Cancelling'
  BY <1>1 DEF SettledInv, Switching, Cancelling, CommitFails, RollBack, Ends, CancelDelivered,
     Suspends, Outcomes, Clear
<1>5. Publishing'
  BY <1>1 DEF SettledInv, Publishing, CommitFails, RollBack, Goto, Ends, coordinatorVars, Clear
<1> QED
  BY <1>2, <1>3, <1>4, <1>5 DEF SettledInv

LEMMA CommitDoneSettles ==
  ASSUME "recancel" \notin Faults, Ind, StopInv, SettledInv,
         NEW callbackOk \in BOOLEAN, CommitDone(callbackOk)
  PROVE  SettledInv'
<1>1. Clear
  BY Clearly
<1>2. Rests'
  <2>1. CASE callbackOk
    <3>1. Only({target}) /\ target \in Workloads
      BY <1>1 DEF SettledInv, Switching, CommitDone, Clear, SwitchTarget
    <3>2. Only({target})'
      BY <2>1, <3>1 DEF CommitDone, Commit, CommitSubtitles, CommitMeeting, OnlySubtitles, OnlyMeeting,
         switchVars, workloadVars, Only, SubtitlesActive, Workloads
    <3>3. CommitState(target, target = "meeting") /\ preparedTarget' = NoTarget /\ target' = target
      BY <2>1 DEF CommitDone, switchVars
    <3>4. Rested'
      BY <3>1, <3>2, <3>3 DEF CommitState, Rested, OwnerFor, Workloads
    <3>5. pc' # "restart"
      BY <2>1 DEF CommitDone, Goto, Finish
    <3> QED
      BY <3>4, <3>5 DEF Rests
  <2>2. CASE ~callbackOk
    BY <2>2 DEF CommitDone, RollBack, Goto, Rests
  <2> QED
    BY <2>1, <2>2
<1>3. Switching'
  <2>1. CASE pc' = "abort"
    <3>1. preparedTarget' = Promoted(target) /\ activeMeeting' = (activeMeeting \/ target = "meeting")
          /\ UNCHANGED <<target, source>>
      BY <2>1 DEF CommitDone, KeepState, RollBack, Goto, Finish, Promoted
    <3>2. Only({target}) /\ ~activeMeeting /\ target \in Workloads
      BY <1>1 DEF SettledInv, Switching, CommitDone, Clear, SwitchTarget
    <3>3. preparedTarget'.target = target /\ preparedTarget' # Prepared("subtitles")
      BY <3>1 DEF Promoted, Prepared
    <3>4. Only({target})'
      BY <3>1, <3>2 DEF CommitDone, Commit, CommitSubtitles, CommitMeeting, OnlySubtitles, OnlyMeeting,
         workloadVars, Only, SubtitlesActive, Workloads
    <3>5. Only({source, target})'
      BY <3>4 DEF Only
    <3> QED
      BY <2>1, <3>1, <3>2, <3>3, <3>5 DEF Switching
  <2>2. CASE pc' \in {"publish", "free"}
    BY <2>2 DEF Switching
  <2> QED
    BY <2>1, <2>2 DEF CommitDone, RollBack, Goto, Finish
<1>4. Cancelling'
  BY <1>1 DEF SettledInv, Cancelling, CommitDone, RollBack, Goto, Finish, Ends, CancelDelivered,
     Suspends
<1>5. Publishing'
  BY <1>1 DEF SettledInv, Switching, Publishing, CommitDone, RollBack, Goto, CommitState,
     KeepState, Finish, Ends, Ownership, ForceSteps, Clear
<1> QED
  BY <1>2, <1>3, <1>4, <1>5 DEF SettledInv

LEMMA PublishDoneSettles ==
  ASSUME "recancel" \notin Faults, Ind, StopInv, SettledInv, PublishDone
  PROVE  SettledInv'
<1>1. Clear
  BY Clearly
<1>2. Rests'
  BY <1>1 DEF SettledInv, Rests, PublishDone, Finish, coordinatorVars, workloadVars,
     SubtitlesActive, Only, Rested, Ownership
<1>3. Switching'
  BY <1>1 DEF Switching, PublishDone, Finish
<1>4. Cancelling'
  BY <1>1 DEF Cancelling, PublishDone, Finish
<1>5. Publishing'
  BY <1>1 DEF SettledInv, Publishing, PublishDone, Finish, Ends, coordinatorVars, Ownership
<1> QED
  BY <1>2, <1>3, <1>4, <1>5 DEF SettledInv

LEMMA AbortDoneSettles ==
  ASSUME "recancel" \notin Faults, Ind, StopInv, SettledInv, NEW out \in Outcomes, AbortDone(out)
  PROVE  SettledInv'
<1>1. Clear
  BY Clearly
<1>2. shutdown' = "running" => shutdown = "running" /\ ~cancelRequested' /\ out # "cancel" /\ ~GivesUp
  <2>1. shutdown' = shutdown \/ shutdown' = "joined"
    BY DEF AbortDone, Cancelled, Finish, Goto, Outcomes
  <2>2. shutdown = "running" => ~cancelRequested
    BY DEF AbortDone, SettledInv, Cancelling
  <2> QED
    BY <2>1, <2>2 DEF AbortDone, Ends, CancelDelivered, GivesUp, Closing
<1>3. /\ pc' \in {"free", "cancel_abort", "restore"} \cup ForceSteps
      /\ shutdown' = "running" => pc' \in {"restore"} \cup ForceSteps
      /\ UNCHANGED cause /\ cause # "none"
  BY <1>2 DEF AbortDone, Cancelled, Finish, Goto, FirstForceStep, ForceSteps, Outcomes, SettledInv,
     Cancelling, switchVars
<1>4. Rests'
  BY <1>3 DEF Rests, ForceSteps
<1>5. Switching'
  <2>1. CASE pc' = "restore"
    <3>1. out = "ok" /\ preparedTarget' = NoTarget /\ UNCHANGED <<target, source>>
          /\ activeMeeting' = (activeMeeting /\ ~MeetingInterrupted(out))
      BY <2>1 DEF AbortDone, Cancelled, Finish, Goto, FirstForceStep, ForgetIfAborted, KeepState,
         switchVars, Outcomes
    <3>2. Abort("ok") /\ Only({source, preparedTarget.target}) /\ ~activeMeeting'
      BY <3>1 DEF AbortDone, SettledInv, Switching, MeetingInterrupted, Promoted
    <3>3. preparedTarget \in [target: Workloads, committed: BOOLEAN]
          /\ (HasMeeting => preparedTarget = Promoted("meeting"))
      BY <1>1, PreparedTarget DEF AbortDone, Clear, SwitchTypes, SwitchTarget, MeetingHeld,
         MeetingLocked, ForceSteps, Promoted
    <3>4. (preparedTarget.target = "subtitles" /\ ~preparedTarget.committed) => ~SubtitlesActive
      <4>1. preparedTarget.target = "subtitles" /\ preparedTarget.committed = FALSE
            => preparedTarget = Prepared("subtitles")
        BY <3>3 DEF Prepared
      <4> QED
        BY <3>3, <4>1 DEF AbortDone, SettledInv, Switching
    <3>5. /\ interaction' = "on" => interaction = "on" /\ preparedTarget.target # "assistant"
          /\ SubtitlesActive' => SubtitlesActive /\ preparedTarget.target # "subtitles"
          /\ meetingSession' = "recording" =>
               meetingSession = "recording" /\ preparedTarget.target # "meeting"
      <4>1. CASE preparedTarget.target = "assistant"
        BY <3>2, <4>1
        DEF Abort, StopInteraction, OnlyInteraction, workloadVars, SubtitlesActive
      <4>2. CASE preparedTarget.target = "subtitles"
        <5>1. CASE preparedTarget.committed
          BY <1>1, <3>2, <4>2, <5>1 DEF Abort, DeactivateSubtitles, OnlySubtitles, SubtitlesActive,
             Possible, Clear, WorkloadTypes, SubtitleStates
        <5>2. CASE ~preparedTarget.committed
          BY <3>2, <3>4, <4>2, <5>2 DEF Abort, AbortSubtitles, OnlySubtitles, SubtitlesActive
        <5> QED
          BY <5>1, <5>2
      <4>3. CASE preparedTarget.target = "meeting"
        <5>1. CASE preparedTarget.committed
          BY <3>2, <4>3, <5>1 DEF Abort, InterruptMeeting, HasMeeting, OnlyMeeting, SubtitlesActive
        <5>2. CASE ~preparedTarget.committed
          <6>1. ~HasMeeting
            BY <3>3, <5>2 DEF Promoted
          <6> QED
            BY <3>2, <4>3, <5>2, <6>1 DEF Abort, AbortMeeting, HasMeeting, OnlyMeeting, SubtitlesActive
        <5> QED
          BY <5>1, <5>2
      <4> QED
        BY <3>3, <4>1, <4>2, <4>3 DEF Workloads
    <3>6. Only({source})'
      BY <3>1, <3>2, <3>5 DEF Only
    <3> QED
      BY <2>1, <3>1, <3>2, <3>6 DEF Switching
  <2>2. CASE pc' \in {"free", "cancel_abort"} \cup ForceSteps
    BY <2>2 DEF Switching, ForceSteps
  <2> QED
    BY <2>1, <2>2 DEF AbortDone, Cancelled, Finish, Goto, FirstForceStep, ForceSteps, Outcomes
<1>6. Cancelling'
  BY <1>2, <1>3 DEF Cancelling, ForceSteps
<1>7. Publishing'
  <2>1. Cancelled \/ Goto(FirstForceStep) \/ Goto("restore")
    BY DEF AbortDone, Outcomes
  <2>2. "restore" \in Steps \ {"free"}
    BY DEF Steps
  <2> QED
    BY <1>1, <2>1, <2>2, KeepSettles DEF AbortDone, SettledInv, Clear
<1> QED
  BY <1>4, <1>5, <1>6, <1>7 DEF SettledInv

LEMMA RestartDoneSettles ==
  ASSUME "recancel" \notin Faults, Ind, StopInv, SettledInv, NEW out \in Outcomes, RestartDone(out)
  PROVE  SettledInv'
<1>1. Clear
  BY Clearly
<1>2. Rests'
  <2>1. Rested /\ mode = "assistant"
    BY DEF SettledInv, Rests, RestartDone
  <2>2. Only({mode})'
    BY <2>1 DEF RestartDone, OnlyInteraction, Rested, Only, SubtitlesActive, coordinatorVars
  <2>3. Rested'
    BY <2>1, <2>2 DEF RestartDone, Rested, coordinatorVars, Ownership
  <2> QED
    BY <2>3 DEF Rests, RestartDone, Finish, Cancelled, Goto
<1>3. Switching'
  BY <1>1 DEF Switching, RestartDone, Finish, Cancelled, Goto
<1>4. Cancelling'
  BY <1>1 DEF SettledInv, Rests, Cancelling, RestartDone, Finish, Cancelled, Rested
<1>5. Publishing'
  BY <1>1 DEF SettledInv, Rests, Publishing, RestartDone, Finish, Cancelled, coordinatorVars,
     Rested, Ownership
<1> QED
  BY <1>2, <1>3, <1>4, <1>5 DEF SettledInv

LEMMA CancelAbortDoneSettles ==
  ASSUME "recancel" \notin Faults, Ind, StopInv, SettledInv,
         NEW out \in Outcomes, CancelAbortDone(out)
  PROVE  SettledInv'
<1>1. Clear
  BY Clearly
<1>2. Rests'
  <2>1. SUFFICES ASSUME shutdown' = "running" PROVE Rested'
    BY DEF CancelAbortDone, Finish, Rests
  <2>2. shutdown = "running" /\ Rested
    BY <2>1 DEF CancelAbortDone, Finish, SettledInv, Rests
  <2>3. preparedTarget \in [target: Workloads, committed: BOOLEAN] /\ mode = "idle" /\ ~activeMeeting
    BY <1>1, <2>2, PreparedTarget DEF CancelAbortDone, Clear, SwitchTypes, SwitchTarget, Rested
  <2>4. Only({mode})'
    <3>1. /\ interaction' = "on" => interaction = "on"
          /\ SubtitlesActive' => SubtitlesActive
          /\ meetingSession' = "recording" => meetingSession = "recording"
      BY <1>1, <2>3 DEF CancelAbortDone, Abort, StopInteraction, AbortSubtitles, DeactivateSubtitles,
         AbortMeeting, InterruptMeeting, OnlyInteraction, OnlySubtitles, OnlyMeeting, workloadVars,
         SubtitlesActive, HasMeeting, Workloads, Clear, WorkloadTypes, SubtitleStates
    <3> QED
      BY <2>2, <3>1 DEF CancelAbortDone, KeepState, Rested, Only
  <2>5. /\ UNCHANGED <<mode, pcmOwner, runtimeRevision, published>> /\ activeMeeting' = FALSE
        /\ activeMeeting = FALSE
    BY <1>1, <2>3 DEF CancelAbortDone, KeepState, Clear
  <2> QED
    BY <2>2, <2>3, <2>4, <2>5 DEF Rested, Ownership
<1>3. Switching'
  BY <1>1 DEF Switching, CancelAbortDone, Finish
<1>4. Cancelling'
  BY <1>1 DEF Cancelling, CancelAbortDone, Finish
<1>5. Publishing'
  BY <1>1 DEF SettledInv, Publishing, CancelAbortDone, Finish, KeepState, Ends, Clear
<1> QED
  BY <1>2, <1>3, <1>4, <1>5 DEF SettledInv

LEMMA RestoreDoneSettles ==
  ASSUME "recancel" \notin Faults, Ind, StopInv, SettledInv,
         NEW out \in Outcomes, NEW callbackOk \in BOOLEAN, RestoreDone(out, callbackOk)
  PROVE  SettledInv'
<1>1. Clear
  BY Clearly
<1>2. /\ pc = "restore" /\ Ends(out) /\ Restore(out)
      /\ UNCHANGED <<preparedTarget, target, source, cause>>
  BY DEF RestoreDone, switchVars
<1>3. Only({source})'
  BY <1>1, <1>2, AtRestoring
  DEF Restore, StartInteraction, PrepareSubtitles, OnlyInteraction, OnlySubtitles, workloadVars,
      Only, SubtitlesActive, Active
<1>4. \/ CommitOrForce(source, activeMeeting, callbackOk)
      \/ Cancelled /\ out = "cancel"
      \/ Goto(FirstForceStep) \/ Goto("restore_commit")
  BY DEF RestoreDone, Outcomes
<1>5. Rests'
  <2>1. CASE CommitOrForce(source, activeMeeting, callbackOk)
    BY <1>1, <1>2, <1>3, <2>1, AtRestoring, CommitSettles DEF ForceSteps, Modes, Workloads
  <2>2. CASE Cancelled /\ out = "cancel"
    BY <1>1, <1>2, <2>2, AtRestoring DEF Cancelled, Finish, Goto, Rests
  <2>3. CASE Goto(FirstForceStep) \/ Goto("restore_commit")
    BY <2>3 DEF Goto, FirstForceStep, Rests
  <2> QED
    BY <1>4, <2>1, <2>2, <2>3
<1>6. Switching'
  <2>1. pc' \in {"free", "restore_commit", "cancel_abort"} \cup ForceSteps
    BY <1>4 DEF CommitOrForce, Leave, Cancelled, Finish, Goto, FirstForceStep, ForceSteps
  <2>2. pc' = "restore_commit" => activeMeeting' = activeMeeting
    BY <1>4 DEF RestoreDone, CommitOrForce, KeepState, Leave, Cancelled, Finish, Goto, FirstForceStep, Outcomes
  <2>3. pc' = "restore_commit" => source = "subtitles"
    BY <1>4 DEF RestoreDone, CommitOrForce, Leave, Cancelled, Finish, Goto, FirstForceStep, Outcomes
  <2> QED
    <3>1. preparedTarget' = NoTarget /\ (pc' = "restore_commit" => activeMeeting' = FALSE)
      BY <1>1, <1>2, <2>2, AtRestoring
    <3> QED
      BY <1>2, <1>3, <2>1, <2>3, <3>1 DEF Switching, ForceSteps
<1>7. Cancelling'
  BY <1>1 DEF SettledInv, Cancelling, RestoreDone, Cancelled, Finish, Goto, FirstForceStep,
     CommitOrForce, Leave, Ends, switchVars, Clear
<1>8. Publishing'
  BY <1>1 DEF SettledInv, Switching, Publishing, RestoreDone, Cancelled, Finish, Goto, KeepState,
     CommitOrForce, CommitState, Leave, Ends, Ownership
<1> QED
  BY <1>5, <1>6, <1>7, <1>8 DEF SettledInv

LEMMA RestoreCommitDoneSettles ==
  ASSUME "recancel" \notin Faults, Ind, StopInv, SettledInv,
         NEW out \in Outcomes, NEW callbackOk \in BOOLEAN, RestoreCommitDone(out, callbackOk)
  PROVE  SettledInv'
<1>1. Clear
  BY Clearly
<1>2. /\ pc = "restore_commit" /\ Ends(out)
      /\ UNCHANGED <<preparedTarget, target, source, cause>> /\ source = "subtitles"
  BY DEF RestoreCommitDone, switchVars, SettledInv, Switching
<1>3. Only({source})'
  BY <1>1, <1>2, AtRestoring
  DEF RestoreCommitDone, CommitSubtitles, OnlySubtitles, Only, SubtitlesActive
<1>4. \/ CommitOrForce(source, activeMeeting, callbackOk)
      \/ KeepState(activeMeeting) /\ Cancelled /\ out = "cancel"
      \/ KeepState(activeMeeting) /\ Goto(FirstForceStep)
  BY DEF RestoreCommitDone, Outcomes
<1>5. Rests' /\ Publishing'
  <2>1. CASE CommitOrForce(source, activeMeeting, callbackOk)
    BY <1>1, <1>2, <1>3, <2>1, AtRestoring, CommitSettles DEF ForceSteps, Modes, Workloads
  <2>2. CASE KeepState(activeMeeting) /\ Cancelled /\ out = "cancel"
    <3>1. Publishing'
      BY <1>1, <1>2, <2>2, AtRestoring, KeepSettles
    <3> QED
      BY <1>1, <1>2, <2>2, <3>1, AtRestoring DEF Cancelled, Finish, Goto, Rests
  <2>3. CASE KeepState(activeMeeting) /\ Goto(FirstForceStep)
    <3>1. Publishing'
      BY <1>1, <1>2, <2>3, AtRestoring, KeepSettles
    <3> QED
      BY <2>3, <3>1 DEF Goto, FirstForceStep, Rests
  <2> QED
    BY <1>4, <2>1, <2>2, <2>3
<1>6. pc' \in {"free", "cancel_abort"} \cup ForceSteps
  BY <1>4 DEF CommitOrForce, Leave, Cancelled, Finish, Goto, FirstForceStep, ForceSteps
<1>7. cancelRequested' = FALSE
  BY <1>1, <1>2 DEF Ends, CancelDelivered, Suspends, Clear
<1>8. Switching' /\ Cancelling'
  BY <1>6, <1>7 DEF Switching, Cancelling, ForceSteps
<1> QED
  BY <1>5, <1>8 DEF SettledInv

LEMMA EndDoneSettles ==
  ASSUME "recancel" \notin Faults, Ind, StopInv, SettledInv,
         NEW out \in Outcomes, NEW callbackOk \in BOOLEAN, EndDone(out, callbackOk)
  PROVE  SettledInv'
<1>1. Clear
  BY Clearly
<1>2. Rests'
  BY <1>1 DEF SettledInv, Rests, Switching, EndDone, StopMeeting, Cancelled, Finish, Goto,
     FirstForceStep, KeepState, CommitOrForce, CommitState, Leave, OnlyMeeting, HasMeeting,
     SubtitlesActive, Only, Rested
<1>3. Switching'
  BY <1>1 DEF Switching, EndDone, Cancelled, Finish, Goto, FirstForceStep, KeepState,
     CommitOrForce, CommitState, Leave
<1>4. Cancelling'
  BY <1>1 DEF SettledInv, Switching, Cancelling, EndDone, Cancelled, Finish, Goto, FirstForceStep,
     KeepState, CommitOrForce, CommitState, Leave, Ends, CancelDelivered, Suspends
<1>5. Publishing'
  BY <1>1 DEF SettledInv, Publishing, EndDone, Cancelled, Finish, Goto, KeepState, CommitOrForce,
     CommitState, Leave, Ends, Ownership, Clear
<1> QED
  BY <1>2, <1>3, <1>4, <1>5 DEF SettledInv

LEMMA StopQuiesceDoneSettles ==
  ASSUME "recancel" \notin Faults, Ind, StopInv, SettledInv,
         NEW out \in Outcomes, NEW callbackOk \in BOOLEAN, StopQuiesceDone(out, callbackOk)
  PROVE  SettledInv'
<1>1. Clear
  BY Clearly
<1>2. /\ pc = "stop_quiesce" /\ Ends(out) /\ Quiesce(out)
      /\ UNCHANGED <<preparedTarget, target, source>> /\ source \in {"assistant", "subtitles"}
  BY <1>1 DEF StopQuiesceDone, Clear, SwitchSource, MeetingLocked, ForceSteps, SwitchTypes, Modes, Workloads
<1>3. Only({source})' /\ (out = "ok" => Only({"idle"})')
  BY <1>1, <1>2, AtRestoring
  DEF Quiesce, StopInteraction, DeactivateSubtitles, OnlyInteraction, OnlySubtitles, Only,
      SubtitlesActive, Clear, WorkloadTypes, SubtitleStates
<1>4. \/ CommitOrForce("idle", FALSE, callbackOk) /\ out = "ok"
      \/ KeepState(activeMeeting) /\ Goto(FirstForceStep)
      \/ KeepState(activeMeeting) /\ Cancelled /\ out = "cancel" /\ Closing
      \/ KeepState(activeMeeting) /\ Goto("restore") /\ cause' = "cancel" /\ out = "cancel"
  BY DEF StopQuiesceDone, Outcomes
<1>5. Rests' /\ Publishing'
  <2>1. CASE CommitOrForce("idle", FALSE, callbackOk) /\ out = "ok"
    BY <1>1, <1>2, <1>3, <2>1, AtRestoring, CommitSettles DEF ForceSteps, Modes, Workloads
  <2>2. CASE KeepState(activeMeeting) /\ Cancelled /\ out = "cancel" /\ Closing
    <3>1. Publishing'
      BY <1>1, <1>2, <2>2, AtRestoring, KeepSettles
    <3> QED
      BY <1>1, <2>2, <3>1 DEF Cancelled, Finish, Goto, Rests, Closing, Clear
  <2>3. CASE KeepState(activeMeeting) /\ (Goto(FirstForceStep) \/ Goto("restore"))
    <3>1. Publishing'
      BY <1>1, <1>2, <2>3, AtRestoring, KeepSettles DEF Steps
    <3> QED
      BY <2>3, <3>1 DEF Goto, FirstForceStep, Rests
  <2> QED
    BY <1>4, <2>1, <2>2, <2>3
<1>6. pc' \in {"free", "cancel_abort", "restore"} \cup ForceSteps
  BY <1>4 DEF CommitOrForce, Leave, Cancelled, Finish, Goto, FirstForceStep, ForceSteps
<1>7. pc' = "restore" => cause' = "cancel" /\ activeMeeting' = activeMeeting
  BY <1>4 DEF CommitOrForce, Leave, Cancelled, Finish, Goto, FirstForceStep, KeepState
<1>8. Switching'
  <2>1. preparedTarget' = NoTarget /\ (pc' = "restore" => activeMeeting' = FALSE)
    BY <1>1, <1>2, <1>7, AtRestoring
  <2> QED
    BY <1>3, <1>6, <2>1 DEF Switching, ForceSteps
<1>9. Cancelling'
  <2>1. cancelRequested' = FALSE
    BY <1>1, <1>2 DEF Ends, CancelDelivered, Suspends, Clear
  <2> QED
    BY <1>2, <1>6, <1>7, <2>1 DEF Cancelling, ForceSteps
<1> QED
  BY <1>5, <1>8, <1>9 DEF SettledInv

LEMMA ForcePreparedDoneSettles ==
  ASSUME "recancel" \notin Faults, Ind, StopInv, SettledInv,
         NEW out \in Outcomes, ForcePreparedDone(out)
  PROVE  SettledInv'
<1>1. Clear /\ Stopped /\ (pc = "free" => holder = Nobody)
  BY Clearly DEF StopInv, Clear
<1>2. Rests'
  BY <1>1 DEF SettledInv, Rests, Cancelling, ForcePreparedDone, Cancelled, Finish, Goto, Ends,
     CancelDelivered
<1>3. Switching'
  BY <1>1 DEF Switching, ForcePreparedDone, Cancelled, Finish, Goto
<1>4. Cancelling'
  BY <1>1 DEF SettledInv, Cancelling, ForcePreparedDone, Cancelled, Finish, Goto, Ends, Clear
<1>5. Publishing'
  BY <1>1 DEF SettledInv, Publishing, ForcePreparedDone, Cancelled, Finish, Goto, KeepState, Ends,
     Clear
<1> QED
  BY <1>2, <1>3, <1>4, <1>5 DEF SettledInv

LEMMA ForceInteractionDoneSettles ==
  ASSUME "recancel" \notin Faults, Ind, StopInv, SettledInv,
         NEW out \in Outcomes, ForceInteractionDone(out)
  PROVE  SettledInv'
<1>1. Clear /\ Stopped /\ (pc = "free" => holder = Nobody)
  BY Clearly DEF StopInv, Clear
<1>2. Rests'
  BY <1>1 DEF SettledInv, Rests, Cancelling, ForceInteractionDone, Cancelled, Finish, Goto, Ends,
     CancelDelivered
<1>3. Switching'
  BY <1>1 DEF Switching, ForceInteractionDone, Cancelled, Finish, Goto
<1>4. Cancelling'
  BY <1>1 DEF SettledInv, Cancelling, ForceInteractionDone, Cancelled, Finish, Goto, Ends, Clear
<1>5. Publishing'
  BY <1>1 DEF SettledInv, Publishing, ForceInteractionDone, Cancelled, Finish, Goto, Ends,
     coordinatorVars, Clear
<1> QED
  BY <1>2, <1>3, <1>4, <1>5 DEF SettledInv

LEMMA ForceSubtitlesDoneSettles ==
  ASSUME "recancel" \notin Faults, Ind, StopInv, SettledInv,
         NEW out \in Outcomes, ForceSubtitlesDone(out)
  PROVE  SettledInv'
<1>1. Clear /\ Stopped /\ (pc = "free" => holder = Nobody)
      /\ published \in [mode: Modes, owner: Owners, meeting: BOOLEAN, revision: Nat]
  BY Clearly, Types DEF StopInv, Clear, CoordinatorTypes
<1>2. Rests' /\ Publishing'
  <2>1. CASE KeepState(activeMeeting) /\ out = "cancel" /\ Cancelled
    <3>1. shutdown # "running"
      BY <2>1 DEF ForceSubtitlesDone, Ends, CancelDelivered, SettledInv, Cancelling
    <3>2. shutdown' # "running" /\ pc' \in {"free", "cancel_abort"}
      BY <2>1, <3>1 DEF Cancelled, Finish, Goto
    <3>3. Publishing'
      BY <1>1, <2>1, KeepSettles DEF ForceSubtitlesDone, SettledInv, Clear
    <3> QED
      BY <3>2, <3>3 DEF Rests
  <2>2. CASE KeepState(activeMeeting) /\ Goto("force_meeting")
    <3>1. Publishing'
      BY <1>1, <2>2, KeepSettles DEF ForceSubtitlesDone, SettledInv, Clear, Steps, ForceSteps
    <3> QED
      BY <2>2, <3>1 DEF Goto, Rests
  <2>3. CASE ForcedIdle /\ out # "cancel" /\ ~HasMeeting
    <3>1. Silent'
      BY <1>1, <2>3 DEF ForceSubtitlesDone, OnlySubtitles, DeactivateSubtitles, SubtitlesActive, Possible,
         Clear, Forced, HasMeeting, Silent, WorkloadTypes, SubtitleStates, Outcomes
    <3> QED
      BY <1>1, <2>3, <3>1, ForcedSettles DEF ForceSubtitlesDone, SettledInv, ForceSteps
  <2> QED
    BY <2>1, <2>2, <2>3 DEF ForceSubtitlesDone, Outcomes
<1>3. Switching'
  BY <1>1 DEF Switching, ForceSubtitlesDone, KeepState, ForcedIdle, Leave, Cancelled, Finish, Goto
<1>4. Cancelling'
  BY <1>1 DEF SettledInv, Cancelling, ForceSubtitlesDone, KeepState, ForcedIdle, Leave, Cancelled,
     Finish, Goto, Ends, Clear
<1> QED
  BY <1>2, <1>3, <1>4 DEF SettledInv

LEMMA ForceMeetingDoneSettles ==
  ASSUME "recancel" \notin Faults, Ind, StopInv, SettledInv,
         NEW out \in Outcomes, ForceMeetingDone(out)
  PROVE  SettledInv'
<1>1. Clear /\ Stopped /\ (pc = "free" => holder = Nobody)
      /\ published \in [mode: Modes, owner: Owners, meeting: BOOLEAN, revision: Nat]
  BY Clearly, Types DEF StopInv, Clear, CoordinatorTypes
<1>2. Rests' /\ Publishing'
  <2>1. CASE KeepState(activeMeeting) /\ out = "cancel" /\ Cancelled
    <3>1. shutdown # "running"
      BY <2>1 DEF ForceMeetingDone, Ends, CancelDelivered, SettledInv, Cancelling
    <3>2. shutdown' # "running" /\ pc' \in {"free", "cancel_abort"}
      BY <2>1, <3>1 DEF Cancelled, Finish, Goto
    <3>3. Publishing'
      BY <1>1, <2>1, KeepSettles DEF ForceMeetingDone, SettledInv, Clear
    <3> QED
      BY <3>2, <3>3 DEF Rests
  <2>2. CASE ForcedIdle
    <3>1. Silent'
      BY <1>1 DEF ForceMeetingDone, OnlyMeeting, InterruptMeeting, SubtitlesActive, Clear, Forced,
         HasMeeting, Silent
    <3> QED
      BY <1>1, <2>2, <3>1, ForcedSettles DEF ForceMeetingDone, SettledInv, ForceSteps
  <2> QED
    BY <2>1, <2>2 DEF ForceMeetingDone
<1>3. Switching'
  BY <1>1 DEF Switching, ForceMeetingDone, KeepState, ForcedIdle, Leave, Cancelled, Finish, Goto
<1>4. Cancelling'
  BY <1>1 DEF SettledInv, Cancelling, ForceMeetingDone, KeepState, ForcedIdle, Leave, Cancelled,
     Finish, Goto, Ends, Clear
<1> QED
  BY <1>2, <1>3, <1>4 DEF SettledInv

-----------------------------------------------------------------------------
(***************************************************************************)
(* So does every command that starts, waits, is answered or cancelled,     *)
(* every step of the shutdown, and what the workloads do by themselves.    *)
(***************************************************************************)
LEMMA StartSwitchSettles ==
  ASSUME "recancel" \notin Faults, Ind, StopInv, SettledInv, NEW c \in Clients, StartSwitch(c)
  PROVE  SettledInv'
<1>1. Clear /\ Stopped /\ (pc = "free" => holder = Nobody)
  BY Clearly DEF StopInv, Clear
<1>2. Rests'
  <2>1. shutdown = "running" /\ pc = "free"
    BY <1>1 DEF StartSwitch, Takes, AtHead, AnsweredAtOnce, Closing, Clear
  <2>2. Rested
    BY <2>1 DEF SettledInv, Rests
  <2>3. Rested'
    BY <2>2 DEF StartSwitch, Takes, coordinatorVars, workloadVars, Rested, Only, SubtitlesActive, Ownership
  <2> QED
    BY <2>3 DEF StartSwitch, Rests
<1>3. Switching'
  BY <1>1 DEF Switching, Cancelling, Publishing, StartSwitch
<1>4. Cancelling'
  BY <1>1 DEF Switching, Cancelling, Publishing, StartSwitch
<1>5. Publishing'
  BY <1>1 DEF SettledInv, Publishing, StartSwitch, Takes, AnsweredAtOnce, Closing, shutdownVars,
     coordinatorVars
<1> QED
  BY <1>2, <1>3, <1>4, <1>5 DEF SettledInv

LEMMA StartRestartSettles ==
  ASSUME "recancel" \notin Faults, Ind, StopInv, SettledInv, NEW c \in Clients, StartRestart(c)
  PROVE  SettledInv'
<1>1. Clear /\ Stopped /\ (pc = "free" => holder = Nobody)
  BY Clearly DEF StopInv, Clear
<1>2. Rests'
  BY <1>1 DEF SettledInv, Rests, StartRestart, Takes, AtHead, AnsweredAtOnce, Closing,
     coordinatorVars, workloadVars, SubtitlesActive, Only, Rested, Ownership, Clear
<1>3. Switching'
  BY <1>1 DEF Switching, Cancelling, Publishing, StartRestart
<1>4. Cancelling'
  BY <1>1 DEF Switching, Cancelling, Publishing, StartRestart
<1>5. Publishing'
  BY <1>1 DEF SettledInv, Publishing, StartRestart, Takes, AnsweredAtOnce, Closing, shutdownVars,
     coordinatorVars
<1> QED
  BY <1>2, <1>3, <1>4, <1>5 DEF SettledInv

LEMMA StartStopSettles ==
  ASSUME "recancel" \notin Faults, Ind, StopInv, SettledInv, NEW c \in Clients, StartStop(c)
  PROVE  SettledInv'
<1>1. Clear /\ Stopped /\ (pc = "free" => holder = Nobody)
  BY Clearly DEF StopInv, Clear
<1>2. Rests'
  BY <1>1 DEF SettledInv, Rests, Publishing, StartStop
<1>3. Switching'
  <2>1. shutdown = "running" /\ pc = "free"
    BY <1>1 DEF StartStop, Takes, AtHead, AnsweredAtOnce, Closing, Clear
  <2>2. mode # "idle"
    BY <2>1 DEF StartStop, Takes, AnsweredAtOnce
  <2>3. Only({mode}) /\ preparedTarget = NoTarget /\ (activeMeeting <=> mode = "meeting")
    BY <2>1, <2>2 DEF SettledInv, Rests, Rested
  <2>4. /\ UNCHANGED <<preparedTarget, activeMeeting, mode>> /\ source' = mode
        /\ pc' = (IF mode = "meeting" THEN "end" ELSE "stop_quiesce")
    BY DEF StartStop, Takes, Barrier
  <2>5. Only({mode})'
    BY <2>3, <2>4 DEF StartStop, Takes, workloadVars, Only, SubtitlesActive
  <2> QED
    BY <2>3, <2>4, <2>5 DEF Switching
<1>4. Cancelling'
  BY <1>1 DEF Switching, Cancelling, Publishing, StartStop
<1>5. Publishing'
  BY <1>1 DEF SettledInv, Publishing, StartStop, Takes, AnsweredAtOnce, Closing, Barrier,
     shutdownVars
<1> QED
  BY <1>2, <1>3, <1>4, <1>5 DEF SettledInv

LEMMA StartStopWithoutBarrierSettles ==
  ASSUME "recancel" \notin Faults, Ind, StopInv, SettledInv,
         NEW c \in Clients, StartStopWithoutBarrier(c)
  PROVE  SettledInv'
<1>1. Clear /\ Stopped /\ (pc = "free" => holder = Nobody)
  BY Clearly DEF StopInv, Clear
<1>2. shutdown = "running" /\ Rested /\ pc = "free" /\ holder = Nobody /\ Only({mode})
      /\ UNCHANGED <<shutdown, workloadVars, preparedTarget>> /\ cancelRequested' = FALSE
  <2>1. Takes(c) /\ pc = "free" /\ holder = Nobody
    BY <1>1 DEF StartStopWithoutBarrier, Takes, AtHead, Clear
  <2>2. shutdown = "running" /\ UNCHANGED <<shutdown, workloadVars, preparedTarget>> /\ cancelRequested' = FALSE
    BY <2>1 DEF Takes, AnsweredAtOnce, Closing, shutdownVars
  <2> QED
    BY <2>1, <2>2 DEF SettledInv, Rests, Rested
<1>3. CASE CommitState(mode, activeMeeting) /\ pc' = pc
  <2>1. Rested'
    BY <1>2, <1>3 DEF CommitState, Rested, Ownership, Only, SubtitlesActive, workloadVars
  <2>2. published'.mode = mode' /\ published'.owner = pcmOwner'
        /\ published'.revision = runtimeRevision' /\ pcmOwner' = OwnerFor(mode')
    BY <1>3 DEF CommitState, Ownership, OwnerFor
  <2> QED
    BY <1>2, <1>3, <2>1, <2>2 DEF Rests, Publishing, Switching, Cancelling, SettledInv
<1>4. CASE KeepState(activeMeeting) /\ pc' = FirstForceStep
  <2>1. pc' \in ForceSteps
    BY <1>4 DEF FirstForceStep, ForceSteps
  <2> QED
    BY <1>2, <1>4, <2>1
    DEF Rests, Publishing, Switching, Cancelling, SettledInv, KeepState, ForceSteps, OwnerFor
<1> QED
  BY <1>3, <1>4 DEF StartStopWithoutBarrier

LEMMA SubmitSettles ==
  ASSUME "recancel" \notin Faults, Ind, StopInv, SettledInv,
         NEW c \in Clients, NEW command \in Commands, Submit(c, command)
  PROVE  SettledInv'
<1>1. Clear /\ Stopped /\ (pc = "free" => holder = Nobody)
  BY Clearly DEF StopInv, Clear
<1>2. Rests'
  BY <1>1 DEF SettledInv, Rests, Submit, shutdownVars, coordinatorVars, workloadVars,
     SubtitlesActive, Only, Rested, Ownership
<1>3. Switching'
  BY <1>1 DEF SettledInv, Switching, Submit, coordinatorVars, switchVars, workloadVars,
     SubtitlesActive, Only
<1>4. Cancelling'
  BY <1>1 DEF SettledInv, Cancelling, Submit, shutdownVars, switchVars
<1>5. Publishing'
  BY <1>1 DEF SettledInv, Publishing, Submit, shutdownVars, coordinatorVars, Ownership
<1> QED
  BY <1>2, <1>3, <1>4, <1>5 DEF SettledInv

LEMMA CancelWaitingSettles ==
  ASSUME "recancel" \notin Faults, Ind, StopInv, SettledInv, NEW c \in Clients, CancelWaiting(c)
  PROVE  SettledInv'
<1>1. Clear /\ Stopped /\ (pc = "free" => holder = Nobody)
  BY Clearly DEF StopInv, Clear
<1>2. Rests'
  BY <1>1 DEF SettledInv, Rests, CancelWaiting, shutdownVars, coordinatorVars, workloadVars,
     SubtitlesActive, Only, Rested, Ownership
<1>3. Switching'
  BY <1>1 DEF SettledInv, Switching, CancelWaiting, coordinatorVars, switchVars, workloadVars,
     SubtitlesActive, Only
<1>4. Cancelling'
  BY <1>1 DEF SettledInv, Cancelling, CancelWaiting, shutdownVars, switchVars
<1>5. Publishing'
  BY <1>1 DEF SettledInv, Publishing, CancelWaiting, shutdownVars, coordinatorVars, Ownership
<1> QED
  BY <1>2, <1>3, <1>4, <1>5 DEF SettledInv

LEMMA AnswerAtOnceSettles ==
  ASSUME "recancel" \notin Faults, Ind, StopInv, SettledInv, NEW c \in Clients, AnswerAtOnce(c)
  PROVE  SettledInv'
<1>1. Clear /\ Stopped /\ (pc = "free" => holder = Nobody)
  BY Clearly DEF StopInv, Clear
<1>2. Rests'
  BY <1>1 DEF SettledInv, Rests, AnswerAtOnce, shutdownVars, coordinatorVars, workloadVars,
     SubtitlesActive, Only, Rested, Ownership
<1>3. Switching'
  BY <1>1 DEF Switching, AnswerAtOnce, AtHead, Clear
<1>4. Cancelling'
  BY <1>1 DEF Cancelling, AnswerAtOnce, AtHead, Clear
<1>5. Publishing'
  BY <1>1 DEF SettledInv, Publishing, AnswerAtOnce, shutdownVars, coordinatorVars, Ownership
<1> QED
  BY <1>2, <1>3, <1>4, <1>5 DEF SettledInv

LEMMA CancelRunningSettles ==
  ASSUME "recancel" \notin Faults, Ind, StopInv, SettledInv, NEW c \in Clients, CancelRunning(c)
  PROVE  SettledInv'
<1>1. Clear /\ Stopped /\ (pc = "free" => holder = Nobody)
  BY Clearly DEF StopInv, Clear
<1>2. Rests'
  BY <1>1 DEF SettledInv, Rests, CancelRunning, shutdownVars, coordinatorVars, workloadVars,
     SubtitlesActive, Only, Rested, Ownership
<1>3. Switching'
  BY <1>1 DEF SettledInv, Switching, CancelRunning, coordinatorVars, switchVars, workloadVars,
     SubtitlesActive, Only
<1>4. Cancelling'
  <2>1. cause = "none" /\ pc \notin {"cancel_abort"} \cup ForceSteps
    BY <1>1 DEF CancelRunning
  <2>2. pc = "commit" => target = "subtitles"
    BY <1>1 DEF CancelRunning, Yielded, Suspends, Clear
  <2>3. pc' \in Steps /\ UNCHANGED <<pc, cause, target>>
    BY <1>1 DEF CancelRunning, switchVars, Clear
  <2> QED
    BY <2>1, <2>2, <2>3 DEF SettledInv, Cancelling, Steps, ForceSteps
<1>5. Publishing'
  BY <1>1 DEF SettledInv, Publishing, CancelRunning, shutdownVars, coordinatorVars, Clear
<1> QED
  BY <1>2, <1>3, <1>4, <1>5 DEF SettledInv

LEMMA RequestStopSettles ==
  ASSUME "recancel" \notin Faults, Ind, StopInv, SettledInv, RequestStop
  PROVE  SettledInv'
<1>1. Clear /\ Stopped /\ (pc = "free" => holder = Nobody)
  BY Clearly DEF StopInv, Clear
<1>2. Rests'
  BY <1>1 DEF SettledInv, Rests, RequestStop, ShutdownUnchanged, coordinatorVars, workloadVars,
     SubtitlesActive, Only, Rested, Ownership
<1>3. Switching'
  BY <1>1 DEF SettledInv, Switching, RequestStop, ShutdownUnchanged, coordinatorVars, switchVars,
     workloadVars, SubtitlesActive, Only
<1>4. Cancelling'
  BY <1>1 DEF SettledInv, Cancelling, RequestStop, ShutdownUnchanged, switchVars
<1>5. Publishing'
  BY <1>1 DEF SettledInv, Publishing, RequestStop, ShutdownUnchanged, coordinatorVars
<1> QED
  BY <1>2, <1>3, <1>4, <1>5 DEF SettledInv

LEMMA CancelTransitionSettles ==
  ASSUME "recancel" \notin Faults, Ind, StopInv, SettledInv, CancelTransition
  PROVE  SettledInv'
<1>1. Clear /\ Stopped /\ (pc = "free" => holder = Nobody)
  BY Clearly DEF StopInv, Clear
<1>2. Rests'
  BY <1>1 DEF SettledInv, Rests, CancelTransition, ShutdownUnchanged, coordinatorVars,
     workloadVars, SubtitlesActive, Only, Rested, Ownership
<1>3. Switching'
  BY <1>1 DEF SettledInv, Switching, CancelTransition, ShutdownUnchanged, coordinatorVars,
     switchVars, workloadVars, SubtitlesActive, Only
<1>4. Cancelling'
  <2>1. pc = "commit" => target = "subtitles"
    BY <1>1 DEF CancelTransition, Yielded, Suspends, Clear
  <2>2. shutdown' # "running" /\ UNCHANGED <<pc, cause, target>>
    BY DEF CancelTransition, ShutdownUnchanged, switchVars
  <2> QED
    BY <2>1, <2>2 DEF SettledInv, Cancelling
<1>5. Publishing'
  BY <1>1 DEF SettledInv, Publishing, CancelTransition, ShutdownUnchanged, coordinatorVars
<1> QED
  BY <1>2, <1>3, <1>4, <1>5 DEF SettledInv

LEMMA QueueShutdownSettles ==
  ASSUME "recancel" \notin Faults, Ind, StopInv, SettledInv, QueueShutdown
  PROVE  SettledInv'
<1>1. Clear /\ Stopped /\ (pc = "free" => holder = Nobody)
  BY Clearly DEF StopInv, Clear
<1>2. Rests'
  BY <1>1 DEF Rests, QueueShutdown, Clear
<1>3. Switching'
  BY <1>1 DEF Switching, QueueShutdown, Clear
<1>4. Cancelling'
  BY <1>1 DEF Cancelling, Publishing, QueueShutdown, Clear
<1>5. Publishing'
  BY <1>1 DEF SettledInv, Publishing, QueueShutdown, ShutdownUnchanged, coordinatorVars
<1> QED
  BY <1>2, <1>3, <1>4, <1>5 DEF SettledInv

LEMMA StopEverythingSettles ==
  ASSUME "recancel" \notin Faults, Ind, StopInv, SettledInv, StopEverything
  PROVE  SettledInv'
<1>1. Clear /\ Stopped /\ (pc = "free" => holder = Nobody)
  BY Clearly DEF StopInv, Clear
<1>2. Rests'
  BY <1>1 DEF SettledInv, Rests, Publishing, StopEverything
<1>3. Switching'
  BY <1>1 DEF Switching, Cancelling, Publishing, StopEverything
<1>4. Cancelling'
  BY <1>1 DEF Switching, Cancelling, Publishing, StopEverything
<1>5. Publishing'
  BY <1>1 DEF SettledInv, Publishing, StopEverything, ShutdownUnchanged, AtHead, shutdownVars,
     coordinatorVars, Ownership, Clear
<1> QED
  BY <1>2, <1>3, <1>4, <1>5 DEF SettledInv

LEMMA DecaySettles ==
  ASSUME "recancel" \notin Faults, Ind, StopInv, SettledInv, Decay
  PROVE  SettledInv'
<1>1. Clear /\ Stopped /\ (pc = "free" => holder = Nobody)
  BY Clearly DEF StopInv, Clear
<1>2. /\ OnlyWorkloads
      /\ interaction' = "on" => interaction = "on"
      /\ SubtitlesActive' => SubtitlesActive
      /\ meetingSession' = "recording" => meetingSession = "recording"
  BY DEF Decay, InteractionEnds, SubtitleSourceLost, CaptureLost, SubtitleCleanupEnds,
     OnlyInteraction, OnlySubtitles, OnlyMeeting, SubtitlesActive
<1>3. Rests'
  BY <1>2 DEF OnlyWorkloads, coordinatorVars, shutdownVars, SettledInv, Rests, Rested, Only, Ownership
<1>4. Switching'
  BY <1>2 DEF OnlyWorkloads, coordinatorVars, switchVars, SettledInv, Switching, Only
<1>5. Cancelling'
  BY <1>2 DEF OnlyWorkloads, switchVars, shutdownVars, SettledInv, Cancelling
<1>6. Publishing'
  BY <1>2 DEF OnlyWorkloads, coordinatorVars, shutdownVars, SettledInv, Publishing, Ownership
<1> QED
  BY <1>3, <1>4, <1>5, <1>6 DEF SettledInv

LEMMA SnapshotSentSettles ==
  ASSUME "recancel" \notin Faults, Ind, StopInv, SettledInv, SnapshotSent
  PROVE  SettledInv'
<1>1. Clear /\ Stopped /\ (pc = "free" => holder = Nobody)
  BY Clearly DEF StopInv, Clear
<1>2. Rests'
  BY <1>1 DEF SettledInv, Rests, SnapshotSent, shutdownVars, Rested
<1>3. Switching'
  BY <1>1 DEF SettledInv, Switching, SnapshotSent, switchVars, workloadVars, SubtitlesActive, Only
<1>4. Cancelling'
  BY <1>1 DEF SettledInv, Cancelling, SnapshotSent, shutdownVars, switchVars
<1>5. Publishing'
  BY <1>1 DEF SettledInv, Publishing, SnapshotSent, shutdownVars, Ownership, Clear,
     OwnerFollowsMode
<1> QED
  BY <1>2, <1>3, <1>4, <1>5 DEF SettledInv

\* Nothing changes.
LEMMA StutterSettles == ASSUME SettledInv, UNCHANGED vars PROVE SettledInv'
BY DEF vars, coordinatorVars, lockVars, switchVars, shutdownVars, workloadVars, SettledInv, Rests, Rested, Only,
   Ownership, Switching, Cancelling, Publishing, SubtitlesActive

\* Idle, silent and published.
LEMMA InitSettles == Init => SettledInv
BY DEF Init, SettledInv, Rests, Rested, Only, Ownership, OwnerFor, Switching, Cancelling, Publishing, SubtitlesActive

LEMMA NextSettles ==
  ASSUME "recancel" \notin Faults, Ind, StopInv, SettledInv, [Next]_vars
  PROVE  SettledInv'
<1>1. ASSUME Proceed PROVE SettledInv'
  BY <1>1, PrepareFailsSettles, PrepareDoneSettles, QuiesceDoneSettles, CommitFailsSettles,
     CommitDoneSettles, PublishDoneSettles, AbortDoneSettles, RestartDoneSettles,
     CancelAbortDoneSettles, RestoreDoneSettles, RestoreCommitDoneSettles, EndDoneSettles,
     StopQuiesceDoneSettles, ForcePreparedDoneSettles, ForceInteractionDoneSettles,
     ForceSubtitlesDoneSettles, ForceMeetingDoneSettles
  DEF Proceed
<1>2. ASSUME NEW c \in Clients, Begin(c) \/ AnswerAtOnce(c) PROVE SettledInv'
  BY <1>2, StartSwitchSettles, StartRestartSettles, StartStopSettles,
     StartStopWithoutBarrierSettles, AnswerAtOnceSettles DEF Begin
<1>3. ASSUME NEW c \in Clients,
             (\E command \in Commands : Submit(c, command)) \/ CancelWaiting(c) \/ CancelRunning(c)
      PROVE  SettledInv'
  BY <1>3, SubmitSettles, CancelWaitingSettles, CancelRunningSettles
<1>4. ASSUME ShutdownStep PROVE SettledInv'
  BY <1>4, RequestStopSettles, CancelTransitionSettles, QueueShutdownSettles,
     StopEverythingSettles DEF ShutdownStep
<1> QED
  BY <1>1, <1>2, <1>3, <1>4, DecaySettles, SnapshotSentSettles, StutterSettles DEF Next

\* With no command in progress the mode is served by its owner alone, and published, however
\* the commands before it ended: failed, cancelled, rolled back or forced to idle.  A command
\* that is cancelled again while it is rolled back leaves its mode without an owner, and is
\* excluded here as in the run.
THEOREM CommandsSettle == ASSUME "recancel" \notin Faults PROVE Spec => []Settled
<1>1. Ind /\ StopInv /\ SettledInv /\ [Next]_vars => Ind' /\ StopInv' /\ SettledInv'
  BY NextInd, StutterInd, NextStop, NextSettles
<1>2. Ind /\ StopInv /\ SettledInv => Settled
  <2> SUFFICES ASSUME Ind, StopInv, SettledInv, AtRest PROVE Settled
    BY DEF Settled
  <2>1. pc = "free" /\ mode \in Modes
    BY Clearly DEF Clear, AtRest
  <2>2. CASE shutdown = "running"
    <3>1. Rested
      BY <2>1, <2>2 DEF SettledInv, Rests
    <3> QED
      BY <2>1, <3>1 DEF Settled, OthersSilent, Rested, Only, Active, Workloads
  <2>3. CASE shutdown = "stopped"
    BY <2>3 DEF StopInv, Stopped, Silent, SettledInv, Publishing, Settled, OthersSilent, OwnerFor,
       Active, Workloads
  <2> QED
    BY <2>2, <2>3 DEF AtRest
<1> QED
  BY <1>1, <1>2, InitInd, InitStop, InitSettles, PTL DEF Spec
=============================================================================
