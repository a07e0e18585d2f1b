---------------------------- MODULE MinutesQueue ----------------------------
(***************************************************************************)
(* The queue of minutes: the rows of meeting_minutes, the one worker that  *)
(* claims them, generates the text in several calls of the local model and *)
(* stores it, and the recording of a meeting, which pauses the background, *)
(* cancels the worker, requeues what it held and resumes it at the end.    *)
(*                                                                         *)
(* A step of the worker is one of its awaits and the code up to the next.  *)
(* A claim commits in the database before the worker hears of it, and only *)
(* then does it count as active. The slot of the scheduler is reduced to   *)
(* who uses it; InferenceScheduler has its queue.                          *)
(***************************************************************************)
EXTENDS Integers

CONSTANTS Meetings, MaxJobs,
          MaxAttempts,   \* summary_max_attempts, 0 for no automatic retry
          MaxCalls,      \* model calls of a job: chunks, repair, reduction
          MaxRecordings, MaxFaults

ASSUME LimitsAssumption ==
  /\ MaxJobs \in Nat /\ MaxAttempts \in Nat /\ MaxCalls \in Nat \ {0}
  /\ MaxRecordings \in Nat /\ MaxFaults \in Nat

NoMeeting == "none"
ASSUME MeetingsAssumption == NoMeeting \notin Meetings

VARIABLES
  jobs,        \* the rows, in the order they were created
  at,          \* the await of the worker, "down" without a task
  held,        \* the job of the worker, 0 for none
  calls,       \* its model calls so far
  active,      \* _active
  paused,      \* background_paused of the scheduler
  slot,        \* who uses the slot
  recorder,    \* the meeting session in its calls of the service; "down" without a process
  recordings,  \* recordings begun so far
  faults

vars == <<jobs, at, held, calls, active, paused, slot, recorder, recordings, faults>>

Jobs == 1 .. MaxJobs
Statuses == {"none", "queued", "generating", "completed", "failed"}
Rows == [of: Meetings \cup {NoMeeting}, status: Statuses, attempts: Nat,
         lease: {"none", "held", "expired"}, cooled: BOOLEAN]

Absent == [of |-> NoMeeting, status |-> "none", attempts |-> 0, lease |-> "none", cooled |-> FALSE]

\* The awaits between _active = True and the finally of run_once.
Working == {"loading", "waiting", "calling", "saving", "failing", "telling"}
Open(row) == row.status \in {"queued", "generating"}

Up == recorder # "down"
\* The worker takes no step between its cancellation and its end.
Runs == Up /\ recorder # "cancelling"
Spend == faults < MaxFaults /\ faults' = faults + 1
-----------------------------------------------------------------------------
(***************************************************************************)
(* The statements of the repository.                                       *)
(***************************************************************************)
Requeued(row) == IF row.status = "generating" THEN [row EXCEPT !.status = "queued", !.lease = "none"] ELSE row

Stored(row) == IF row.status = "generating" THEN [row EXCEPT !.status = "completed", !.lease = "none"] ELSE row

\* Mutant of Failed: a job that is completed fails as well.
FailedAlways(row) == [row EXCEPT !.status = "failed", !.lease = "none", !.cooled = FALSE]
Failed(row) == IF Open(row) THEN [row EXCEPT !.status = "failed", !.lease = "none", !.cooled = FALSE] ELSE row

Claimable(row) ==
  \/ row.status = "queued"
  \/ row.status = "generating" /\ row.lease = "expired" /\ (MaxAttempts = 0 \/ row.attempts < MaxAttempts)
  \/ row.status = "failed" /\ row.cooled /\ row.attempts < MaxAttempts

Claimed(row) ==
  [row EXCEPT !.status = "generating", !.lease = "held", !.attempts = @ + 1, !.cooled = FALSE]

First(j) == Claimable(jobs[j]) /\ \A k \in Jobs: k < j => ~Claimable(jobs[k])
With(j, row) == [jobs EXCEPT ![j] = row]

\* What a database call of the worker that is cut off may have done: nothing, or all.
CutOff == {jobs} \cup
  CASE at = "claiming" -> {With(j, Claimed(jobs[j])): j \in {k \in Jobs: First(k)}}
    [] at = "saving" -> {With(held, Stored(jobs[held]))}
    [] at = "failing" -> {With(held, Failed(jobs[held]))}
    [] OTHER -> {}

\* Mutant of Create: a meeting that has a job already gets another.
CreateAgain(m) ==
  /\ Up
  /\ \E j \in Jobs: /\ jobs[j].status = "none" /\ \A k \in Jobs: k < j => jobs[k].status # "none"
                    /\ jobs' = With(j, [Absent EXCEPT !.of = m, !.status = "queued"])
  /\ UNCHANGED <<at, held, calls, active, paused, slot, recorder, recordings, faults>>
\* create_minutes for a meeting that is over; one that has an open job gets that one back.
Create(m) ==
  /\ Up
  /\ \A k \in Jobs: jobs[k].of = m => ~Open(jobs[k])
  /\ \E j \in Jobs: /\ jobs[j].status = "none" /\ \A k \in Jobs: k < j => jobs[k].status # "none"
                    /\ jobs' = With(j, [Absent EXCEPT !.of = m, !.status = "queued"])
  /\ UNCHANGED <<at, held, calls, active, paused, slot, recorder, recordings, faults>>
-----------------------------------------------------------------------------
(***************************************************************************)
(* The worker: _worker and run_once.                                       *)
(***************************************************************************)
Poll ==
  /\ Runs /\ at = "idle" /\ ~paused
  /\ at' = "claiming"
  /\ UNCHANGED <<jobs, held, calls, active, paused, slot, recorder, recordings, faults>>

Claim ==
  /\ Runs /\ at = "claiming"
  /\ \/ /\ \A j \in Jobs: ~Claimable(jobs[j])
        /\ at' = "idle" /\ UNCHANGED <<jobs, held>>
     \/ \E j \in Jobs: /\ First(j)
                       /\ jobs' = With(j, Claimed(jobs[j]))
                       /\ at' = "claimed" /\ held' = j
  /\ UNCHANGED <<calls, active, paused, slot, recorder, recordings, faults>>

\* The claim fails, perhaps after its commit.
ClaimFails ==
  /\ Runs /\ at = "claiming" /\ Spend
  /\ jobs' \in CutOff /\ at' = "idle"
  /\ UNCHANGED <<held, calls, active, paused, slot, recorder, recordings>>

Activate ==
  /\ Runs /\ at = "claimed"
  /\ active' = TRUE /\ at' = "loading" /\ calls' = 0
  /\ UNCHANGED <<jobs, held, paused, slot, recorder, recordings, faults>>

\* get_transcript.
Load ==
  /\ Runs /\ at = "loading"
  /\ \/ at' = "waiting" /\ UNCHANGED faults
     \/ at' = "failing" /\ Spend
  /\ UNCHANGED <<jobs, held, calls, active, paused, slot, recorder, recordings>>

EnterSlot ==
  /\ Runs /\ at = "waiting" /\ slot = "free" /\ ~paused
  /\ slot' = "minutes" /\ at' = "calling" /\ calls' = calls + 1
  /\ UNCHANGED <<jobs, held, active, paused, recorder, recordings, faults>>

\* A model call ends: another is needed, it was the last, or it failed for good.
CallEnds ==
  /\ Runs /\ at = "calling"
  /\ slot' = "free"
  /\ \/ at' = "waiting" /\ calls < MaxCalls
     \/ at' \in {"saving", "failing"}
  /\ UNCHANGED <<jobs, held, calls, active, paused, recorder, recordings, faults>>

\* asyncio.timeout(job_timeout) around _generate.
JobTimesOut ==
  /\ Runs /\ at \in {"waiting", "calling"}
  /\ at' = "failing" /\ slot' = IF at = "calling" THEN "free" ELSE slot
  /\ UNCHANGED <<jobs, held, calls, active, paused, recorder, recordings, faults>>

\* complete_minutes, which refuses a job that is not generating.
Save ==
  /\ Runs /\ at = "saving"
  /\ \/ /\ jobs' = With(held, Stored(jobs[held])) /\ UNCHANGED faults
        /\ at' = IF jobs[held].status = "generating" THEN "telling" ELSE "failing"
     \/ Spend /\ jobs' \in CutOff /\ at' = "failing"
  /\ UNCHANGED <<held, calls, active, paused, slot, recorder, recordings>>

\* _fail, whose own failure is swallowed.
Fail ==
  /\ Runs /\ at = "failing"
  /\ \/ jobs' = With(held, Failed(jobs[held])) /\ UNCHANGED faults
     \/ Spend /\ jobs' \in CutOff
  /\ at' = "telling"
  /\ UNCHANGED <<held, calls, active, paused, slot, recorder, recordings>>

\* The events of the end, and the finally of run_once.
Tell ==
  /\ Runs /\ at = "telling"
  /\ at' = "idle" /\ held' = 0 /\ calls' = 0 /\ active' = FALSE
  /\ UNCHANGED <<jobs, paused, slot, recorder, recordings, faults>>
-----------------------------------------------------------------------------
(***************************************************************************)
(* The recording of a meeting: requeue_for_recording when it is published, *)
(* resume_after_recording when the session is released.                    *)
(***************************************************************************)
\* The summary workload of the slot may be the worker's or the title of a request.
BeginRecording ==
  /\ recorder = "off" /\ recordings < MaxRecordings
  /\ paused' = TRUE /\ recordings' = recordings + 1
  /\ recorder' = IF ~active THEN "requeueing"
                 ELSE IF slot \in {"minutes", "title"} THEN "recording" ELSE "cancelling"
  /\ UNCHANGED <<jobs, at, held, calls, active, slot, faults>>

\* The cancelled worker ends at its await; a database call may have been committed.
WorkerStops ==
  /\ recorder = "cancelling"
  /\ jobs' \in CutOff
  /\ at' = "down" /\ held' = 0 /\ calls' = 0 /\ active' = FALSE
  /\ recorder' = "requeueing"
  /\ UNCHANGED <<paused, slot, recordings, faults>>

\* requeue_generating; publish_started swallows its failure.
Requeue ==
  /\ recorder = "requeueing"
  /\ \/ jobs' = [j \in Jobs |-> Requeued(jobs[j])] /\ UNCHANGED faults
     \/ UNCHANGED jobs /\ Spend
  /\ recorder' = "recording"
  /\ UNCHANGED <<at, held, calls, active, paused, slot, recordings>>

\* Mutant of EndRecording: the background is resumed, the worker is not started again.
EndRecordingOnly ==
  /\ recorder = "recording"
  /\ recorder' = "off" /\ paused' = FALSE
  /\ UNCHANGED <<jobs, at, held, calls, active, slot, recordings, faults>>
EndRecording ==
  /\ recorder = "recording"
  /\ recorder' = "off" /\ paused' = FALSE
  /\ at' = IF at = "down" THEN "idle" ELSE at
  /\ UNCHANGED <<jobs, held, calls, active, slot, recordings, faults>>
-----------------------------------------------------------------------------
\* Other users of the slot: a query, or the title of a meeting, which is a summary as well.
OtherEnters(user) ==
  /\ Up /\ slot = "free" /\ (user = "title" => ~paused)
  /\ slot' = user
  /\ UNCHANGED <<jobs, at, held, calls, active, paused, recorder, recordings, faults>>
OtherLeaves ==
  /\ slot \in {"query", "title"}
  /\ slot' = "free"
  /\ UNCHANGED <<jobs, at, held, calls, active, paused, recorder, recordings, faults>>

LeaseExpires(j) ==
  /\ jobs[j].lease = "held"
  /\ jobs' = With(j, [jobs[j] EXCEPT !.lease = "expired"])
  /\ UNCHANGED <<at, held, calls, active, paused, slot, recorder, recordings, faults>>
CooldownEnds(j) ==
  /\ jobs[j].status = "failed" /\ ~jobs[j].cooled
  /\ jobs' = With(j, [jobs[j] EXCEPT !.cooled = TRUE])
  /\ UNCHANGED <<at, held, calls, active, paused, slot, recorder, recordings, faults>>

\* The process dies, or stop() ends it: the rows stay as they are.
Crash ==
  /\ Up /\ Spend
  /\ jobs' \in CutOff
  /\ at' = "down" /\ held' = 0 /\ calls' = 0 /\ active' = FALSE
  /\ paused' = FALSE /\ slot' = "free" /\ recorder' = "down"
  /\ UNCHANGED recordings
Restart ==
  /\ recorder = "down"
  /\ recorder' = "off" /\ at' = "idle"
  /\ UNCHANGED <<jobs, held, calls, active, paused, slot, recordings, faults>>
-----------------------------------------------------------------------------
Init ==
  /\ jobs = [j \in Jobs |-> Absent]
  /\ at = "idle" /\ held = 0 /\ calls = 0
  /\ active = FALSE /\ paused = FALSE /\ slot = "free"
  /\ recorder = "off" /\ recordings = 0 /\ faults = 0

WorkerStep == Poll \/ Claim \/ Activate \/ Load \/ CallEnds \/ Save \/ Fail \/ Tell
Clock == \E j \in Jobs: LeaseExpires(j) \/ CooldownEnds(j)
Next ==
  \/ \E m \in Meetings: Create(m)
  \/ WorkerStep \/ ClaimFails \/ EnterSlot \/ JobTimesOut
  \/ BeginRecording \/ WorkerStops \/ Requeue \/ EndRecording
  \/ \E user \in {"query", "title"}: OtherEnters(user)
  \/ OtherLeaves \/ Clock \/ Crash \/ Restart

Spec == Init /\ [][Next]_vars

\* The tasks of the loop and the clock go on, and a process is started again. Nobody has
\* to ask for minutes, to record or to end a recording, and the slot need not be given to
\* the worker while others want it.
FairSpec ==
  /\ Spec
  /\ WF_vars(WorkerStep) /\ WF_vars(EnterSlot) /\ WF_vars(JobTimesOut)
  /\ WF_vars(WorkerStops) /\ WF_vars(Requeue) /\ WF_vars(Restart)
  /\ \A j \in Jobs: WF_vars(LeaseExpires(j)) /\ WF_vars(CooldownEnds(j))
-----------------------------------------------------------------------------
(***************************************************************************)
(* Properties.                                                             *)
(***************************************************************************)
\* The variables have their types.
TypeOK ==
  /\ jobs \in [Jobs -> Rows]
  /\ at \in Working \cup {"down", "idle", "claiming", "claimed"}
  /\ held \in Jobs \cup {0} /\ calls \in 0 .. MaxCalls
  /\ active \in BOOLEAN /\ paused \in BOOLEAN
  /\ slot \in {"free", "minutes", "title", "query"}
  /\ recorder \in {"down", "off", "cancelling", "requeueing", "recording"}
  /\ recordings \in 0 .. MaxRecordings /\ faults \in 0 .. MaxFaults

\* The worker counts as active exactly while it can be cancelled with a job in its hands,
\* its model call is in the slot, and is one of at most MaxCalls.
WorkerShape ==
  /\ active <=> at \in Working
  /\ held # 0 <=> at \in Working \cup {"claimed"}
  /\ slot = "minutes" <=> at = "calling"
  /\ at = "loading" => calls = 0
  /\ at = "waiting" => calls < MaxCalls
  /\ recorder = "cancelling" => active /\ at # "calling"
  /\ recorder = "down" => at = "down"
\* A row has a lease exactly while it is generating.
LeaseFollows(row) == row.lease = "none" <=> row.status # "generating"
\* Nobody settles the job of the worker behind its back, only a recording requeues it.
HeldIsOpen ==
  at \in {"claimed", "loading", "waiting", "calling", "saving"} =>
    \/ jobs[held].status = "generating"
    \/ jobs[held].status = "queued" /\ recordings > 0

\* What requeue_for_recording decides on, the active flag and the workload in the slot, is
\* what the worker does, and the row of its job and the lease follow.
WorkerConsistent == WorkerShape /\ HeldIsOpen /\ \A j \in Jobs: LeaseFollows(jobs[j])

\* Automatic retries are bounded: claim_minutes counts every claim of a job, and only a
\* recording gives it one more.
AttemptsBounded ==
  MaxAttempts > 0 => \A j \in Jobs: jobs[j].attempts <= MaxAttempts + recordings

\* A meeting has a second open job only when the older one failed, a new one was asked
\* for, and the older one is retried.
SecondJobIsRetry ==
  \A j, k \in Jobs:
    j < k /\ jobs[j].of = jobs[k].of /\ Open(jobs[j]) /\ Open(jobs[k]) => jobs[j].attempts > 0

\* The queue in one invariant: the requeue decides on the truth, retries are bounded, and a
\* second open job is a retry.
QueueHonest == TypeOK /\ WorkerConsistent /\ AttemptsBounded /\ SecondJobIsRetry

\* Minutes that are stored stay stored, and a job that failed at its last attempt is left
\* to the user, whatever claims, requeues, late failures and restarts do.
Final(row) == \/ row.status = "completed"
              \/ row.status = "failed" /\ row.attempts >= MaxAttempts
FinalStays ==
  [][\A j \in Jobs: Final(jobs[j]) => /\ jobs'[j].status = jobs[j].status
                                      /\ jobs'[j].attempts = jobs[j].attempts]_vars

\* Once no meeting is recorded any more, every job is completed or failed in the end; one
\* that lost its worker at its last attempt is the exception, since it is never claimed.
Stranded(j) == jobs[j].status = "generating" /\ jobs[j].attempts >= MaxAttempts /\ held # j
JobsSettle ==
  <>[](recorder = "off") =>
    \A j \in Jobs: Open(jobs[j]) ~> (Final(jobs[j]) \/ Stranded(j))
=============================================================================
