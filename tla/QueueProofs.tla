----------------------------- MODULE QueueProofs -----------------------------
(***************************************************************************)
(* Proofs about two components whose properties are about queues.          *)
(*                                                                         *)
(* MinutesQueue, for any meetings, rows and limits.  RowsMove lists the    *)
(* ways a step can change a row; what is proved of rows (attempts, second  *)
(* jobs, final jobs) follows from it and from the few facts of the worker  *)
(* and the recorder in WorkerConsistent.                                   *)
(*                                                                         *)
(* UIRuntime, for any browsers, any queue sizes and any number of chunks   *)
(* and commands: the bounds of the queues and NothingIsOverheard, which    *)
(* is inductive once the values in the queues have their types.            *)
(***************************************************************************)
EXTENDS MinutesQueue, UIRuntime, SequenceTheorems, TLAPS

\* What a step of the worker, of the recorder or of the clock does to row j.
ClaimsRow(j) == at = "claiming" /\ Claimable(jobs[j]) /\ jobs'[j] = Claimed(jobs[j])
StoresRow(j) == at = "saving" /\ j = held /\ jobs'[j] = Stored(jobs[j])
FailsRow(j) == at = "failing" /\ j = held /\ jobs'[j] = Failed(jobs[j])
RequeuesRow(j) ==
  recorder = "requeueing" /\ recorder' = "recording" /\ jobs'[j] = Requeued(jobs[j])
AddsRow(j) ==
  /\ jobs[j].status = "none"
  /\ \E m \in Meetings: /\ \A k \in Jobs: jobs[k].of = m => ~Open(jobs[k])
                        /\ jobs'[j] = [Absent EXCEPT !.of = m, !.status = "queued"]
  /\ \A k \in Jobs: (k < j => jobs[k].status # "none") /\ (k # j => jobs'[k] = jobs[k])
AgesRow(j) ==
  \/ jobs[j].lease = "held" /\ jobs'[j] = [jobs[j] EXCEPT !.lease = "expired"]
  \/ jobs[j].status = "failed" /\ jobs'[j] = [jobs[j] EXCEPT !.cooled = TRUE]
MovesRow(j) ==
  \/ jobs'[j] = jobs[j]
  \/ ClaimsRow(j) \/ StoresRow(j) \/ FailsRow(j) \/ RequeuesRow(j) \/ AddsRow(j) \/ AgesRow(j)

\* A recording is under way.
Recording == recorder \in {"cancelling", "requeueing", "recording"}
RecordingCounted == Recording => recordings > 0

\* The statements yield rows.
LEMMA RowTypes ==
  ASSUME NEW row \in Rows
  PROVE  /\ Claimed(row) \in Rows /\ Stored(row) \in Rows /\ Failed(row) \in Rows
         /\ Requeued(row) \in Rows
         /\ [row EXCEPT !.lease = "expired"] \in Rows /\ [row EXCEPT !.cooled = TRUE] \in Rows
         /\ \A m \in Meetings: [Absent EXCEPT !.of = m, !.status = "queued"] \in Rows
<1>1. Claimed(row) \in Rows /\ Stored(row) \in Rows
  <2>1. row.attempts \in Nat /\ row.attempts + 1 \in Nat
    BY DEF Rows
  <2>2. Claimed(row) \in Rows
    BY <2>1 DEF Rows, Statuses, Claimed
  <2>3. Stored(row) \in Rows
    BY DEF Rows, Statuses, Stored
  <2> QED
    BY <2>2, <2>3
<1>2. Failed(row) \in Rows /\ Requeued(row) \in Rows
  BY DEF Rows, Statuses, Failed, Requeued
<1>3. [row EXCEPT !.lease = "expired"] \in Rows /\ [row EXCEPT !.cooled = TRUE] \in Rows
  BY DEF Rows
<1>4. \A m \in Meetings: [Absent EXCEPT !.of = m, !.status = "queued"] \in Rows
  BY DEF Rows, Statuses, Absent
<1> QED
  BY <1>1, <1>2, <1>3, <1>4

\* A database call that is cut off has done nothing, or the one thing it was for.
LEMMA CutOffDoes ==
  ASSUME TypeOK, NEW after \in CutOff
  PROVE  \/ after = jobs
         \/ at = "claiming" /\ \E j \in Jobs: Claimable(jobs[j]) /\ after = With(j, Claimed(jobs[j]))
         \/ at = "saving" /\ after = With(held, Stored(jobs[held]))
         \/ at = "failing" /\ after = With(held, Failed(jobs[held]))
<1>1. CASE at = "claiming"
  BY <1>1 DEF CutOff, First
<1>2. CASE at = "saving"
  BY <1>2 DEF CutOff
<1>3. CASE at = "failing"
  BY <1>3 DEF CutOff
<1>4. CASE at \notin {"claiming", "saving", "failing"}
  <2>1. CutOff = {jobs} \cup {}
    BY <1>4 DEF CutOff
  <2> QED
    BY <2>1
<1> QED
  BY <1>1, <1>2, <1>3, <1>4

LEMMA CutOffMoves ==
  ASSUME TypeOK, WorkerConsistent, jobs' \in CutOff
  PROVE  jobs' \in [Jobs -> Rows] /\ \A j \in Jobs: MovesRow(j)
<1>1. CASE jobs' = jobs
  BY <1>1 DEF TypeOK, MovesRow
<1>2. CASE at = "claiming" /\ \E j \in Jobs: Claimable(jobs[j]) /\ jobs' = With(j, Claimed(jobs[j]))
  <2>1. PICK j \in Jobs: Claimable(jobs[j]) /\ jobs' = With(j, Claimed(jobs[j]))
    BY <1>2
  <2>2. Claimed(jobs[j]) \in Rows
    BY RowTypes DEF TypeOK
  <2> QED
    BY <1>2, <2>1, <2>2 DEF TypeOK, MovesRow, ClaimsRow, With
<1>3. CASE at = "saving" /\ jobs' = With(held, Stored(jobs[held]))
  <2>1. held \in Jobs
    BY <1>3 DEF TypeOK, WorkerConsistent, WorkerShape, Working
  <2>2. Stored(jobs[held]) \in Rows
    BY <2>1, RowTypes DEF TypeOK
  <2> QED
    BY <1>3, <2>1, <2>2 DEF TypeOK, MovesRow, StoresRow, With
<1>4. CASE at = "failing" /\ jobs' = With(held, Failed(jobs[held]))
  <2>1. held \in Jobs
    BY <1>4 DEF TypeOK, WorkerConsistent, WorkerShape, Working
  <2>2. Failed(jobs[held]) \in Rows
    BY <2>1, RowTypes DEF TypeOK
  <2> QED
    BY <1>4, <2>1, <2>2 DEF TypeOK, MovesRow, FailsRow, With
<1> QED
  BY CutOffDoes, <1>1, <1>2, <1>3, <1>4

\* The ways a step can change the rows.
LEMMA RowsMove ==
  ASSUME TypeOK, WorkerConsistent, [Next]_vars
  PROVE  jobs' \in [Jobs -> Rows] /\ \A j \in Jobs: MovesRow(j)
<1>1. ASSUME UNCHANGED jobs PROVE jobs' \in [Jobs -> Rows] /\ \A j \in Jobs: MovesRow(j)
  BY <1>1 DEF TypeOK, MovesRow
<1>2. ASSUME NEW m \in Meetings, Create(m)
      PROVE  jobs' \in [Jobs -> Rows] /\ \A j \in Jobs: MovesRow(j)
  <2>1. PICK j \in Jobs: /\ jobs[j].status = "none" /\ \A k \in Jobs: k < j => jobs[k].status # "none"
                         /\ jobs' = With(j, [Absent EXCEPT !.of = m, !.status = "queued"])
    BY <1>2 DEF Create
  <2>2. [Absent EXCEPT !.of = m, !.status = "queued"] \in Rows
    BY DEF Rows, Statuses, Absent
  <2>3. \A k \in Jobs: jobs[k].of = m => ~Open(jobs[k])
    BY <1>2 DEF Create
  <2>4. jobs' \in [Jobs -> Rows] /\ \A k \in Jobs: k # j => jobs'[k] = jobs[k]
    BY <2>1, <2>2 DEF TypeOK, With
  <2>5. jobs'[j] = [Absent EXCEPT !.of = m, !.status = "queued"]
    BY <2>1 DEF TypeOK, With
  <2>6. AddsRow(j)
    BY <2>1, <2>3, <2>4, <2>5 DEF AddsRow
  <2> QED
    BY <2>4, <2>6 DEF MovesRow
<1>3. ASSUME jobs' \in CutOff PROVE jobs' \in [Jobs -> Rows] /\ \A j \in Jobs: MovesRow(j)
  BY <1>3, CutOffMoves
<1>4. CASE Claim
  <2>1. CASE UNCHANGED jobs
    BY <2>1, <1>1
  <2>2. CASE \E j \in Jobs: First(j) /\ jobs' = With(j, Claimed(jobs[j]))
    <3>1. PICK j \in Jobs: First(j) /\ jobs' = With(j, Claimed(jobs[j]))
      BY <2>2
    <3>2. Claimed(jobs[j]) \in Rows
      BY RowTypes DEF TypeOK
    <3> QED
      BY <1>4, <3>1, <3>2 DEF Claim, First, TypeOK, MovesRow, ClaimsRow, With
  <2> QED
    BY <1>4, <2>1, <2>2 DEF Claim
<1>5. CASE Save
  <2>1. CASE jobs' = With(held, Stored(jobs[held]))
    <3>1. held \in Jobs /\ at = "saving"
      BY <1>5 DEF Save, TypeOK, WorkerConsistent, WorkerShape, Working
    <3>2. Stored(jobs[held]) \in Rows
      BY <3>1, RowTypes DEF TypeOK
    <3> QED
      BY <2>1, <3>1, <3>2 DEF TypeOK, MovesRow, StoresRow, With
  <2> QED
    BY <1>3, <1>5, <2>1 DEF Save
<1>6. CASE Fail
  <2>1. CASE jobs' = With(held, Failed(jobs[held]))
    <3>1. held \in Jobs /\ at = "failing"
      BY <1>6 DEF Fail, TypeOK, WorkerConsistent, WorkerShape, Working
    <3>2. Failed(jobs[held]) \in Rows
      BY <3>1, RowTypes DEF TypeOK
    <3> QED
      BY <2>1, <3>1, <3>2 DEF TypeOK, MovesRow, FailsRow, With
  <2> QED
    BY <1>3, <1>6, <2>1 DEF Fail
<1>7. CASE Requeue
  <2>1. CASE jobs' = [j \in Jobs |-> Requeued(jobs[j])]
    <3>1. \A j \in Jobs: Requeued(jobs[j]) \in Rows
      BY RowTypes DEF TypeOK
    <3>2. jobs' \in [Jobs -> Rows] /\ \A j \in Jobs: jobs'[j] = Requeued(jobs[j])
      BY <2>1, <3>1
    <3> QED
      BY <1>7, <3>2 DEF Requeue, MovesRow, RequeuesRow
  <2> QED
    BY <1>1, <1>7, <2>1 DEF Requeue
<1>8. ASSUME NEW j \in Jobs, LeaseExpires(j) \/ CooldownEnds(j)
      PROVE  jobs' \in [Jobs -> Rows] /\ \A i \in Jobs: MovesRow(i)
  <2>1. jobs[j] \in Rows
    BY DEF TypeOK
  <2>2. /\ [jobs[j] EXCEPT !.lease = "expired"] \in Rows
        /\ [jobs[j] EXCEPT !.cooled = TRUE] \in Rows
    BY <2>1, RowTypes
  <2>3. CASE LeaseExpires(j)
    BY <2>2, <2>3 DEF LeaseExpires, TypeOK, MovesRow, AgesRow, With
  <2>4. CASE CooldownEnds(j)
    BY <2>2, <2>4 DEF CooldownEnds, TypeOK, MovesRow, AgesRow, With
  <2> QED
    BY <1>8, <2>3, <2>4
<1>9. CASE ClaimFails
  BY <1>3, <1>9 DEF ClaimFails
<1>10. CASE WorkerStops
  BY <1>3, <1>10 DEF WorkerStops
<1>11. CASE Crash
  BY <1>3, <1>11 DEF Crash
<1>12. CASE Poll \/ Activate \/ Load \/ CallEnds \/ Tell \/ EnterSlot \/ JobTimesOut
  BY <1>1, <1>12 DEF Poll, Activate, Load, CallEnds, Tell, EnterSlot, JobTimesOut
<1>13. CASE \/ BeginRecording \/ EndRecording \/ OtherLeaves \/ Restart \/ UNCHANGED vars
            \/ \E user \in {"query", "title"}: OtherEnters(user)
  BY <1>1, <1>13 DEF BeginRecording, EndRecording, OtherLeaves, Restart, OtherEnters, vars
<1> QED
  BY <1>2, <1>4, <1>5, <1>6, <1>7, <1>8, <1>9, <1>10, <1>11, <1>12, <1>13 DEF Next, WorkerStep, Clock
-----------------------------------------------------------------------------
\* The variables other than the rows have their types.
LEMMA TypeKept ==
  ASSUME TypeOK, WorkerConsistent, [Next]_vars
  PROVE  TypeOK'
<1>1. jobs' \in [Jobs -> Rows]
  BY RowsMove
<1> USE LimitsAssumption
<1>2. Spend => faults' \in 0 .. MaxFaults
  BY DEF Spend, TypeOK
<1>3. ASSUME NEW m \in Meetings, Create(m) PROVE TypeOK'
  BY <1>1, <1>3 DEF Create, TypeOK
<1>4. CASE Poll
  BY <1>1, <1>4 DEF Poll, TypeOK, WorkerConsistent, WorkerShape, Working
<1>5. CASE Claim
  BY <1>1, <1>5 DEF Claim, TypeOK, WorkerConsistent, WorkerShape, Working
<1>6. CASE ClaimFails
  BY <1>1, <1>2, <1>6 DEF ClaimFails, TypeOK, WorkerConsistent, WorkerShape, Working
<1>7. CASE Activate
  BY <1>1, <1>7 DEF Activate, TypeOK, WorkerConsistent, WorkerShape, Working
<1>8. CASE Load
  BY <1>1, <1>2, <1>8 DEF Load, TypeOK, WorkerConsistent, WorkerShape, Working
<1>9. CASE EnterSlot
  BY <1>1, <1>9 DEF EnterSlot, TypeOK, WorkerConsistent, WorkerShape, Working
<1>10. CASE CallEnds
  BY <1>1, <1>10 DEF CallEnds, TypeOK, WorkerConsistent, WorkerShape, Working
<1>11. CASE JobTimesOut
  BY <1>1, <1>11 DEF JobTimesOut, TypeOK, WorkerConsistent, WorkerShape, Working
<1>12. CASE Save
  BY <1>1, <1>2, <1>12 DEF Save, TypeOK, WorkerConsistent, WorkerShape, Working
<1>13. CASE Fail
  BY <1>1, <1>2, <1>13 DEF Fail, TypeOK, WorkerConsistent, WorkerShape, Working
<1>14. CASE Tell
  <2>1. at' \in {"down", "idle"} /\ held' = 0 /\ calls' = 0
    BY <1>14 DEF Tell
  <2>2. held' \in Jobs \cup {0} /\ calls' \in 0 .. MaxCalls
    BY <2>1
  <2> QED
    BY <1>1, <1>14, <2>1, <2>2 DEF Tell, TypeOK
<1>15. CASE BeginRecording
  BY <1>1, <1>15 DEF BeginRecording, TypeOK, WorkerConsistent, WorkerShape, Working
<1>16. CASE WorkerStops
  <2>1. at' \in {"down", "idle"} /\ held' = 0 /\ calls' = 0
    BY <1>16 DEF WorkerStops
  <2>2. held' \in Jobs \cup {0} /\ calls' \in 0 .. MaxCalls
    BY <2>1
  <2> QED
    BY <1>1, <1>16, <2>1, <2>2 DEF WorkerStops, TypeOK
<1>17. CASE Requeue
  BY <1>1, <1>2, <1>17 DEF Requeue, TypeOK, WorkerConsistent, WorkerShape, Working
<1>18. CASE EndRecording
  BY <1>1, <1>18 DEF EndRecording, TypeOK, WorkerConsistent, WorkerShape, Working
<1>19. CASE OtherLeaves
  BY <1>1, <1>19 DEF OtherLeaves, TypeOK, WorkerConsistent, WorkerShape, Working
<1>20. CASE Crash
  <2>1. at' \in {"down", "idle"} /\ held' = 0 /\ calls' = 0
    BY <1>20 DEF Crash
  <2>2. held' \in Jobs \cup {0} /\ calls' \in 0 .. MaxCalls
    BY <2>1
  <2> QED
    BY <1>1, <1>2, <1>20, <2>1, <2>2 DEF Crash, TypeOK
<1>21. CASE Restart
  BY <1>1, <1>21 DEF Restart, TypeOK, WorkerConsistent, WorkerShape, Working
<1>22. ASSUME NEW user \in {"query", "title"}, OtherEnters(user) PROVE TypeOK'
  BY <1>1, <1>22 DEF OtherEnters, TypeOK
<1>23. CASE Clock \/ UNCHANGED vars
  BY <1>1, <1>23 DEF Clock, LeaseExpires, CooldownEnds, vars, TypeOK
<1> QED
  BY <1>3, <1>4, <1>5, <1>6, <1>7, <1>8, <1>9, <1>10, <1>11, <1>12, <1>13, <1>14, <1>15, <1>16, <1>17, <1>18, <1>19, <1>20, <1>21, <1>22, <1>23 DEF Next, WorkerStep
-----------------------------------------------------------------------------
LEMMA ShapeKept ==
  ASSUME TypeOK, WorkerConsistent, [Next]_vars
  PROVE  WorkerShape'
<1> USE LimitsAssumption
<1>1. WorkerShape
  BY DEF WorkerConsistent
<1>2. ASSUME NEW m \in Meetings, Create(m) PROVE WorkerShape'
  BY <1>1, <1>2 DEF Create, WorkerShape
<1>3. CASE Poll
  BY <1>1, <1>3 DEF Poll, Runs, TypeOK, WorkerShape, Working
<1>4. CASE Claim
  BY <1>1, <1>4 DEF Claim, Runs, Jobs, TypeOK, WorkerShape, Working
<1>5. CASE ClaimFails
  BY <1>1, <1>5 DEF ClaimFails, Runs, TypeOK, WorkerShape, Working
<1>6. CASE Activate
  BY <1>1, <1>6 DEF Activate, Runs, TypeOK, WorkerShape, Working
<1>7. CASE Load
  BY <1>1, <1>7 DEF Load, Runs, TypeOK, WorkerShape, Working
<1>8. CASE EnterSlot
  BY <1>1, <1>8 DEF EnterSlot, Runs, TypeOK, WorkerShape, Working
<1>9. CASE CallEnds
  BY <1>1, <1>9 DEF CallEnds, Runs, TypeOK, WorkerShape, Working
<1>10. CASE JobTimesOut
  BY <1>1, <1>10 DEF JobTimesOut, Runs, TypeOK, WorkerShape, Working
<1>11. CASE Save
  BY <1>1, <1>11 DEF Save, Runs, TypeOK, WorkerShape, Working
<1>12. CASE Fail
  BY <1>1, <1>12 DEF Fail, Runs, TypeOK, WorkerShape, Working
<1>13. CASE Tell
  BY <1>1, <1>13 DEF Tell, Runs, TypeOK, WorkerShape, Working
<1>14. CASE BeginRecording
  BY <1>1, <1>14 DEF BeginRecording, Runs, TypeOK, WorkerShape, Working
<1>15. CASE WorkerStops
  BY <1>1, <1>15 DEF WorkerStops, Runs, TypeOK, WorkerShape, Working
<1>16. CASE Requeue
  BY <1>1, <1>16 DEF Requeue, Runs, TypeOK, WorkerShape, Working
<1>17. CASE EndRecording
  BY <1>1, <1>17 DEF EndRecording, Runs, TypeOK, WorkerShape, Working
<1>18. CASE OtherLeaves
  BY <1>1, <1>18 DEF OtherLeaves, Runs, TypeOK, WorkerShape, Working
<1>19. CASE Crash
  BY <1>1, <1>19 DEF Crash, Runs, TypeOK, WorkerShape, Working
<1>20. CASE Restart
  BY <1>1, <1>20 DEF Restart, Runs, TypeOK, WorkerShape, Working
<1>21. ASSUME NEW user \in {"query", "title"}, OtherEnters(user) PROVE WorkerShape'
  BY <1>1, <1>21 DEF OtherEnters, WorkerShape
<1>22. CASE Clock
  BY <1>1, <1>22 DEF Clock, LeaseExpires, CooldownEnds, WorkerShape
<1>23. CASE UNCHANGED vars
  BY <1>1, <1>23 DEF vars, WorkerShape
<1> QED
  BY <1>2, <1>3, <1>4, <1>5, <1>6, <1>7, <1>8, <1>9, <1>10, <1>11, <1>12, <1>13, <1>14, <1>15, <1>16, <1>17, <1>18, <1>19, <1>20, <1>21, <1>22, <1>23 DEF Next, WorkerStep

LEMMA LeasesKept ==
  ASSUME TypeOK, WorkerConsistent, [Next]_vars
  PROVE  \A j \in Jobs: LeaseFollows(jobs'[j])
<1> SUFFICES ASSUME NEW j \in Jobs PROVE LeaseFollows(jobs'[j])
  OBVIOUS
<1>1. jobs[j] \in Rows /\ LeaseFollows(jobs[j]) /\ MovesRow(j)
  BY RowsMove DEF TypeOK, WorkerConsistent
<1>2. CASE jobs'[j] = jobs[j]
  BY <1>1, <1>2
<1>3. CASE ClaimsRow(j)
  BY <1>1, <1>3 DEF ClaimsRow, Claimed, Rows, LeaseFollows
<1>4. CASE StoresRow(j)
  BY <1>1, <1>4 DEF StoresRow, Stored, Rows, LeaseFollows
<1>5. CASE FailsRow(j)
  BY <1>1, <1>5 DEF FailsRow, Failed, Open, Rows, LeaseFollows
<1>6. CASE RequeuesRow(j)
  BY <1>1, <1>6 DEF RequeuesRow, Requeued, Rows, LeaseFollows
<1>7. CASE AddsRow(j)
  BY <1>7 DEF AddsRow, Absent, LeaseFollows
<1>8. CASE AgesRow(j)
  BY <1>1, <1>8 DEF AgesRow, Rows, LeaseFollows
<1> QED
  BY <1>1, <1>2, <1>3, <1>4, <1>5, <1>6, <1>7, <1>8 DEF MovesRow

\* Where the job of the worker is open.
Holding == {"claimed", "loading", "waiting", "calling", "saving"}

\* The steps of the recorder; nothing else moves it.
LEMMA RecorderSteps ==
  ASSUME [Next]_vars
  PROVE  \/ BeginRecording \/ WorkerStops \/ Requeue \/ EndRecording \/ Crash \/ Restart
         \/ UNCHANGED <<recorder, recordings>>
<1>1. ASSUME NEW m \in Meetings, Create(m) PROVE UNCHANGED <<recorder, recordings>>
  BY <1>1 DEF Create
<1>2. WorkerStep \/ ClaimFails \/ EnterSlot \/ JobTimesOut => UNCHANGED <<recorder, recordings>>
  BY DEF WorkerStep, Poll, Claim, Activate, Load, CallEnds, Save, Fail, Tell, ClaimFails,
         EnterSlot, JobTimesOut
<1>3. OtherLeaves \/ Clock \/ UNCHANGED vars => UNCHANGED <<recorder, recordings>>
  BY DEF OtherLeaves, Clock, LeaseExpires, CooldownEnds, vars
<1>4. ASSUME NEW user \in {"query", "title"}, OtherEnters(user)
      PROVE  UNCHANGED <<recorder, recordings>>
  BY <1>4 DEF OtherEnters
<1> QED
  BY <1>1, <1>2, <1>3, <1>4 DEF Next

LEMMA RecordingsCounted ==
  ASSUME TypeOK, RecordingCounted, [Next]_vars
  PROVE  RecordingCounted'
<1>1. recordings \in Nat
  BY LimitsAssumption DEF TypeOK
<1>2. CASE BeginRecording
  BY <1>1, <1>2 DEF BeginRecording, RecordingCounted
<1>3. CASE WorkerStops \/ Requeue
  BY <1>3 DEF WorkerStops, Requeue, RecordingCounted, Recording
<1>4. CASE EndRecording \/ Crash \/ Restart
  BY <1>4 DEF EndRecording, Crash, Restart, RecordingCounted, Recording
<1>5. CASE UNCHANGED <<recorder, recordings>>
  BY <1>5 DEF RecordingCounted, Recording
<1> QED
  BY <1>2, <1>3, <1>4, <1>5, RecorderSteps

LEMMA HeldKept ==
  ASSUME TypeOK, WorkerConsistent, RecordingCounted, [Next]_vars
  PROVE  HeldIsOpen'
<1>1. HeldIsOpen /\ WorkerShape
  BY DEF WorkerConsistent
<1>2. recordings \in Nat
  BY LimitsAssumption DEF TypeOK
<1>4. CASE UNCHANGED <<jobs, held, recordings>> /\ (at' \in Holding => at \in Holding)
  BY <1>1, <1>4 DEF HeldIsOpen, Holding
<1>5. CASE at' \notin Holding
  BY <1>5 DEF HeldIsOpen, Holding
<1>6. CASE Claim
  <2>1. CASE UNCHANGED <<jobs, held>> /\ at' = "idle"
    BY <2>1, <1>5 DEF Holding
  <2>2. ASSUME NEW j \in Jobs, jobs' = With(j, Claimed(jobs[j])), held' = j PROVE HeldIsOpen'
    <3>1. jobs'[held'] = Claimed(jobs[j]) /\ jobs[j] \in Rows
      BY <2>2 DEF TypeOK, With
    <3>2. jobs'[held'].status = "generating"
      BY <3>1 DEF Claimed, Rows
    <3> QED
      BY <3>2 DEF HeldIsOpen
  <2> QED
    BY <1>6, <2>1, <2>2 DEF Claim
<1>7. CASE BeginRecording
  BY <1>1, <1>2, <1>7 DEF BeginRecording, HeldIsOpen
<1>8. at \in Holding =>
        /\ held \in Jobs /\ jobs[held] \in Rows
        /\ jobs[held].status = "generating" \/ (jobs[held].status = "queued" /\ recordings > 0)
  <2>1. SUFFICES ASSUME at \in Holding
                 PROVE  /\ held \in Jobs /\ jobs[held] \in Rows
                        /\ jobs[held].status = "generating" \/ (jobs[held].status = "queued" /\ recordings > 0)
    OBVIOUS
  <2>2. held \in Jobs
    BY <1>1, <2>1 DEF WorkerShape, Working, Holding, TypeOK
  <2>3. jobs[held].status = "generating" \/ (jobs[held].status = "queued" /\ recordings > 0)
    BY <1>1, <2>1 DEF Holding, HeldIsOpen
  <2> QED
    BY <2>2, <2>3 DEF TypeOK
<1>9. CASE Requeue
  <2>1. recordings > 0 /\ UNCHANGED <<at, held, recordings>>
    BY <1>9 DEF Requeue, RecordingCounted, Recording
  <2>2. CASE jobs' = [j \in Jobs |-> Requeued(jobs[j])]
    <3>1. at \in Holding => jobs'[held] = Requeued(jobs[held])
      BY <1>8, <2>2
    <3> QED
      BY <1>8, <2>1, <3>1 DEF Requeued, Rows, HeldIsOpen, Holding
  <2> QED
    BY <1>4, <1>9, <2>1, <2>2 DEF Requeue
<1>10. ASSUME NEW m \in Meetings, Create(m) PROVE HeldIsOpen'
  <2>1. PICK j \in Jobs: /\ jobs[j].status = "none"
                        /\ jobs' = With(j, [Absent EXCEPT !.of = m, !.status = "queued"])
    BY <1>10 DEF Create
  <2>2. at \in Holding => jobs'[held] = jobs[held]
    BY <1>8, <2>1 DEF TypeOK, With
  <2> QED
    BY <1>8, <1>10, <2>2 DEF Create, HeldIsOpen, Holding
<1>11. ASSUME NEW j \in Jobs, LeaseExpires(j) \/ CooldownEnds(j) PROVE HeldIsOpen'
  <2>1. at \in Holding => jobs'[held].status = jobs[held].status
    BY <1>8, <1>11 DEF LeaseExpires, CooldownEnds, With, TypeOK, Rows
  <2> QED
    BY <1>8, <1>11, <2>1 DEF LeaseExpires, CooldownEnds, HeldIsOpen, Holding
<1>12. CASE Poll \/ Activate \/ Load \/ EnterSlot \/ CallEnds \/ JobTimesOut
  BY <1>4, <1>5, <1>12 DEF Poll, Activate, Load, EnterSlot, CallEnds, JobTimesOut, Holding
<1>13. CASE ClaimFails \/ Save \/ Fail \/ Tell \/ WorkerStops \/ Crash \/ Restart
  BY <1>5, <1>13 DEF ClaimFails, Save, Fail, Tell, WorkerStops, Crash, Restart, Holding
<1>14. CASE EndRecording
  BY <1>4, <1>14 DEF EndRecording, Holding
<1>15. CASE OtherLeaves \/ UNCHANGED vars \/ \E user \in {"query", "title"}: OtherEnters(user)
  BY <1>4, <1>15 DEF OtherLeaves, OtherEnters, vars, Holding
<1> QED
  BY <1>6, <1>7, <1>9, <1>10, <1>11, <1>12, <1>13, <1>14, <1>15 DEF Next, WorkerStep, Clock

-----------------------------------------------------------------------------
(***************************************************************************)
(* The attempts of a job.                                                  *)
(***************************************************************************)
\* The attempts the limit and the recordings allow; a recording grants its one when it has
\* put the jobs back.
Granted == MaxAttempts + recordings - (IF recorder \in {"cancelling", "requeueing"} THEN 1 ELSE 0)
AttemptsGranted ==
  MaxAttempts > 0 =>
    \A j \in Jobs: /\ jobs[j].attempts <= Granted
                   /\ jobs[j].status \in {"none", "queued"} => jobs[j].attempts < Granted

\* The grant never shrinks, and grows with a requeue.
LEMMA GrantGrows ==
  ASSUME TypeOK, WorkerConsistent, RecordingCounted, [Next]_vars
  PROVE  /\ Granted \in Int /\ Granted' \in Int /\ Granted' >= Granted
         /\ recorder = "requeueing" /\ recorder' = "recording" => Granted' > Granted
         /\ MaxAttempts <= Granted
<1>1. recordings \in Nat /\ MaxAttempts \in Nat /\ recordings' \in Nat
  BY TypeKept, LimitsAssumption DEF TypeOK
<1>2. CASE BeginRecording
  BY <1>1, <1>2 DEF BeginRecording, Granted
<1>3. CASE WorkerStops \/ Requeue
  BY <1>1, <1>3 DEF WorkerStops, Requeue, Granted, RecordingCounted, Recording
<1>4. CASE EndRecording \/ Restart
  <2>1. recordings' = recordings /\ recorder' = "off" /\ recorder \in {"recording", "down"}
    BY <1>4 DEF EndRecording, Restart
  <2> QED
    BY <1>1, <2>1 DEF Granted
<1>5. CASE Crash
  <2>1. recordings' = recordings /\ recorder' = "down"
    BY <1>5 DEF Crash
  <2> QED
    BY <1>1, <2>1 DEF Granted, RecordingCounted, Recording
<1>6. CASE UNCHANGED <<recorder, recordings>>
  BY <1>1, <1>6 DEF Granted, RecordingCounted, Recording
<1> QED
  BY <1>2, <1>3, <1>4, <1>5, <1>6, RecorderSteps

LEMMA AttemptsKept ==
  ASSUME TypeOK, WorkerConsistent, RecordingCounted, AttemptsGranted, [Next]_vars
  PROVE  AttemptsGranted'
<1> SUFFICES ASSUME MaxAttempts > 0, NEW j \in Jobs
             PROVE  /\ jobs'[j].attempts <= Granted'
                    /\ jobs'[j].status \in {"none", "queued"} => jobs'[j].attempts < Granted'
  BY DEF AttemptsGranted
<1>1. /\ jobs[j] \in Rows /\ jobs[j].attempts \in Nat /\ MovesRow(j)
      /\ jobs[j].attempts <= Granted
      /\ jobs[j].status \in {"none", "queued"} => jobs[j].attempts < Granted
  <2>1. jobs[j] \in Rows /\ MovesRow(j)
    BY RowsMove DEF TypeOK
  <2>2. jobs[j].attempts \in Nat
    BY <2>1 DEF Rows
  <2>3. /\ jobs[j].attempts <= Granted
        /\ jobs[j].status \in {"none", "queued"} => jobs[j].attempts < Granted
    BY DEF AttemptsGranted
  <2> QED
    BY <2>1, <2>2, <2>3
<1>2. /\ Granted \in Int /\ Granted' \in Int /\ Granted' >= Granted /\ MaxAttempts <= Granted
      /\ recorder = "requeueing" /\ recorder' = "recording" => Granted' > Granted
  BY GrantGrows
<1>3. CASE jobs'[j] = jobs[j]
  BY <1>1, <1>2, <1>3
<1>4. CASE ClaimsRow(j)
  <2>1. jobs'[j].attempts = jobs[j].attempts + 1 /\ jobs'[j].status = "generating"
    BY <1>1, <1>4 DEF ClaimsRow, Claimed, Rows
  <2>2. jobs[j].attempts < Granted
    BY <1>1, <1>2, <1>4, LimitsAssumption DEF ClaimsRow, Claimable
  <2> QED
    BY <1>1, <1>2, <2>1, <2>2
<1>5. CASE StoresRow(j)
  <2>1. jobs'[j].attempts = jobs[j].attempts /\ jobs'[j].status \in {jobs[j].status, "completed"}
    BY <1>1, <1>5 DEF StoresRow, Stored, Rows
  <2> QED
    BY <1>1, <1>2, <2>1
<1>6. CASE FailsRow(j)
  <2>1. jobs'[j].attempts = jobs[j].attempts /\ jobs'[j].status \in {jobs[j].status, "failed"}
    BY <1>1, <1>6 DEF FailsRow, Failed, Rows
  <2> QED
    BY <1>1, <1>2, <2>1
<1>7. CASE RequeuesRow(j)
  <2>1. jobs'[j].attempts = jobs[j].attempts /\ Granted' > Granted
    BY <1>1, <1>2, <1>7 DEF RequeuesRow, Requeued, Rows
  <2> QED
    BY <1>1, <1>2, <2>1
<1>8. CASE AddsRow(j)
  <2>1. jobs'[j].attempts = 0
    BY <1>8 DEF AddsRow, Absent
  <2> QED
    BY <1>2, <2>1, LimitsAssumption
<1>9. CASE AgesRow(j)
  <2>1. jobs'[j].attempts = jobs[j].attempts /\ jobs'[j].status = jobs[j].status
    BY <1>1, <1>9 DEF AgesRow, Rows
  <2> QED
    BY <1>1, <1>2, <2>1
<1> QED
  BY <1>1, <1>3, <1>4, <1>5, <1>6, <1>7, <1>8, <1>9 DEF MovesRow
-----------------------------------------------------------------------------
(***************************************************************************)
(* Second jobs of a meeting.                                               *)
(***************************************************************************)
\* Only a job that was never claimed has no attempt, and it is queued, and nobody holds it.
Unclaimed(row) == row.status \in {"none", "queued"}
ClaimsCounted == \A j \in Jobs: jobs[j].attempts > 0 \/ (Unclaimed(jobs[j]) /\ held # j)
\* Rows are used in order, and only those have a meeting.
InOrder ==
  \A j \in Jobs: /\ jobs[j].status = "none" <=> jobs[j].of = NoMeeting
                 /\ jobs[j].status = "none" => jobs[j].attempts = 0
                 /\ jobs[j].status = "none" => \A k \in Jobs: j < k => jobs[k].status = "none"
\* A meeting gets another job only when the older one was claimed.
OlderClaimed ==
  \A j, k \in Jobs:
    j < k /\ jobs[j].of = jobs[k].of /\ jobs[k].status # "none" => jobs[j].attempts > 0
OldestFirst == ClaimsCounted /\ InOrder /\ OlderClaimed

\* The worker takes a job in its hands by claiming it, and in no other way.
LEMMA HeldChanges ==
  ASSUME TypeOK, [Next]_vars
  PROVE  held' = held \/ held' = 0 \/ (held' \in Jobs /\ ClaimsRow(held'))
<1>1. CASE Claim
  <2>1. CASE held' = held
    BY <2>1
  <2>2. ASSUME NEW j \in Jobs, First(j), jobs' = With(j, Claimed(jobs[j])), held' = j
        PROVE  held' \in Jobs /\ ClaimsRow(held')
    <3>1. jobs'[j] = Claimed(jobs[j])
      BY <2>2 DEF TypeOK, With
    <3> QED
      BY <1>1, <2>2, <3>1 DEF Claim, First, ClaimsRow
  <2> QED
    BY <1>1, <2>1, <2>2 DEF Claim
<1>2. CASE Poll \/ Activate \/ Load \/ CallEnds \/ Save \/ Fail \/ Tell \/ ClaimFails \/ EnterSlot \/ JobTimesOut
  BY <1>2 DEF Poll, Activate, Load, CallEnds, Save, Fail, Tell, ClaimFails, EnterSlot, JobTimesOut
<1>3. CASE BeginRecording \/ WorkerStops \/ Requeue \/ EndRecording \/ OtherLeaves \/ Crash \/ Restart
  BY <1>3 DEF BeginRecording, WorkerStops, Requeue, EndRecording, OtherLeaves, Crash, Restart
<1>4. ASSUME NEW m \in Meetings, Create(m) PROVE held' = held
  BY <1>4 DEF Create
<1>5. ASSUME NEW user \in {"query", "title"}, OtherEnters(user) PROVE held' = held
  BY <1>5 DEF OtherEnters
<1>6. Clock \/ UNCHANGED vars => held' = held
  BY DEF Clock, LeaseExpires, CooldownEnds, vars
<1> QED
  BY <1>1, <1>2, <1>3, <1>4, <1>5, <1>6 DEF Next, WorkerStep

\* What a row keeps, whatever moves it: its meeting, its existence, its attempts or more.
LEMMA RowKeeps ==
  ASSUME NEW j \in Jobs, jobs[j] \in Rows, MovesRow(j), ~AddsRow(j)
  PROVE  /\ jobs'[j].of = jobs[j].of
         /\ jobs'[j].status = "none" <=> jobs[j].status = "none"
         /\ jobs'[j].attempts >= jobs[j].attempts
         /\ jobs[j].status = "none" => jobs'[j].attempts = jobs[j].attempts
         /\ ClaimsRow(j) => jobs'[j].attempts > 0
         /\ ~Unclaimed(jobs'[j]) => \/ ~Unclaimed(jobs[j]) \/ ClaimsRow(j)
                                    \/ (j = held /\ jobs[j].status = "queued")
<1>1. jobs[j].attempts \in Nat
  BY DEF Rows
<1>2. CASE jobs'[j] = jobs[j] /\ ~ClaimsRow(j)
  BY <1>1, <1>2
<1>3. CASE ClaimsRow(j)
  <2>1. /\ jobs'[j].of = jobs[j].of /\ jobs'[j].status = "generating"
        /\ jobs'[j].attempts = jobs[j].attempts + 1 /\ jobs[j].status # "none"
    BY <1>3 DEF ClaimsRow, Claimed, Claimable, Rows
  <2> QED
    BY <1>1, <1>3, <2>1
<1>4. CASE (StoresRow(j) \/ FailsRow(j) \/ RequeuesRow(j) \/ AgesRow(j)) /\ ~ClaimsRow(j)
  <2>1. jobs'[j].of = jobs[j].of /\ jobs'[j].attempts = jobs[j].attempts
    BY <1>4 DEF StoresRow, FailsRow, RequeuesRow, AgesRow, Stored, Failed, Requeued, Rows
  <2>2. /\ jobs'[j].status = "none" <=> jobs[j].status = "none"
        /\ ~Unclaimed(jobs'[j]) => ~Unclaimed(jobs[j]) \/ (j = held /\ jobs[j].status = "queued")
    <3>1. CASE StoresRow(j)
      BY <3>1 DEF StoresRow, Stored, Rows, Unclaimed
    <3>2. CASE FailsRow(j)
      BY <3>2 DEF FailsRow, Failed, Open, Rows, Unclaimed
    <3>3. CASE RequeuesRow(j)
      BY <3>3 DEF RequeuesRow, Requeued, Rows, Unclaimed
    <3>4. CASE AgesRow(j)
      BY <3>4 DEF AgesRow, Rows, Unclaimed
    <3> QED
      BY <1>4, <3>1, <3>2, <3>3, <3>4
  <2> QED
    BY <1>1, <1>4, <2>1, <2>2
<1> QED
  BY <1>2, <1>3, <1>4 DEF MovesRow

LEMMA OldestKept ==
  ASSUME TypeOK, WorkerConsistent, OldestFirst, [Next]_vars
  PROVE  OldestFirst'
<1>1. jobs' \in [Jobs -> Rows] /\ \A j \in Jobs: jobs[j] \in Rows /\ jobs'[j] \in Rows /\ MovesRow(j)
  BY RowsMove DEF TypeOK
<1>2. \A j \in Jobs: jobs[j].attempts \in Nat /\ jobs'[j].attempts \in Nat
  BY <1>1 DEF Rows
<1>3. CASE \E j \in Jobs: AddsRow(j)
  <2>1. PICK j \in Jobs: AddsRow(j)
    BY <1>3
  <2>2. PICK m \in Meetings: /\ \A k \in Jobs: jobs[k].of = m => ~Open(jobs[k])
                             /\ jobs'[j] = [Absent EXCEPT !.of = m, !.status = "queued"]
    BY <2>1 DEF AddsRow
  <2>3. jobs'[j].of = m /\ jobs'[j].status = "queued" /\ jobs'[j].attempts = 0 /\ m # NoMeeting
    BY <2>2, MeetingsAssumption DEF Absent
  <2>4. \A k \in Jobs: k # j => jobs'[k] = jobs[k]
    BY <2>1 DEF AddsRow
  <2>5. jobs[j].status = "none" /\ (\A k \in Jobs: k < j => jobs[k].status # "none")
        /\ (\A k \in Jobs: j < k => jobs[k].status = "none")
    BY <2>1 DEF AddsRow, OldestFirst, InOrder
  <2>6. ~ClaimsRow(j) /\ (\A k \in Jobs: k # j => ~ClaimsRow(k))
    <3>1. ~ClaimsRow(j)
      BY <2>5 DEF ClaimsRow, Claimable
    <3>2. ASSUME NEW k \in Jobs, k # j, ClaimsRow(k) PROVE FALSE
      <4>1. jobs'[k].attempts = jobs[k].attempts + 1
        BY <1>1, <3>2 DEF ClaimsRow, Claimed, Rows
      <4> QED
        BY <1>2, <2>4, <3>2, <4>1
    <3> QED
      BY <3>1, <3>2
  <2>7. held' # j
    <3>1. held # j
      BY <2>5 DEF OldestFirst, ClaimsCounted, InOrder
    <3> QED
      BY <2>6, <3>1, HeldChanges DEF Jobs
  <2>8. ClaimsCounted'
    BY <2>3, <2>4, <2>6, <2>7, HeldChanges DEF OldestFirst, ClaimsCounted, Unclaimed, Jobs
  <2>9. InOrder'
    BY <2>3, <2>4, <2>5 DEF OldestFirst, InOrder, Jobs
  <2>10. ASSUME NEW i \in Jobs, NEW k \in Jobs, i < k, jobs'[i].of = jobs'[k].of, jobs'[k].status # "none"
         PROVE  jobs'[i].attempts > 0
    <3>1. CASE k = j
      <4>1. i # j /\ jobs'[i] = jobs[i]
        BY <2>4, <2>10, <3>1 DEF Jobs
      <4>2. jobs[i].of = m
        BY <2>3, <2>10, <3>1, <4>1
      <4>3. ~Open(jobs[i])
        BY <2>2, <4>2
      <4>4. jobs[i].status # "none"
        BY <2>5, <2>10, <3>1
      <4> QED
        BY <4>1, <4>3, <4>4 DEF OldestFirst, ClaimsCounted, Unclaimed, Open
    <3>2. CASE k # j
      <4>1. jobs'[k] = jobs[k] /\ i # j
        BY <2>4, <2>5, <2>10, <3>2
      <4> QED
        BY <2>4, <2>10, <4>1 DEF OldestFirst, OlderClaimed
    <3> QED
      BY <3>1, <3>2
  <2> QED
    BY <2>8, <2>9, <2>10 DEF OldestFirst, OlderClaimed
<1>4. CASE ~\E j \in Jobs: AddsRow(j)
  <2>1. \A j \in Jobs:
          /\ jobs'[j].of = jobs[j].of
          /\ jobs'[j].status = "none" <=> jobs[j].status = "none"
          /\ jobs'[j].attempts >= jobs[j].attempts
          /\ jobs[j].status = "none" => jobs'[j].attempts = jobs[j].attempts
          /\ ClaimsRow(j) => jobs'[j].attempts > 0
          /\ ~Unclaimed(jobs'[j]) => \/ ~Unclaimed(jobs[j]) \/ ClaimsRow(j)
                                     \/ (j = held /\ jobs[j].status = "queued")
    BY <1>1, <1>4, RowKeeps
  <2>2. ASSUME NEW j \in Jobs
        PROVE  jobs'[j].attempts > 0 \/ (Unclaimed(jobs'[j]) /\ held' # j)
    <3>1. CASE jobs[j].attempts > 0
      BY <1>2, <2>1, <3>1
    <3>2. CASE ClaimsRow(j)
      BY <2>1, <3>2
    <3>3. CASE Unclaimed(jobs[j]) /\ held # j /\ ~ClaimsRow(j)
      BY <2>1, <3>3, HeldChanges DEF Jobs
    <3> QED
      BY <3>1, <3>2, <3>3 DEF OldestFirst, ClaimsCounted
  <2>3. InOrder'
    BY <2>1 DEF OldestFirst, InOrder
  <2>4. OlderClaimed'
    BY <1>2, <2>1 DEF OldestFirst, OlderClaimed
  <2> QED
    BY <2>2, <2>3, <2>4 DEF OldestFirst, ClaimsCounted
<1> QED
  BY <1>3, <1>4
-----------------------------------------------------------------------------
(***************************************************************************)
(* The theorems.                                                           *)
(***************************************************************************)
QueueInvariant ==
  TypeOK /\ WorkerConsistent /\ RecordingCounted /\ AttemptsGranted /\ OldestFirst

THEOREM Invariance == Spec => []QueueInvariant
<1>1. Init => QueueInvariant
  <2> SUFFICES ASSUME Init PROVE QueueInvariant
    OBVIOUS
  <2> USE LimitsAssumption
  <2>1. Absent \in Rows
    BY DEF Absent, Rows, Statuses
  <2>2. TypeOK
    <3>1. jobs \in [Jobs -> Rows]
      BY <2>1 DEF Init
    <3>2. held \in Jobs \cup {0} /\ calls \in 0 .. MaxCalls
      BY DEF Init
    <3>3. recordings \in 0 .. MaxRecordings /\ faults \in 0 .. MaxFaults
      BY DEF Init
    <3> QED
      BY <3>1, <3>2, <3>3 DEF Init, TypeOK
  <2>3. \A j \in Jobs: jobs[j] = Absent
    BY DEF Init
  <2>4. WorkerConsistent
    BY <2>3 DEF Init, WorkerConsistent, WorkerShape, HeldIsOpen, LeaseFollows, Working, Absent
  <2>5. RecordingCounted
    BY DEF Init, RecordingCounted, Recording
  <2>6. AttemptsGranted
    BY <2>3 DEF Init, AttemptsGranted, Granted, Absent
  <2>7. OldestFirst
    BY <2>3 DEF Init, OldestFirst, ClaimsCounted, Unclaimed, InOrder, OlderClaimed, Absent, Jobs
  <2> QED
    BY <2>2, <2>4, <2>5, <2>6, <2>7 DEF QueueInvariant
<1>2. QueueInvariant /\ [Next]_vars => QueueInvariant'
  <2> SUFFICES ASSUME QueueInvariant, [Next]_vars PROVE QueueInvariant'
    OBVIOUS
  <2>1. TypeOK /\ WorkerConsistent /\ RecordingCounted /\ AttemptsGranted /\ OldestFirst
    BY DEF QueueInvariant
  <2>2. TypeOK'
    BY <2>1, TypeKept
  <2>3. WorkerConsistent'
    BY <2>1, ShapeKept, HeldKept, LeasesKept DEF WorkerConsistent
  <2>4. RecordingCounted'
    BY <2>1, RecordingsCounted
  <2>5. AttemptsGranted'
    BY <2>1, AttemptsKept
  <2>6. OldestFirst'
    BY <2>1, OldestKept
  <2> QED
    BY <2>2, <2>3, <2>4, <2>5, <2>6 DEF QueueInvariant
<1> QED
  BY <1>1, <1>2, PTL DEF Spec

\* The variables have their types in every reachable state.
THEOREM TypeCorrect == Spec => []TypeOK
<1>1. QueueInvariant => TypeOK
  BY DEF QueueInvariant
<1> QED
  BY <1>1, Invariance, PTL

\* What a recording decides on is what the worker does, for any limits.
THEOREM WorkerIsKnown == Spec => []WorkerConsistent
<1>1. QueueInvariant => WorkerConsistent
  BY DEF QueueInvariant
<1> QED
  BY <1>1, Invariance, PTL

\* However often a job is claimed, requeued, failed and reclaimed, its attempts are bounded.
THEOREM RetriesAreBounded == Spec => []AttemptsBounded
<1>1. QueueInvariant => AttemptsBounded
  <2> SUFFICES ASSUME QueueInvariant, MaxAttempts > 0, NEW j \in Jobs
               PROVE  jobs[j].attempts <= MaxAttempts + recordings
    BY DEF AttemptsBounded
  <2>1. jobs[j].attempts \in Nat /\ recordings \in Nat /\ MaxAttempts \in Nat
    BY LimitsAssumption DEF QueueInvariant, TypeOK, Rows
  <2>2. jobs[j].attempts <= Granted
    BY DEF QueueInvariant, AttemptsGranted
  <2> QED
    BY <2>1, <2>2 DEF Granted
<1> QED
  BY <1>1, Invariance, PTL

\* A meeting has two open jobs only when the older one has been claimed before.
THEOREM SecondJobsAreRetries == Spec => []SecondJobIsRetry
<1>1. QueueInvariant => SecondJobIsRetry
  BY DEF QueueInvariant, OldestFirst, OlderClaimed, SecondJobIsRetry, Open
<1> QED
  BY <1>1, Invariance, PTL

\* For any limits, and any interleaving of the worker with recordings, crashes and clocks.
THEOREM QueueIsHonest == Spec => []QueueHonest
  BY TypeCorrect, WorkerIsKnown, RetriesAreBounded, SecondJobsAreRetries, PTL DEF QueueHonest

\* A job that is completed, or failed at its last attempt, is left as it is.
THEOREM FinalJobsStay == Spec => FinalStays
<1>1. QueueInvariant /\ [Next]_vars =>
        [\A j \in Jobs: Final(jobs[j]) => /\ jobs'[j].status = jobs[j].status
                                          /\ jobs'[j].attempts = jobs[j].attempts]_vars
  <2> SUFFICES ASSUME QueueInvariant, [Next]_vars, NEW j \in Jobs, Final(jobs[j])
               PROVE  jobs'[j].status = jobs[j].status /\ jobs'[j].attempts = jobs[j].attempts
    OBVIOUS
  <2>1. jobs[j] \in Rows /\ MovesRow(j) /\ jobs[j].attempts \in Nat /\ MaxAttempts \in Nat
    BY RowsMove, LimitsAssumption DEF QueueInvariant, TypeOK, Rows
  <2>2. ~ClaimsRow(j) /\ ~AddsRow(j)
    <3>1. \/ jobs[j].status = "completed"
          \/ jobs[j].status = "failed" /\ ~(jobs[j].attempts < MaxAttempts)
      BY <2>1 DEF Final
    <3> QED
      BY <3>1 DEF ClaimsRow, AddsRow, Claimable
  <2>3. CASE jobs'[j] = jobs[j]
    BY <2>3
  <2>4. CASE StoresRow(j) \/ FailsRow(j) \/ RequeuesRow(j)
    BY <2>1, <2>4 DEF StoresRow, Stored, FailsRow, Failed, Open, RequeuesRow, Requeued, Final
  <2>5. CASE AgesRow(j)
    BY <2>1, <2>5 DEF AgesRow, Rows
  <2> QED
    BY <2>1, <2>2, <2>3, <2>4, <2>5 DEF MovesRow
<1> QED
  BY <1>1, Invariance, PTL DEF Spec, FinalStays

-----------------------------------------------------------------------------
(***************************************************************************)
(* UIRuntime.                                                              *)
(***************************************************************************)
Snapshots == [mode: Arbiter!Modes, owner: Arbiter!Owners, revision: Nat, muted: BOOLEAN]
Answers == [answer: BOOLEAN, state: Snapshots \cup {None}]
Readers == {Receiving} \cup [at: {"handling"}, item: Commands] \cup [at: {"putting"}, item: Answers]

OwnerTypes == mode \in Arbiter!Modes /\ owner \in Arbiter!Owners /\ revision \in Nat
SoundTypes ==
  /\ muted \in BOOLEAN
  /\ queued \in [Sinks -> 0 .. SinkSize]
  /\ audioQueue \in 0 .. AudioQueueSize
ReaderTypes ==
  /\ inbox \in [Browsers -> Seq(Commands)]
  /\ reader \in [Browsers -> Readers]
ResponseTypes ==
  /\ responses \in [Browsers -> Seq(Answers)]
  /\ \A b \in Browsers : Len(responses[b]) <= ResponseSize
ChannelTypes ==
  /\ text \in Nat
  /\ channel \in [Watchers -> Seq(Nat)]
  /\ \A w \in Watchers : Len(channel[w]) <= ChannelSize

\* Muting drains, and only the audio of the conversation waits.
Quiet ==
  /\ muted => audioQueue = 0 /\ \A s \in Sinks : queued[s] = 0
  /\ audioQueue > 0 => owner = "assistant"

Ind == OwnerTypes /\ SoundTypes /\ ReaderTypes /\ ResponseTypes /\ ChannelTypes /\ Quiet

LEMMA Consequences == Ind => NothingIsOverheard
  BY DEF Ind, OwnerTypes, SoundTypes, ResponseTypes, ChannelTypes, Quiet, UITypeOK, NothingIsOverheard

LEMMA InitInd == UIInit => Ind
<1> SUFFICES ASSUME UIInit PROVE Ind
  OBVIOUS
<1> USE AudioHubAssumption, ControlChannelAssumption
<1>1. OwnerTypes
  BY DEF UIInit, Arbiter!Init, OwnerTypes, Arbiter!Modes, Arbiter!Owners
<1>2. SoundTypes /\ Quiet
  <2>1. muted = FALSE /\ queued = [s \in Sinks |-> 0] /\ audioQueue = 0
    BY DEF UIInit, HubInit, Drained
  <2>2. SoundTypes
    <3>1. 0 \in 0 .. SinkSize /\ 0 \in 0 .. AudioQueueSize
      OBVIOUS
    <3>2. muted \in BOOLEAN
      BY <2>1
    <3>3. queued \in [Sinks -> 0 .. SinkSize]
      BY <2>1, <3>1
    <3> QED
      BY <2>1, <3>1, <3>2, <3>3 DEF SoundTypes
  <2>3. Quiet
    BY <2>1 DEF Quiet
  <2> QED
    BY <2>2, <2>3
<1>3. ReaderTypes
  BY DEF UIInit, ControlInit, ReaderTypes, Readers
<1>4. ResponseTypes
  BY DEF UIInit, ControlInit, ResponseTypes
<1>5. ChannelTypes
  BY DEF UIInit, ControlInit, ChannelTypes
<1> QED
  BY <1>1, <1>2, <1>3, <1>4, <1>5 DEF Ind

-----------------------------------------------------------------------------
(***************************************************************************)
(* The microphone.                                                         *)
(***************************************************************************)
LEMMA HubKeeps ==
  ASSUME OwnerTypes, SoundTypes, Quiet, HubStep, UNCHANGED <<mode, owner, revision>>
  PROVE SoundTypes' /\ Quiet'
<1> USE AudioHubAssumption DEF SoundTypes, Quiet, Drained, sound, capture, Sinks
<1>1. CASE HubStart
  BY <1>1 DEF HubStart
<1>2. CASE StreamOpens
  BY <1>2 DEF StreamOpens
<1>3. CASE StartReturns
  BY <1>3 DEF StartReturns
<1>4. CASE StopReturns
  BY <1>4 DEF StopReturns
<1>5. CASE ThreadReads
  BY <1>5 DEF ThreadReads
<1>6. CASE OnChunk
  BY <1>6 DEF OnChunk, Accepts
<1>7. CASE EnqueueAudio
  BY <1>7 DEF EnqueueAudio, Take
<1>8. CASE PushSubtitleAudio
  BY <1>8 DEF PushSubtitleAudio, Take
<1>9. CASE Pump
  BY <1>9 DEF Pump
<1> QED
  BY <1>1, <1>2, <1>3, <1>4, <1>5, <1>6, <1>7, <1>8, <1>9 DEF HubStep

LEMMA MuteKeeps ==
  ASSUME OwnerTypes, SoundTypes, Quiet, NEW m \in BOOLEAN, SetMuted(m),
         UNCHANGED <<mode, owner, revision>>
  PROVE SoundTypes' /\ Quiet'
  BY AudioHubAssumption DEF SoundTypes, Quiet, SetMuted, Drained, Sinks

\* An owner that is given the PCM finds nothing that waits, or is the one it waits for.
LEMMA OwnerKeeps ==
  ASSUME OwnerTypes, SoundTypes, Quiet,
         \/ owner' = "none"
         \/ \E m \in Arbiter!Modes : Arbiter!Commit(m),
         SetPcmOwner(owner')
  PROVE SoundTypes' /\ Quiet'
  BY AudioHubAssumption
     DEF SoundTypes, Quiet, SetPcmOwner, Arbiter!Commit, Arbiter!OwnerOf

-----------------------------------------------------------------------------
(***************************************************************************)
(* The sockets.                                                            *)
(***************************************************************************)
LEMMA ServeKeeps ==
  ASSUME Ind, NEW b \in Browsers, Serve(b), UNCHANGED <<mode, owner, revision>>
  PROVE Ind'
<1> USE DEF Ind
<1>1. CASE Read(b)
  <2>1. ReaderTypes'
    <3>1. Head(inbox[b]) \in Commands /\ Tail(inbox[b]) \in Seq(Commands)
      BY <1>1 DEF Read, ReaderTypes
    <3> QED
      BY <1>1, <3>1 DEF Read, ReaderTypes, Readers
  <2> QED
    BY <1>1, <2>1 DEF Read, OnlyControl, subtitle, capture, sound, OwnerTypes, SoundTypes,
       ResponseTypes, ChannelTypes, Quiet
<1>2. CASE Handle(b)
  <2>1. SoundTypes' /\ Quiet'
    <3>1. CASE UNCHANGED sound
      BY <3>1, <1>2 DEF sound, SoundTypes, Quiet
    <3>2. CASE SetMuted(TRUE) \/ SetMuted(FALSE)
      BY <3>2, MuteKeeps
    <3> QED
      BY <1>2, <3>1, <3>2 DEF Handle
  <2>2. OwnerTypes'
    BY DEF OwnerTypes
  <2>3. Snapshot' \in Snapshots
    BY <2>1, <2>2 DEF OwnerTypes, SoundTypes, Snapshot, Snapshots, Arbiter!Modes, Arbiter!Owners
  <2>4. ReaderTypes'
    <3>1. Answer(Snapshot') \in Answers /\ Answer(None) \in Answers
      BY <2>3 DEF Answer, Answers
    <3> QED
      BY <1>2, <3>1 DEF Handle, ReaderTypes, Readers
  <2> QED
    BY <1>2, <2>1, <2>2, <2>4 DEF Handle, subtitle, ResponseTypes, ChannelTypes
<1>3. CASE Put(b)
  <2>1. ReaderTypes'
    BY <1>3 DEF Put, ReaderTypes, Readers
  <2>2. ResponseTypes'
    <3>1. reader[b].item \in Answers
      BY <1>3 DEF Put, ReaderTypes, Readers, Receiving
    <3>2. responses[b] \in Seq(Answers)
      BY DEF ResponseTypes
    <3>3. Append(responses[b], reader[b].item) \in Seq(Answers)
          /\ Len(Append(responses[b], reader[b].item)) = Len(responses[b]) + 1
      BY <3>1, <3>2
    <3> QED
      BY <1>3, <3>2, <3>3, ControlChannelAssumption DEF Put, ResponseTypes
  <2> QED
    BY <1>3, <2>1, <2>2 DEF Put, OnlyControl, subtitle, capture, sound, OwnerTypes, SoundTypes,
       ChannelTypes, Quiet
<1>4. CASE Disconnected(b)
  BY <1>4, ControlChannelAssumption DEF Disconnected, OnlyControl, subtitle, capture, sound,
     OwnerTypes, SoundTypes, ReaderTypes, ResponseTypes, ChannelTypes, Quiet
<1> QED
  BY <1>1, <1>2, <1>3, <1>4 DEF Serve

LEMMA WriteKeeps ==
  ASSUME Ind, NEW b \in Browsers, Write(b), UNCHANGED <<mode, owner, revision>>
  PROVE Ind'
<1> USE DEF Ind
<1>1. CASE WriterTakes(b)
  <2>1. \/ UNCHANGED responses
        \/ responses[b] # <<>> /\ responses' = [responses EXCEPT ![b] = Tail(@)]
    BY <1>1 DEF WriterTakes, ResponseTypes
  <2>2. ResponseTypes'
    <3>1. ASSUME responses[b] # <<>>
          PROVE Tail(responses[b]) \in Seq(Answers)
                /\ Len(Tail(responses[b])) = Len(responses[b]) - 1
      BY <3>1 DEF ResponseTypes
    <3>2. CASE UNCHANGED responses
      BY <3>2 DEF ResponseTypes
    <3>3. CASE responses[b] # <<>> /\ responses' = [responses EXCEPT ![b] = Tail(@)]
      <4>1. responses' \in [Browsers -> Seq(Answers)]
        BY <3>1, <3>3 DEF ResponseTypes
      <4>2. Len(responses'[b]) <= ResponseSize
        <5>1. responses'[b] = Tail(responses[b]) /\ responses[b] \in Seq(Answers)
          BY <3>3 DEF ResponseTypes
        <5>2. Len(responses[b]) \in Nat /\ Len(responses[b]) <= ResponseSize
          BY <5>1 DEF ResponseTypes
        <5> QED
          BY <3>1, <3>3, <5>1, <5>2, ControlChannelAssumption
      <4>3. \A c \in Browsers \ {b} : responses'[c] = responses[c]
        BY <3>3 DEF ResponseTypes
      <4> QED
        BY <4>1, <4>2, <4>3 DEF ResponseTypes
    <3> QED
      BY <2>1, <3>2, <3>3
  <2> QED
    BY <1>1, <2>2 DEF WriterTakes, OnlyControl, subtitle, capture, sound, OwnerTypes, SoundTypes,
       ReaderTypes, ChannelTypes, Quiet
<1>2. CASE WriterSends(b)
  BY <1>2 DEF WriterSends, OnlyControl, subtitle, capture, sound, OwnerTypes, SoundTypes,
     ReaderTypes, ResponseTypes, ChannelTypes, Quiet
<1> QED
  BY <1>1, <1>2 DEF Write

LEMMA BrowserKeeps ==
  ASSUME Ind, NEW b \in Browsers, UNCHANGED <<mode, owner, revision>>,
         Connect(b) \/ BrowserLeaves(b) \/ \E command \in Commands : Send(b, command)
  PROVE Ind'
<1> USE DEF Ind, OnlyControl, subtitle, capture, sound, OwnerTypes, SoundTypes,
        ReaderTypes, ResponseTypes, ChannelTypes, Quiet
<1>1. CASE Connect(b)
  BY <1>1 DEF Connect
<1>2. CASE BrowserLeaves(b)
  BY <1>2 DEF BrowserLeaves
<1>3. ASSUME NEW command \in Commands, Send(b, command) PROVE Ind'
  <2>1. Append(inbox[b], command) \in Seq(Commands)
    OBVIOUS
  <2> QED
    BY <1>3, <2>1 DEF Send
<1> QED
  BY <1>1, <1>2, <1>3

\* A full queue loses its oldest text and stays as long as it was.
LEMMA FannedFits ==
  ASSUME NEW queue \in Seq(Nat), Len(queue) <= ChannelSize, text \in Nat
  PROVE Fanned(queue) \in Seq(Nat) /\ Len(Fanned(queue)) <= ChannelSize
<1>1. CASE Len(queue) < ChannelSize
  BY <1>1, ControlChannelAssumption DEF Fanned
<1>2. CASE ~(Len(queue) < ChannelSize)
  <2>1. Len(queue) = ChannelSize /\ queue # <<>>
    BY <1>2, ControlChannelAssumption
  <2>2. Tail(queue) \in Seq(Nat) /\ Len(Tail(queue)) = Len(queue) - 1
    BY <2>1
  <2> QED
    BY <1>2, <2>1, <2>2, ControlChannelAssumption DEF Fanned
<1> QED
  BY <1>1, <1>2

LEMMA WatcherKeeps ==
  ASSUME Ind, NEW w \in Watchers, UNCHANGED <<mode, owner, revision>>,
         WatchConnect(w) \/ WatcherLeaves(w) \/ Admit(w) \/ SendText(w)
  PROVE Ind'
<1> USE ControlChannelAssumption DEF Ind
<1>1. ChannelTypes'
  <2> USE DEF ChannelTypes
  <2>1. CASE WatchConnect(w) \/ WatcherLeaves(w) \/ Revoke(w)
    BY <2>1 DEF WatchConnect, WatcherLeaves, Revoke
  <2>2. CASE WatchAccepted(w)
    <3> DEFINE first == <<text>>
    <3>1. first \in Seq(Nat) /\ Len(first) = 1
      OBVIOUS
    <3>2. UNCHANGED text /\ (UNCHANGED channel \/ channel' = [channel EXCEPT ![w] = first])
      BY <2>2 DEF WatchAccepted
    <3> HIDE DEF first
    <3>3. channel' \in [Watchers -> Seq(Nat)]
      BY <3>1, <3>2
    <3>4. \A v \in Watchers : channel'[v] = channel[v] \/ channel'[v] = first
      BY <3>2
    <3>5. \A v \in Watchers : Len(channel'[v]) <= ChannelSize
      <4>1. Len(first) <= ChannelSize
        BY <3>1
      <4> QED
        BY <3>4, <4>1
    <3> QED
      BY <3>2, <3>3, <3>5
  <2>3. CASE WatchEnds(w)
    BY <2>3 DEF WatchEnds
  <2>4. CASE SendText(w)
    <3>1. Tail(channel[w]) \in Seq(Nat) /\ Len(Tail(channel[w])) = Len(channel[w]) - 1
      BY <2>4 DEF SendText
    <3> QED
      BY <2>4, <3>1, LenProperties DEF SendText
  <2> QED
    BY <2>1, <2>2, <2>3, <2>4 DEF Admit
<1> QED
  BY <1>1 DEF WatchConnect, WatcherLeaves, Admit, WatchAccepted, Revoke, WatchEnds, SendText,
     OnlySubtitle, control, capture, sound, OwnerTypes, SoundTypes, ReaderTypes, ResponseTypes, Quiet

LEMMA PublishKeeps ==
  ASSUME Ind, UNCHANGED <<mode, owner, revision>>, PublishText \/ PublishRuntimeState
  PROVE Ind'
<1> USE DEF Ind
<1>1. CASE PublishText
  <2>1. ChannelTypes'
    BY <1>1, FannedFits DEF PublishText, ChannelTypes
  <2> QED
    BY <1>1, <2>1 DEF PublishText, OnlySubtitle, control, capture, sound, OwnerTypes, SoundTypes,
       ReaderTypes, ResponseTypes, Quiet
<1>2. CASE PublishRuntimeState
  BY <1>2 DEF PublishRuntimeState, control, subtitle, capture, sound, OwnerTypes, SoundTypes,
     ReaderTypes, ResponseTypes, ChannelTypes, Quiet
<1> QED
  BY <1>1, <1>2

-----------------------------------------------------------------------------
LEMMA NextKeeps == Ind /\ [UINext]_uiVars => Ind'
<1> SUFFICES ASSUME Ind, [UINext]_uiVars PROVE Ind'
  OBVIOUS
<1> USE DEF Ind
<1>1. CASE Silence
  <2>1. SoundTypes' /\ Quiet'
    BY <1>1, OwnerKeeps DEF Silence, Arbiter!Silence
  <2> QED
    BY <1>1, <2>1 DEF Silence, Arbiter!Silence, Arbiter!Owners, OwnerTypes, control,
       subtitle, ReaderTypes, ResponseTypes, ChannelTypes
<1>2. CASE Commit
  <2>1. SoundTypes' /\ Quiet'
    BY <1>2, OwnerKeeps DEF Commit
  <2>2. OwnerTypes'
    BY <1>2 DEF Commit, OwnerTypes, Arbiter!Commit, Arbiter!Modes, Arbiter!Owners, Arbiter!OwnerOf
  <2> QED
    BY <1>2, <2>1, <2>2 DEF Commit, control, subtitle, ReaderTypes, ResponseTypes, ChannelTypes
<1>3. CASE Stop
  BY <1>3 DEF Stop, HubStop, control, subtitle, sound, OwnerTypes, SoundTypes, ReaderTypes,
     ResponseTypes, ChannelTypes, Quiet
<1>4. CASE HubStep /\ UNCHANGED <<mode, owner, revision, control, latest, subtitle>>
  <2>1. SoundTypes' /\ Quiet'
    BY <1>4, HubKeeps
  <2> QED
    BY <1>4, <2>1 DEF control, subtitle, OwnerTypes, ReaderTypes, ResponseTypes, ChannelTypes
<1>5. CASE UNCHANGED <<mode, owner, revision>> /\ ControlStep
  BY <1>5, ServeKeeps, WriteKeeps, BrowserKeeps, WatcherKeeps, PublishKeeps DEF ControlStep
<1>6. CASE UNCHANGED uiVars
  BY <1>6 DEF uiVars, capture, sound, control, subtitle, OwnerTypes, SoundTypes, ReaderTypes,
     ResponseTypes, ChannelTypes, Quiet
<1> QED
  BY <1>1, <1>2, <1>3, <1>4, <1>5, <1>6 DEF UINext

\* A muted microphone leaves nothing in any queue, and what waits for the conversation was
\* captured while the conversation had the PCM (AudioHub.set_muted, UIRuntime._set_pcm_owner).
THEOREM NothingOverheard == UISpec => []NothingIsOverheard
<1>1. UIInit => Ind
  BY InitInd
<1>2. Ind /\ [UINext]_uiVars => Ind'
  BY NextKeeps
<1>3. Ind => NothingIsOverheard
  BY Consequences
<1> QED
  BY <1>1, <1>2, <1>3, PTL DEF UISpec
=============================================================================
