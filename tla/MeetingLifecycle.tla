--------------------------- MODULE MeetingLifecycle ---------------------------
(***************************************************************************)
(* How a meeting is recorded, stopped, sealed and recovered:               *)
(* MeetingSession (session.py), MeetingFinalizer (finalization.py),        *)
(* TranscriptPersistence (persistence.py) and RecoveryJournal              *)
(* (recovery.py) over the rows that PostgresMeetingRepository              *)
(* (repository.py) keeps.                                                  *)
(*                                                                         *)
(* Every call to the database or to the journal may fail, and the process  *)
(* may crash between any two of them; what is on disk survives.  The       *)
(* session's lock serialises its commands, so a step is the completion of  *)
(* one such call and what the session does up to the next.  A reconcile is *)
(* one step with every way it can end.  The labels of the overlay only     *)
(* matter here as one more reconcile, of everything that is stored.        *)
(*                                                                         *)
(* A window stands for the confirmed segments of one turn.  The windows of *)
(* a meeting are numbered in the order they are confirmed; 0 is the window *)
(* without segments that a finish returns when nothing was confirmed.      *)
(***************************************************************************)
EXTENDS Integers, Sequences, FiniteSetsExt

CONSTANTS
  MaxMeetings,  \* bound on the meetings of a behaviour
  MaxWindows,   \* bound on the windows confirmed in one meeting
  MaxFaults,    \* bound on the faults of a behaviour
  Faults        \* which faults happen, a subset of AllFaults

AllFaults == {"db",       \* a database call fails, or is cancelled, and does nothing
              "commit",   \* a database call commits and yet fails
              "journal",  \* a write or unlink of the journal fails
              "capture",  \* the capture fails to prepare or to finish, or times out
              "cancel",   \* the stop is cancelled while it uses the journal
              "crash"}    \* the process dies

ASSUME BoundsAssumption ==
  /\ MaxMeetings \in Nat /\ MaxWindows \in Nat /\ MaxFaults \in Nat
  /\ Faults \subseteq AllFaults

Meetings == 1..MaxMeetings
Windows == 0..MaxWindows
NoWindow == -1
NoMeeting == 0

Terminal == {"completed", "interrupted"}
Statuses == {"none", "recording", "finalizing"} \cup Terminal
Reasons == {"none", "finalization_timeout", "meeting_stop_failed", "mode_switch_aborted",
            "interrupted", "application_restart"}
Rows == [status: Statuses, reason: Reasons, transcript: SUBSET Windows, minutes: BOOLEAN]
Records == [meeting: Meetings \cup {NoMeeting}, status: Statuses]
Entries == [do: {"window"}, turns: SUBSET Windows] \cup [do: {"finalize"}]
           \cup [do: {"status"}, status: Terminal]
Outcomes == {"ok", "fail", "lost"}
Phases == {"down", "idle", "prepared", "recording", "finishing", "reconciling", "labelling", "sealing",
           "logging_finalize", "logging_status", "committing", "discarding", "queueing",
           "settling", "marking", "releasing"}

VARIABLES
  db,              \* the row of each meeting, its segments and whether minutes are queued
  journal,         \* the entries of the meeting's recovery file
  phase,           \* the call MeetingSession is suspended at
  current,         \* _active_meeting_id, or the meeting of _preparation
  record,          \* _record
  storageDegraded, \* _storage_degraded
  captureClosed,   \* MeetingFinalizer._capture_closed
  finalizedRecord, \* MeetingFinalizer._finalized_record
  signature,       \* _last_window_signatures of the current meeting
  capture,         \* the capture of SubtitleProxy: "off", "prepared" or "on"
  spoken,          \* number of windows confirmed in the current meeting
  finalWindow,     \* final_window of finalize
  timedOut,        \* timed_out of finalize
  faults,          \* number of faults so far
  acknowledged,    \* the windows a reconcile has accepted, for each meeting
  overwritten,     \* those that waited in the journal when the overlay rewrote the rows
  expired          \* meetings whose finish timed out since the process started

disk == <<db, journal>>
finalizer == <<captureClosed, finalizedRecord>>
finalization == <<finalWindow, timedOut>>
history == <<acknowledged, overwritten, expired>>
recording == <<signature, capture, spoken>>
session == <<current, record, storageDegraded>>
vars == <<disk, phase, session, finalizer, recording, finalization, faults, history>>

NoRecord == [meeting |-> NoMeeting, status |-> "none"]
RecordOf(m, status) == [meeting |-> m, status |-> status]
Spend(n) == faults + n <= MaxFaults /\ faults' = faults + n
-----------------------------------------------------------------------------
(***************************************************************************)
(* The rows (repository.py).                                               *)
(***************************************************************************)
Accepts(row) == row.status \in {"recording", "finalizing"}

\* The turns of a window.
Turns(w) == IF w <= 0 THEN {} ELSE {w}

\* reconcile_window deletes what ends after the window begins and inserts the window.
StoreWindow(row, turns) ==
  IF turns = {} THEN row
  ELSE [row EXCEPT !.transcript = {v \in @ : v < Min(turns)} \cup turns]

\* _ensure_transition.
MayBecome(from, to) ==
  CASE from = "recording" -> to \in {"recording", "finalizing", "interrupted"}
    [] from = "finalizing" -> to \in {"finalizing", "completed", "interrupted"}
    [] from = "completed" -> to \in {"completed", "interrupted"}
    [] OTHER -> to = from

WithStatus(row, status, reason) == [row EXCEPT !.status = status, !.reason = reason]

\* finalize_transcript.
MaySeal(row, status) == row.status = status \/ Accepts(row)
Seal(row, status, reason) == IF row.status = status THEN row ELSE WithStatus(row, status, reason)

\* A call that writes the row of m ends ok, fails, or fails having committed.
Write(out, m, legal, row) ==
  /\ out # "fail" => legal
  /\ out = "fail" /\ legal => "db" \in Faults
  /\ out = "lost" => "commit" \in Faults
  /\ Spend(IF out = "ok" \/ ~legal THEN 0 ELSE 1)
  /\ db' = IF out = "fail" THEN db ELSE [db EXCEPT ![m] = row]
-----------------------------------------------------------------------------
(***************************************************************************)
(* RecoveryJournal.replay_meeting and TranscriptPersistence.reconcile.     *)
(***************************************************************************)
WindowEntry(turns) == [do |-> "window", turns |-> turns]
ReasonOf(status) == IF status = "interrupted" THEN "finalization_timeout" ELSE "none"

\* _replay_one.
Replayable(row, entry) ==
  CASE entry.do = "window" -> Accepts(row)
    [] entry.do = "finalize" -> MaySeal(row, "completed")
    [] entry.do = "status" -> MayBecome(row.status, entry.status)
ReplayOne(row, entry) ==
  CASE entry.do = "window" -> StoreWindow(row, entry.turns)
    [] entry.do = "finalize" -> Seal(row, "completed", "none")
    [] entry.do = "status" -> WithStatus(row, entry.status, ReasonOf(entry.status))

\* Mutant of Settled: the leftovers of a meeting that has ended are replayed.
SettledNever(row) == FALSE
\* The journal of a meeting that has ended is deleted unread.
Settled(row) == row.status \in Terminal

\* The row after each number of entries.
After(row, log) ==
  LET after[k \in 0..Len(log)] == IF k = 0 THEN row ELSE ReplayOne(after[k - 1], log[k])
  IN after

\* Mutant of Replays: the entries are dropped.
ReplaysNothing(m) == {[row |-> db[m], log |-> <<>>, ok |-> TRUE, cost |-> 0]}
\* The ways to replay the journal of m: all of it and the file is deleted, or up to a
\* failure, and the whole file stays.
Replays(m) ==
  LET log == journal[m]
      after == After(db[m], log)
      legal(k) == \A i \in 1..k : Replayable(after[i - 1], log[i])
      fault(k) == IF k = Len(log) THEN "journal" ELSE "db"
  IN IF log = <<>> THEN {[row |-> db[m], log |-> log, ok |-> TRUE, cost |-> 0]}
     ELSE IF Settled(db[m])
     THEN {[row |-> db[m], log |-> <<>>, ok |-> TRUE, cost |-> 0]}
          \cup {[row |-> db[m], log |-> log, ok |-> FALSE, cost |-> 1] : f \in Faults \cap {"db", "journal"}}
     ELSE {[row |-> after[k], log |-> <<>>, ok |-> TRUE, cost |-> 0] :
             k \in {i \in {Len(log)} : legal(i)}}
          \cup {[row |-> after[k], log |-> log, ok |-> FALSE, cost |-> 1] :
                  k \in {i \in 0..Len(log) : legal(i) /\ fault(i) \in Faults}}
          \cup {[row |-> after[k], log |-> log, ok |-> FALSE, cost |-> 0] :
                  k \in {i \in 0..Len(log) - 1 : legal(i) /\ ~legal(i + 1)}}

\* The window goes to the row, after a replay r of what is pending, or does not.
Stores(r, turns) ==
  IF r.ok /\ Accepts(r.row) THEN {[r EXCEPT !.row = StoreWindow(@, turns)]} ELSE {}
StoreFails(r, turns) ==
  IF ~r.ok \/ ~Accepts(r.row) THEN {r}
  ELSE {[r EXCEPT !.row = IF f = "commit" THEN StoreWindow(@, turns) ELSE @,
                  !.cost = @ + 1] : f \in Faults \cap {"db", "commit"}}

\* Then it is appended to the journal, and reconcile raises when that fails too.
JournalWindow(r, turns) ==
  {[row |-> r.row, log |-> Append(r.log, WindowEntry(turns)), result |-> "journaled", cost |-> r.cost]}
  \cup {[row |-> r.row, log |-> r.log, result |-> "raised", cost |-> r.cost + 1] :
          f \in Faults \cap {"journal"}}

\* reconcile, for the current meeting.
Attempts(turns) ==
  UNION {{[row |-> s.row, log |-> s.log, result |-> "stored", cost |-> s.cost] : s \in Stores(r, turns)}
         \cup UNION {JournalWindow(f, turns) : f \in StoreFails(r, turns)} : r \in Replays(current)}
Skipped == [row |-> db[current], log |-> journal[current], result |-> "skipped", cost |-> 0]

\* A final window that there is not is skipped, and so is one equal to the last stored one;
\* but it was smoothed before it was stored, and the final window is as it came.
Reconciles(w) ==
  (IF w \in {signature, NoWindow} THEN {Skipped} ELSE {})
  \cup (IF w # NoWindow THEN Attempts(Turns(w)) ELSE {})

Reconciled(w, c) ==
  /\ Spend(c.cost)
  /\ db' = [db EXCEPT ![current] = c.row]
  /\ journal' = [journal EXCEPT ![current] = c.log]
  /\ signature' = IF c.result = "stored" THEN w ELSE signature
  /\ acknowledged' = IF c.result = "raised" \/ w <= 0 THEN acknowledged
                     ELSE [acknowledged EXCEPT ![current] = @ \cup {w}]
  /\ UNCHANGED overwritten
-----------------------------------------------------------------------------
(***************************************************************************)
(* Preparing, committing and aborting a meeting (session.py).              *)
(***************************************************************************)
Created == {m \in Meetings : db[m].status # "none"}
Fresh(m) == m \in Meetings \ Created /\ \A k \in 1..m - 1 : k \in Created
NewRow == [status |-> "recording", reason |-> "none", transcript |-> {}, minutes |-> FALSE]

\* prepare_start: a row of status recording, then the capture without PCM.
Prepare(m) ==
  /\ phase = "idle" /\ Fresh(m) /\ capture = "off"
  /\ db' = [db EXCEPT ![m] = NewRow]
  /\ phase' = "prepared" /\ current' = m /\ record' = RecordOf(m, "recording")
  /\ storageDegraded' = FALSE
  /\ capture' = "prepared" /\ signature' = NoWindow /\ spoken' = 0
  /\ UNCHANGED <<journal, finalizer, finalization, faults, history>>

\* The row cannot be written, or is written by a call that fails.
PrepareFails(m, out) ==
  /\ phase = "idle" /\ Fresh(m) /\ out # "ok"
  /\ Write(out, m, TRUE, NewRow)
  /\ UNCHANGED <<journal, phase, session, finalizer, recording, finalization, history>>

\* The capture is refused or not ready: the row is marked, its failure is suppressed.
PrepareRefused(m, out) ==
  /\ phase = "idle" /\ Fresh(m)
  /\ capture # "off" \/ "capture" \in Faults
  /\ out = "ok" \/ "db" \in Faults
  /\ Spend((IF capture = "off" THEN 1 ELSE 0) + (IF out = "ok" THEN 0 ELSE 1))
  /\ db' = [db EXCEPT ![m] = IF out = "ok" THEN WithStatus(NewRow, "interrupted", "mode_switch_aborted")
                             ELSE NewRow]
  /\ record' = RecordOf(m, db'[m].status)
  /\ storageDegraded' = FALSE
  /\ UNCHANGED <<journal, phase, current, finalizer, recording, finalization, history>>

\* commit_start: synchronous.
Commit ==
  /\ phase = "prepared"
  /\ phase' = "recording" /\ capture' = "on"
  /\ UNCHANGED <<disk, session, finalizer, signature, spoken, finalization, faults, history>>

\* abort_start: the capture is closed whatever the row's update does.
AbortStart(out) ==
  /\ phase = "prepared"
  /\ Write(out, current, TRUE, WithStatus(db[current], "interrupted", "mode_switch_aborted"))
  /\ record' = IF out = "ok" THEN RecordOf(current, "interrupted") ELSE record
  /\ phase' = "idle" /\ current' = NoMeeting /\ capture' = "off"
  /\ UNCHANGED <<journal, storageDegraded, finalizer, signature, spoken, finalization, history>>

\* _on_window: a window that can be kept nowhere aborts the capture.
Hear(c) ==
  /\ phase \in {"recording", "finishing"} /\ capture = "on" /\ spoken < MaxWindows
  /\ spoken' = spoken + 1
  /\ Reconciled(spoken + 1, c)
  /\ capture' = IF c.result = "raised" THEN "off" ELSE capture
  /\ UNCHANGED <<phase, session, finalizer, finalization, expired>>
-----------------------------------------------------------------------------
(***************************************************************************)
(* stop and MeetingFinalizer.finalize, one call at a time.                 *)
(***************************************************************************)
Goto(next) == phase' = next

\* set_status(FINALIZING).
BeginStop(out) ==
  /\ phase = "recording"
  /\ Write(out, current, TRUE, WithStatus(db[current], "finalizing", "none"))
  /\ record' = IF out = "ok" THEN RecordOf(current, "finalizing") ELSE record
  /\ Goto(IF out = "ok" THEN "finishing" ELSE "settling")
  /\ UNCHANGED <<journal, current, storageDegraded, finalizer, recording, finalization, history>>

\* finish_capture returns the last confirmed window, one whose listener it cut off
\* included (late = 1), or times out with the last it has seen, if any.
FinishCapture(late, expires) ==
  /\ phase = "finishing" /\ capture = "on" /\ spoken + late <= MaxWindows
  /\ expires => "capture" \in Faults
  /\ Spend(IF expires THEN 1 ELSE 0)
  /\ spoken' = spoken + late
  /\ finalWindow' \in IF ~expires \/ late = 1 THEN {spoken + late}
                      ELSE IF spoken = 0 THEN {NoWindow, 0} ELSE {0, spoken}
  /\ timedOut' = expires
  /\ expired' = IF expires THEN expired \cup {current} ELSE expired
  /\ capture' = "off" /\ captureClosed' = TRUE
  /\ Goto("reconciling")
  /\ UNCHANGED <<disk, session, finalizedRecord, signature, acknowledged, overwritten>>

\* finish_capture raises (always, when the capture was aborted before); it closes the
\* capture on the way, and so does finalize.
FinishFails ==
  /\ phase = "finishing"
  /\ capture = "on" => "capture" \in Faults
  /\ Spend(IF capture = "on" THEN 1 ELSE 0)
  /\ capture' = "off" /\ captureClosed' = TRUE
  /\ Goto("settling")
  /\ UNCHANGED <<disk, session, finalizedRecord, signature, spoken, finalization, history>>

ReconcileFinal(c) ==
  /\ phase = "reconciling"
  /\ Reconciled(finalWindow, c)
  /\ Goto(IF c.result = "raised" THEN "settling" ELSE "labelling")
  /\ UNCHANGED <<session, finalizer, capture, spoken, finalization, expired>>

\* The turns that wait in the journal.
Pending(m) == UNION {journal[m][i].turns : i \in {k \in DOMAIN journal[m] : journal[m][k].do = "window"}}
\* The overlay has not read them.
Overwrites == [overwritten EXCEPT ![current] = @ \cup (Pending(current) \ db[current].transcript)]

\* Cancelled in the middle of it, or of the overlay: the shielded replay or store is done
\* or not, but the window is not journaled.
ReconcileCancelled(r) ==
  /\ phase \in {"reconciling", "labelling"}
  /\ phase = "reconciling" => finalWindow # NoWindow
  /\ "cancel" \in Faults
  /\ Spend(r.cost + 1)
  /\ db' = [db EXCEPT ![current] = r.row]
  /\ journal' = [journal EXCEPT ![current] = r.log]
  /\ overwritten' = IF phase = "labelling" THEN Overwrites ELSE overwritten
  /\ Goto("settling")
  /\ UNCHANGED <<session, finalizer, recording, finalization, acknowledged, expired>>

\* What the overlay reconciles: everything in the rows, with other labels, or nothing.
Corrections ==
  {Skipped} \cup IF db[current].transcript = {} THEN {} ELSE Attempts(db[current].transcript)

\* _apply_diarization_overlay, whose own failure is swallowed.  The rows it read do not
\* hold what the reconcile replays from the journal.
Overlay(c) ==
  /\ phase = "labelling"
  /\ Spend(c.cost)
  /\ db' = [db EXCEPT ![current] = c.row]
  /\ journal' = [journal EXCEPT ![current] = c.log]
  /\ overwritten' = IF c.result = "skipped" THEN overwritten ELSE Overwrites
  /\ Goto("sealing")
  /\ UNCHANGED <<session, finalizer, recording, finalization, acknowledged, expired>>

\* persistence.finalize: what the journal still holds is replayed first.
SealReplay(r) ==
  /\ phase = "sealing"
  /\ Spend(r.cost)
  /\ db' = [db EXCEPT ![current] = r.row]
  /\ journal' = [journal EXCEPT ![current] = r.log]
  /\ Goto(IF r.ok THEN "logging_finalize" ELSE "settling")
  /\ UNCHANGED <<session, finalizer, recording, finalization, history>>

\* apply_speaker_remapping fails.
RemapFails ==
  /\ phase = "sealing" /\ "db" \in Faults
  /\ Spend(1)
  /\ Goto("settling")
  /\ UNCHANGED <<disk, session, finalizer, recording, finalization, history>>

FinalStatus == IF timedOut THEN "interrupted" ELSE "completed"

\* An entry of the write-ahead log; when it cannot be written, finalize goes on.
LogAhead(at, entry, next) ==
  /\ phase = at
  /\ \/ /\ journal' = [journal EXCEPT ![current] = Append(@, entry)]
        /\ Goto(next)
        /\ UNCHANGED faults
     \/ /\ "journal" \in Faults /\ Spend(1)
        /\ Goto("committing")
        /\ UNCHANGED journal
     \/ /\ "cancel" \in Faults /\ Spend(1)
        /\ Goto("settling")
        /\ UNCHANGED journal
  /\ UNCHANGED <<db, session, finalizer, recording, finalization, history>>

LogFinalize == LogAhead("logging_finalize", [do |-> "finalize"], "logging_status")
LogStatus == LogAhead("logging_status", [do |-> "status", status |-> FinalStatus], "committing")

\* finalize_transcript.
CommitSeal(out) ==
  /\ phase = "committing"
  /\ Write(out, current, MaySeal(db[current], FinalStatus),
           Seal(db[current], FinalStatus, ReasonOf(FinalStatus)))
  /\ Goto(IF out = "ok" THEN "discarding" ELSE "settling")
  /\ UNCHANGED <<journal, session, finalizer, recording, finalization, history>>

\* The write-ahead entries go; when they stay, the next start finds the meeting ended.
Discard ==
  /\ phase = "discarding"
  /\ \/ /\ journal' = [journal EXCEPT ![current] = <<>>]
        /\ UNCHANGED faults
     \/ /\ "journal" \in Faults /\ Spend(1)
        /\ UNCHANGED journal
  /\ finalizedRecord' = RecordOf(current, FinalStatus)
  /\ Goto("queueing")
  /\ UNCHANGED <<db, session, captureClosed, recording, finalization, history>>

\* create_minutes with the key of the meeting.
QueueMinutes(out) ==
  /\ phase = "queueing"
  /\ Write(out, current, TRUE, [db[current] EXCEPT !.minutes = TRUE])
  /\ record' = IF out = "ok" THEN finalizedRecord ELSE record
  /\ Goto(IF out = "ok" THEN "releasing" ELSE "settling")
  /\ UNCHANGED <<journal, current, storageDegraded, finalizer, recording, finalization, history>>
-----------------------------------------------------------------------------
(***************************************************************************)
(* How a failed stop is settled, and interrupt.                            *)
(***************************************************************************)

\* _settle_failed_stop: abort the capture unless the finalizer has closed it, and
\* keep what it has sealed.
Settle ==
  /\ phase = "settling"
  /\ capture' = IF captureClosed THEN capture ELSE "off"
  /\ record' = IF finalizedRecord = NoRecord THEN record ELSE finalizedRecord
  /\ Goto("marking")
  /\ UNCHANGED <<disk, current, storageDegraded, finalizer, signature, spoken, finalization,
                 faults, history>>

\* Mutant of MarkInterrupted: a failed update is forgotten.
MarkInterruptedQuietly(out) ==
  /\ phase = "marking" /\ record.status # "completed"
  /\ Write(out, current, TRUE, WithStatus(db[current], "interrupted", "meeting_stop_failed"))
  /\ record' = RecordOf(IF out = "ok" THEN current ELSE record.meeting, "interrupted")
  /\ Goto("releasing")
  /\ UNCHANGED <<journal, current, storageDegraded, finalizer, recording, finalization, history>>
\* _mark_stop_interrupted.
MarkInterrupted(out) ==
  /\ phase = "marking" /\ record.status # "completed"
  /\ Write(out, current, TRUE, WithStatus(db[current], "interrupted", "meeting_stop_failed"))
  /\ record' = RecordOf(IF out = "ok" THEN current ELSE record.meeting, "interrupted")
  /\ storageDegraded' = (storageDegraded \/ out # "ok")
  /\ Goto("releasing")
  /\ UNCHANGED <<journal, current, finalizer, recording, finalization, history>>
KeepCompleted ==
  /\ phase = "marking" /\ record.status = "completed"
  /\ Goto("releasing")
  /\ UNCHANGED <<disk, session, finalizer, recording, finalization, faults, history>>

\* _release_stopped_session.
Release ==
  /\ phase = "releasing"
  /\ Goto("idle") /\ current' = NoMeeting
  /\ UNCHANGED <<disk, record, storageDegraded, finalizer, recording, finalization, faults, history>>

\* interrupt: the row is updated, or the storage is degraded, or the call is cancelled.
Interrupt(out) ==
  /\ phase = "recording"
  /\ Write(out, current, TRUE, WithStatus(db[current], "interrupted", "interrupted"))
  /\ record' = RecordOf(current, "interrupted")
  /\ storageDegraded' \in IF out = "ok" THEN {storageDegraded}
                          ELSE {TRUE} \cup {storageDegraded : f \in Faults \cap {"cancel"}}
  /\ Goto("idle") /\ current' = NoMeeting /\ capture' = "off"
  /\ UNCHANGED <<journal, finalizer, signature, spoken, finalization, history>>
-----------------------------------------------------------------------------
(***************************************************************************)
(* A crash, and initialize_meeting_backend at the next start.              *)
(***************************************************************************)
Crash ==
  /\ phase # "down" /\ "crash" \in Faults
  /\ Spend(1)
  /\ Goto("down")
  /\ current' = NoMeeting /\ record' = NoRecord /\ storageDegraded' = FALSE
  /\ captureClosed' = FALSE /\ finalizedRecord' = NoRecord
  /\ capture' = "off" /\ signature' = NoWindow /\ spoken' = 0
  /\ finalWindow' = 0 /\ timedOut' = FALSE
  /\ expired' = {}
  /\ UNCHANGED <<disk, acknowledged, overwritten>>

\* journal.replay; when it fails the backend stays down until the next start.
ReplayNext(m, r) ==
  /\ phase = "down" /\ journal[m] # <<>>
  /\ Spend(r.cost)
  /\ db' = [db EXCEPT ![m] = r.row]
  /\ journal' = [journal EXCEPT ![m] = r.log]
  /\ UNCHANGED <<phase, session, finalizer, recording, finalization, history>>

\* Mutant of Start: the meetings are closed before the journals are replayed.
StartHasty ==
  /\ phase = "down"
  /\ db' = [m \in Meetings |-> IF Accepts(db[m])
                               THEN WithStatus(db[m], "interrupted", "application_restart")
                               ELSE db[m]]
  /\ Goto("idle")
  /\ UNCHANGED <<journal, session, finalizer, recording, finalization, faults, history>>
\* recover_stale, once every journal is replayed.
Start ==
  /\ phase = "down" /\ \A m \in Meetings : journal[m] = <<>>
  /\ db' = [m \in Meetings |-> IF Accepts(db[m])
                               THEN WithStatus(db[m], "interrupted", "application_restart")
                               ELSE db[m]]
  /\ Goto("idle")
  /\ UNCHANGED <<journal, session, finalizer, recording, finalization, faults, history>>
-----------------------------------------------------------------------------
Init ==
  /\ db = [m \in Meetings |-> [status |-> "none", reason |-> "none",
                               transcript |-> {}, minutes |-> FALSE]]
  /\ journal = [m \in Meetings |-> <<>>]
  /\ phase = "idle" /\ current = NoMeeting /\ record = NoRecord /\ storageDegraded = FALSE
  /\ captureClosed = FALSE /\ finalizedRecord = NoRecord
  /\ capture = "off" /\ signature = NoWindow /\ spoken = 0
  /\ finalWindow = 0 /\ timedOut = FALSE
  /\ faults = 0
  /\ acknowledged = [m \in Meetings |-> {}] /\ overwritten = [m \in Meetings |-> {}]
  /\ expired = {}

Stopping ==
  \/ FinishFails \/ \E late \in 0..1, expires \in BOOLEAN : FinishCapture(late, expires)
  \/ phase = "reconciling" /\ \E c \in Reconciles(finalWindow) : ReconcileFinal(c)
  \/ phase \in {"reconciling", "labelling"} /\ \E r \in Replays(current) :
       \E s \in {r} \cup Stores(r, IF phase = "reconciling" THEN Turns(finalWindow)
                                ELSE db[current].transcript) : ReconcileCancelled(s)
  \/ phase = "labelling" /\ \E c \in Corrections : Overlay(c)
  \/ phase = "sealing" /\ \E r \in Replays(current) : SealReplay(r)
  \/ RemapFails \/ LogFinalize \/ LogStatus \/ Discard
  \/ \E out \in Outcomes : CommitSeal(out) \/ QueueMinutes(out) \/ MarkInterrupted(out)
  \/ Settle \/ KeepCompleted \/ Release

Recovering ==
  \/ \E m \in Meetings : \E r \in Replays(m) : ReplayNext(m, r)
  \/ Start

Next ==
  \/ \E m \in Meetings : \/ Prepare(m)
                         \/ \E out \in Outcomes : PrepareFails(m, out) \/ PrepareRefused(m, out)
  \/ Commit
  \/ \E out \in Outcomes : AbortStart(out) \/ BeginStop(out) \/ Interrupt(out)
  \/ current # NoMeeting /\ \E c \in Reconciles(spoken + 1) : Hear(c)
  \/ Stopping
  \/ Crash
  \/ Recovering

\* A stop that has begun goes on, and a process that went down is started again.
Fairness == WF_vars(Stopping) /\ WF_vars(Recovering)

Spec == Init /\ [][Next]_vars /\ Fairness
-----------------------------------------------------------------------------
\* The variables have their types, a meeting is current exactly while the session works
\* on one, and nothing is kept for a meeting that has no row.
TypeOK ==
  /\ db \in [Meetings -> Rows]
  /\ journal \in [Meetings -> Seq(Entries)]
  /\ phase \in Phases
  /\ current \in Meetings \cup {NoMeeting} /\ record \in Records
  /\ storageDegraded \in BOOLEAN
  /\ captureClosed \in BOOLEAN /\ finalizedRecord \in Records
  /\ signature \in Windows \cup {NoWindow}
  /\ capture \in {"off", "prepared", "on"} /\ spoken \in Windows
  /\ finalWindow \in Windows \cup {NoWindow} /\ timedOut \in BOOLEAN
  /\ faults \in 0..MaxFaults
  /\ acknowledged \in [Meetings -> SUBSET Windows] /\ overwritten \in [Meetings -> SUBSET Windows]
  /\ expired \subseteq Meetings
  /\ phase \in {"down", "idle"} <=> current = NoMeeting
  /\ \A m \in Meetings \ Created : journal[m] = <<>> /\ acknowledged[m] = {}

-----------------------------------------------------------------------------
(***************************************************************************)
(* Properties.                                                             *)
(***************************************************************************)
Kept(m) == db[m].transcript \cup Pending(m) \cup overwritten[m]

\* A meeting reads as completed only with every window that reconcile accepted for it,
\* whether it reached its rows at once, through the journal and the replay before the
\* seal (persistence.py:141), or through the replay of the next start, and, while the
\* process lives, only if its finish did not time out: neither the seal itself nor the
\* replay of its write-ahead entries says otherwise (a crash may separate the two entries
\* of the seal).  The exception is a window that was in the journal when the overlay read
\* the rows.
CompletedIsComplete ==
  \A m \in Meetings :
    db[m].status = "completed" =>
      /\ acknowledged[m] \subseteq db[m].transcript \cup overwritten[m]
      /\ m \notin expired

\* Without that exception: what recovery.py:41 and the design of the meeting assistant say
\* of the journal, that a window in it reaches the rows in its order before its file goes.
NothingIsOverwritten ==
  \A m \in Meetings :
    db[m].status = "completed" => acknowledged[m] \subseteq db[m].transcript

\* A meeting closed by a restart or by a finish that timed out has its windows in its
\* rows or still in its journal, with the same exception: the start replays every journal
\* before recover_stale closes the meetings (app_context.py:117-122), and a seal is
\* preceded by a replay.
CrashLosesNothing ==
  \A m \in Meetings :
    db[m].reason \in {"none", "application_restart", "finalization_timeout"}
      => acknowledged[m] \subseteq Kept(m)

\* A stop that is about to release the session, with whatever error, leaves the meeting
\* terminal in its row or the session's storage degraded (session.py:347-366), and no
\* capture is left behind it (finalization.py:66).  The exception is the stop of a later
\* meeting that fails before its capture is finished: it takes the capture_closed and the
\* finalized_record that an earlier meeting left in the finalizer for its own
\* (session.py:306-311).
FirstStopsSettle ==
  /\ TypeOK
  /\ phase = "idle" /\ capture # "off" => captureClosed /\ 2 \in Created
  /\ phase = "releasing" => \/ db[current].status \in Terminal \/ storageDegraded
                            \/ finalizedRecord.meeting \notin {NoMeeting, current}

\* A process that went down comes up again, whatever journals the crash left: no
\* leftover blocks the start for good (recovery.py:118-120).
Restarts == phase = "down" ~> phase = "idle"
=============================================================================
