-------------------------- MODULE InferenceScheduler --------------------------
(***************************************************************************)
(* LocalInferenceScheduler (src/sona/inference/scheduler.py): one slot for *)
(* the local model, given to the waiting request of the best priority and  *)
(* never taken back.  Each request is one acquire or try_acquire and its   *)
(* release.                                                                *)
(*                                                                         *)
(* A request that waits is admitted by someone else's step, which sets its *)
(* future, and resumes in a later step of its own; a cancellation or the   *)
(* timeout of wait_for may come in between.                                *)
(***************************************************************************)
EXTENDS Integers

CONSTANTS
  Requests,     \* the acquire calls of a behaviour
  Priority,     \* the priority of each, lower is better
  Background,   \* those of the SUMMARY workload, held back while paused
  Revocable,    \* those that pass a cancel_event
  Cancellable   \* those whose task is cancelled, or times out, while they wait

ASSUME RequestsAssumption ==
  /\ Priority \in [Requests -> Int]
  /\ Background \subseteq Requests
  /\ Revocable \subseteq Requests
  /\ Cancellable \subseteq Requests

VARIABLES
  phase,      \* of each request
  waiters,    \* _waiters
  sequence,   \* _sequence, the number the next waiter gets
  ticket,     \* the sequence number of each waiter
  admitted,   \* the requests whose future was set
  active,     \* _active
  paused,     \* _background_paused
  closed,     \* _closed
  revoked,    \* requests whose cancel_event is set
  cancelled   \* requests whose task was cancelled, or timed out, in wait_for

queueVars == <<waiters, sequence, ticket>>
vars == <<phase, queueVars, admitted, active, paused, closed, revoked, cancelled>>

Phases == {"new",      \* acquire has not been called
           "waiting",  \* suspended in acquire
           "using",    \* holds the lease
           "left"}     \* released, or acquire raised

Using == {r \in Requests : phase[r] = "using"}
Granted == {r \in admitted : phase[r] = "waiting"}
\* Those that left acquire cancelled, after they had been admitted.
Leaked == {r \in admitted \cap cancelled : phase[r] = "left"}
-----------------------------------------------------------------------------
\* The filter of _admit_next (no future in the queue is done).
Eligible(r, nowPaused) == r \notin revoked /\ ~(nowPaused /\ r \in Background)

\* Mutant of Before: the newest of equal priority goes first.
BeforeNewestFirst(r, s, number) ==
  Priority[r] < Priority[s] \/ (Priority[r] = Priority[s] /\ number[r] >= number[s])
\* The order of _Waiter: priority, then sequence.
Before(r, s, number) ==
  Priority[r] < Priority[s] \/ (Priority[r] = Priority[s] /\ number[r] <= number[s])

\* _admit_next, the queue being q: a free slot goes to the best eligible waiter.
AdmitNext(q, number, busy, nowPaused) ==
  LET candidates == {r \in q : Eligible(r, nowPaused)}
  IN IF busy \/ closed \/ candidates = {}
     THEN waiters' = q /\ active' = busy /\ UNCHANGED admitted
     ELSE \E r \in candidates :
            /\ \A s \in candidates : Before(r, s, number)
            /\ waiters' = q \ {r}
            /\ active' = TRUE
            /\ admitted' = admitted \cup {r}

Moves(r, next) == phase' = [phase EXCEPT ![r] = next]
-----------------------------------------------------------------------------
\* acquire on a closed scheduler raises.
AcquireRefused(r) ==
  /\ phase[r] = "new" /\ closed
  /\ Moves(r, "left")
  /\ UNCHANGED <<queueVars, admitted, active, paused, closed, revoked, cancelled>>

\* Mutant of JoinTheLine: does not look whether the slot is free.
JoinOnly(r) == /\ ticket' = [ticket EXCEPT ![r] = sequence]
               /\ sequence' = sequence + 1
               /\ waiters' = waiters \cup {r}
               /\ UNCHANGED <<active, admitted>>
\* Enter the queue and look for someone to admit.
JoinTheLine(r) == /\ ticket' = [ticket EXCEPT ![r] = sequence]
                  /\ sequence' = sequence + 1
                  /\ AdmitNext(waiters \cup {r}, ticket', active, paused)

\* acquire: one admitted at once goes on without suspending when it waits in
\* wait_for; asyncio.wait suspends in any case.
Acquire(r) ==
  /\ phase[r] = "new" /\ ~closed
  /\ JoinTheLine(r)
  /\ Moves(r, IF r \in admitted' /\ r \notin Revocable THEN "using" ELSE "waiting")
  /\ UNCHANGED <<paused, closed, revoked, cancelled>>

\* try_acquire: never waits, and never overtakes a waiter.
TryAcquire(r) ==
  /\ phase[r] = "new"
  /\ IF closed \/ active \/ waiters # {} \/ ~Eligible(r, paused)
     THEN Moves(r, "left") /\ UNCHANGED active
     ELSE Moves(r, "using") /\ active' = TRUE
  /\ UNCHANGED <<queueVars, admitted, paused, closed, revoked, cancelled>>

\* An admitted request resumes and enters its lease.
Resume(r) ==
  /\ r \in Granted
  /\ r \notin cancelled
  /\ Moves(r, "using")
  /\ UNCHANGED <<queueVars, admitted, active, paused, closed, revoked, cancelled>>

\* acquire's `except BaseException`: only a waiter that was not admitted is removed.
\* A cancellation wins over a future that is set by the time the task resumes: it is
\* the shield around the future that is cancelled, or the task itself.
ResumeCancelled(r) ==
  /\ phase[r] = "waiting" /\ r \in cancelled
  /\ IF r \in admitted THEN UNCHANGED <<waiters, admitted, active>>
     ELSE AdmitNext(waiters \ {r}, ticket, active, paused)
  /\ Moves(r, "left")
  /\ UNCHANGED <<sequence, ticket, paused, closed, revoked, cancelled>>

\* The event path of acquire resumes with the event set or after its timeout, and
\* prefers an admission that came before it looks.
GiveUp(r) ==
  /\ phase[r] = "waiting" /\ r \in waiters \cap Revocable /\ r \notin cancelled
  /\ AdmitNext(waiters \ {r}, ticket, active, paused)
  /\ Moves(r, "left")
  /\ UNCHANGED <<sequence, ticket, paused, closed, revoked, cancelled>>

\* A waiter resumes with the SchedulerClosedError of close.
ResumeClosed(r) ==
  /\ phase[r] = "waiting" /\ r \notin waiters \cup admitted \cup cancelled
  /\ Moves(r, "left")
  /\ UNCHANGED <<queueVars, admitted, active, paused, closed, revoked, cancelled>>

\* Mutant of Release: the next waiter is not looked for.
ReleaseOnly(r) ==
  /\ phase[r] = "using"
  /\ active' = FALSE
  /\ Moves(r, "left")
  /\ UNCHANGED <<queueVars, admitted, paused, closed, revoked, cancelled>>
\* release, also when the model call failed or was cancelled.
Release(r) ==
  /\ phase[r] = "using"
  /\ AdmitNext(waiters, ticket, FALSE, paused)
  /\ Moves(r, "left")
  /\ UNCHANGED <<sequence, ticket, paused, closed, revoked, cancelled>>

\* The task of a request is cancelled (InnerOSQueryService.cancel, the summary worker),
\* or the timeout of wait_for fires, which cancels it as well.
Cancel(r) ==
  /\ r \in Cancellable \ cancelled /\ phase[r] = "waiting"
  /\ cancelled' = cancelled \cup {r}
  /\ UNCHANGED <<phase, queueVars, admitted, active, paused, closed, revoked>>

\* The caller sets the cancel_event it passed.
Revoke(r) ==
  /\ r \in Revocable \ revoked /\ phase[r] \in {"new", "waiting"}
  /\ revoked' = revoked \cup {r}
  /\ UNCHANGED <<phase, queueVars, admitted, active, paused, closed, cancelled>>

PauseBackground ==
  /\ ~paused
  /\ paused' = TRUE
  /\ UNCHANGED <<phase, queueVars, admitted, active, closed, revoked, cancelled>>

ResumeBackground ==
  /\ paused
  /\ paused' = FALSE
  /\ AdmitNext(waiters, ticket, active, FALSE)
  /\ UNCHANGED <<phase, sequence, ticket, closed, revoked, cancelled>>

\* close: every waiter gets a SchedulerClosedError; the lease that is out stays out.
Close ==
  /\ ~closed
  /\ closed' = TRUE
  /\ waiters' = {}
  /\ UNCHANGED <<phase, sequence, ticket, admitted, active, paused, revoked, cancelled>>
-----------------------------------------------------------------------------
Init ==
  /\ phase = [r \in Requests |-> "new"]
  /\ waiters = {} /\ sequence = 0 /\ ticket = [r \in Requests |-> 0] /\ admitted = {}
  /\ active = FALSE /\ paused = FALSE /\ closed = FALSE
  /\ revoked = {} /\ cancelled = {}

\* What a waiting request does when the event loop resumes it.
WakeUp(r) == Resume(r) \/ ResumeCancelled(r) \/ ResumeClosed(r)

Next ==
  \/ \E r \in Requests : \/ AcquireRefused(r) \/ Acquire(r) \/ TryAcquire(r)
                         \/ WakeUp(r) \/ GiveUp(r) \/ Release(r)
                         \/ Cancel(r) \/ Revoke(r)
  \/ PauseBackground \/ ResumeBackground \/ Close

\* The event loop resumes a task whose future is done, a set event wakes its waiter,
\* and a model call ends because it runs under asyncio.timeout.  Nobody has to
\* acquire, cancel, resume the background or close.
Fairness ==
  \A r \in Requests : /\ WF_vars(WakeUp(r))
                      /\ WF_vars(r \in revoked /\ GiveUp(r))
                      /\ WF_vars(Release(r))

Spec == Init /\ [][Next]_vars /\ Fairness
-----------------------------------------------------------------------------
TypeOK ==
  /\ phase \in [Requests -> Phases]
  /\ waiters \subseteq Requests
  /\ sequence \in Nat /\ ticket \in [Requests -> Nat]
  /\ admitted \subseteq Requests
  /\ active \in BOOLEAN /\ paused \in BOOLEAN /\ closed \in BOOLEAN
  /\ revoked \subseteq Requests /\ cancelled \subseteq Requests

\* The queue holds the requests that wait and were not admitted, whatever way the
\* others left acquire by: a waiter left behind would be given the slot with nobody
\* to release it.
QueueInvariant ==
  /\ TypeOK
  /\ waiters \subseteq {r \in Requests : phase[r] = "waiting"} \ admitted
  /\ admitted \cup cancelled \subseteq {r \in Requests : phase[r] # "new"}
  /\ closed => waiters = {}

\* One model call at a time, and none that the scheduler does not know of: two
\* requests never share the slot, not even one that uses it and one that was
\* admitted and has yet to resume.
OneSlot ==
  /\ Using \cup Granted # {} => active
  /\ \A r, s \in Using \cup Granted : r = s

\* While the slot is free nobody who could have it waits: each of the events that
\* makes somebody eligible looks for the next one to admit.
NobodyOverlooked ==
  ~active /\ ~closed => \A r \in waiters : ~Eligible(r, paused)

\* Whoever is admitted was not behind anybody: no eligible request of better
\* priority was left waiting, and no request that was there before it with the
\* same priority (try_acquire included).
NobodyOvertaken ==
  [][\A r \in Requests :
       (phase'[r] = "using" \/ r \in admitted') /\ ~(phase[r] = "using" \/ r \in admitted)
         => \A s \in waiters \cap waiters' :
              Eligible(s, paused') /\ r # s =>
                /\ Priority[r] <= Priority[s]
                /\ Priority[r] = Priority[s] => r \in waiters /\ ticket[r] < ticket[s]]_vars

\* No summary starts to use the model while a meeting is being recorded, but one
\* that was admitted before may go on.
RecordingHoldsBack ==
  [][\A r \in Background :
       phase'[r] = "using" /\ phase[r] # "using" /\ r \notin admitted => ~paused']_vars

\* A busy slot has a user, or one that is about to resume, or was kept by a waiter
\* that was cancelled too late: it is lost in no other way, neither by a revocation
\* nor by a close that comes between an admission and its resumption.
SlotAccountedFor == active => Using \cup Granted \cup Leaked # {}

\* The slot in one invariant: one user at most, never idle beside somebody who could
\* have it, and never lost but to a waiter that was cancelled too late.
SlotWellKept == QueueInvariant /\ OneSlot /\ NobodyOverlooked /\ SlotAccountedFor

\* The order of the slot: nobody is overtaken, and no summary enters during a recording.
AdmittedInTurn == NobodyOvertaken /\ RecordingHoldsBack

\* Every request that waits gets the slot or an error, unless the slot was lost or it
\* is a summary held back for as long as the recording lasts; after close every waiter
\* is released, the summaries too.
WaitersAnswered ==
  /\ \A r \in Requests \ Background :
       phase[r] = "waiting" ~> phase[r] # "waiting" \/ Leaked # {}
  /\ \A r \in Requests : closed /\ phase[r] = "waiting" ~> phase[r] # "waiting"
=============================================================================
