------------------------------- MODULE InnerOS -------------------------------
(***************************************************************************)
(* The private questions about a running meeting (src/sona/meeting/        *)
(* inner_os): one WebSocket connection with at most one active query       *)
(* (private_channel.py), the task of each query (service.py), the model    *)
(* call under a lease of the shared slot (model_client.py), the cache of   *)
(* unsaved answers (cache.py) and the request that saves one (api.py,      *)
(* repository.py).  A query is cancelled by its user, by the end of its    *)
(* connection and by the finalization of the meeting (ui/app_context.py).  *)
(*                                                                         *)
(* One meeting; a save may name another one.  Queries have fresh ids.      *)
(* Task.cancel() and the delivery of the cancellation are two steps.  The  *)
(* send of an event is one step, at whose await a cancellation may come    *)
(* after the event has gone out.                                           *)
(***************************************************************************)
EXTENDS Integers, Sequences, SequencesExt, FiniteSets

CONSTANTS
  Connections,
  Savers,     \* save requests that may run at the same time
  MaxQueries, \* bound on queries, which are numbered
  CacheSize,  \* cache_max_entries
  MaxFaults,  \* bound on failures of the database, the model and the browsers
  Other,      \* the title and the minutes, which share the model slot
  None        \* no query

Queries == 1 .. MaxQueries

ASSUME InnerOSAssumption ==
  /\ MaxQueries \in Nat /\ CacheSize \in Nat \ {0} /\ MaxFaults \in Nat
  /\ None \notin Queries /\ Other \notin Queries

Here == "here"
Meetings == {Here, "elsewhere"}

VARIABLES
  \* InnerOSConnectionSession and the loop that reads its socket.
  socket,  \* "open", "gone" (the browser left, nobody has noticed), "closed"
  active,  \* active_query
  loop,    \* "idle", or what the loop awaits: "accepting", "cancelling", "closing"
  waitsOn, \* the query whose task the loop waits for
  \* InnerOSQueryService._run of each query.
  pc, owner, flagged, \* where it is, its connection, Task.cancel() not yet delivered
  told,    \* events that reached the browser
  slot,    \* the model slot: None, a query, or Other
  cache,   \* _completed, the least recently used first
  \* The meeting and the requests.
  meeting, \* "recording", "finalizing" (committed), "cancelling", "cancelled" (announced)
  doomed,  \* the queries that cancel_meeting waits for
  saver,   \* [pc, query, meeting] of each save request
  saved,   \* rows of meeting_inner_os_exchanges
  \* Bookkeeping of the properties and bounds.
  cancelled, \* queries whose task was ever cancelled
  givenUp,   \* answers that expired, were evicted, were deleted, or whose save failed
  faults

session == <<socket, active, loop, waitsOn>>
task == <<pc, owner, flagged, told, cancelled>>
answers == <<slot, cache, givenUp>>
ending == <<meeting, doomed>>
saves == <<saver, saved>>
vars == <<session, task, answers, ending, saves, faults>>

IdleSaver == [pc |-> "idle", query |-> None, meeting |-> Here]
Init ==
  /\ socket = [k \in Connections |-> "open"] /\ active = [k \in Connections |-> None]
  /\ loop = [k \in Connections |-> "idle"] /\ waitsOn = [k \in Connections |-> None]
  /\ pc = [q \in Queries |-> "unasked"] /\ owner = [q \in Queries |-> None]
  /\ flagged = [q \in Queries |-> FALSE] /\ told = [q \in Queries |-> {}]
  /\ slot = None /\ cache = <<>>
  /\ meeting = "recording" /\ doomed = {}
  /\ saver = [s \in Savers |-> IdleSaver] /\ saved = {}
  /\ cancelled = {} /\ givenUp = {} /\ faults = 0

Registered == {q \in Queries : pc[q] \notin {"unasked", "accepting", "over"}}
Faulty == faults < MaxFaults /\ faults' = faults + 1

\* InnerOSQueryService.cancel of some queries, up to its await.
Flag(qs) ==
  /\ flagged' = [q \in Queries |-> flagged[q] \/ q \in qs \cap Registered]
  /\ cancelled' = cancelled \union (qs \cap Registered)
-----------------------------------------------------------------------------
(***************************************************************************)
(* The connection.                                                         *)
(***************************************************************************)
Asked == {q \in Queries : pc[q] # "unasked"}

\* The session forgets its query before it has it cancelled: nothing more is sent.
Close(k) ==
  /\ active' = [active EXCEPT ![k] = None]
  /\ waitsOn' = [waitsOn EXCEPT ![k] = active[k]]
  /\ loop' = [loop EXCEPT ![k] = "closing"]
  /\ Flag({active[k]})
  /\ UNCHANGED <<socket, pc, owner, told>>

Query(k) ==
  /\ loop[k] = "idle" /\ socket[k] # "closed" /\ Cardinality(Asked) < MaxQueries
  /\ \/ /\ active[k] # None /\ Close(k)
     \/ /\ active[k] = None
        /\ LET q == Cardinality(Asked) + 1 IN
           /\ active' = [active EXCEPT ![k] = q]
           /\ pc' = [pc EXCEPT ![q] = "accepting"]
           /\ owner' = [owner EXCEPT ![q] = k]
        /\ loop' = [loop EXCEPT ![k] = "accepting"]
        /\ UNCHANGED <<socket, waitsOn, flagged, told, cancelled>>
  /\ UNCHANGED <<answers, ending, saves, faults>>

\* The task exists only when the acknowledgement is out.
StartQuery(k) ==
  /\ loop[k] = "accepting"
  /\ LET q == active[k] IN
     \/ /\ socket[k] = "open"
        /\ told' = [told EXCEPT ![q] = @ \union {"accepted"}]
        /\ pc' = [pc EXCEPT ![q] = "new"]
        /\ loop' = [loop EXCEPT ![k] = "idle"]
        /\ UNCHANGED active
     \/ /\ socket[k] = "gone"
        /\ pc' = [pc EXCEPT ![q] = "over"]
        /\ active' = [active EXCEPT ![k] = None]
        /\ loop' = [loop EXCEPT ![k] = "closing"]
        /\ UNCHANGED told
  /\ UNCHANGED <<socket, waitsOn, owner, flagged, cancelled, answers, ending, saves, faults>>

\* A cancel command for the query that was last accepted; when it is over by then the
\* command is refused and the connection closed.
CancelCommand(k) ==
  /\ loop[k] = "idle" /\ socket[k] # "closed"
  /\ \/ active[k] = None /\ Close(k)
     \/ /\ active[k] # None
        /\ Flag({active[k]})
        /\ waitsOn' = [waitsOn EXCEPT ![k] = active[k]]
        /\ loop' = [loop EXCEPT ![k] = "cancelling"]
        /\ UNCHANGED <<socket, active, pc, owner, told>>
  /\ \E q \in Queries : owner[q] = k
  /\ UNCHANGED <<answers, ending, saves, faults>>

Disconnected(k) ==
  /\ loop[k] = "idle" /\ socket[k] = "gone"
  /\ Close(k)
  /\ UNCHANGED <<answers, ending, saves, faults>>

\* The wait for the cancelled task is over; a loop that was closing ends.
CancelReturns(k) ==
  /\ loop[k] \in {"cancelling", "closing"} /\ waitsOn[k] \notin Registered
  /\ IF loop[k] = "closing" THEN socket' = [socket EXCEPT ![k] = "closed"] ELSE UNCHANGED socket
  /\ loop' = [loop EXCEPT ![k] = "idle"]
  /\ waitsOn' = [waitsOn EXCEPT ![k] = None]
  /\ UNCHANGED <<active, task, answers, ending, saves, faults>>

\* After cancel_timeout_secs wait_for cancels the task once more, and waits on.
CancelTimeout(k) ==
  /\ loop[k] \in {"cancelling", "closing"}
  /\ waitsOn[k] \in Registered /\ ~flagged[waitsOn[k]]
  /\ Flag({waitsOn[k]})
  /\ UNCHANGED <<session, pc, owner, told, answers, ending, saves, faults>>

BrowserLeaves(k) ==
  /\ socket[k] = "open" /\ Faulty
  /\ socket' = [socket EXCEPT ![k] = "gone"]
  /\ UNCHANGED <<active, loop, waitsOn, task, answers, ending, saves>>
-----------------------------------------------------------------------------
(***************************************************************************)
(* The task of a query.                                                    *)
(***************************************************************************)
At(q, place) == pc[q] = place /\ ~flagged[q]
Go(q, place) ==
  /\ pc' = [pc EXCEPT ![q] = place]
  /\ UNCHANGED <<owner, flagged, cancelled>>
OnlyTask == UNCHANGED <<session, answers, ending, saves>>

\* Mutant of MeetingRead: the status is not looked at.
MeetingReadAny(q) ==
  /\ At(q, "new")
  /\ Go(q, "document")
  /\ UNCHANGED <<told, faults>> /\ OnlyTask

\* The answer to "is the meeting recording?".
MeetingRead(q) ==
  /\ At(q, "new")
  /\ Go(q, IF meeting = "recording" THEN "document" ELSE "failing")
  /\ UNCHANGED <<told, faults>> /\ OnlyTask

DocumentRead(q) ==
  /\ At(q, "document")
  /\ \/ Go(q, "starting") /\ UNCHANGED faults
     \/ Go(q, "failing") /\ Faulty
  /\ UNCHANGED told /\ OnlyTask

\* emit: an event of a query that is no longer the active one is swallowed, and a dead
\* socket raises.
Sent(q) == active[owner[q]] = q /\ socket[owner[q]] = "open"
Raises(q) == active[owner[q]] = q /\ socket[owner[q]] = "gone"

\* Without evidence the answer is made here, without the model.
AnswerStarted(q) ==
  /\ At(q, "starting")
  /\ \/ Raises(q) /\ Go(q, "failing")
     \/ ~Raises(q) /\ (Go(q, "waiting") \/ Go(q, "storing"))
  /\ UNCHANGED <<told, faults>> /\ OnlyTask

OnlySlot == UNCHANGED <<session, told, cache, givenUp, ending, saves>>
Acquire(q) ==
  /\ At(q, "waiting") /\ slot = None
  /\ slot' = q
  /\ Go(q, "model")
  /\ UNCHANGED faults /\ OnlySlot

\* Mutant of AcquireTimeout: the wait for the slot is not bounded.
AcquireTimeoutNever(q) == FALSE

\* acquire_timeout_secs.
AcquireTimeout(q) ==
  /\ At(q, "waiting") /\ slot # None
  /\ Go(q, "failing")
  /\ UNCHANGED <<slot, faults>> /\ OnlySlot

\* An answer that cannot be parsed is repaired once; the model may fail or take too long.
ModelAnswers(q) ==
  /\ At(q, "model") \/ At(q, "repair")
  /\ \/ /\ Go(q, "storing") /\ slot' = None /\ UNCHANGED faults
     \/ /\ pc[q] = "model" /\ Go(q, "repair") /\ Faulty /\ UNCHANGED slot
     \/ /\ Go(q, "failing") /\ slot' = None /\ Faulty
  /\ OnlySlot

\* An answer that is too large is refused; one too many pushes out the oldest.
StoreCompleted(q) ==
  /\ At(q, "storing")
  /\ \/ /\ LET stored == Append(cache, q) IN
           IF Len(stored) > CacheSize
           THEN cache' = Tail(stored) /\ givenUp' = givenUp \union {Head(stored)}
           ELSE cache' = stored /\ UNCHANGED givenUp
        /\ Go(q, "completing") /\ UNCHANGED faults
     \/ /\ Faulty /\ Go(q, "failing") /\ UNCHANGED <<cache, givenUp>>
  /\ UNCHANGED <<session, told, slot, ending, saves>>

\* A terminal event clears the active query once it is sent.
Terminal(q, event) ==
  /\ Go(q, "over")
  /\ IF Sent(q) THEN /\ told' = [told EXCEPT ![q] = @ \union {event}]
                     /\ active' = [active EXCEPT ![owner[q]] = None]
                ELSE UNCHANGED <<told, active>>
  /\ UNCHANGED <<socket, loop, waitsOn, answers, ending, saves, faults>>

EmitTerminal(q) ==
  \/ At(q, "completing") /\ ~Raises(q) /\ Terminal(q, "completed")
  \/ /\ At(q, "completing") /\ Raises(q)
     /\ Go(q, "failing") /\ UNCHANGED <<told, faults>> /\ OnlyTask
  \/ At(q, "failing") /\ Terminal(q, "failed")
  \/ At(q, "cancelling") /\ Terminal(q, "cancelled")

\* A cancellation is announced, unless it comes before the task has run at all, or while
\* it announces a failure or an earlier cancellation: then nothing is, and the connection
\* keeps a query that is over.
Delivered(q) ==
  IF pc[q] \in {"new", "failing", "cancelling"} THEN "over" ELSE "cancelling"

CancelDelivered(q) ==
  /\ flagged[q]
  /\ pc' = [pc EXCEPT ![q] = Delivered(q)]
  /\ flagged' = [flagged EXCEPT ![q] = FALSE]
  /\ slot' = IF slot = q THEN None ELSE slot
  /\ \/ UNCHANGED told
     \/ pc[q] = "completing" /\ Sent(q) /\ told' = [told EXCEPT ![q] = @ \union {"completed"}]
     \/ pc[q] = "failing" /\ Sent(q) /\ told' = [told EXCEPT ![q] = @ \union {"failed"}]
  /\ UNCHANGED <<session, owner, cancelled, cache, givenUp, ending, saves, faults>>

\* Title and minutes share the slot.
OtherWorkload ==
  /\ slot' = CASE slot = None -> Other [] slot = Other -> None [] OTHER -> slot
  /\ slot \in {None, Other}
  /\ UNCHANGED <<session, task, cache, givenUp, ending, saves, faults>>

\* An answer is in the cache once.
Without(q) == RemoveAt(cache, CHOOSE i \in 1 .. Len(cache) : cache[i] = q)

\* cache_ttl_secs.
Expire(q) ==
  /\ Contains(cache, q)
  /\ cache' = Without(q)
  /\ givenUp' = givenUp \union {q}
  /\ UNCHANGED <<session, task, slot, ending, saves, faults>>
-----------------------------------------------------------------------------
(***************************************************************************)
(* The finalization of the meeting: the status is committed, then its      *)
(* announcement cancels the queries, then the recording is flushed.        *)
(***************************************************************************)
SetFinalizing ==
  /\ meeting = "recording"
  /\ meeting' = "finalizing"
  /\ UNCHANGED <<session, task, answers, doomed, saves, faults>>

CancelMeeting ==
  /\ meeting = "finalizing"
  /\ meeting' = "cancelling"
  /\ doomed' = Registered
  /\ Flag(Registered)
  /\ UNCHANGED <<session, pc, owner, told, answers, saves, faults>>

CancelMeetingTimeout ==
  /\ meeting = "cancelling"
  /\ \E q \in doomed \cap Registered : ~flagged[q] /\ Flag({q})
  /\ UNCHANGED <<session, pc, owner, told, answers, ending, saves, faults>>

MeetingCancelled ==
  /\ meeting = "cancelling" /\ doomed \cap Registered = {}
  /\ meeting' = "cancelled" /\ doomed' = {}
  /\ UNCHANGED <<session, task, answers, saves, faults>>
-----------------------------------------------------------------------------
(***************************************************************************)
(* PUT /exchanges/{id}: read the table, then take the answer from the      *)
(* cache, then write it.  The browser saves what it was shown.             *)
(***************************************************************************)
SaveExchange(s, q, m) ==
  /\ saver[s].pc = "idle" /\ "completed" \in told[q]
  /\ q \notin saved \/ m # Here
  /\ saver' = [saver EXCEPT ![s] = [pc |-> "checked", query |-> q, meeting |-> m]]
  /\ UNCHANGED <<session, task, answers, ending, saved, faults>>

\* Mutant of MayTake: the meeting of the answer is compared after it was taken.
MayTakeAny(s) == Contains(cache, saver[s].query)

\* Only the meeting of the answer may have it.
MayTake(s) == Contains(cache, saver[s].query) /\ saver[s].meeting = Here

TakeCompleted(s) ==
  /\ saver[s].pc = "checked"
  /\ IF MayTake(s)
     THEN /\ cache' = Without(saver[s].query)
          /\ saver' = [saver EXCEPT ![s] = IF @.meeting = Here THEN [@ EXCEPT !.pc = "saving"]
                                           ELSE IdleSaver]
     ELSE saver' = [saver EXCEPT ![s] = IdleSaver] /\ UNCHANGED cache
  /\ UNCHANGED <<session, task, slot, givenUp, ending, saved, faults>>

Saved(s) ==
  /\ saver[s].pc = "saving"
  /\ \/ saved' = saved \union {saver[s].query} /\ UNCHANGED <<givenUp, faults>>
     \/ Faulty /\ givenUp' = givenUp \union {saver[s].query} /\ UNCHANGED saved
  /\ saver' = [saver EXCEPT ![s] = IdleSaver]
  /\ UNCHANGED <<session, task, slot, cache, ending>>

DeleteExchange(q) ==
  /\ q \in saved
  /\ saved' = saved \ {q}
  /\ givenUp' = givenUp \union {q}
  /\ UNCHANGED <<session, task, slot, cache, ending, saver, faults>>
-----------------------------------------------------------------------------
Run(q) ==
  \/ MeetingRead(q) \/ DocumentRead(q) \/ AnswerStarted(q) \/ Acquire(q) \/ AcquireTimeout(q)
  \/ ModelAnswers(q) \/ StoreCompleted(q) \/ EmitTerminal(q) \/ CancelDelivered(q)

Next ==
  \/ \E k \in Connections :
       \/ Query(k) \/ StartQuery(k) \/ CancelCommand(k) \/ Disconnected(k) \/ CancelReturns(k)
       \/ CancelTimeout(k) \/ BrowserLeaves(k)
  \/ \E q \in Queries : Run(q) \/ Expire(q) \/ DeleteExchange(q)
  \/ OtherWorkload
  \/ SetFinalizing \/ CancelMeeting \/ CancelMeetingTimeout \/ MeetingCancelled
  \/ \E s \in Savers :
       \/ \E q \in Queries, m \in Meetings : SaveExchange(s, q, m)
       \/ TakeCompleted(s) \/ Saved(s)

\* The event loop runs every task that can go on; a lease is waited for at most
\* acquire_timeout_secs, the model at most fact_timeout_secs.
Fairness ==
  /\ \A q \in Queries : WF_vars(Run(q))
  /\ \A k \in Connections : WF_vars(StartQuery(k)) /\ WF_vars(CancelReturns(k))
Spec == Init /\ [][Next]_vars /\ Fairness
-----------------------------------------------------------------------------
TypeOK ==
  /\ \A k \in Connections : active[k] \in Queries \union {None}
  /\ slot \in Queries \union {None, Other}
  /\ Len(cache) <= CacheSize /\ IsInjective(cache)
  /\ saved \subseteq Queries /\ doomed \subseteq Queries

\* Once cancel_meeting has returned and the recording is flushed, no query of the meeting
\* holds the model or is still on its way to it, also not one that was accepted while the
\* meeting began to end (publish_meeting_event, InnerOSQueryService._run).
FinalizingStopsAnswers ==
  /\ TypeOK
  /\ meeting = "cancelled" =>
       /\ slot \notin Queries
       /\ \A q \in Queries :
            pc[q] \notin {"document", "starting", "waiting", "model", "repair", "storing"}

\* An answer that the browser was shown can be saved until it expires or is pushed out: it
\* is not consumed by a request for another meeting or by two requests at once
\* (save_exchange, "a malformed cross-meeting request must be harmless").
KeptUntilSaved ==
  \A q \in Queries : "completed" \in told[q] =>
    \/ Contains(cache, q) \/ q \in saved \/ q \in givenUp
    \/ \E s \in Savers : saver[s].pc = "saving" /\ saver[s].query = q

\* Every accepted query ends with an event on its connection, unless it was cancelled or
\* the browser has left, however long others keep the model.
QueriesAreAnswered ==
  \A q \in Queries :
    "accepted" \in told[q] ~>
      \/ told[q] \cap {"completed", "failed"} # {}
      \/ q \in cancelled \/ \E k \in Connections : owner[q] = k /\ socket[k] # "open"
=============================================================================
