---------------------------- MODULE MeetingEvents ----------------------------
(***************************************************************************)
(* How a change of the meeting reaches the browsers: the revisions in the  *)
(* database (src/sona/meeting/repository.py), the tasks that commit a      *)
(* change and publish it some awaits later (meeting/session.py,            *)
(* meeting/api.py), the broadcaster with its revision gate and a bounded   *)
(* queue per client (meeting/events.py), the snapshot of a new connection  *)
(* (ui/websocket_routes.py) and the browser that patches its view or asks  *)
(* for the whole transcript (ui/src/hooks/useMeetingSocket.ts).            *)
(*                                                                         *)
(* One meeting.  A window of the transcript is named by the revision that  *)
(* it made.  An event is handled by the browser when the sender task takes *)
(* it from the queue: both sides of the socket are one step.               *)
(***************************************************************************)
EXTENDS Integers, Sequences, SequencesExt, FiniteSets

CONSTANTS
  Clients,    \* browser pages
  Requests,   \* rename requests that may run at the same time
  QueueSize,  \* queue_size of the broadcaster
  MaxContent, \* bound on changes of the meeting
  MaxVolatile, \* bound on partials, and on durable events without a revision
  MaxConnects, \* bound on connections, all pages together
  MaxFetches, \* bound on baseline requests under way, per page
  MaxFaults   \* bound on failed reads of the database and lost responses

ASSUME EventsAssumption ==
  /\ QueueSize \in Nat \ {0} /\ MaxFetches \in Nat \ {0}
  /\ MaxContent \in Nat /\ MaxVolatile \in Nat /\ MaxConnects \in Nat /\ MaxFaults \in Nat

VARIABLES
  stored,    \* the meeting row: [t |-> transcript_revision, c |-> content_revision]
  remapped,  \* the finalization has renamed the speakers of the whole transcript
  window,    \* the committed window that the session has yet to publish, or NoEvent
  renamed,   \* the same of each rename request
  cursor,    \* _revision_cursors of the meeting; Unset where there is none
  queue,     \* MeetingEventClient.queue of each page
  socket,    \* "closed", "reading" (before the snapshot), "read", "open"
  snapshot,  \* the revisions that a snapshot has read
  active,    \* the page shows this meeting (activeMeetingId)
  view,      \* what the page shows: [t |-> transcriptRevision, windows |-> SUBSET Nat]
  asked,     \* baseline requests that the server has yet to answer
  answers,   \* revisions of the baselines that are on their way back
  \* Bookkeeping of the properties, no part of the code.
  owed,      \* durable events accepted since the page connected that it has not been told of
  volatile, connects, faults

database == <<stored, remapped>>
producers == <<window, renamed, volatile>>
broadcaster == <<cursor, queue, owed>>
page == <<active, view, asked, answers>>
connection == <<socket, snapshot, connects>>
vars == <<database, producers, broadcaster, page, connection, faults>>

Unset == -1
Event(kind, t, c) == [kind |-> kind, t |-> t, c |-> c]
NoEvent == Event("none", 0, 0)
Resync == Event("resync_required", 0, 0)
Unread == [t |-> 0, c |-> 0]
Blank == [t |-> 0, windows |-> {}]

Init ==
  /\ stored = [t |-> 0, c |-> 0] /\ remapped = FALSE
  /\ window = NoEvent /\ renamed = [r \in Requests |-> NoEvent] /\ volatile = 0
  /\ cursor = [t |-> Unset, c |-> Unset] /\ queue = [p \in Clients |-> <<>>]
  /\ owed = [p \in Clients |-> {}]
  /\ active = [p \in Clients |-> FALSE] /\ view = [p \in Clients |-> Blank]
  /\ asked = [p \in Clients |-> 0] /\ answers = [p \in Clients |-> {}]
  /\ socket = [p \in Clients |-> "closed"] /\ snapshot = [p \in Clients |-> Unread]
  /\ connects = 0 /\ faults = 0
-----------------------------------------------------------------------------
(***************************************************************************)
(* The broadcaster.                                                        *)
(***************************************************************************)
Durable(e) == e.kind # "transcript_partial"
Registered == {p \in Clients : socket[p] # "closed"}

\* Mutant of Enqueued: the oldest event makes room, as for the snapshots of the runtime.
EnqueuedByDroppingOldest(q, e) ==
  IF Len(q) < QueueSize THEN Append(q, e)
  ELSE IF Durable(e) THEN Append(Tail(q), e) ELSE q

\* A full queue of a slow client drops a partial; any other event takes the place of all
\* that is in it, as a request to start afresh.
Enqueued(q, e) ==
  IF Len(q) < QueueSize THEN Append(q, e)
  ELSE IF Durable(e) THEN <<Resync>> ELSE q

Broadcast(e) ==
  /\ queue' = [p \in Clients |-> IF p \in Registered THEN Enqueued(queue[p], e) ELSE queue[p]]
  /\ owed' = [p \in Clients |->
                IF p \in Registered /\ Durable(e) THEN owed[p] \union {e} ELSE owed[p]]

\* The gate.  Fields that the event or the cursor lacks are not compared.
Fields(e) ==
  CASE e.kind = "transcript_reconciled" -> {"t", "c"}
    [] e.kind = "speaker_updated" -> {"c"}
    [] OTHER -> {}
Known(e) == {f \in Fields(e) : cursor[f] # Unset}
Jumps(e) == \E f \in Known(e) : e[f] > cursor[f] + 1
Stale(e) == \E f \in Known(e) : e[f] < cursor[f]

Publish(e) ==
  \/ /\ Jumps(e)
     /\ Broadcast(Resync)
     /\ UNCHANGED cursor
  \/ ~Jumps(e) /\ Stale(e) /\ UNCHANGED broadcaster
  \/ /\ ~Jumps(e) /\ ~Stale(e)
     /\ cursor' = [f \in {"t", "c"} |-> IF f \in Fields(e) THEN e[f] ELSE cursor[f]]
     /\ Broadcast(e)
-----------------------------------------------------------------------------
(***************************************************************************)
(* The producers.  Each commits in the database and publishes later: the   *)
(* session reads the names of the speakers in between.                     *)
(***************************************************************************)
ReconcileWindow ==
  /\ window = NoEvent /\ ~remapped /\ stored.c < MaxContent
  /\ stored' = [t |-> stored.t + 1, c |-> stored.c + 1]
  /\ window' = Event("transcript_reconciled", stored.t + 1, stored.c + 1)
  /\ UNCHANGED <<remapped, renamed, volatile, broadcaster, page, connection, faults>>

PublishWindow ==
  /\ window # NoEvent
  /\ Publish(window)
  /\ window' = NoEvent
  /\ UNCHANGED <<database, renamed, volatile, page, connection, faults>>

RenameSpeaker(r) ==
  /\ renamed[r] = NoEvent /\ stored.t > 0 /\ stored.c < MaxContent
  /\ stored' = [stored EXCEPT !.c = @ + 1]
  /\ renamed' = [renamed EXCEPT ![r] = Event("speaker_updated", 0, stored.c + 1)]
  /\ UNCHANGED <<remapped, window, volatile, broadcaster, page, connection, faults>>

UpdateSpeaker(r) ==
  /\ renamed[r] # NoEvent
  /\ Publish(renamed[r])
  /\ renamed' = [renamed EXCEPT ![r] = NoEvent]
  /\ UNCHANGED <<database, window, volatile, page, connection, faults>>

\* The end of the meeting: both revisions move and no event tells of it.
ApplySpeakerRemapping ==
  /\ window = NoEvent /\ ~remapped /\ stored.t > 0 /\ stored.c < MaxContent
  /\ stored' = [t |-> stored.t + 1, c |-> stored.c + 1]
  /\ remapped' = TRUE
  /\ UNCHANGED <<producers, broadcaster, page, connection, faults>>

\* What the model speaks, and every event that has no revision: state, title, minutes,
\* health, gap.
Unrevised ==
  /\ volatile < MaxVolatile
  /\ \E kind \in {"transcript_partial", "meeting_state_changed"} : Publish(Event(kind, 0, 0))
  /\ volatile' = volatile + 1
  /\ UNCHANGED <<database, window, renamed, page, connection, faults>>
-----------------------------------------------------------------------------
(***************************************************************************)
(* The connection.  The client is registered first, so its events may      *)
(* overtake the snapshot, and what the snapshot read becomes the cursor of *)
(* all clients when the read comes back.                                   *)
(***************************************************************************)
Connect(p) ==
  /\ socket[p] = "closed" /\ connects < MaxConnects
  /\ socket' = [socket EXCEPT ![p] = "reading"]
  /\ connects' = connects + 1
  /\ UNCHANGED <<database, producers, broadcaster, page, snapshot, faults>>

\* A failed read falls back on the state of the runtime, which has no revisions.
MeetingSnapshot(p) ==
  /\ socket[p] = "reading"
  /\ \/ snapshot' = [snapshot EXCEPT ![p] = stored] /\ UNCHANGED faults
     \/ /\ faults < MaxFaults
        /\ snapshot' = [snapshot EXCEPT ![p] = Unread]
        /\ faults' = faults + 1
  /\ socket' = [socket EXCEPT ![p] = "read"]
  /\ UNCHANGED <<database, producers, broadcaster, page, connects>>

MayAsk(p) == asked[p] + Cardinality(answers[p]) < MaxFetches
SyncBaselineTranscript(p) == MayAsk(p) /\ asked' = [asked EXCEPT ![p] = @ + 1]

ObserveSnapshot(p) ==
  /\ socket[p] = "read"
  /\ cursor' = snapshot[p]
  /\ snapshot' = [snapshot EXCEPT ![p] = Unread]
  /\ socket' = [socket EXCEPT ![p] = "open"]
  /\ active' = [active EXCEPT ![p] = TRUE]
  /\ view' = [view EXCEPT ![p] = IF active[p] THEN @ ELSE Blank]
  /\ SyncBaselineTranscript(p)
  /\ UNCHANGED <<database, producers, queue, owed, answers, connects, faults>>

RemoveClient(p) ==
  /\ socket[p] # "closed"
  /\ socket' = [socket EXCEPT ![p] = "closed"]
  /\ queue' = [queue EXCEPT ![p] = <<>>]
  /\ owed' = [owed EXCEPT ![p] = {}]
  /\ snapshot' = [snapshot EXCEPT ![p] = Unread]
  /\ UNCHANGED <<database, producers, cursor, page, connects, faults>>

\* The page is loaded again; its socket is already closed.
Reload(p) ==
  /\ socket[p] = "closed" /\ active[p]
  /\ active' = [active EXCEPT ![p] = FALSE]
  /\ view' = [view EXCEPT ![p] = Blank]
  /\ asked' = [asked EXCEPT ![p] = 0]
  /\ answers' = [answers EXCEPT ![p] = {}]
  /\ UNCHANGED <<database, producers, broadcaster, connection, faults>>
-----------------------------------------------------------------------------
(***************************************************************************)
(* The browser.                                                            *)
(***************************************************************************)
\* Mutant of Follows: every newer window is put into the view.
FollowsAny(p, e) == e.t > view[p].t

\* A page that shows something takes the next window only; an empty one takes any.
Follows(p, e) == view[p].t = 0 \/ e.t = view[p].t + 1

Reconciled(p, e) ==
  IF e.t <= view[p].t THEN UNCHANGED <<view, asked>>
  ELSE IF Follows(p, e)
       THEN /\ view' = [view EXCEPT ![p] = [t |-> e.t, windows |-> @.windows \union {e.t}]]
            /\ UNCHANGED asked
       ELSE SyncBaselineTranscript(p) /\ UNCHANGED view

\* A resync tells of everything that was published before it.
Told(p, e) == IF e = Resync THEN {} ELSE owed[p] \ {e}

Forward(p) ==
  /\ socket[p] # "closed" /\ queue[p] # <<>>
  /\ LET e == Head(queue[p]) IN
     /\ queue' = [queue EXCEPT ![p] = Tail(@)]
     /\ owed' = [owed EXCEPT ![p] = Told(p, e)]
     /\ CASE active[p] /\ e.kind = "transcript_reconciled" -> Reconciled(p, e)
          [] active[p] /\ e = Resync -> SyncBaselineTranscript(p) /\ UNCHANGED view
          [] OTHER -> UNCHANGED <<view, asked>>
  /\ UNCHANGED <<database, producers, cursor, active, answers, connection, faults>>

GetTranscript(p) ==
  /\ asked[p] > 0
  /\ asked' = [asked EXCEPT ![p] = @ - 1]
  /\ answers' = [answers EXCEPT ![p] = @ \union {stored.t}]
  /\ UNCHANGED <<database, producers, broadcaster, active, view, connection, faults>>

\* The answer replaces the view, whatever the page has shown since it asked.
BaselineArrives(p, t) ==
  /\ t \in answers[p]
  /\ answers' = [answers EXCEPT ![p] = @ \ {t}]
  /\ view' = [view EXCEPT ![p] = [t |-> t, windows |-> 1 .. t]]
  /\ UNCHANGED <<database, producers, broadcaster, active, asked, connection, faults>>
\* A request that fails is not made again: the page goes on with what it has.
BaselineFails(p) ==
  /\ asked[p] > 0 /\ faults < MaxFaults
  /\ asked' = [asked EXCEPT ![p] = @ - 1]
  /\ faults' = faults + 1
  /\ UNCHANGED <<database, producers, broadcaster, active, view, answers, connection>>
-----------------------------------------------------------------------------
Next ==
  \/ ReconcileWindow \/ PublishWindow
  \/ \E r \in Requests : RenameSpeaker(r) \/ UpdateSpeaker(r)
  \/ ApplySpeakerRemapping \/ Unrevised
  \/ \E p \in Clients :
       \/ Connect(p) \/ MeetingSnapshot(p) \/ ObserveSnapshot(p) \/ RemoveClient(p)
       \/ Reload(p) \/ Forward(p) \/ GetTranscript(p) \/ BaselineFails(p)
       \/ \E t \in answers[p] : BaselineArrives(p, t)

Spec == Init /\ [][Next]_vars
-----------------------------------------------------------------------------
TypeOK ==
  /\ stored \in [t : 0 .. MaxContent, c : 0 .. MaxContent]
  /\ \A p \in Clients :
       /\ Len(queue[p]) <= QueueSize
       /\ socket[p] \in {"closed", "reading", "read", "open"}
       /\ view[p].t \in 0 .. MaxContent /\ view[p].windows \subseteq 1 .. MaxContent
       /\ answers[p] \subseteq 0 .. MaxContent

\* A slow client loses events but not the knowledge of it: every durable event that the
\* broadcaster accepted while the client was connected is still in its queue, has been sent,
\* or is followed by a request to start afresh (MeetingEventBroadcaster._enqueue).
LossIsSignalled ==
  /\ TypeOK
  /\ \A p \in Clients :
       Contains(queue[p], Resync) \/ owed[p] \subseteq ToSet(queue[p])

\* Whatever a page was sent and in whatever order its snapshot, its events and the answers
\* to its requests came, there is no hole in what it shows: with a window it shows every
\* later one up to its revision (useMeetingSocket.ts, syncBaselineTranscript).
NoHoleInView ==
  \A p \in Clients : \A w \in view[p].windows : w .. view[p].t \subseteq view[p].windows
=============================================================================
