--------------------------- MODULE TranscriptProofs ---------------------------
(***************************************************************************)
(* What holds of the transcript of a meeting, as it is written             *)
(* (TranscriptTimeline, with SpeakerLabels) and as the pages show it       *)
(* (MeetingEvents).                                                        *)
(*                                                                         *)
(* Of the pages, for any of them, any sizes of the queues and any number   *)
(* of changes: LossIsSignalled, because each page alone is owed only what  *)
(* is in its queue or is told to start afresh; and NoHoleInView, because a *)
(* page that shows nothing has no windows and any other takes the next     *)
(* window only.                                                            *)
(*                                                                         *)
(* Of the transcript, for any times, turns, voices and flickers: what was  *)
(* said is kept at its time, long speech by its speaker, the overlay finds *)
(* the voices, and a turn without bounds follows the others.  While the    *)
(* meeting is recorded a server that announces both bounds and the         *)
(* transcriber agree on the time, so what is said waits in order in        *)
(* pending, between the beginning of the item and its end; the transcript  *)
(* ends where the item begins; so a turn replaces nothing, and the last    *)
(* window replaces only itself.  The passes of the smoother are followed   *)
(* segment by segment, and the sums of the overlay element by element.     *)
(***************************************************************************)
EXTENDS MeetingEvents, TranscriptTimeline, FiniteSetTheorems, SequenceTheorems, WellFoundedInduction,
        NaturalsInduction, TLAPS
-----------------------------------------------------------------------------
(***************************************************************************)
(* The events of a meeting.                                                *)
(***************************************************************************)
Kinds == {"none", "resync_required", "transcript_reconciled", "speaker_updated",
          "transcript_partial", "meeting_state_changed"}
Events == [kind : Kinds, t : 0 .. MaxContent, c : 0 .. MaxContent]

StoredTypes ==
  /\ stored \in [t : 0 .. MaxContent, c : 0 .. MaxContent]
  /\ stored.t <= stored.c
ProducerTypes == window \in Events /\ renamed \in [Requests -> Events]
SocketTypes == socket \in [Clients -> {"closed", "reading", "read", "open"}]
QueueTypes ==
  /\ queue \in [Clients -> Seq(Events)]
  /\ \A p \in Clients : Len(queue[p]) <= QueueSize
AnswerTypes == answers \in [Clients -> SUBSET (0 .. MaxContent)]
ViewTypes == view \in [Clients -> [t : 0 .. MaxContent, windows : SUBSET (1 .. MaxContent)]]

\* A page is owed nothing that is not in its queue, or the queue tells it to start afresh.
Signalled(o, q) == Contains(q, Resync) \/ o \subseteq ToSet(q)
AllSignalled == owed \in [Clients -> SUBSET Events] /\ \A p \in Clients : Signalled(owed[p], queue[p])

\* The windows of a view end at its revision and have no hole.
Whole(v) == v.windows \subseteq 1 .. v.t /\ \A w \in v.windows : w .. v.t \subseteq v.windows
AllWhole == \A p \in Clients : Whole(view[p])

Ind ==
  /\ StoredTypes /\ ProducerTypes /\ SocketTypes /\ QueueTypes /\ AnswerTypes /\ ViewTypes
  /\ AllSignalled /\ AllWhole

LEMMA Consequences == Ind => LossIsSignalled /\ NoHoleInView
<1> SUFFICES ASSUME Ind PROVE LossIsSignalled /\ NoHoleInView
  OBVIOUS
<1> USE DEF Ind
<1>1. TypeOK
  BY DEF StoredTypes, SocketTypes, QueueTypes, AnswerTypes, ViewTypes, TypeOK
<1>2. LossIsSignalled
  BY <1>1 DEF AllSignalled, Signalled, LossIsSignalled
<1>3. NoHoleInView
  BY DEF AllWhole, Whole, NoHoleInView
<1> QED
  BY <1>2, <1>3

LEMMA InitInd == Init => Ind
<1> SUFFICES ASSUME Init PROVE Ind
  OBVIOUS
<1> USE EventsAssumption DEF Init
<1>1. StoredTypes /\ SocketTypes /\ AnswerTypes
  BY DEF StoredTypes, SocketTypes, AnswerTypes
<1>2. ProducerTypes
  BY DEF ProducerTypes, NoEvent, Event, Events, Kinds
<1>3. QueueTypes
  BY DEF QueueTypes
<1>4. ViewTypes /\ AllWhole
  BY DEF ViewTypes, AllWhole, Whole, Blank
<1>5. AllSignalled
  BY DEF AllSignalled, Signalled
<1> QED
  BY <1>1, <1>2, <1>3, <1>4, <1>5 DEF Ind

-----------------------------------------------------------------------------
(***************************************************************************)
(* The queue of one page.                                                  *)
(***************************************************************************)
LEMMA EventTypes ==
  ASSUME NEW kind \in Kinds, NEW t \in 0 .. MaxContent, NEW c \in 0 .. MaxContent
  PROVE Event(kind, t, c) \in Events
  BY DEF Event, Events

LEMMA ResyncType == Resync \in Events /\ Durable(Resync)
  BY EventsAssumption, EventTypes DEF Resync, Kinds, Durable, Event

\* What is appended is in the queue, with all that was there.
LEMMA AppendedIsThere ==
  ASSUME NEW S, NEW q \in Seq(S), NEW e \in S
  PROVE /\ ToSet(Append(q, e)) = ToSet(q) \cup {e}
        /\ Contains(q, Resync) => Contains(Append(q, e), Resync)
<1>1. /\ Append(q, e) \in Seq(S) /\ Len(Append(q, e)) = Len(q) + 1
      /\ \A i \in 1 .. Len(q) : Append(q, e)[i] = q[i]
      /\ Append(q, e)[Len(q) + 1] = e
  OBVIOUS
<1>2. DOMAIN q = 1 .. Len(q) /\ DOMAIN Append(q, e) = 1 .. Len(q) + 1 /\ Len(q) \in Nat
  BY <1>1
<1>3. Contains(q, Resync) => Contains(Append(q, e), Resync)
  BY <1>1, <1>2 DEF Contains
<1>4. ToSet(Append(q, e)) \subseteq ToSet(q) \cup {e}
  BY <1>1, <1>2 DEF ToSet
<1>5. ToSet(q) \cup {e} \subseteq ToSet(Append(q, e))
  BY <1>1, <1>2 DEF ToSet
<1> QED
  BY <1>3, <1>4, <1>5

\* What is taken was the head, and nothing else goes.
LEMMA TakenIsTheHead ==
  ASSUME NEW S, NEW q \in Seq(S), q # <<>>
  PROVE /\ Head(q) \in S /\ Tail(q) \in Seq(S) /\ Len(Tail(q)) <= Len(q)
        /\ ToSet(q) = {Head(q)} \cup ToSet(Tail(q))
        /\ Contains(q, Resync) => Head(q) = Resync \/ Contains(Tail(q), Resync)
<1>1. /\ Head(q) = q[1] /\ Head(q) \in S /\ Tail(q) \in Seq(S)
      /\ Len(Tail(q)) = Len(q) - 1 /\ Len(q) \in Nat \ {0}
      /\ \A i \in 1 .. Len(Tail(q)) : Tail(q)[i] = q[i + 1]
  OBVIOUS
<1>2. DOMAIN q = 1 .. Len(q) /\ DOMAIN Tail(q) = 1 .. Len(q) - 1
  BY <1>1
<1>3. \A i \in 1 .. Len(q) : i = 1 \/ (i - 1 \in 1 .. Len(Tail(q)) /\ Tail(q)[i - 1] = q[i])
  <2> SUFFICES ASSUME NEW i \in 1 .. Len(q), i # 1
               PROVE i - 1 \in 1 .. Len(Tail(q)) /\ Tail(q)[i - 1] = q[i]
    OBVIOUS
  <2>1. i - 1 \in 1 .. Len(Tail(q)) /\ (i - 1) + 1 = i
    BY <1>1
  <2>2. Tail(q)[i - 1] = q[(i - 1) + 1]
    BY <1>1, <2>1
  <2> QED
    BY <2>1, <2>2
<1>4. ToSet(q) \subseteq {Head(q)} \cup ToSet(Tail(q))
  <2> SUFFICES ASSUME NEW i \in 1 .. Len(q) PROVE q[i] \in {Head(q)} \cup ToSet(Tail(q))
    BY <1>2 DEF ToSet
  <2>1. CASE i = 1
    BY <1>1, <2>1
  <2>2. CASE i # 1
    <3>1. i - 1 \in DOMAIN Tail(q) /\ Tail(q)[i - 1] = q[i]
      BY <1>1, <1>2, <1>3, <2>2
    <3> QED
      BY <3>1, Zenon DEF ToSet
  <2> QED
    BY <2>1, <2>2
<1>5. {Head(q)} \cup ToSet(Tail(q)) \subseteq ToSet(q)
  BY <1>1, <1>2 DEF ToSet
<1>6. Contains(q, Resync) => Head(q) = Resync \/ Contains(Tail(q), Resync)
  BY <1>1, <1>2, <1>3 DEF Contains
<1> QED
  BY <1>1, <1>4, <1>5, <1>6

\* A durable event that a full queue has no place for leaves the request to start afresh.
LEMMA EnqueuedSignals ==
  ASSUME NEW q \in Seq(Events), Len(q) <= QueueSize, NEW e \in Events, NEW o, Signalled(o, q)
  PROVE /\ Enqueued(q, e) \in Seq(Events) /\ Len(Enqueued(q, e)) <= QueueSize
        /\ Signalled(IF Durable(e) THEN o \cup {e} ELSE o, Enqueued(q, e))
<1>1. CASE Len(q) < QueueSize
  BY <1>1, AppendedIsThere, EventsAssumption DEF Enqueued, Signalled
<1>2. CASE Len(q) >= QueueSize /\ Durable(e)
  <2> DEFINE fresh == <<Resync>>
  <2>1. fresh \in Seq(Events) /\ Len(fresh) = 1 /\ fresh[1] = Resync
    BY ResyncType
  <2>2. Enqueued(q, e) = fresh
    BY <1>2, EventsAssumption DEF Enqueued
  <2> HIDE DEF fresh
  <2>3. Contains(fresh, Resync)
    BY <2>1 DEF Contains
  <2>4. Len(fresh) <= QueueSize
    BY <2>1, EventsAssumption
  <2> QED
    BY <2>1, <2>2, <2>3, <2>4 DEF Signalled
<1>3. CASE Len(q) >= QueueSize /\ ~Durable(e)
  BY <1>3, EventsAssumption DEF Enqueued
<1> QED
  BY <1>1, <1>2, <1>3, EventsAssumption

LEMMA BroadcastSignals ==
  ASSUME QueueTypes, AllSignalled, NEW e \in Events, Broadcast(e)
  PROVE QueueTypes' /\ AllSignalled'
<1> USE DEF QueueTypes, AllSignalled
<1>1. ASSUME NEW p \in Clients
      PROVE /\ queue'[p] \in Seq(Events) /\ Len(queue'[p]) <= QueueSize
            /\ owed'[p] \in SUBSET Events /\ Signalled(owed'[p], queue'[p])
  <2>1. CASE p \in Registered
    <3>1. queue'[p] = Enqueued(queue[p], e)
          /\ owed'[p] = IF Durable(e) THEN owed[p] \cup {e} ELSE owed[p]
      BY <2>1 DEF Broadcast
    <3> QED
      BY <3>1, EnqueuedSignals
  <2>2. CASE p \notin Registered
    BY <2>2 DEF Broadcast
  <2> QED
    BY <2>1, <2>2
<1>2. queue' \in [Clients -> Seq(Events)] /\ owed' \in [Clients -> SUBSET Events]
  BY <1>1 DEF Broadcast
<1> QED
  BY <1>1, <1>2

LEMMA PublishSignals ==
  ASSUME QueueTypes, AllSignalled, NEW e \in Events, Publish(e)
  PROVE QueueTypes' /\ AllSignalled'
<1>1. CASE Broadcast(Resync)
  BY <1>1, BroadcastSignals, ResyncType
<1>2. CASE Broadcast(e)
  BY <1>2, BroadcastSignals
<1>3. CASE UNCHANGED broadcaster
  BY <1>3 DEF broadcaster, QueueTypes, AllSignalled
<1> QED
  BY <1>1, <1>2, <1>3 DEF Publish

-----------------------------------------------------------------------------
(***************************************************************************)
(* The producers.                                                          *)
(***************************************************************************)
LEMMA ProducersKeep ==
  ASSUME Ind,
         \/ ReconcileWindow \/ PublishWindow
         \/ \E r \in Requests : RenameSpeaker(r) \/ UpdateSpeaker(r)
         \/ ApplySpeakerRemapping \/ Unrevised
  PROVE Ind'
<1> USE EventsAssumption DEF Ind
<1> DEFINE Rest == SocketTypes /\ AnswerTypes /\ ViewTypes /\ AllWhole
<1>0. ASSUME UNCHANGED <<page, connection>> PROVE Rest'
  BY <1>0 DEF page, connection, SocketTypes, AnswerTypes, ViewTypes, AllWhole
<1>1. CASE ReconcileWindow
  <2>1. stored' = [t |-> stored.t + 1, c |-> stored.c + 1]
        /\ stored.t + 1 \in 0 .. MaxContent /\ stored.c + 1 \in 0 .. MaxContent
    BY <1>1 DEF ReconcileWindow, StoredTypes
  <2>2. StoredTypes'
    BY <2>1 DEF StoredTypes
  <2>3. ProducerTypes'
    BY <1>1, <2>1, EventTypes DEF ReconcileWindow, ProducerTypes, Kinds
  <2>4. QueueTypes' /\ AllSignalled' /\ Rest'
    BY <1>0, <1>1 DEF ReconcileWindow, broadcaster, QueueTypes, AllSignalled
  <2> QED
    BY <2>2, <2>3, <2>4
<1>2. CASE PublishWindow
  <2>1. QueueTypes' /\ AllSignalled'
    BY <1>2, PublishSignals DEF PublishWindow, ProducerTypes
  <2>2. ProducerTypes'
    BY <1>2, EventTypes DEF PublishWindow, ProducerTypes, NoEvent, Kinds
  <2>3. StoredTypes' /\ Rest'
    BY <1>0, <1>2 DEF PublishWindow, database, StoredTypes
  <2> QED
    BY <2>1, <2>2, <2>3
<1>3. ASSUME NEW r \in Requests, RenameSpeaker(r) PROVE Ind'
  <2>1. stored' = [stored EXCEPT !.c = @ + 1] /\ stored.c + 1 \in 0 .. MaxContent
    BY <1>3 DEF RenameSpeaker, StoredTypes
  <2>2. StoredTypes'
    BY <2>1 DEF StoredTypes
  <2>3. ProducerTypes'
    <3>1. Event("speaker_updated", 0, stored.c + 1) \in Events
      BY <2>1, EventTypes DEF Kinds
    <3> QED
      BY <1>3, <3>1 DEF RenameSpeaker, ProducerTypes
  <2>4. QueueTypes' /\ AllSignalled' /\ Rest'
    BY <1>0, <1>3 DEF RenameSpeaker, broadcaster, QueueTypes, AllSignalled
  <2> QED
    BY <2>2, <2>3, <2>4
<1>4. ASSUME NEW r \in Requests, UpdateSpeaker(r) PROVE Ind'
  <2>1. QueueTypes' /\ AllSignalled'
    BY <1>4, PublishSignals DEF UpdateSpeaker, ProducerTypes
  <2>2. ProducerTypes'
    <3>1. NoEvent \in Events
      BY EventTypes DEF NoEvent, Kinds
    <3> QED
      BY <1>4, <3>1 DEF UpdateSpeaker, ProducerTypes
  <2>3. StoredTypes' /\ Rest'
    BY <1>0, <1>4 DEF UpdateSpeaker, database, StoredTypes
  <2> QED
    BY <2>1, <2>2, <2>3
<1>5. CASE ApplySpeakerRemapping
  <2>1. stored' = [t |-> stored.t + 1, c |-> stored.c + 1]
        /\ stored.t + 1 \in 0 .. MaxContent /\ stored.c + 1 \in 0 .. MaxContent
    BY <1>5 DEF ApplySpeakerRemapping, StoredTypes
  <2>2. StoredTypes'
    BY <2>1 DEF StoredTypes
  <2> QED
    BY <1>0, <1>5, <2>2 DEF ApplySpeakerRemapping, producers, broadcaster, ProducerTypes, QueueTypes,
       AllSignalled
<1>6. CASE Unrevised
  <2>1. PICK kind \in {"transcript_partial", "meeting_state_changed"} : Publish(Event(kind, 0, 0))
    BY <1>6 DEF Unrevised
  <2>2. Event(kind, 0, 0) \in Events
    BY EventTypes DEF Kinds
  <2>3. QueueTypes' /\ AllSignalled'
    BY <2>1, <2>2, PublishSignals
  <2> QED
    BY <1>0, <1>6, <2>3 DEF Unrevised, database, StoredTypes, ProducerTypes
<1> QED
  BY <1>1, <1>2, <1>3, <1>4, <1>5, <1>6

-----------------------------------------------------------------------------
(***************************************************************************)
(* The connection and the browser.                                         *)
(***************************************************************************)
\* The next window, and any window in an empty view, leave no hole.
LEMMA FollowingIsWhole ==
  ASSUME NEW p \in Clients, NEW e \in Events, ViewTypes, Whole(view[p]),
         e.t > view[p].t, Follows(p, e)
  PROVE /\ [t |-> e.t, windows |-> view[p].windows \cup {e.t}]
           \in [t : 0 .. MaxContent, windows : SUBSET (1 .. MaxContent)]
        /\ Whole([t |-> e.t, windows |-> view[p].windows \cup {e.t}])
<1> DEFINE v == view[p]
           n == [t |-> e.t, windows |-> v.windows \cup {e.t}]
<1>1. v.t \in 0 .. MaxContent /\ v.windows \subseteq 1 .. MaxContent /\ e.t \in 0 .. MaxContent
  BY DEF ViewTypes, Events
<1>2. n.t = e.t /\ n.windows = v.windows \cup {e.t}
  OBVIOUS
<1>3. v.t = 0 => v.windows = {}
  BY DEF Whole
<1>4. n.windows \subseteq 1 .. n.t
  BY <1>1, <1>2, EventsAssumption DEF Whole
<1>5. ASSUME NEW w \in n.windows PROVE w .. n.t \subseteq n.windows
  BY <1>1, <1>2, <1>3, <1>5, EventsAssumption DEF Whole, Follows
<1> QED
  BY <1>1, <1>2, <1>4, <1>5, EventsAssumption DEF Whole

LEMMA ForwardKeeps ==
  ASSUME Ind, NEW p \in Clients, Forward(p) PROVE Ind'
<1> USE DEF Ind
<1> DEFINE e == Head(queue[p])
<1>1. queue[p] # <<>> /\ queue[p] \in Seq(Events)
  BY DEF Forward, QueueTypes
<1>2. /\ e \in Events /\ Tail(queue[p]) \in Seq(Events)
      /\ Len(Tail(queue[p])) <= Len(queue[p])
      /\ ToSet(queue[p]) = {e} \cup ToSet(Tail(queue[p]))
      /\ Contains(queue[p], Resync) => e = Resync \/ Contains(Tail(queue[p]), Resync)
  BY <1>1, TakenIsTheHead
<1>3. QueueTypes'
  BY <1>1, <1>2, EventsAssumption, LenProperties DEF Forward, QueueTypes
<1>4. AllSignalled'
  <2>1. queue' = [queue EXCEPT ![p] = Tail(@)] /\ owed' = [owed EXCEPT ![p] = Told(p, e)]
    BY DEF Forward
  <2>2. Told(p, e) \in SUBSET Events
    BY DEF Told, AllSignalled
  <2>3. Signalled(Told(p, e), Tail(queue[p]))
    BY <1>2 DEF AllSignalled, Signalled, Told
  <2>4. \A o \in Clients :
          o # p => queue'[o] = queue[o] /\ owed'[o] = owed[o]
    BY <2>1 DEF AllSignalled, QueueTypes
  <2>5. queue'[p] = Tail(queue[p]) /\ owed'[p] = Told(p, e)
    BY <2>1 DEF AllSignalled, QueueTypes
  <2>6. owed' \in [Clients -> SUBSET Events]
    BY <2>1, <2>2 DEF AllSignalled
  <2>7. ASSUME NEW o \in Clients PROVE Signalled(owed'[o], queue'[o])
    BY <2>3, <2>4, <2>5 DEF AllSignalled
  <2> QED
    BY <2>6, <2>7 DEF AllSignalled
<1>5. ViewTypes' /\ AllWhole'
  <2>1. CASE UNCHANGED view
    BY <2>1 DEF ViewTypes, AllWhole
  <2>2. CASE /\ e.t > view[p].t /\ Follows(p, e)
             /\ view' = [view EXCEPT ![p] = [t |-> e.t, windows |-> @.windows \union {e.t}]]
    <3> DEFINE n == [t |-> e.t, windows |-> view[p].windows \cup {e.t}]
    <3>1. n \in [t : 0 .. MaxContent, windows : SUBSET (1 .. MaxContent)] /\ Whole(n)
      BY <1>2, <2>2, FollowingIsWhole DEF AllWhole
    <3>2. view' = [view EXCEPT ![p] = n]
      BY <2>2
    <3> HIDE DEF n
    <3> QED
      BY <3>1, <3>2 DEF ViewTypes, AllWhole
  <2>3. e.t > view[p].t \/ e.t <= view[p].t
    BY <1>2, EventsAssumption DEF Events, ViewTypes
  <2> QED
    BY <2>1, <2>2, <2>3 DEF Forward, Reconciled, SyncBaselineTranscript
<1> QED
  BY <1>3, <1>4, <1>5 DEF Forward, database, producers, connection, StoredTypes, ProducerTypes,
     SocketTypes, AnswerTypes

LEMMA PagesKeep ==
  ASSUME Ind, NEW p \in Clients,
         \/ Connect(p) \/ MeetingSnapshot(p) \/ ObserveSnapshot(p) \/ RemoveClient(p) \/ Reload(p)
         \/ GetTranscript(p) \/ BaselineFails(p) \/ \E t \in answers[p] : BaselineArrives(p, t)
  PROVE Ind'
<1> USE EventsAssumption
        DEF Ind, database, producers, broadcaster, page, connection, StoredTypes, ProducerTypes
<1>1. CASE Connect(p)
  BY <1>1 DEF Connect, SocketTypes, QueueTypes, AnswerTypes, ViewTypes, AllSignalled, AllWhole
<1>2. CASE MeetingSnapshot(p)
  BY <1>2 DEF MeetingSnapshot, SocketTypes, QueueTypes, AnswerTypes, ViewTypes, AllSignalled, AllWhole
<1>3. CASE ObserveSnapshot(p)
  <2>1. Whole(Blank) /\ Blank \in [t : 0 .. MaxContent, windows : SUBSET (1 .. MaxContent)]
    BY DEF Whole, Blank
  <2>2. ViewTypes' /\ AllWhole'
    BY <1>3, <2>1 DEF ObserveSnapshot, ViewTypes, AllWhole
  <2> QED
    BY <1>3, <2>2 DEF ObserveSnapshot, SocketTypes, QueueTypes, AnswerTypes, AllSignalled
<1>4. CASE RemoveClient(p)
  <2>1. Signalled({}, <<>>)
    BY DEF Signalled
  <2>2. QueueTypes'
    BY <1>4 DEF RemoveClient, QueueTypes
  <2>3. AllSignalled'
    BY <1>4, <2>1 DEF RemoveClient, QueueTypes, AllSignalled
  <2> QED
    BY <1>4, <2>2, <2>3 DEF RemoveClient, SocketTypes, AnswerTypes, ViewTypes, AllWhole
<1>5. CASE Reload(p)
  <2>1. Whole(Blank) /\ Blank \in [t : 0 .. MaxContent, windows : SUBSET (1 .. MaxContent)]
    BY DEF Whole, Blank
  <2>2. ViewTypes' /\ AllWhole' /\ AnswerTypes'
    BY <1>5, <2>1 DEF Reload, ViewTypes, AllWhole, AnswerTypes
  <2> QED
    BY <1>5, <2>2 DEF Reload, SocketTypes, QueueTypes, AllSignalled
<1>6. CASE GetTranscript(p)
  BY <1>6 DEF GetTranscript, SocketTypes, QueueTypes, AnswerTypes, ViewTypes, AllSignalled, AllWhole
<1>7. CASE BaselineFails(p)
  BY <1>7 DEF BaselineFails, SocketTypes, QueueTypes, AnswerTypes, ViewTypes, AllSignalled, AllWhole
<1>8. ASSUME NEW t \in answers[p], BaselineArrives(p, t) PROVE Ind'
  <2> DEFINE n == [t |-> t, windows |-> 1 .. t]
  <2>1. t \in 0 .. MaxContent
    BY DEF AnswerTypes
  <2>2. n \in [t : 0 .. MaxContent, windows : SUBSET (1 .. MaxContent)] /\ Whole(n)
    BY <2>1 DEF Whole
  <2>3. view' = [view EXCEPT ![p] = n]
    BY <1>8 DEF BaselineArrives
  <2> HIDE DEF n
  <2>4. ViewTypes' /\ AllWhole'
    BY <2>2, <2>3 DEF ViewTypes, AllWhole
  <2>5. AnswerTypes'
    BY <1>8 DEF BaselineArrives, AnswerTypes
  <2> QED
    BY <1>8, <2>4, <2>5 DEF BaselineArrives, SocketTypes, QueueTypes, AllSignalled
<1> QED
  BY <1>1, <1>2, <1>3, <1>4, <1>5, <1>6, <1>7, <1>8

LEMMA NextKeeps == Ind /\ [Next]_vars => Ind'
<1> SUFFICES ASSUME Ind, [Next]_vars PROVE Ind'
  OBVIOUS
<1>1. CASE UNCHANGED vars
  BY <1>1 DEF Ind, vars, database, producers, broadcaster, page, connection, StoredTypes, ProducerTypes,
     SocketTypes, QueueTypes, AnswerTypes, ViewTypes, AllSignalled, AllWhole
<1>2. CASE Next
  BY <1>2, ProducersKeep, ForwardKeeps, PagesKeep DEF Next
<1> QED
  BY <1>1, <1>2

\* A slow client loses events but not the knowledge of it (MeetingEventBroadcaster._enqueue).
THEOREM LossSignalled == Spec => []LossIsSignalled
<1>1. Ind => LossIsSignalled
  BY Consequences
<1> QED
  BY <1>1, InitInd, NextKeeps, PTL DEF Spec

\* No page ever shows a transcript with a hole in it (useMeetingSocket.ts).
THEOREM ViewHasNoHole == Spec => []NoHoleInView
<1>1. Ind => NoHoleInView
  BY Consequences
<1> QED
  BY <1>1, InitInd, NextKeeps, PTL DEF Spec
-----------------------------------------------------------------------------
(***************************************************************************)
(* The transcript: what holds of it, step by step.                         *)
(***************************************************************************)
Segments == [turn : Nat, start : Nat, end : Nat, key : Nat, words : BOOLEAN]
Speeches == [turn : Nat, from : Nat, to : Nat, voice : Voices, key : Nat, words : BOOLEAN]
Moments == Nat \cup {NoTime}

TimelineTypes ==
  /\ audio \in Nat /\ turns \in Nat /\ itemFrom \in Nat /\ said \in Nat /\ boundary \in Nat
  /\ speech \in [start : Moments, stop : Moments]
  /\ announces \in SUBSET Both /\ labels \in BOOLEAN
  /\ spoken \in SUBSET Speeches /\ IsFiniteSet(spoken)
  /\ activeStart \in Moments /\ activeEnd \in Moments /\ activeOffset \in Moments
  /\ pending \in Seq(Segments) /\ lastWindow \in Seq(Segments) /\ rows \in SUBSET Segments

\* One segment after the other.
InOrder(s) ==
  /\ \A i \in DOMAIN s : s[i].start <= s[i].end
  /\ \A i, j \in DOMAIN s : i < j => s[i].end <= s[j].start
\* A segment that tells what was said.
Tells(x, p) == x.turn = p.turn /\ x.start = p.from /\ x.end = p.to /\ x.key = p.key /\ x.words = p.words

\* The server hears one speech in an item, after the end of the item before.
Heard ==
  /\ speech.start = NoTime => speech.stop = NoTime /\ said = 0 /\ pending = <<>>
  /\ speech.start # NoTime => itemFrom <= speech.start /\ (itemFrom > 0 => itemFrom < speech.start)
  /\ speech.stop # NoTime => speech.start <= speech.stop /\ said < speech.stop

\* Without both bounds there are no segments, and the transcript ends with the last turn.
Fallback ==
  announces # Both =>
    /\ confirmedEnd \in Moments
    /\ pending = <<>>
    /\ activeStart # NoTime => "start" \in announces
    /\ activeEnd # NoTime => "stop" \in announces
    /\ \A r \in rows : r.end <= confirmedEnd

\* With both, the transcriber knows what the server does.
Bounded ==
  /\ activeStart = speech.start /\ activeEnd = speech.stop
  /\ speech.start # NoTime => activeOffset = itemFrom
  /\ boundary = IF speech.stop = NoTime THEN itemFrom ELSE speech.stop

\* The pending segments are what was said in the turn.
Gathered ==
  /\ InOrder(pending)
  /\ \A i \in DOMAIN pending :
       /\ pending[i].turn = turns + 1
       /\ speech.start <= pending[i].start /\ pending[i].start < pending[i].end
       /\ pending[i].end <= said
  /\ \A p \in spoken : p.turn = turns + 1 => \E i \in DOMAIN pending : Tells(pending[i], p)

\* Nobody speaks before the others have finished.
InTurn ==
  /\ \A p \in spoken :
       /\ p.turn \in 1..turns + 1 /\ p.from <= p.to
       /\ p.turn <= turns => p.to <= itemFrom
  /\ itemFrom = 0 => turns = 0
  /\ \A p, q \in spoken : p.from = q.from => p = q

\* The transcript belongs to the turns before the item, and to the last of them what comes
\* after the others.
Stored ==
  /\ \A r \in rows : r.turn \in 1..turns /\ r.start <= r.end /\ r.end <= itemFrom
  /\ InOrder(lastWindow)
  /\ \A i \in DOMAIN lastWindow : lastWindow[i].turn = turns /\ lastWindow[i].end <= itemFrom
  /\ \A r \in rows : r.turn < turns => \A i \in DOMAIN lastWindow : r.end < lastWindow[i].start
  /\ \A p \in spoken : p.turn = turns => \E i \in DOMAIN lastWindow : Tells(lastWindow[i], p)

Recorded == Heard /\ Fallback /\ (announces = Both => Bounded /\ Gathered /\ InTurn /\ Stored)

TimelineInd ==
  /\ TimelineTypes
  /\ Open => Recorded
  /\ SpeechIsKept /\ LongSpeechKeepsSpeaker /\ LabelledByVoice
-----------------------------------------------------------------------------
(***************************************************************************)
(* Induction up to a number, and the least element of a set.               *)
(***************************************************************************)
LEMMA LessIsWellFounded ==
  \E R : IsWellFoundedOn(R, Nat) /\ \A x, y \in Nat : x < y => <<x, y>> \in R
<1>1. IsWellFoundedOn(OpToRel(<, Nat), Nat)
  BY NatLessThanWellFounded, Zenon
<1>2. \A x, y \in Nat : x < y => <<x, y>> \in OpToRel(<, Nat)
  BY Zenon DEF OpToRel
<1> QED
  BY <1>1, <1>2

LEMMA MinimalElement ==
  ASSUME NEW R, IsWellFoundedOn(R, Nat), NEW T, T \subseteq Nat, T # {}
  PROVE \E x \in T : \A y \in T : ~(<<y, x>> \in R)
  BY WFMin, Zenon

LEMMA Least ==
  ASSUME NEW T \in SUBSET Nat, T # {} PROVE \E x \in T : \A y \in T : x <= y
<1>1. PICK R : IsWellFoundedOn(R, Nat) /\ \A x, y \in Nat : x < y => <<x, y>> \in R
  BY LessIsWellFounded
<1>2. T \subseteq Nat
  OBVIOUS
<1>3. IsWellFoundedOn(R, Nat)
  BY <1>1
<1>4. \E x \in T : \A y \in T : ~(<<y, x>> \in R)
  BY <1>2, <1>3, MinimalElement, Zenon
<1>5. PICK x \in T : \A y \in T : ~(<<y, x>> \in R)
  BY <1>4
<1>6. ASSUME NEW y \in T PROVE x <= y
  <2>1. x \in Nat /\ y \in Nat
    BY <1>2
  <2>2. ~(<<y, x>> \in R)
    BY <1>5
  <2>3. ~(y < x)
    BY <1>1, <2>1, <2>2
  <2> QED
    BY <2>1, <2>3
<1> QED
  BY <1>6

LEMMA InductionUpTo ==
  ASSUME NEW n \in Nat, NEW S, 0 \in S, \A k \in 0 .. n - 1 : k \in S => k + 1 \in S
  PROVE \A k \in 0 .. n : k \in S
<1> DEFINE T == {k \in Nat : k <= n /\ k \notin S}
<1> SUFFICES ASSUME T # {} PROVE FALSE
  OBVIOUS
<1>1. T \in SUBSET Nat
  OBVIOUS
<1>2. PICK x \in T : \A y \in T : x <= y
  BY <1>1, Least
<1>3. x \in Nat /\ x <= n /\ x \notin S /\ x # 0
  BY <1>2
<1>4. x - 1 \in Nat /\ x - 1 \in 0 .. n - 1 /\ ~(x <= x - 1) /\ (x - 1) + 1 = x
  BY <1>3
<1>5. x - 1 \in S
  BY <1>2, <1>4
<1> QED
  BY <1>3, <1>4, <1>5
-----------------------------------------------------------------------------
(***************************************************************************)
(* Functions defined by recursion: there is one.                           *)
(***************************************************************************)
Iterate(g, n, S, base, step) ==
  g \in [0..n -> S] /\ g[0] = base /\ \A i \in 1..n : g[i] = step[i][g[i - 1]]

LEMMA Iterates ==
  ASSUME NEW n \in Nat, NEW S, NEW base \in S, NEW step \in [1..n -> [S -> S]]
  PROVE \E g : Iterate(g, n, S, base, step)
<1> DEFINE Solves(g, m) == g[0] = base /\ \A i \in 1..m : g[i] = step[i][g[i - 1]]
           T == {m \in 0..n : \E g \in [0..n -> S] : Solves(g, m)}
<1>1. 0 \in T
  <2> DEFINE g == [i \in 0..n |-> base]
  <2>1. g \in [0..n -> S] /\ g[0] = base /\ 1..0 = {} /\ 0 \in 0..n
    OBVIOUS
  <2>2. Solves(g, 0)
    BY <2>1
  <2> QED
    BY <2>1, <2>2
<1>2. ASSUME NEW m \in 0..n - 1, m \in T PROVE m + 1 \in T
  <2>1. PICK g \in [0..n -> S] : Solves(g, m)
    BY <1>2
  <2> DEFINE h == [g EXCEPT ![m + 1] = step[m + 1][g[m]]]
  <2>2. m \in 0..n /\ m + 1 \in 0..n /\ m + 1 \in 1..n /\ m + 1 # 0
    OBVIOUS
  <2>3. h \in [0..n -> S]
    <3>1. g[m] \in S /\ step[m + 1] \in [S -> S]
      BY <2>2
    <3>2. step[m + 1][g[m]] \in S
      BY <3>1
    <3> QED
      BY <3>2
  <2>4. h[0] = base
    BY <2>1, <2>2
  <2>5. ASSUME NEW i \in 1..m + 1 PROVE h[i] = step[i][h[i - 1]]
    <3>1. i \in 0..n /\ i - 1 \in 0..n /\ i - 1 # m + 1
      BY <2>2
    <3>2. h[i - 1] = g[i - 1]
      BY <3>1
    <3>3. CASE i = m + 1
      <4>1. i - 1 = m
        BY <3>3
      <4>2. h[i] = step[m + 1][g[m]]
        BY <2>2, <3>3
      <4> QED
        BY <3>2, <3>3, <4>1, <4>2
    <3>4. CASE i # m + 1
      <4>1. i \in 1..m
        BY <3>4
      <4>2. h[i] = g[i] /\ g[i] = step[i][g[i - 1]]
        BY <2>1, <3>1, <3>4, <4>1
      <4> QED
        BY <3>2, <4>2
    <3> QED
      BY <3>3, <3>4
  <2> HIDE DEF h
  <2>6. Solves(h, m + 1)
    BY <2>4, <2>5
  <2> QED
    BY <2>2, <2>3, <2>6
<1>3. n \in T
  <2> HIDE DEF T
  <2>1. \A m \in 0..n : m \in T
    BY <1>1, <1>2, InductionUpTo
  <2> QED
    BY <2>1
<1>4. PICK g \in [0..n -> S] : Solves(g, n)
  BY <1>3
<1>5. Iterate(g, n, S, base, step)
  BY <1>4 DEF Iterate
<1> QED
  BY <1>5

-----------------------------------------------------------------------------
(***************************************************************************)
(* The smoother.                                                           *)
(***************************************************************************)
\* A step of a pass keeps the type of what it works on.
LEMMA OneType ==
  ASSUME NEW s \in Seq(Segments), NEW q \in [1..Len(s) -> Nat], NEW i \in 1..Len(s)
  PROVE OneSteadied(s, q, i) \in [1..Len(s) -> Nat]
<1>1. CASE Blip(s, q, i)
  <2>1. Len(s) \in Nat
    OBVIOUS
  <2>2. i \in 2..Len(s) - 1
    BY <1>1 DEF Blip
  <2>3. i - 1 \in 1..Len(s)
    BY <2>1, <2>2
  <2> QED
    BY <1>1, <2>3 DEF OneSteadied
<1>2. CASE ~Blip(s, q, i)
  BY <1>2 DEF OneSteadied
<1> QED
  BY <1>1, <1>2

LEMMA TwoType ==
  ASSUME NEW s \in Seq(Segments), NEW q \in [1..Len(s) -> Nat], NEW i \in 1..Len(s)
  PROVE TwoSteadied(s, q, i) \in [1..Len(s) -> Nat]
<1>1. CASE TwoBlips(s, q, i)
  <2>1. Len(s) \in Nat
    OBVIOUS
  <2>2. i \in 2..Len(s) - 2
    BY <1>1 DEF TwoBlips
  <2>3. i - 1 \in 1..Len(s)
    BY <2>1, <2>2
  <2> QED
    BY <1>1, <2>3 DEF TwoSteadied
<1>2. CASE ~TwoBlips(s, q, i)
  BY <1>2 DEF TwoSteadied
<1> QED
  BY <1>1, <1>2

LEMMA JoinedType ==
  ASSUME NEW a \in Segments, NEW b \in Segments
  PROVE /\ Joined(a, b) \in Segments
        /\ Joined(a, b).start = a.start /\ Joined(a, b).key = a.key /\ Joined(a, b).turn = a.turn
        /\ Joined(a, b).end = IF a.end > b.end THEN a.end ELSE b.end
<1> DEFINE e == IF a.end > b.end THEN a.end ELSE b.end
           w == a.words \/ b.words
<1>1. e \in Nat
  BY DEF Segments
<1>2. w \in BOOLEAN
  OBVIOUS
<1>3. Joined(a, b) = [a EXCEPT !.end = e, !.words = w]
  BY DEF Joined
<1> HIDE DEF e, w
<1>4. /\ Joined(a, b) \in Segments
      /\ Joined(a, b).start = a.start /\ Joined(a, b).key = a.key /\ Joined(a, b).turn = a.turn
      /\ Joined(a, b).end = e
  BY <1>1, <1>2, <1>3 DEF Segments
<1> QED
  BY <1>4 DEF e

LEMMA NextType ==
  ASSUME NEW m \in Seq(Segments), NEW x \in Segments
  PROVE WithNext(m, x) \in Seq(Segments)
<1>1. CASE m # <<>> /\ Joins(Last(m), x)
  <2>1. Len(m) \in 1..Len(m)
    BY <1>1, EmptySeq, LenProperties
  <2>2. Joined(m[Len(m)], x) \in Segments
    BY <2>1, JoinedType
  <2>3. WithNext(m, x) = [m EXCEPT ![Len(m)] = Joined(m[Len(m)], x)]
    BY <1>1 DEF WithNext
  <2> QED
    BY <2>1, <2>2, <2>3, ExceptSeq
<1>2. CASE ~(m # <<>> /\ Joins(Last(m), x))
  BY <1>2 DEF WithNext
<1> QED
  BY <1>1, <1>2

\* The recursive definitions of the passes have a solution, so each is one.
LEMMA FilteredSteps ==
  ASSUME NEW s \in Seq(Segments)
  PROVE \E f : /\ f[0] = <<>> /\ Filtered(s) = f[Len(s)]
               /\ \A i \in 1..Len(s) : f[i] = IF Noise(s[i]) THEN f[i - 1] ELSE Append(f[i - 1], s[i])
<1> DEFINE n == Len(s)
           S == Seq(Segments)
           After(q, i) == IF Noise(s[i]) THEN q ELSE Append(q, s[i])
           Is(f) == f = [i \in 0..n |-> IF i = 0 THEN <<>> ELSE After(f[i - 1], i)]
           step == [i \in 1..n |-> [q \in S |-> After(q, i)]]
<1>1. n \in Nat /\ <<>> \in S
  OBVIOUS
<1>2. step \in [1..n -> [S -> S]]
  <2>1. ASSUME NEW i \in 1..n, NEW q \in S PROVE After(q, i) \in S
    <3>1. s[i] \in Segments
      OBVIOUS
    <3> QED
      BY <3>1
  <2> HIDE DEF n, S, After
  <2> QED
    BY <2>1
<1>3. PICK g : Iterate(g, n, S, <<>>, step)
  <2> HIDE DEF n, S, step
  <2> QED
    BY <1>1, <1>2, Iterates
<1>4. g[0] = <<>> /\ g \in [0..n -> S] /\ \A i \in 1..n : g[i] = step[i][g[i - 1]]
  <2> HIDE DEF n, S, step
  <2> QED
    BY <1>3 DEF Iterate
<1>5. ASSUME NEW i \in 1..n PROVE g[i] = After(g[i - 1], i)
  <2>1. i - 1 \in 0..n /\ g[i - 1] \in S
    <3> HIDE DEF S, step
    <3> QED
      BY <1>1, <1>4
  <2>2. step[i][g[i - 1]] = After(g[i - 1], i)
    <3> HIDE DEF S, After
    <3> QED
      BY <2>1
  <2> HIDE DEF S, After, step
  <2> QED
    BY <1>4, <2>2
<1>6. Is(g)
  <2>1. ASSUME NEW i \in 0..n PROVE g[i] = IF i = 0 THEN <<>> ELSE After(g[i - 1], i)
    <3>1. i = 0 \/ i \in 1..n
      BY <1>1
    <3> HIDE DEF S, After
    <3> QED
      BY <1>4, <1>5, <3>1
  <2> HIDE DEF S, After
  <2> QED
    BY <1>4, <2>1
<1> DEFINE F == CHOOSE f : Is(f)
<1>7. Is(F)
  <2> HIDE DEF Is
  <2> QED
    BY <1>6
<1>8. Filtered(s) = F[n]
  BY DEF Filtered
<1>9. F[0] = <<>> /\ \A i \in 1..n : F[i] = After(F[i - 1], i)
  <2>1. 0 \in 0..n /\ \A i \in 1..n : i \in 0..n /\ i # 0
    BY <1>1
  <2> HIDE DEF F, After
  <2> QED
    BY <1>7, <2>1
<1> HIDE DEF F
<1> QED
  BY <1>8, <1>9

LEMMA OnceSteps ==
  ASSUME NEW s \in Seq(Segments)
  PROVE \E f : /\ f[0] = [j \in 1..Len(s) |-> s[j].key] /\ OnceSteadied(s) = f[Len(s)]
               /\ \A i \in 1..Len(s) : f[i] = OneSteadied(s, f[i - 1], i)
<1> DEFINE n == Len(s)
           S == [1..Len(s) -> Nat]
           After(q, i) == OneSteadied(s, q, i)
           Is(f) == f = [i \in 0..n |-> IF i = 0 THEN [j \in 1..Len(s) |-> s[j].key] ELSE After(f[i - 1], i)]
           step == [i \in 1..n |-> [q \in S |-> After(q, i)]]
<1>1. n \in Nat /\ [j \in 1..Len(s) |-> s[j].key] \in S
  <2>1. \A j \in 1..Len(s) : s[j] \in Segments
    OBVIOUS
  <2>2. \A j \in 1..Len(s) : s[j].key \in Nat
    BY <2>1 DEF Segments
  <2> QED
    BY <2>2
<1>2. step \in [1..n -> [S -> S]]
  <2>1. ASSUME NEW i \in 1..n, NEW q \in S PROVE After(q, i) \in S
    BY OneType
  <2> HIDE DEF n, S, After
  <2> QED
    BY <2>1
<1>3. PICK g : Iterate(g, n, S, [j \in 1..Len(s) |-> s[j].key], step)
  <2> HIDE DEF n, S, step
  <2> QED
    BY <1>1, <1>2, Iterates
<1>4. g[0] = [j \in 1..Len(s) |-> s[j].key] /\ g \in [0..n -> S] /\ \A i \in 1..n : g[i] = step[i][g[i - 1]]
  <2> HIDE DEF n, S, step
  <2> QED
    BY <1>3 DEF Iterate
<1>5. ASSUME NEW i \in 1..n PROVE g[i] = After(g[i - 1], i)
  <2>1. i - 1 \in 0..n /\ g[i - 1] \in S
    <3> HIDE DEF S, step
    <3> QED
      BY <1>1, <1>4
  <2>2. step[i][g[i - 1]] = After(g[i - 1], i)
    <3> HIDE DEF S, After
    <3> QED
      BY <2>1
  <2> HIDE DEF S, After, step
  <2> QED
    BY <1>4, <2>2
<1>6. Is(g)
  <2>1. ASSUME NEW i \in 0..n PROVE g[i] = IF i = 0 THEN [j \in 1..Len(s) |-> s[j].key] ELSE After(g[i - 1], i)
    <3>1. i = 0 \/ i \in 1..n
      BY <1>1
    <3> HIDE DEF S, After
    <3> QED
      BY <1>4, <1>5, <3>1
  <2> HIDE DEF S, After
  <2> QED
    BY <1>4, <2>1
<1> DEFINE F == CHOOSE f : Is(f)
<1>7. Is(F)
  <2> HIDE DEF Is
  <2> QED
    BY <1>6
<1>8. OnceSteadied(s) = F[n]
  BY DEF OnceSteadied
<1>9. F[0] = [j \in 1..Len(s) |-> s[j].key] /\ \A i \in 1..n : F[i] = After(F[i - 1], i)
  <2>1. 0 \in 0..n /\ \A i \in 1..n : i \in 0..n /\ i # 0
    BY <1>1
  <2> HIDE DEF F, After
  <2> QED
    BY <1>7, <2>1
<1> HIDE DEF F
<1> QED
  BY <1>8, <1>9

LEMMA TwiceSteps ==
  ASSUME NEW s \in Seq(Segments), OnceSteadied(s) \in [1..Len(s) -> Nat]
  PROVE \E f : /\ f[0] = OnceSteadied(s) /\ TwiceSteadied(s) = f[Len(s)]
               /\ \A i \in 1..Len(s) : f[i] = TwoSteadied(s, f[i - 1], i)
<1> DEFINE n == Len(s)
           S == [1..Len(s) -> Nat]
           After(q, i) == TwoSteadied(s, q, i)
           Is(f) == f = [i \in 0..n |-> IF i = 0 THEN OnceSteadied(s) ELSE After(f[i - 1], i)]
           step == [i \in 1..n |-> [q \in S |-> After(q, i)]]
<1>1. n \in Nat /\ OnceSteadied(s) \in S
  OBVIOUS
<1>2. step \in [1..n -> [S -> S]]
  <2>1. ASSUME NEW i \in 1..n, NEW q \in S PROVE After(q, i) \in S
    BY TwoType
  <2> HIDE DEF n, S, After
  <2> QED
    BY <2>1
<1>3. PICK g : Iterate(g, n, S, OnceSteadied(s), step)
  <2> HIDE DEF n, S, step
  <2> QED
    BY <1>1, <1>2, Iterates
<1>4. g[0] = OnceSteadied(s) /\ g \in [0..n -> S] /\ \A i \in 1..n : g[i] = step[i][g[i - 1]]
  <2> HIDE DEF n, S, step
  <2> QED
    BY <1>3 DEF Iterate
<1>5. ASSUME NEW i \in 1..n PROVE g[i] = After(g[i - 1], i)
  <2>1. i - 1 \in 0..n /\ g[i - 1] \in S
    <3> HIDE DEF S, step
    <3> QED
      BY <1>1, <1>4
  <2>2. step[i][g[i - 1]] = After(g[i - 1], i)
    <3> HIDE DEF S, After
    <3> QED
      BY <2>1
  <2> HIDE DEF S, After, step
  <2> QED
    BY <1>4, <2>2
<1>6. Is(g)
  <2>1. ASSUME NEW i \in 0..n PROVE g[i] = IF i = 0 THEN OnceSteadied(s) ELSE After(g[i - 1], i)
    <3>1. i = 0 \/ i \in 1..n
      BY <1>1
    <3> HIDE DEF S, After
    <3> QED
      BY <1>4, <1>5, <3>1
  <2> HIDE DEF S, After
  <2> QED
    BY <1>4, <2>1
<1> DEFINE F == CHOOSE f : Is(f)
<1>7. Is(F)
  <2> HIDE DEF Is
  <2> QED
    BY <1>6
<1>8. TwiceSteadied(s) = F[n]
  BY DEF TwiceSteadied
<1>9. F[0] = OnceSteadied(s) /\ \A i \in 1..n : F[i] = After(F[i - 1], i)
  <2>1. 0 \in 0..n /\ \A i \in 1..n : i \in 0..n /\ i # 0
    BY <1>1
  <2> HIDE DEF F, After
  <2> QED
    BY <1>7, <2>1
<1> HIDE DEF F
<1> QED
  BY <1>8, <1>9

LEMMA MergedSteps ==
  ASSUME NEW s \in Seq(Segments)
  PROVE \E f : /\ f[0] = <<>> /\ Merged(s) = f[Len(s)]
               /\ \A i \in 1..Len(s) : f[i] = WithNext(f[i - 1], s[i])
<1> DEFINE n == Len(s)
           S == Seq(Segments)
           After(q, i) == WithNext(q, s[i])
           Is(f) == f = [i \in 0..n |-> IF i = 0 THEN <<>> ELSE After(f[i - 1], i)]
           step == [i \in 1..n |-> [q \in S |-> After(q, i)]]
<1>1. n \in Nat /\ <<>> \in S
  OBVIOUS
<1>2. step \in [1..n -> [S -> S]]
  <2>1. ASSUME NEW i \in 1..n, NEW q \in S PROVE After(q, i) \in S
    <3>1. s[i] \in Segments
      OBVIOUS
    <3> HIDE DEF n
    <3> QED
      BY <3>1, NextType
  <2> HIDE DEF n, S, After
  <2> QED
    BY <2>1
<1>3. PICK g : Iterate(g, n, S, <<>>, step)
  <2> HIDE DEF n, S, step
  <2> QED
    BY <1>1, <1>2, Iterates
<1>4. g[0] = <<>> /\ g \in [0..n -> S] /\ \A i \in 1..n : g[i] = step[i][g[i - 1]]
  <2> HIDE DEF n, S, step
  <2> QED
    BY <1>3 DEF Iterate
<1>5. ASSUME NEW i \in 1..n PROVE g[i] = After(g[i - 1], i)
  <2>1. i - 1 \in 0..n /\ g[i - 1] \in S
    <3> HIDE DEF S, step
    <3> QED
      BY <1>1, <1>4
  <2>2. step[i][g[i - 1]] = After(g[i - 1], i)
    <3> HIDE DEF S, After
    <3> QED
      BY <2>1
  <2> HIDE DEF S, After, step
  <2> QED
    BY <1>4, <2>2
<1>6. Is(g)
  <2>1. ASSUME NEW i \in 0..n PROVE g[i] = IF i = 0 THEN <<>> ELSE After(g[i - 1], i)
    <3>1. i = 0 \/ i \in 1..n
      BY <1>1
    <3> HIDE DEF S, After
    <3> QED
      BY <1>4, <1>5, <3>1
  <2> HIDE DEF S, After
  <2> QED
    BY <1>4, <2>1
<1> DEFINE F == CHOOSE f : Is(f)
<1>7. Is(F)
  <2> HIDE DEF Is
  <2> QED
    BY <1>6
<1>8. Merged(s) = F[n]
  BY DEF Merged
<1>9. F[0] = <<>> /\ \A i \in 1..n : F[i] = After(F[i - 1], i)
  <2>1. 0 \in 0..n /\ \A i \in 1..n : i \in 0..n /\ i # 0
    BY <1>1
  <2> HIDE DEF F, After
  <2> QED
    BY <1>7, <2>1
<1> HIDE DEF F
<1> QED
  BY <1>8, <1>9

\* How far a pass has come.
FilteredUpTo(q, s, i) ==
  /\ q \in Seq(Segments) /\ InOrder(q)
  /\ \A k \in DOMAIN q : \E j \in 1..i : q[k] = s[j]
  /\ \A j \in 1..i : ~Noise(s[j]) => \E k \in DOMAIN q : q[k] = s[j]
SteadiedUpTo(q, s) ==
  /\ q \in [1..Len(s) -> Nat]
  /\ \A j \in 1..Len(s) : Length(s[j]) > TwoFlicker => q[j] = s[j].key
Covers(y, x) == y.key = x.key /\ y.start <= x.start /\ x.end <= y.end
MergedUpTo(m, s, i) ==
  /\ m \in Seq(Segments)
  /\ \A j \in 1..i : \E k \in DOMAIN m : Covers(m[k], s[j])
  /\ \A k \in DOMAIN m :
       /\ m[k].start <= m[k].end
       /\ \E a, b \in 1..i : m[k].start = s[a].start /\ m[k].turn = s[a].turn /\ m[k].end = s[b].end

LEMMA FilteredStep ==
  ASSUME NEW s \in Seq(Segments), InOrder(s), NEW i \in 1..Len(s), NEW q, FilteredUpTo(q, s, i - 1)
  PROVE FilteredUpTo(IF Noise(s[i]) THEN q ELSE Append(q, s[i]), s, i)
<1>1. i \in Nat /\ i - 1 \in Nat /\ 1..i = (1..i - 1) \cup {i} /\ s[i] \in Segments
  OBVIOUS
<1>2. CASE Noise(s[i])
  BY <1>1, <1>2 DEF FilteredUpTo
<1>3. CASE ~Noise(s[i])
  <2> DEFINE r == Append(q, s[i])
  <2>1. /\ r \in Seq(Segments) /\ DOMAIN r = 1..Len(q) + 1 /\ DOMAIN q = 1..Len(q) /\ Len(q) \in Nat
        /\ r[Len(q) + 1] = s[i] /\ \A k \in DOMAIN q : r[k] = q[k]
    BY <1>1, AppendProperties DEF FilteredUpTo
  <2> HIDE DEF r
  <2>2. \A k \in DOMAIN r : k = Len(q) + 1 \/ k \in DOMAIN q
    BY <2>1
  <2>3. \A k \in DOMAIN r : \E j \in 1..i : r[k] = s[j]
    BY <1>1, <2>1, <2>2 DEF FilteredUpTo
  <2>4. \A j \in 1..i : ~Noise(s[j]) => \E k \in DOMAIN r : r[k] = s[j]
    <3> SUFFICES ASSUME NEW j \in 1..i, ~Noise(s[j]) PROVE \E k \in DOMAIN r : r[k] = s[j]
      OBVIOUS
    <3>1. CASE j = i
      BY <2>1, <3>1
    <3>2. CASE j \in 1..i - 1
      <4>1. PICK k \in DOMAIN q : q[k] = s[j]
        BY <3>2 DEF FilteredUpTo
      <4>2. k \in DOMAIN r /\ r[k] = s[j]
        BY <2>1, <4>1
      <4> QED
        BY <4>2
    <3> QED
      BY <1>1, <3>1, <3>2
  <2>5. InOrder(r)
    <3>1. ASSUME NEW k \in DOMAIN r PROVE r[k].start <= r[k].end
      BY <1>1, <2>1, <2>2 DEF FilteredUpTo, InOrder
    <3>2. ASSUME NEW k \in DOMAIN r, NEW l \in DOMAIN r, k < l PROVE r[k].end <= r[l].start
      <4>1. k \in DOMAIN q
        BY <2>1, <2>2, <3>2
      <4>2. CASE l \in DOMAIN q
        BY <2>1, <3>2, <4>1, <4>2 DEF FilteredUpTo, InOrder
      <4>3. CASE l = Len(q) + 1
        <5>1. PICK j \in 1..i - 1 : q[k] = s[j]
          BY <4>1 DEF FilteredUpTo
        <5>2. j \in DOMAIN s /\ i \in DOMAIN s /\ j < i
          BY <1>1
        <5>3. s[j].end <= s[i].start
          BY <5>2 DEF InOrder
        <5> QED
          BY <2>1, <4>1, <4>3, <5>1, <5>3
      <4> QED
        BY <2>2, <4>2, <4>3
    <3> QED
      BY <3>1, <3>2 DEF InOrder
  <2>6. FilteredUpTo(r, s, i)
    BY <2>1, <2>3, <2>4, <2>5 DEF FilteredUpTo
  <2> QED
    BY <1>3, <2>6 DEF r
<1> QED
  BY <1>2, <1>3

\* What is not noise stays, in its order.
LEMMA FilteredKeeps ==
  ASSUME NEW s \in Seq(Segments), InOrder(s)
  PROVE FilteredUpTo(Filtered(s), s, Len(s))
<1>1. PICK f : /\ f[0] = <<>> /\ Filtered(s) = f[Len(s)]
               /\ \A i \in 1..Len(s) : f[i] = IF Noise(s[i]) THEN f[i - 1] ELSE Append(f[i - 1], s[i])
  BY FilteredSteps
<1> DEFINE S == {i \in 0..Len(s) : FilteredUpTo(f[i], s, i)}
<1>2. 0 \in S
  <2>1. FilteredUpTo(<<>>, s, 0)
    BY DEF FilteredUpTo, InOrder
  <2> QED
    BY <1>1, <2>1
<1>3. ASSUME NEW i \in 0..Len(s) - 1, i \in S PROVE i + 1 \in S
  <2>1. i + 1 \in 1..Len(s) /\ i + 1 \in 0..Len(s) /\ (i + 1) - 1 = i
    OBVIOUS
  <2>2. FilteredUpTo(f[(i + 1) - 1], s, (i + 1) - 1)
    BY <1>3, <2>1
  <2>3. FilteredUpTo(IF Noise(s[i + 1]) THEN f[(i + 1) - 1] ELSE Append(f[(i + 1) - 1], s[i + 1]), s, i + 1)
    BY <2>1, <2>2, FilteredStep
  <2>4. f[i + 1] = IF Noise(s[i + 1]) THEN f[(i + 1) - 1] ELSE Append(f[(i + 1) - 1], s[i + 1])
    BY <1>1, <2>1
  <2> QED
    BY <2>1, <2>3, <2>4
<1>4. Len(s) \in S
  <2>1. Len(s) \in Nat /\ Len(s) \in 0..Len(s)
    OBVIOUS
  <2> HIDE DEF S
  <2> QED
    BY <1>2, <1>3, <2>1, InductionUpTo
<1> QED
  BY <1>1, <1>4

LEMMA Flickers ==
  /\ MinDuration \in Nat /\ OneFlicker \in Nat /\ TwoFlicker \in Nat
  /\ OneFlicker <= TwoFlicker /\ MinDuration <= TwoFlicker + 1
BY LabelsAssumption

\* How long a segment is.
LEMMA LengthType == ASSUME NEW x \in Segments PROVE Length(x) \in Int
BY DEF Length, Segments

\* The labels of what is longer than the flickers stay.
LEMMA OneStep ==
  ASSUME NEW s \in Seq(Segments), InOrder(s), NEW i \in 1..Len(s), NEW q, SteadiedUpTo(q, s)
  PROVE SteadiedUpTo(OneSteadied(s, q, i), s)
<1>1. q \in [1..Len(s) -> Nat]
  BY DEF SteadiedUpTo
<1>2. OneSteadied(s, q, i) \in [1..Len(s) -> Nat]
  BY <1>1, OneType
<1>3. CASE Blip(s, q, i)
  <2>1. OneSteadied(s, q, i) = [q EXCEPT ![i] = q[i - 1]]
    BY <1>3 DEF OneSteadied
  <2>2. s[i] \in Segments
    OBVIOUS
  <2>3. Length(s[i]) <= TwoFlicker
    BY <1>3, <2>2, Flickers, LengthType DEF Blip
  <2> SUFFICES ASSUME NEW j \in 1..Len(s), Length(s[j]) > TwoFlicker
               PROVE OneSteadied(s, q, i)[j] = s[j].key
    BY <1>2 DEF SteadiedUpTo
  <2>4. j # i
    BY <2>2, <2>3, Flickers, LengthType
  <2> QED
    BY <1>1, <2>1, <2>4 DEF SteadiedUpTo
<1>4. CASE ~Blip(s, q, i)
  BY <1>4 DEF OneSteadied
<1> QED
  BY <1>3, <1>4

LEMMA TwoStep ==
  ASSUME NEW s \in Seq(Segments), InOrder(s), NEW i \in 1..Len(s), NEW q, SteadiedUpTo(q, s)
  PROVE SteadiedUpTo(TwoSteadied(s, q, i), s)
<1>1. q \in [1..Len(s) -> Nat]
  BY DEF SteadiedUpTo
<1>2. TwoSteadied(s, q, i) \in [1..Len(s) -> Nat]
  BY <1>1, TwoType
<1>3. CASE TwoBlips(s, q, i)
  <2>1. TwoSteadied(s, q, i) = [q EXCEPT ![i] = q[i - 1], ![i + 1] = q[i - 1]]
    BY <1>3 DEF TwoSteadied
  <2>2. i \in 2..Len(s) - 2 /\ s[i + 1].end - s[i].start <= TwoFlicker
    BY <1>3 DEF TwoBlips
  <2>3. i \in DOMAIN s /\ i + 1 \in DOMAIN s /\ i < i + 1 /\ s[i] \in Segments /\ s[i + 1] \in Segments
    BY <2>2
  <2>4. s[i].end <= s[i + 1].start /\ s[i].start <= s[i].end /\ s[i + 1].start <= s[i + 1].end
    BY <2>3 DEF InOrder
  <2>5. Length(s[i]) <= TwoFlicker /\ Length(s[i + 1]) <= TwoFlicker
    <3>1. s[i].start \in Nat /\ s[i].end \in Nat /\ s[i + 1].start \in Nat /\ s[i + 1].end \in Nat
      BY <2>3 DEF Segments
    <3>2. Length(s[i]) = s[i].end - s[i].start /\ Length(s[i + 1]) = s[i + 1].end - s[i + 1].start
      BY DEF Length
    <3> QED
      BY <2>2, <2>4, <3>1, <3>2, Flickers
  <2> SUFFICES ASSUME NEW j \in 1..Len(s), Length(s[j]) > TwoFlicker
               PROVE TwoSteadied(s, q, i)[j] = s[j].key
    BY <1>2 DEF SteadiedUpTo
  <2>6. j # i /\ j # i + 1
    BY <2>3, <2>5, Flickers, LengthType
  <2> QED
    BY <1>1, <2>1, <2>6 DEF SteadiedUpTo
<1>4. CASE ~TwoBlips(s, q, i)
  BY <1>4 DEF TwoSteadied
<1> QED
  BY <1>3, <1>4

LEMMA OnceKeeps ==
  ASSUME NEW s \in Seq(Segments), InOrder(s)
  PROVE SteadiedUpTo(OnceSteadied(s), s)
<1>1. PICK f : /\ f[0] = [j \in 1..Len(s) |-> s[j].key] /\ OnceSteadied(s) = f[Len(s)]
               /\ \A i \in 1..Len(s) : f[i] = OneSteadied(s, f[i - 1], i)
  BY OnceSteps
<1> DEFINE S == {i \in 0..Len(s) : SteadiedUpTo(f[i], s)}
<1>2. 0 \in S
  <2>1. \A j \in 1..Len(s) : s[j] \in Segments
    OBVIOUS
  <2>2. \A j \in 1..Len(s) : s[j].key \in Nat
    BY <2>1 DEF Segments
  <2>3. SteadiedUpTo([j \in 1..Len(s) |-> s[j].key], s)
    BY <2>2 DEF SteadiedUpTo
  <2> QED
    BY <1>1, <2>3
<1>3. ASSUME NEW i \in 0..Len(s) - 1, i \in S PROVE i + 1 \in S
  <2>1. i + 1 \in 1..Len(s) /\ i + 1 \in 0..Len(s) /\ (i + 1) - 1 = i
    OBVIOUS
  <2>2. SteadiedUpTo(OneSteadied(s, f[i], i + 1), s)
    BY <1>3, <2>1, OneStep
  <2>3. f[i + 1] = OneSteadied(s, f[i], i + 1)
    BY <1>1, <2>1
  <2> QED
    BY <2>1, <2>2, <2>3
<1>4. Len(s) \in S
  <2>1. Len(s) \in Nat /\ Len(s) \in 0..Len(s)
    OBVIOUS
  <2> HIDE DEF S
  <2> QED
    BY <1>2, <1>3, <2>1, InductionUpTo
<1> QED
  BY <1>1, <1>4

LEMMA TwiceKeeps ==
  ASSUME NEW s \in Seq(Segments), InOrder(s)
  PROVE SteadiedUpTo(TwiceSteadied(s), s)
<1>1. SteadiedUpTo(OnceSteadied(s), s)
  BY OnceKeeps
<1>2. OnceSteadied(s) \in [1..Len(s) -> Nat]
  BY <1>1 DEF SteadiedUpTo
<1>3. PICK f : /\ f[0] = OnceSteadied(s) /\ TwiceSteadied(s) = f[Len(s)]
               /\ \A i \in 1..Len(s) : f[i] = TwoSteadied(s, f[i - 1], i)
  BY <1>2, TwiceSteps
<1> DEFINE S == {i \in 0..Len(s) : SteadiedUpTo(f[i], s)}
<1>4. 0 \in S
  BY <1>1, <1>3
<1>5. ASSUME NEW i \in 0..Len(s) - 1, i \in S PROVE i + 1 \in S
  <2>1. i + 1 \in 1..Len(s) /\ i + 1 \in 0..Len(s) /\ (i + 1) - 1 = i
    OBVIOUS
  <2>2. SteadiedUpTo(TwoSteadied(s, f[i], i + 1), s)
    BY <1>5, <2>1, TwoStep
  <2>3. f[i + 1] = TwoSteadied(s, f[i], i + 1)
    BY <1>3, <2>1
  <2> QED
    BY <2>1, <2>2, <2>3
<1>6. Len(s) \in S
  <2>1. Len(s) \in Nat /\ Len(s) \in 0..Len(s)
    OBVIOUS
  <2> HIDE DEF S
  <2> QED
    BY <1>4, <1>5, <2>1, InductionUpTo
<1> QED
  BY <1>3, <1>6

LEMMA SteadiedKeeps ==
  ASSUME NEW s \in Seq(Segments), InOrder(s)
  PROVE /\ Steadied(s) \in Seq(Segments) /\ InOrder(Steadied(s)) /\ Len(Steadied(s)) = Len(s)
        /\ \A j \in 1..Len(s) :
             /\ Steadied(s)[j].turn = s[j].turn
             /\ Steadied(s)[j].start = s[j].start /\ Steadied(s)[j].end = s[j].end
             /\ Length(s[j]) > TwoFlicker => Steadied(s)[j].key = s[j].key
<1> DEFINE keys == TwiceSteadied(s)
           t == [j \in 1..Len(s) |-> [s[j] EXCEPT !.key = keys[j]]]
<1>1. keys \in [1..Len(s) -> Nat] /\ \A j \in 1..Len(s) : Length(s[j]) > TwoFlicker => keys[j] = s[j].key
  BY TwiceKeeps DEF SteadiedUpTo
<1>2. Steadied(s) = t
  BY DEF Steadied
<1> HIDE DEF keys
<1>3. ASSUME NEW j \in 1..Len(s)
      PROVE /\ t[j] \in Segments /\ t[j].turn = s[j].turn
            /\ t[j].start = s[j].start /\ t[j].end = s[j].end /\ t[j].key = keys[j]
  <2>1. s[j] \in Segments /\ keys[j] \in Nat /\ t[j] = [s[j] EXCEPT !.key = keys[j]]
    BY <1>1
  <2> HIDE DEF t
  <2> QED
    BY <2>1 DEF Segments
<1>4. t \in Seq(Segments) /\ Len(t) = Len(s) /\ DOMAIN t = 1..Len(s) /\ DOMAIN s = 1..Len(s)
  <2>1. Len(s) \in Nat /\ \A j \in 1..Len(s) : t[j] \in Segments
    BY <1>3
  <2>2. t \in Seq(Segments)
    BY <2>1, IsASeq
  <2>3. DOMAIN t = 1..Len(s) /\ DOMAIN t = 1..Len(t) /\ Len(t) \in Nat
    BY <2>2
  <2> HIDE DEF t
  <2> QED
    BY <2>1, <2>2, <2>3
<1> HIDE DEF t
<1>5. InOrder(t)
  BY <1>3, <1>4 DEF InOrder
<1> QED
  BY <1>1, <1>2, <1>3, <1>4, <1>5

\* Merging covers each segment by one of its label, and invents no bounds.
LEMMA MergedStep ==
  ASSUME NEW s \in Seq(Segments), InOrder(s), NEW i \in 1..Len(s), NEW m, MergedUpTo(m, s, i - 1)
  PROVE MergedUpTo(WithNext(m, s[i]), s, i)
<1> DEFINE x == s[i]
           w == WithNext(m, x)
<1>1. i \in Nat /\ i - 1 \in Nat /\ 1..i = (1..i - 1) \cup {i} /\ x \in Segments /\ i \in DOMAIN s
  OBVIOUS
<1>2. m \in Seq(Segments) /\ DOMAIN m = 1..Len(m) /\ Len(m) \in Nat /\ \A k \in DOMAIN m : m[k] \in Segments
  BY DEF MergedUpTo
<1>3. w \in Seq(Segments)
  BY <1>1, <1>2, NextType
<1>4. x.start <= x.end /\ \A a \in 1..i - 1 : s[a] \in Segments /\ s[a].start <= s[a].end /\ s[a].end <= x.start
  <2>1. \A a \in 1..i - 1 : a \in DOMAIN s /\ a < i
    BY <1>1
  <2> QED
    BY <1>1, <2>1 DEF InOrder
<1>5. CASE m # <<>> /\ Joins(Last(m), x)
  <2> DEFINE n == Len(m)
             y == Joined(m[n], x)
  <2>1. n \in DOMAIN m
    BY <1>2, <1>5, EmptySeq, LenProperties
  <2>2. w = [m EXCEPT ![n] = y]
    BY <1>5 DEF WithNext
  <2>3. m[n].key = x.key
    BY <1>5 DEF Joins, Last
  <2>4. /\ y \in Segments /\ y.start = m[n].start /\ y.key = x.key /\ y.turn = m[n].turn
        /\ y.end = IF m[n].end > x.end THEN m[n].end ELSE x.end
    BY <1>1, <1>2, <2>1, <2>3, JoinedType
  <2> HIDE DEF y
  <2>5. DOMAIN w = DOMAIN m /\ w[n] = y /\ \A k \in DOMAIN m : k # n => w[k] = m[k]
    BY <2>1, <2>2
  <2> HIDE DEF w, n
  <2>6. PICK a \in 1..i - 1, b \in 1..i - 1 :
          m[n].start = s[a].start /\ m[n].turn = s[a].turn /\ m[n].end = s[b].end
    BY <2>1 DEF MergedUpTo
  <2>7. m[n].start <= m[n].end /\ m[n].start <= x.start /\ m[n].end <= y.end /\ x.end <= y.end
    <3>1. m[n].start \in Nat /\ m[n].end \in Nat /\ x.start \in Nat /\ x.end \in Nat
      BY <1>1, <1>2, <2>1 DEF Segments
    <3>2. s[a].start \in Nat /\ s[a].end \in Nat /\ s[a].start <= s[a].end /\ s[a].end <= x.start
      BY <1>4 DEF Segments
    <3>3. m[n].start <= m[n].end
      BY <2>1 DEF MergedUpTo
    <3> QED
      BY <2>4, <2>6, <3>1, <3>2, <3>3
  <2>8. \A j \in 1..i : \E k \in DOMAIN w : Covers(w[k], s[j])
    <3> SUFFICES ASSUME NEW j \in 1..i PROVE \E k \in DOMAIN w : Covers(w[k], s[j])
      OBVIOUS
    <3>1. CASE j = i
      <4>1. Covers(w[n], x)
        BY <2>4, <2>5, <2>7 DEF Covers
      <4> QED
        BY <2>1, <2>5, <3>1, <4>1
    <3>2. CASE j \in 1..i - 1
      <4>1. PICK k \in DOMAIN m : Covers(m[k], s[j])
        BY <3>2 DEF MergedUpTo
      <4>2. CASE k = n
        <5>1. s[j].end \in Nat /\ m[n].end \in Nat /\ y.end \in Nat
          BY <1>2, <1>4, <2>1, <2>4, <3>2 DEF Segments
        <5>2. Covers(w[n], s[j])
          BY <2>3, <2>4, <2>5, <2>7, <4>1, <4>2, <5>1 DEF Covers
        <5> QED
          BY <2>1, <2>5, <5>2
      <4>3. CASE k # n
        BY <2>5, <4>1, <4>3
      <4> QED
        BY <4>2, <4>3
    <3> QED
      BY <1>1, <3>1, <3>2
  <2>9. ASSUME NEW k \in DOMAIN w
        PROVE /\ w[k].start <= w[k].end
              /\ \E c, d \in 1..i : w[k].start = s[c].start /\ w[k].turn = s[c].turn /\ w[k].end = s[d].end
    <3>1. CASE k = n
      <4>1. w[k].start <= w[k].end
        <5>1. m[n].start \in Nat /\ m[n].end \in Nat /\ y.end \in Nat
          BY <1>2, <2>1, <2>4 DEF Segments
        <5> QED
          BY <2>4, <2>5, <2>7, <3>1, <5>1
      <4>2. w[k].start = s[a].start /\ w[k].turn = s[a].turn /\ (w[k].end = s[b].end \/ w[k].end = s[i].end)
        BY <2>4, <2>5, <2>6, <3>1
      <4>3. a \in 1..i /\ b \in 1..i /\ i \in 1..i
        BY <1>1
      <4> QED
        BY <4>1, <4>2, <4>3
    <3>2. CASE k # n
      <4>1. k \in DOMAIN m /\ w[k] = m[k]
        BY <2>5, <3>2
      <4> QED
        BY <1>1, <4>1 DEF MergedUpTo
    <3> QED
      BY <3>1, <3>2
  <2> HIDE DEF x
  <2>10. MergedUpTo(w, s, i)
    BY <1>3, <2>8, <2>9 DEF MergedUpTo
  <2> QED
    BY <2>10 DEF w, x
<1>6. CASE ~(m # <<>> /\ Joins(Last(m), x))
  <2> DEFINE n == Len(m) + 1
  <2>1. w = Append(m, x)
    BY <1>6 DEF WithNext
  <2>2. DOMAIN w = 1..n /\ w[n] = x /\ n \in DOMAIN w /\ \A k \in DOMAIN m : k \in DOMAIN w /\ w[k] = m[k]
    BY <1>1, <1>2, <2>1, AppendProperties
  <2>3. \A k \in DOMAIN w : k = n \/ k \in DOMAIN m
    BY <1>2, <2>2
  <2> HIDE DEF w, n
  <2>4. \A j \in 1..i : \E k \in DOMAIN w : Covers(w[k], s[j])
    <3> SUFFICES ASSUME NEW j \in 1..i PROVE \E k \in DOMAIN w : Covers(w[k], s[j])
      OBVIOUS
    <3>1. CASE j = i
      <4>1. Covers(w[n], x)
        BY <1>1, <2>2 DEF Covers, Segments
      <4> QED
        BY <2>2, <3>1, <4>1
    <3>2. CASE j \in 1..i - 1
      <4>1. PICK k \in DOMAIN m : Covers(m[k], s[j])
        BY <3>2 DEF MergedUpTo
      <4> QED
        BY <2>2, <4>1
    <3> QED
      BY <1>1, <3>1, <3>2
  <2>5. ASSUME NEW k \in DOMAIN w
        PROVE /\ w[k].start <= w[k].end
              /\ \E c, d \in 1..i : w[k].start = s[c].start /\ w[k].turn = s[c].turn /\ w[k].end = s[d].end
    <3>1. CASE k = n
      BY <1>1, <1>4, <2>2, <3>1
    <3>2. CASE k \in DOMAIN m
      <4>1. w[k] = m[k]
        BY <2>2, <3>2
      <4> QED
        BY <1>1, <3>2, <4>1 DEF MergedUpTo
    <3> QED
      BY <2>3, <3>1, <3>2
  <2> HIDE DEF x
  <2>6. MergedUpTo(w, s, i)
    BY <1>3, <2>4, <2>5 DEF MergedUpTo
  <2> QED
    BY <2>6 DEF w, x
<1> QED
  BY <1>5, <1>6

LEMMA MergedKeeps ==
  ASSUME NEW s \in Seq(Segments), InOrder(s)
  PROVE MergedUpTo(Merged(s), s, Len(s))
<1>1. PICK f : /\ f[0] = <<>> /\ Merged(s) = f[Len(s)]
               /\ \A i \in 1..Len(s) : f[i] = WithNext(f[i - 1], s[i])
  BY MergedSteps
<1> DEFINE S == {i \in 0..Len(s) : MergedUpTo(f[i], s, i)}
<1>2. 0 \in S
  <2>1. MergedUpTo(<<>>, s, 0)
    BY DEF MergedUpTo
  <2> QED
    BY <1>1, <2>1
<1>3. ASSUME NEW i \in 0..Len(s) - 1, i \in S PROVE i + 1 \in S
  <2>1. i + 1 \in 1..Len(s) /\ i + 1 \in 0..Len(s) /\ (i + 1) - 1 = i
    OBVIOUS
  <2>2. MergedUpTo(f[(i + 1) - 1], s, (i + 1) - 1)
    BY <1>3, <2>1
  <2>3. MergedUpTo(WithNext(f[(i + 1) - 1], s[i + 1]), s, i + 1)
    BY <2>1, <2>2, MergedStep
  <2>4. f[i + 1] = WithNext(f[(i + 1) - 1], s[i + 1])
    BY <1>1, <2>1
  <2> QED
    BY <2>1, <2>3, <2>4
<1>4. Len(s) \in S
  <2>1. Len(s) \in Nat /\ Len(s) \in 0..Len(s)
    OBVIOUS
  <2> HIDE DEF S
  <2> QED
    BY <1>2, <1>3, <2>1, InductionUpTo
<1> QED
  BY <1>1, <1>4

\* The smoother keeps, within a turn, what has words or is long.
LEMMA SmoothedKeeps ==
  ASSUME NEW s \in Seq(Segments), InOrder(s)
  PROVE /\ Smoothed(s) \in Seq(Segments)
        /\ \A y \in ToSet(Smoothed(s)) :
             /\ y.start <= y.end
             /\ \E a, b \in DOMAIN s : y.start = s[a].start /\ y.turn = s[a].turn /\ y.end = s[b].end
        /\ \A j \in DOMAIN s : ~Noise(s[j]) =>
             \E y \in ToSet(Smoothed(s)) :
               /\ y.start <= s[j].start /\ s[j].end <= y.end
               /\ Length(s[j]) > TwoFlicker => y.key = s[j].key
<1> DEFINE q == Filtered(s)
           t == Steadied(q)
           m == Merged(t)
<1>1. FilteredUpTo(q, s, Len(s))
  BY FilteredKeeps
<1> HIDE DEF q
<1>2. q \in Seq(Segments) /\ InOrder(q)
  BY <1>1 DEF FilteredUpTo
<1>3. /\ t \in Seq(Segments) /\ InOrder(t) /\ Len(t) = Len(q)
      /\ \A j \in 1..Len(q) :
             /\ t[j].turn = q[j].turn /\ t[j].start = q[j].start /\ t[j].end = q[j].end
             /\ Length(q[j]) > TwoFlicker => t[j].key = q[j].key
  BY <1>2, SteadiedKeeps
<1> HIDE DEF t
<1>4. MergedUpTo(m, t, Len(t))
  BY <1>3, MergedKeeps
<1> HIDE DEF m
<1>5. Smoothed(s) = m
  BY DEF Smoothed, m, t, q
<1>6. m \in Seq(Segments) /\ ToSet(m) = {m[k] : k \in DOMAIN m}
  BY <1>4 DEF MergedUpTo, ToSet
<1>7. DOMAIN q = 1..Len(q) /\ DOMAIN t = 1..Len(q) /\ DOMAIN s = 1..Len(s)
  BY <1>2, <1>3
<1>8. ASSUME NEW y \in ToSet(m)
      PROVE /\ y.start <= y.end
            /\ \E a, b \in DOMAIN s : y.start = s[a].start /\ y.turn = s[a].turn /\ y.end = s[b].end
  <2>1. PICK k \in DOMAIN m : y = m[k]
    BY <1>6
  <2>2. y.start <= y.end
    BY <1>4, <2>1 DEF MergedUpTo
  <2>3. PICK c \in 1..Len(t), d \in 1..Len(t) :
          y.start = t[c].start /\ y.turn = t[c].turn /\ y.end = t[d].end
    BY <1>4, <2>1 DEF MergedUpTo
  <2>4. c \in DOMAIN q /\ d \in DOMAIN q /\ y.start = q[c].start /\ y.turn = q[c].turn /\ y.end = q[d].end
    BY <1>3, <1>7, <2>3
  <2>5. PICK a \in 1..Len(s) : q[c] = s[a]
    BY <1>1, <2>4 DEF FilteredUpTo
  <2>6. PICK b \in 1..Len(s) : q[d] = s[b]
    BY <1>1, <2>4 DEF FilteredUpTo
  <2> QED
    BY <1>7, <2>2, <2>4, <2>5, <2>6
<1>9. ASSUME NEW j \in DOMAIN s, ~Noise(s[j])
      PROVE \E y \in ToSet(m) :
               /\ y.start <= s[j].start /\ s[j].end <= y.end
               /\ Length(s[j]) > TwoFlicker => y.key = s[j].key
  <2>1. PICK k \in DOMAIN q : q[k] = s[j]
    BY <1>1, <1>7, <1>9 DEF FilteredUpTo
  <2>2. /\ k \in 1..Len(t) /\ t[k].start = s[j].start /\ t[k].end = s[j].end
        /\ Length(s[j]) > TwoFlicker => t[k].key = s[j].key
    BY <1>3, <1>7, <2>1
  <2>3. PICK l \in DOMAIN m : Covers(m[l], t[k])
    BY <1>4, <2>2 DEF MergedUpTo
  <2>4. m[l] \in ToSet(m)
    BY <1>6
  <2> QED
    BY <2>2, <2>3, <2>4 DEF Covers
<1> QED
  BY <1>5, <1>6, <1>8, <1>9
-----------------------------------------------------------------------------
(***************************************************************************)
(* Sums over a finite set, which is added up in the order of CHOOSE.       *)
(***************************************************************************)
OneOf(s) == CHOOSE x \in s : TRUE
Sums(g, f, S) ==
  /\ g[{}] = 0
  /\ \A s \in SUBSET S : s # {} => g[s] = f[OneOf(s)] + g[s \ {OneOf(s)}]
OfSize(S, n) == {s \in SUBSET S : Cardinality(s) <= n}

LEMMA OneIsIn == ASSUME NEW s, s # {} PROVE OneOf(s) \in s
BY DEF OneOf

\* A set without one of its elements is smaller.
LEMMA Smaller ==
  ASSUME NEW S, IsFiniteSet(S), NEW n \in Nat, NEW s \in OfSize(S, n + 1), NEW y \in s
  PROVE s \ {y} \in OfSize(S, n)
<1>1. s \in SUBSET S /\ IsFiniteSet(s) /\ Cardinality(s) <= n + 1
  BY FS_Subset DEF OfSize
<1>2. Cardinality(s \ {y}) = Cardinality(s) - 1 /\ Cardinality(s) \in Nat
  BY <1>1, FS_RemoveElement, FS_CardinalityType
<1>3. s \ {y} \in SUBSET S
  BY <1>1
<1> QED
  BY <1>1, <1>2, <1>3 DEF OfSize

LEMMA SizeZero ==
  ASSUME NEW S, IsFiniteSet(S), NEW s \in OfSize(S, 0)
  PROVE s = {}
<1>1. s \in SUBSET S /\ IsFiniteSet(s) /\ Cardinality(s) <= 0
  BY FS_Subset DEF OfSize
<1>2. Cardinality(s) \in Nat
  BY <1>1, FS_CardinalityType
<1>3. Cardinality(s) = 0
  BY <1>1, <1>2
<1> QED
  BY <1>1, <1>3, FS_EmptySet

LEMMA AllSizes ==
  ASSUME NEW S, IsFiniteSet(S)
  PROVE Cardinality(S) \in Nat /\ OfSize(S, Cardinality(S)) = SUBSET S
<1>1. Cardinality(S) \in Nat
  BY FS_CardinalityType
<1>2. \A s \in SUBSET S : Cardinality(s) <= Cardinality(S)
  BY FS_Subset
<1> QED
  BY <1>1, <1>2 DEF OfSize

LEMMA SumExists ==
  ASSUME NEW S, IsFiniteSet(S), NEW f \in [S -> Nat]
  PROVE \E g \in [SUBSET S -> Nat] : Sums(g, f, S)
<1> DEFINE Solves(g, n) == /\ g[{}] = 0
                           /\ \A s \in OfSize(S, n) : s # {} => g[s] = f[OneOf(s)] + g[s \ {OneOf(s)}]
           T == {n \in 0..Cardinality(S) : \E g \in [SUBSET S -> Nat] : Solves(g, n)}
<1>1. Cardinality(S) \in Nat /\ OfSize(S, Cardinality(S)) = SUBSET S
  BY AllSizes
<1>2. 0 \in T
  <2> DEFINE g == [s \in SUBSET S |-> 0]
  <2>1. g \in [SUBSET S -> Nat] /\ g[{}] = 0
    OBVIOUS
  <2>2. \A s \in OfSize(S, 0) : s = {}
    BY SizeZero
  <2> HIDE DEF g
  <2>3. Solves(g, 0)
    BY <2>1, <2>2
  <2> QED
    BY <1>1, <2>1, <2>3
<1>3. ASSUME NEW n \in 0..Cardinality(S) - 1, n \in T PROVE n + 1 \in T
  <2>1. PICK g \in [SUBSET S -> Nat] : Solves(g, n)
    BY <1>3
  <2>2. n \in Nat /\ n + 1 \in 0..Cardinality(S)
    BY <1>1
  <2> DEFINE h == [s \in SUBSET S |-> IF s = {} THEN 0 ELSE f[OneOf(s)] + g[s \ {OneOf(s)}]]
  <2>3. h \in [SUBSET S -> Nat]
    <3>1. ASSUME NEW s \in SUBSET S, s # {} PROVE f[OneOf(s)] + g[s \ {OneOf(s)}] \in Nat
      <4>1. OneOf(s) \in S /\ s \ {OneOf(s)} \in SUBSET S
        BY <3>1, OneIsIn
      <4>2. f[OneOf(s)] \in Nat /\ g[s \ {OneOf(s)}] \in Nat
        BY <4>1
      <4> QED
        BY <4>2
    <3> QED
      BY <3>1
  <2>4. h[{}] = 0
    OBVIOUS
  <2>5. ASSUME NEW s \in OfSize(S, n) PROVE h[s] = g[s]
    <3>1. s \in SUBSET S
      BY DEF OfSize
    <3> QED
      BY <2>1, <3>1
  <2>6. ASSUME NEW s \in OfSize(S, n + 1), s # {} PROVE h[s] = f[OneOf(s)] + h[s \ {OneOf(s)}]
    <3>1. s \in SUBSET S
      BY DEF OfSize
    <3>2. s \ {OneOf(s)} \in OfSize(S, n)
      BY <2>2, <2>6, OneIsIn, Smaller
    <3>3. h[s \ {OneOf(s)}] = g[s \ {OneOf(s)}]
      BY <2>5, <3>2
    <3>4. h[s] = f[OneOf(s)] + g[s \ {OneOf(s)}]
      BY <2>6, <3>1
    <3> QED
      BY <3>3, <3>4
  <2> HIDE DEF h
  <2>7. Solves(h, n + 1)
    BY <2>4, <2>6
  <2> QED
    BY <2>2, <2>3, <2>7
<1>4. Cardinality(S) \in T
  <2> HIDE DEF T
  <2>1. \A n \in 0..Cardinality(S) : n \in T
    BY <1>1, <1>2, <1>3, InductionUpTo
  <2> QED
    BY <1>1, <2>1
<1>5. PICK g \in [SUBSET S -> Nat] : Solves(g, Cardinality(S))
  BY <1>4
<1>6. Sums(g, f, S)
  BY <1>1, <1>5 DEF Sums
<1> QED
  BY <1>6

LEMMA SumType ==
  ASSUME NEW S, IsFiniteSet(S), NEW f \in [S -> Nat], NEW g, Sums(g, f, S)
  PROVE \A s \in SUBSET S : g[s] \in Nat
<1> DEFINE T == {n \in 0..Cardinality(S) : \A s \in OfSize(S, n) : g[s] \in Nat}
<1>1. Cardinality(S) \in Nat /\ OfSize(S, Cardinality(S)) = SUBSET S
  BY AllSizes
<1>2. 0 \in T
  <2>1. ASSUME NEW s \in OfSize(S, 0) PROVE g[s] \in Nat
    <3>1. s = {} /\ g[{}] = 0
      BY SizeZero DEF Sums
    <3> QED
      BY <3>1
  <2> QED
    BY <1>1, <2>1
<1>3. ASSUME NEW n \in 0..Cardinality(S) - 1, n \in T PROVE n + 1 \in T
  <2>1. n \in Nat /\ n + 1 \in 0..Cardinality(S)
    BY <1>1
  <2>2. ASSUME NEW s \in OfSize(S, n + 1) PROVE g[s] \in Nat
    <3>1. CASE s = {}
      BY <3>1 DEF Sums
    <3>2. CASE s # {}
      <4>1. s \in SUBSET S /\ OneOf(s) \in s
        BY <3>2, OneIsIn DEF OfSize
      <4>2. s \ {OneOf(s)} \in OfSize(S, n)
        BY <2>1, <4>1, Smaller
      <4>3. g[s \ {OneOf(s)}] \in Nat /\ f[OneOf(s)] \in Nat
        BY <1>3, <4>1, <4>2
      <4>4. g[s] = f[OneOf(s)] + g[s \ {OneOf(s)}]
        BY <3>2, <4>1 DEF Sums
      <4> QED
        BY <4>3, <4>4
    <3> QED
      BY <3>1, <3>2
  <2> QED
    BY <2>1, <2>2
<1>4. Cardinality(S) \in T
  <2> HIDE DEF T
  <2>1. \A n \in 0..Cardinality(S) : n \in T
    BY <1>1, <1>2, <1>3, InductionUpTo
  <2> QED
    BY <1>1, <2>1
<1> QED
  BY <1>1, <1>4

\* The order does not matter.
LEMMA SumAny ==
  ASSUME NEW S, IsFiniteSet(S), NEW f \in [S -> Nat], NEW g, Sums(g, f, S)
  PROVE \A s \in SUBSET S : \A y \in s : g[s] = f[y] + g[s \ {y}]
<1> DEFINE T == {n \in 0..Cardinality(S) :
                   \A s \in OfSize(S, n) : \A y \in s : g[s] = f[y] + g[s \ {y}]}
<1>1. Cardinality(S) \in Nat /\ OfSize(S, Cardinality(S)) = SUBSET S
  BY AllSizes
<1>2. 0 \in T
  <2>1. \A s \in OfSize(S, 0) : s = {}
    BY SizeZero
  <2> QED
    BY <1>1, <2>1
<1>3. ASSUME NEW n \in 0..Cardinality(S) - 1, n \in T PROVE n + 1 \in T
  <2>1. n \in Nat /\ n + 1 \in 0..Cardinality(S)
    BY <1>1
  <2>2. ASSUME NEW s \in OfSize(S, n + 1), NEW y \in s PROVE g[s] = f[y] + g[s \ {y}]
    <3> DEFINE c == OneOf(s)
    <3>1. s \in SUBSET S /\ s # {} /\ c \in s
      BY OneIsIn DEF OfSize
    <3>2. g[s] = f[c] + g[s \ {c}]
      BY <3>1 DEF Sums
    <3> HIDE DEF c
    <3>3. CASE y = c
      BY <3>2, <3>3
    <3>4. CASE y # c
      <4>1. s \ {c} \in OfSize(S, n) /\ s \ {y} \in OfSize(S, n)
        BY <2>1, <3>1, Smaller
      <4>2. y \in s \ {c} /\ c \in s \ {y} /\ (s \ {c}) \ {y} = (s \ {y}) \ {c}
        BY <3>1, <3>4
      <4>3. g[s \ {c}] = f[y] + g[(s \ {c}) \ {y}] /\ g[s \ {y}] = f[c] + g[(s \ {y}) \ {c}]
        BY <1>3, <4>1, <4>2
      <4>4. f[y] \in Nat /\ f[c] \in Nat /\ g[(s \ {c}) \ {y}] \in Nat
        <5>1. y \in S /\ c \in S /\ (s \ {c}) \ {y} \in SUBSET S
          BY <3>1
        <5> QED
          BY <5>1, SumType
      <4> DEFINE d == g[(s \ {c}) \ {y}]
      <4>5. g[s] = f[c] + (f[y] + d) /\ g[s \ {y}] = f[c] + d /\ d \in Nat
        BY <3>2, <4>2, <4>3, <4>4
      <4> HIDE DEF d
      <4> QED
        BY <4>4, <4>5
    <3> QED
      BY <3>3, <3>4
  <2> QED
    BY <2>1, <2>2
<1>4. Cardinality(S) \in T
  <2> HIDE DEF T
  <2>1. \A n \in 0..Cardinality(S) : n \in T
    BY <1>1, <1>2, <1>3, InductionUpTo
  <2> QED
    BY <1>1, <2>1
<1> QED
  BY <1>1, <1>4

\* Two sums are the same when all that is not zero in the one is mapped to the other.
Image(map, s) == {map[x] : x \in s}
LEMMA SumMap ==
  ASSUME NEW P, IsFiniteSet(P), NEW f \in [P -> Nat], NEW g, Sums(g, f, P),
         NEW Q, IsFiniteSet(Q), NEW e \in [Q -> Nat], NEW h, Sums(h, e, Q),
         NEW K \in SUBSET P, NEW map \in [K -> Q],
         \A x \in P \ K : f[x] = 0,
         \A x \in K : e[map[x]] = f[x],
         \A x, y \in K : map[x] = map[y] => x = y
  PROVE g[P] = h[Image(map, K)]
<1> DEFINE Same(s) == g[s] = h[Image(map, s \cap K)]
           T == {n \in 0..Cardinality(P) : \A s \in OfSize(P, n) : Same(s)}
<1>1. Cardinality(P) \in Nat /\ OfSize(P, Cardinality(P)) = SUBSET P
  BY AllSizes
<1>2. Same({})
  <2>1. Image(map, {} \cap K) = {}
    BY DEF Image
  <2> QED
    BY <2>1 DEF Sums
<1>3. 0 \in T
  <2>1. ASSUME NEW s \in OfSize(P, 0) PROVE Same(s)
    <3>1. s = {}
      BY SizeZero
    <3> QED
      BY <1>2, <3>1
  <2> HIDE DEF Same
  <2> QED
    BY <1>1, <2>1
<1>4. ASSUME NEW n \in 0..Cardinality(P) - 1, n \in T PROVE n + 1 \in T
  <2>1. n \in Nat /\ n + 1 \in 0..Cardinality(P)
    BY <1>1
  <2>2. ASSUME NEW s \in OfSize(P, n + 1) PROVE Same(s)
    <3>1. CASE s = {}
      BY <1>2, <3>1
    <3>2. CASE s # {}
      <4> DEFINE c == OneOf(s)
                 r == s \ {c}
      <4>1. s \in SUBSET P /\ c \in s /\ c \in P
        BY <3>2, OneIsIn DEF OfSize
      <4>2. r \in OfSize(P, n)
        BY <2>1, <4>1, Smaller
      <4>3. g[s] = f[c] + g[r] /\ g[r] \in Nat /\ f[c] \in Nat
        <5>1. r \in SUBSET P
          BY <4>1
        <5>2. g[s] = f[c] + g[r]
          BY <3>2, <4>1 DEF Sums
        <5> QED
          BY <4>1, <5>1, <5>2, SumType
      <4>4. Same(r)
        BY <1>4, <4>2
      <4>5. r \in SUBSET P /\ r \cap K \in SUBSET K /\ c \notin r /\ s = r \cup {c}
        BY <4>1
      <4> HIDE DEF c, r
      <4>6. CASE c \in K
        <5> DEFINE I == Image(map, s \cap K)
        <5>1. map[c] \in I /\ I \in SUBSET Q
          BY <4>1, <4>6 DEF Image
        <5>2. I \ {map[c]} = Image(map, r \cap K)
          <6>1. I = Image(map, r \cap K) \cup {map[c]}
            BY <4>5, <4>6 DEF Image
          <6>2. map[c] \notin Image(map, r \cap K)
            BY <4>5, <4>6 DEF Image
          <6> QED
            BY <6>1, <6>2
        <5> HIDE DEF I
        <5>3. h[I] = e[map[c]] + h[I \ {map[c]}]
          BY <5>1, SumAny
        <5>4. e[map[c]] = f[c]
          BY <4>6
        <5> QED
          BY <4>3, <4>4, <5>2, <5>3, <5>4 DEF I
      <4>7. CASE c \notin K
        <5>1. s \cap K = r \cap K
          BY <4>5, <4>7
        <5>2. f[c] = 0
          BY <4>1, <4>7
        <5>3. g[s] = g[r]
          BY <4>3, <5>2
        <5>4. Image(map, s \cap K) = Image(map, r \cap K)
          BY <5>1
        <5> QED
          BY <4>4, <5>3, <5>4
      <4> QED
        BY <4>6, <4>7
    <3> QED
      BY <3>1, <3>2
  <2> HIDE DEF Same
  <2> QED
    BY <2>1, <2>2
<1>5. Cardinality(P) \in T
  <2> HIDE DEF T
  <2>1. \A n \in 0..Cardinality(P) : n \in T
    BY <1>1, <1>3, <1>4, InductionUpTo
  <2> QED
    BY <1>1, <2>1
<1>6. Same(P)
  <2> HIDE DEF Same
  <2> QED
    BY <1>1, <1>5
<1>7. P \cap K = K
  OBVIOUS
<1> QED
  BY <1>6, <1>7

\* What the overlay adds up, and what was really said, are such sums.
LEMMA CommonType ==
  ASSUME NEW x, NEW y, x.start \in Int, x.end \in Int, y.start \in Int, y.end \in Int
  PROVE Common(x, y) \in Nat
<1> DEFINE from == IF x.start > y.start THEN x.start ELSE y.start
           to == IF x.end < y.end THEN x.end ELSE y.end
<1>1. from \in Int /\ to \in Int
  OBVIOUS
<1>2. Common(x, y) = IF to > from THEN to - from ELSE 0
  BY DEF Common
<1> HIDE DEF from, to
<1> QED
  BY <1>1, <1>2

Labels(spans, k) == {p \in spans : p.key = k}
OverlapSum(h, x, spans, k) ==
  /\ Sums(h, [y \in Labels(spans, k) |-> Common(x, y)], Labels(spans, k))
  /\ Overlap(x, spans, k) = h[Labels(spans, k)]

LEMMA OverlapSums ==
  ASSUME NEW x, NEW spans, NEW k, IsFiniteSet(spans),
         x.start \in Int, x.end \in Int, \A y \in spans : y.start \in Int /\ y.end \in Int
  PROVE \E h : OverlapSum(h, x, spans, k)
<1> DEFINE S == {p \in spans : p.key = k}
           f == [y \in S |-> Common(x, y)]
           Is(h) == h = [s \in SUBSET S |-> IF s = {} THEN 0
                                            ELSE Common(x, CHOOSE y \in s : TRUE) + h[s \ {CHOOSE y \in s : TRUE}]]
<1>1. IsFiniteSet(S) /\ S \in SUBSET spans
  BY FS_Subset
<1>2. f \in [S -> Nat]
  <2>1. \A y \in S : Common(x, y) \in Nat
    BY CommonType
  <2> QED
    BY <2>1
<1> DEFINE F == CHOOSE h : Is(h)
<1>3. Overlap(x, spans, k) = F[S]
  BY DEF Overlap, MapThenSumSet, MapThenFoldSet
<1>4. \E h : Is(h)
  <2>1. PICK g \in [SUBSET S -> Nat] : Sums(g, f, S)
    <3> HIDE DEF S, f
    <3> QED
      BY <1>1, <1>2, SumExists
  <2>2. ASSUME NEW s \in SUBSET S
        PROVE g[s] = IF s = {} THEN 0 ELSE Common(x, CHOOSE y \in s : TRUE) + g[s \ {CHOOSE y \in s : TRUE}]
    <3> HIDE DEF S
    <3>1. CASE s = {}
      BY <2>1, <3>1 DEF Sums
    <3>2. CASE s # {}
      <4>1. g[s] = f[OneOf(s)] + g[s \ {OneOf(s)}]
        BY <2>1, <3>2 DEF Sums
      <4>2. OneOf(s) \in S
        BY <3>2, OneIsIn
      <4>3. f[OneOf(s)] = Common(x, OneOf(s))
        BY <4>2
      <4>4. OneOf(s) = CHOOSE y \in s : TRUE
        BY DEF OneOf
      <4> QED
        BY <3>2, <4>1, <4>3, <4>4
    <3> QED
      BY <3>1, <3>2
  <2>3. Is(g)
    <3> HIDE DEF S
    <3> QED
      BY <2>1, <2>2
  <2> HIDE DEF Is
  <2> QED
    BY <2>3
<1>5. Is(F)
  <2> HIDE DEF Is
  <2> QED
    BY <1>4
<1> HIDE DEF F
<1>6. Sums(F, f, S)
  <2> HIDE DEF S
  <2>1. F[{}] = 0
    BY <1>5
  <2>2. ASSUME NEW s \in SUBSET S, s # {} PROVE F[s] = f[OneOf(s)] + F[s \ {OneOf(s)}]
    <3>1. OneOf(s) = CHOOSE y \in s : TRUE
      BY DEF OneOf
    <3>2. OneOf(s) \in S
      BY <2>2, OneIsIn
    <3>3. F[s] = Common(x, OneOf(s)) + F[s \ {OneOf(s)}]
      BY <1>5, <2>2, <3>1
    <3> QED
      BY <3>2, <3>3
  <2> HIDE DEF f
  <2> QED
    BY <2>1, <2>2 DEF Sums
<1>7. OverlapSum(F, x, spans, k)
  BY <1>3, <1>6 DEF OverlapSum, Labels
<1> QED
  BY <1>7

Said(v) == {q \in spoken : q.voice = v}
SpokeSum(h, x, v) ==
  /\ Sums(h, [p \in Said(v) |-> Common(x, [start |-> p.from, end |-> p.to])], Said(v))
  /\ Spoke(x, v) = h[Said(v)]

LEMMA SpokeSums ==
  ASSUME NEW x, NEW v, IsFiniteSet(spoken),
         x.start \in Int, x.end \in Int, \A p \in spoken : p.from \in Int /\ p.to \in Int
  PROVE \E h : SpokeSum(h, x, v)
<1> DEFINE S == {q \in spoken : q.voice = v}
           Span(p) == [start |-> p.from, end |-> p.to]
           f == [p \in S |-> Common(x, Span(p))]
           Is(h) == h = [s \in SUBSET S |-> IF s = {} THEN 0
                                            ELSE Common(x, Span(CHOOSE y \in s : TRUE)) + h[s \ {CHOOSE y \in s : TRUE}]]
<1>1. IsFiniteSet(S) /\ S \in SUBSET spoken
  BY FS_Subset
<1>2. f \in [S -> Nat]
  <2>1. \A y \in S : Common(x, Span(y)) \in Nat
    BY CommonType
  <2> QED
    BY <2>1
<1> DEFINE F == CHOOSE h : Is(h)
<1>3. Spoke(x, v) = F[S]
  BY DEF Spoke, MapThenSumSet, MapThenFoldSet
<1>4. \E h : Is(h)
  <2>1. PICK g \in [SUBSET S -> Nat] : Sums(g, f, S)
    <3> HIDE DEF S, f
    <3> QED
      BY <1>1, <1>2, SumExists
  <2>2. ASSUME NEW s \in SUBSET S
        PROVE g[s] = IF s = {} THEN 0 ELSE Common(x, Span(CHOOSE y \in s : TRUE)) + g[s \ {CHOOSE y \in s : TRUE}]
    <3> HIDE DEF S
    <3>1. CASE s = {}
      BY <2>1, <3>1 DEF Sums
    <3>2. CASE s # {}
      <4>1. g[s] = f[OneOf(s)] + g[s \ {OneOf(s)}]
        BY <2>1, <3>2 DEF Sums
      <4>2. OneOf(s) \in S
        BY <3>2, OneIsIn
      <4>3. f[OneOf(s)] = Common(x, Span(OneOf(s)))
        BY <4>2
      <4>4. OneOf(s) = CHOOSE y \in s : TRUE
        BY DEF OneOf
      <4> QED
        BY <3>2, <4>1, <4>3, <4>4
    <3> QED
      BY <3>1, <3>2
  <2>3. Is(g)
    <3> HIDE DEF S
    <3> QED
      BY <2>1, <2>2
  <2> HIDE DEF Is
  <2> QED
    BY <2>3
<1>5. Is(F)
  <2> HIDE DEF Is
  <2> QED
    BY <1>4
<1> HIDE DEF F
<1>6. Sums(F, f, S)
  <2> HIDE DEF S
  <2>1. F[{}] = 0
    BY <1>5
  <2>2. ASSUME NEW s \in SUBSET S, s # {} PROVE F[s] = f[OneOf(s)] + F[s \ {OneOf(s)}]
    <3>1. OneOf(s) = CHOOSE y \in s : TRUE
      BY DEF OneOf
    <3>2. OneOf(s) \in S
      BY <2>2, OneIsIn
    <3>3. F[s] = Common(x, Span(OneOf(s))) + F[s \ {OneOf(s)}]
      BY <1>5, <2>2, <3>1
    <3> QED
      BY <3>2, <3>3
  <2> HIDE DEF f
  <2> QED
    BY <2>1, <2>2 DEF Sums
<1>7. SpokeSum(F, x, v)
  BY <1>3, <1>6 DEF SpokeSum, Said
<1> QED
  BY <1>7

LEMMA ImageFinite ==
  ASSUME NEW S, IsFiniteSet(S), NEW T, NEW map \in [S -> T]
  PROVE IsFiniteSet(Image(map, S))
<1>1. map \in Surjection(S, Image(map, S))
  BY DEF Surjection, Image
<1> QED
  BY <1>1, FS_Surjection

\* One of finitely many has the most.
Beats(w, k, j) == w[k] > w[j] \/ (w[k] = w[j] /\ k >= j)
LEMMA Best ==
  ASSUME NEW S \in SUBSET Nat, IsFiniteSet(S), S # {}, NEW w \in [S -> Nat]
  PROVE \E k \in S : \A j \in S : Beats(w, k, j)
<1> DEFINE Has(s) == \E k \in s : \A j \in s : Beats(w, k, j)
           T == {n \in 0..Cardinality(S) : \A s \in OfSize(S, n) : s # {} => Has(s)}
<1>1. Cardinality(S) \in Nat /\ OfSize(S, Cardinality(S)) = SUBSET S
  BY AllSizes
<1>2. 0 \in T
  <2>1. \A s \in OfSize(S, 0) : s = {}
    BY SizeZero
  <2> QED
    BY <1>1, <2>1
<1>3. ASSUME NEW n \in 0..Cardinality(S) - 1, n \in T PROVE n + 1 \in T
  <2>1. n \in Nat /\ n + 1 \in 0..Cardinality(S)
    BY <1>1
  <2>2. ASSUME NEW s \in OfSize(S, n + 1), s # {} PROVE Has(s)
    <3>1. PICK y \in s : TRUE
      BY <2>2
    <3>2. s \in SUBSET S
      BY DEF OfSize
    <3>3. s \ {y} \in OfSize(S, n)
      BY <2>1, Smaller
    <3>4. \A k \in s : k \in Nat /\ w[k] \in Nat
      BY <3>2
    <3>5. CASE s \ {y} = {}
      <4>1. \A j \in s : j = y
        BY <3>5
      <4>2. Beats(w, y, y)
        BY <3>4 DEF Beats
      <4> QED
        BY <4>1, <4>2
    <3>6. CASE s \ {y} # {}
      <4>1. Has(s \ {y})
        BY <1>3, <3>3, <3>6
      <4>2. PICK k \in s \ {y} : \A j \in s \ {y} : Beats(w, k, j)
        BY <4>1
      <4>3. CASE Beats(w, k, y)
        BY <4>2, <4>3
      <4>4. CASE ~Beats(w, k, y)
        <5>1. \A j \in s \ {y} : Beats(w, y, j)
          BY <3>4, <4>2, <4>4 DEF Beats
        <5>2. Beats(w, y, y)
          BY <3>4 DEF Beats
        <5> QED
          BY <5>1, <5>2
      <4> QED
        BY <4>3, <4>4
    <3> QED
      BY <3>5, <3>6
  <2> HIDE DEF Has
  <2> QED
    BY <2>1, <2>2
<1>4. Cardinality(S) \in T
  <2> HIDE DEF T
  <2>1. \A n \in 0..Cardinality(S) : n \in T
    BY <1>1, <1>2, <1>3, InductionUpTo
  <2> QED
    BY <1>1, <2>1
<1>5. Has(S)
  <2> HIDE DEF Has
  <2> QED
    BY <1>1, <1>4
<1> QED
  BY <1>5

\* The overlay gives a segment the label that overlaps it longest.
SpanType == [key : Nat, start : Nat, end : Nat]
LEMMA OverlapType ==
  ASSUME NEW x \in Segments, NEW spans \in SUBSET SpanType, IsFiniteSet(spans), NEW k
  PROVE Overlap(x, spans, k) \in Nat
<1> DEFINE S == Labels(spans, k)
           f == [y \in S |-> Common(x, y)]
<1>1. x.start \in Int /\ x.end \in Int /\ \A y \in spans : y.start \in Int /\ y.end \in Int
  BY DEF Segments, SpanType
<1>2. PICK h : OverlapSum(h, x, spans, k)
  BY <1>1, OverlapSums
<1>3. IsFiniteSet(S) /\ S \in SUBSET spans
  BY FS_Subset DEF Labels
<1>4. f \in [S -> Nat]
  <2>1. \A y \in S : Common(x, y) \in Nat
    BY <1>1, <1>3, CommonType
  <2> QED
    BY <2>1
<1>5. Sums(h, f, S) /\ Overlap(x, spans, k) = h[S]
  BY <1>2 DEF OverlapSum
<1> HIDE DEF S, f
<1> QED
  BY <1>3, <1>4, <1>5, SumType

LEMMA LabelledKeeps ==
  ASSUME NEW x \in Segments, NEW spans \in SUBSET SpanType, IsFiniteSet(spans)
  PROVE /\ Labelled(x, spans) \in Segments
        /\ Labelled(x, spans).start = x.start /\ Labelled(x, spans).end = x.end
        /\ Labelled(x, spans).turn = x.turn
        /\ \A v \in Nat : Overlap(x, spans, v) > 0 /\ (\E p \in spans : p.key = v) =>
             /\ \E p \in spans : p.key = Labelled(x, spans).key
             /\ Overlap(x, spans, Labelled(x, spans).key) >= Overlap(x, spans, v)
<1> DEFINE heard == {k \in {p.key : p \in spans} : Overlap(x, spans, k) > 0}
           beats(k, j) == \/ Overlap(x, spans, k) > Overlap(x, spans, j)
                          \/ Overlap(x, spans, k) = Overlap(x, spans, j) /\ k >= j
           best == CHOOSE k \in heard : \A j \in heard : beats(k, j)
<1>1. Labelled(x, spans) = IF heard = {} THEN x ELSE [x EXCEPT !.key = best]
  BY DEF Labelled
<1>2. heard \in SUBSET Nat /\ \A k \in heard : \E p \in spans : p.key = k
  BY DEF SpanType
<1>3. \A v : Overlap(x, spans, v) > 0 /\ (\E p \in spans : p.key = v) => v \in heard
  OBVIOUS
<1>4. CASE heard = {}
  BY <1>1, <1>3, <1>4
<1>5. CASE heard # {}
  <2>1. IsFiniteSet(heard)
    <3> DEFINE map == [p \in spans |-> p.key]
    <3>1. map \in [spans -> Nat]
      BY DEF SpanType
    <3>2. heard \in SUBSET Image(map, spans)
      BY DEF Image
    <3> HIDE DEF map, heard
    <3> QED
      BY <3>1, <3>2, ImageFinite, FS_Subset
  <2>2. \A k \in heard : Overlap(x, spans, k) \in Nat
    BY OverlapType
  <2> DEFINE w == [k \in heard |-> Overlap(x, spans, k)]
  <2>3. w \in [heard -> Nat]
    BY <2>2
  <2>4. PICK k \in heard : \A j \in heard : Beats(w, k, j)
    <3> HIDE DEF heard, w
    <3> QED
      BY <1>2, <1>5, <2>1, <2>3, Best
  <2>5. \A j \in heard : beats(k, j)
    <3> HIDE DEF heard
    <3> QED
      BY <2>4 DEF Beats
  <2>6. best \in heard /\ \A j \in heard : beats(best, j)
    <3> HIDE DEF heard, beats
    <3> QED
      BY <2>5
  <2> HIDE DEF best
  <2>7. \A j \in heard : Overlap(x, spans, best) >= Overlap(x, spans, j)
    <3> HIDE DEF heard
    <3> QED
      BY <2>2, <2>6
  <2> HIDE DEF heard
  <2>8. best \in Nat /\ Labelled(x, spans) = [x EXCEPT !.key = best]
    BY <1>1, <1>2, <1>5, <2>6
  <2>9. /\ Labelled(x, spans) \in Segments /\ Labelled(x, spans).key = best
        /\ Labelled(x, spans).start = x.start /\ Labelled(x, spans).end = x.end
        /\ Labelled(x, spans).turn = x.turn
    BY <2>8 DEF Segments
  <2> QED
    BY <1>2, <1>3, <2>6, <2>7, <2>9
<1> QED
  BY <1>4, <1>5

\* While the buffer holds the whole meeting, the overlay hears for how long each one spoke.
LEMMA SpansAreSaid ==
  ASSUME spoken \in SUBSET Speeches, IsFiniteSet(spoken), MinFlush <= audio, audio <= MaxBuffer, audio \in Nat
  PROVE /\ Spans(spoken, audio) =
             {[key |-> p.voice, start |-> p.from, end |-> p.to] : p \in {q \in spoken : q.from < q.to}}
        /\ Spans(spoken, audio) \in SUBSET SpanType /\ IsFiniteSet(Spans(spoken, audio))
<1> DEFINE Span(p) == [key |-> p.voice, start |-> p.from, end |-> p.to]
           D == {q \in spoken : q.to > 0}
<1>1. BufferFrom(audio) = 0
  BY LabelsAssumption DEF BufferFrom
<1>2. ASSUME NEW p \in spoken
      PROVE p.voice \in Nat /\ p.from \in Nat /\ p.to \in Nat
  BY TimelineAssumption DEF Speeches
<1>3. Diarized(spoken, audio) = {Span(p) : p \in D}
  <2>1. ASSUME NEW p \in D
        PROVE [key |-> p.voice, start |-> IF p.from > 0 THEN p.from - 0 ELSE 0, end |-> p.to - 0] = Span(p)
    <3>1. (IF p.from > 0 THEN p.from - 0 ELSE 0) = p.from /\ p.to - 0 = p.to
      BY <1>2
    <3> QED
      BY <3>1
  <2>2. Diarized(spoken, audio)
          = {[key |-> p.voice, start |-> IF p.from > 0 THEN p.from - 0 ELSE 0, end |-> p.to - 0] : p \in D}
    BY <1>1 DEF Diarized
  <2> HIDE DEF Span, D
  <2> QED
    BY <2>1, <2>2
<1>4. Spans(spoken, audio) = {y \in {Span(p) : p \in D} : y.end > y.start}
  BY <1>3, LabelsAssumption DEF Spans, ToSpans
<1>5. {y \in {Span(p) : p \in D} : y.end > y.start} = {Span(p) : p \in {q \in spoken : q.from < q.to}}
  BY <1>2
<1>6. {Span(p) : p \in {q \in spoken : q.from < q.to}} \in SUBSET SpanType
  BY <1>2 DEF SpanType
<1>7. IsFiniteSet({Span(p) : p \in {q \in spoken : q.from < q.to}})
  <2> DEFINE K == {q \in spoken : q.from < q.to}
             map == [p \in K |-> Span(p)]
  <2>1. IsFiniteSet(K)
    BY FS_Subset
  <2>2. map \in [K -> SpanType]
    BY <1>2 DEF SpanType
  <2>3. Image(map, K) = {Span(p) : p \in K}
    BY DEF Image
  <2> HIDE DEF K, map
  <2>4. IsFiniteSet(Image(map, K))
    BY <2>1, <2>2, ImageFinite
  <2> QED
    BY <2>3, <2>4 DEF K
<1> QED
  BY <1>4, <1>5, <1>6, <1>7

LEMMA SpokeIsOverlap ==
  ASSUME spoken \in SUBSET Speeches, IsFiniteSet(spoken), MinFlush <= audio, audio <= MaxBuffer, audio \in Nat,
         \A p, q \in spoken : p.from = q.from => p = q,
         NEW x \in Segments, NEW v \in Voices
  PROVE /\ Spoke(x, v) = Overlap(x, Spans(spoken, audio), v)
        /\ Spoke(x, v) > 0 => \E y \in Spans(spoken, audio) : y.key = v
<1> DEFINE spans == Spans(spoken, audio)
           Span(p) == [key |-> p.voice, start |-> p.from, end |-> p.to]
           P == Said(v)
           f == [p \in P |-> Common(x, [start |-> p.from, end |-> p.to])]
           Q == Labels(spans, v)
           e == [y \in Q |-> Common(x, y)]
           K == {p \in P : p.from < p.to}
           map == [p \in K |-> Span(p)]
<1>1. spans = {Span(p) : p \in {q \in spoken : q.from < q.to}} /\ spans \in SUBSET SpanType /\ IsFiniteSet(spans)
  BY SpansAreSaid
<1> HIDE DEF spans
<1>2. ASSUME NEW p \in spoken
      PROVE p.voice \in Nat /\ p.from \in Nat /\ p.to \in Nat
  BY TimelineAssumption DEF Speeches
<1>3. x.start \in Int /\ x.end \in Int /\ \A y \in spans : y.start \in Int /\ y.end \in Int
  BY <1>1 DEF Segments, SpanType
<1>4. PICK g : SpokeSum(g, x, v)
  <2>1. \A p \in spoken : p.from \in Int /\ p.to \in Int
    BY <1>2
  <2>2. x.start \in Int /\ x.end \in Int
    BY <1>3
  <2> QED
    BY <2>1, <2>2, SpokeSums
<1>5. PICK h : OverlapSum(h, x, spans, v)
  BY <1>1, <1>3, OverlapSums
<1>6. Sums(g, f, P) /\ Spoke(x, v) = g[P]
  BY <1>4 DEF SpokeSum
<1>7. Sums(h, e, Q) /\ Overlap(x, spans, v) = h[Q]
  BY <1>5 DEF OverlapSum
<1>8. P \in SUBSET spoken /\ IsFiniteSet(P) /\ Q \in SUBSET spans /\ IsFiniteSet(Q) /\ K \in SUBSET P
  BY <1>1, FS_Subset DEF Said, Labels
<1>9. f \in [P -> Nat]
  <2>1. ASSUME NEW p \in P PROVE Common(x, [start |-> p.from, end |-> p.to]) \in Nat
    BY <1>2, <1>3, <1>8, CommonType
  <2> QED
    BY <2>1
<1>10. e \in [Q -> Nat]
  <2>1. ASSUME NEW y \in Q PROVE Common(x, y) \in Nat
    BY <1>3, <1>8, CommonType
  <2> QED
    BY <2>1
<1>11. \A p \in K : Span(p) \in Q
  BY <1>1 DEF Said, Labels
<1>12. map \in [K -> Q]
  BY <1>11
<1>13. \A y \in Q : \E p \in K : y = Span(p)
  BY <1>1 DEF Said, Labels
<1>14. Image(map, K) = Q
  BY <1>11, <1>13 DEF Image
<1>15. ASSUME NEW p \in P \ K PROVE f[p] = 0
  <2>1. p.from \in Nat /\ p.to \in Nat /\ ~(p.from < p.to)
    BY <1>2, <1>8
  <2>2. Common(x, [start |-> p.from, end |-> p.to]) = 0
    BY <1>3, <2>1 DEF Common
  <2> QED
    BY <2>2
<1>16. ASSUME NEW p \in K PROVE e[map[p]] = f[p]
  <2>1. Common(x, Span(p)) = Common(x, [start |-> p.from, end |-> p.to])
    BY DEF Common
  <2>2. map[p] = Span(p) /\ Span(p) \in Q
    BY <1>11
  <2> QED
    BY <2>1, <2>2
<1>17. ASSUME NEW p \in K, NEW q \in K, map[p] = map[q] PROVE p = q
  <2>1. Span(p) = Span(q)
    BY <1>17
  <2>2. p.from = q.from
    BY <2>1
  <2> QED
    BY <1>8, <2>2
<1> HIDE DEF P, f, Q, e, K, map
<1>18. g[P] = h[Image(map, K)]
  BY <1>6, <1>7, <1>8, <1>9, <1>10, <1>12, <1>15, <1>16, <1>17, SumMap
<1>19. Spoke(x, v) = Overlap(x, spans, v)
  BY <1>6, <1>7, <1>14, <1>18
<1>20. Spoke(x, v) > 0 => \E y \in spans : y.key = v
  <2> SUFFICES ASSUME ~\E y \in spans : y.key = v PROVE ~(Spoke(x, v) > 0)
    OBVIOUS
  <2>1. Q = {}
    BY DEF Q, Labels
  <2>2. h[Q] = 0
    BY <1>7, <2>1 DEF Sums
  <2> QED
    BY <1>7, <1>19, <2>2
<1> QED
  BY <1>19, <1>20 DEF spans
-----------------------------------------------------------------------------
(***************************************************************************)
(* The transcriber and the transcript.                                     *)
(***************************************************************************)
LEMMA MinIs ==
  ASSUME NEW T \in SUBSET Nat, T # {} PROVE Min(T) \in T /\ \A y \in T : Min(T) <= y
BY Least DEF Min

LEMMA ReconcileIs ==
  ASSUME NEW old \in SUBSET Segments, NEW new \in SUBSET Segments
  PROVE /\ new \subseteq Reconcile(old, new)
        /\ \A r \in Reconcile(old, new) : r \in new \/ (r \in old /\ \A x \in new : r.end < x.start)
        /\ \A r \in old : (\A x \in new : r.end < x.start) => r \in Reconcile(old, new)
<1>1. CASE new = {}
  BY <1>1 DEF Reconcile
<1>2. CASE new # {}
  <2> DEFINE T == {x.start : x \in new}
  <2>1. T \in SUBSET Nat /\ T # {}
    BY <1>2 DEF Segments
  <2>2. Min(T) \in T /\ \A y \in T : Min(T) <= y
    <3> HIDE DEF T
    <3> QED
      BY <2>1, MinIs
  <2>3. \A r \in Segments : r.end \in Nat
    BY DEF Segments
  <2>4. Reconcile(old, new) = {r \in old : r.end < Min(T)} \cup new
    BY <1>2 DEF Reconcile
  <2> HIDE DEF T
  <2>5. \A x \in new : x.start \in T /\ x.start \in Nat /\ Min(T) <= x.start
    BY <2>2 DEF T, Segments
  <2>6. \E x \in new : x.start = Min(T)
    BY <2>2 DEF T
  <2>7. Min(T) \in Nat
    BY <2>1, <2>2
  <2>8. \A r \in old : r.end < Min(T) <=> \A x \in new : r.end < x.start
    <3> SUFFICES ASSUME NEW r \in old PROVE r.end < Min(T) <=> \A x \in new : r.end < x.start
      OBVIOUS
    <3>1. r.end \in Nat
      BY <2>3
    <3> QED
      BY <2>5, <2>6, <2>7, <3>1
  <2> QED
    BY <2>4, <2>8
<1> QED
  BY <1>1, <1>2

LEMMA Moment == \A t \in Moments : t = NoTime \/ t \in Nat
BY DEF Moments

LEMMA TimelineInitInd == TimelineInit => TimelineInd
<1> SUFFICES ASSUME TimelineInit PROVE TimelineInd
  OBVIOUS
<1> USE DEF TimelineInit
<1>1. TimelineTypes
  BY TimelineAssumption, FS_EmptySet DEF TimelineTypes, Moments, Silent, Both
<1>2. Heard /\ Fallback
  BY DEF Heard, Fallback, Silent, Moments
<1>3. Bounded /\ Gathered /\ InTurn /\ Stored
  BY DEF Bounded, Gathered, InTurn, Stored, InOrder, Silent
<1>4. SpeechIsKept /\ LongSpeechKeepsSpeaker /\ LabelledByVoice
  BY DEF SpeechIsKept, LongSpeechKeepsSpeaker, LabelledByVoice, Confirmed
<1> QED
  BY <1>1, <1>2, <1>3, <1>4 DEF TimelineInd, Recorded

\* What is said of the transcript stays while the transcript and what was said do.
LEMMA TranscriptStays ==
  ASSUME TimelineInd, Open, sealed' = sealed, rows' = rows, turns' = turns, announces' = announces,
         spoken' = spoken
  PROVE (SpeechIsKept /\ LongSpeechKeepsSpeaker /\ LabelledByVoice)'
<1>1. Confirmed' = Confirmed
  BY DEF Confirmed
<1>2. SpeechIsKept'
  BY <1>1 DEF TimelineInd, SpeechIsKept, Kept
<1>3. LongSpeechKeepsSpeaker'
  BY <1>1 DEF TimelineInd, LongSpeechKeepsSpeaker
<1>4. LabelledByVoice'
  BY DEF Open, LabelledByVoice
<1> QED
  BY <1>2, <1>3, <1>4

LEMMA SendAudioInd == TimelineInd /\ SendAudio => TimelineInd'
<1> SUFFICES ASSUME TimelineInd, SendAudio PROVE TimelineInd'
  OBVIOUS
<1> USE DEF SendAudio, server, item, transcript
<1>1. TimelineTypes /\ Open /\ Recorded
  BY DEF TimelineInd
<1>2. TimelineTypes'
  BY <1>1 DEF TimelineTypes
<1>3. Heard' /\ Fallback'
  BY <1>1 DEF Recorded, Heard, Fallback
<1>4. announces' = Both => (Bounded /\ Gathered /\ InTurn /\ Stored)'
  BY <1>1 DEF Recorded, Bounded, Gathered, InTurn, Stored, InOrder, Tells
<1>5. (SpeechIsKept /\ LongSpeechKeepsSpeaker /\ LabelledByVoice)'
  BY <1>1, TranscriptStays
<1> QED
  BY <1>2, <1>3, <1>4, <1>5 DEF TimelineInd, Recorded

LEMMA SpeechStartedInd == ASSUME NEW s \in Times PROVE TimelineInd /\ SpeechStarted(s) => TimelineInd'
<1> SUFFICES ASSUME TimelineInd, SpeechStarted(s) PROVE TimelineInd'
  OBVIOUS
<1>1. TimelineTypes /\ Open /\ Recorded
  BY DEF TimelineInd, SpeechStarted
<1>2. /\ speech = Silent /\ s \in Nat /\ itemFrom <= s /\ (itemFrom > 0 => itemFrom < s)
      /\ speech' = [speech EXCEPT !.start = s] /\ sealed' = sealed
      /\ UNCHANGED <<turns, itemFrom, announces, said, spoken, boundary, confirmedEnd, pending, rows, lastWindow>>
  BY <1>1 DEF SpeechStarted, TimelineTypes, transcript, Times
<1>3. speech'.start = s /\ speech'.stop = NoTime /\ speech.stop = NoTime /\ speech.start = NoTime
  BY <1>2 DEF Silent
<1>4. TimelineTypes'
  <2>1. speech' \in [start : Moments, stop : Moments]
    BY <1>1, <1>2 DEF TimelineTypes, Moments
  <2>2. activeStart' \in Moments /\ activeEnd' \in Moments /\ activeOffset' \in Moments
    BY <1>1, <1>2 DEF SpeechStarted, TimelineTypes, Moments, item
  <2>3. /\ audio' = audio /\ labels' = labels
    BY DEF SpeechStarted
  <2> QED
    BY <1>1, <1>2, <2>1, <2>2, <2>3 DEF TimelineTypes
<1>5. Heard'
  BY <1>1, <1>2, <1>3 DEF Recorded, Heard, NoTime
<1>6. Fallback'
  <2>1. announces # Both /\ activeStart' # NoTime => "start" \in announces
    BY <1>1 DEF Recorded, Fallback, SpeechStarted, item
  <2>2. announces # Both /\ activeEnd' # NoTime => "stop" \in announces
    BY <1>1 DEF Recorded, Fallback, SpeechStarted, item
  <2> QED
    BY <1>1, <1>2, <2>1, <2>2 DEF Recorded, Fallback
<1>7. announces' = Both => (Bounded /\ Gathered /\ InTurn /\ Stored)'
  <2> SUFFICES ASSUME announces = Both PROVE (Bounded /\ Gathered /\ InTurn /\ Stored)'
    BY <1>2
  <2>1. Bounded /\ Gathered /\ InTurn /\ Stored /\ Heard
    BY <1>1 DEF Recorded
  <2>2. pending = <<>>
    BY <1>3, <2>1 DEF Heard
  <2>3. activeStart' = s /\ activeEnd' = NoTime /\ activeOffset' = boundary
    BY DEF SpeechStarted, Both
  <2>4. Bounded'
    BY <1>2, <1>3, <2>1, <2>3 DEF Bounded
  <2>5. Gathered'
    BY <1>2, <2>1, <2>2 DEF Gathered, InOrder, Tells
  <2>6. InTurn' /\ Stored'
    BY <1>2, <2>1 DEF InTurn, Stored, InOrder, Tells
  <2> QED
    BY <2>4, <2>5, <2>6
<1>8. (SpeechIsKept /\ LongSpeechKeepsSpeaker /\ LabelledByVoice)'
  BY <1>1, <1>2, TranscriptStays
<1> QED
  BY <1>4, <1>5, <1>6, <1>7, <1>8 DEF TimelineInd, Recorded

LEMMA SpeechStoppedInd == ASSUME NEW e \in Times PROVE TimelineInd /\ SpeechStopped(e) => TimelineInd'
<1> SUFFICES ASSUME TimelineInd, SpeechStopped(e) PROVE TimelineInd'
  OBVIOUS
<1>1. TimelineTypes /\ Open /\ Recorded
  BY DEF TimelineInd, SpeechStopped
<1>2. /\ speech.start # NoTime /\ speech.stop = NoTime /\ speech.start <= e /\ said < e /\ e \in Nat
      /\ speech' = [speech EXCEPT !.stop = e] /\ sealed' = sealed
      /\ UNCHANGED <<turns, itemFrom, announces, said, spoken, activeStart, activeOffset, confirmedEnd, pending,
                     rows, lastWindow>>
  BY <1>1 DEF SpeechStopped, TimelineTypes, transcript, Times
<1>3. speech'.start = speech.start /\ speech'.stop = e /\ e # NoTime
  BY <1>1, <1>2 DEF TimelineTypes, NoTime
<1>4. TimelineTypes'
  <2>1. speech' \in [start : Moments, stop : Moments]
    BY <1>1, <1>2 DEF TimelineTypes, Moments
  <2>2. activeEnd' \in Moments /\ boundary' \in Nat
    BY <1>1, <1>2 DEF SpeechStopped, TimelineTypes, Moments
  <2>3. /\ audio' = audio /\ labels' = labels
    BY DEF SpeechStopped
  <2> QED
    BY <1>1, <1>2, <2>1, <2>2, <2>3 DEF TimelineTypes
<1>5. Heard'
  BY <1>1, <1>2, <1>3 DEF Recorded, Heard
<1>6. Fallback'
  <2>1. announces # Both /\ activeEnd' # NoTime => "stop" \in announces
    BY <1>1 DEF Recorded, Fallback, SpeechStopped
  <2> QED
    BY <1>1, <1>2, <2>1 DEF Recorded, Fallback
<1>7. announces' = Both => (Bounded /\ Gathered /\ InTurn /\ Stored)'
  <2> SUFFICES ASSUME announces = Both PROVE (Bounded /\ Gathered /\ InTurn /\ Stored)'
    BY <1>2
  <2>1. Bounded /\ Gathered /\ InTurn /\ Stored
    BY <1>1 DEF Recorded
  <2>2. activeEnd' = e /\ boundary' = e
    BY DEF SpeechStopped, Both
  <2>3. Bounded'
    BY <1>2, <1>3, <2>1, <2>2 DEF Bounded
  <2>4. Gathered' /\ InTurn' /\ Stored'
    BY <1>2, <1>3, <2>1 DEF Gathered, InTurn, Stored, InOrder, Tells
  <2> QED
    BY <2>3, <2>4
<1>8. (SpeechIsKept /\ LongSpeechKeepsSpeaker /\ LabelledByVoice)'
  BY <1>1, <1>2, TranscriptStays
<1> QED
  BY <1>4, <1>5, <1>6, <1>7, <1>8 DEF TimelineInd, Recorded

LEMMA CompletedEmptyInd == TimelineInd /\ CompletedEmpty => TimelineInd'
<1> SUFFICES ASSUME TimelineInd, CompletedEmpty PROVE TimelineInd'
  OBVIOUS
<1>1. TimelineTypes /\ Open /\ Recorded
  BY DEF TimelineInd, CompletedEmpty
<1>2. /\ speech.stop # NoTime /\ pending = <<>> /\ pending' = <<>> /\ sealed' = sealed
      /\ activeStart' = NoTime /\ activeEnd' = NoTime /\ activeOffset' = NoTime
      /\ itemFrom' = speech.stop /\ speech' = Silent /\ said' = 0
      /\ UNCHANGED <<audio, turns, announces, labels, spoken, boundary, confirmedEnd, rows, lastWindow>>
  BY DEF CompletedEmpty, ForgetItem, transcript
<1>3. speech.stop \in Nat /\ speech.start \in Nat /\ itemFrom <= speech.stop /\ speech.stop > 0
  <2>1. speech.stop \in Nat /\ speech.start \in Nat
    BY <1>1, <1>2, Moment DEF TimelineTypes, Recorded, Heard
  <2> QED
    BY <1>1, <1>2, <2>1 DEF TimelineTypes, Recorded, Heard, NoTime
<1>4. TimelineTypes'
  BY <1>1, <1>2, <1>3 DEF TimelineTypes, Silent, Moments
<1>5. Heard'
  BY <1>2 DEF Heard, Silent
<1>6. Fallback'
  BY <1>1, <1>2 DEF Recorded, Fallback
<1>7. announces' = Both => (Bounded /\ Gathered /\ InTurn /\ Stored)'
  <2> SUFFICES ASSUME announces = Both PROVE (Bounded /\ Gathered /\ InTurn /\ Stored)'
    BY <1>2
  <2>1. Bounded /\ Gathered /\ InTurn /\ Stored
    BY <1>1 DEF Recorded
  <2>2. Bounded'
    BY <1>2, <2>1 DEF Bounded, Silent
  <2>3. Gathered'
    BY <1>2, <2>1 DEF Gathered, InOrder, Tells
  <2>4. InTurn'
    <3>1. \A p \in spoken : p.to \in Nat
      BY <1>1 DEF TimelineTypes, Speeches
    <3>2. itemFrom \in Nat
      BY <1>1 DEF TimelineTypes
    <3> QED
      BY <1>2, <1>3, <2>1, <3>1, <3>2 DEF InTurn
  <2>5. Stored'
    <3>1. itemFrom \in Nat
      BY <1>1 DEF TimelineTypes
    <3>2. \A r \in rows : r.end \in Nat
      BY <1>1 DEF TimelineTypes, Segments
    <3>3. \A i \in DOMAIN lastWindow : lastWindow[i].end \in Nat
      <4>1. \A i \in DOMAIN lastWindow : lastWindow[i] \in Segments
        BY <1>1, ElementOfSeq DEF TimelineTypes
      <4> QED
        BY <4>1 DEF Segments
    <3> QED
      BY <1>2, <1>3, <2>1, <3>1, <3>2, <3>3 DEF Stored, InOrder, Tells
  <2> QED
    BY <2>2, <2>3, <2>4, <2>5
<1>8. (SpeechIsKept /\ LongSpeechKeepsSpeaker /\ LabelledByVoice)'
  BY <1>1, <1>2, TranscriptStays
<1> QED
  BY <1>4, <1>5, <1>6, <1>7, <1>8 DEF TimelineInd, Recorded

LEMMA SegmentArrivesInd ==
  ASSUME NEW a \in Times, NEW b \in Times, NEW voice \in Voices, NEW words \in BOOLEAN
  PROVE TimelineInd /\ SegmentArrives(a, b, voice, words) => TimelineInd'
<1> SUFFICES ASSUME TimelineInd, SegmentArrives(a, b, voice, words) PROVE TimelineInd'
  OBVIOUS
<1> DEFINE key == IF labels THEN voice ELSE 0
           x == Segment(itemFrom + a, itemFrom + b, key, words)
           q == Speech(itemFrom + a, itemFrom + b, voice, key, words)
           n == Len(pending) + 1
<1>1. TimelineTypes /\ Open /\ Recorded /\ announces = Both
  BY DEF TimelineInd, SegmentArrives
<1>2. Heard /\ Bounded /\ Gathered /\ InTurn /\ Stored
  BY <1>1 DEF Recorded
<1>3. /\ a \in Nat /\ b \in Nat /\ a < b /\ itemFrom \in Nat /\ said \in Nat /\ turns \in Nat
      /\ speech.start \in Nat /\ speech.start <= itemFrom + a /\ said <= itemFrom + a
      /\ voice \in Nat /\ voice \in Voices /\ key \in Nat
  <2>1. a \in Nat /\ b \in Nat /\ a < b /\ itemFrom \in Nat /\ said \in Nat /\ turns \in Nat
    BY <1>1, TimelineAssumption DEF SegmentArrives, TimelineTypes, Times
  <2>2. speech.start \in Nat
    BY <1>1, Moment DEF SegmentArrives, TimelineTypes
  <2>3. itemFrom + a >= (IF said > speech.start THEN said ELSE speech.start)
    BY DEF SegmentArrives, Larger
  <2>4. voice \in Nat
    BY TimelineAssumption
  <2> QED
    BY <2>1, <2>2, <2>3, <2>4
<1>4. /\ pending' = Append(pending, x) /\ spoken' = spoken \cup {q} /\ said' = itemFrom + b
      /\ sealed' = sealed
      /\ UNCHANGED <<audio, turns, itemFrom, speech, announces, labels, activeStart, activeEnd, activeOffset,
                     boundary, confirmedEnd, rows, lastWindow>>
  <2>1. SegmentOffset = itemFrom
    <3>1. activeOffset = itemFrom /\ itemFrom # NoTime
      BY <1>2, <1>3 DEF Bounded, NoTime, SegmentArrives
    <3> QED
      BY <3>1 DEF SegmentOffset
  <2> QED
    BY <2>1 DEF SegmentArrives, transcript, item
<1>5. /\ x \in Segments /\ x.turn = turns + 1 /\ x.start = itemFrom + a /\ x.end = itemFrom + b
      /\ x.key = key /\ x.words = words
  BY <1>3 DEF Segment, Segments
<1>6. /\ q \in Speeches /\ q.turn = turns + 1 /\ q.from = itemFrom + a /\ q.to = itemFrom + b
      /\ q.key = key /\ q.words = words
  BY <1>3 DEF Speech, Speeches
<1> HIDE DEF x, q, key
<1>7. /\ pending \in Seq(Segments) /\ DOMAIN pending = 1..Len(pending) /\ Len(pending) \in Nat
      /\ pending' \in Seq(Segments) /\ DOMAIN pending' = 1..n /\ pending'[n] = x
      /\ \A i \in DOMAIN pending : pending[i] \in Segments /\ pending'[i] = pending[i] /\ i \in DOMAIN pending'
      /\ n \in DOMAIN pending' /\ pending' # <<>>
  <2>1. pending \in Seq(Segments)
    BY <1>1 DEF TimelineTypes
  <2> QED
    BY <2>1, <1>4, <1>5, AppendProperties
<1>8. \A i \in DOMAIN pending' : i = n \/ i \in DOMAIN pending
  BY <1>7
<1> HIDE DEF n
<1>9. TimelineTypes'
  <2>1. spoken' \in SUBSET Speeches /\ IsFiniteSet(spoken')
    BY <1>1, <1>4, <1>6, FS_AddElement DEF TimelineTypes
  <2> QED
    BY <1>1, <1>3, <1>4, <1>7, <2>1 DEF TimelineTypes
<1>10. Heard'
  <2>1. speech.start # NoTime
    BY DEF SegmentArrives
  <2>2. speech.stop # NoTime => itemFrom + b < speech.stop
    BY DEF SegmentArrives
  <2> QED
    BY <1>2, <1>4, <2>1, <2>2 DEF Heard
<1>11. Fallback'
  BY <1>1, <1>4 DEF Fallback
<1>12. Bounded'
  BY <1>2, <1>4 DEF Bounded
<1>13. \A i \in DOMAIN pending : pending[i].end \in Nat /\ pending[i].start \in Nat /\ pending[i].end <= said
  BY <1>2, <1>7 DEF Gathered, Segments
<1>14. Gathered'
  <2>1. InOrder(pending')
    <3>1. ASSUME NEW i \in DOMAIN pending' PROVE pending'[i].start <= pending'[i].end
      BY <1>2, <1>3, <1>5, <1>7, <1>8 DEF Gathered, InOrder
    <3>2. ASSUME NEW i \in DOMAIN pending', NEW j \in DOMAIN pending', i < j
          PROVE pending'[i].end <= pending'[j].start
      <4>1. i \in DOMAIN pending
        BY <1>7, <1>8, <3>2 DEF n
      <4>2. CASE j \in DOMAIN pending
        BY <1>2, <1>7, <3>2, <4>1, <4>2 DEF Gathered, InOrder
      <4>3. CASE j = n
        BY <1>3, <1>5, <1>7, <1>13, <4>1, <4>3
      <4> QED
        BY <1>8, <4>2, <4>3
    <3> QED
      BY <3>1, <3>2 DEF InOrder
  <2>2. ASSUME NEW i \in DOMAIN pending'
        PROVE /\ pending'[i].turn = turns' + 1
              /\ speech'.start <= pending'[i].start /\ pending'[i].start < pending'[i].end
              /\ pending'[i].end <= said'
    <3>1. CASE i = n
      BY <1>3, <1>4, <1>5, <1>7, <3>1
    <3>2. CASE i \in DOMAIN pending
      <4>1. pending[i].end <= itemFrom + b
        BY <1>3, <1>13, <3>2
      <4> QED
        BY <1>2, <1>4, <1>7, <3>2, <4>1 DEF Gathered
    <3> QED
      BY <1>8, <3>1, <3>2
  <2>3. ASSUME NEW p \in spoken', p.turn = turns' + 1 PROVE \E i \in DOMAIN pending' : Tells(pending'[i], p)
    <3>1. CASE p = q
      <4>1. Tells(pending'[n], p)
        BY <1>5, <1>6, <1>7, <3>1 DEF Tells
      <4> QED
        BY <1>7, <4>1
    <3>2. CASE p \in spoken
      <4>1. PICK i \in DOMAIN pending : Tells(pending[i], p)
        BY <1>2, <1>4, <2>3, <3>2 DEF Gathered
      <4> QED
        BY <1>7, <4>1
    <3> QED
      BY <1>4, <3>1, <3>2
  <2> QED
    BY <2>1, <2>2, <2>3 DEF Gathered
<1>15. ASSUME NEW p \in spoken PROVE p.from \in Nat /\ p.to \in Nat /\ p.from < itemFrom + a
  <2>1. p \in Speeches
    BY <1>1 DEF TimelineTypes
  <2>2. p.from \in Nat /\ p.to \in Nat /\ p.turn \in Nat
    BY <2>1 DEF Speeches
  <2>3. p.turn \in 1..turns + 1 /\ p.from <= p.to /\ (p.turn <= turns => p.to <= itemFrom)
    BY <1>2 DEF InTurn
  <2>4. CASE p.turn = turns + 1
    <3>1. PICK i \in DOMAIN pending : Tells(pending[i], p)
      BY <1>2, <2>4 DEF Gathered
    <3>2. p.from < p.to /\ p.to <= said
      BY <1>2, <3>1 DEF Gathered, Tells
    <3> QED
      BY <1>3, <2>2, <3>2
  <2>5. CASE p.turn <= turns
    <3>1. turns > 0 /\ itemFrom # 0
      BY <1>2, <1>3, <2>2, <2>3, <2>5 DEF InTurn
    <3>2. itemFrom < speech.start
      BY <1>2, <1>3, <3>1 DEF Heard, NoTime
    <3> QED
      BY <1>3, <2>2, <2>3, <2>5, <3>2
  <2> QED
    BY <1>3, <2>2, <2>3, <2>4, <2>5
<1>16. InTurn'
  <2>1. ASSUME NEW p \in spoken'
        PROVE p.turn \in 1..turns' + 1 /\ p.from <= p.to /\ (p.turn <= turns' => p.to <= itemFrom')
    <3>1. CASE p = q
      BY <1>3, <1>4, <1>6, <3>1
    <3>2. CASE p \in spoken
      BY <1>2, <1>4, <3>2 DEF InTurn
    <3> QED
      BY <1>4, <3>1, <3>2
  <2>2. ASSUME NEW p \in spoken', NEW r \in spoken', p.from = r.from PROVE p = r
    <3>1. CASE p \in spoken /\ r \in spoken
      BY <1>2, <2>2, <3>1 DEF InTurn
    <3>2. CASE p = q /\ r \in spoken
      BY <1>3, <1>6, <1>15, <2>2, <3>2
    <3>3. CASE p \in spoken /\ r = q
      BY <1>3, <1>6, <1>15, <2>2, <3>3
    <3> QED
      BY <1>4, <3>1, <3>2, <3>3
  <2> QED
    BY <1>2, <1>4, <2>1, <2>2 DEF InTurn
<1>17. Stored'
  <2>1. ASSUME NEW p \in spoken', p.turn = turns' PROVE p \in spoken
    BY <1>3, <1>4, <1>6, <2>1
  <2> QED
    BY <1>2, <1>4, <2>1 DEF Stored
<1>18. (SpeechIsKept /\ LongSpeechKeepsSpeaker /\ LabelledByVoice)'
  <2>1. Confirmed' = Confirmed
    BY <1>3, <1>4, <1>6 DEF Confirmed
  <2>2. SpeechIsKept'
    BY <1>4, <2>1 DEF TimelineInd, SpeechIsKept, Kept
  <2>3. LongSpeechKeepsSpeaker'
    BY <1>4, <2>1 DEF TimelineInd, LongSpeechKeepsSpeaker
  <2>4. LabelledByVoice'
    BY <1>1, <1>4 DEF Open, LabelledByVoice
  <2> QED
    BY <2>2, <2>3, <2>4
<1> QED
  BY <1>9, <1>10, <1>11, <1>12, <1>14, <1>16, <1>17, <1>18 DEF TimelineInd, Recorded

\* The segment of a turn that has none: where the server says, or after the last one.
LEMMA SynthesizedIs ==
  ASSUME TimelineInd, Open, speech.stop # NoTime, NEW nominal \in Nominals, NEW words \in BOOLEAN
  PROVE LET x == Synthesized(nominal, words)
        IN /\ x \in Segments /\ x.turn = turns + 1 /\ x.key = 0 /\ x.words = words /\ x.start <= x.end
           /\ announces = Both => x.start = speech.start /\ x.end = speech.stop
           /\ announces # Both => confirmedEnd <= x.start
<1> DEFINE bounded == activeStart # NoTime /\ activeEnd # NoTime
           last == IF activeEnd # NoTime THEN activeEnd ELSE Larger(audio, nominal)
           start == IF activeStart # NoTime THEN activeStart ELSE Larger(0, last - nominal)
           end == IF bounded THEN Larger(activeStart, activeEnd)
                  ELSE IF activeStart # NoTime THEN activeStart + nominal ELSE last
           x == Synthesized(nominal, words)
<1>1. TimelineTypes /\ Recorded /\ turns \in Nat /\ audio \in Nat /\ nominal \in Nat /\ nominal > 0
  BY TimelineAssumption DEF TimelineInd, TimelineTypes
<1>2. (activeStart = NoTime \/ activeStart \in Nat) /\ (activeEnd = NoTime \/ activeEnd \in Nat)
  BY <1>1, Moment DEF TimelineTypes
<1>3. start \in Nat /\ end \in Nat /\ start <= end
  <2>1. last \in Nat /\ last - nominal \in Int
    BY <1>1, <1>2 DEF Larger
  <2>2. start \in Nat
    <3> HIDE DEF last
    <3> QED
      BY <1>2, <2>1 DEF Larger
  <2>3. CASE activeStart # NoTime /\ activeEnd # NoTime
    <3>1. start = activeStart /\ end = Larger(activeStart, activeEnd)
      BY <2>3
    <3> HIDE DEF start, end
    <3> QED
      BY <1>2, <2>3, <3>1 DEF Larger
  <2>4. CASE activeStart # NoTime /\ activeEnd = NoTime
    <3>1. start = activeStart /\ end = activeStart + nominal
      BY <2>4
    <3> HIDE DEF start, end
    <3> QED
      BY <1>1, <1>2, <2>4, <3>1
  <2>5. CASE activeStart = NoTime
    <3>1. start = Larger(0, last - nominal)
      BY <2>5
    <3>2. end = last
      BY <2>5
    <3> HIDE DEF start, end, last
    <3> QED
      BY <1>1, <2>1, <3>1, <3>2 DEF Larger
  <2> QED
    BY <2>3, <2>4, <2>5
<1>4. x = IF ~bounded /\ start < confirmedEnd
          THEN Segment(confirmedEnd, Larger(end, confirmedEnd + nominal), 0, words)
          ELSE Segment(start, end, 0, words)
  BY DEF Synthesized
<1>5. ASSUME NEW from \in Nat, NEW to \in Nat
      PROVE LET y == Segment(from, to, 0, words)
            IN /\ y \in Segments /\ y.turn = turns + 1 /\ y.key = 0 /\ y.words = words
               /\ y.start = from /\ y.end = to
  BY <1>1 DEF Segment, Segments
<1>6. CASE announces = Both
  <2>1. speech.start \in Nat /\ speech.stop \in Nat /\ speech.start <= speech.stop
    BY <1>1, <1>6, Moment DEF TimelineTypes, Recorded, Heard
  <2>2. activeStart = speech.start /\ activeEnd = speech.stop
    BY <1>1, <1>6 DEF Recorded, Bounded
  <2>3. bounded /\ start = speech.start /\ end = Larger(speech.start, speech.stop)
    <3>1. activeStart # NoTime /\ activeEnd # NoTime
      BY <2>1, <2>2 DEF NoTime
    <3>2. start = activeStart /\ end = Larger(activeStart, activeEnd)
      BY <3>1
    <3> QED
      BY <2>2, <3>1, <3>2
  <2>4. end = speech.stop
    BY <2>1, <2>3 DEF Larger
  <2> HIDE DEF start, end
  <2>5. x = Segment(speech.start, speech.stop, 0, words)
    BY <1>4, <2>3, <2>4
  <2> HIDE DEF x
  <2>6. /\ x \in Segments /\ x.turn = turns + 1 /\ x.key = 0 /\ x.words = words
        /\ x.start = speech.start /\ x.end = speech.stop
    BY <1>5, <2>1, <2>5
  <2> QED
    BY <1>6, <2>1, <2>6 DEF x
<1>7. CASE announces # Both
  <2>1. ~bounded /\ confirmedEnd \in Moments
    <3>1. announces \in SUBSET Both
      BY <1>1 DEF TimelineTypes
    <3> QED
      BY <1>1, <1>7, <3>1 DEF Recorded, Fallback, Both
  <2> HIDE DEF bounded, start, end
  <2>2. CASE start < confirmedEnd
    <3> DEFINE to == Larger(end, confirmedEnd + nominal)
    <3>1. confirmedEnd \in Nat
      BY <1>3, <2>1, <2>2, Moment DEF NoTime
    <3>2. to \in Nat /\ confirmedEnd <= to
      BY <1>1, <1>3, <3>1 DEF Larger
    <3>3. x = Segment(confirmedEnd, to, 0, words)
      BY <1>4, <2>1, <2>2
    <3> HIDE DEF x, to
    <3>4. /\ x \in Segments /\ x.turn = turns + 1 /\ x.key = 0 /\ x.words = words
          /\ x.start = confirmedEnd /\ x.end = to
      BY <1>5, <3>1, <3>2, <3>3
    <3> QED
      BY <1>7, <3>1, <3>2, <3>4 DEF x
  <2>3. CASE ~(start < confirmedEnd)
    <3>1. x = Segment(start, end, 0, words)
      BY <1>4, <2>3
    <3> HIDE DEF x
    <3>2. /\ x \in Segments /\ x.turn = turns + 1 /\ x.key = 0 /\ x.words = words
          /\ x.start = start /\ x.end = end
      BY <1>3, <1>5, <3>1
    <3>3. confirmedEnd <= start
      BY <1>3, <2>1, <2>3, Moment DEF NoTime
    <3> QED
      BY <1>3, <1>7, <3>2, <3>3 DEF x
  <2> QED
    BY <2>2, <2>3
<1> QED
  BY <1>6, <1>7

\* The segments of a turn, and the transcript after it.
Turn(nominal, words) == IF pending # <<>> THEN pending ELSE <<Synthesized(nominal, words)>>

LEMMA TurnIs ==
  ASSUME TimelineInd, Open, speech.stop # NoTime, NEW nominal \in Nominals, NEW words \in BOOLEAN
  PROVE LET s == Turn(nominal, words)
        IN /\ s \in Seq(Segments) /\ InOrder(s)
           /\ \A i \in DOMAIN s : s[i] \in Segments /\ s[i].turn = turns + 1
           /\ announces = Both => \A i \in DOMAIN s : speech.start <= s[i].start /\ s[i].end <= speech.stop
           /\ announces # Both => s = <<Synthesized(nominal, words)>>
<1> DEFINE s == Turn(nominal, words)
           x == Synthesized(nominal, words)
<1>1. TimelineTypes /\ Recorded
  BY DEF TimelineInd
<1>2. CASE pending # <<>>
  <2>1. announces = Both
    BY <1>1, <1>2 DEF Recorded, Fallback
  <2>2. s = pending /\ pending \in Seq(Segments)
    BY <1>1, <1>2 DEF Turn, TimelineTypes
  <2>3. \A i \in DOMAIN pending : pending[i] \in Segments
    BY <2>2
  <2>4. InOrder(pending) /\ \A i \in DOMAIN pending :
          pending[i].turn = turns + 1 /\ speech.start <= pending[i].start /\ pending[i].end <= said
    BY <1>1, <2>1 DEF Recorded, Gathered
  <2>5. said \in Nat /\ speech.stop \in Nat /\ said < speech.stop
    BY <1>1, Moment DEF TimelineTypes, Recorded, Heard
  <2>6. \A i \in DOMAIN pending : pending[i].end <= speech.stop
    BY <2>3, <2>4, <2>5 DEF Segments
  <2> QED
    BY <2>1, <2>2, <2>3, <2>4, <2>6
<1>3. CASE pending = <<>>
  <2>1. s = <<x>>
    BY <1>3 DEF Turn
  <2>2. /\ x \in Segments /\ x.turn = turns + 1 /\ x.start <= x.end
        /\ announces = Both => x.start = speech.start /\ x.end = speech.stop
    BY SynthesizedIs
  <2> HIDE DEF x, s
  <2>3. s \in Seq(Segments) /\ DOMAIN s = {1} /\ s[1] = x
    BY <2>1, <2>2
  <2>4. InOrder(s)
    BY <2>2, <2>3 DEF InOrder
  <2>5. speech.start \in Int /\ speech.stop \in Int
    BY <1>1, Moment DEF TimelineTypes, NoTime
  <2> QED
    BY <2>1, <2>2, <2>3, <2>4, <2>5 DEF x, s
<1> QED
  BY <1>2, <1>3

LEMMA MaxOfOne == ASSUME NEW e \in Int PROVE Max({e}) = e
<1>1. \E x \in {e} : \A y \in {e} : x >= y
  OBVIOUS
<1>2. Max({e}) \in {e}
  BY <1>1 DEF Max
<1> QED
  BY <1>2

LEMMA CompletedInd ==
  ASSUME NEW nominal \in Nominals, NEW voice \in Voices, NEW words \in BOOLEAN
  PROVE TimelineInd /\ Completed(nominal, voice, words) => TimelineInd'
<1> SUFFICES ASSUME TimelineInd, Completed(nominal, voice, words) PROVE TimelineInd'
  OBVIOUS
<1> DEFINE s == Turn(nominal, words)
           x == Synthesized(nominal, words)
           new == ToSet(Smoothed(s))
           q == Speech(speech.start, speech.stop, voice, 0, words)
<1>1. TimelineTypes /\ Open /\ Recorded /\ speech.stop # NoTime
  BY DEF TimelineInd, Completed
<1>2. /\ confirmedEnd' = Max({y.end : y \in ToSet(s)}) /\ lastWindow' = s /\ rows' = Reconcile(rows, new)
      /\ spoken' = (IF pending # <<>> THEN spoken ELSE spoken \cup {q})
      /\ turns' = turns + 1 /\ sealed' = sealed /\ pending' = <<>>
      /\ activeStart' = NoTime /\ activeEnd' = NoTime /\ activeOffset' = NoTime
      /\ itemFrom' = speech.stop /\ speech' = Silent /\ said' = 0
      /\ UNCHANGED <<audio, announces, labels, boundary>>
  BY DEF Completed, ForgetItem, Turn
<1>3. /\ s \in Seq(Segments) /\ InOrder(s)
      /\ \A i \in DOMAIN s : s[i] \in Segments /\ s[i].turn = turns + 1
      /\ announces = Both => \A i \in DOMAIN s : speech.start <= s[i].start /\ s[i].end <= speech.stop
      /\ announces # Both => s = <<x>>
  BY <1>1, TurnIs
<1>4. /\ x \in Segments /\ x.turn = turns + 1 /\ x.key = 0 /\ x.words = words /\ x.start <= x.end
      /\ announces = Both => x.start = speech.start /\ x.end = speech.stop
      /\ announces # Both => confirmedEnd <= x.start
  BY <1>1, SynthesizedIs
<1>5. pending = <<>> => s = <<x>>
  BY DEF Turn
<1>6. pending # <<>> => s = pending
  BY DEF Turn
<1> HIDE DEF s, x
<1>7. /\ speech.start \in Nat /\ speech.stop \in Nat /\ itemFrom \in Nat /\ said \in Nat /\ turns \in Nat
      /\ itemFrom <= speech.start /\ speech.start <= speech.stop /\ (itemFrom > 0 => itemFrom < speech.start)
      /\ said < speech.stop
  <2>1. speech.start \in Nat /\ speech.stop \in Nat
    BY <1>1, Moment DEF TimelineTypes, Recorded, Heard
  <2> QED
    BY <1>1, <2>1 DEF TimelineTypes, Recorded, Heard, NoTime
<1>8. /\ new \subseteq Segments
      /\ \A y \in new : y.start <= y.end
      /\ \A y \in new : \E a, b \in DOMAIN s : y.start = s[a].start /\ y.turn = s[a].turn /\ y.end = s[b].end
      /\ \A j \in DOMAIN s : ~Noise(s[j]) =>
           \E y \in new : /\ y.start <= s[j].start /\ s[j].end <= y.end
                          /\ Length(s[j]) > TwoFlicker => y.key = s[j].key
  <2>1. Smoothed(s) \in Seq(Segments)
    BY <1>3, SmoothedKeeps
  <2>2. new \subseteq Segments
    BY <2>1 DEF ToSet
  <2> HIDE DEF new
  <2> QED
    BY <1>3, <2>2, SmoothedKeeps DEF new
<1> HIDE DEF new
<1>9. \A y \in new : y.turn = turns + 1 /\ y.start \in Nat /\ y.end \in Nat
  BY <1>3, <1>8 DEF Segments
<1>10. announces = Both => \A y \in new : speech.start <= y.start /\ y.end <= speech.stop
  BY <1>3, <1>8
<1>11. rows \in SUBSET Segments /\ \A r \in rows : r.end \in Nat /\ r.turn \in Nat
  BY <1>1 DEF TimelineTypes, Segments
<1>12. /\ new \subseteq rows'
       /\ \A r \in rows' : r \in new \/ (r \in rows /\ \A y \in new : r.end < y.start)
       /\ \A r \in rows : (\A y \in new : r.end < y.start) => r \in rows'
  BY <1>2, <1>8, <1>11, ReconcileIs
<1>13. /\ q \in Speeches /\ q.turn = turns + 1 /\ q.from = speech.start /\ q.to = speech.stop
       /\ q.key = 0 /\ q.words = words
  BY <1>7 DEF Speech, Speeches
<1> HIDE DEF q
<1>14. TimelineTypes'
  <2>1. spoken' \in SUBSET Speeches /\ IsFiniteSet(spoken')
    BY <1>1, <1>2, <1>13, FS_AddElement DEF TimelineTypes
  <2>2. rows' \in SUBSET Segments
    BY <1>8, <1>11, <1>12
  <2>3. pending' \in Seq(Segments)
    BY <1>2
  <2> QED
    BY <1>1, <1>2, <1>3, <1>7, <2>1, <2>2, <2>3 DEF TimelineTypes, Silent, Moments
<1>15. Heard'
  BY <1>2 DEF Heard, Silent
<1>16. Fallback'
  <2> SUFFICES ASSUME announces # Both
               PROVE confirmedEnd' \in Moments /\ \A r \in rows' : r.end <= confirmedEnd'
    BY <1>2 DEF Fallback
  <2>1. s = <<x>> /\ x.end \in Nat /\ x.start \in Nat
    BY <1>3, <1>4 DEF Segments
  <2>2. DOMAIN s = {1} /\ s[1] = x /\ ToSet(s) = {x}
    BY <2>1 DEF ToSet
  <2>3. {y.end : y \in ToSet(s)} = {x.end}
    BY <2>2
  <2>4. confirmedEnd' = x.end
    <3>1. confirmedEnd' = Max({x.end})
      BY <1>2, <2>3
    <3>2. x.end \in Int
      BY <2>1
    <3>3. Max({x.end}) = x.end
      BY <3>2, MaxOfOne
    <3> QED
      BY <3>1, <3>3
  <2>5. \A y \in new : y.end = x.end
    BY <1>8, <2>2
  <2>6. confirmedEnd \in Moments /\ \A r \in rows : r.end <= confirmedEnd
    BY <1>1 DEF Recorded, Fallback
  <2>7. confirmedEnd \in Int /\ confirmedEnd <= x.end
    BY <1>4, <2>1, <2>6, Moment DEF NoTime
  <2>8. \A r \in rows : r.end <= x.end
    BY <1>11, <2>1, <2>6, <2>7
  <2>9. \A r \in rows' : r.end <= x.end
    BY <1>12, <2>1, <2>5, <2>8
  <2> QED
    BY <2>1, <2>4, <2>9 DEF Moments
<1>17. ASSUME announces = Both
       PROVE (Bounded /\ Gathered /\ InTurn /\ Stored /\ SpeechIsKept /\ LongSpeechKeepsSpeaker)'
  <2>1. Heard /\ Bounded /\ Gathered /\ InTurn /\ Stored
    BY <1>1, <1>17 DEF Recorded
  <2>2. Bounded'
    BY <1>1, <1>2, <2>1 DEF Bounded, Silent
  <2>3. ASSUME NEW p \in spoken
        PROVE p.turn \in Nat /\ p.from \in Nat /\ p.to \in Nat /\ p.from <= p.to /\ p.turn \in 1..turns + 1
    BY <1>1, <2>1 DEF TimelineTypes, Speeches, InTurn
  <2>4. ASSUME NEW p \in spoken, p.turn = turns + 1
        PROVE pending # <<>> /\ (\E i \in DOMAIN s : Tells(s[i], p)) /\ p.to <= speech.stop
    <3>1. PICK i \in DOMAIN pending : Tells(pending[i], p)
      BY <2>1, <2>4 DEF Gathered
    <3>2. pending # <<>>
      BY <3>1
    <3>3. s = pending
      BY <1>6, <3>2
    <3>4. p.to = s[i].end
      BY <3>1, <3>3 DEF Tells
    <3> QED
      BY <1>3, <1>17, <3>1, <3>2, <3>3, <3>4
  <2>5. ASSUME NEW p \in spoken, p.turn <= turns PROVE p.to <= itemFrom /\ itemFrom < speech.start
    <3>1. turns > 0
      BY <1>7, <2>3, <2>5
    <3> QED
      BY <1>7, <2>1, <2>5, <3>1 DEF InTurn
  <2>6. \A p \in spoken' : p \in spoken \/ (p = q /\ pending = <<>>)
    BY <1>2
  <2>7. ASSUME NEW p \in spoken', p.turn = turns + 1 PROVE \E i \in DOMAIN s : Tells(s[i], p)
    <3>1. CASE p \in spoken
      BY <2>4, <2>7, <3>1
    <3>2. CASE p = q /\ pending = <<>>
      <4>1. DOMAIN s = {1} /\ s[1] = x
        BY <1>5, <3>2
      <4>2. Tells(x, q)
        BY <1>4, <1>13, <1>17 DEF Tells
      <4> QED
        BY <3>2, <4>1, <4>2
    <3> QED
      BY <2>6, <3>1, <3>2
  <2>8. Gathered'
    <3>1. \A p \in spoken' : p.turn # turns' + 1
      <4> SUFFICES ASSUME NEW p \in spoken' PROVE p.turn # turns' + 1
        OBVIOUS
      <4>1. p.turn = turns + 1 \/ p.turn \in 1..turns + 1
        BY <1>13, <2>3, <2>6
      <4> QED
        BY <1>2, <1>7, <4>1
    <3> QED
      BY <1>2, <3>1 DEF Gathered, InOrder
  <2>9. InTurn'
    <3>1. ASSUME NEW p \in spoken'
          PROVE p.turn \in 1..turns' + 1 /\ p.from <= p.to /\ (p.turn <= turns' => p.to <= itemFrom')
      <4>1. CASE p \in spoken
        <5>1. p.turn = turns + 1 \/ p.turn <= turns
          BY <1>7, <2>3, <4>1
        <5>2. p.to <= speech.stop
          <6>1. CASE p.turn = turns + 1
            BY <2>4, <4>1, <6>1
          <6>2. CASE p.turn <= turns
            BY <1>7, <2>3, <2>5, <4>1, <6>2
          <6> QED
            BY <5>1, <6>1, <6>2
        <5> QED
          BY <1>2, <1>7, <2>3, <4>1, <5>2
      <4>2. CASE p = q
        BY <1>2, <1>7, <1>13, <4>2
      <4> QED
        BY <2>6, <4>1, <4>2
    <3>2. ASSUME NEW p \in spoken, pending = <<>> PROVE p.from < q.from
      <4>1. p.turn <= turns
        BY <1>7, <2>3, <2>4, <3>2
      <4> QED
        BY <1>7, <1>13, <2>3, <2>5, <4>1
    <3>3. ASSUME NEW p \in spoken', NEW r \in spoken', p.from = r.from PROVE p = r
      <4>1. CASE p \in spoken /\ r \in spoken
        BY <2>1, <3>3, <4>1 DEF InTurn
      <4>2. CASE p \in spoken /\ r = q /\ pending = <<>>
        BY <1>7, <1>13, <2>3, <3>2, <3>3, <4>2
      <4>3. CASE p = q /\ pending = <<>> /\ r \in spoken
        BY <1>7, <1>13, <2>3, <3>2, <3>3, <4>3
      <4> QED
        BY <2>6, <4>1, <4>2, <4>3
    <3>4. itemFrom' # 0
      BY <1>2, <1>7
    <3> QED
      BY <3>1, <3>3, <3>4 DEF InTurn
  <2>10. ASSUME NEW r \in rows PROVE r.turn \in 1..turns /\ r.end <= itemFrom /\ itemFrom < speech.start
    <3>1. r.turn \in 1..turns /\ r.end <= itemFrom
      BY <2>1 DEF Stored
    <3> QED
      BY <1>7, <2>1, <3>1 DEF InTurn
  <2>11. ASSUME NEW r \in rows PROVE r \in rows'
    BY <1>7, <1>9, <1>10, <1>11, <1>12, <1>17, <2>10
  <2>12. Stored'
    <3>1. ASSUME NEW r \in rows' PROVE r.turn \in 1..turns' /\ r.start <= r.end /\ r.end <= itemFrom'
      <4>1. CASE r \in new
        BY <1>2, <1>7, <1>8, <1>9, <1>10, <1>17, <4>1
      <4>2. CASE r \in rows
        <5>1. r.start <= r.end /\ r.turn \in 1..turns /\ r.end <= itemFrom
          BY <2>1, <4>2 DEF Stored
        <5> QED
          BY <1>2, <1>7, <1>11, <4>2, <5>1
      <4> QED
        BY <1>12, <4>1, <4>2
    <3>2. \A i \in DOMAIN s : s[i].turn = turns' /\ s[i].end <= itemFrom'
      BY <1>2, <1>3, <1>17
    <3>3. ASSUME NEW r \in rows', r.turn < turns', NEW i \in DOMAIN s PROVE r.end < s[i].start
      <4>1. r \in rows
        BY <1>2, <1>7, <1>9, <1>12, <3>3
      <4>2. s[i].start \in Nat /\ speech.start <= s[i].start
        BY <1>3, <1>17 DEF Segments
      <4> QED
        BY <1>7, <1>11, <2>10, <4>1, <4>2
    <3> QED
      BY <1>2, <1>3, <2>7, <3>1, <3>2, <3>3 DEF Stored
  <2>13. ASSUME NEW p \in Confirmed'
         PROVE p \in spoken' /\ (p.turn = turns + 1 \/ p \in Confirmed)
    <3>1. p \in spoken' /\ p.turn <= turns + 1
      BY <1>2 DEF Confirmed
    <3>2. CASE p \in spoken
      BY <1>7, <2>3, <3>1, <3>2 DEF Confirmed
    <3> QED
      BY <1>13, <2>6, <3>1, <3>2
  <2>14. ASSUME NEW p \in Confirmed', p.turn = turns + 1, Kept(p) \/ p.to - p.from > TwoFlicker
         PROVE \E y \in rows' : /\ y.turn = p.turn /\ y.start <= p.from /\ p.to <= y.end
                                /\ p.to - p.from > TwoFlicker => y.key = p.key
    <3>1. PICK i \in DOMAIN s : Tells(s[i], p)
      BY <2>7, <2>13, <2>14
    <3>2. Length(s[i]) = p.to - p.from /\ s[i].words = p.words
      BY <3>1 DEF Tells, Length
    <3>3. Length(s[i]) \in Int
      BY <1>3, LengthType
    <3>4. ~Noise(s[i])
      BY <2>14, <3>2, <3>3, Flickers DEF Kept, Noise
    <3>5. PICK y \in new : /\ y.start <= s[i].start /\ s[i].end <= y.end
                           /\ Length(s[i]) > TwoFlicker => y.key = s[i].key
      BY <1>8, <3>4
    <3> QED
      BY <1>9, <1>12, <2>14, <3>1, <3>2, <3>5 DEF Tells
  <2>15. SpeechIsKept'
    <3>1. ASSUME NEW p \in Confirmed', Kept(p)
          PROVE \E r \in rows' : r.turn = p.turn /\ r.start <= p.from /\ p.to <= r.end
      <4>1. CASE p.turn = turns + 1
        BY <2>14, <3>1, <4>1
      <4>2. CASE p \in Confirmed
        <5>1. \E r \in rows : r.turn = p.turn /\ r.start <= p.from /\ p.to <= r.end
          BY <1>17, <3>1, <4>2 DEF TimelineInd, SpeechIsKept
        <5> QED
          BY <2>11, <5>1
      <4> QED
        BY <2>13, <4>1, <4>2
    <3>2. \A p : Kept(p)' = Kept(p)
      BY DEF Kept
    <3> QED
      BY <3>1, <3>2 DEF SpeechIsKept, Kept
  <2>16. LongSpeechKeepsSpeaker'
    <3>1. ASSUME NEW p \in Confirmed', p.to - p.from > TwoFlicker
          PROVE \E r \in rows' : r.turn = p.turn /\ r.key = p.key /\ r.start <= p.from /\ p.to <= r.end
      <4>1. CASE p.turn = turns + 1
        BY <2>14, <3>1, <4>1
      <4>2. CASE p \in Confirmed
        <5>1. \E r \in rows : r.turn = p.turn /\ r.key = p.key /\ r.start <= p.from /\ p.to <= r.end
          BY <1>1, <1>17, <3>1, <4>2 DEF TimelineInd, LongSpeechKeepsSpeaker, Open
        <5> QED
          BY <2>11, <5>1
      <4> QED
        BY <2>13, <4>1, <4>2
    <3> QED
      BY <3>1 DEF LongSpeechKeepsSpeaker
  <2> QED
    BY <2>2, <2>8, <2>9, <2>12, <2>15, <2>16
<1>18. LabelledByVoice'
  BY <1>1, <1>2 DEF Open, LabelledByVoice
<1>19. announces # Both => (SpeechIsKept /\ LongSpeechKeepsSpeaker)'
  BY <1>2 DEF SpeechIsKept, LongSpeechKeepsSpeaker
<1> QED
  BY <1>2, <1>14, <1>15, <1>16, <1>17, <1>18, <1>19 DEF TimelineInd, Recorded

LEMMA SpansType ==
  ASSUME spoken \in SUBSET Speeches, IsFiniteSet(spoken), audio \in Nat
  PROVE Spans(spoken, audio) \in SUBSET SpanType /\ IsFiniteSet(Spans(spoken, audio))
<1> DEFINE from == BufferFrom(audio)
           D == {q \in spoken : q.to > from}
           Span(p) == [key |-> p.voice, start |-> IF p.from > from THEN p.from - from ELSE 0,
                       end |-> p.to - from]
           map == [p \in D |-> Span(p)]
<1>1. from \in Nat
  BY LabelsAssumption DEF BufferFrom
<1>2. IsFiniteSet(D) /\ D \in SUBSET spoken
  BY FS_Subset
<1>3. Diarized(spoken, audio) = {Span(p) : p \in D}
  BY DEF Diarized
<1> HIDE DEF from
<1>4. ASSUME NEW p \in D PROVE Span(p) \in SpanType
  <2>1. p.voice \in Nat /\ p.from \in Nat /\ p.to \in Nat /\ p.to > from
    BY TimelineAssumption DEF Speeches
  <2>2. (IF p.from > from THEN p.from - from ELSE 0) \in Nat /\ p.to - from \in Nat
    BY <1>1, <2>1
  <2> QED
    BY <2>1, <2>2 DEF SpanType
<1>5. map \in [D -> SpanType]
  BY <1>4
<1>6. Image(map, D) = {Span(p) : p \in D}
  BY DEF Image
<1>7. IsFiniteSet(Image(map, D))
  <2> HIDE DEF map, D
  <2> QED
    BY <1>2, <1>5, ImageFinite
<1>8. Diarized(spoken, audio) \in SUBSET SpanType /\ IsFiniteSet(Diarized(spoken, audio))
  <2>1. \A p \in D : Span(p) \in SpanType
    BY <1>4
  <2> HIDE DEF map, D, Span
  <2>2. {Span(p) : p \in D} \in SUBSET SpanType
    BY <2>1
  <2> QED
    BY <1>3, <1>6, <1>7, <2>2
<1>9. Spans(spoken, audio) \in SUBSET Diarized(spoken, audio)
  BY DEF Spans, ToSpans
<1> QED
  BY <1>8, <1>9, FS_Subset

\* Only the time of a segment counts.
LEMMA OverlapOfTime ==
  ASSUME NEW x \in Segments, NEW y \in Segments, x.start = y.start, x.end = y.end,
         NEW spans \in SUBSET SpanType, IsFiniteSet(spans), NEW k
  PROVE Overlap(x, spans, k) = Overlap(y, spans, k)
<1> DEFINE S == Labels(spans, k)
           f == [p \in S |-> Common(x, p)]
           e == [p \in S |-> Common(y, p)]
           same == [p \in S |-> p]
<1>1. x.start \in Int /\ x.end \in Int /\ y.start \in Int /\ y.end \in Int
  BY DEF Segments
<1>2. \A p \in spans : p.start \in Int /\ p.end \in Int
  BY DEF SpanType
<1>3. S \in SUBSET spans /\ IsFiniteSet(S)
  BY FS_Subset DEF Labels
<1>4. PICK g : OverlapSum(g, x, spans, k)
  BY <1>1, <1>2, OverlapSums
<1>5. PICK h : OverlapSum(h, y, spans, k)
  BY <1>1, <1>2, OverlapSums
<1>6. Sums(g, f, S) /\ Overlap(x, spans, k) = g[S]
  BY <1>4 DEF OverlapSum
<1>7. Sums(h, e, S) /\ Overlap(y, spans, k) = h[S]
  BY <1>5 DEF OverlapSum
<1>8. ASSUME NEW p \in S PROVE Common(x, p) = Common(y, p) /\ Common(x, p) \in Nat
  <2>1. Common(x, p) = Common(y, p)
    BY DEF Common
  <2> QED
    BY <1>1, <1>2, <1>3, <2>1, CommonType
<1>9. f \in [S -> Nat] /\ e \in [S -> Nat] /\ f = e
  BY <1>8
<1>10. same \in [S -> S] /\ Image(same, S) = S
  BY DEF Image
<1>11. \A p \in S : same[p] = p /\ e[same[p]] = f[p]
  BY <1>9
<1>12. S \in SUBSET S /\ \A p \in S \ S : f[p] = 0
  OBVIOUS
<1>13. \A p, q \in S : same[p] = same[q] => p = q
  OBVIOUS
<1> HIDE DEF S, f, e, same
<1>14. g[S] = h[Image(same, S)]
  BY <1>3, <1>6, <1>7, <1>9, <1>10, <1>11, <1>12, <1>13, SumMap
<1> QED
  BY <1>6, <1>7, <1>10, <1>14

LEMMA FinalizeInd == ASSUME NEW overlay \in BOOLEAN PROVE TimelineInd /\ Finalize(overlay) => TimelineInd'
<1> SUFFICES ASSUME TimelineInd, Finalize(overlay) PROVE TimelineInd'
  OBVIOUS
<1> DEFINE last == ToSet(lastWindow)
           finished == Reconcile(rows, last)
           spans == Spans(spoken, audio)
           corrected == {Labelled(r, spans) : r \in finished}
<1>1. TimelineTypes /\ Open /\ Recorded
  BY DEF TimelineInd, Finalize
<1>2. /\ sealed' = (IF overlay THEN "labelled" ELSE "plain")
      /\ rows' = (IF overlay THEN Reconcile(finished, corrected) ELSE finished)
      /\ UNCHANGED <<audio, turns, itemFrom, speech, announces, labels, said, spoken, activeStart, activeEnd,
                     activeOffset, boundary, confirmedEnd, pending, lastWindow>>
  BY DEF Finalize, server, item
<1>3. last \in SUBSET Segments /\ \A y \in last : \E i \in DOMAIN lastWindow : y = lastWindow[i]
  <2>1. lastWindow \in Seq(Segments)
    BY <1>1 DEF TimelineTypes
  <2> QED
    BY <2>1 DEF ToSet
<1>4. \A i \in DOMAIN lastWindow : lastWindow[i] \in last
  BY DEF ToSet
<1> HIDE DEF last
<1>5. rows \in SUBSET Segments
  BY <1>1 DEF TimelineTypes
<1>6. /\ last \subseteq finished
      /\ \A r \in finished : r \in last \/ r \in rows
      /\ \A r \in rows : (\A x \in last : r.end < x.start) => r \in finished
  BY <1>3, <1>5, ReconcileIs
<1>7. finished \in SUBSET Segments
  BY <1>3, <1>5, <1>6
<1> HIDE DEF finished
<1>8. spans \in SUBSET SpanType /\ IsFiniteSet(spans)
  BY <1>1, SpansType DEF TimelineTypes
<1> HIDE DEF spans
<1>9. ASSUME NEW r \in finished
      PROVE /\ Labelled(r, spans) \in Segments /\ Labelled(r, spans).turn = r.turn
            /\ Labelled(r, spans).start = r.start /\ Labelled(r, spans).end = r.end
  BY <1>7, <1>8, LabelledKeeps
<1>10. corrected \in SUBSET Segments
  BY <1>9
<1>11. overlay => /\ corrected \subseteq rows'
                  /\ \A r \in rows' : r \in corrected \/ (r \in finished /\ \A x \in corrected : r.end < x.start)
  <2> HIDE DEF corrected
  <2> QED
    BY <1>2, <1>7, <1>10, ReconcileIs
<1>12. ASSUME NEW r \in finished
       PROVE \E y \in rows' : y.turn = r.turn /\ y.start = r.start /\ y.end = r.end
  <2>1. CASE overlay
    <3>1. Labelled(r, spans) \in corrected
      OBVIOUS
    <3> QED
      BY <1>9, <1>11, <2>1, <3>1
  <2>2. CASE ~overlay
    BY <1>2, <2>2
  <2> QED
    BY <2>1, <2>2
<1>13. TimelineTypes'
  <2>1. rows' \in SUBSET Segments
    <3> HIDE DEF corrected
    <3>1. CASE overlay
      BY <1>7, <1>10, <1>11, <3>1
    <3>2. CASE ~overlay
      BY <1>2, <1>7, <3>2
    <3> QED
      BY <3>1, <3>2
  <2> QED
    BY <1>1, <1>2, <2>1 DEF TimelineTypes
<1>14. ASSUME announces = Both PROVE SpeechIsKept'
  <2>1. Stored /\ SpeechIsKept /\ InTurn
    BY <1>1, <1>14 DEF Recorded, TimelineInd
  <2>2. ASSUME NEW p \in Confirmed, Kept(p)
        PROVE \E r \in finished : r.turn = p.turn /\ r.start <= p.from /\ p.to <= r.end
    <3>1. p \in spoken /\ p.turn <= turns /\ p.from \in Nat /\ p.to \in Nat /\ p.turn \in Nat /\ turns \in Nat
      BY <1>1 DEF Confirmed, TimelineTypes, Speeches
    <3>2. CASE p.turn = turns
      <4>1. PICK i \in DOMAIN lastWindow : Tells(lastWindow[i], p)
        BY <2>1, <3>1, <3>2 DEF Stored
      <4> QED
        BY <1>4, <1>6, <3>1, <4>1 DEF Tells
    <3>3. CASE p.turn < turns
      <4>1. PICK r \in rows : r.turn = p.turn /\ r.start <= p.from /\ p.to <= r.end
        BY <1>14, <2>1, <2>2 DEF SpeechIsKept
      <4>2. \A x \in last : r.end < x.start
        BY <1>3, <2>1, <3>3, <4>1 DEF Stored
      <4> QED
        BY <1>6, <4>1, <4>2
    <3> QED
      BY <3>1, <3>2, <3>3
  <2>3. ASSUME NEW p \in Confirmed, Kept(p)
        PROVE \E r \in rows' : r.turn = p.turn /\ r.start <= p.from /\ p.to <= r.end
    BY <1>12, <2>2, <2>3
  <2>4. Confirmed' = Confirmed
    BY <1>2 DEF Confirmed
  <2> QED
    BY <2>3, <2>4 DEF SpeechIsKept, Kept
<1>15. ASSUME overlay, announces = Both, audio \in MinFlush..MaxBuffer,
              NEW r \in rows', NEW v \in Voices, Spoke(r, v) > 0
       PROVE r.key \in Voices /\ Spoke(r, r.key) >= Spoke(r, v)
  <2>1. Stored /\ InTurn
    BY <1>1, <1>15 DEF Recorded
  <2>2. ASSUME NEW y \in finished PROVE y.start <= y.end
    <3>1. CASE y \in last
      BY <1>3, <2>1, <3>1 DEF Stored, InOrder
    <3>2. CASE y \in rows
      BY <2>1, <3>2 DEF Stored
    <3> QED
      BY <1>6, <3>1, <3>2
  <2>3. r \in corrected
    <3> SUFFICES ASSUME r \in finished, \A x \in corrected : r.end < x.start PROVE FALSE
      BY <1>11, <1>15
    <3>1. Labelled(r, spans) \in corrected
      OBVIOUS
    <3>2. r.end < r.start /\ r.start <= r.end /\ r.start \in Int /\ r.end \in Int
      BY <1>7, <1>9, <2>2, <3>1 DEF Segments
    <3> QED
      BY <3>2
  <2>4. PICK y \in finished : r = Labelled(y, spans)
    BY <2>3
  <2>5. y \in Segments /\ r \in Segments /\ r.start = y.start /\ r.end = y.end
    BY <1>7, <1>9, <2>4
  <2>6. /\ spoken \in SUBSET Speeches /\ IsFiniteSet(spoken) /\ MinFlush <= audio /\ audio <= MaxBuffer
        /\ audio \in Nat /\ \A p, q \in spoken : p.from = q.from => p = q
    BY <1>1, <1>15, <2>1, LabelsAssumption DEF TimelineTypes, InTurn
  <2>7. ASSUME NEW k \in Voices
        PROVE /\ Spoke(r, k) = Overlap(y, spans, k)
              /\ Spoke(r, k) > 0 => \E p \in spans : p.key = k
    <3>1. /\ Spoke(r, k) = Overlap(r, spans, k)
          /\ Spoke(r, k) > 0 => \E p \in spans : p.key = k
      BY <2>5, <2>6, SpokeIsOverlap DEF spans
    <3>2. Overlap(r, spans, k) = Overlap(y, spans, k)
      BY <1>8, <2>5, OverlapOfTime
    <3> QED
      BY <3>1, <3>2
  <2>8. v \in Nat
    BY TimelineAssumption
  <2>9. Overlap(y, spans, v) > 0 /\ \E p \in spans : p.key = v
    BY <1>15, <2>7
  <2>10. /\ \E p \in spans : p.key = r.key
         /\ Overlap(y, spans, r.key) >= Overlap(y, spans, v)
    BY <1>8, <2>4, <2>5, <2>8, <2>9, LabelledKeeps
  <2>11. r.key \in Voices
    <3>1. spans = {[key |-> p.voice, start |-> p.from, end |-> p.to] : p \in {q \in spoken : q.from < q.to}}
      BY <2>6, SpansAreSaid DEF spans
    <3> QED
      BY <2>6, <2>10, <3>1 DEF Speeches
  <2> QED
    BY <2>7, <2>10, <2>11
<1>16. LabelledByVoice'
  <2>1. \A r, v : Spoke(r, v)' = Spoke(r, v)
    BY <1>2 DEF Spoke, MapThenSumSet, MapThenFoldSet
  <2>2. sealed' = "labelled" => overlay
    BY <1>2
  <2> QED
    BY <1>2, <1>15, <2>1, <2>2 DEF LabelledByVoice
<1>17. sealed' # "no"
  BY <1>2
<1>18. SpeechIsKept' /\ LongSpeechKeepsSpeaker'
  BY <1>2, <1>14, <1>17 DEF SpeechIsKept, LongSpeechKeepsSpeaker
<1> QED
  BY <1>13, <1>16, <1>17, <1>18 DEF TimelineInd, Open
-----------------------------------------------------------------------------
(***************************************************************************)
(* The theorems.                                                           *)
(***************************************************************************)
LEMMA TimelineStays == TimelineInd /\ UNCHANGED timelineVars => TimelineInd'
<1> SUFFICES ASSUME TimelineInd, UNCHANGED timelineVars PROVE TimelineInd'
  OBVIOUS
<1>0. UNCHANGED <<audio, turns, itemFrom, speech, announces, labels, said, spoken, activeStart, activeEnd,
                  activeOffset, boundary, confirmedEnd, pending, lastWindow, rows, sealed>>
  BY DEF timelineVars, server, item, transcript
<1>1. TimelineTypes'
  BY <1>0 DEF TimelineInd, TimelineTypes
<1>2. Open' => Recorded'
  BY <1>0 DEF TimelineInd, Open, Recorded, Heard, Fallback, Bounded, Gathered, InTurn, Stored, InOrder, Tells
<1>3. SpeechIsKept' /\ LongSpeechKeepsSpeaker'
  BY <1>0 DEF TimelineInd, SpeechIsKept, LongSpeechKeepsSpeaker, Confirmed, Kept
<1>4. LabelledByVoice'
  <2>1. \A r, v : Spoke(r, v)' = Spoke(r, v)
    BY <1>0 DEF Spoke, MapThenSumSet, MapThenFoldSet
  <2> QED
    BY <1>0, <2>1 DEF TimelineInd, LabelledByVoice
<1> QED
  BY <1>1, <1>2, <1>3, <1>4 DEF TimelineInd

LEMMA TimelineStep == TimelineInd /\ [TimelineNext]_timelineVars => TimelineInd'
BY SendAudioInd, SpeechStartedInd, SpeechStoppedInd, SegmentArrivesInd, CompletedInd, CompletedEmptyInd,
   FinalizeInd, TimelineStays DEF TimelineNext

\* The transcript of a stream, whatever the bounds and whoever speaks, keeps TimelineInd.
THEOREM TimelineInvariant == TimelineSpec => []TimelineInd
<1>1. TimelineInit => TimelineInd
  BY TimelineInitInd
<1>2. TimelineInd /\ [TimelineNext]_timelineVars => TimelineInd'
  BY TimelineStep
<1> QED
  BY <1>1, <1>2, PTL DEF TimelineSpec

\* What was said with words, or for long, stays in the transcript at its time.
THEOREM SpeechStays == TimelineSpec => []SpeechIsKept
<1>1. TimelineInd => SpeechIsKept
  BY DEF TimelineInd
<1> QED
  BY <1>1, TimelineInvariant, PTL

\* The smoother leaves long speech to the one who said it.
THEOREM SpeakersStay == TimelineSpec => []LongSpeechKeepsSpeaker
<1>1. TimelineInd => LongSpeechKeepsSpeaker
  BY DEF TimelineInd
<1> QED
  BY <1>1, TimelineInvariant, PTL

\* The overlay leaves no segment to somebody who spoke less of it than another.
THEOREM VoicesAreFound == TimelineSpec => []LabelledByVoice
<1>1. TimelineInd => LabelledByVoice
  BY DEF TimelineInd
<1> QED
  BY <1>1, TimelineInvariant, PTL

\* A turn whose bounds the server does not both announce follows the turns before it.
LEMMA CompletedFollows ==
  ASSUME NEW nominal \in Nominals, NEW voice \in Voices, NEW words \in BOOLEAN,
         TimelineInd, Completed(nominal, voice, words), announces # Both,
         NEW r \in rows' \ rows, NEW q \in rows
  PROVE q.end <= r.start
<1> DEFINE s == Turn(nominal, words)
           x == Synthesized(nominal, words)
           new == ToSet(Smoothed(s))
<1>1. TimelineTypes /\ Open /\ Recorded /\ speech.stop # NoTime
  BY DEF TimelineInd, Completed
<1>2. rows' = Reconcile(rows, new)
  BY DEF Completed, Turn
<1>3. s \in Seq(Segments) /\ InOrder(s) /\ s = <<x>>
  BY <1>1, TurnIs
<1>4. x \in Segments /\ confirmedEnd <= x.start
  BY <1>1, SynthesizedIs
<1> HIDE DEF s, x
<1>5. /\ Smoothed(s) \in Seq(Segments)
      /\ \A y \in new : \E a, b \in DOMAIN s : y.start = s[a].start /\ y.turn = s[a].turn /\ y.end = s[b].end
  BY <1>3, SmoothedKeeps
<1>6. new \in SUBSET Segments
  BY <1>5 DEF ToSet
<1> HIDE DEF new
<1>7. rows \in SUBSET Segments
  BY <1>1 DEF TimelineTypes
<1>8. r \in new
  BY <1>2, <1>6, <1>7, ReconcileIs
<1>9. r.start = x.start
  <2>1. DOMAIN s = {1} /\ s[1] = x
    BY <1>3
  <2> QED
    BY <1>5, <1>8, <2>1
<1>10. confirmedEnd \in Moments /\ q.end <= confirmedEnd
  BY <1>1 DEF Recorded, Fallback
<1>11. q.end \in Nat /\ x.start \in Nat
  BY <1>4, <1>7 DEF Segments
<1>12. confirmedEnd \in Int
  BY <1>10, Moment DEF NoTime
<1> QED
  BY <1>4, <1>9, <1>10, <1>11, <1>12

THEOREM TurnsFollow == TimelineSpec => FallbackFollows
<1>1. TimelineInd /\ [TimelineNext]_timelineVars =>
        [announces # Both /\ sealed' = "no" => \A r \in rows' \ rows : \A q \in rows : q.end <= r.start]_timelineVars
  <2> SUFFICES ASSUME TimelineInd, TimelineNext, announces # Both, sealed' = "no",
                      NEW r \in rows' \ rows, NEW q \in rows
               PROVE q.end <= r.start
    OBVIOUS
  <2>1. CASE \E nominal \in Nominals, voice \in Voices, words \in BOOLEAN : Completed(nominal, voice, words)
    BY <2>1, CompletedFollows
  <2>2. CASE \E overlay \in BOOLEAN : Finalize(overlay)
    BY <2>2 DEF Finalize
  <2>3. CASE \/ SendAudio \/ CompletedEmpty
             \/ \E t \in Times : SpeechStarted(t) \/ SpeechStopped(t)
             \/ \E a, b \in Times, voice \in Voices, words \in BOOLEAN : SegmentArrives(a, b, voice, words)
    BY <2>3 DEF SendAudio, CompletedEmpty, SpeechStarted, SpeechStopped, SegmentArrives, transcript
  <2> QED
    BY <2>1, <2>2, <2>3 DEF TimelineNext
<1> QED
  BY <1>1, TimelineInvariant, PTL DEF TimelineSpec, FallbackFollows
=============================================================================
