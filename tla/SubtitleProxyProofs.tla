------------------------- MODULE SubtitleProxyProofs -------------------------
(***************************************************************************)
(* What holds of the two sessions of SubtitleProxy for any size of their   *)
(* queue and any number of chunks, leases and faults: OwnChunksOnly,       *)
(* SubtitlesAccounted, ClockNearInput and HealthyIsReported.               *)
(*                                                                         *)
(* The argument: a meeting takes input only when no subtitles have a       *)
(* lease, so that the queue belongs to one session at a time, and is empty *)
(* when it changes hands; a session that dials has no stream that is       *)
(* ready, so that nothing is queued until its new clock is set.            *)
(***************************************************************************)
EXTENDS SubtitleProxy, TLAPS

AllOf(q, c) == \A i \in 1 .. Len(q) : q[i] = c

Working == lease \in {"accepting", "joining", "flushing", "ending"}

MeetingTypes ==
  /\ leases \in Nat /\ faults \in Nat
  /\ stream \in Nat /\ reading \in Nat /\ epoch \in Nat /\ sendingOn \in Nat /\ attempt \in Nat
  /\ offset \in Nat /\ audio \in Nat
SubtitleTypes ==
  /\ subStream \in Nat /\ serving \in Nat /\ subEpoch \in Nat
  /\ subOffset \in Nat /\ subAudio \in Nat /\ subGap \in Nat /\ subInHand \in {0, 1}
  /\ heard \in Nat /\ reported \in Nat /\ discarded \in Nat
Flags ==
  connected \in BOOLEAN /\ ready \in BOOLEAN /\ subConnected \in BOOLEAN /\ subReady \in BOOLEAN
Types == TypeOK /\ MeetingTypes /\ SubtitleTypes /\ Flags

\* Which sessions have a lease at once, and which tasks a lease has.
Leases ==
  /\ Owned => subLease \in {"none", "committed"}
  /\ Working => subLease = "none"
  /\ lease \in {"none", "connecting"} => events = "none" /\ sender = "none"
  /\ events \in {"backoff", "dialing"} => Accepting
  /\ sender \notin {"none", "idle"} => Working
  /\ subLease \in {"none", "connecting"} <=> supervisor = "none"
  /\ supervisor \in {"backoff", "dialing"} => Committed
  /\ Committed => supervisor # "done"

\* Whose chunks are queued and in hand, and how many are unfinished.
Chunks ==
  /\ ~Working /\ ~Committed => queue = <<>>
  /\ Working => AllOf(queue, "meeting")
  /\ Committed => AllOf(queue, "subtitles")
  /\ inHand = IF sender \in {"holding", "sending", "closing"} THEN "meeting" ELSE NoChunk
  /\ ~Committed => subInHand = 0
Carried == IF sender \in {"holding", "sending", "closing"} THEN 1 ELSE 0
Counted == unfinished = Len(queue) + subInHand + Carried

\* The streams of a session that dials.
Streams ==
  /\ events # "none" => stream \in {0, reading}
  /\ events \in {"backoff", "dialing"} => stream = 0
  /\ subStream \in {0, serving}
  /\ supervisor = "backoff" => serving = 0
  /\ supervisor = "dialing" => ~subReady
  /\ supervisor \in {"backoff", "dialing"} => queue = <<>> /\ subInHand = 0

\* The clocks.
Clocks ==
  /\ lease \in {"connecting", "waiting", "prepared"} => offset = 0 /\ audio = 0 /\ input = 0
  /\ Working => offset + audio + Carried + Len(queue) <= input + QueueSize + 1
  /\ offset + audio <= input + QueueSize + 1
  /\ events \in {"backoff", "dialing"} => audio + Carried + Len(queue) <= QueueSize + 1

\* The account of the subtitles.
Account ==
  /\ subLease \in {"connecting", "waiting", "prepared"} =>
       subOffset = 0 /\ subAudio = 0 /\ subInput = 0
  /\ ~Committed => heard = 0 /\ reported = 0 /\ discarded = 0 /\ subGap = 0
  /\ SubtitlesAccounted

\* What the proxy says.
Reports ==
  /\ Accepting /\ stream # 0 => proxyState = "connected"
  /\ Committed /\ ~Owned /\ supervisor = "serving" => proxyState = "connected"

Ind == Types /\ Leases /\ Chunks /\ Counted /\ Streams /\ Clocks /\ Account /\ Reports
-----------------------------------------------------------------------------
(***************************************************************************)
(* The queue.                                                              *)
(***************************************************************************)
LEMMA EmptyQueue ==
  ASSUME NEW c PROVE <<>> \in Seq(Sessions) /\ Len(<<>>) = 0 /\ AllOf(<<>>, c)
BY DEF AllOf

LEMMA Appended ==
  ASSUME NEW q \in Seq(Sessions), NEW c \in Sessions
  PROVE /\ Append(q, c) \in Seq(Sessions) /\ Len(Append(q, c)) = Len(q) + 1
        /\ AllOf(q, c) => AllOf(Append(q, c), c)
<1> DEFINE n == Len(q)
           more == Append(q, c)
<1>1. n \in Nat /\ Len(more) = n + 1 /\ more[n + 1] = c /\ \A i \in 1 .. n : more[i] = q[i]
  OBVIOUS
<1>2. more \in Seq(Sessions)
  OBVIOUS
<1> HIDE DEF n, more
<1>3. \A i \in 1 .. n + 1 : i \in 1 .. n \/ i = n + 1
  BY <1>1
<1>4. AllOf(q, c) => AllOf(more, c)
  BY <1>1, <1>3 DEF AllOf, n
<1> QED
  BY <1>1, <1>2, <1>4 DEF n, more

LEMMA Taken ==
  ASSUME NEW q \in Seq(Sessions), q # <<>>
  PROVE /\ Tail(q) \in Seq(Sessions) /\ Len(Tail(q)) = Len(q) - 1 /\ Len(q) \in Nat \ {0}
        /\ \A c : AllOf(q, c) => AllOf(Tail(q), c) /\ Head(q) = c
<1>1. Len(q) \in Nat \ {0} /\ Tail(q) \in Seq(Sessions) /\ Len(Tail(q)) = Len(q) - 1
      /\ Head(q) = q[1] /\ \A i \in 1 .. Len(q) - 1 : Tail(q)[i] = q[i + 1]
  OBVIOUS
<1>2. \A i \in 1 .. Len(q) - 1 : i + 1 \in 1 .. Len(q)
  BY <1>1
<1>3. 1 \in 1 .. Len(q)
  BY <1>1
<1> QED
  BY <1>1, <1>2, <1>3 DEF AllOf

LEMMA QueueType == ASSUME Ind PROVE queue \in Seq(Sessions) /\ Len(queue) \in Nat
BY DEF Ind, Types, TypeOK

\* The numbers.
LEMMA Numbers ==
  ASSUME Ind
  PROVE /\ Len(queue) \in 0 .. QueueSize
        /\ QueueSize \in Nat \ {0} /\ input \in Nat /\ subInput \in Nat
        /\ offset \in Nat /\ audio \in Nat /\ epoch \in Nat
        /\ subOffset \in Nat /\ subAudio \in Nat /\ subGap \in Nat /\ subInHand \in {0, 1}
        /\ heard \in Nat /\ reported \in Nat /\ discarded \in Nat
        /\ Held = Carried /\ Carried \in {0, 1}
        /\ unfinished = Len(queue) + subInHand + Carried
<1>1. Len(queue) \in 0 .. QueueSize /\ QueueSize \in Nat \ {0}
  BY BoundsAssumption DEF Ind, Types, TypeOK
<1>2. Held = Carried /\ Carried \in {0, 1}
  BY DEF Ind, Chunks, Held, Carried, NoChunk
<1>3. unfinished = Len(queue) + subInHand + Carried
  BY DEF Ind, Counted
<1> QED
  BY <1>1, <1>2, <1>3 DEF Ind, Types, TypeOK, MeetingTypes, SubtitleTypes, Positions
-----------------------------------------------------------------------------
(***************************************************************************)
(* The steps of the meeting.                                               *)
(***************************************************************************)
USE DEF sharedVars, captureVars, connection, clock, eventTask, sendTask,
        subtitleVars, subConnection, subClock, account, Says

LEMMA CaptureConnectedStep == ASSUME Ind, CaptureConnected, UNCHANGED subtitleVars PROVE Ind'
<1>1. TypeOK'
  BY BoundsAssumption DEF Types, TypeOK, LeaseStates, SubLeaseStates, ProxyStates, Positions,
    Ind, CaptureConnected
<1>2. MeetingTypes'
  BY Numbers DEF Types, MeetingTypes, Ind, CaptureConnected
<1>3. SubtitleTypes'
  BY Numbers DEF Types, SubtitleTypes, Ind, CaptureConnected
<1>4. Flags'
  BY DEF Types, Flags, Ind, CaptureConnected
<1>5. Leases'
  BY DEF Types, TypeOK, Leases, Streams, Working, Owned, Accepting, Committed, Ind,
    CaptureConnected
<1>6. Chunks'
  BY Numbers DEF Chunks, Leases, Working, Owned, Accepting, Committed, Ind, CaptureConnected
<1>7. Counted'
  BY Numbers DEF Counted, Carried, Leases, Chunks, Working, Owned, Accepting, Committed, Ind,
    CaptureConnected
<1>8. Streams'
  BY DEF Streams, Leases, Working, Owned, Accepting, Committed, Ind, CaptureConnected
<1>9. Clocks'
  BY Numbers DEF Clocks, Leases, Chunks, Streams, Carried, Working, Owned, Accepting, Committed,
    Ind, CaptureConnected
<1>10. Account'
  BY Numbers DEF Account, SubtitlesAccounted, Leases, Chunks, Streams, Working, Owned,
    Accepting, Committed, Ind, CaptureConnected
<1>11. Reports'
  BY DEF Types, TypeOK, Reports, Leases, Streams, Working, Owned, Accepting, Committed, Ind,
    CaptureConnected
<1> QED
  BY <1>1, <1>2, <1>3, <1>4, <1>5, <1>6, <1>7, <1>8, <1>9, <1>10, <1>11 DEF Ind, Types

LEMMA CapturePreparedStep == ASSUME Ind, CapturePrepared, UNCHANGED subtitleVars PROVE Ind'
<1>1. TypeOK'
  BY BoundsAssumption DEF Types, TypeOK, LeaseStates, SubLeaseStates, ProxyStates, Positions,
    Ind, CapturePrepared
<1>2. MeetingTypes'
  BY Numbers DEF Types, MeetingTypes, Ind, CapturePrepared
<1>3. SubtitleTypes'
  BY Numbers DEF Types, SubtitleTypes, Ind, CapturePrepared
<1>4. Flags'
  BY DEF Types, Flags, Ind, CapturePrepared
<1>5. Leases'
  BY DEF Types, TypeOK, Leases, Streams, Working, Owned, Accepting, Committed, Ind,
    CapturePrepared
<1>6. Chunks'
  BY Numbers DEF Chunks, Leases, Working, Owned, Accepting, Committed, Ind, CapturePrepared
<1>7. Counted'
  BY Numbers DEF Counted, Carried, Leases, Chunks, Working, Owned, Accepting, Committed, Ind,
    CapturePrepared
<1>8. Streams'
  BY DEF Streams, Leases, Working, Owned, Accepting, Committed, Ind, CapturePrepared
<1>9. Clocks'
  BY Numbers DEF Clocks, Leases, Chunks, Streams, Carried, Working, Owned, Accepting, Committed,
    Ind, CapturePrepared
<1>10. Account'
  BY Numbers DEF Account, SubtitlesAccounted, Leases, Chunks, Streams, Working, Owned,
    Accepting, Committed, Ind, CapturePrepared
<1>11. Reports'
  BY DEF Types, TypeOK, Reports, Leases, Streams, Working, Owned, Accepting, Committed, Ind,
    CapturePrepared
<1> QED
  BY <1>1, <1>2, <1>3, <1>4, <1>5, <1>6, <1>7, <1>8, <1>9, <1>10, <1>11 DEF Ind, Types

LEMMA JoinedStep == ASSUME Ind, Joined, UNCHANGED subtitleVars PROVE Ind'
<1>1. TypeOK'
  BY BoundsAssumption DEF Types, TypeOK, LeaseStates, SubLeaseStates, ProxyStates, Positions,
    Ind, Joined
<1>2. MeetingTypes'
  BY Numbers DEF Types, MeetingTypes, Ind, Joined
<1>3. SubtitleTypes'
  BY Numbers DEF Types, SubtitleTypes, Ind, Joined
<1>4. Flags'
  BY DEF Types, Flags, Ind, Joined
<1>5. Leases'
  BY DEF Types, TypeOK, Leases, Streams, Working, Owned, Accepting, Committed, Ind, Joined
<1>6. Chunks'
  BY Numbers DEF Chunks, Leases, Working, Owned, Accepting, Committed, Ind, Joined
<1>7. Counted'
  BY Numbers DEF Counted, Carried, Leases, Chunks, Working, Owned, Accepting, Committed, Ind,
    Joined
<1>8. Streams'
  BY DEF Streams, Leases, Working, Owned, Accepting, Committed, Ind, Joined
<1>9. Clocks'
  BY Numbers DEF Clocks, Leases, Chunks, Streams, Carried, Working, Owned, Accepting, Committed,
    Ind, Joined
<1>10. Account'
  BY Numbers DEF Account, SubtitlesAccounted, Leases, Chunks, Streams, Working, Owned,
    Accepting, Committed, Ind, Joined
<1>11. Reports'
  BY DEF Types, TypeOK, Reports, Leases, Streams, Working, Owned, Accepting, Committed, Ind,
    Joined
<1> QED
  BY <1>1, <1>2, <1>3, <1>4, <1>5, <1>6, <1>7, <1>8, <1>9, <1>10, <1>11 DEF Ind, Types

LEMMA FlushedStep == ASSUME Ind, Flushed, UNCHANGED subtitleVars PROVE Ind'
<1>1. TypeOK'
  BY BoundsAssumption DEF Types, TypeOK, LeaseStates, SubLeaseStates, ProxyStates, Positions,
    Ind, Flushed
<1>2. MeetingTypes'
  BY Numbers DEF Types, MeetingTypes, Ind, Flushed
<1>3. SubtitleTypes'
  BY Numbers DEF Types, SubtitleTypes, Ind, Flushed
<1>4. Flags'
  BY DEF Types, Flags, Ind, Flushed
<1>5. Leases'
  BY DEF Types, TypeOK, Leases, Streams, Working, Owned, Accepting, Committed, Ind, Flushed
<1>6. Chunks'
  BY Numbers DEF Chunks, Leases, Working, Owned, Accepting, Committed, Ind, Flushed
<1>7. Counted'
  BY Numbers DEF Counted, Carried, Leases, Chunks, Working, Owned, Accepting, Committed, Ind,
    Flushed
<1>8. Streams'
  BY DEF Streams, Leases, Working, Owned, Accepting, Committed, Ind, Flushed
<1>9. Clocks'
  BY Numbers DEF Clocks, Leases, Chunks, Streams, Carried, Working, Owned, Accepting, Committed,
    Ind, Flushed
<1>10. Account'
  BY Numbers DEF Account, SubtitlesAccounted, Leases, Chunks, Streams, Working, Owned,
    Accepting, Committed, Ind, Flushed
<1>11. Reports'
  BY DEF Types, TypeOK, Reports, Leases, Streams, Working, Owned, Accepting, Committed, Ind,
    Flushed
<1> QED
  BY <1>1, <1>2, <1>3, <1>4, <1>5, <1>6, <1>7, <1>8, <1>9, <1>10, <1>11 DEF Ind, Types

LEMMA AwaitChunkStep == ASSUME Ind, AwaitChunk, UNCHANGED subtitleVars PROVE Ind'
<1>1. TypeOK'
  BY BoundsAssumption DEF Types, TypeOK, LeaseStates, SubLeaseStates, ProxyStates, Positions,
    Ind, AwaitChunk
<1>2. MeetingTypes'
  BY Numbers DEF Types, MeetingTypes, Ind, AwaitChunk
<1>3. SubtitleTypes'
  BY Numbers DEF Types, SubtitleTypes, Ind, AwaitChunk
<1>4. Flags'
  BY DEF Types, Flags, Ind, AwaitChunk
<1>5. Leases'
  BY DEF Types, TypeOK, Leases, Streams, Working, Owned, Accepting, Committed, Ind, AwaitChunk
<1>6. Chunks'
  BY Numbers DEF Chunks, Leases, Working, Owned, Accepting, Committed, Ind, AwaitChunk
<1>7. Counted'
  BY Numbers DEF Counted, Carried, Leases, Chunks, Working, Owned, Accepting, Committed, Ind,
    AwaitChunk
<1>8. Streams'
  BY DEF Streams, Leases, Working, Owned, Accepting, Committed, Ind, AwaitChunk
<1>9. Clocks'
  BY Numbers DEF Clocks, Leases, Chunks, Streams, Carried, Working, Owned, Accepting, Committed,
    Ind, AwaitChunk
<1>10. Account'
  BY Numbers DEF Account, SubtitlesAccounted, Leases, Chunks, Streams, Working, Owned,
    Accepting, Committed, Ind, AwaitChunk
<1>11. Reports'
  BY DEF Types, TypeOK, Reports, Leases, Streams, Working, Owned, Accepting, Committed, Ind,
    AwaitChunk
<1> QED
  BY <1>1, <1>2, <1>3, <1>4, <1>5, <1>6, <1>7, <1>8, <1>9, <1>10, <1>11 DEF Ind, Types

LEMMA GetChunkStep == ASSUME Ind, GetChunk, UNCHANGED subtitleVars PROVE Ind'
<1>1. /\ queue' \in Seq(Sessions) /\ Len(queue') = Len(queue) - 1 /\ Len(queue) \in Nat \ {0}
      /\ \A c : AllOf(queue, c) => AllOf(queue', c) /\ Head(queue) = c
  BY QueueType, Taken DEF Ind, GetChunk
<1>2. TypeOK'
  BY <1>1, BoundsAssumption DEF Types, TypeOK, LeaseStates, SubLeaseStates, ProxyStates,
    Positions, Ind, GetChunk
<1>3. MeetingTypes'
  BY <1>1, Numbers DEF Types, MeetingTypes, Ind, GetChunk
<1>4. SubtitleTypes'
  BY <1>1, Numbers DEF Types, SubtitleTypes, Ind, GetChunk
<1>5. Flags'
  BY <1>1 DEF Types, Flags, Ind, GetChunk
<1>6. Leases'
  BY <1>1 DEF Types, TypeOK, Leases, Streams, Working, Owned, Accepting, Committed, Ind,
    GetChunk
<1>7. Chunks'
  BY <1>1, Numbers DEF Chunks, Leases, Working, Owned, Accepting, Committed, Ind, GetChunk
<1>8. Counted'
  BY <1>1, Numbers DEF Counted, Carried, Leases, Chunks, Working, Owned, Accepting, Committed,
    Ind, GetChunk
<1>9. Streams'
  BY <1>1 DEF Streams, Leases, Working, Owned, Accepting, Committed, Ind, GetChunk
<1>10. Clocks'
  <2>0. /\ Len(queue) \in Nat \ {0} /\ QueueSize \in Nat /\ Carried \in {0, 1}
        /\ offset \in Nat /\ audio \in Nat /\ input \in Nat
    BY <1>1, Numbers
  <2>1. /\ Carried = 0 /\ Carried' = 1 /\ Len(queue') = Len(queue) - 1
        /\ offset' = offset /\ audio' = audio /\ input' = input
        /\ lease' = lease /\ events' = events
    BY <1>1 DEF Carried, Ind, GetChunk
  <2>2. Carried' + Len(queue') = Carried + Len(queue)
    BY <2>0, <2>1
  <2>3. /\ offset + audio + Carried + Len(queue) <= input + QueueSize + 1 =>
             offset' + audio' + Carried' + Len(queue') <= input' + QueueSize + 1
        /\ audio + Carried + Len(queue) <= QueueSize + 1 =>
             audio' + Carried' + Len(queue') <= QueueSize + 1
    BY <2>0, <2>1, <2>2
  <2> QED
    BY <2>1, <2>3 DEF Clocks, Working, Ind
<1>11. Account'
  BY <1>1, Numbers DEF Account, SubtitlesAccounted, Leases, Chunks, Streams, Working, Owned,
    Accepting, Committed, Ind, GetChunk
<1>12. Reports'
  BY <1>1 DEF Types, TypeOK, Reports, Leases, Streams, Working, Owned, Accepting, Committed,
    Ind, GetChunk
<1> QED
  BY <1>2, <1>3, <1>4, <1>5, <1>6, <1>7, <1>8, <1>9, <1>10, <1>11, <1>12 DEF Ind, Types

LEMMA UnholdStep == ASSUME Ind, Unhold, UNCHANGED subtitleVars PROVE Ind'
<1>1. TypeOK'
  BY BoundsAssumption DEF Types, TypeOK, LeaseStates, SubLeaseStates, ProxyStates, Positions,
    Ind, Unhold
<1>2. MeetingTypes'
  BY Numbers DEF Types, MeetingTypes, Ind, Unhold
<1>3. SubtitleTypes'
  BY Numbers DEF Types, SubtitleTypes, Ind, Unhold
<1>4. Flags'
  BY DEF Types, Flags, Ind, Unhold
<1>5. Leases'
  BY DEF Types, TypeOK, Leases, Streams, Working, Owned, Accepting, Committed, Ind, Unhold
<1>6. Chunks'
  BY Numbers DEF Chunks, Leases, Working, Owned, Accepting, Committed, Ind, Unhold
<1>7. Counted'
  BY Numbers DEF Counted, Carried, Leases, Chunks, Working, Owned, Accepting, Committed, Ind,
    Unhold
<1>8. Streams'
  BY DEF Streams, Leases, Working, Owned, Accepting, Committed, Ind, Unhold
<1>9. Clocks'
  BY Numbers DEF Clocks, Leases, Chunks, Streams, Carried, Working, Owned, Accepting, Committed,
    Ind, Unhold
<1>10. Account'
  BY Numbers DEF Account, SubtitlesAccounted, Leases, Chunks, Streams, Working, Owned,
    Accepting, Committed, Ind, Unhold
<1>11. Reports'
  BY DEF Types, TypeOK, Reports, Leases, Streams, Working, Owned, Accepting, Committed, Ind,
    Unhold
<1> QED
  BY <1>1, <1>2, <1>3, <1>4, <1>5, <1>6, <1>7, <1>8, <1>9, <1>10, <1>11 DEF Ind, Types

LEMMA SendMeetingStep == ASSUME Ind, SendMeeting, UNCHANGED subtitleVars PROVE Ind'
<1>1. TypeOK'
  BY BoundsAssumption DEF Types, TypeOK, LeaseStates, SubLeaseStates, ProxyStates, Positions,
    Ind, SendMeeting, SendEnds
<1>2. MeetingTypes'
  BY Numbers DEF Types, MeetingTypes, Ind, SendMeeting, SendEnds
<1>3. SubtitleTypes'
  BY Numbers DEF Types, SubtitleTypes, Ind, SendMeeting, SendEnds
<1>4. Flags'
  BY DEF Types, Flags, Ind, SendMeeting, SendEnds
<1>5. Leases'
  BY DEF Types, TypeOK, Leases, Streams, Working, Owned, Accepting, Committed, Ind, SendMeeting,
    SendEnds
<1>6. Chunks'
  BY Numbers DEF Chunks, Leases, Working, Owned, Accepting, Committed, Ind, SendMeeting,
    SendEnds
<1>7. Counted'
  <2>0. /\ Len(queue) \in Nat /\ subInHand \in {0, 1} /\ Carried \in {0, 1}
        /\ unfinished = Len(queue) + subInHand + Carried
    BY Numbers
  <2>1. Carried = 1 /\ Carried' = 0 /\ unfinished' = unfinished - 1
        /\ queue' = queue /\ subInHand' = subInHand
    BY DEF Carried, Ind, SendMeeting, SendEnds
  <2> QED
    BY <2>0, <2>1 DEF Counted
<1>8. Streams'
  BY DEF Streams, Leases, Working, Owned, Accepting, Committed, Ind, SendMeeting, SendEnds
<1>9. Clocks'
  <2>0. /\ Len(queue) \in Nat /\ Len(queue) <= QueueSize /\ QueueSize \in Nat /\ Carried \in {0, 1}
        /\ offset \in Nat /\ audio \in Nat /\ input \in Nat
    BY Numbers
  <2>1. /\ Working /\ Carried = 1 /\ Carried' = 0 /\ audio' = audio + 1
        /\ offset' = offset /\ input' = input
        /\ Len(queue') = Len(queue) /\ Working' = Working
    BY DEF Leases, Working, Carried, Ind, SendMeeting, SendEnds
  <2>2. offset + audio + Carried + Len(queue) <= input + QueueSize + 1
    BY <2>1 DEF Clocks, Ind, SendMeeting, SendEnds
  <2>3. offset' + audio' + Carried' + Len(queue') <= input' + QueueSize + 1
    BY <2>0, <2>1, <2>2
  <2>4. offset' + audio' <= input' + QueueSize + 1
    BY <2>0, <2>1, <2>2
  <2>5. events \in {"backoff", "dialing"} => audio' + Carried' + Len(queue') <= QueueSize + 1
    <3>1. events \in {"backoff", "dialing"} => audio + Carried + Len(queue) <= QueueSize + 1
      BY DEF Clocks, Ind, SendMeeting, SendEnds
    <3> QED
      BY <2>0, <2>1, <3>1
  <2>6. lease' \notin {"connecting", "waiting", "prepared"}
    BY <2>1 DEF Working, Ind, SendMeeting, SendEnds
  <2> QED
    BY <2>3, <2>4, <2>5, <2>6 DEF Clocks, Ind, SendMeeting, SendEnds
<1>10. Account'
  BY Numbers DEF Account, SubtitlesAccounted, Leases, Chunks, Streams, Working, Owned,
    Accepting, Committed, Ind, SendMeeting, SendEnds
<1>11. Reports'
  BY DEF Types, TypeOK, Reports, Leases, Streams, Working, Owned, Accepting, Committed, Ind,
    SendMeeting, SendEnds
<1> QED
  BY <1>1, <1>2, <1>3, <1>4, <1>5, <1>6, <1>7, <1>8, <1>9, <1>10, <1>11 DEF Ind, Types

LEMMA SendFailsStep == ASSUME Ind, SendFails, UNCHANGED subtitleVars PROVE Ind'
<1>1. TypeOK'
  BY BoundsAssumption DEF Types, TypeOK, LeaseStates, SubLeaseStates, ProxyStates, Positions,
    Ind, SendFails
<1>2. MeetingTypes'
  BY Numbers DEF Types, MeetingTypes, Ind, SendFails
<1>3. SubtitleTypes'
  BY Numbers DEF Types, SubtitleTypes, Ind, SendFails
<1>4. Flags'
  BY DEF Types, Flags, Ind, SendFails
<1>5. Leases'
  BY DEF Types, TypeOK, Leases, Streams, Working, Owned, Accepting, Committed, Ind, SendFails
<1>6. Chunks'
  BY Numbers DEF Chunks, Leases, Working, Owned, Accepting, Committed, Ind, SendFails
<1>7. Counted'
  BY Numbers DEF Counted, Carried, Leases, Chunks, Working, Owned, Accepting, Committed, Ind,
    SendFails
<1>8. Streams'
  BY DEF Streams, Leases, Working, Owned, Accepting, Committed, Ind, SendFails
<1>9. Clocks'
  BY Numbers DEF Clocks, Leases, Chunks, Streams, Carried, Working, Owned, Accepting, Committed,
    Ind, SendFails
<1>10. Account'
  BY Numbers DEF Account, SubtitlesAccounted, Leases, Chunks, Streams, Working, Owned,
    Accepting, Committed, Ind, SendFails
<1>11. Reports'
  BY DEF Types, TypeOK, Reports, Leases, Streams, Working, Owned, Accepting, Committed, Ind,
    SendFails
<1> QED
  BY <1>1, <1>2, <1>3, <1>4, <1>5, <1>6, <1>7, <1>8, <1>9, <1>10, <1>11 DEF Ind, Types

LEMMA GiveUpChunkStep == ASSUME Ind, GiveUpChunk, UNCHANGED subtitleVars PROVE Ind'
<1>1. TypeOK'
  BY BoundsAssumption DEF Types, TypeOK, LeaseStates, SubLeaseStates, ProxyStates, Positions,
    Ind, GiveUpChunk, SendEnds
<1>2. MeetingTypes'
  BY Numbers DEF Types, MeetingTypes, Ind, GiveUpChunk, SendEnds
<1>3. SubtitleTypes'
  BY Numbers DEF Types, SubtitleTypes, Ind, GiveUpChunk, SendEnds
<1>4. Flags'
  BY DEF Types, Flags, Ind, GiveUpChunk, SendEnds
<1>5. Leases'
  BY DEF Types, TypeOK, Leases, Streams, Working, Owned, Accepting, Committed, Ind, GiveUpChunk,
    SendEnds
<1>6. Chunks'
  BY Numbers DEF Chunks, Leases, Working, Owned, Accepting, Committed, Ind, GiveUpChunk,
    SendEnds
<1>7. Counted'
  <2>0. /\ Len(queue) \in Nat /\ subInHand \in {0, 1} /\ Carried \in {0, 1}
        /\ unfinished = Len(queue) + subInHand + Carried
    BY Numbers
  <2>1. Carried = 1 /\ Carried' = 0 /\ unfinished' = unfinished - 1
        /\ queue' = queue /\ subInHand' = subInHand
    BY DEF Carried, Ind, GiveUpChunk, SendEnds
  <2> QED
    BY <2>0, <2>1 DEF Counted
<1>8. Streams'
  BY DEF Streams, Leases, Working, Owned, Accepting, Committed, Ind, GiveUpChunk, SendEnds
<1>9. Clocks'
  <2>0. /\ Len(queue) \in Nat /\ Len(queue) <= QueueSize /\ QueueSize \in Nat /\ Carried \in {0, 1}
        /\ offset \in Nat /\ audio \in Nat /\ input \in Nat
    BY Numbers
  <2>1. /\ Working /\ Carried = 1 /\ Carried' = 0 /\ audio' = audio + 1
        /\ offset' = offset /\ input' = input
        /\ Len(queue') = Len(queue) /\ Working' = Working
    BY DEF Leases, Working, Carried, Ind, GiveUpChunk, SendEnds
  <2>2. offset + audio + Carried + Len(queue) <= input + QueueSize + 1
    BY <2>1 DEF Clocks, Ind, GiveUpChunk, SendEnds
  <2>3. offset' + audio' + Carried' + Len(queue') <= input' + QueueSize + 1
    BY <2>0, <2>1, <2>2
  <2>4. offset' + audio' <= input' + QueueSize + 1
    BY <2>0, <2>1, <2>2
  <2>5. events \in {"backoff", "dialing"} => audio' + Carried' + Len(queue') <= QueueSize + 1
    <3>1. events \in {"backoff", "dialing"} => audio + Carried + Len(queue) <= QueueSize + 1
      BY DEF Clocks, Ind, GiveUpChunk, SendEnds
    <3> QED
      BY <2>0, <2>1, <3>1
  <2>6. lease' \notin {"connecting", "waiting", "prepared"}
    BY <2>1 DEF Working, Ind, GiveUpChunk, SendEnds
  <2> QED
    BY <2>3, <2>4, <2>5, <2>6 DEF Clocks, Ind, GiveUpChunk, SendEnds
<1>10. Account'
  BY Numbers DEF Account, SubtitlesAccounted, Leases, Chunks, Streams, Working, Owned,
    Accepting, Committed, Ind, GiveUpChunk, SendEnds
<1>11. Reports'
  BY DEF Types, TypeOK, Reports, Leases, Streams, Working, Owned, Accepting, Committed, Ind,
    GiveUpChunk, SendEnds
<1> QED
  BY <1>1, <1>2, <1>3, <1>4, <1>5, <1>6, <1>7, <1>8, <1>9, <1>10, <1>11 DEF Ind, Types

LEMMA CaptureReadyStep == ASSUME Ind, CaptureReady, UNCHANGED subtitleVars PROVE Ind'
<1>1. TypeOK'
  BY BoundsAssumption DEF Types, TypeOK, LeaseStates, SubLeaseStates, ProxyStates, Positions,
    Ind, CaptureReady
<1>2. MeetingTypes'
  BY Numbers DEF Types, MeetingTypes, Ind, CaptureReady
<1>3. SubtitleTypes'
  BY Numbers DEF Types, SubtitleTypes, Ind, CaptureReady
<1>4. Flags'
  BY DEF Types, Flags, Ind, CaptureReady
<1>5. Leases'
  BY DEF Types, TypeOK, Leases, Streams, Working, Owned, Accepting, Committed, Ind, CaptureReady
<1>6. Chunks'
  BY Numbers DEF Chunks, Leases, Working, Owned, Accepting, Committed, Ind, CaptureReady
<1>7. Counted'
  BY Numbers DEF Counted, Carried, Leases, Chunks, Working, Owned, Accepting, Committed, Ind,
    CaptureReady
<1>8. Streams'
  BY DEF Streams, Leases, Working, Owned, Accepting, Committed, Ind, CaptureReady
<1>9. Clocks'
  BY Numbers DEF Clocks, Leases, Chunks, Streams, Carried, Working, Owned, Accepting, Committed,
    Ind, CaptureReady
<1>10. Account'
  BY Numbers DEF Account, SubtitlesAccounted, Leases, Chunks, Streams, Working, Owned,
    Accepting, Committed, Ind, CaptureReady
<1>11. Reports'
  BY DEF Types, TypeOK, Reports, Leases, Streams, Working, Owned, Accepting, Committed, Ind,
    CaptureReady
<1> QED
  BY <1>1, <1>2, <1>3, <1>4, <1>5, <1>6, <1>7, <1>8, <1>9, <1>10, <1>11 DEF Ind, Types

LEMMA EventsEndStep == ASSUME Ind, EventsEnd, UNCHANGED subtitleVars PROVE Ind'
<1>1. TypeOK'
  BY BoundsAssumption DEF Types, TypeOK, LeaseStates, SubLeaseStates, ProxyStates, Positions,
    Ind, EventsEnd, NewClock
<1>2. MeetingTypes'
  <2>1. offset \in Nat /\ audio \in Nat /\ epoch \in Nat /\ stream \in Nat /\ attempt \in Nat
    BY DEF Types, MeetingTypes, Ind
  <2>2. offset' \in Nat /\ audio' \in Nat /\ epoch' \in Nat /\ stream' \in Nat /\ attempt' \in Nat
    BY <2>1 DEF Ind, EventsEnd, NewClock
  <2> QED
    BY <2>2 DEF Types, MeetingTypes, Ind, EventsEnd, NewClock
<1>3. SubtitleTypes'
  BY Numbers DEF Types, SubtitleTypes, Ind, EventsEnd, NewClock
<1>4. Flags'
  BY DEF Types, Flags, Ind, EventsEnd, NewClock
<1>5. Leases'
  BY DEF Types, TypeOK, Leases, Streams, Working, Owned, Accepting, Committed, Ind, EventsEnd,
    NewClock
<1>6. Chunks'
  BY Numbers DEF Chunks, Leases, Working, Owned, Accepting, Committed, Ind, EventsEnd, NewClock
<1>7. Counted'
  BY Numbers DEF Counted, Carried, Leases, Chunks, Working, Owned, Accepting, Committed, Ind,
    EventsEnd, NewClock
<1>8. Streams'
  BY DEF Streams, Leases, Working, Owned, Accepting, Committed, Ind, EventsEnd, NewClock
<1>9. Clocks'
  <2>0. /\ Len(queue) \in Nat /\ Len(queue) <= QueueSize /\ QueueSize \in Nat /\ Carried \in {0, 1}
        /\ offset \in Nat /\ audio \in Nat /\ input \in Nat
    BY Numbers
  <2>1. Len(queue') = Len(queue) /\ Carried' = Carried /\ lease' = lease /\ input' = input
    BY DEF Carried, Ind, EventsEnd, NewClock
  <2>2. CASE ~Accepting
    BY <2>1, <2>2 DEF Clocks, Working, Ind, EventsEnd, NewClock
  <2>3. CASE Accepting
    <3>1. offset' = offset + audio /\ audio' = 0 /\ Working
      BY <2>3 DEF Accepting, Working, Ind, EventsEnd, NewClock
    <3>2. offset + audio + Carried + Len(queue) <= input + QueueSize + 1
      BY <3>1 DEF Clocks, Ind, EventsEnd, NewClock
    <3>3. /\ offset' + audio' + Carried' + Len(queue') <= input' + QueueSize + 1
          /\ offset' + audio' <= input' + QueueSize + 1
          /\ audio' + Carried' + Len(queue') <= QueueSize + 1
      BY <2>0, <2>1, <3>1, <3>2
    <3> QED
      BY <2>1, <2>3, <3>3 DEF Clocks, Accepting, Ind, EventsEnd, NewClock
  <2> QED
    BY <2>2, <2>3
<1>10. Account'
  BY Numbers DEF Account, SubtitlesAccounted, Leases, Chunks, Streams, Working, Owned,
    Accepting, Committed, Ind, EventsEnd, NewClock
<1>11. Reports'
  BY DEF Types, TypeOK, Reports, Leases, Streams, Working, Owned, Accepting, Committed, Ind,
    EventsEnd, NewClock
<1> QED
  BY <1>1, <1>2, <1>3, <1>4, <1>5, <1>6, <1>7, <1>8, <1>9, <1>10, <1>11 DEF Ind, Types

LEMMA RedialCaptureStep == ASSUME Ind, RedialCapture, UNCHANGED subtitleVars PROVE Ind'
<1>1. TypeOK'
  BY BoundsAssumption DEF Types, TypeOK, LeaseStates, SubLeaseStates, ProxyStates, Positions,
    Ind, RedialCapture
<1>2. MeetingTypes'
  BY Numbers DEF Types, MeetingTypes, Ind, RedialCapture
<1>3. SubtitleTypes'
  BY Numbers DEF Types, SubtitleTypes, Ind, RedialCapture
<1>4. Flags'
  BY DEF Types, Flags, Ind, RedialCapture
<1>5. Leases'
  BY DEF Types, TypeOK, Leases, Streams, Working, Owned, Accepting, Committed, Ind,
    RedialCapture
<1>6. Chunks'
  BY Numbers DEF Chunks, Leases, Working, Owned, Accepting, Committed, Ind, RedialCapture
<1>7. Counted'
  BY Numbers DEF Counted, Carried, Leases, Chunks, Working, Owned, Accepting, Committed, Ind,
    RedialCapture
<1>8. Streams'
  BY DEF Streams, Leases, Working, Owned, Accepting, Committed, Ind, RedialCapture
<1>9. Clocks'
  <2>0. /\ Len(queue) \in Nat /\ Len(queue) <= QueueSize /\ QueueSize \in Nat /\ Carried \in {0, 1}
        /\ offset \in Nat /\ audio \in Nat /\ input \in Nat
    BY Numbers
  <2>1. /\ Len(queue') = Len(queue) /\ Carried' = Carried /\ offset' = input /\ input' = input
        /\ audio' = audio /\ Accepting /\ lease' = lease
    BY DEF Carried, Leases, Ind, RedialCapture
  <2>2. audio + Carried + Len(queue) <= QueueSize + 1
    BY DEF Clocks, Ind, RedialCapture
  <2>3. /\ offset' + audio' + Carried' + Len(queue') <= input' + QueueSize + 1
        /\ offset' + audio' <= input' + QueueSize + 1
        /\ audio' + Carried' + Len(queue') <= QueueSize + 1
    BY <2>0, <2>1, <2>2
  <2> QED
    BY <2>1, <2>3 DEF Clocks, Accepting, Ind, RedialCapture
<1>10. Account'
  BY Numbers DEF Account, SubtitlesAccounted, Leases, Chunks, Streams, Working, Owned,
    Accepting, Committed, Ind, RedialCapture
<1>11. Reports'
  BY DEF Types, TypeOK, Reports, Leases, Streams, Working, Owned, Accepting, Committed, Ind,
    RedialCapture
<1> QED
  BY <1>1, <1>2, <1>3, <1>4, <1>5, <1>6, <1>7, <1>8, <1>9, <1>10, <1>11 DEF Ind, Types

LEMMA CaptureRedialedStep == ASSUME Ind, CaptureRedialed, UNCHANGED subtitleVars PROVE Ind'
<1>1. TypeOK'
  BY BoundsAssumption DEF Types, TypeOK, LeaseStates, SubLeaseStates, ProxyStates, Positions,
    Ind, CaptureRedialed
<1>2. MeetingTypes'
  BY Numbers DEF Types, MeetingTypes, Ind, CaptureRedialed
<1>3. SubtitleTypes'
  BY Numbers DEF Types, SubtitleTypes, Ind, CaptureRedialed
<1>4. Flags'
  BY DEF Types, Flags, Ind, CaptureRedialed
<1>5. Leases'
  BY DEF Types, TypeOK, Leases, Streams, Working, Owned, Accepting, Committed, Ind,
    CaptureRedialed
<1>6. Chunks'
  BY Numbers DEF Chunks, Leases, Working, Owned, Accepting, Committed, Ind, CaptureRedialed
<1>7. Counted'
  BY Numbers DEF Counted, Carried, Leases, Chunks, Working, Owned, Accepting, Committed, Ind,
    CaptureRedialed
<1>8. Streams'
  BY DEF Streams, Leases, Working, Owned, Accepting, Committed, Ind, CaptureRedialed
<1>9. Clocks'
  BY Numbers DEF Clocks, Leases, Chunks, Streams, Carried, Working, Owned, Accepting, Committed,
    Ind, CaptureRedialed
<1>10. Account'
  BY Numbers DEF Account, SubtitlesAccounted, Leases, Chunks, Streams, Working, Owned,
    Accepting, Committed, Ind, CaptureRedialed
<1>11. Reports'
  BY DEF Types, TypeOK, Reports, Leases, Streams, Working, Owned, Accepting, Committed, Ind,
    CaptureRedialed
<1> QED
  BY <1>1, <1>2, <1>3, <1>4, <1>5, <1>6, <1>7, <1>8, <1>9, <1>10, <1>11 DEF Ind, Types

LEMMA MeetingBreaksStep == ASSUME Ind, MeetingBreaks, UNCHANGED subtitleVars PROVE Ind'
<1>1. TypeOK'
  BY BoundsAssumption DEF Types, TypeOK, LeaseStates, SubLeaseStates, ProxyStates, Positions,
    Ind, MeetingBreaks, Spend
<1>2. MeetingTypes'
  BY Numbers DEF Types, MeetingTypes, Ind, MeetingBreaks, Spend
<1>3. SubtitleTypes'
  BY Numbers DEF Types, SubtitleTypes, Ind, MeetingBreaks, Spend
<1>4. Flags'
  BY DEF Types, Flags, Ind, MeetingBreaks, Spend
<1>5. Leases'
  BY DEF Types, TypeOK, Leases, Streams, Working, Owned, Accepting, Committed, Ind,
    MeetingBreaks, Spend
<1>6. Chunks'
  BY Numbers DEF Chunks, Leases, Working, Owned, Accepting, Committed, Ind, MeetingBreaks, Spend
<1>7. Counted'
  BY Numbers DEF Counted, Carried, Leases, Chunks, Working, Owned, Accepting, Committed, Ind,
    MeetingBreaks, Spend
<1>8. Streams'
  BY DEF Streams, Leases, Working, Owned, Accepting, Committed, Ind, MeetingBreaks, Spend
<1>9. Clocks'
  BY Numbers DEF Clocks, Leases, Chunks, Streams, Carried, Working, Owned, Accepting, Committed,
    Ind, MeetingBreaks, Spend
<1>10. Account'
  BY Numbers DEF Account, SubtitlesAccounted, Leases, Chunks, Streams, Working, Owned,
    Accepting, Committed, Ind, MeetingBreaks, Spend
<1>11. Reports'
  BY DEF Types, TypeOK, Reports, Leases, Streams, Working, Owned, Accepting, Committed, Ind,
    MeetingBreaks, Spend
<1> QED
  BY <1>1, <1>2, <1>3, <1>4, <1>5, <1>6, <1>7, <1>8, <1>9, <1>10, <1>11 DEF Ind, Types

LEMMA RedialFailsStep == ASSUME Ind, RedialFails, UNCHANGED subtitleVars PROVE Ind'
<1>1. queue' = <<>> /\ queue' \in Seq(Sessions) /\ Len(queue') = 0
      /\ AllOf(queue', "meeting") /\ AllOf(queue', "subtitles")
  BY EmptyQueue DEF Ind, RedialFails, Drain
<1>2. TypeOK'
  BY <1>1, BoundsAssumption DEF Types, TypeOK, LeaseStates, SubLeaseStates, ProxyStates,
    Positions, Ind, RedialFails, Drain
<1>3. MeetingTypes'
  BY <1>1, Numbers DEF Types, MeetingTypes, Ind, RedialFails, Drain
<1>4. SubtitleTypes'
  BY <1>1, Numbers DEF Types, SubtitleTypes, Ind, RedialFails, Drain
<1>5. Flags'
  BY <1>1 DEF Types, Flags, Ind, RedialFails, Drain
<1>6. Leases'
  BY <1>1 DEF Types, TypeOK, Leases, Streams, Working, Owned, Accepting, Committed, Ind,
    RedialFails, Drain
<1>7. Chunks'
  BY <1>1, Numbers DEF Chunks, Leases, Working, Owned, Accepting, Committed, Ind, RedialFails,
    Drain
<1>8. Counted'
  BY <1>1, Numbers DEF Counted, Carried, Leases, Chunks, Working, Owned, Accepting, Committed,
    Ind, RedialFails, Drain
<1>9. Streams'
  BY <1>1 DEF Streams, Leases, Working, Owned, Accepting, Committed, Ind, RedialFails, Drain
<1>10. Clocks'
  <2>0. /\ Len(queue) \in Nat /\ Len(queue) <= QueueSize /\ QueueSize \in Nat /\ Carried \in {0, 1}
        /\ offset \in Nat /\ audio \in Nat /\ input \in Nat
    BY Numbers
  <2>1. /\ Carried' = Carried /\ input' = input /\ audio' = audio /\ Accepting /\ lease' = lease
        /\ offset' = offset \/ offset' = input
    BY DEF Carried, Leases, Ind, RedialFails, Drain
  <2>2. /\ audio + Carried + Len(queue) <= QueueSize + 1
        /\ offset + audio + Carried + Len(queue) <= input + QueueSize + 1
    BY <2>1 DEF Clocks, Accepting, Working, Ind, RedialFails, Drain
  <2>3. /\ offset' + audio' + Carried' + Len(queue') <= input' + QueueSize + 1
        /\ offset' + audio' <= input' + QueueSize + 1
        /\ audio' + Carried' + Len(queue') <= QueueSize + 1
    <3>1. Len(queue') = 0
      BY <1>1
    <3>2. CASE offset' = offset
      BY <2>0, <2>1, <2>2, <3>1, <3>2
    <3>3. CASE offset' = input
      BY <2>0, <2>1, <2>2, <3>1, <3>3
    <3> QED
      BY <2>1, <3>2, <3>3
  <2> QED
    BY <2>1, <2>3 DEF Clocks, Accepting, Ind, RedialFails, Drain
<1>11. Account'
  BY <1>1, Numbers DEF Account, SubtitlesAccounted, Leases, Chunks, Streams, Working, Owned,
    Accepting, Committed, Ind, RedialFails, Drain
<1>12. Reports'
  BY <1>1 DEF Types, TypeOK, Reports, Leases, Streams, Working, Owned, Accepting, Committed,
    Ind, RedialFails, Drain
<1> QED
  BY <1>2, <1>3, <1>4, <1>5, <1>6, <1>7, <1>8, <1>9, <1>10, <1>11, <1>12 DEF Ind, Types

LEMMA CommitCaptureStep == ASSUME Ind, ~Committed, CommitCapture, UNCHANGED subtitleVars PROVE Ind'
<1>1. TypeOK'
  BY BoundsAssumption DEF Types, TypeOK, LeaseStates, SubLeaseStates, ProxyStates, Positions,
    Ind, CommitCapture
<1>2. MeetingTypes'
  BY Numbers DEF Types, MeetingTypes, Ind, CommitCapture
<1>3. SubtitleTypes'
  BY Numbers DEF Types, SubtitleTypes, Ind, CommitCapture
<1>4. Flags'
  BY DEF Types, Flags, Ind, CommitCapture
<1>5. Leases'
  BY DEF Types, TypeOK, Leases, Streams, Working, Owned, Accepting, Committed, Ind,
    CommitCapture
<1>6. Chunks'
  <2>1. queue = <<>> /\ AllOf(queue, "meeting") /\ subLease = "none"
    BY EmptyQueue DEF Chunks, Leases, Working, Owned, Committed, Ind, CommitCapture
  <2> QED
    BY <2>1 DEF Chunks, Committed, Working, Ind, CommitCapture
<1>7. Counted'
  BY Numbers DEF Counted, Carried, Leases, Chunks, Working, Owned, Accepting, Committed, Ind,
    CommitCapture
<1>8. Streams'
  BY DEF Streams, Leases, Working, Owned, Accepting, Committed, Ind, CommitCapture
<1>9. Clocks'
  BY Numbers DEF Clocks, Leases, Chunks, Streams, Carried, Working, Owned, Accepting, Committed,
    Ind, CommitCapture
<1>10. Account'
  BY Numbers DEF Account, SubtitlesAccounted, Leases, Chunks, Streams, Working, Owned,
    Accepting, Committed, Ind, CommitCapture
<1>11. Reports'
  BY DEF Types, TypeOK, Reports, Leases, Streams, Working, Owned, Accepting, Committed, Ind,
    CommitCapture
<1> QED
  BY <1>1, <1>2, <1>3, <1>4, <1>5, <1>6, <1>7, <1>8, <1>9, <1>10, <1>11 DEF Ind, Types

LEMMA FinishCaptureStep == ASSUME Ind, FinishCapture, UNCHANGED subtitleVars PROVE Ind'
<1>1. TypeOK'
  BY BoundsAssumption DEF Types, TypeOK, LeaseStates, SubLeaseStates, ProxyStates, Positions,
    Ind, FinishCapture
<1>2. MeetingTypes'
  BY Numbers DEF Types, MeetingTypes, Ind, FinishCapture
<1>3. SubtitleTypes'
  BY Numbers DEF Types, SubtitleTypes, Ind, FinishCapture
<1>4. Flags'
  BY DEF Types, Flags, Ind, FinishCapture
<1>5. Leases'
  BY DEF Types, TypeOK, Leases, Streams, Working, Owned, Accepting, Committed, Ind,
    FinishCapture
<1>6. Chunks'
  BY Numbers DEF Chunks, Leases, Working, Owned, Accepting, Committed, Ind, FinishCapture
<1>7. Counted'
  BY Numbers DEF Counted, Carried, Leases, Chunks, Working, Owned, Accepting, Committed, Ind,
    FinishCapture
<1>8. Streams'
  BY DEF Streams, Leases, Working, Owned, Accepting, Committed, Ind, FinishCapture
<1>9. Clocks'
  BY Numbers DEF Clocks, Leases, Chunks, Streams, Carried, Working, Owned, Accepting, Committed,
    Ind, FinishCapture
<1>10. Account'
  BY Numbers DEF Account, SubtitlesAccounted, Leases, Chunks, Streams, Working, Owned,
    Accepting, Committed, Ind, FinishCapture
<1>11. Reports'
  BY DEF Types, TypeOK, Reports, Leases, Streams, Working, Owned, Accepting, Committed, Ind,
    FinishCapture
<1> QED
  BY <1>1, <1>2, <1>3, <1>4, <1>5, <1>6, <1>7, <1>8, <1>9, <1>10, <1>11 DEF Ind, Types

LEMMA PushMeetingStep == ASSUME Ind, PushMeeting, UNCHANGED subtitleVars PROVE Ind'
<1>1. /\ queue' \in Seq(Sessions)
      /\ AllOf(queue, "meeting") => AllOf(queue', "meeting")
      /\ \/ queue' = queue /\ Len(queue') = Len(queue) /\ unfinished' = unfinished
         \/ /\ stream # 0 /\ Len(queue) < QueueSize
            /\ Len(queue') = Len(queue) + 1 /\ unfinished' = unfinished + 1
  <2>0. queue \in Seq(Sessions) /\ Len(queue) \in Nat /\ QueueSize \in Nat /\ Len(queue) <= QueueSize
    BY QueueType, Numbers
  <2>1. CASE stream = 0 \/ Full
    BY <2>0, <2>1 DEF Ind, PushMeeting, Enqueue, Full
  <2>2. CASE ~(stream = 0 \/ Full)
    <3>1. queue' = Append(queue, "meeting") /\ unfinished' = unfinished + 1
      BY <2>2 DEF Ind, PushMeeting, Enqueue, Full
    <3>2. Len(queue) < QueueSize /\ stream # 0
      BY <2>0, <2>2 DEF Full
    <3>3. /\ queue' \in Seq(Sessions) /\ Len(queue') = Len(queue) + 1
          /\ AllOf(queue, "meeting") => AllOf(queue', "meeting")
      BY <2>0, <3>1, Appended DEF Sessions
    <3> QED
      BY <3>1, <3>2, <3>3
  <2> QED
    BY <2>1, <2>2
<1>2. TypeOK'
  BY <1>1, BoundsAssumption DEF Types, TypeOK, LeaseStates, SubLeaseStates, ProxyStates,
    Positions, Ind, PushMeeting, Enqueue, Full
<1>3. MeetingTypes'
  BY <1>1, Numbers DEF Types, MeetingTypes, Ind, PushMeeting, Enqueue, Full
<1>4. SubtitleTypes'
  BY <1>1, Numbers DEF Types, SubtitleTypes, Ind, PushMeeting, Enqueue, Full
<1>5. Flags'
  BY <1>1 DEF Types, Flags, Ind, PushMeeting, Enqueue, Full
<1>6. Leases'
  BY <1>1 DEF Types, TypeOK, Leases, Streams, Working, Owned, Accepting, Committed, Ind,
    PushMeeting, Enqueue, Full
<1>7. Chunks'
  BY <1>1, Numbers DEF Chunks, Leases, Working, Owned, Accepting, Committed, Ind, PushMeeting,
    Enqueue, Full
<1>8. Counted'
  <2>0. /\ Len(queue) \in Nat /\ subInHand \in {0, 1} /\ Carried \in {0, 1}
        /\ unfinished = Len(queue) + subInHand + Carried
    BY Numbers
  <2>1. Carried' = Carried /\ subInHand' = subInHand
    BY DEF Carried, Ind, PushMeeting
  <2> QED
    BY <2>0, <1>1, <2>1 DEF Counted
<1>9. Streams'
  BY <1>1 DEF Streams, Leases, Working, Owned, Accepting, Committed, Ind, PushMeeting, Enqueue,
    Full
<1>10. Clocks'
  <2>0. /\ Len(queue) \in Nat /\ Len(queue) <= QueueSize /\ QueueSize \in Nat /\ Carried \in {0, 1}
        /\ offset \in Nat /\ audio \in Nat /\ input \in Nat
    BY Numbers
  <2>1. /\ Carried' = Carried /\ offset' = offset /\ audio' = audio /\ input' = input + 1 /\ Working
        /\ lease' = lease /\ events' = events /\ Accepting
        /\ events \in {"backoff", "dialing"} => stream = 0
    BY DEF Carried, Accepting, Working, Streams, Ind, PushMeeting, Enqueue, Full
  <2>2. /\ events \in {"backoff", "dialing"} => audio + Carried + Len(queue) <= QueueSize + 1
        /\ offset + audio + Carried + Len(queue) <= input + QueueSize + 1
    BY <2>1 DEF Clocks, Ind, PushMeeting, Enqueue, Full
  <2>3. Len(queue') = Len(queue) \/ (stream # 0 /\ Len(queue') = Len(queue) + 1)
    BY <1>1 DEF Ind, PushMeeting, Enqueue, Full
  <2>4. /\ offset' + audio' + Carried' + Len(queue') <= input' + QueueSize + 1
        /\ offset' + audio' <= input' + QueueSize + 1
    BY <2>0, <2>1, <2>2, <2>3
  <2>5. events \in {"backoff", "dialing"} => audio' + Carried' + Len(queue') <= QueueSize + 1
    BY <2>0, <2>1, <2>2, <2>3
  <2> QED
    BY <2>1, <2>4, <2>5 DEF Clocks, Accepting, Ind, PushMeeting, Enqueue, Full
<1>11. Account'
  BY <1>1, Numbers DEF Account, SubtitlesAccounted, Leases, Chunks, Streams, Working, Owned,
    Accepting, Committed, Ind, PushMeeting, Enqueue, Full
<1>12. Reports'
  BY <1>1 DEF Types, TypeOK, Reports, Leases, Streams, Working, Owned, Accepting, Committed,
    Ind, PushMeeting, Enqueue, Full
<1> QED
  BY <1>2, <1>3, <1>4, <1>5, <1>6, <1>7, <1>8, <1>9, <1>10, <1>11, <1>12 DEF Ind, Types
-----------------------------------------------------------------------------
(***************************************************************************)
(* The steps of the subtitles.                                             *)
(***************************************************************************)
LEMMA SubtitlesConnectedStep == ASSUME Ind, SubtitlesConnected, UNCHANGED captureVars PROVE Ind'
<1>1. TypeOK'
  BY BoundsAssumption DEF Types, TypeOK, LeaseStates, SubLeaseStates, ProxyStates, Positions,
    Ind, SubtitlesConnected, Current
<1>2. MeetingTypes'
  BY Numbers DEF Types, MeetingTypes, Ind, SubtitlesConnected, Current
<1>3. SubtitleTypes'
  BY Numbers DEF Types, SubtitleTypes, Ind, SubtitlesConnected, Current
<1>4. Flags'
  BY DEF Types, Flags, Ind, SubtitlesConnected, Current
<1>5. Leases'
  BY DEF Types, TypeOK, Leases, Streams, Working, Owned, Accepting, Committed, Ind,
    SubtitlesConnected, Current
<1>6. Chunks'
  BY Numbers DEF Chunks, Leases, Working, Owned, Accepting, Committed, Ind, SubtitlesConnected,
    Current
<1>7. Counted'
  BY Numbers DEF Counted, Carried, Leases, Chunks, Working, Owned, Accepting, Committed, Ind,
    SubtitlesConnected, Current
<1>8. Streams'
  BY DEF Streams, Leases, Working, Owned, Accepting, Committed, Ind, SubtitlesConnected, Current
<1>9. Clocks'
  BY Numbers DEF Clocks, Leases, Chunks, Streams, Carried, Working, Owned, Accepting, Committed,
    Ind, SubtitlesConnected, Current
<1>10. Account'
  BY Numbers DEF Account, SubtitlesAccounted, Leases, Chunks, Streams, Working, Owned,
    Accepting, Committed, Ind, SubtitlesConnected, Current
<1>11. Reports'
  BY DEF Types, TypeOK, Reports, Leases, Streams, Working, Owned, Accepting, Committed, Ind,
    SubtitlesConnected, Current
<1> QED
  BY <1>1, <1>2, <1>3, <1>4, <1>5, <1>6, <1>7, <1>8, <1>9, <1>10, <1>11 DEF Ind, Types

LEMMA SubtitlesPreparedStep == ASSUME Ind, SubtitlesPrepared, UNCHANGED captureVars PROVE Ind'
<1>1. TypeOK'
  BY BoundsAssumption DEF Types, TypeOK, LeaseStates, SubLeaseStates, ProxyStates, Positions,
    Ind, SubtitlesPrepared
<1>2. MeetingTypes'
  BY Numbers DEF Types, MeetingTypes, Ind, SubtitlesPrepared
<1>3. SubtitleTypes'
  BY Numbers DEF Types, SubtitleTypes, Ind, SubtitlesPrepared
<1>4. Flags'
  BY DEF Types, Flags, Ind, SubtitlesPrepared
<1>5. Leases'
  BY DEF Types, TypeOK, Leases, Streams, Working, Owned, Accepting, Committed, Ind,
    SubtitlesPrepared
<1>6. Chunks'
  BY Numbers DEF Chunks, Leases, Working, Owned, Accepting, Committed, Ind, SubtitlesPrepared
<1>7. Counted'
  BY Numbers DEF Counted, Carried, Leases, Chunks, Working, Owned, Accepting, Committed, Ind,
    SubtitlesPrepared
<1>8. Streams'
  BY DEF Streams, Leases, Working, Owned, Accepting, Committed, Ind, SubtitlesPrepared
<1>9. Clocks'
  BY Numbers DEF Clocks, Leases, Chunks, Streams, Carried, Working, Owned, Accepting, Committed,
    Ind, SubtitlesPrepared
<1>10. Account'
  BY Numbers DEF Account, SubtitlesAccounted, Leases, Chunks, Streams, Working, Owned,
    Accepting, Committed, Ind, SubtitlesPrepared
<1>11. Reports'
  BY DEF Types, TypeOK, Reports, Leases, Streams, Working, Owned, Accepting, Committed, Ind,
    SubtitlesPrepared
<1> QED
  BY <1>1, <1>2, <1>3, <1>4, <1>5, <1>6, <1>7, <1>8, <1>9, <1>10, <1>11 DEF Ind, Types

LEMMA SubtitlesReadyStep == ASSUME Ind, SubtitlesReady, UNCHANGED captureVars PROVE Ind'
<1>1. TypeOK'
  BY BoundsAssumption DEF Types, TypeOK, LeaseStates, SubLeaseStates, ProxyStates, Positions,
    Ind, SubtitlesReady, Current
<1>2. MeetingTypes'
  BY Numbers DEF Types, MeetingTypes, Ind, SubtitlesReady, Current
<1>3. SubtitleTypes'
  BY Numbers DEF Types, SubtitleTypes, Ind, SubtitlesReady, Current
<1>4. Flags'
  BY DEF Types, Flags, Ind, SubtitlesReady, Current
<1>5. Leases'
  BY DEF Types, TypeOK, Leases, Streams, Working, Owned, Accepting, Committed, Ind,
    SubtitlesReady, Current
<1>6. Chunks'
  BY Numbers DEF Chunks, Leases, Working, Owned, Accepting, Committed, Ind, SubtitlesReady,
    Current
<1>7. Counted'
  BY Numbers DEF Counted, Carried, Leases, Chunks, Working, Owned, Accepting, Committed, Ind,
    SubtitlesReady, Current
<1>8. Streams'
  BY DEF Streams, Leases, Working, Owned, Accepting, Committed, Ind, SubtitlesReady, Current
<1>9. Clocks'
  BY Numbers DEF Clocks, Leases, Chunks, Streams, Carried, Working, Owned, Accepting, Committed,
    Ind, SubtitlesReady, Current
<1>10. Account'
  BY Numbers DEF Account, SubtitlesAccounted, Leases, Chunks, Streams, Working, Owned,
    Accepting, Committed, Ind, SubtitlesReady, Current
<1>11. Reports'
  BY DEF Types, TypeOK, Reports, Leases, Streams, Working, Owned, Accepting, Committed, Ind,
    SubtitlesReady, Current
<1> QED
  BY <1>1, <1>2, <1>3, <1>4, <1>5, <1>6, <1>7, <1>8, <1>9, <1>10, <1>11 DEF Ind, Types

LEMMA TakeChunkStep == ASSUME Ind, TakeChunk, UNCHANGED captureVars PROVE Ind'
<1>1. /\ queue' \in Seq(Sessions) /\ Len(queue') = Len(queue) - 1 /\ Len(queue) \in Nat \ {0}
      /\ \A c : AllOf(queue, c) => AllOf(queue', c) /\ Head(queue) = c
  BY QueueType, Taken DEF Ind, TakeChunk, Current
<1>2. TypeOK'
  BY <1>1, BoundsAssumption DEF Types, TypeOK, LeaseStates, SubLeaseStates, ProxyStates,
    Positions, Ind, TakeChunk, Current
<1>3. MeetingTypes'
  BY <1>1, Numbers DEF Types, MeetingTypes, Ind, TakeChunk, Current
<1>4. SubtitleTypes'
  BY <1>1, Numbers DEF Types, SubtitleTypes, Ind, TakeChunk, Current
<1>5. Flags'
  BY <1>1 DEF Types, Flags, Ind, TakeChunk, Current
<1>6. Leases'
  BY <1>1 DEF Types, TypeOK, Leases, Streams, Working, Owned, Accepting, Committed, Ind,
    TakeChunk, Current
<1>7. Chunks'
  BY <1>1, Numbers DEF Chunks, Leases, Working, Owned, Accepting, Committed, Ind, TakeChunk,
    Current
<1>8. Counted'
  <2>0. /\ Len(queue) \in Nat /\ subInHand \in Nat /\ Carried \in Nat /\ subGap \in Nat
        /\ unfinished = Len(queue) + subInHand + Carried
    BY Numbers
  <2>1. Carried' = Carried /\ unfinished' = unfinished /\ subInHand = 0 /\ subInHand' = 1
    BY DEF Carried, Ind, TakeChunk, Current
  <2> QED
    BY <2>0, <1>1, <2>1 DEF Counted
<1>9. Streams'
  BY <1>1 DEF Streams, Leases, Working, Owned, Accepting, Committed, Ind, TakeChunk, Current
<1>10. Clocks'
  BY <1>1, Numbers DEF Clocks, Leases, Chunks, Streams, Carried, Working, Owned, Accepting,
    Committed, Ind, TakeChunk, Current
<1>11. Account'
  <2>0. /\ Len(queue) \in Nat /\ subInHand \in Nat /\ subInput \in Nat /\ subGap \in Nat
        /\ heard \in Nat /\ reported \in Nat /\ discarded \in Nat
        /\ subOffset \in Nat /\ subAudio \in Nat
    BY Numbers
  <2>1. /\ subInput = heard + subInHand + Len(queue) + subGap + reported + discarded
        /\ subOffset + subAudio + subInHand + Len(queue) <= subInput
    BY DEF Account, SubtitlesAccounted, Ind, TakeChunk
  <2>2. /\ subLease' = subLease /\ subInHand = 0 /\ subInHand' = 1
        /\ heard' = heard /\ reported' = reported /\ discarded' = discarded
        /\ subGap' = subGap /\ subInput' = subInput
        /\ subOffset' = subOffset /\ subAudio' = subAudio
    BY DEF Ind, TakeChunk
  <2>3. subInHand' + Len(queue') = subInHand + Len(queue) /\ Len(queue') \in Nat
    BY <2>0, <1>1, <2>2
  <2>4. SubtitlesAccounted'
    BY <2>0, <2>1, <2>2, <2>3 DEF SubtitlesAccounted
  <2> QED
    BY <2>2, <2>4 DEF Account, Committed, Ind, TakeChunk
<1>12. Reports'
  BY <1>1 DEF Types, TypeOK, Reports, Leases, Streams, Working, Owned, Accepting, Committed,
    Ind, TakeChunk, Current
<1> QED
  BY <1>2, <1>3, <1>4, <1>5, <1>6, <1>7, <1>8, <1>9, <1>10, <1>11, <1>12 DEF Ind, Types

LEMMA SendChunkStep == ASSUME Ind, SendChunk, UNCHANGED captureVars PROVE Ind'
<1>1. TypeOK'
  BY BoundsAssumption DEF Types, TypeOK, LeaseStates, SubLeaseStates, ProxyStates, Positions,
    Ind, SendChunk, Current
<1>2. MeetingTypes'
  BY Numbers DEF Types, MeetingTypes, Ind, SendChunk, Current
<1>3. SubtitleTypes'
  BY Numbers DEF Types, SubtitleTypes, Ind, SendChunk, Current
<1>4. Flags'
  BY DEF Types, Flags, Ind, SendChunk, Current
<1>5. Leases'
  BY DEF Types, TypeOK, Leases, Streams, Working, Owned, Accepting, Committed, Ind, SendChunk,
    Current
<1>6. Chunks'
  BY Numbers DEF Chunks, Leases, Working, Owned, Accepting, Committed, Ind, SendChunk, Current
<1>7. Counted'
  <2>0. /\ Len(queue) \in Nat /\ subInHand \in Nat /\ Carried \in Nat /\ subGap \in Nat
        /\ unfinished = Len(queue) + subInHand + Carried
    BY Numbers
  <2>1. Carried' = Carried /\ unfinished' = unfinished - 1 /\ subInHand = 1 /\ subInHand' = 0
        /\ Len(queue') = Len(queue)
    BY DEF Carried, Ind, SendChunk, Current
  <2> QED
    BY <2>0, <2>1 DEF Counted
<1>8. Streams'
  BY DEF Streams, Leases, Working, Owned, Accepting, Committed, Ind, SendChunk, Current
<1>9. Clocks'
  BY Numbers DEF Clocks, Leases, Chunks, Streams, Carried, Working, Owned, Accepting, Committed,
    Ind, SendChunk, Current
<1>10. Account'
  <2>0. /\ Len(queue) \in Nat /\ subInHand \in Nat /\ subInput \in Nat /\ subGap \in Nat
        /\ heard \in Nat /\ reported \in Nat /\ discarded \in Nat
        /\ subOffset \in Nat /\ subAudio \in Nat
    BY Numbers
  <2>1. Committed /\ Committed' /\ subLease' = subLease
    BY Numbers DEF Chunks, Committed, Ind, SendChunk, Current
  <2>2. /\ subInput = heard + subInHand + Len(queue) + subGap + reported + discarded
        /\ subOffset + subAudio + subInHand + Len(queue) <= subInput
    BY <2>1 DEF Account, SubtitlesAccounted, Ind, SendChunk, Current
  <2>3. /\ subInHand = 1 /\ subInHand' = 0 /\ subAudio' = subAudio + 1 /\ heard' = heard + 1
        /\ Len(queue') = Len(queue) /\ subGap' = subGap /\ reported' = reported
        /\ discarded' = discarded /\ subOffset' = subOffset /\ subInput' = subInput
    BY DEF Ind, SendChunk, Current
  <2>4. /\ subInput' = heard' + subInHand' + Len(queue') + subGap' + reported' + discarded'
        /\ subOffset' + subAudio' + subInHand' + Len(queue') <= subInput'
    BY <2>0, <2>2, <2>3
  <2> QED
    BY <2>1, <2>4 DEF Account, SubtitlesAccounted, Committed, Ind, SendChunk, Current
<1>11. Reports'
  BY DEF Types, TypeOK, Reports, Leases, Streams, Working, Owned, Accepting, Committed, Ind,
    SendChunk, Current
<1> QED
  BY <1>1, <1>2, <1>3, <1>4, <1>5, <1>6, <1>7, <1>8, <1>9, <1>10, <1>11 DEF Ind, Types

LEMMA ServeEndsStep == ASSUME Ind, ServeEnds, UNCHANGED captureVars PROVE Ind'
<1>1. queue' = <<>> /\ queue' \in Seq(Sessions) /\ Len(queue') = 0
      /\ AllOf(queue', "meeting") /\ AllOf(queue', "subtitles")
  BY EmptyQueue DEF Ind, ServeEnds, ConnectionEnds, Leaves, Leftover, Drain, Current, Retries
<1>2. TypeOK'
  BY <1>1, BoundsAssumption DEF Types, TypeOK, LeaseStates, SubLeaseStates, ProxyStates,
    Positions, Ind, ServeEnds, ConnectionEnds, Leaves, Leftover, Drain, Current, Retries
<1>3. MeetingTypes'
  BY <1>1, Numbers DEF Types, MeetingTypes, Ind, ServeEnds, ConnectionEnds, Leaves, Leftover,
    Drain, Current, Retries
<1>4. SubtitleTypes'
  BY <1>1, Numbers DEF Types, SubtitleTypes, Ind, ServeEnds, ConnectionEnds, Leaves, Leftover,
    Drain, Current, Retries
<1>5. Flags'
  BY <1>1 DEF Types, Flags, Ind, ServeEnds, ConnectionEnds, Leaves, Leftover, Drain, Current,
    Retries
<1>6. Leases'
  BY <1>1 DEF Types, TypeOK, Leases, Streams, Working, Owned, Accepting, Committed, Ind,
    ServeEnds, ConnectionEnds, Leaves, Leftover, Drain, Current, Retries
<1>7. Chunks'
  BY <1>1, Numbers DEF Chunks, Leases, Working, Owned, Accepting, Committed, Ind, ServeEnds,
    ConnectionEnds, Leaves, Leftover, Drain, Current, Retries
<1>8. Counted'
  <2>0. /\ Len(queue) \in Nat /\ subInHand \in {0, 1} /\ Carried \in {0, 1}
        /\ unfinished = Len(queue) + subInHand + Carried
    BY Numbers
  <2>1. Carried' = Carried /\ unfinished' = unfinished - Len(queue) - subInHand /\ subInHand' = 0
    BY DEF Carried, Ind, ServeEnds, ConnectionEnds, Leaves, Leftover, Drain, Current, Retries
  <2> QED
    BY <2>0, <1>1, <2>1 DEF Counted
<1>9. Streams'
  BY <1>1 DEF Streams, Leases, Working, Owned, Accepting, Committed, Ind, ServeEnds,
    ConnectionEnds, Leaves, Leftover, Drain, Current, Retries
<1>10. Clocks'
  BY <1>1, Numbers DEF Clocks, Leases, Chunks, Streams, Carried, Working, Owned, Accepting,
    Committed, Ind, ServeEnds, ConnectionEnds, Leaves, Leftover, Drain, Current, Retries
<1>11. Account'
  <2>0. /\ Len(queue) \in Nat /\ subInHand \in Nat /\ subInput \in Nat /\ subGap \in Nat
        /\ heard \in Nat /\ reported \in Nat /\ discarded \in Nat
        /\ subOffset \in Nat /\ subAudio \in Nat
    BY Numbers
  <2>1. CASE Committed
    <3>1. /\ subInput = heard + subInHand + Len(queue) + subGap + reported + discarded
          /\ subOffset + subAudio + subInHand + Len(queue) <= subInput
      BY <2>1 DEF Account, SubtitlesAccounted, Ind, ServeEnds, ConnectionEnds, Leaves, Leftover,
        Drain, Current, Retries
    <3>2. /\ \/ subGap' = subGap + (Len(queue) + subInHand) /\ discarded' = discarded
             \/ subGap' = subGap /\ discarded' = discarded + (Len(queue) + subInHand)
          /\ subInHand' = 0 /\ heard' = heard /\ reported' = reported
          /\ subOffset' = subOffset /\ subAudio' = subAudio /\ subInput' = subInput
      BY DEF Ind, ServeEnds, ConnectionEnds, Leaves, Leftover, Drain, Current, Retries
    <3>3. /\ subInput' = heard' + subInHand' + Len(queue') + subGap' + reported' + discarded'
          /\ subOffset' + subAudio' + subInHand' + Len(queue') <= subInput'
      BY <2>0, <1>1, <3>1, <3>2
    <3> QED
      BY <2>1, <3>3 DEF Account, SubtitlesAccounted, Committed, Ind, ServeEnds, ConnectionEnds,
        Leaves, Leftover, Drain, Current, Retries
  <2>2. CASE ~Committed
    <3>1. Len(queue) + subInHand = 0
      <4>1. subLease # "none"
        BY DEF Leases, Ind, ServeEnds, ConnectionEnds, Leaves, Leftover, Drain, Current, Retries
      <4>2. ~Working /\ queue = <<>> /\ subInHand = 0
        BY <2>2, <4>1 DEF Leases, Chunks, Ind, ServeEnds, ConnectionEnds, Leaves, Leftover,
          Drain, Current, Retries
      <4> QED
        BY <4>2, EmptyQueue
    <3>2. discarded' = 0 /\ subGap' = 0 /\ heard' = 0 /\ reported' = 0
      BY <2>2, <3>1 DEF Account, Ind, ServeEnds, ConnectionEnds, Leaves, Leftover, Drain,
        Current, Retries
    <3> QED
      BY <2>2, <3>2 DEF Account, SubtitlesAccounted, Committed, Ind, ServeEnds, ConnectionEnds,
        Leaves, Leftover, Drain, Current, Retries
  <2> QED
    BY <2>1, <2>2
<1>12. Reports'
  BY <1>1 DEF Types, TypeOK, Reports, Leases, Streams, Working, Owned, Accepting, Committed,
    Ind, ServeEnds, ConnectionEnds, Leaves, Leftover, Drain, Current, Retries
<1> QED
  BY <1>2, <1>3, <1>4, <1>5, <1>6, <1>7, <1>8, <1>9, <1>10, <1>11, <1>12 DEF Ind, Types

LEMMA RedialSubtitlesStep == ASSUME Ind, RedialSubtitles, UNCHANGED captureVars PROVE Ind'
<1>1. TypeOK'
  BY BoundsAssumption DEF Types, TypeOK, LeaseStates, SubLeaseStates, ProxyStates, Positions,
    Ind, RedialSubtitles, Resume, Larger
<1>2. MeetingTypes'
  BY Numbers DEF Types, MeetingTypes, Ind, RedialSubtitles, Resume, Larger
<1>3. SubtitleTypes'
  BY Numbers DEF Types, SubtitleTypes, Ind, RedialSubtitles, Resume, Larger
<1>4. Flags'
  BY DEF Types, Flags, Ind, RedialSubtitles, Resume, Larger
<1>5. Leases'
  BY DEF Types, TypeOK, Leases, Streams, Working, Owned, Accepting, Committed, Ind,
    RedialSubtitles, Resume, Larger
<1>6. Chunks'
  BY Numbers DEF Chunks, Leases, Working, Owned, Accepting, Committed, Ind, RedialSubtitles,
    Resume, Larger
<1>7. Counted'
  BY Numbers DEF Counted, Carried, Leases, Chunks, Working, Owned, Accepting, Committed, Ind,
    RedialSubtitles, Resume, Larger
<1>8. Streams'
  BY DEF Streams, Leases, Working, Owned, Accepting, Committed, Ind, RedialSubtitles, Resume,
    Larger
<1>9. Clocks'
  BY Numbers DEF Clocks, Leases, Chunks, Streams, Carried, Working, Owned, Accepting, Committed,
    Ind, RedialSubtitles, Resume, Larger
<1>10. Account'
  BY Numbers DEF Account, SubtitlesAccounted, Leases, Chunks, Streams, Working, Owned,
    Accepting, Committed, Ind, RedialSubtitles, Resume, Larger
<1>11. Reports'
  BY DEF Types, TypeOK, Reports, Leases, Streams, Working, Owned, Accepting, Committed, Ind,
    RedialSubtitles, Resume, Larger
<1> QED
  BY <1>1, <1>2, <1>3, <1>4, <1>5, <1>6, <1>7, <1>8, <1>9, <1>10, <1>11 DEF Ind, Types

LEMMA SubtitlesRedialedStep == ASSUME Ind, SubtitlesRedialed, UNCHANGED captureVars PROVE Ind'
<1>1. TypeOK'
  BY BoundsAssumption DEF Types, TypeOK, LeaseStates, SubLeaseStates, ProxyStates, Positions,
    Ind, SubtitlesRedialed, Current
<1>2. MeetingTypes'
  BY Numbers DEF Types, MeetingTypes, Ind, SubtitlesRedialed, Current
<1>3. SubtitleTypes'
  BY Numbers DEF Types, SubtitleTypes, Ind, SubtitlesRedialed, Current
<1>4. Flags'
  BY DEF Types, Flags, Ind, SubtitlesRedialed, Current
<1>5. Leases'
  BY DEF Types, TypeOK, Leases, Streams, Working, Owned, Accepting, Committed, Ind,
    SubtitlesRedialed, Current
<1>6. Chunks'
  BY Numbers DEF Chunks, Leases, Working, Owned, Accepting, Committed, Ind, SubtitlesRedialed,
    Current
<1>7. Counted'
  BY Numbers DEF Counted, Carried, Leases, Chunks, Working, Owned, Accepting, Committed, Ind,
    SubtitlesRedialed, Current
<1>8. Streams'
  BY DEF Streams, Leases, Working, Owned, Accepting, Committed, Ind, SubtitlesRedialed, Current
<1>9. Clocks'
  BY Numbers DEF Clocks, Leases, Chunks, Streams, Carried, Working, Owned, Accepting, Committed,
    Ind, SubtitlesRedialed, Current
<1>10. Account'
  BY Numbers DEF Account, SubtitlesAccounted, Leases, Chunks, Streams, Working, Owned,
    Accepting, Committed, Ind, SubtitlesRedialed, Current
<1>11. Reports'
  BY DEF Types, TypeOK, Reports, Leases, Streams, Working, Owned, Accepting, Committed, Ind,
    SubtitlesRedialed, Current
<1> QED
  BY <1>1, <1>2, <1>3, <1>4, <1>5, <1>6, <1>7, <1>8, <1>9, <1>10, <1>11 DEF Ind, Types

LEMMA SubtitlesBreakStep == ASSUME Ind, SubtitlesBreak, UNCHANGED captureVars PROVE Ind'
<1>1. TypeOK'
  BY BoundsAssumption DEF Types, TypeOK, LeaseStates, SubLeaseStates, ProxyStates, Positions,
    Ind, SubtitlesBreak, Spend
<1>2. MeetingTypes'
  BY Numbers DEF Types, MeetingTypes, Ind, SubtitlesBreak, Spend
<1>3. SubtitleTypes'
  BY Numbers DEF Types, SubtitleTypes, Ind, SubtitlesBreak, Spend
<1>4. Flags'
  BY DEF Types, Flags, Ind, SubtitlesBreak, Spend
<1>5. Leases'
  BY DEF Types, TypeOK, Leases, Streams, Working, Owned, Accepting, Committed, Ind,
    SubtitlesBreak, Spend
<1>6. Chunks'
  BY Numbers DEF Chunks, Leases, Working, Owned, Accepting, Committed, Ind, SubtitlesBreak,
    Spend
<1>7. Counted'
  BY Numbers DEF Counted, Carried, Leases, Chunks, Working, Owned, Accepting, Committed, Ind,
    SubtitlesBreak, Spend
<1>8. Streams'
  BY DEF Streams, Leases, Working, Owned, Accepting, Committed, Ind, SubtitlesBreak, Spend
<1>9. Clocks'
  BY Numbers DEF Clocks, Leases, Chunks, Streams, Carried, Working, Owned, Accepting, Committed,
    Ind, SubtitlesBreak, Spend
<1>10. Account'
  BY Numbers DEF Account, SubtitlesAccounted, Leases, Chunks, Streams, Working, Owned,
    Accepting, Committed, Ind, SubtitlesBreak, Spend
<1>11. Reports'
  BY DEF Types, TypeOK, Reports, Leases, Streams, Working, Owned, Accepting, Committed, Ind,
    SubtitlesBreak, Spend
<1> QED
  BY <1>1, <1>2, <1>3, <1>4, <1>5, <1>6, <1>7, <1>8, <1>9, <1>10, <1>11 DEF Ind, Types

LEMMA SubtitlesRedialFailsStep == ASSUME Ind, SubtitlesRedialFails, UNCHANGED captureVars PROVE Ind'
<1>1. queue' = <<>> /\ queue' \in Seq(Sessions) /\ Len(queue') = 0
      /\ AllOf(queue', "meeting") /\ AllOf(queue', "subtitles")
  BY EmptyQueue DEF Ind, SubtitlesRedialFails, ConnectionEnds, Leaves, Leftover, Drain, Current,
    Retries, Spend
<1>2. TypeOK'
  BY <1>1, BoundsAssumption DEF Types, TypeOK, LeaseStates, SubLeaseStates, ProxyStates,
    Positions, Ind, SubtitlesRedialFails, ConnectionEnds, Leaves, Leftover, Drain, Current,
    Retries, Spend
<1>3. MeetingTypes'
  BY <1>1, Numbers DEF Types, MeetingTypes, Ind, SubtitlesRedialFails, ConnectionEnds, Leaves,
    Leftover, Drain, Current, Retries, Spend
<1>4. SubtitleTypes'
  BY <1>1, Numbers DEF Types, SubtitleTypes, Ind, SubtitlesRedialFails, ConnectionEnds, Leaves,
    Leftover, Drain, Current, Retries, Spend
<1>5. Flags'
  BY <1>1 DEF Types, Flags, Ind, SubtitlesRedialFails, ConnectionEnds, Leaves, Leftover, Drain,
    Current, Retries, Spend
<1>6. Leases'
  BY <1>1 DEF Types, TypeOK, Leases, Streams, Working, Owned, Accepting, Committed, Ind,
    SubtitlesRedialFails, ConnectionEnds, Leaves, Leftover, Drain, Current, Retries, Spend
<1>7. Chunks'
  BY <1>1, Numbers DEF Chunks, Leases, Working, Owned, Accepting, Committed, Ind,
    SubtitlesRedialFails, ConnectionEnds, Leaves, Leftover, Drain, Current, Retries, Spend
<1>8. Counted'
  <2>0. /\ Len(queue) \in Nat /\ subInHand \in Nat /\ Carried \in Nat /\ subGap \in Nat
        /\ unfinished = Len(queue) + subInHand + Carried
    BY Numbers
  <2>1. Carried' = Carried /\ unfinished' = unfinished - Len(queue) - subInHand /\ subInHand' = 0
    BY DEF Carried, Ind, SubtitlesRedialFails, ConnectionEnds, Leaves, Leftover, Drain, Current,
      Retries, Spend
  <2> QED
    BY <2>0, <1>1, <2>1 DEF Counted
<1>9. Streams'
  BY <1>1 DEF Streams, Leases, Working, Owned, Accepting, Committed, Ind, SubtitlesRedialFails,
    ConnectionEnds, Leaves, Leftover, Drain, Current, Retries, Spend
<1>10. Clocks'
  BY <1>1, Numbers DEF Clocks, Leases, Chunks, Streams, Carried, Working, Owned, Accepting,
    Committed, Ind, SubtitlesRedialFails, ConnectionEnds, Leaves, Leftover, Drain, Current,
    Retries, Spend
<1>11. Account'
  <2>0. /\ Len(queue) \in Nat /\ subInHand \in Nat /\ subInput \in Nat /\ subGap \in Nat
        /\ heard \in Nat /\ reported \in Nat /\ discarded \in Nat
        /\ subOffset \in Nat /\ subAudio \in Nat
    BY Numbers
  <2>1. Committed /\ queue = <<>> /\ Len(queue) = 0 /\ subInHand = 0
    BY <1>1 DEF Streams, Leases, Ind, SubtitlesRedialFails
  <2>2. /\ subInput = heard + subInHand + Len(queue) + subGap + reported + discarded
        /\ subOffset + subAudio + subInHand + Len(queue) <= subInput
    BY <2>1 DEF Account, SubtitlesAccounted, Ind
  <2>3. /\ \/ subGap' = subGap + (Len(queue) + subInHand) /\ discarded' = discarded
           \/ subGap' = subGap /\ discarded' = discarded + (Len(queue) + subInHand)
        /\ subInHand' = 0 /\ heard' = heard /\ reported' = reported
        /\ subOffset' = subOffset /\ subAudio' = subAudio /\ subInput' = subInput
        /\ subLease' = subLease
    BY DEF SubtitlesRedialFails, ConnectionEnds, Leaves, Leftover, Drain, Retries
  <2>4. SubtitlesAccounted'
    BY <2>0, <1>1, <2>1, <2>2, <2>3 DEF SubtitlesAccounted
  <2> QED
    BY <2>1, <2>3, <2>4 DEF Account, Committed
<1>12. Reports'
  BY <1>1 DEF Types, TypeOK, Reports, Leases, Streams, Working, Owned, Accepting, Committed,
    Ind, SubtitlesRedialFails, ConnectionEnds, Leaves, Leftover, Drain, Current, Retries, Spend
<1> QED
  BY <1>2, <1>3, <1>4, <1>5, <1>6, <1>7, <1>8, <1>9, <1>10, <1>11, <1>12 DEF Ind, Types

LEMMA CommitSubtitlesStep == ASSUME Ind, ~Owned, CommitSubtitles, UNCHANGED captureVars PROVE Ind'
<1>1. TypeOK'
  BY BoundsAssumption DEF Types, TypeOK, LeaseStates, SubLeaseStates, ProxyStates, Positions,
    Ind, CommitSubtitles
<1>2. MeetingTypes'
  BY Numbers DEF Types, MeetingTypes, Ind, CommitSubtitles
<1>3. SubtitleTypes'
  BY Numbers DEF Types, SubtitleTypes, Ind, CommitSubtitles
<1>4. Flags'
  BY DEF Types, Flags, Ind, CommitSubtitles
<1>5. Leases'
  BY DEF Types, TypeOK, Leases, Streams, Working, Owned, Accepting, Committed, Ind,
    CommitSubtitles
<1>6. Chunks'
  <2>1. queue = <<>> /\ AllOf(queue, "subtitles")
    BY EmptyQueue DEF Chunks, Working, Owned, Committed, Ind, CommitSubtitles
  <2> QED
    BY <2>1 DEF Chunks, Committed, Working, Owned, Ind, CommitSubtitles
<1>7. Counted'
  BY Numbers DEF Counted, Carried, Leases, Chunks, Working, Owned, Accepting, Committed, Ind,
    CommitSubtitles
<1>8. Streams'
  BY DEF Streams, Leases, Working, Owned, Accepting, Committed, Ind, CommitSubtitles
<1>9. Clocks'
  BY Numbers DEF Clocks, Leases, Chunks, Streams, Carried, Working, Owned, Accepting, Committed,
    Ind, CommitSubtitles
<1>10. Account'
  BY Numbers DEF Account, SubtitlesAccounted, Leases, Chunks, Streams, Working, Owned,
    Accepting, Committed, Ind, CommitSubtitles
<1>11. Reports'
  BY DEF Types, TypeOK, Reports, Leases, Streams, Working, Owned, Accepting, Committed, Ind,
    CommitSubtitles
<1> QED
  BY <1>1, <1>2, <1>3, <1>4, <1>5, <1>6, <1>7, <1>8, <1>9, <1>10, <1>11 DEF Ind, Types

LEMMA ClearSubtitlesStep == ASSUME Ind, ClearSubtitles, UNCHANGED captureVars PROVE Ind'
<1>1. TypeOK'
  BY BoundsAssumption DEF Types, TypeOK, LeaseStates, SubLeaseStates, ProxyStates, Positions,
    Ind, ClearSubtitles, Spend
<1>2. MeetingTypes'
  BY Numbers DEF Types, MeetingTypes, Ind, ClearSubtitles, Spend
<1>3. SubtitleTypes'
  BY Numbers DEF Types, SubtitleTypes, Ind, ClearSubtitles, Spend
<1>4. Flags'
  BY DEF Types, Flags, Ind, ClearSubtitles, Spend
<1>5. Leases'
  BY DEF Types, TypeOK, Leases, Streams, Working, Owned, Accepting, Committed, Ind,
    ClearSubtitles, Spend
<1>6. Chunks'
  BY Numbers DEF Chunks, Leases, Working, Owned, Accepting, Committed, Ind, ClearSubtitles,
    Spend
<1>7. Counted'
  BY Numbers DEF Counted, Carried, Leases, Chunks, Working, Owned, Accepting, Committed, Ind,
    ClearSubtitles, Spend
<1>8. Streams'
  BY DEF Streams, Leases, Working, Owned, Accepting, Committed, Ind, ClearSubtitles, Spend
<1>9. Clocks'
  BY Numbers DEF Clocks, Leases, Chunks, Streams, Carried, Working, Owned, Accepting, Committed,
    Ind, ClearSubtitles, Spend
<1>10. Account'
  <2>0. /\ Len(queue) \in Nat /\ subInHand \in Nat /\ subInput \in Nat /\ subGap \in Nat
        /\ heard \in Nat /\ reported \in Nat /\ discarded \in Nat
        /\ subOffset \in Nat /\ subAudio \in Nat
    BY Numbers
  <2>1. CASE Committed
    <3>1. /\ subInput = heard + subInHand + Len(queue) + subGap + reported + discarded
          /\ subOffset + subAudio + subInHand + Len(queue) <= subInput
      BY <2>1 DEF Account, SubtitlesAccounted, Ind, ClearSubtitles, Spend
    <3>2. /\ subGap' = 0 /\ discarded' = discarded + subGap /\ Len(queue') = Len(queue)
          /\ subInHand' = subInHand /\ heard' = heard /\ reported' = reported
          /\ subOffset' = subOffset /\ subAudio' = subAudio /\ subInput' = subInput
      BY DEF Ind, ClearSubtitles, Spend
    <3>3. /\ subInput' = heard' + subInHand' + Len(queue') + subGap' + reported' + discarded'
          /\ subOffset' + subAudio' + subInHand' + Len(queue') <= subInput'
      BY <2>0, <3>1, <3>2
    <3> QED
      BY <2>1, <3>3 DEF Account, SubtitlesAccounted, Committed, Ind, ClearSubtitles, Spend
  <2>2. CASE ~Committed
    <3>1. discarded' = 0 /\ subGap' = 0 /\ heard' = 0 /\ reported' = 0
      BY <2>2 DEF Account, Ind, ClearSubtitles, Spend
    <3> QED
      BY <2>2, <3>1 DEF Account, SubtitlesAccounted, Committed, Ind, ClearSubtitles, Spend
  <2> QED
    BY <2>1, <2>2
<1>11. Reports'
  BY DEF Types, TypeOK, Reports, Leases, Streams, Working, Owned, Accepting, Committed, Ind,
    ClearSubtitles, Spend
<1> QED
  BY <1>1, <1>2, <1>3, <1>4, <1>5, <1>6, <1>7, <1>8, <1>9, <1>10, <1>11 DEF Ind, Types

LEMMA PushSubtitlesStep == ASSUME Ind, ~Accepting, PushSubtitles, UNCHANGED captureVars PROVE Ind'
<1>1. /\ queue' \in Seq(Sessions)
      /\ AllOf(queue, "subtitles") => AllOf(queue', "subtitles")
      /\ \/ queue' = queue /\ Len(queue') = Len(queue) /\ unfinished' = unfinished /\ subGap' = subGap + 1
         \/ /\ subStream # 0 /\ subReady
            /\ Len(queue') = Len(queue) /\ unfinished' = unfinished /\ subGap' = subGap + 1
         \/ /\ subStream # 0 /\ subReady /\ Len(queue) < QueueSize
            /\ Len(queue') = Len(queue) + 1 /\ unfinished' = unfinished + 1 /\ subGap' = subGap
  <2>0. queue \in Seq(Sessions) /\ Len(queue) \in Nat /\ QueueSize \in Nat \ {0}
        /\ Len(queue) <= QueueSize
    BY QueueType, Numbers
  <2>1. CASE (subStream = 0 \/ ~subReady) /\ UNCHANGED <<queue, unfinished>> /\ subGap' = subGap + 1
    BY <2>0, <2>1
  <2>2. CASE /\ subStream # 0 /\ subReady /\ Full /\ queue' = Append(Tail(queue), "subtitles")
             /\ subGap' = subGap + 1 /\ UNCHANGED unfinished
    <3> DEFINE q == Tail(queue)
    <3>1. queue # <<>> /\ queue \in Seq(Sessions)
      BY <2>0, <2>2, EmptyQueue DEF Full
    <3>2. /\ q \in Seq(Sessions) /\ Len(q) = Len(queue) - 1 /\ Len(queue) \in Nat
          /\ AllOf(queue, "subtitles") => AllOf(q, "subtitles")
      BY <3>1, Taken DEF Ind, PushSubtitles, Enqueue, Full
    <3> HIDE DEF q
    <3>3. queue' \in Seq(Sessions) /\ Len(queue') = Len(q) + 1
          /\ (AllOf(q, "subtitles") => AllOf(queue', "subtitles"))
      BY <2>2, <3>2, Appended DEF Sessions, q
    <3>4. Len(queue') = Len(queue)
      BY <3>2, <3>3
    <3> QED
      BY <2>2, <3>2, <3>3, <3>4
  <2>3. CASE subStream # 0 /\ subReady /\ ~Full /\ Enqueue("subtitles") /\ UNCHANGED subGap
    <3>1. queue' = Append(queue, "subtitles") /\ unfinished' = unfinished + 1
      BY <2>3 DEF Ind, PushSubtitles, Enqueue, Full
    <3>2. Len(queue) < QueueSize
      BY <2>0, <2>3 DEF Full
    <3>3. /\ queue' \in Seq(Sessions) /\ Len(queue') = Len(queue) + 1
          /\ AllOf(queue, "subtitles") => AllOf(queue', "subtitles")
      BY <2>0, <3>1, Appended DEF Sessions
    <3> QED
      BY <2>3, <3>1, <3>2, <3>3
  <2> QED
    BY <2>1, <2>2, <2>3 DEF Ind, PushSubtitles, Enqueue, Full
<1>2. TypeOK'
  BY <1>1, BoundsAssumption DEF Types, TypeOK, LeaseStates, SubLeaseStates, ProxyStates,
    Positions, Ind, PushSubtitles, Enqueue, Full
<1>3. MeetingTypes'
  BY <1>1, Numbers DEF Types, MeetingTypes, Ind, PushSubtitles, Enqueue, Full
<1>4. SubtitleTypes'
  BY <1>1, Numbers DEF Types, SubtitleTypes, Ind, PushSubtitles, Enqueue, Full
<1>5. Flags'
  BY <1>1 DEF Types, Flags, Ind, PushSubtitles, Enqueue, Full
<1>6. Leases'
  BY <1>1 DEF Types, TypeOK, Leases, Streams, Working, Owned, Accepting, Committed, Ind,
    PushSubtitles, Enqueue, Full
<1>7. Chunks'
  BY <1>1, Numbers DEF Chunks, Leases, Working, Owned, Accepting, Committed, Ind, PushSubtitles,
    Enqueue, Full
<1>8. Counted'
  <2>0. /\ Len(queue) \in Nat /\ subInHand \in Nat /\ Carried \in Nat /\ subGap \in Nat
        /\ unfinished = Len(queue) + subInHand + Carried
    BY Numbers
  <2>1. Carried' = Carried /\ subInHand' = subInHand
    BY DEF Carried, Ind, PushSubtitles, Enqueue, Full
  <2>2. \/ Len(queue') = Len(queue) /\ unfinished' = unfinished
        \/ Len(queue') = Len(queue) + 1 /\ unfinished' = unfinished + 1
    BY <1>1 DEF Ind, PushSubtitles, Enqueue, Full
  <2> QED
    BY <2>0, <2>1, <2>2 DEF Counted
<1>9. Streams'
  BY <1>1 DEF Streams, Leases, Working, Owned, Accepting, Committed, Ind, PushSubtitles,
    Enqueue, Full
<1>10. Clocks'
  BY <1>1, Numbers DEF Clocks, Leases, Chunks, Streams, Carried, Working, Owned, Accepting,
    Committed, Ind, PushSubtitles, Enqueue, Full
<1>11. Account'
  <2>0. /\ Len(queue) \in Nat /\ subInHand \in Nat /\ subInput \in Nat /\ subGap \in Nat
        /\ heard \in Nat /\ reported \in Nat /\ discarded \in Nat
        /\ subOffset \in Nat /\ subAudio \in Nat
    BY Numbers
  <2>1. /\ subInput = heard + subInHand + Len(queue) + subGap + reported + discarded
        /\ subOffset + subAudio + subInHand + Len(queue) <= subInput
    BY DEF Account, SubtitlesAccounted, Ind, PushSubtitles, Enqueue, Full
  <2>2. \/ Len(queue') = Len(queue) /\ subGap' = subGap + 1
        \/ Len(queue') = Len(queue) + 1 /\ subGap' = subGap
    BY <1>1 DEF Ind, PushSubtitles, Enqueue, Full
  <2>3. /\ subInHand' = subInHand /\ heard' = heard /\ reported' = reported
        /\ discarded' = discarded
        /\ subOffset' = subOffset /\ subAudio' = subAudio /\ subInput' = subInput + 1
    BY DEF Ind, PushSubtitles, Enqueue, Full
  <2>4. /\ subInput' = heard' + subInHand' + Len(queue') + subGap' + reported' + discarded'
        /\ subOffset' + subAudio' + subInHand' + Len(queue') <= subInput'
    BY <2>0, <2>1, <2>2, <2>3
  <2> QED
    BY <2>4 DEF Account, SubtitlesAccounted, Committed, Ind, PushSubtitles, Enqueue, Full
<1>12. Reports'
  BY <1>1 DEF Types, TypeOK, Reports, Leases, Streams, Working, Owned, Accepting, Committed,
    Ind, PushSubtitles, Enqueue, Full
<1> QED
  BY <1>2, <1>3, <1>4, <1>5, <1>6, <1>7, <1>8, <1>9, <1>10, <1>11, <1>12 DEF Ind, Types
-----------------------------------------------------------------------------
(***************************************************************************)
(* The steps that open and close a session.                                *)
(***************************************************************************)
LEMMA PrepareStep == ASSUME Ind, Prepare PROVE Ind'
<1>1. TypeOK'
  BY BoundsAssumption DEF Types, TypeOK, LeaseStates, SubLeaseStates, ProxyStates, Positions,
    Ind, Prepare, NewLease, PrepareCapture
<1>2. MeetingTypes'
  BY Numbers DEF Types, MeetingTypes, Ind, Prepare, NewLease, PrepareCapture
<1>3. SubtitleTypes'
  BY Numbers DEF Types, SubtitleTypes, Ind, Prepare, NewLease, PrepareCapture
<1>4. Flags'
  BY DEF Types, Flags, Ind, Prepare, NewLease, PrepareCapture
<1>5. Leases'
  BY DEF Types, TypeOK, Leases, Streams, Working, Owned, Accepting, Committed, Ind, Prepare,
    NewLease, PrepareCapture
<1>6. Chunks'
  BY Numbers DEF Chunks, Leases, Working, Owned, Accepting, Committed, Ind, Prepare, NewLease,
    PrepareCapture
<1>7. Counted'
  BY Numbers DEF Counted, Carried, Leases, Chunks, Working, Owned, Accepting, Committed, Ind,
    Prepare, NewLease, PrepareCapture
<1>8. Streams'
  BY DEF Streams, Leases, Working, Owned, Accepting, Committed, Ind, Prepare, NewLease,
    PrepareCapture
<1>9. Clocks'
  <2>0. QueueSize \in Nat
    BY Numbers
  <2>1. /\ lease' = "connecting" /\ events' = "none"
        /\ offset' = 0 /\ audio' = 0 /\ input' = 0
    BY DEF Leases, Owned, Ind, Prepare, NewLease, PrepareCapture
  <2> QED
    BY <2>0, <2>1 DEF Clocks, Working
<1>10. Account'
  BY Numbers DEF Account, SubtitlesAccounted, Leases, Chunks, Streams, Working, Owned,
    Accepting, Committed, Ind, Prepare, NewLease, PrepareCapture
<1>11. Reports'
  BY DEF Types, TypeOK, Reports, Leases, Streams, Working, Owned, Accepting, Committed, Ind,
    Prepare, NewLease, PrepareCapture
<1> QED
  BY <1>1, <1>2, <1>3, <1>4, <1>5, <1>6, <1>7, <1>8, <1>9, <1>10, <1>11 DEF Ind, Types

LEMMA ClosedStep == ASSUME Ind, Closed PROVE Ind'
<1>1. queue' = <<>> /\ queue' \in Seq(Sessions) /\ Len(queue') = 0
      /\ AllOf(queue', "meeting") /\ AllOf(queue', "subtitles")
  BY EmptyQueue DEF Ind, Closed, CloseCapture, Drain
<1>2. TypeOK'
  BY <1>1, BoundsAssumption DEF Types, TypeOK, LeaseStates, SubLeaseStates, ProxyStates,
    Positions, Ind, Closed, CloseCapture, Drain
<1>3. MeetingTypes'
  BY <1>1, Numbers DEF Types, MeetingTypes, Ind, Closed, CloseCapture, Drain
<1>4. SubtitleTypes'
  BY <1>1, Numbers DEF Types, SubtitleTypes, Ind, Closed, CloseCapture, Drain
<1>5. Flags'
  BY <1>1 DEF Types, Flags, Ind, Closed, CloseCapture, Drain
<1>6. Leases'
  BY <1>1 DEF Types, TypeOK, Leases, Streams, Working, Owned, Accepting, Committed, Ind, Closed,
    CloseCapture, Drain
<1>7. Chunks'
  BY <1>1, Numbers DEF Chunks, Leases, Working, Owned, Accepting, Committed, Ind, Closed,
    CloseCapture, Drain
<1>8. Counted'
  <2>0. /\ Len(queue) \in Nat /\ subInHand \in Nat /\ Carried \in Nat /\ subGap \in Nat
        /\ unfinished = Len(queue) + subInHand + Carried
    BY Numbers
  <2>1. /\ Carried' = 0 /\ unfinished' = unfinished - Len(queue) - Carried
        /\ subInHand' = subInHand
    BY Numbers DEF Carried, Ind, Closed, CloseCapture, Drain
  <2> QED
    BY <2>0, <1>1, <2>1 DEF Counted
<1>9. Streams'
  BY <1>1 DEF Streams, Leases, Working, Owned, Accepting, Committed, Ind, Closed, CloseCapture,
    Drain
<1>10. Clocks'
  BY <1>1, Numbers DEF Clocks, Leases, Chunks, Streams, Carried, Working, Owned, Accepting,
    Committed, Ind, Closed, CloseCapture, Drain
<1>11. Account'
  <2>0. /\ Len(queue) \in Nat /\ subInHand \in Nat /\ subInput \in Nat /\ subGap \in Nat
        /\ heard \in Nat /\ reported \in Nat /\ discarded \in Nat
        /\ subOffset \in Nat /\ subAudio \in Nat
    BY Numbers
  <2>1. CASE Committed
    <3>1. /\ subInput = heard + subInHand + Len(queue) + subGap + reported + discarded
          /\ subOffset + subAudio + subInHand + Len(queue) <= subInput
      BY <2>1 DEF Account, SubtitlesAccounted, Ind, Closed, CloseCapture, Drain
    <3>2. /\ subGap' = subGap /\ discarded' = discarded + Len(queue)
          /\ subInHand' = subInHand /\ heard' = heard /\ reported' = reported
          /\ subOffset' = subOffset /\ subAudio' = subAudio /\ subInput' = subInput
      BY <2>1 DEF Ind, Closed, CloseCapture, Drain
    <3>3. /\ subInput' = heard' + subInHand' + Len(queue') + subGap' + reported' + discarded'
          /\ subOffset' + subAudio' + subInHand' + Len(queue') <= subInput'
      BY <2>0, <1>1, <3>1, <3>2
    <3> QED
      BY <2>1, <3>3 DEF Account, SubtitlesAccounted, Committed, Ind, Closed, CloseCapture, Drain
  <2>2. CASE ~Committed
    BY <2>2 DEF Account, SubtitlesAccounted, Committed, Ind, Closed, CloseCapture, Drain
  <2> QED
    BY <2>1, <2>2
<1>12. Reports'
  BY <1>1 DEF Types, TypeOK, Reports, Leases, Streams, Working, Owned, Accepting, Committed,
    Ind, Closed, CloseCapture, Drain
<1> QED
  BY <1>2, <1>3, <1>4, <1>5, <1>6, <1>7, <1>8, <1>9, <1>10, <1>11, <1>12 DEF Ind, Types

LEMMA PrepareBrowserStep == ASSUME Ind, PrepareBrowser PROVE Ind'
<1>1. queue' = <<>> /\ queue' \in Seq(Sessions) /\ Len(queue') = 0
      /\ AllOf(queue', "meeting") /\ AllOf(queue', "subtitles")
  BY EmptyQueue DEF Ind, PrepareBrowser, NewLease, PrepareSubtitles, Drain
<1>2. TypeOK'
  BY <1>1, BoundsAssumption DEF Types, TypeOK, LeaseStates, SubLeaseStates, ProxyStates,
    Positions, Ind, PrepareBrowser, NewLease, PrepareSubtitles, Drain
<1>3. MeetingTypes'
  BY <1>1, Numbers DEF Types, MeetingTypes, Ind, PrepareBrowser, NewLease, PrepareSubtitles,
    Drain
<1>4. SubtitleTypes'
  BY <1>1, Numbers DEF Types, SubtitleTypes, Ind, PrepareBrowser, NewLease, PrepareSubtitles,
    Drain
<1>5. Flags'
  BY <1>1 DEF Types, Flags, Ind, PrepareBrowser, NewLease, PrepareSubtitles, Drain
<1>6. Leases'
  BY <1>1 DEF Types, TypeOK, Leases, Streams, Working, Owned, Accepting, Committed, Ind,
    PrepareBrowser, NewLease, PrepareSubtitles, Drain
<1>7. Chunks'
  BY <1>1, Numbers DEF Chunks, Leases, Working, Owned, Accepting, Committed, Ind,
    PrepareBrowser, NewLease, PrepareSubtitles, Drain
<1>8. Counted'
  BY <1>1, Numbers DEF Counted, Carried, Leases, Chunks, Working, Owned, Accepting, Committed,
    Ind, PrepareBrowser, NewLease, PrepareSubtitles, Drain
<1>9. Streams'
  BY <1>1 DEF Streams, Leases, Working, Owned, Accepting, Committed, Ind, PrepareBrowser,
    NewLease, PrepareSubtitles, Drain
<1>10. Clocks'
  BY <1>1, Numbers DEF Clocks, Leases, Chunks, Streams, Carried, Working, Owned, Accepting,
    Committed, Ind, PrepareBrowser, NewLease, PrepareSubtitles, Drain
<1>11. Account'
  BY <1>1, Numbers DEF Account, SubtitlesAccounted, Leases, Chunks, Streams, Working, Owned,
    Accepting, Committed, Ind, PrepareBrowser, NewLease, PrepareSubtitles, Drain
<1>12. Reports'
  BY <1>1 DEF Types, TypeOK, Reports, Leases, Streams, Working, Owned, Accepting, Committed,
    Ind, PrepareBrowser, NewLease, PrepareSubtitles, Drain
<1> QED
  BY <1>2, <1>3, <1>4, <1>5, <1>6, <1>7, <1>8, <1>9, <1>10, <1>11, <1>12 DEF Ind, Types

LEMMA BrowserClosedStep == ASSUME Ind, BrowserClosed PROVE Ind'
<1>1. queue' = <<>> /\ queue' \in Seq(Sessions) /\ Len(queue') = 0
      /\ AllOf(queue', "meeting") /\ AllOf(queue', "subtitles")
  BY EmptyQueue DEF Ind, BrowserClosed, CloseStream, Drain
<1>2. TypeOK'
  BY <1>1, BoundsAssumption DEF Types, TypeOK, LeaseStates, SubLeaseStates, ProxyStates,
    Positions, Ind, BrowserClosed, CloseStream, Drain
<1>3. MeetingTypes'
  BY <1>1, Numbers DEF Types, MeetingTypes, Ind, BrowserClosed, CloseStream, Drain
<1>4. SubtitleTypes'
  BY <1>1, Numbers DEF Types, SubtitleTypes, Ind, BrowserClosed, CloseStream, Drain
<1>5. Flags'
  BY <1>1 DEF Types, Flags, Ind, BrowserClosed, CloseStream, Drain
<1>6. Leases'
  BY <1>1 DEF Types, TypeOK, Leases, Streams, Working, Owned, Accepting, Committed, Ind,
    BrowserClosed, CloseStream, Drain
<1>7. Chunks'
  BY <1>1, Numbers DEF Chunks, Leases, Working, Owned, Accepting, Committed, Ind, BrowserClosed,
    CloseStream, Drain
<1>8. Counted'
  <2>0. /\ Len(queue) \in Nat /\ subInHand \in {0, 1} /\ Carried \in {0, 1}
        /\ unfinished = Len(queue) + subInHand + Carried
    BY Numbers
  <2>1. Carried' = Carried /\ unfinished' = unfinished - Len(queue) - subInHand /\ subInHand' = 0
    BY DEF Carried, Ind, BrowserClosed, CloseStream, Drain
  <2> QED
    BY <2>0, <1>1, <2>1 DEF Counted
<1>9. Streams'
  BY <1>1 DEF Streams, Leases, Working, Owned, Accepting, Committed, Ind, BrowserClosed,
    CloseStream, Drain
<1>10. Clocks'
  <2>0. /\ Len(queue) \in Nat /\ Len(queue) <= QueueSize /\ QueueSize \in Nat /\ Carried \in {0, 1}
        /\ offset \in Nat /\ audio \in Nat /\ input \in Nat
    BY Numbers
  <2>1. /\ Carried' = Carried /\ offset' = offset /\ audio' = audio /\ input' = input
        /\ lease' = lease /\ events' = events
    BY DEF Carried, Ind, BrowserClosed, CloseStream, Drain
  <2>2. /\ offset + audio + Carried + Len(queue) <= input + QueueSize + 1 =>
             offset' + audio' + Carried' + Len(queue') <= input' + QueueSize + 1
        /\ audio + Carried + Len(queue) <= QueueSize + 1 =>
             audio' + Carried' + Len(queue') <= QueueSize + 1
    BY <2>0, <1>1, <2>1
  <2> QED
    BY <2>1, <2>2 DEF Clocks, Working, Ind, BrowserClosed, CloseStream, Drain
<1>11. Account'
  BY <1>1, Numbers DEF Account, SubtitlesAccounted, Leases, Chunks, Streams, Working, Owned,
    Accepting, Committed, Ind, BrowserClosed, CloseStream, Drain
<1>12. Reports'
  BY <1>1 DEF Types, TypeOK, Reports, Leases, Streams, Working, Owned, Accepting, Committed,
    Ind, BrowserClosed, CloseStream, Drain
<1> QED
  BY <1>2, <1>3, <1>4, <1>5, <1>6, <1>7, <1>8, <1>9, <1>10, <1>11, <1>12 DEF Ind, Types

LEMMA StopStep == ASSUME Ind, Stop PROVE Ind'
<1>1. queue' = <<>> /\ queue' \in Seq(Sessions) /\ Len(queue') = 0
      /\ AllOf(queue', "meeting") /\ AllOf(queue', "subtitles")
  BY EmptyQueue DEF Ind, Stop, Drain
<1>2. TypeOK'
  <2>1. Len(queue') \in Nat /\ Len(queue') <= QueueSize /\ input \in Positions /\ subInput \in Positions
    BY <1>1, BoundsAssumption DEF Types, TypeOK, Ind
  <2> QED
    BY <1>1, <2>1 DEF TypeOK, LeaseStates, SubLeaseStates, ProxyStates, Positions, Ind, Stop,
      Drain
<1>3. MeetingTypes'
  BY <1>1, Numbers DEF Types, MeetingTypes, Ind, Stop, Drain
<1>4. SubtitleTypes'
  BY <1>1, Numbers DEF Types, SubtitleTypes, Ind, Stop, Drain
<1>5. Flags'
  BY <1>1 DEF Types, Flags, Ind, Stop, Drain
<1>6. Leases'
  BY <1>1 DEF Types, TypeOK, Leases, Streams, Working, Owned, Accepting, Committed, Ind, Stop,
    Drain
<1>7. Chunks'
  BY <1>1, Numbers DEF Chunks, Leases, Working, Owned, Accepting, Committed, Ind, Stop, Drain
<1>8. Counted'
  <2>0. /\ Len(queue) \in Nat /\ subInHand \in {0, 1} /\ Carried \in {0, 1}
        /\ unfinished = Len(queue) + subInHand + Carried
    BY Numbers
  <2>1. /\ Carried' = 0 /\ subInHand' = 0
        /\ unfinished' = unfinished - Len(queue) - (subInHand + Carried)
    BY Numbers DEF Carried, Ind, Stop, Drain
  <2> QED
    BY <2>0, <1>1, <2>1 DEF Counted
<1>9. Streams'
  BY <1>1 DEF Streams, Leases, Working, Owned, Accepting, Committed, Ind, Stop, Drain
<1>10. Clocks'
  BY <1>1, Numbers DEF Clocks, Leases, Chunks, Streams, Carried, Working, Owned, Accepting,
    Committed, Ind, Stop, Drain
<1>11. Account'
  BY <1>1, Numbers DEF Account, SubtitlesAccounted, Leases, Chunks, Streams, Working, Owned,
    Accepting, Committed, Ind, Stop, Drain
<1>12. Reports'
  BY <1>1 DEF Types, TypeOK, Reports, Leases, Streams, Working, Owned, Accepting, Committed,
    Ind, Stop, Drain
<1> QED
  BY <1>2, <1>3, <1>4, <1>5, <1>6, <1>7, <1>8, <1>9, <1>10, <1>11, <1>12 DEF Ind, Types
-----------------------------------------------------------------------------
(***************************************************************************)
(* The invariant.                                                          *)
(***************************************************************************)
LEMMA InitInd == Init => Ind
<1> SUFFICES ASSUME Init PROVE Ind
  OBVIOUS
<1>1. queue = <<>> /\ queue \in Seq(Sessions) /\ Len(queue) = 0
  BY EmptyQueue DEF Init
<1>2. Types
  <2>1. Len(queue) <= QueueSize /\ input \in Positions /\ subInput \in Positions
    BY <1>1, BoundsAssumption DEF Init, CaptureInit, SubtitlesInit, Positions
  <2>2. TypeOK
    BY <1>1, <2>1 DEF Init, CaptureInit, SubtitlesInit, TypeOK, LeaseStates, SubLeaseStates,
      ProxyStates
  <2>3. MeetingTypes /\ SubtitleTypes /\ Flags
    BY DEF Init, CaptureInit, SubtitlesInit, MeetingTypes, SubtitleTypes, Flags
  <2> QED
    BY <2>2, <2>3 DEF Types
<1>3. Leases /\ Chunks /\ Streams /\ Reports
  BY <1>1 DEF Init, CaptureInit, SubtitlesInit, Leases, Chunks, Streams, Reports, Working,
    Owned, Accepting, Committed
<1>4. Counted /\ Clocks /\ Account
  BY <1>1, BoundsAssumption
  DEF Init, CaptureInit, SubtitlesInit, Counted, Carried, Clocks, Account, SubtitlesAccounted,
    Working, Committed
<1> QED
  BY <1>2, <1>3, <1>4 DEF Ind

LEMMA Unchanged == ASSUME Ind, UNCHANGED vars PROVE Ind'
BY DEF vars, Ind, Types, TypeOK, MeetingTypes, SubtitleTypes, Flags, Leases, Chunks, Counted,
  Carried, Streams, Clocks, Account, SubtitlesAccounted, Reports, Working, Owned, Accepting,
  Committed, AllOf, Positions

LEMMA NextInd == Ind /\ [Next]_vars => Ind'
<1> SUFFICES ASSUME Ind, [Next]_vars PROVE Ind'
  OBVIOUS
<1> USE Ind
<1>1. CASE MeetingTasks
  BY <1>1, CaptureConnectedStep, CapturePreparedStep, JoinedStep, FlushedStep, AwaitChunkStep,
    GetChunkStep, UnholdStep, SendMeetingStep, SendFailsStep, GiveUpChunkStep,
    CaptureReadyStep, EventsEndStep, RedialCaptureStep, CaptureRedialedStep
  DEF MeetingTasks
<1>2. CASE SubtitleTasks
  BY <1>2, SubtitlesConnectedStep, SubtitlesPreparedStep, SubtitlesReadyStep, TakeChunkStep,
    SendChunkStep, ServeEndsStep, RedialSubtitlesStep, SubtitlesRedialedStep
  DEF SubtitleTasks
<1>3. CASE Network
  BY <1>3, MeetingBreaksStep, RedialFailsStep, SubtitlesBreakStep, SubtitlesRedialFailsStep
  DEF Network
<1>4. CASE Commands
  <2>1. CASE Prepare \/ PrepareBrowser
    BY <2>1, PrepareStep, PrepareBrowserStep
  <2>2. CASE PrepareFails \/ Abort \/ FinishRefused \/ FinishEnds
    BY <2>2, ClosedStep DEF PrepareFails, Abort, FinishRefused, FinishEnds
  <2>3. CASE Commit \/ Finish
    BY <2>3, CommitCaptureStep, FinishCaptureStep DEF Commit, Finish
  <2>4. CASE PrepareBrowserFails \/ AbortBrowser \/ Deactivate
    BY <2>4, BrowserClosedStep DEF PrepareBrowserFails, AbortBrowser, Deactivate
  <2>5. CASE CommitBrowser
    BY <2>5, CommitSubtitlesStep DEF CommitBrowser
  <2>6. CASE ClearSubtitles /\ UNCHANGED captureVars
    BY <2>6, ClearSubtitlesStep
  <2>7. CASE Stop
    BY <2>7, StopStep
  <2> QED
    BY <1>4, <2>1, <2>2, <2>3, <2>4, <2>5, <2>6, <2>7 DEF Commands
<1>5. CASE Push
  BY <1>5, PushMeetingStep, PushSubtitlesStep DEF Push
<1>6. CASE UNCHANGED vars
  BY <1>6, Unchanged
<1> QED
  BY <1>1, <1>2, <1>3, <1>4, <1>5, <1>6 DEF Next

LEMMA IndInvariant == Spec => []Ind
BY InitInd, NextInd, PTL DEF Spec
-----------------------------------------------------------------------------
(***************************************************************************)
(* The properties.                                                         *)
(***************************************************************************)
\* A chunk is sent only to the stream of the session it was pushed to, although both
\* sessions take from and drain one queue, and join() waits for exactly the chunks that
\* are queued or in the hands of a send task.
THEOREM ChunksStayApart == Spec => []OwnChunksOnly
<1>1. Ind => OwnChunksOnly
  <2> SUFFICES ASSUME Ind PROVE OwnChunksOnly
    OBVIOUS
  <2>1. TypeOK /\ queue \in Seq(Sessions) /\ Len(queue) \in Nat
    BY QueueType DEF Ind, Types
  <2>2. DOMAIN queue = 1 .. Len(queue)
    BY <2>1
  <2>3. sender = "sending" => inHand = "meeting"
    BY DEF Ind, Chunks
  <2>4. /\ Accepting => AllOf(queue, "meeting")
        /\ Committed /\ ~Accepting => AllOf(queue, "subtitles")
    BY DEF Ind, Chunks, Working, Accepting
  <2>5. unfinished = Len(queue) + subInHand + (IF inHand = NoChunk THEN 0 ELSE 1)
    <3>1. Held = IF inHand = NoChunk THEN 0 ELSE 1
      BY DEF Held
    <3> QED
      BY <3>1, Numbers
  <2> QED
    BY <2>1, <2>2, <2>3, <2>4, <2>5 DEF OwnChunksOnly, AllOf
<1> QED
  BY <1>1, IndInvariant, PTL

\* Every chunk pushed to running subtitles is accounted for, and a stream never puts its
\* next chunk later than the input it was given.
THEOREM SubtitlesAddUp == Spec => []SubtitlesAccounted
<1>1. Ind => SubtitlesAccounted
  BY DEF Ind, Account
<1> QED
  BY <1>1, IndInvariant, PTL

\* However often it reconnects, the clock of a meeting runs ahead of its input by at most a
\* queue and the chunk of the send task.
THEOREM ClockStaysNear == Spec => []ClockNearInput
<1>1. Ind => ClockNearInput
  BY DEF Ind, Clocks, ClockNearInput
<1> QED
  BY <1>1, IndInvariant, PTL

\* A session that hears its input is diagnosed as ready, whichever session reported last.
THEOREM HealthIsSeen == Spec => []HealthyIsReported
<1>1. Ind => HealthyIsReported
  <2> SUFFICES ASSUME Ind PROVE HealthyIsReported
    OBVIOUS
  <2>1. ASSUME Accepting, stream # 0, ready PROVE Workload("meeting") = "ready"
    BY <2>1 DEF Ind, Reports, Workload, DiagnosedReady, Accepting
  <2>2. ASSUME Committed, ~Owned, subStream # 0, subReady
        PROVE  Workload("subtitles") = "ready"
    <3>1. serving # 0 /\ supervisor = "serving"
      BY <2>2 DEF Ind, Types, TypeOK, Leases, Streams, Committed
    <3>2. proxyState = "connected"
      BY <2>2, <3>1 DEF Ind, Reports
    <3> QED
      BY <2>2, <3>2 DEF Workload, DiagnosedReady, Committed
  <2> QED
    BY <2>1, <2>2 DEF HealthyIsReported
<1> QED
  BY <1>1, IndInvariant, PTL
=============================================================================
