---------------------------- MODULE InnerOSProofs ----------------------------
(***************************************************************************)
(* What holds of the private queries for any connections, any save         *)
(* requests, any number of queries and any size of the cache:              *)
(* FinalizingStopsAnswers, because a query that works was registered when  *)
(* the meeting began to be cancelled; and KeptUntilSaved, because a query  *)
(* that has an answer to announce has it in the cache until somebody took  *)
(* it to save it.                                                          *)
(***************************************************************************)
EXTENDS InnerOS, SequenceTheorems, FiniteSetTheorems, TLAPS

Busy == {"document", "starting", "waiting", "model", "repair", "storing"}
After == {"completing", "failing", "cancelling", "over"}
Places == {"unasked", "accepting", "new"} \cup Busy \cup After
Told == {"accepted", "completed", "failed", "cancelled"}

ProcessTypes ==
  /\ active \in [Connections -> Queries \cup {None}]
  /\ loop \in [Connections -> {"idle", "accepting", "cancelling", "closing"}]
  /\ pc \in [Queries -> Places]
  /\ owner \in [Queries -> Connections \cup {None}]
  /\ flagged \in [Queries -> BOOLEAN]

\* The queries are numbered as they come; only a task is cancelled; the query that a
\* connection is accepting belongs to it and has no task yet.
Numbered == \E n \in 0 .. MaxQueries : Asked = 1 .. n
OnlyTasksFlagged == \A q \in Queries : flagged[q] => q \in Registered
Accepting ==
  \A k \in Connections : loop[k] = "accepting" =>
    active[k] \in Queries /\ pc[active[k]] = "accepting" /\ owner[active[k]] = k
Process == ProcessTypes /\ Numbered /\ OnlyTasksFlagged /\ Accepting

\* The slot is held by a query at the model.
SlotHeld ==
  /\ slot \in Queries \cup {None, Other}
  /\ \A q \in Queries : slot = q => pc[q] \in {"model", "repair"}

\* An answer is stored once, by a query that then has only its end to announce.
Cached ==
  /\ cache \in Seq(Queries) /\ Len(cache) <= CacheSize /\ IsInjective(cache)
  /\ \A q \in Queries : Contains(cache, q) => pc[q] \in After

\* Whatever works when the meeting is being cancelled is waited for.
Ending ==
  /\ meeting \in {"recording", "finalizing", "cancelling", "cancelled"}
  /\ doomed \subseteq Queries
  /\ meeting = "cancelling" => \A q \in Queries : pc[q] \in Busy => q \in doomed
  /\ meeting = "cancelled" => \A q \in Queries : pc[q] \notin Busy

\* An answer that is announced, or about to be, is somewhere.
Kept(q) ==
  \/ Contains(cache, q) \/ q \in saved \/ q \in givenUp
  \/ \E s \in Savers : saver[s].pc = "saving" /\ saver[s].query = q
SaverTypes ==
  /\ saver \in [Savers -> {IdleSaver} \cup [pc : {"checked", "saving"}, query : Queries, meeting : Meetings]]
  /\ saved \subseteq Queries
  /\ told \in [Queries -> SUBSET Told]
AllKept == \A q \in Queries : pc[q] = "completing" \/ "completed" \in told[q] => Kept(q)

Ind == Process /\ SlotHeld /\ Cached /\ Ending /\ SaverTypes /\ AllKept

LEMMA Consequences == Ind => FinalizingStopsAnswers /\ KeptUntilSaved
<1> SUFFICES ASSUME Ind PROVE FinalizingStopsAnswers /\ KeptUntilSaved
  OBVIOUS
<1> USE DEF Ind
<1>1. TypeOK
  BY DEF Process, ProcessTypes, SlotHeld, Cached, SaverTypes, Ending, TypeOK
<1>2. FinalizingStopsAnswers
  BY <1>1 DEF Ending, SlotHeld, Busy, FinalizingStopsAnswers
<1>3. KeptUntilSaved
  BY DEF AllKept, Kept, KeptUntilSaved
<1> QED
  BY <1>2, <1>3

LEMMA InitInd == Init => Ind
<1> SUFFICES ASSUME Init PROVE Ind
  OBVIOUS
<1> USE InnerOSAssumption DEF Init
<1>1. ProcessTypes /\ OnlyTasksFlagged /\ Accepting
  BY DEF ProcessTypes, Places, OnlyTasksFlagged, Accepting
<1>2. Numbered
  <2>1. Asked = {}
    BY DEF Asked
  <2>2. 1 .. 0 = {} /\ 0 \in 0 .. MaxQueries
    OBVIOUS
  <2> QED
    BY <2>1, <2>2 DEF Numbered
<1>3. SlotHeld
  BY DEF SlotHeld
<1>4. Cached
  <2>1. cache = <<>> /\ Len(cache) = 0 /\ DOMAIN cache = {}
    OBVIOUS
  <2> QED
    BY <2>1 DEF Cached, Contains, IsInjective
<1>5. Ending
  BY DEF Ending, Busy
<1>6. SaverTypes /\ AllKept
  BY DEF SaverTypes, AllKept
<1> QED
  BY <1>1, <1>2, <1>3, <1>4, <1>5, <1>6 DEF Ind, Process

-----------------------------------------------------------------------------
(***************************************************************************)
(* The cache.                                                              *)
(***************************************************************************)
LEMMA WithoutIt ==
  ASSUME Cached, NEW q \in Queries, Contains(cache, q)
  PROVE /\ Without(q) \in Seq(Queries) /\ Len(Without(q)) <= CacheSize
        /\ IsInjective(Without(q))
        /\ \A o \in Queries : Contains(Without(q), o) => Contains(cache, o)
        /\ \A o \in Queries : Contains(cache, o) /\ o # q => Contains(Without(q), o)
<1> DEFINE n == Len(cache)
           i == CHOOSE j \in 1 .. Len(cache) : cache[j] = q
           before == SubSeq(cache, 1, i - 1)
           after == SubSeq(cache, i + 1, n)
<1>1. /\ cache \in Seq(Queries) /\ n \in Nat /\ n <= CacheSize /\ DOMAIN cache = 1 .. n
      /\ \A a, b \in 1 .. n : cache[a] = cache[b] => a = b
  BY DEF Cached, IsInjective
<1>2. i \in 1 .. n /\ cache[i] = q
  BY DEF Contains
<1> HIDE DEF i
<1>3. /\ before \in Seq(Queries) /\ Len(before) = i - 1
      /\ \A j \in 1 .. i - 1 : before[j] = cache[j]
  BY <1>1, <1>2
<1>4. /\ after \in Seq(Queries) /\ Len(after) = n - i
      /\ \A j \in 1 .. n - i : after[j] = cache[i + j]
  <2>1. i + 1 \in Int /\ n \in Int /\ \A j \in i + 1 .. n : cache[j] \in Queries
    BY <1>1, <1>2
  <2>2. /\ after \in Seq(Queries)
        /\ Len(after) = IF i + 1 <= n THEN n - (i + 1) + 1 ELSE 0
        /\ \A j \in 1 .. n - (i + 1) + 1 : after[j] = cache[(i + 1) + j - 1]
    BY <2>1, SubSeqProperties
  <2>3. Len(after) = n - i
    <3>1. CASE i < n
      <4>1. i + 1 <= n /\ n - (i + 1) + 1 = n - i
        BY <1>1, <1>2, <3>1
      <4> QED
        BY <2>2, <4>1
    <3>2. CASE i = n
      <4>1. ~(i + 1 <= n) /\ n - i = 0
        BY <1>1, <1>2, <3>2
      <4> QED
        BY <2>2, <4>1
    <3>3. i < n \/ i = n
      <4>1. n \in Int /\ i \in Int /\ i <= n
        BY <1>1, <1>2
      <4> HIDE DEF n
      <4> QED
        BY <4>1
    <3> QED
      BY <3>1, <3>2, <3>3
  <2>4. ASSUME NEW j \in 1 .. n - i PROVE after[j] = cache[i + j]
    <3>1. (i + 1) + j - 1 = i + j /\ j \in 1 .. n - (i + 1) + 1
      BY <1>1, <1>2
    <3> QED
      BY <2>2, <3>1
  <2> QED
    BY <2>2, <2>3, <2>4
<1>5. Without(q) = before \o after
  BY DEF Without, RemoveAt, i
<1> HIDE DEF before, after
<1> DEFINE w == before \o after
<1>6. /\ w \in Seq(Queries) /\ Len(w) = n - 1
      /\ \A j \in 1 .. n - 1 : w[j] = IF j < i THEN cache[j] ELSE cache[j + 1]
  <2>1. /\ w \in Seq(Queries) /\ Len(w) = (i - 1) + (n - i)
        /\ \A j \in 1 .. (i - 1) + (n - i) : w[j] = IF j <= i - 1 THEN before[j] ELSE after[j - (i - 1)]
    BY <1>3, <1>4, ConcatProperties
  <2>2. (i - 1) + (n - i) = n - 1
    BY <1>1, <1>2
  <2>3. ASSUME NEW j \in 1 .. n - 1 PROVE w[j] = IF j < i THEN cache[j] ELSE cache[j + 1]
    <3>1. CASE j < i
      BY <1>1, <1>2, <1>3, <2>1, <2>2, <3>1
    <3>2. CASE j >= i
      <4>1. j - (i - 1) \in 1 .. n - i /\ i + (j - (i - 1)) = j + 1
        BY <1>1, <1>2, <3>2
      <4>2. after[j - (i - 1)] = cache[j + 1]
        BY <1>4, <4>1
      <4>3. w[j] = after[j - (i - 1)]
        BY <1>1, <1>2, <2>1, <2>2, <3>2
      <4> QED
        BY <1>2, <3>2, <4>2, <4>3
    <3>3. j < i \/ j >= i
      BY <1>1, <1>2
    <3> QED
      BY <3>1, <3>2, <3>3
  <2> QED
    BY <2>1, <2>2, <2>3
<1> HIDE DEF w
<1>7. DOMAIN w = 1 .. n - 1
  BY <1>1, <1>2, <1>6
<1>8. IsInjective(w)
  <2> SUFFICES ASSUME NEW a \in 1 .. n - 1, NEW b \in 1 .. n - 1, w[a] = w[b] PROVE a = b
    BY <1>7 DEF IsInjective
  <2> DEFINE up(j) == IF j < i THEN j ELSE j + 1
  <2>1. up(a) \in 1 .. n /\ up(b) \in 1 .. n
    BY <1>1, <1>2
  <2>2. w[a] = cache[up(a)] /\ w[b] = cache[up(b)]
    BY <1>6
  <2>3. up(a) = up(b)
    BY <1>1, <2>1, <2>2
  <2> QED
    BY <1>1, <1>2, <2>3
<1>9. ASSUME NEW o \in Queries, Contains(w, o) PROVE Contains(cache, o)
  <2>1. PICK j \in 1 .. n - 1 : w[j] = o
    BY <1>6, <1>9 DEF Contains
  <2> QED
    BY <1>1, <1>2, <1>6, <2>1 DEF Contains
<1>10. ASSUME NEW o \in Queries, Contains(cache, o), o # q PROVE Contains(w, o)
  <2>1. PICK j \in 1 .. n : cache[j] = o
    BY <1>10 DEF Contains
  <2>2. j # i
    BY <1>2, <1>10, <2>1
  <2>3. CASE j < i
    BY <1>1, <1>2, <1>6, <2>1, <2>3 DEF Contains
  <2>4. CASE j > i
    <3>1. j - 1 \in 1 .. n - 1 /\ ~(j - 1 < i) /\ (j - 1) + 1 = j
      BY <1>1, <1>2, <2>4
    <3>2. w[j - 1] = cache[j]
      BY <1>6, <3>1
    <3> QED
      BY <1>6, <2>1, <3>1, <3>2 DEF Contains
  <2> QED
    BY <1>1, <1>2, <2>2, <2>3, <2>4
<1>11. Without(q) = w /\ Len(w) <= CacheSize
  BY <1>1, <1>2, <1>5, <1>6, InnerOSAssumption DEF w
<1> QED
  BY <1>6, <1>8, <1>9, <1>10, <1>11

LEMMA AppendedAnswer ==
  ASSUME Cached, NEW q \in Queries, ~Contains(cache, q)
  PROVE /\ Append(cache, q) \in Seq(Queries) /\ Len(Append(cache, q)) = Len(cache) + 1
        /\ IsInjective(Append(cache, q)) /\ Contains(Append(cache, q), q)
        /\ \A o \in Queries : Contains(Append(cache, q), o) <=> Contains(cache, o) \/ o = q
<1> DEFINE n == Len(cache)
           t == Append(cache, q)
<1>1. /\ cache \in Seq(Queries) /\ n \in Nat /\ DOMAIN cache = 1 .. n
      /\ \A a, b \in 1 .. n : cache[a] = cache[b] => a = b
      /\ \A a \in 1 .. n : cache[a] # q
  BY DEF Cached, IsInjective, Contains
<1>2. /\ t \in Seq(Queries) /\ Len(t) = n + 1 /\ DOMAIN t = 1 .. n + 1
      /\ \A j \in 1 .. n : t[j] = cache[j]
      /\ t[n + 1] = q
  BY <1>1
<1> HIDE DEF t
<1>3. IsInjective(t)
  <2> SUFFICES ASSUME NEW a \in 1 .. n + 1, NEW b \in 1 .. n + 1, t[a] = t[b] PROVE a = b
    BY <1>2 DEF IsInjective
  <2>1. a = n + 1 \/ a \in 1 .. n
    BY <1>1
  <2>2. b = n + 1 \/ b \in 1 .. n
    BY <1>1
  <2> QED
    BY <1>1, <1>2, <2>1, <2>2
<1>4. n + 1 \in 1 .. n + 1 /\ 1 .. n + 1 = (1 .. n) \cup {n + 1}
  BY <1>1
<1>5. \A o \in Queries : Contains(t, o) <=> Contains(cache, o) \/ o = q
  BY <1>2, <1>4 DEF Contains
<1> QED
  BY <1>2, <1>3, <1>5 DEF t

LEMMA TailOfCache ==
  ASSUME NEW t \in Seq(Queries), t # <<>>, IsInjective(t)
  PROVE /\ Tail(t) \in Seq(Queries) /\ Len(Tail(t)) = Len(t) - 1 /\ IsInjective(Tail(t))
        /\ Head(t) \in Queries
        /\ \A o \in Queries : Contains(Tail(t), o) => Contains(t, o)
        /\ \A o \in Queries : Contains(t, o) => o = Head(t) \/ Contains(Tail(t), o)
<1> DEFINE n == Len(t)
           u == Tail(t)
<1>1. /\ n \in Nat \ {0} /\ DOMAIN t = 1 .. n /\ Head(t) = t[1] /\ Head(t) \in Queries
      /\ u \in Seq(Queries) /\ Len(u) = n - 1 /\ DOMAIN u = 1 .. n - 1
      /\ \A j \in 1 .. n - 1 : u[j] = t[j + 1]
      /\ \A a, b \in 1 .. n : t[a] = t[b] => a = b
  BY DEF IsInjective
<1> HIDE DEF u
<1>2. IsInjective(u)
  <2> SUFFICES ASSUME NEW a \in 1 .. n - 1, NEW b \in 1 .. n - 1, u[a] = u[b] PROVE a = b
    BY <1>1 DEF IsInjective
  <2>1. a + 1 \in 1 .. n /\ b + 1 \in 1 .. n /\ t[a + 1] = t[b + 1]
    BY <1>1
  <2>2. a + 1 = b + 1
    BY <1>1, <2>1
  <2> QED
    BY <2>2
<1>3. ASSUME NEW o \in Queries, Contains(u, o) PROVE Contains(t, o)
  <2>1. PICK j \in 1 .. n - 1 : u[j] = o
    BY <1>1, <1>3 DEF Contains
  <2> QED
    BY <1>1, <2>1 DEF Contains
<1>4. ASSUME NEW o \in Queries, Contains(t, o) PROVE o = Head(t) \/ Contains(u, o)
  <2>1. PICK j \in 1 .. n : t[j] = o
    BY <1>4 DEF Contains
  <2>2. CASE j = 1
    BY <1>1, <2>1, <2>2
  <2>3. CASE j # 1
    <3>1. j - 1 \in 1 .. n - 1 /\ (j - 1) + 1 = j
      BY <1>1, <2>3
    <3>2. u[j - 1] = o
      BY <1>1, <2>1, <3>1
    <3> QED
      BY <1>1, <3>1, <3>2 DEF Contains
  <2> QED
    BY <2>2, <2>3
<1> QED
  BY <1>1, <1>2, <1>3, <1>4 DEF u
-----------------------------------------------------------------------------
(***************************************************************************)
(* The task of a query.                                                    *)
(***************************************************************************)
\* A step of a task leads to another place of the task; the work begins while the meeting
\* is recording; an answer to announce has been stored.
Moves(q, place) ==
  /\ pc[q] \notin {"unasked", "accepting"} /\ place \in Places \ {"unasked", "accepting"}
  /\ pc' = [pc EXCEPT ![q] = place]
  /\ pc[q] \in After => place \in After
  /\ place \in Busy => pc[q] \in Busy \/ meeting = "recording"
  /\ place = "completing" => pc[q] = "storing"
  /\ UNCHANGED <<owner, loop, meeting, doomed>>
  /\ \/ UNCHANGED flagged
     \/ place \in {"cancelling", "over"} /\ flagged' = [flagged EXCEPT ![q] = FALSE]
  /\ ~flagged'[q]
  /\ \/ UNCHANGED active
     \/ active[owner[q]] = q /\ active' = [active EXCEPT ![owner[q]] = None]

LEMMA RunMoves ==
  ASSUME Ind, NEW q \in Queries, Run(q) PROVE \E place \in Places : Moves(q, place)
<1> USE DEF Ind, Process, ProcessTypes, Moves, At, Go, OnlyTask, OnlySlot, session, task, answers,
        ending, saves, Busy, After, Places
<1>1. CASE MeetingRead(q)
  BY <1>1 DEF MeetingRead
<1>2. CASE DocumentRead(q)
  BY <1>2 DEF DocumentRead
<1>3. CASE AnswerStarted(q)
  BY <1>3 DEF AnswerStarted
<1>4. CASE Acquire(q)
  BY <1>4 DEF Acquire
<1>5. CASE AcquireTimeout(q)
  BY <1>5 DEF AcquireTimeout
<1>6. CASE ModelAnswers(q)
  BY <1>6 DEF ModelAnswers
<1>7. CASE StoreCompleted(q)
  BY <1>7 DEF StoreCompleted
<1>8. CASE EmitTerminal(q)
  BY <1>8 DEF EmitTerminal, Terminal, Sent, Raises
<1>9. CASE CancelDelivered(q)
  <2>1. q \in Registered /\ flagged[q]
    BY <1>9 DEF CancelDelivered, OnlyTasksFlagged
  <2>2. Delivered(q) \in {"over", "cancelling"}
    BY DEF Delivered
  <2>3. Moves(q, Delivered(q))
    BY <1>9, <2>1, <2>2 DEF CancelDelivered, Registered
  <2> QED
    BY <2>2, <2>3
<1> QED
  BY <1>1, <1>2, <1>3, <1>4, <1>5, <1>6, <1>7, <1>8, <1>9 DEF Run

LEMMA MovesKeepProcess ==
  ASSUME Process, Ending, NEW q \in Queries, NEW place \in Places, Moves(q, place)
  PROVE Process' /\ Ending'
<1> USE DEF Process
<1>1. ProcessTypes'
  BY DEF ProcessTypes, Moves
<1>2. \A o \in Queries : pc'[o] = IF o = q THEN place ELSE pc[o]
  BY DEF ProcessTypes, Moves
<1>3. Numbered'
  <2>1. Asked' = Asked
    BY <1>2 DEF Moves, Asked
  <2> QED
    BY <2>1 DEF Numbered
<1>4. OnlyTasksFlagged'
  BY <1>2 DEF ProcessTypes, Moves, OnlyTasksFlagged, Registered
<1>5. Accepting'
  <2> SUFFICES ASSUME NEW k \in Connections, loop'[k] = "accepting"
               PROVE active'[k] \in Queries /\ pc'[active'[k]] = "accepting" /\ owner'[active'[k]] = k
    BY DEF Accepting
  <2>1. active[k] \in Queries /\ pc[active[k]] = "accepting" /\ owner[active[k]] = k
    BY DEF Accepting, Moves
  <2>2. active[k] # q
    BY <2>1 DEF Moves
  <2>3. active'[k] = active[k]
    BY <2>2 DEF Moves, ProcessTypes
  <2> QED
    BY <1>2, <2>1, <2>2, <2>3 DEF Moves
<1>6. Ending'
  BY <1>2 DEF Moves, Ending
<1> QED
  BY <1>1, <1>3, <1>4, <1>5, <1>6

LEMMA RunKeepsSlot ==
  ASSUME Process, SlotHeld, NEW q \in Queries, Run(q) PROVE SlotHeld'
<1> USE InnerOSAssumption
        DEF Process, ProcessTypes, SlotHeld, At, Go, OnlyTask, OnlySlot, answers
<1>1. CASE MeetingRead(q)
  BY <1>1 DEF MeetingRead
<1>2. CASE DocumentRead(q)
  BY <1>2 DEF DocumentRead
<1>3. CASE AnswerStarted(q)
  BY <1>3 DEF AnswerStarted
<1>4. CASE Acquire(q)
  BY <1>4 DEF Acquire
<1>5. CASE AcquireTimeout(q)
  BY <1>5 DEF AcquireTimeout
<1>6. CASE ModelAnswers(q)
  BY <1>6 DEF ModelAnswers
<1>7. CASE StoreCompleted(q)
  BY <1>7 DEF StoreCompleted
<1>8. CASE EmitTerminal(q)
  BY <1>8 DEF EmitTerminal, Terminal
<1>9. CASE CancelDelivered(q)
  BY <1>9 DEF CancelDelivered
<1> QED
  BY <1>1, <1>2, <1>3, <1>4, <1>5, <1>6, <1>7, <1>8, <1>9 DEF Run

\* What the cache loses is given up.
LEMMA RunKeepsCache ==
  ASSUME Ind, NEW q \in Queries, Run(q)
  PROVE /\ Cached'
        /\ \A o \in Queries : Contains(cache, o) => Contains(cache', o) \/ o \in givenUp'
        /\ givenUp \subseteq givenUp'
        /\ pc'[q] = "completing" => Contains(cache', q) \/ q \in givenUp'
<1> USE DEF Ind, Process, ProcessTypes
<1>1. PICK place \in Places : Moves(q, place)
  BY RunMoves
<1>2. \A o \in Queries : pc'[o] = IF o = q THEN place ELSE pc[o]
  BY <1>1 DEF Moves
<1>3. CASE UNCHANGED <<cache, givenUp>> /\ place # "completing"
  <2>1. \A o \in Queries : pc[o] \in After => pc'[o] \in After
    BY <1>1, <1>2 DEF Moves
  <2> QED
    BY <1>2, <1>3, <2>1 DEF Cached
<1>4. CASE StoreCompleted(q)
  <2>1. pc[q] = "storing" /\ ~Contains(cache, q)
    BY <1>4 DEF StoreCompleted, At, Cached, After
  <2> DEFINE stored == Append(cache, q)
  <2>2. /\ stored \in Seq(Queries) /\ Len(stored) = Len(cache) + 1
        /\ IsInjective(stored) /\ Contains(stored, q)
        /\ \A o \in Queries : Contains(stored, o) <=> Contains(cache, o) \/ o = q
    BY <2>1, AppendedAnswer
  <2>3. \/ /\ Len(stored) > CacheSize /\ cache' = Tail(stored)
           /\ givenUp' = givenUp \cup {Head(stored)} /\ pc'[q] = "completing"
        \/ Len(stored) <= CacheSize /\ cache' = stored /\ UNCHANGED givenUp /\ pc'[q] = "completing"
        \/ UNCHANGED <<cache, givenUp>> /\ pc'[q] = "failing"
    <3>1. Len(stored) \in Nat
      BY <2>2, LenProperties
    <3> QED
      BY <1>4, <3>1, InnerOSAssumption DEF StoreCompleted, Go
  <2> HIDE DEF stored
  <2>4. \A o \in Queries : (Contains(cache, o) \/ o = q) /\ pc'[q] \in After => pc'[o] \in After
    BY <1>2 DEF Cached
  <2>5. CASE /\ Len(stored) > CacheSize /\ cache' = Tail(stored)
             /\ givenUp' = givenUp \cup {Head(stored)} /\ pc'[q] = "completing"
    <3>1. stored # <<>>
      BY <2>2, EmptySeq DEF Contains
    <3>2. /\ Tail(stored) \in Seq(Queries) /\ Len(Tail(stored)) = Len(stored) - 1
          /\ IsInjective(Tail(stored))
          /\ \A o \in Queries : Contains(Tail(stored), o) => Contains(stored, o)
          /\ \A o \in Queries : Contains(stored, o) => o = Head(stored) \/ Contains(Tail(stored), o)
      BY <2>2, <3>1, TailOfCache
    <3>3. Len(Tail(stored)) <= CacheSize
      BY <2>2, <3>2, InnerOSAssumption, LenProperties DEF Cached
    <3>4. Cached'
      BY <2>2, <2>4, <2>5, <3>2, <3>3 DEF Cached, After
    <3> QED
      BY <2>2, <2>5, <3>2, <3>4
  <2>6. CASE Len(stored) <= CacheSize /\ cache' = stored /\ UNCHANGED givenUp /\ pc'[q] = "completing"
    <3>1. Cached'
      BY <2>2, <2>4, <2>6 DEF Cached, After
    <3> QED
      BY <2>2, <2>6, <3>1
  <2>7. CASE UNCHANGED <<cache, givenUp>> /\ pc'[q] = "failing"
    BY <2>4, <2>7 DEF Cached, After
  <2> QED
    BY <2>3, <2>5, <2>6, <2>7
<1>5. StoreCompleted(q) \/ (UNCHANGED <<cache, givenUp>> /\ place # "completing")
  <2> USE DEF OnlyTask, OnlySlot, answers
  <2>1. CASE MeetingRead(q) \/ DocumentRead(q) \/ AnswerStarted(q)
    BY <1>2, <2>1 DEF MeetingRead, DocumentRead, AnswerStarted, Go
  <2>2. CASE Acquire(q) \/ AcquireTimeout(q) \/ ModelAnswers(q)
    BY <1>2, <2>2 DEF Acquire, AcquireTimeout, ModelAnswers, Go
  <2>3. CASE EmitTerminal(q)
    BY <1>2, <2>3 DEF EmitTerminal, Terminal, Go
  <2>4. CASE CancelDelivered(q)
    BY <1>2, <2>4 DEF CancelDelivered, Delivered
  <2> QED
    BY <2>1, <2>2, <2>3, <2>4 DEF Run
<1> QED
  BY <1>3, <1>4, <1>5

\* The browser is told of an answer only by a query that was about to announce it.
LEMMA RunTells ==
  ASSUME Ind, NEW q \in Queries, Run(q)
  PROVE /\ UNCHANGED saves /\ told' \in [Queries -> SUBSET Told]
        /\ \A o \in Queries :
             "completed" \in told'[o] => "completed" \in told[o] \/ pc[o] = "completing"
<1> USE DEF Ind, SaverTypes, OnlyTask, OnlySlot, Told
<1>1. CASE MeetingRead(q) \/ DocumentRead(q) \/ AnswerStarted(q)
  BY <1>1 DEF MeetingRead, DocumentRead, AnswerStarted
<1>2. CASE Acquire(q) \/ AcquireTimeout(q) \/ ModelAnswers(q) \/ StoreCompleted(q)
  BY <1>2 DEF Acquire, AcquireTimeout, ModelAnswers, StoreCompleted
<1>3. CASE EmitTerminal(q)
  BY <1>3 DEF EmitTerminal, Terminal, At
<1>4. CASE CancelDelivered(q)
  BY <1>4 DEF CancelDelivered
<1> QED
  BY <1>1, <1>2, <1>3, <1>4 DEF Run

LEMMA RunKeeps ==
  ASSUME Ind, NEW q \in Queries, Run(q) PROVE Ind'
<1> USE DEF Ind
<1>1. PICK place \in Places : Moves(q, place)
  BY RunMoves
<1>2. Process' /\ Ending'
  BY <1>1, MovesKeepProcess
<1>3. SlotHeld'
  BY RunKeepsSlot
<1>4. Cached'
  BY RunKeepsCache
<1>5. SaverTypes'
  BY RunTells DEF SaverTypes, saves
<1>6. AllKept'
  <2> SUFFICES ASSUME NEW o \in Queries, pc'[o] = "completing" \/ "completed" \in told'[o]
               PROVE Kept(o)'
    BY DEF AllKept
  <2>1. CASE pc[o] = "completing" \/ "completed" \in told[o]
    <3>1. Kept(o)
      BY <2>1 DEF AllKept
    <3> QED
      BY <3>1, RunKeepsCache, RunTells DEF Kept, saves
  <2>2. CASE ~(pc[o] = "completing" \/ "completed" \in told[o])
    <3>1. pc'[o] = "completing" /\ o = q
      BY <1>1, <2>2, RunTells DEF Moves, Process, ProcessTypes
    <3> QED
      BY <3>1, RunKeepsCache DEF Kept
  <2> QED
    BY <2>1, <2>2
<1> QED
  BY <1>2, <1>3, <1>4, <1>5, <1>6

-----------------------------------------------------------------------------
(***************************************************************************)
(* The connections.                                                        *)
(***************************************************************************)
LEMMA FlagTypes ==
  ASSUME ProcessTypes, OnlyTasksFlagged, NEW qs, Flag(qs), UNCHANGED pc
  PROVE flagged' \in [Queries -> BOOLEAN] /\ OnlyTasksFlagged'
  BY DEF ProcessTypes, OnlyTasksFlagged, Flag, Registered

\* A task is flagged and nothing else of the queries changes.
LEMMA FlaggingKeeps ==
  ASSUME Process, NEW qs, Flag(qs), UNCHANGED <<pc, owner, loop, active>>
  PROVE Process'
  BY FlagTypes DEF Process, ProcessTypes, Numbered, Asked, Accepting

LEMMA CloseKeeps ==
  ASSUME Process, NEW k \in Connections, Close(k) PROVE Process'
<1> USE DEF Process, Close
<1>1. ProcessTypes' /\ OnlyTasksFlagged'
  BY FlagTypes DEF ProcessTypes
<1>2. Numbered'
  BY DEF Numbered, Asked
<1>3. Accepting'
  BY DEF Accepting, ProcessTypes
<1> QED
  BY <1>1, <1>2, <1>3

\* What depends on the places of the queries only.
LEMMA UntouchedQueries ==
  ASSUME Ind, UNCHANGED <<pc, told, answers, ending, saves>>, Process' PROVE Ind'
  BY DEF Ind, answers, ending, saves, SlotHeld, Cached, Ending, SaverTypes, AllKept, Kept

LEMMA FreshQuery ==
  ASSUME Process, Cardinality(Asked) < MaxQueries
  PROVE /\ Cardinality(Asked) + 1 \in Queries /\ pc[Cardinality(Asked) + 1] = "unasked"
        /\ Asked = 1 .. Cardinality(Asked)
<1>1. PICK n \in 0 .. MaxQueries : Asked = 1 .. n
  BY DEF Process, Numbered
<1>2. n \in Nat /\ 1 \in Int
  BY <1>1, InnerOSAssumption
<1>3. Cardinality(1 .. n) = IF 1 > n THEN 0 ELSE n - 1 + 1
  BY <1>2, FS_Interval
<1>4. Cardinality(Asked) = n
  BY <1>1, <1>2, <1>3
<1>5. n + 1 \in Queries /\ n + 1 \notin Asked
  BY <1>1, <1>2, <1>4, InnerOSAssumption DEF Queries
<1> QED
  BY <1>1, <1>4, <1>5 DEF Asked

LEMMA QueryKeeps ==
  ASSUME Ind, NEW k \in Connections, Query(k) PROVE Ind'
<1> USE DEF Ind
<1>1. CASE Close(k)
  BY <1>1, CloseKeeps, UntouchedQueries DEF Query, Close
<1>2. CASE ~Close(k)
  <2> DEFINE q == Cardinality(Asked) + 1
  <2>1. /\ q \in Queries /\ pc[q] = "unasked" /\ Asked = 1 .. Cardinality(Asked)
    BY FreshQuery DEF Query
  <2>2. /\ active[k] = None /\ loop[k] = "idle"
        /\ active' = [active EXCEPT ![k] = q] /\ pc' = [pc EXCEPT ![q] = "accepting"]
        /\ owner' = [owner EXCEPT ![q] = k] /\ loop' = [loop EXCEPT ![k] = "accepting"]
        /\ UNCHANGED <<flagged, told, answers, ending, saves>>
    BY <1>2 DEF Query
  <2>3. Cardinality(Asked) \in Nat /\ Cardinality(Asked) + 1 <= MaxQueries
    <3>1. PICK n \in 0 .. MaxQueries : Asked = 1 .. n
      BY DEF Process, Numbered
    <3>2. n \in Nat /\ IsFiniteSet(1 .. n)
      BY <3>1, FS_Interval, InnerOSAssumption
    <3>3. Cardinality(Asked) \in Nat
      BY <3>1, <3>2, FS_CardinalityType
    <3> QED
      BY <3>3, InnerOSAssumption DEF Query
  <2> HIDE DEF q
  <2>4. \A o \in Queries : pc'[o] = IF o = q THEN "accepting" ELSE pc[o]
    BY <2>1, <2>2 DEF Process, ProcessTypes
  <2>5. ProcessTypes'
    BY <2>1, <2>2 DEF Process, ProcessTypes, Places
  <2>6. Numbered'
    <3>1. Asked' = Asked \cup {q}
      BY <2>1, <2>4 DEF Asked
    <3>2. Asked' = 1 .. Cardinality(Asked) + 1
      BY <2>1, <2>3, <3>1 DEF q
    <3> QED
      BY <2>3, <3>2, InnerOSAssumption DEF Numbered
  <2>7. OnlyTasksFlagged'
    BY <2>1, <2>2, <2>4 DEF Process, OnlyTasksFlagged, Registered
  <2>8. Accepting'
    <3> SUFFICES ASSUME NEW j \in Connections, loop'[j] = "accepting"
                 PROVE active'[j] \in Queries /\ pc'[active'[j]] = "accepting" /\ owner'[active'[j]] = j
      BY DEF Accepting
    <3>1. CASE j = k
      BY <2>1, <2>2, <2>4, <3>1 DEF Process, ProcessTypes
    <3>2. CASE j # k
      <4>1. active'[j] = active[j] /\ loop[j] = "accepting"
        BY <2>2, <3>2 DEF Process, ProcessTypes
      <4>2. active[j] \in Queries /\ pc[active[j]] = "accepting" /\ owner[active[j]] = j /\ active[j] # q
        BY <2>1, <4>1 DEF Process, Accepting
      <4> QED
        BY <2>2, <2>4, <4>1, <4>2 DEF Process, ProcessTypes
    <3> QED
      BY <3>1, <3>2
  <2>9. SlotHeld' /\ Cached' /\ Ending'
    BY <2>1, <2>2, <2>4 DEF answers, ending, SlotHeld, Cached, After, Ending, Busy
  <2>10. SaverTypes' /\ AllKept'
    BY <2>1, <2>2, <2>4 DEF answers, saves, SaverTypes, AllKept, Kept
  <2> QED
    BY <2>5, <2>6, <2>7, <2>8, <2>9, <2>10 DEF Process
<1> QED
  BY <1>1, <1>2

LEMMA StartKeeps ==
  ASSUME Ind, NEW k \in Connections, StartQuery(k) PROVE Ind'
<1> USE DEF Ind
<1> DEFINE q == active[k]
<1>1. q \in Queries /\ pc[q] = "accepting" /\ owner[q] = k
  BY DEF StartQuery, Process, Accepting
<1>2. PICK place \in {"new", "over"} :
        /\ pc' = [pc EXCEPT ![q] = place]
        /\ loop'[k] # "accepting" /\ loop' \in [Connections -> {"idle", "accepting", "cancelling", "closing"}]
        /\ active' \in [Connections -> Queries \cup {None}]
        /\ \A j \in Connections : j # k => loop'[j] = loop[j] /\ active'[j] = active[j]
        /\ told' \in [Queries -> SUBSET Told]
        /\ \A o \in Queries : "completed" \in told'[o] => "completed" \in told[o]
  BY <1>1 DEF StartQuery, Process, ProcessTypes, SaverTypes, Told
<1>3. UNCHANGED <<owner, flagged, answers, ending, saves>>
  BY DEF StartQuery
<1> HIDE DEF q
<1>4. \A o \in Queries : pc'[o] = IF o = q THEN place ELSE pc[o]
  BY <1>1, <1>2 DEF Process, ProcessTypes
<1>5. ProcessTypes'
  BY <1>1, <1>2, <1>3 DEF Process, ProcessTypes, Places, After
<1>6. Numbered'
  <2>1. Asked' = Asked
    BY <1>1, <1>4 DEF Asked
  <2> QED
    BY <2>1 DEF Process, Numbered
<1>7. OnlyTasksFlagged'
  BY <1>1, <1>3, <1>4 DEF Process, OnlyTasksFlagged, Registered
<1>8. Accepting'
  <2> SUFFICES ASSUME NEW j \in Connections, loop'[j] = "accepting"
               PROVE active'[j] \in Queries /\ pc'[active'[j]] = "accepting" /\ owner'[active'[j]] = j
    BY DEF Accepting
  <2>1. active'[j] = active[j] /\ loop[j] = "accepting" /\ j # k
    BY <1>2
  <2>2. active[j] \in Queries /\ pc[active[j]] = "accepting" /\ owner[active[j]] = j
    BY <2>1 DEF Process, Accepting
  <2>3. active[j] # q
    BY <1>1, <2>1, <2>2
  <2> QED
    BY <1>3, <1>4, <2>1, <2>2, <2>3
<1>9. SlotHeld' /\ Cached' /\ Ending'
  BY <1>1, <1>3, <1>4 DEF answers, ending, SlotHeld, Cached, After, Ending, Busy
<1>10. SaverTypes' /\ AllKept'
  BY <1>2, <1>3, <1>4 DEF answers, saves, SaverTypes, AllKept, Kept
<1> QED
  BY <1>5, <1>6, <1>7, <1>8, <1>9, <1>10 DEF Process

LEMMA ConnectionKeeps ==
  ASSUME Ind, NEW k \in Connections,
         \/ Query(k) \/ StartQuery(k) \/ CancelCommand(k) \/ Disconnected(k) \/ CancelReturns(k)
         \/ CancelTimeout(k) \/ BrowserLeaves(k)
  PROVE Ind'
<1>1. CASE CancelCommand(k)
  <2>1. Process'
    <3>1. CASE Close(k)
      BY <3>1, CloseKeeps DEF Ind
    <3>2. CASE ~Close(k)
      <4>1. /\ Flag({active[k]}) /\ loop' = [loop EXCEPT ![k] = "cancelling"]
            /\ UNCHANGED <<active, pc, owner>>
        BY <1>1, <3>2 DEF CancelCommand
      <4> QED
        BY <4>1, FlagTypes DEF Ind, Process, ProcessTypes, Numbered, Asked, Accepting
    <3> QED
      BY <3>1, <3>2
  <2> QED
    BY <1>1, <2>1, UntouchedQueries DEF CancelCommand, Close
<1>2. CASE Disconnected(k)
  BY <1>2, CloseKeeps, UntouchedQueries DEF Disconnected, Close, Ind
<1>3. CASE CancelReturns(k)
  <2>1. Process'
    BY <1>3 DEF CancelReturns, task, Ind, Process, ProcessTypes, Numbered, Asked, OnlyTasksFlagged,
       Registered, Accepting
  <2> QED
    BY <1>3, <2>1, UntouchedQueries DEF CancelReturns, task
<1>4. CASE CancelTimeout(k)
  BY <1>4, FlaggingKeeps, UntouchedQueries DEF CancelTimeout, session, Ind
<1>5. CASE BrowserLeaves(k)
  <2>1. Process'
    BY <1>5 DEF BrowserLeaves, task, Ind, Process, ProcessTypes, Numbered, Asked, OnlyTasksFlagged,
       Registered, Accepting
  <2> QED
    BY <1>5, <2>1, UntouchedQueries DEF BrowserLeaves, task
<1> QED
  BY <1>1, <1>2, <1>3, <1>4, <1>5, QueryKeeps, StartKeeps

-----------------------------------------------------------------------------
(***************************************************************************)
(* The end of the meeting, the other users of the slot and the saves.      *)
(***************************************************************************)
LEMMA UntouchedProcess ==
  ASSUME Process, UNCHANGED <<session, task>> PROVE Process'
  BY DEF session, task, Process, ProcessTypes, Numbered, Asked, OnlyTasksFlagged, Registered, Accepting

LEMMA EndingKeeps ==
  ASSUME Ind, SetFinalizing \/ CancelMeeting \/ CancelMeetingTimeout \/ MeetingCancelled
  PROVE Ind'
<1> USE DEF Ind
<1>1. Process'
  <2>1. CASE SetFinalizing \/ MeetingCancelled
    BY <2>1, UntouchedProcess DEF SetFinalizing, MeetingCancelled
  <2>2. CASE CancelMeeting
    BY <2>2, FlaggingKeeps DEF CancelMeeting, session
  <2>3. CASE CancelMeetingTimeout
    <3>1. PICK q \in doomed \cap Registered : Flag({q})
      BY <2>3 DEF CancelMeetingTimeout
    <3> QED
      BY <2>3, <3>1, FlaggingKeeps DEF CancelMeetingTimeout, session
  <2> QED
    BY <2>1, <2>2, <2>3
<1>2. UNCHANGED <<pc, told, answers, saves>>
  BY DEF SetFinalizing, CancelMeeting, CancelMeetingTimeout, MeetingCancelled, task
<1>3. SlotHeld' /\ Cached' /\ SaverTypes' /\ AllKept'
  BY <1>2 DEF answers, saves, SlotHeld, Cached, SaverTypes, AllKept, Kept
<1>4. Ending'
  <2>1. \A q \in Queries : pc[q] \in Busy => q \in Registered
    BY DEF Registered, Busy
  <2> QED
    BY <1>2, <2>1 DEF SetFinalizing, CancelMeeting, CancelMeetingTimeout, MeetingCancelled, Ending,
       Registered, ending
<1> QED
  BY <1>1, <1>3, <1>4

LEMMA SlotKeeps == ASSUME Ind, OtherWorkload PROVE Ind'
<1>1. Process' /\ UNCHANGED <<pc, told, cache, givenUp, ending, saves>>
  BY UntouchedProcess DEF OtherWorkload, task, Ind
<1>2. SlotHeld'
  BY InnerOSAssumption DEF OtherWorkload, task, Ind, SlotHeld
<1> QED
  BY <1>1, <1>2 DEF Ind, ending, saves, Cached, Ending, SaverTypes, AllKept, Kept

LEMMA SavesKeep ==
  ASSUME Ind,
         \/ \E q \in Queries : Expire(q) \/ DeleteExchange(q)
         \/ \E s \in Savers :
              \/ \E q \in Queries, m \in Meetings : SaveExchange(s, q, m)
              \/ TakeCompleted(s) \/ Saved(s)
  PROVE Ind'
<1> USE DEF Ind
<1>1. Process' /\ SlotHeld' /\ Ending' /\ UNCHANGED <<pc, told>>
  <2>1. UNCHANGED <<session, task, slot, ending>>
    BY DEF Expire, DeleteExchange, SaveExchange, TakeCompleted, Saved, answers
  <2> QED
    BY <2>1, UntouchedProcess DEF task, SlotHeld, ending, Ending
<1>2. ASSUME NEW q \in Queries, Expire(q) PROVE Ind'
  <2>1. /\ Without(q) \in Seq(Queries) /\ Len(Without(q)) <= CacheSize
        /\ IsInjective(Without(q))
        /\ \A o \in Queries : Contains(Without(q), o) => Contains(cache, o)
        /\ \A o \in Queries : Contains(cache, o) /\ o # q => Contains(Without(q), o)
    BY <1>2, WithoutIt DEF Expire
  <2>2. cache' = Without(q) /\ givenUp' = givenUp \cup {q} /\ UNCHANGED saves
    BY <1>2 DEF Expire
  <2>3. Cached'
    BY <1>1, <2>1, <2>2 DEF Cached
  <2>4. SaverTypes'
    BY <1>1, <2>2 DEF saves, SaverTypes
  <2>5. AllKept'
    BY <1>1, <2>1, <2>2 DEF saves, AllKept, Kept
  <2> QED
    BY <1>1, <2>3, <2>4, <2>5
<1>3. ASSUME NEW q \in Queries, DeleteExchange(q) PROVE Ind'
  <2>1. UNCHANGED <<cache, saver>> /\ saved' = saved \ {q} /\ givenUp' = givenUp \cup {q}
    BY <1>3 DEF DeleteExchange
  <2> QED
    BY <1>1, <2>1 DEF Cached, SaverTypes, AllKept, Kept
<1>4. ASSUME NEW s \in Savers, NEW q \in Queries, NEW m \in Meetings, SaveExchange(s, q, m)
      PROVE Ind'
  <2>1. /\ saver[s].pc = "idle" /\ UNCHANGED <<cache, givenUp, saved>>
        /\ saver' = [saver EXCEPT ![s] = [pc |-> "checked", query |-> q, meeting |-> m]]
    BY <1>4 DEF SaveExchange, answers
  <2>2. SaverTypes'
    BY <1>1, <2>1 DEF SaverTypes
  <2>3. \A z \in Savers : saver[z].pc = "saving" => saver'[z] = saver[z]
    BY <2>1 DEF SaverTypes
  <2> QED
    BY <1>1, <2>1, <2>2, <2>3 DEF Cached, AllKept, Kept
<1>5. ASSUME NEW s \in Savers, TakeCompleted(s) PROVE Ind'
  <2> DEFINE q == saver[s].query
  <2>1. q \in Queries /\ saver[s].pc = "checked" /\ UNCHANGED <<givenUp, saved>>
    BY <1>5 DEF TakeCompleted, SaverTypes, IdleSaver
  <2>2. \A z \in Savers : saver[z].pc = "saving" => z # s
    BY <2>1
  <2>3. CASE MayTake(s)
    <3>1. Contains(cache, q) /\ cache' = Without(q)
          /\ saver' = [saver EXCEPT ![s] = [saver[s] EXCEPT !.pc = "saving"]]
      BY <1>5, <2>3 DEF TakeCompleted, MayTake
    <3>2. /\ Without(q) \in Seq(Queries) /\ Len(Without(q)) <= CacheSize
          /\ IsInjective(Without(q))
          /\ \A o \in Queries : Contains(Without(q), o) => Contains(cache, o)
          /\ \A o \in Queries : Contains(cache, o) /\ o # q => Contains(Without(q), o)
      BY <2>1, <3>1, WithoutIt
    <3>3. Cached'
      BY <1>1, <3>1, <3>2 DEF Cached
    <3>4. SaverTypes'
      BY <1>1, <2>1, <3>1 DEF SaverTypes, IdleSaver
    <3>5. saver'[s].pc = "saving" /\ saver'[s].query = q
      BY <2>1, <3>1 DEF SaverTypes, IdleSaver
    <3>6. \A z \in Savers : saver[z].pc = "saving" => saver'[z] = saver[z]
      BY <2>2, <3>1 DEF SaverTypes
    <3>7. AllKept'
      BY <1>1, <2>1, <3>1, <3>2, <3>5, <3>6 DEF AllKept, Kept
    <3> QED
      BY <1>1, <3>3, <3>4, <3>7
  <2>4. CASE ~MayTake(s)
    <3>1. UNCHANGED cache /\ saver' = [saver EXCEPT ![s] = IdleSaver]
      BY <1>5, <2>4 DEF TakeCompleted
    <3>2. \A z \in Savers : saver[z].pc = "saving" => saver'[z] = saver[z]
      BY <2>2, <3>1 DEF SaverTypes
    <3>3. SaverTypes'
      BY <1>1, <2>1, <3>1 DEF SaverTypes
    <3> QED
      BY <1>1, <2>1, <3>1, <3>2, <3>3 DEF Cached, AllKept, Kept
  <2> QED
    BY <2>3, <2>4
<1>6. ASSUME NEW s \in Savers, Saved(s) PROVE Ind'
  <2> DEFINE q == saver[s].query
  <2>1. /\ q \in Queries /\ saver[s].pc = "saving" /\ UNCHANGED cache
        /\ saver' = [saver EXCEPT ![s] = IdleSaver]
        /\ \/ saved' = saved \cup {q} /\ UNCHANGED givenUp
           \/ givenUp' = givenUp \cup {q} /\ UNCHANGED saved
    BY <1>6 DEF Saved, SaverTypes, IdleSaver
  <2>2. SaverTypes'
    BY <1>1, <2>1 DEF SaverTypes
  <2>3. AllKept'
    <3> SUFFICES ASSUME NEW o \in Queries, Kept(o) PROVE Kept(o)'
      BY <1>1 DEF AllKept
    <3>1. CASE Contains(cache, o) \/ o \in saved \/ o \in givenUp
      BY <2>1, <3>1 DEF Kept
    <3>2. ASSUME NEW z \in Savers, saver[z].pc = "saving" /\ saver[z].query = o PROVE Kept(o)'
      <4>1. CASE z = s
        BY <2>1, <3>2, <4>1 DEF Kept
      <4>2. CASE z # s
        BY <2>1, <3>2, <4>2 DEF Kept, SaverTypes
      <4> QED
        BY <4>1, <4>2
    <3> QED
      BY <3>1, <3>2 DEF Kept
  <2> QED
    BY <1>1, <2>1, <2>2, <2>3 DEF Cached
<1> QED
  BY <1>2, <1>3, <1>4, <1>5, <1>6

LEMMA NextKeeps == Ind /\ [Next]_vars => Ind'
<1> SUFFICES ASSUME Ind, [Next]_vars PROVE Ind'
  OBVIOUS
<1>1. CASE UNCHANGED vars
  BY <1>1, UntouchedProcess DEF Ind, vars, session, task, answers, ending, saves, SlotHeld, Cached, Ending,
     SaverTypes, AllKept, Kept
<1>2. CASE Next
  BY <1>2, RunKeeps, ConnectionKeeps, EndingKeeps, SlotKeeps, SavesKeep DEF Next
<1> QED
  BY <1>1, <1>2

\* When the recording is flushed no query of the meeting works or holds the model
\* (publish_meeting_event, InnerOSQueryService._run).
THEOREM NothingAnswersAfterTheEnd == Spec => []FinalizingStopsAnswers
<1>1. Ind => FinalizingStopsAnswers
  BY Consequences
<1> QED
  BY <1>1, InitInd, NextKeeps, PTL DEF Spec

\* An answer that the browser was shown is in the cache, saved, being saved or given up
\* (save_exchange).
THEOREM AnswersAreKept == Spec => []KeptUntilSaved
<1>1. Ind => KeptUntilSaved
  BY Consequences
<1> QED
  BY <1>1, InitInd, NextKeeps, PTL DEF Spec
=============================================================================
