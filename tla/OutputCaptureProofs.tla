------------------------- MODULE OutputCaptureProofs -------------------------
(***************************************************************************)
(* What holds of the capture of an output device for any sizes of the      *)
(* queues and any number of frames, attempts, preparations and faults.     *)
(***************************************************************************)
EXTENDS OutputCapture, SequenceTheorems, FiniteSetTheorems, WellFoundedInduction, NaturalsInduction, TLAPS

\* The cleanup belongs to a committed capture, and so does the pump; the supervisor is
\* stopped by the cleanup or by a call that failed or aborts.
Stages ==
  /\ cleanup \in {"none", "pump", "stop", "reap", "sink", "done", "failed"}
  /\ cleanup \in {"pump", "stop", "reap", "sink"} => op = "committed"
  /\ cleanup \in {"done", "failed"} => op = "none"
  /\ pump => op = "committed" /\ cleanup \in {"none", "pump"}
  /\ reaping # "none" => op \in {"restarting", "unwinding", "aborting"} \/ cleanup = "reap"

\* Without a cancellation no helper is left behind: where the supervisor has none, none runs.
Supervised ==
  /\ cancels \in Nat
  /\ cancels = 0 => /\ orphans = 0
                    /\ op \in {"none", "backoff"} \/ cleanup = "sink" => process = "none"

Messages ==
  {m \in [what : {"ack", "error", "pcm"}, to : Requests \cup {"nobody"}, seq : Nat] :
     ~IsPcm(m) => m.seq = 0}
Ops == {"none", "starting", "hello", "restarting", "backoff", "preparing", "sink", "prepared",
        "committing", "committed", "aborting", "unwinding"}

\* The types of the helper and of the client.
HelperTypes ==
  /\ process \in {"none", "starting", "up", "terminating"}
  /\ socket \in {"none", "open", "left", "cut"}
  /\ phase \in {"stopped", "preparing", "ready", "active", "failed"}
  /\ engine \in BOOLEAN /\ produced \in Nat /\ dropped \in Nat
AnswerTypes ==
  /\ reporting \in SUBSET Messages /\ \A m \in reporting : ~IsPcm(m)
  /\ replying = <<>> \/ \E m \in Messages : ~IsPcm(m) /\ replying = <<m>>
QueueTypes ==
  /\ outbox \in Seq(Messages) /\ Len(outbox) <= QueueSize
  /\ wire \in Seq(Messages)
  /\ frames \in Seq(Nat) /\ Len(frames) <= QueueSize
ClientTypes ==
  /\ conn \in {"none", "open", "failed"} /\ pending \in Requests \cup {"none"}
  /\ answer \in {"none", "ok", "error"}
  /\ state \in {"STOPPED", "PREPARING", "READY", "ACTIVE", "FAILED"}
  /\ op \in Ops /\ taken \in Nat /\ last \in Nat

\* What the helper has sent and the client has not read.
InFlight == ToSet(Stream) \cup ToSet(replying) \cup reporting
Doom(m) == m.what = "error" \/ m.to \in {"stop", "abort"}

\* A helper that is started has nothing of an earlier connection.
Untouched ==
  op = "starting" => /\ socket = "none" /\ phase = "stopped" /\ produced = 0 /\ dropped = 0
                     /\ replying = <<>> /\ reporting = {} /\ outbox = <<>> /\ wire = <<>>
Nothing ==
  op \in {"starting", "hello", "preparing", "sink", "prepared", "committing", "restarting",
          "backoff"} => taken = 0 /\ last = 0
FreshStart == Untouched /\ Nothing /\ (Context => engine)

\* How far a connection is: which requests are on their way, and where the helper may be.
\* Each request is made once, and each but commit after the one before it was answered.
Connected ==
  /\ process \in {"up", "terminating"} /\ conn # "none"
  /\ op \in {"hello", "preparing", "sink", "prepared", "committing", "committed", "aborting"}
  /\ reaping = "none" /\ cleanup \notin {"reap", "sink"}
Greeting ==
  op = "hello" =>
    /\ pending = "hello" /\ phase = "stopped" /\ InFlight \subseteq {Ack("hello")}
    /\ commands = <<>> \/ (commands = <<"hello">> /\ InFlight = {} /\ answer = "none")
Preparing ==
  op = "preparing" =>
    /\ pending = "prepare" /\ phase # "active"
    /\ InFlight \subseteq {Ack("hello"), Ack("prepare"), Refusal("prepare")}
    /\ \/ commands = <<>>
       \/ /\ commands = <<"prepare">> /\ InFlight \subseteq {Ack("hello")}
          /\ phase = "stopped" /\ answer # "ok"
    /\ answer = "ok" \/ Ack("prepare") \in InFlight => phase # "preparing"
Asked == Ack("commit") \in InFlight \/ Refusal("commit") \in InFlight
Later ==
  op \in {"sink", "prepared", "committing", "committed", "aborting"} =>
    /\ phase # "preparing"
    /\ commands \in {<<>>, <<"commit">>, <<"abort">>, <<"stop">>, <<"commit", "abort">>}
    /\ commands \in {<<"commit">>, <<"commit", "abort">>} => phase # "active" /\ ~Asked
    /\ Ack("commit") \notin InFlight \/ Refusal("commit") \notin InFlight
    /\ op = "sink" \/ (op = "prepared" /\ state = "READY") =>
         commands = <<>> /\ phase # "active" /\ ~Asked
    /\ op \in {"prepared", "committing"} => commands \in {<<>>, <<"commit">>}
    /\ op = "committed" => /\ commands \in {<<>>, <<"stop">>}
                           /\ cleanup \in {"none", "pump"} => commands = <<>> /\ pending = "none"
    /\ op = "committing" => pending = "commit" /\ (answer = "ok" => commands = <<>>)
Doomed == (\E m \in InFlight : Doom(m)) => phase \in {"stopped", "failed"}
Protocol == socket = "open" => Connected /\ Greeting /\ Preparing /\ Later /\ Doomed

\* After an error or the end of a capture there are no more frames.
Quiet(s) == \A i, j \in DOMAIN s : i < j /\ Doom(s[i]) => ~IsPcm(s[j])

\* The news that the helper is not active is on its way.
Noticed ==
  \/ phase = "active" /\ engine
  \/ conn = "failed" \/ socket # "open" \/ process # "up"
  \/ \E m \in reporting \cup ToSet(Stream) : m.what = "error"
Agreed ==
  /\ op = "committing" /\ (answer = "ok" \/ Ack("commit") \in InFlight) => Noticed
  /\ op = "committed" /\ cleanup = "none" => Noticed

\* The frames of a capture that goes on: each is counted once, and they keep their order.
Rising(s) ==
  \A i, j \in DOMAIN s : i < j /\ IsPcm(s[i]) /\ IsPcm(s[j]) => s[i].seq < s[j].seq
Ordered ==
  /\ last <= produced
  /\ \A i \in DOMAIN frames : last < frames[i] /\ frames[i] <= produced
  /\ \A i, j \in DOMAIN frames : i < j => frames[i] < frames[j]
  /\ \A m \in ToSet(Stream) : IsPcm(m) =>
       last < m.seq /\ m.seq <= produced /\ \A j \in DOMAIN frames : frames[j] < m.seq
  /\ Rising(Stream)
Counted == produced = taken + Count(Stream) + Len(frames) + dropped
Frames == conn = "open" /\ socket = "open" => Ordered /\ Counted

AllTypes == HelperTypes /\ AnswerTypes /\ QueueTypes /\ ClientTypes
StreamQuiet == Quiet(Stream)
-----------------------------------------------------------------------------
(***************************************************************************)
(* Sequences that lose elements.                                           *)
(***************************************************************************)
\* t is s without some of its elements.
Thinned(t, s) ==
  \E f \in [1 .. Len(t) -> 1 .. Len(s)] :
    /\ \A i, j \in 1 .. Len(t) : i < j => f[i] < f[j]
    /\ \A i \in 1 .. Len(t) : t[i] = s[f[i]]
\* t is s without its element at v.
Without(t, s, v) ==
  /\ v \in 1 .. Len(s) /\ Len(t) = Len(s) - 1
  /\ \A i \in 1 .. Len(t) : t[i] = s[IF i < v THEN i ELSE i + 1]

LEMMA Lengths == ASSUME NEW S, NEW s \in Seq(S) PROVE Len(s) \in Nat /\ DOMAIN s = 1 .. Len(s)
  OBVIOUS

LEMMA TailWithout ==
  ASSUME NEW S, NEW s \in Seq(S), s # <<>>
  PROVE Tail(s) \in Seq(S) /\ Without(Tail(s), s, 1) /\ Head(s) = s[1]
<1>1. /\ Tail(s) \in Seq(S) /\ Len(Tail(s)) = Len(s) - 1
      /\ \A i \in 1 .. Len(Tail(s)) : Tail(s)[i] = s[i + 1]
  BY HeadTailProperties
<1>2. Len(s) \in Nat /\ Len(s) # 0
  OBVIOUS
<1> QED
  BY <1>1, <1>2 DEF Without

LEMMA RemoveWithout ==
  ASSUME NEW S, NEW s \in Seq(S), NEW v \in 1 .. Len(s)
  PROVE RemoveAt(s, v) \in Seq(S) /\ Without(RemoveAt(s, v), s, v)
<1> DEFINE before == SubSeq(s, 1, v - 1)
           after == SubSeq(s, v + 1, Len(s))
<1>1. Len(s) \in Nat /\ v \in Nat /\ 1 <= v /\ v <= Len(s)
  OBVIOUS
<1>2. /\ before \in Seq(S) /\ Len(before) = v - 1
      /\ \A i \in 1 .. v - 1 : before[i] = s[i]
  <2>1. \A i \in 1 .. v - 1 : s[i] \in S
    BY <1>1
  <2>2. /\ before \in Seq(S) /\ Len(before) = IF 1 <= v - 1 THEN (v - 1) - 1 + 1 ELSE 0
        /\ \A i \in 1 .. (v - 1) - 1 + 1 : before[i] = s[1 + i - 1]
    BY <1>1, <2>1, SubSeqProperties
  <2> HIDE DEF before
  <2>3. Len(before) = v - 1 /\ (v - 1) - 1 + 1 = v - 1
    BY <1>1, <2>2
  <2>4. ASSUME NEW i \in 1 .. v - 1 PROVE before[i] = s[i]
    BY <1>1, <2>2, <2>3
  <2> QED
    BY <2>2, <2>3, <2>4
<1>3. /\ after \in Seq(S) /\ Len(after) = Len(s) - v
      /\ \A i \in 1 .. Len(s) - v : after[i] = s[v + i]
  <2>1. \A i \in v + 1 .. Len(s) : s[i] \in S
    BY <1>1
  <2>2. /\ after \in Seq(S)
        /\ Len(after) = IF v + 1 <= Len(s) THEN Len(s) - (v + 1) + 1 ELSE 0
        /\ \A i \in 1 .. Len(s) - (v + 1) + 1 : after[i] = s[(v + 1) + i - 1]
    BY <1>1, <2>1, SubSeqProperties
  <2> HIDE DEF after
  <2>3. Len(after) = Len(s) - v /\ Len(s) - (v + 1) + 1 = Len(s) - v
    BY <1>1, <2>2
  <2>4. ASSUME NEW i \in 1 .. Len(s) - v PROVE after[i] = s[v + i]
    <3>1. (v + 1) + i - 1 = v + i
      BY <1>1
    <3> QED
      BY <2>2, <2>3, <3>1
  <2> QED
    BY <2>2, <2>3, <2>4
<1>4. RemoveAt(s, v) = before \o after
  BY DEF RemoveAt
<1> HIDE DEF before, after
<1>5. /\ before \o after \in Seq(S) /\ Len(before \o after) = Len(before) + Len(after)
      /\ \A i \in 1 .. Len(before) + Len(after) :
           (before \o after)[i] = IF i <= Len(before) THEN before[i] ELSE after[i - Len(before)]
  BY <1>2, <1>3, ConcatProperties
<1>6. Len(RemoveAt(s, v)) = Len(s) - 1
  BY <1>1, <1>2, <1>3, <1>4, <1>5
<1>7. ASSUME NEW i \in 1 .. Len(s) - 1 PROVE RemoveAt(s, v)[i] = s[IF i < v THEN i ELSE i + 1]
  <2>1. i \in 1 .. Len(before) + Len(after)
    BY <1>1, <1>2, <1>3
  <2>2. CASE i < v
    <3>1. i <= Len(before) /\ i \in 1 .. v - 1
      BY <1>1, <1>2, <2>2
    <3> QED
      BY <1>2, <1>4, <1>5, <2>1, <2>2, <3>1
  <2>3. CASE ~(i < v)
    <3>1. ~(i <= Len(before)) /\ i - Len(before) \in 1 .. Len(s) - v
          /\ v + (i - Len(before)) = i + 1
      BY <1>1, <1>2, <2>3
    <3> QED
      BY <1>3, <1>4, <1>5, <2>1, <2>3, <3>1
  <2> QED
    BY <2>2, <2>3
<1> QED
  BY <1>4, <1>5, <1>6, <1>7 DEF Without

LEMMA WithoutAfter ==
  ASSUME NEW S, NEW s \in Seq(S), NEW t \in Seq(S), NEW u \in Seq(S), NEW v, Without(t, s, v)
  PROVE Without(u \o t, u \o s, Len(u) + v)
<1> DEFINE n == Len(u)
           a == u \o t
           b == u \o s
<1>1. n \in Nat /\ Len(s) \in Nat /\ v \in Nat /\ 1 <= v /\ v <= Len(s) /\ Len(t) = Len(s) - 1
  BY Lengths DEF Without
<1>2. /\ Len(a) = n + Len(t)
      /\ \A i \in 1 .. n + Len(t) : a[i] = IF i <= n THEN u[i] ELSE t[i - n]
  BY ConcatProperties
<1>3. /\ Len(b) = n + Len(s)
      /\ \A i \in 1 .. n + Len(s) : b[i] = IF i <= n THEN u[i] ELSE s[i - n]
  BY ConcatProperties
<1> HIDE DEF n, a, b
<1>4. ASSUME NEW i \in 1 .. Len(a) PROVE a[i] = b[IF i < n + v THEN i ELSE i + 1]
  <2>1. i \in 1 .. n + Len(t) /\ i \in 1 .. n + Len(s) /\ i + 1 \in 1 .. n + Len(s)
    BY <1>1, <1>2
  <2>2. CASE i <= n
    <3>1. i < n + v
      BY <1>1, <2>1, <2>2
    <3> QED
      BY <1>2, <1>3, <2>1, <2>2, <3>1
  <2>3. CASE ~(i <= n)
    <3>1. i - n \in 1 .. Len(t) /\ (i - n < v <=> i < n + v) /\ (i + 1) - n = (i - n) + 1
          /\ ~(i + 1 <= n)
      BY <1>1, <2>1, <2>3
    <3>2. t[i - n] = s[IF i - n < v THEN i - n ELSE (i - n) + 1]
      BY <3>1 DEF Without
    <3>3. CASE i < n + v
      BY <1>2, <1>3, <2>1, <2>3, <3>1, <3>2, <3>3
    <3>4. CASE ~(i < n + v)
      BY <1>2, <1>3, <2>1, <2>3, <3>1, <3>2, <3>4
    <3> QED
      BY <3>3, <3>4
  <2> QED
    BY <2>2, <2>3
<1>5. n + v \in 1 .. Len(b) /\ Len(a) = Len(b) - 1
  BY <1>1, <1>2, <1>3
<1>6. Without(a, b, n + v)
  BY <1>4, <1>5 DEF Without
<1> QED
  BY <1>6 DEF n, a, b

LEMMA WithoutThins ==
  ASSUME NEW S, NEW s \in Seq(S), NEW t \in Seq(S), NEW v, Without(t, s, v)
  PROVE Thinned(t, s)
<1> DEFINE f == [i \in 1 .. Len(t) |-> IF i < v THEN i ELSE i + 1]
<1>1. Len(s) \in Nat /\ Len(t) \in Nat /\ v \in Nat /\ 1 <= v /\ v <= Len(s) /\ Len(t) = Len(s) - 1
  BY Lengths DEF Without
<1>2. f \in [1 .. Len(t) -> 1 .. Len(s)]
  BY <1>1
<1>3. \A i, j \in 1 .. Len(t) : i < j => f[i] < f[j]
  BY <1>1
<1>4. \A i \in 1 .. Len(t) : t[i] = s[f[i]]
  BY DEF Without
<1> QED
  BY <1>2, <1>3, <1>4 DEF Thinned

LEMMA WithoutKeeps ==
  ASSUME NEW S, NEW s \in Seq(S), NEW t \in Seq(S), NEW v, Without(t, s, v),
         NEW i \in 1 .. Len(s), i # v
  PROVE \E j \in 1 .. Len(t) : t[j] = s[i]
<1>1. Len(s) \in Nat /\ v \in Nat /\ 1 <= v /\ v <= Len(s) /\ Len(t) = Len(s) - 1
  BY Lengths DEF Without
<1>2. CASE i < v
  <2>1. i \in 1 .. Len(t)
    BY <1>1, <1>2
  <2> QED
    BY <1>2, <2>1 DEF Without
<1>3. CASE ~(i < v)
  <2>1. i - 1 \in 1 .. Len(t) /\ ~(i - 1 < v) /\ (i - 1) + 1 = i
    BY <1>1, <1>3
  <2>2. t[i - 1] = s[i]
    BY <2>1 DEF Without
  <2> QED
    BY <2>1, <2>2
<1> QED
  BY <1>2, <1>3

LEMMA PrefixThins ==
  ASSUME NEW S, NEW s \in Seq(S), NEW t \in Seq(S), Len(t) <= Len(s),
         \A i \in 1 .. Len(t) : t[i] = s[i]
  PROVE Thinned(t, s)
<1> DEFINE f == [i \in 1 .. Len(t) |-> i]
<1>1. f \in [1 .. Len(t) -> 1 .. Len(s)]
  BY Lengths
<1> QED
  BY <1>1 DEF Thinned

LEMMA FrontProperties ==
  ASSUME NEW S, NEW s \in Seq(S), s # <<>>
  PROVE /\ Front(s) \in Seq(S) /\ Len(Front(s)) = Len(s) - 1
        /\ \A i \in 1 .. Len(Front(s)) : Front(s)[i] = s[i]
<1>1. Len(s) \in Nat /\ Len(s) # 0 /\ \A i \in 1 .. Len(s) - 1 : s[i] \in S
  OBVIOUS
<1>2. /\ Front(s) \in Seq(S)
      /\ Len(Front(s)) = IF 1 <= Len(s) - 1 THEN (Len(s) - 1) - 1 + 1 ELSE 0
      /\ \A i \in 1 .. (Len(s) - 1) - 1 + 1 : Front(s)[i] = s[1 + i - 1]
  BY <1>1, SubSeqProperties DEF Front
<1>3. Len(Front(s)) = Len(s) - 1 /\ (Len(s) - 1) - 1 + 1 = Len(s) - 1
  <2> DEFINE n == Len(s)
             k == Len(Front(s))
  <2>1. n \in Nat /\ n # 0 /\ k = IF 1 <= n - 1 THEN (n - 1) - 1 + 1 ELSE 0
    BY <1>1, <1>2
  <2> HIDE DEF n, k
  <2>2. k = n - 1 /\ (n - 1) - 1 + 1 = n - 1
    BY <2>1
  <2> QED
    BY <2>2 DEF n, k
<1>4. ASSUME NEW i \in 1 .. Len(s) - 1 PROVE Front(s)[i] = s[i]
  BY <1>2, <1>3
<1> QED
  BY <1>2, <1>3, <1>4

LEMMA SuffixThins ==
  ASSUME NEW S, NEW s \in Seq(S), NEW t \in Seq(S) PROVE Thinned(t, s \o t)
<1> DEFINE f == [i \in 1 .. Len(t) |-> Len(s) + i]
<1>1. Len(s) \in Nat /\ Len(t) \in Nat
  BY Lengths
<1>2. /\ Len(s \o t) = Len(s) + Len(t)
      /\ \A i \in 1 .. Len(s) + Len(t) :
           (s \o t)[i] = IF i <= Len(s) THEN s[i] ELSE t[i - Len(s)]
  BY ConcatProperties
<1>3. f \in [1 .. Len(t) -> 1 .. Len(s \o t)] /\ \A i, j \in 1 .. Len(t) : i < j => f[i] < f[j]
  BY <1>1, <1>2
<1>4. ASSUME NEW i \in 1 .. Len(t) PROVE t[i] = (s \o t)[f[i]]
  <2>1. f[i] \in 1 .. Len(s) + Len(t) /\ ~(f[i] <= Len(s)) /\ f[i] - Len(s) = i
    BY <1>1
  <2> QED
    BY <1>2, <2>1
<1> QED
  BY <1>3, <1>4 DEF Thinned

LEMMA ThinnedSet ==
  ASSUME NEW S, NEW s \in Seq(S), NEW t \in Seq(S), Thinned(t, s)
  PROVE ToSet(t) \subseteq ToSet(s)
  BY Lengths DEF Thinned, ToSet

(***************************************************************************)
(* The order of the natural numbers is well founded, so that a full queue  *)
(* that holds a frame holds an oldest one.                                 *)
(***************************************************************************)
LEMMA LessIsWellFounded ==
  \E R : IsWellFoundedOn(R, Nat) /\ \A x, y \in Nat : x < y => <<x, y>> \in R
<1>1. IsWellFoundedOn(OpToRel(<, Nat), Nat)
  BY NatLessThanWellFounded, Zenon
<1>2. \A x, y \in Nat : x < y => <<x, y>> \in OpToRel(<, Nat)
  BY Zenon DEF OpToRel
<1> QED
  BY <1>1, <1>2

LEMMA MinimalElement ==
  ASSUME NEW R, IsWellFoundedOn(R, Nat), NEW T, T \subseteq Nat, T # {}
  PROVE \E x \in T : \A y \in T : ~(<<y, x>> \in R)
  BY WFMin, Zenon

LEMMA VictimIsOne == ASSUME NEW T \in SUBSET Nat, T # {} PROVE Victim(T) \in T
<1>1. PICK R : IsWellFoundedOn(R, Nat) /\ \A x, y \in Nat : x < y => <<x, y>> \in R
  BY LessIsWellFounded
<1>2. T \subseteq Nat /\ IsWellFoundedOn(R, Nat)
  BY <1>1
<1>3. \E x \in T : \A y \in T : ~(<<y, x>> \in R)
  BY <1>2, MinimalElement, Zenon
<1>4. PICK x \in T : \A y \in T : ~(<<y, x>> \in R)
  BY <1>3
<1>5. ASSUME NEW y \in T PROVE x <= y
  <2>1. x \in Nat /\ y \in Nat /\ ~(<<y, x>> \in R)
    BY <1>2, <1>4
  <2>2. ~(y < x)
    BY <1>1, <2>1
  <2> QED
    BY <2>1, <2>2
<1> QED
  BY <1>5 DEF Victim, Min

(***************************************************************************)
(* How many frames a sequence holds.                                       *)
(***************************************************************************)
LEMMA CountFinite ==
  ASSUME NEW s \in Seq(Messages)
  PROVE IsFiniteSet({i \in DOMAIN s : IsPcm(s[i])}) /\ Count(s) \in Nat
<1>1. Len(s) \in Int /\ DOMAIN s = 1 .. Len(s) /\ {i \in DOMAIN s : IsPcm(s[i])} \in SUBSET (1 .. Len(s))
  BY Lengths
<1>2. IsFiniteSet(1 .. Len(s))
  BY <1>1, FS_Interval
<1>3. IsFiniteSet({i \in DOMAIN s : IsPcm(s[i])})
  BY <1>1, <1>2, FS_Subset
<1> QED
  BY <1>3, FS_CardinalityType DEF Count

LEMMA CountEmpty == Count(<<>>) = 0
<1>1. {i \in DOMAIN <<>> : IsPcm(<<>>[i])} = {}
  OBVIOUS
<1> QED
  BY <1>1, FS_EmptySet DEF Count

LEMMA CountAppend ==
  ASSUME NEW s \in Seq(Messages), NEW m \in Messages
  PROVE Count(Append(s, m)) = Count(s) + IF IsPcm(m) THEN 1 ELSE 0
<1> DEFINE T == {i \in DOMAIN s : IsPcm(s[i])}
           t == Append(s, m)
           U == {i \in DOMAIN t : IsPcm(t[i])}
<1>1. /\ Len(s) \in Nat /\ DOMAIN s = 1 .. Len(s) /\ DOMAIN t = 1 .. Len(s) + 1
      /\ \A i \in 1 .. Len(s) : t[i] = s[i]
      /\ t[Len(s) + 1] = m
  BY Lengths, AppendProperties
<1>2. IsFiniteSet(T) /\ Count(s) = Cardinality(T) /\ Count(s) \in Nat /\ Count(t) = Cardinality(U)
  BY CountFinite DEF Count
<1>3. Len(s) + 1 \notin T
  BY <1>1
<1>4. CASE IsPcm(m)
  <2>1. U = T \cup {Len(s) + 1}
    BY <1>1, <1>4
  <2> QED
    BY <1>2, <1>3, <1>4, <2>1, FS_AddElement
<1>5. CASE ~IsPcm(m)
  <2>1. U = T
    BY <1>1, <1>5
  <2> HIDE DEF T, U, t
  <2>2. Count(t) = Count(s)
    BY <1>2, <2>1
  <2> QED
    BY <1>2, <1>5, <2>2 DEF t
<1> QED
  BY <1>4, <1>5

LEMMA CountWithout ==
  ASSUME NEW s \in Seq(Messages), NEW t \in Seq(Messages), NEW v, Without(t, s, v)
  PROVE Count(t) = Count(s) - IF IsPcm(s[v]) THEN 1 ELSE 0
<1> DEFINE T == {i \in DOMAIN s : IsPcm(s[i])}
           U == {i \in DOMAIN t : IsPcm(t[i])}
           f == [i \in U |-> IF i < v THEN i ELSE i + 1]
<1>1. /\ Len(s) \in Nat /\ Len(t) \in Nat /\ v \in 1 .. Len(s) /\ Len(t) = Len(s) - 1
      /\ DOMAIN s = 1 .. Len(s) /\ DOMAIN t = 1 .. Len(t)
      /\ \A i \in 1 .. Len(t) : t[i] = s[IF i < v THEN i ELSE i + 1]
  BY Lengths DEF Without
<1>2. IsFiniteSet(T) /\ Count(s) = Cardinality(T) /\ Count(s) \in Nat
  BY CountFinite DEF Count
<1>3. IsFiniteSet(U) /\ Count(t) = Cardinality(U)
  BY CountFinite DEF Count
<1>4. f \in [U -> T \ {v}]
  <2>1. ASSUME NEW i \in U PROVE (IF i < v THEN i ELSE i + 1) \in T \ {v}
    BY <1>1
  <2> QED
    BY <2>1
<1>5. \A i, j \in U : f[i] = f[j] => i = j
  BY <1>1
<1>6. ASSUME NEW k \in T \ {v} PROVE \E i \in U : f[i] = k
  <2>1. CASE k < v
    <3>1. k \in U /\ f[k] = k
      BY <1>1, <2>1
    <3> QED
      BY <3>1
  <2>2. CASE ~(k < v)
    <3>1. k - 1 \in 1 .. Len(t) /\ ~(k - 1 < v) /\ (k - 1) + 1 = k
      BY <1>1, <2>2
    <3>2. k - 1 \in U /\ f[k - 1] = k
      BY <1>1, <3>1
    <3> QED
      BY <3>2
  <2> QED
    BY <2>1, <2>2
<1> HIDE DEF f
<1>7. f \in Bijection(U, T \ {v})
  BY <1>4, <1>5, <1>6 DEF Bijection, Injection, Surjection, IsInjective
<1>8. Cardinality(T \ {v}) = Cardinality(U)
  BY <1>3, <1>7, FS_Bijection DEF ExistsBijection
<1>9. Cardinality(T \ {v}) = IF v \in T THEN Cardinality(T) - 1 ELSE Cardinality(T)
  BY <1>2, FS_RemoveElement
<1>10. v \in T <=> IsPcm(s[v])
  BY <1>1
<1> QED
  BY <1>2, <1>3, <1>8, <1>9, <1>10

-----------------------------------------------------------------------------
(***************************************************************************)
(* What is on its way to the client.                                       *)
(***************************************************************************)
LEMMA StreamType ==
  ASSUME QueueTypes
  PROVE /\ Stream \in Seq(Messages) /\ Len(Stream) = Len(wire) + Len(outbox)
        /\ \A i \in 1 .. Len(wire) + Len(outbox) :
             Stream[i] = IF i <= Len(wire) THEN wire[i] ELSE outbox[i - Len(wire)]
  BY ConcatProperties DEF QueueTypes, Stream

LEMMA ReadStream ==
  ASSUME QueueTypes, wire # <<>>, wire' = Tail(wire), UNCHANGED outbox
  PROVE /\ wire' \in Seq(Messages) /\ Head(wire) \in Messages
        /\ Stream' \in Seq(Messages) /\ Without(Stream', Stream, 1) /\ Stream[1] = Head(wire)
<1> DEFINE n == Len(wire)
           k == Len(outbox)
           w == Tail(wire)
           a == w \o outbox
           b == wire \o outbox
<1>1. /\ wire \in Seq(Messages) /\ outbox \in Seq(Messages)
      /\ n \in Nat /\ k \in Nat /\ n >= 1 /\ Head(wire) = wire[1]
  BY DEF QueueTypes
<1>2. /\ w \in Seq(Messages) /\ Head(wire) \in Messages /\ Len(w) = n - 1
      /\ \A i \in 1 .. Len(w) : w[i] = wire[i + 1]
  BY <1>1, HeadTailProperties
<1>3. /\ a \in Seq(Messages) /\ Len(a) = (n - 1) + k
      /\ \A i \in 1 .. (n - 1) + k : a[i] = IF i <= n - 1 THEN w[i] ELSE outbox[i - (n - 1)]
  <2> HIDE DEF w
  <2>1. /\ a \in Seq(Messages) /\ Len(a) = Len(w) + k
        /\ \A i \in 1 .. Len(w) + k : a[i] = IF i <= Len(w) THEN w[i] ELSE outbox[i - Len(w)]
    BY <1>1, <1>2, ConcatProperties
  <2> HIDE DEF a, n, k
  <2> QED
    BY <1>2, <2>1
<1>4. /\ Len(b) = n + k
      /\ \A i \in 1 .. n + k : b[i] = IF i <= n THEN wire[i] ELSE outbox[i - n]
  BY <1>1, ConcatProperties
<1> HIDE DEF n, k, w, a, b
<1>5. ASSUME NEW i \in 1 .. Len(a) PROVE a[i] = b[i + 1]
  <2>1. i \in 1 .. (n - 1) + k /\ i + 1 \in 1 .. n + k
    BY <1>1, <1>3
  <2>2. CASE i <= n - 1
    <3>1. i \in 1 .. Len(w) /\ i + 1 <= n
      BY <1>1, <1>2, <2>1, <2>2
    <3> QED
      BY <1>2, <1>3, <1>4, <2>1, <2>2, <3>1
  <2>3. CASE ~(i <= n - 1)
    <3>1. ~(i + 1 <= n) /\ i - (n - 1) = (i + 1) - n
      BY <1>1, <2>1, <2>3
    <3> QED
      BY <1>3, <1>4, <2>1, <2>3, <3>1
  <2> QED
    BY <2>2, <2>3
<1>6. 1 \in 1 .. Len(b) /\ Len(a) = Len(b) - 1 /\ b[1] = wire[1]
  BY <1>1, <1>3, <1>4
<1>7. \A i \in 1 .. Len(a) : ~(i < 1)
  OBVIOUS
<1>8. Without(a, b, 1)
  BY <1>5, <1>6, <1>7 DEF Without
<1>9. Stream' = a /\ Stream = b
  BY DEF Stream, a, b, w
<1> QED
  BY <1>1, <1>2, <1>3, <1>6, <1>8, <1>9 DEF w

LEMMA AppendedStream ==
  ASSUME NEW s \in Seq(Messages), NEW t \in Seq(Messages), NEW m \in Messages
  PROVE s \o Append(t, m) = Append(s \o t, m)
<1>1. Append(t, m) = t \o <<m>> /\ <<m>> \in Seq(Messages)
  BY AppendIsConcat
<1>2. s \o t \in Seq(Messages)
  BY ConcatProperties
<1>3. Append(s \o t, m) = (s \o t) \o <<m>>
  BY <1>2, AppendIsConcat
<1>4. (s \o t) \o <<m>> = s \o (t \o <<m>>)
  BY <1>1, ConcatAssociative
<1> QED
  BY <1>1, <1>3, <1>4

LEMMA WriteStream ==
  ASSUME QueueTypes, outbox # <<>>, wire' = Append(wire, Head(outbox)), outbox' = Tail(outbox)
  PROVE /\ wire' \in Seq(Messages) /\ outbox' \in Seq(Messages) /\ Len(outbox') <= QueueSize
        /\ Stream' = Stream
<1> DEFINE m == Head(outbox)
           u == Tail(outbox)
<1>1. /\ wire \in Seq(Messages) /\ outbox \in Seq(Messages) /\ m \in Messages
      /\ u \in Seq(Messages) /\ Len(u) = Len(outbox) - 1 /\ Len(outbox) \in Nat
      /\ <<m>> \in Seq(Messages) /\ Len(outbox) <= QueueSize /\ QueueSize \in Nat
  BY HelperAssumption, HeadTailProperties DEF QueueTypes
<1>2. outbox = <<m>> \o u
  <2>1. /\ <<m>> \o u \in Seq(Messages) /\ Len(<<m>> \o u) = 1 + Len(u)
        /\ \A i \in 1 .. 1 + Len(u) : (<<m>> \o u)[i] = IF i <= 1 THEN <<m>>[i] ELSE u[i - 1]
    BY <1>1, ConcatProperties
  <2>2. \A i \in 1 .. Len(u) : u[i] = outbox[i + 1]
    BY <1>1, HeadTailProperties
  <2>3. m = outbox[1] /\ <<m>>[1] = m
    BY <1>1
  <2> HIDE DEF m, u
  <2>4. ASSUME NEW i \in 1 .. Len(outbox) PROVE outbox[i] = (<<m>> \o u)[i]
    <3>1. CASE i = 1
      BY <1>1, <2>1, <2>3, <3>1
    <3>2. CASE i # 1
      <4>1. i - 1 \in 1 .. Len(u) /\ (i - 1) + 1 = i /\ ~(i <= 1) /\ i \in 1 .. 1 + Len(u)
        BY <1>1, <3>2
      <4> QED
        BY <2>1, <2>2, <4>1
    <3> QED
      BY <3>1, <3>2
  <2>5. Len(outbox) = Len(<<m>> \o u)
    BY <1>1, <2>1
  <2> QED
    BY <1>1, <2>1, <2>4, <2>5, SeqEqual
<1>3. Append(wire, m) = wire \o <<m>> /\ Append(wire, m) \in Seq(Messages)
  BY <1>1, AppendIsConcat, AppendProperties
<1> HIDE DEF m, u
<1>4. (wire \o <<m>>) \o u = wire \o (<<m>> \o u)
  <2>1. wire \in Seq(Messages) /\ <<m>> \in Seq(Messages) /\ u \in Seq(Messages)
    BY <1>1
  <2> QED
    BY ONLY <2>1, ConcatAssociative
<1>5. Len(u) <= QueueSize
  BY <1>1
<1> QED
  BY <1>1, <1>2, <1>3, <1>4, <1>5 DEF Stream, m, u

\* The four ways a message is queued: behind the others, in the place of the oldest frame,
\* not at all, or not at all and the connection is closed.
Queued(m) == Stream' = Append(Stream, m) /\ UNCHANGED <<dropped, socket, phase, ended, engine>>
MadeRoom(m) ==
  /\ dropped' = dropped + 1 /\ UNCHANGED <<socket, phase, ended, engine>>
  /\ \E t \in Seq(Messages), v \in Nat :
       Without(t, Stream, v) /\ IsPcm(Stream[v]) /\ Stream' = Append(t, m)
GivenUp(m) ==
  /\ IsPcm(m) /\ Stream' = Stream /\ dropped' = dropped + 1
  /\ UNCHANGED <<socket, phase, ended, engine>>
CutOff(m) ==
  /\ ~IsPcm(m) /\ Stream' = wire /\ socket' = "cut" /\ dropped' = dropped
  /\ phase' = "stopped" /\ engine' = FALSE /\ ended' = FALSE

LEMMA Enqueued ==
  ASSUME QueueTypes, NEW m \in Messages, Enqueue(m), UNCHANGED wire
  PROVE /\ outbox' \in Seq(Messages) /\ Len(outbox') <= QueueSize
        /\ Queued(m) \/ MadeRoom(m) \/ GivenUp(m) \/ CutOff(m)
<1> DEFINE held == {i \in DOMAIN outbox : IsPcm(outbox[i])}
           full == Len(outbox) >= QueueSize
<1>1. /\ wire \in Seq(Messages) /\ outbox \in Seq(Messages) /\ Len(outbox) \in Nat
      /\ DOMAIN outbox = 1 .. Len(outbox) /\ Len(outbox) <= QueueSize /\ QueueSize \in Nat
      /\ QueueSize # 0 /\ Len(wire) \in Nat
  BY HelperAssumption, Lengths DEF QueueTypes
<1>2. CASE ~full
  <2>1. outbox' = Append(outbox, m) /\ UNCHANGED <<dropped, socket, phase, ended, engine>>
    BY <1>2 DEF Enqueue
  <2>2. outbox' \in Seq(Messages) /\ Len(outbox') = Len(outbox) + 1
    BY <1>1, <2>1, AppendProperties
  <2>3. Stream' = Append(Stream, m)
    BY <1>1, <2>1, AppendedStream DEF Stream
  <2> QED
    BY <1>1, <1>2, <2>1, <2>2, <2>3 DEF Queued
<1>3. CASE full /\ held # {}
  <2> DEFINE v == Victim(held)
             u == RemoveAt(outbox, v)
  <2>1. /\ outbox' = Append(u, m) /\ dropped' = dropped + 1
        /\ UNCHANGED <<socket, phase, ended, engine>>
    BY <1>3 DEF Enqueue
  <2>2. v \in held
    <3>1. held \in SUBSET Nat
      BY <1>1
    <3> HIDE DEF held
    <3> QED
      BY <1>3, <3>1, VictimIsOne
  <2>3. v \in 1 .. Len(outbox) /\ IsPcm(outbox[v])
    BY <1>1, <2>2
  <2> HIDE DEF v
  <2>4. u \in Seq(Messages) /\ Without(u, outbox, v)
    BY <1>1, <2>3, RemoveWithout
  <2> HIDE DEF u
  <2>5. /\ wire \o u \in Seq(Messages)
        /\ Without(wire \o u, Stream, Len(wire) + v)
    BY <1>1, <2>4, WithoutAfter, ConcatProperties DEF Stream
  <2>6. Stream' = Append(wire \o u, m)
    BY <1>1, <2>1, <2>4, AppendedStream DEF Stream
  <2>7. IsPcm(Stream[Len(wire) + v]) /\ Len(wire) + v \in Nat
    <3>1. Len(wire) + v \in 1 .. Len(wire) + Len(outbox) /\ ~(Len(wire) + v <= Len(wire))
          /\ (Len(wire) + v) - Len(wire) = v
      BY <1>1, <2>3
    <3> QED
      BY <2>3, <3>1, StreamType
  <2>8. MadeRoom(m)
    BY <2>1, <2>5, <2>6, <2>7 DEF MadeRoom
  <2>9. outbox' \in Seq(Messages) /\ Len(outbox') = Len(u) + 1 /\ Len(u) = Len(outbox) - 1
    BY <2>1, <2>4, AppendProperties DEF Without
  <2> QED
    BY <1>1, <2>8, <2>9
<1>4. CASE full /\ held = {} /\ IsPcm(m)
  <2>1. /\ outbox' = outbox /\ dropped' = dropped + 1
        /\ UNCHANGED <<socket, phase, ended, engine>>
    BY <1>4 DEF Enqueue
  <2> QED
    BY <1>1, <1>4, <2>1 DEF GivenUp, Stream
<1>5. CASE full /\ held = {} /\ ~IsPcm(m)
  <2>1. /\ outbox' = <<>> /\ dropped' = dropped
        /\ socket' = "cut" /\ phase' = "stopped" /\ ended' = FALSE /\ engine' = FALSE
    BY <1>5 DEF Enqueue
  <2>2. Stream' = wire
    BY <1>1, <2>1, ConcatEmptySeq DEF Stream
  <2> QED
    BY <1>1, <1>5, <2>1, <2>2 DEF CutOff
<1> QED
  BY <1>2, <1>3, <1>4, <1>5

\* What is queued is what was there, without frames, and the message.
LEMMA EnqueuedSet ==
  ASSUME QueueTypes, NEW m \in Messages, Enqueue(m), UNCHANGED wire
  PROVE /\ Stream' \in Seq(Messages)
        /\ ToSet(Stream') \subseteq ToSet(Stream) \cup {m}
        /\ \/ /\ UNCHANGED <<socket, phase, ended, engine>>
              /\ \A x \in ToSet(Stream) \cup {m} : ~IsPcm(x) => x \in ToSet(Stream')
           \/ /\ socket' = "cut" /\ phase' = "stopped" /\ engine' = FALSE /\ ended' = FALSE
              /\ ~IsPcm(m)
<1>1. Stream \in Seq(Messages) /\ wire \in Seq(Messages)
  BY StreamType DEF QueueTypes
<1>2. Queued(m) \/ MadeRoom(m) \/ GivenUp(m) \/ CutOff(m)
  BY Enqueued
<1>3. ASSUME NEW t \in Seq(Messages)
      PROVE Append(t, m) \in Seq(Messages) /\ ToSet(Append(t, m)) = ToSet(t) \cup {m}
  <2>1. /\ Append(t, m) \in Seq(Messages) /\ Len(Append(t, m)) = Len(t) + 1
        /\ \A i \in 1 .. Len(t) : Append(t, m)[i] = t[i]
        /\ Append(t, m)[Len(t) + 1] = m
        /\ DOMAIN t = 1 .. Len(t) /\ Len(t) \in Nat
        /\ DOMAIN Append(t, m) = 1 .. Len(t) + 1
    BY AppendProperties, Lengths
  <2> QED
    BY <2>1 DEF ToSet
<1>4. CASE Queued(m)
  BY <1>1, <1>3, <1>4 DEF Queued
<1>5. CASE MadeRoom(m)
  <2>1. PICK t \in Seq(Messages), v \in Nat :
          Without(t, Stream, v) /\ IsPcm(Stream[v]) /\ Stream' = Append(t, m)
    BY <1>5 DEF MadeRoom
  <2>2. ToSet(t) \subseteq ToSet(Stream)
    BY <1>1, <2>1, WithoutThins, ThinnedSet
  <2>3. ASSUME NEW x \in ToSet(Stream), ~IsPcm(x) PROVE x \in ToSet(t)
    <3>1. PICK i \in 1 .. Len(Stream) : x = Stream[i]
      BY <1>1, Lengths DEF ToSet
    <3>2. i # v
      BY <2>1, <2>3, <3>1
    <3>3. \E j \in 1 .. Len(t) : t[j] = Stream[i]
      BY <1>1, <2>1, <3>2, WithoutKeeps
    <3> QED
      BY <3>1, <3>3, Lengths DEF ToSet
  <2>4. Stream' \in Seq(Messages) /\ ToSet(Stream') = ToSet(t) \cup {m}
    BY <1>3, <2>1
  <2>5. UNCHANGED <<socket, phase, ended, engine>>
    BY <1>5 DEF MadeRoom
  <2> QED
    BY <2>2, <2>3, <2>4, <2>5
<1>6. CASE GivenUp(m)
  BY <1>1, <1>6 DEF GivenUp
<1>7. CASE CutOff(m)
  <2>1. ToSet(wire) \subseteq ToSet(Stream)
    <3>1. \A i \in 1 .. Len(wire) : Stream[i] = wire[i] /\ i \in 1 .. Len(Stream)
      BY <1>1, StreamType, Lengths DEF QueueTypes
    <3> QED
      BY <1>1, <3>1, Lengths DEF ToSet
  <2> QED
    BY <1>1, <1>7, <2>1 DEF CutOff
<1> QED
  BY <1>2, <1>4, <1>5, <1>6, <1>7

LEMMA ThinnedKeeps ==
  ASSUME NEW s \in Seq(Messages), NEW t \in Seq(Messages), Thinned(t, s)
  PROVE (Quiet(s) => Quiet(t)) /\ (Rising(s) => Rising(t))
<1>1. PICK f \in [1 .. Len(t) -> 1 .. Len(s)] :
        /\ \A i, j \in 1 .. Len(t) : i < j => f[i] < f[j]
        /\ \A i \in 1 .. Len(t) : t[i] = s[f[i]]
  BY DEF Thinned
<1>2. DOMAIN t = 1 .. Len(t) /\ DOMAIN s = 1 .. Len(s)
  BY Lengths
<1>3. ASSUME NEW i \in DOMAIN t, NEW j \in DOMAIN t, i < j
      PROVE f[i] \in DOMAIN s /\ f[j] \in DOMAIN s /\ f[i] < f[j] /\ t[i] = s[f[i]] /\ t[j] = s[f[j]]
  BY <1>1, <1>2, <1>3
<1>4. ASSUME Quiet(s) PROVE Quiet(t)
  BY <1>3, <1>4 DEF Quiet
<1>5. ASSUME Rising(s) PROVE Rising(t)
  BY <1>3, <1>5 DEF Rising
<1> QED
  BY <1>4, <1>5

LEMMA AppendKeeps ==
  ASSUME NEW s \in Seq(Messages), NEW m \in Messages
  PROVE /\ Quiet(s) /\ (IsPcm(m) => \A x \in ToSet(s) : ~Doom(x)) => Quiet(Append(s, m))
        /\ Rising(s) /\ (IsPcm(m) => \A x \in ToSet(s) : IsPcm(x) => x.seq < m.seq)
             => Rising(Append(s, m))
<1> DEFINE t == Append(s, m)
<1>1. /\ Len(s) \in Nat /\ DOMAIN s = 1 .. Len(s) /\ DOMAIN t = 1 .. Len(s) + 1
      /\ \A i \in 1 .. Len(s) : t[i] = s[i]
      /\ t[Len(s) + 1] = m
  BY Lengths, AppendProperties
<1> HIDE DEF t
<1>2. \A i \in DOMAIN s : s[i] \in ToSet(s)
  BY DEF ToSet
<1>3. ASSUME NEW i \in DOMAIN t, NEW j \in DOMAIN t, i < j
      PROVE /\ i \in DOMAIN s /\ t[i] = s[i] /\ t[i] \in ToSet(s)
            /\ (j \in DOMAIN s /\ t[j] = s[j]) \/ t[j] = m
  BY <1>1, <1>2, <1>3
<1>4. ASSUME Quiet(s), IsPcm(m) => \A x \in ToSet(s) : ~Doom(x) PROVE Quiet(t)
  BY <1>3, <1>4 DEF Quiet
<1>5. ASSUME Rising(s), IsPcm(m) => \A x \in ToSet(s) : IsPcm(x) => x.seq < m.seq
      PROVE Rising(t)
  BY <1>3, <1>5 DEF Rising
<1> QED
  BY <1>4, <1>5 DEF t

LEMMA EnqueuedKeeps ==
  ASSUME QueueTypes, NEW m \in Messages, Enqueue(m), UNCHANGED wire
  PROVE /\ Quiet(Stream) /\ (IsPcm(m) => \A x \in ToSet(Stream) : ~Doom(x)) => Quiet(Stream')
        /\ Rising(Stream) /\ (IsPcm(m) => \A x \in ToSet(Stream) : IsPcm(x) => x.seq < m.seq)
             => Rising(Stream')
<1>1. Stream \in Seq(Messages) /\ wire \in Seq(Messages)
  BY StreamType DEF QueueTypes
<1>2. Queued(m) \/ MadeRoom(m) \/ GivenUp(m) \/ CutOff(m)
  BY Enqueued
<1>3. CASE Queued(m)
  BY <1>1, <1>3, AppendKeeps DEF Queued
<1>4. CASE MadeRoom(m)
  <2>1. PICK t \in Seq(Messages), v \in Nat : Without(t, Stream, v) /\ Stream' = Append(t, m)
    BY <1>4 DEF MadeRoom
  <2>2. Thinned(t, Stream) /\ ToSet(t) \subseteq ToSet(Stream)
    BY <1>1, <2>1, WithoutThins, ThinnedSet
  <2>3. (Quiet(Stream) => Quiet(t)) /\ (Rising(Stream) => Rising(t))
    BY <1>1, <2>2, ThinnedKeeps
  <2> QED
    BY <2>1, <2>2, <2>3, AppendKeeps
<1>5. CASE GivenUp(m)
  BY <1>5 DEF GivenUp
<1>6. CASE CutOff(m)
  <2>1. Thinned(wire, Stream)
    <3>1. Len(wire) <= Len(Stream) /\ \A i \in 1 .. Len(wire) : wire[i] = Stream[i]
      BY <1>1, StreamType, Lengths DEF QueueTypes
    <3> QED
      BY <1>1, <3>1, PrefixThins
  <2> QED
    BY <1>1, <1>6, <2>1, ThinnedKeeps DEF CutOff
<1> QED
  BY <1>2, <1>3, <1>4, <1>5, <1>6

LEMMA EnqueuedCount ==
  ASSUME QueueTypes, dropped \in Nat, NEW m \in Messages, Enqueue(m), UNCHANGED wire,
         socket' = "open"
  PROVE /\ dropped' \in Nat /\ Count(Stream') \in Nat /\ Count(Stream) \in Nat
        /\ Count(Stream') + dropped' = Count(Stream) + dropped + IF IsPcm(m) THEN 1 ELSE 0
<1>1. Stream \in Seq(Messages) /\ Stream' \in Seq(Messages)
  BY StreamType, EnqueuedSet
<1>2. Count(Stream) \in Nat /\ Count(Stream') \in Nat
  BY <1>1, CountFinite
<1>3. Queued(m) \/ MadeRoom(m) \/ GivenUp(m)
  BY Enqueued DEF CutOff
<1>4. CASE Queued(m)
  <2>1. Count(Stream') = Count(Stream) + (IF IsPcm(m) THEN 1 ELSE 0) /\ dropped' = dropped
    BY <1>1, <1>4, CountAppend DEF Queued
  <2> QED
    BY <1>2, <2>1
<1>5. CASE MadeRoom(m)
  <2>1. PICK t \in Seq(Messages), v \in Nat :
          Without(t, Stream, v) /\ IsPcm(Stream[v]) /\ Stream' = Append(t, m)
    BY <1>5 DEF MadeRoom
  <2>2. Count(t) = Count(Stream) - 1 /\ Count(t) \in Nat
    BY <1>1, <2>1, CountWithout, CountFinite
  <2>3. Count(Stream') = Count(t) + IF IsPcm(m) THEN 1 ELSE 0
    BY <2>1, CountAppend
  <2>4. dropped' = dropped + 1
    BY <1>5 DEF MadeRoom
  <2> QED
    BY <1>2, <2>2, <2>3, <2>4
<1>6. CASE GivenUp(m)
  <2>1. IsPcm(m) /\ Stream' = Stream /\ dropped' = dropped + 1
    BY <1>6 DEF GivenUp
  <2>2. Count(Stream') = Count(Stream)
    BY <2>1
  <2> QED
    BY <1>2, <2>1, <2>2
<1> QED
  BY <1>3, <1>4, <1>5, <1>6

-----------------------------------------------------------------------------
(***************************************************************************)
(* The messages, and the types of the variables.                           *)
(***************************************************************************)
LEMMA Answers ==
  /\ \A r \in Requests \cup {"nobody"} :
       /\ Ack(r) \in Messages /\ Refusal(r) \in Messages
       /\ ~IsPcm(Ack(r)) /\ ~IsPcm(Refusal(r))
       /\ Ack(r).what = "ack" /\ Ack(r).to = r
       /\ Refusal(r).what = "error" /\ Refusal(r).to = r
       /\ Doom(Refusal(r)) /\ (Doom(Ack(r)) <=> r \in {"stop", "abort"})
  /\ \A n \in Nat : /\ Pcm(n) \in Messages /\ IsPcm(Pcm(n)) /\ Pcm(n).seq = n
                    /\ ~Doom(Pcm(n)) /\ Pcm(n).to = "nobody"
  BY DEF Ack, Refusal, Pcm, Messages, IsPcm, Doom, Requests

LEMMA OneAnswer ==
  ASSUME NEW m \in Messages
  PROVE <<m>> \in Seq(Messages) /\ Len(<<m>>) = 1 /\ DOMAIN <<m>> = {1} /\ <<m>>[1] = m
        /\ ToSet(<<m>>) = {m}
<1>1. <<m>> \in Seq(Messages) /\ Len(<<m>>) = 1 /\ DOMAIN <<m>> = 1 .. 1 /\ <<m>>[1] = m
  OBVIOUS
<1> QED
  BY <1>1 DEF ToSet

LEMMA NoMessage == ToSet(<<>>) = {}
  BY DEF ToSet

LEMMA NothingSent ==
  /\ <<>> \in Seq(Messages) /\ <<>> \in Seq(Nat) /\ Len(<<>>) = 0 /\ DOMAIN <<>> = {}
  /\ Len(<<>>) <= QueueSize
  BY HelperAssumption

USE DEF helperVars, clientVars, workVars

\* What the reader thread answers.
LEMMA ReplyTypes ==
  ASSUME AnswerTypes, replying # <<>>
  PROVE /\ Head(replying) \in Messages /\ ~IsPcm(Head(replying))
        /\ ToSet(replying) = {Head(replying)}
<1>1. PICK m \in Messages : ~IsPcm(m) /\ replying = <<m>>
  BY DEF AnswerTypes
<1>2. Head(replying) = m
  BY <1>1
<1> QED
  BY <1>1, <1>2, OneAnswer

LEMMA HelperKeepsTypes == ASSUME AllTypes, Helper PROVE AllTypes'
<1> USE DEF AllTypes
<1>1. ClientTypes'
  BY DEF Helper, ClientTypes
<1>0. UNCHANGED frames
  BY DEF Helper
<1>2. CASE Listens
  BY <1>1, <1>2 DEF Helper, Listens, HelperTypes, AnswerTypes, QueueTypes
<1>3. ASSUME NEW r \in Requests, Handles(r),
             \/ UNCHANGED replying
             \/ replying' = <<Ack(r)>> \/ replying' = <<Refusal(r)>>,
             phase' \in {"stopped", "preparing", "ready", "active", "failed"}, engine' \in BOOLEAN
      PROVE AllTypes'
  <2>1. AnswerTypes'
    BY <1>3, Answers DEF Handles, AnswerTypes
  <2>2. HelperTypes'
    BY <1>3 DEF Handles, HelperTypes
  <2>3. QueueTypes'
    BY <1>0, <1>3 DEF Handles, QueueTypes
  <2> QED
    BY <1>1, <2>1, <2>2, <2>3
<1>4. CASE Hello
  BY <1>3, <1>4 DEF Hello, HelperTypes, Requests
<1>5. CASE HelperPrepare
  BY <1>3, <1>5 DEF HelperPrepare, HelperTypes, Requests
<1>6. CASE HelperCommit
  BY <1>3, <1>6 DEF HelperCommit, HelperTypes, Requests
<1>7. CASE Terminate("abort")
  BY <1>3, <1>7 DEF Terminate, HelperTypes, Requests
<1>8. CASE Terminate("stop")
  BY <1>3, <1>8 DEF Terminate, HelperTypes, Requests
<1>9. ASSUME NEW m \in {Ack("prepare"), Refusal("prepare"), Failure},
             reporting' = reporting \cup {m},
             UNCHANGED <<process, socket, produced, replying, outbox, wire, dropped>>,
             phase' \in {"ready", "stopped", "failed"}, engine' \in BOOLEAN
      PROVE AllTypes'
  <2>1. m \in Messages /\ ~IsPcm(m)
    BY Answers DEF Failure, Requests
  <2>2. AnswerTypes'
    BY <1>9, <2>1 DEF AnswerTypes
  <2>3. HelperTypes'
    BY <1>9 DEF HelperTypes
  <2>4. QueueTypes'
    BY <1>0, <1>9 DEF QueueTypes
  <2> QED
    BY <1>1, <2>2, <2>3, <2>4
<1>10. CASE BecomesReady
  BY <1>9, <1>10 DEF BecomesReady, Tells, HelperTypes
<1>11. CASE NotReady
  BY <1>9, <1>11 DEF NotReady, Tells
<1>12. CASE CaptureFails
  BY <1>9, <1>12 DEF CaptureFails, Announced
<1>13. ASSUME NEW m \in Messages, Enqueue(m), UNCHANGED wire, produced' \in Nat,
              process' = process, reporting' \subseteq reporting,
              UNCHANGED replying \/ replying' = <<>>
       PROVE AllTypes'
  <2>1. outbox' \in Seq(Messages) /\ Len(outbox') <= QueueSize
    BY <1>13, Enqueued
  <2>2. dropped' \in Nat
    BY <1>13 DEF Enqueue, HelperTypes
  <2>3. \/ UNCHANGED <<socket, phase, engine>>
        \/ socket' = "cut" /\ phase' = "stopped" /\ engine' = FALSE
    BY <1>13, EnqueuedSet
  <2>4. HelperTypes'
    BY <1>13, <2>2, <2>3 DEF HelperTypes
  <2>5. AnswerTypes'
    BY <1>13 DEF AnswerTypes
  <2>6. QueueTypes'
    BY <1>0, <1>13, <2>1 DEF QueueTypes
  <2> QED
    BY <1>1, <2>4, <2>5, <2>6
<1>14. CASE Reply
  BY <1>13, <1>14, ReplyTypes DEF Reply, HelperTypes
<1>15. CASE Report
  BY <1>13, <1>15 DEF Report, HelperTypes, AnswerTypes
<1>16. CASE Frame
  <2>1. produced' \in Nat /\ Pcm(produced') \in Messages
    BY <1>16, Answers DEF Frame, HelperTypes
  <2> QED
    BY <1>13, <1>16, <2>1 DEF Frame
<1>17. CASE Write
  <2>1. QueueTypes'
    BY <1>0, <1>17, WriteStream DEF Write, QueueTypes
  <2> QED
    BY <1>1, <1>17, <2>1 DEF Write, HelperTypes, AnswerTypes
<1>18. ASSUME process' \in {"none", process}, socket' \in {"none", "cut", socket},
              phase' = "stopped", engine' = FALSE, UNCHANGED <<produced, dropped>>,
              replying' = <<>>, reporting' = {}, outbox' = <<>>, wire' \in Seq(Messages)
       PROVE AllTypes'
  <2>1. HelperTypes'
    BY <1>18 DEF HelperTypes
  <2>2. AnswerTypes'
    BY <1>18 DEF AnswerTypes
  <2>3. QueueTypes'
    BY <1>0, <1>18, NothingSent DEF QueueTypes
  <2> QED
    BY <1>1, <2>1, <2>2, <2>3
<1>19. CASE ReaderEnds
  BY <1>18, <1>19, NothingSent DEF ReaderEnds, ClientDisconnected
<1>20. CASE Gone
  <2>1. wire' \in Seq(Messages)
    BY <1>20, FrontProperties DEF Gone, Decodable, QueueTypes
  <2> QED
    BY <1>18, <1>20, <2>1 DEF Gone
<1> QED
  BY <1>2, <1>4, <1>5, <1>6, <1>7, <1>8, <1>10, <1>11, <1>12, <1>14, <1>15, <1>16, <1>17, <1>19,
    <1>20 DEF Helper, HelperThreads, Exits, Dies

LEMMA RoomTypes ==
  ASSUME QueueTypes, NEW n \in Nat
  PROVE Append(MakeRoom, n) \in Seq(Nat) /\ Len(Append(MakeRoom, n)) <= QueueSize
<1>1. /\ frames \in Seq(Nat) /\ Len(frames) \in Nat /\ Len(frames) <= QueueSize
      /\ QueueSize \in Nat /\ QueueSize # 0
  BY HelperAssumption DEF QueueTypes
<1>2. MakeRoom \in Seq(Nat) /\ Len(MakeRoom) < QueueSize
  BY <1>1 DEF MakeRoom
<1> HIDE DEF MakeRoom
<1>3. Append(MakeRoom, n) \in Seq(Nat) /\ Len(Append(MakeRoom, n)) = Len(MakeRoom) + 1
  BY <1>2, AppendProperties
<1>4. Len(MakeRoom) \in Nat
  BY <1>2
<1> QED
  BY <1>1, <1>2, <1>3, <1>4

\* Most tasks leave the queues alone, or close the client.
LEMMA QuietTypes ==
  ASSUME AllTypes, UNCHANGED <<process, phase, engine, produced, dropped, replying, reporting,
                               outbox>>,
         \/ UNCHANGED <<socket, wire, frames>>
         \/ socket' \in {"left", "none", "open"} /\ wire' = <<>> /\ frames' = <<>>
         \/ socket' = "open" /\ wire' = wire /\ frames' = <<>>
  PROVE HelperTypes' /\ AnswerTypes' /\ QueueTypes'
<1>1. HelperTypes'
  BY DEF AllTypes, HelperTypes
<1>2. AnswerTypes'
  BY DEF AllTypes, AnswerTypes
<1>3. QueueTypes'
  BY NothingSent DEF AllTypes, QueueTypes
<1> QED
  BY <1>1, <1>2, <1>3

\* A helper that is spawned has nothing of an earlier one.
LEMMA SpawnTypes ==
  ASSUME AllTypes, Spawn, frames' \in {<<>>, frames}
  PROVE HelperTypes' /\ AnswerTypes' /\ QueueTypes'
<1>1. HelperTypes'
  BY DEF Spawn, Fresh, HelperTypes
<1>2. AnswerTypes'
  BY DEF Spawn, Fresh, AnswerTypes
<1>3. QueueTypes'
  BY NothingSent DEF AllTypes, Spawn, Fresh, QueueTypes
<1> QED
  BY <1>1, <1>2, <1>3

LEMMA FailsTypes == ASSUME AllTypes, Fails PROVE frames' \in Seq(Nat) /\ Len(frames') <= QueueSize
  BY RoomTypes DEF AllTypes, Fails, Terminal

LEMMA ReadKeepsTypes == ASSUME AllTypes, Read PROVE AllTypes'
<1>1. Head(wire) \in Messages /\ wire' \in Seq(Messages)
  BY ReadStream DEF Read, AllTypes
<1>2. frames' \in Seq(Nat) /\ Len(frames') <= QueueSize
  <2>1. CASE IsPcm(Head(wire))
    <3>1. Head(wire).seq \in Nat
      BY <1>1 DEF Messages
    <3> QED
      BY <2>1, <3>1, RoomTypes DEF Read, AllTypes
  <2>2. CASE frames' = frames
    BY <2>2 DEF AllTypes, QueueTypes
  <2>3. CASE Fails
    BY <2>3, FailsTypes
  <2> QED
    BY <2>1, <2>2, <2>3 DEF Read, Unexpected
<1>3. dropped' \in Nat
  <2>1. CASE IsPcm(Head(wire))
    <3>1. frames' = Append(MakeRoom, Head(wire).seq) /\ Head(wire).seq \in Nat
          /\ dropped' = dropped + Len(frames) + 1 - Len(frames')
      BY <1>1, <2>1 DEF Read, Messages
    <3>2. MakeRoom \in Seq(Nat) /\ Len(MakeRoom) \in Nat /\ Len(MakeRoom) <= Len(frames)
          /\ Len(frames) \in Nat
      BY HelperAssumption DEF MakeRoom, AllTypes, QueueTypes
    <3> HIDE DEF MakeRoom
    <3>3. Len(frames') = Len(MakeRoom) + 1
      BY <3>1, <3>2, AppendProperties
    <3>4. dropped \in Nat
      BY DEF AllTypes, HelperTypes
    <3> QED
      BY <3>1, <3>2, <3>3, <3>4
  <2>2. CASE ~IsPcm(Head(wire))
    BY <2>2 DEF Read, AllTypes, HelperTypes
  <2> QED
    BY <2>1, <2>2
<1>4. conn' \in {"none", "open", "failed"} /\ answer' \in {"none", "ok", "error"}
  BY DEF Read, Unexpected, Fails, AllTypes, ClientTypes
<1>5. HelperTypes'
  BY <1>3 DEF Read, AllTypes, HelperTypes
<1>6. AnswerTypes'
  BY DEF Read, AllTypes, AnswerTypes
<1>7. QueueTypes'
  BY <1>1, <1>2 DEF Read, AllTypes, QueueTypes
<1>8. ClientTypes'
  BY <1>4 DEF Read, AllTypes, ClientTypes
<1> QED
  BY <1>5, <1>6, <1>7, <1>8 DEF AllTypes

LEMMA ReadsEndKeepsTypes == ASSUME AllTypes, ReadsEnd PROVE AllTypes'
<1>1. frames' \in Seq(Nat) /\ Len(frames') <= QueueSize
  BY FailsTypes DEF ReadsEnd
<1>2. HelperTypes' /\ AnswerTypes'
  BY DEF ReadsEnd, AllTypes, HelperTypes, AnswerTypes
<1>3. QueueTypes'
  BY <1>1 DEF ReadsEnd, AllTypes, QueueTypes
<1>4. ClientTypes'
  BY DEF ReadsEnd, Fails, AllTypes, ClientTypes
<1> QED
  BY <1>2, <1>3, <1>4 DEF AllTypes

\* The pump takes what is at the head of its queue.
LEMMA PumpKeepsTypes == ASSUME AllTypes, PumpTakes \/ PumpFails PROVE AllTypes'
<1>1. CASE frames # <<>>
  <2>1. /\ Head(frames) \in Nat /\ Tail(frames) \in Seq(Nat) /\ Len(Tail(frames)) = Len(frames) - 1
        /\ Len(frames) \in Nat /\ Len(frames) <= QueueSize /\ QueueSize \in Nat
    BY <1>1, HeadTailProperties, HelperAssumption DEF AllTypes, QueueTypes
  <2>2. frames' = Tail(frames)
    BY <1>1 DEF PumpTakes, PumpFails
  <2>3. QueueTypes'
    <3>1. Len(frames') <= QueueSize
      BY <2>1, <2>2
    <3> QED
      BY <2>1, <2>2, <3>1 DEF PumpTakes, PumpFails, AllTypes, QueueTypes
  <2>4. HelperTypes' /\ AnswerTypes'
    BY DEF PumpTakes, PumpFails, AllTypes, HelperTypes, AnswerTypes
  <2>5. ClientTypes'
    BY <2>1 DEF PumpTakes, PumpFails, AllTypes, ClientTypes
  <2> QED
    BY <2>3, <2>4, <2>5 DEF AllTypes
<1>2. CASE frames = <<>>
  BY <1>2 DEF PumpTakes, PumpFails, AllTypes, HelperTypes, AnswerTypes, QueueTypes, ClientTypes
<1> QED
  BY <1>1, <1>2

LEMMA TasksKeepTypes == ASSUME AllTypes, Tasks \/ Calls PROVE AllTypes'
<1> USE DEF ClientTypes, Ops, Requests
<1>0. ClientTypes
  BY DEF AllTypes
<1>1. CASE Prepare
  <2>1. HelperTypes' /\ AnswerTypes' /\ QueueTypes'
    BY <1>1, SpawnTypes DEF Prepare
  <2> QED
    BY <1>0, <1>1, <2>1 DEF Prepare, AllTypes
<1>2. CASE Restart
  <2>1. HelperTypes' /\ AnswerTypes' /\ QueueTypes'
    BY <1>2, SpawnTypes DEF Restart
  <2> QED
    BY <1>0, <1>2, <2>1 DEF Restart, AllTypes
<1>3. CASE Connect
  <2>1. HelperTypes' /\ AnswerTypes' /\ QueueTypes'
    BY <1>3, QuietTypes DEF Connect
  <2> QED
    BY <1>0, <1>3, <2>1 DEF Connect, AllTypes
<1>4. CASE StartFails \/ PrepareFails \/ AbortAnswered \/ CleanStopped
  <2>1. HelperTypes' /\ AnswerTypes' /\ QueueTypes'
    BY <1>4, QuietTypes DEF StartFails, PrepareFails, AbortAnswered, CleanStopped, CloseClient,
      Unwind, Closes
  <2> QED
    BY <1>0, <1>4, <2>1 DEF StartFails, PrepareFails, AbortAnswered, CleanStopped, CloseClient,
      Unwind, Closes, AllTypes
<1>5. CASE TellsHelper
  <2>1. HelperTypes'
    BY <1>5 DEF TellsHelper, SaysTerminate, AllTypes, HelperTypes
  <2>2. AnswerTypes' /\ QueueTypes'
    BY <1>5 DEF TellsHelper, AllTypes, AnswerTypes, QueueTypes
  <2> QED
    BY <1>0, <1>5, <2>1, <2>2 DEF TellsHelper, AllTypes
<1>6. CASE Reaped \/ Prepared \/ SinkPrepared \/ CommitFails \/ Committed \/ SinkRefuses
           \/ CleanSink \/ Deactivate
  <2>1. HelperTypes' /\ AnswerTypes' /\ QueueTypes'
    BY <1>6, QuietTypes DEF Reaped, Prepared, SinkPrepared, CommitFails, Committed, SinkRefuses,
      CleanSink, Deactivate, Succeeds, Raises
  <2> QED
    BY <1>0, <1>6, <2>1 DEF Reaped, Prepared, SinkPrepared, CommitFails, Committed, SinkRefuses,
      CleanSink, Deactivate, Succeeds, Raises, Kept, AllTypes
<1>7. CASE AsksToPrepare \/ Commit
  <2>1. HelperTypes' /\ AnswerTypes' /\ QueueTypes'
    BY <1>7, QuietTypes DEF AsksToPrepare, Commit, Sends
  <2> QED
    BY <1>0, <1>7, <2>1 DEF AsksToPrepare, Commit, Sends, Kept, AllTypes
<1>8. CASE Abort \/ CleanPump
  <2>1. HelperTypes' /\ AnswerTypes' /\ QueueTypes'
    BY <1>8, QuietTypes DEF Abort, CleanPump, Release, Sends, Closes, CloseClient
  <2> QED
    BY <1>0, <1>8, <2>1 DEF Abort, CleanPump, Release, Sends, Closes, CloseClient, AllTypes
<1>9. CASE Cancelled
  <2>1. CASE process' = process
    <3>1. HelperTypes' /\ AnswerTypes' /\ QueueTypes'
      BY <1>9, <2>1, QuietTypes DEF Cancelled, Unwind, Closes, CloseClient
    <3> QED
      BY <1>0, <1>9, <3>1 DEF Cancelled, Unwind, Closes, CloseClient, AllTypes
  <2>2. CASE process' # process
    <3>1. /\ UNCHANGED <<socket, phase, ended, engine, produced, replying, reporting, outbox,
                         wire, dropped, clientVars, taken, last>>
          /\ op' = "none" /\ state' = "STOPPED" /\ process' \in {"none", "terminating"}
      BY <1>9, <2>2 DEF Cancelled, Unwind, Closes, CloseClient, SaysTerminate
    <3>2. HelperTypes'
      BY <3>1 DEF AllTypes, HelperTypes
    <3>3. AnswerTypes' /\ QueueTypes'
      BY <3>1 DEF AllTypes, AnswerTypes, QueueTypes
    <3> QED
      BY <1>0, <3>1, <3>2, <3>3 DEF AllTypes
  <2> QED
    BY <2>1, <2>2
<1>10. CASE Read \/ ReadsEnd \/ PumpTakes \/ PumpFails
  BY <1>10, ReadKeepsTypes, ReadsEndKeepsTypes, PumpKeepsTypes
<1> QED
  BY <1>1, <1>2, <1>3, <1>4, <1>5, <1>6, <1>7, <1>8, <1>9, <1>10 DEF Tasks, Calls

LEMMA TypesStep == AllTypes /\ [Next]_vars => AllTypes'
<1> SUFFICES ASSUME AllTypes, [Next]_vars PROVE AllTypes'
  OBVIOUS
<1>1. CASE UNCHANGED vars
  BY <1>1 DEF vars, AllTypes, HelperTypes, AnswerTypes, QueueTypes, ClientTypes
<1> QED
  BY <1>1, HelperKeepsTypes, TasksKeepTypes DEF Next

-----------------------------------------------------------------------------
(***************************************************************************)
(* After an error, or the answer to a stop or an abort, no frame follows.  *)
(***************************************************************************)
\* Tasks take the head of the stream, or give up all that is on the wire.
LEMMA TasksThin ==
  ASSUME AllTypes, Tasks \/ Calls
  PROVE \/ UNCHANGED <<wire, outbox>>
        \/ Read
        \/ wire' = <<>> /\ outbox' \in {outbox, <<>>}
  BY DEF Tasks, Calls, ReadsEnd, Connect, StartFails, Restart, TellsHelper, Reaped, AsksToPrepare,
    Prepared, PrepareFails, SinkPrepared, CommitFails, Committed, SinkRefuses, AbortAnswered,
    PumpTakes, PumpFails, CleanPump, CleanStopped, CleanSink, Prepare, Commit, Abort, Cancelled,
    Deactivate, CloseClient, Unwind, Closes, Release, Sends, Spawn, Fresh, Succeeds, Raises

LEMMA EmptyThins == ASSUME NEW s \in Seq(Messages) PROVE Thinned(<<>>, s)
<1>1. <<>> \in Seq(Messages) /\ Len(<<>>) <= Len(s) /\ \A i \in 1 .. Len(<<>>) : <<>>[i] = s[i]
  OBVIOUS
<1> QED
  BY <1>1, PrefixThins

LEMMA ClosedThins ==
  ASSUME AllTypes, \/ wire' = <<>> /\ outbox' \in {outbox, <<>>}
                   \/ wire' \in Decodable /\ outbox' = <<>>
  PROVE Stream' \in Seq(Messages) /\ Thinned(Stream', Stream)
<1>1. wire \in Seq(Messages) /\ outbox \in Seq(Messages) /\ Stream \in Seq(Messages)
  BY StreamType DEF AllTypes, QueueTypes
<1>2. CASE wire' = <<>> /\ outbox' = <<>>
  <2>1. Stream' = <<>>
    BY <1>2, NothingSent, ConcatEmptySeq DEF Stream
  <2> QED
    BY <1>1, <2>1, NothingSent, EmptyThins
<1>3. CASE wire' = <<>> /\ outbox' = outbox
  <2>1. Stream' = outbox
    BY <1>1, <1>3, ConcatEmptySeq DEF Stream
  <2> QED
    BY <1>1, <2>1, SuffixThins DEF Stream
<1>4. CASE wire' = wire /\ outbox' = <<>>
  <2>1. Stream' = wire
    BY <1>1, <1>4, ConcatEmptySeq DEF Stream
  <2>2. Len(wire) <= Len(Stream) /\ \A i \in 1 .. Len(wire) : wire[i] = Stream[i]
    BY <1>1, StreamType, Lengths DEF AllTypes
  <2> QED
    BY <1>1, <2>1, <2>2, PrefixThins
<1>5. CASE wire # <<>> /\ wire' = Front(wire) /\ outbox' = <<>>
  <2>1. /\ Front(wire) \in Seq(Messages) /\ Len(Front(wire)) = Len(wire) - 1
        /\ \A i \in 1 .. Len(Front(wire)) : Front(wire)[i] = wire[i]
    BY <1>1, <1>5, FrontProperties
  <2>2. Stream' = Front(wire)
    BY <2>1, <1>5, ConcatEmptySeq DEF Stream
  <2>3. Len(wire) <= Len(Stream) /\ \A i \in 1 .. Len(wire) : wire[i] = Stream[i]
        /\ Len(wire) \in Nat /\ Len(Stream) \in Nat
    BY <1>1, StreamType, Lengths DEF AllTypes
  <2>4. Len(Front(wire)) <= Len(Stream) /\ \A i \in 1 .. Len(Front(wire)) : Front(wire)[i] = Stream[i]
    BY <2>1, <2>3
  <2> QED
    BY <1>1, <2>1, <2>2, <2>4, PrefixThins
<1> QED
  BY <1>2, <1>3, <1>4, <1>5 DEF Decodable

LEMMA ReadThins ==
  ASSUME AllTypes, Read
  PROVE /\ Stream \in Seq(Messages) /\ Stream' \in Seq(Messages)
        /\ Without(Stream', Stream, 1) /\ Stream[1] = Head(wire)
        /\ Thinned(Stream', Stream) /\ Head(wire) \in Messages
<1>1. Stream \in Seq(Messages)
  BY StreamType DEF AllTypes
<1>2. Stream' \in Seq(Messages) /\ Without(Stream', Stream, 1) /\ Stream[1] = Head(wire)
      /\ Head(wire) \in Messages
  BY ReadStream DEF AllTypes, Read
<1> QED
  BY <1>1, <1>2, WithoutThins

\* What happens to the stream: a message is queued, or elements of it go.
LEMMA StreamMoves ==
  ASSUME AllTypes, [Next]_vars
  PROVE \/ Stream' = Stream
        \/ Stream' \in Seq(Messages) /\ Thinned(Stream', Stream)
        \/ (Reply \/ Report \/ Frame) /\ Helper /\ UNCHANGED wire
<1>1. CASE UNCHANGED <<wire, outbox>>
  BY <1>1 DEF Stream
<1>2. CASE Tasks \/ Calls
  BY <1>1, <1>2, TasksThin, ReadThins, ClosedThins
<1>3. CASE UNCHANGED vars
  BY <1>1, <1>3 DEF vars
<1>4. CASE Helper
  <2>1. CASE Write
    BY <2>1, WriteStream DEF Write, AllTypes
  <2>2. CASE ReaderEnds
    BY <2>2, ClosedThins DEF ReaderEnds
  <2>3. CASE Gone
    BY <2>3, ClosedThins DEF Gone
  <2>4. CASE Listens \/ Hello \/ HelperPrepare \/ HelperCommit \/ Terminate("abort")
             \/ Terminate("stop") \/ BecomesReady \/ NotReady \/ CaptureFails
    BY <1>1, <2>4 DEF Listens, Hello, HelperPrepare, HelperCommit, Terminate, Handles,
      BecomesReady, NotReady, CaptureFails, Tells
  <2>5. CASE Reply \/ Report \/ Frame
    BY <1>4, <2>5 DEF Reply, Report, Frame
  <2> QED
    BY <1>4, <2>1, <2>2, <2>3, <2>4, <2>5 DEF Helper, HelperThreads, Exits, Dies
<1> QED
  BY <1>2, <1>3, <1>4 DEF Next

LEMMA QuietStep ==
  ASSUME AllTypes, Protocol, StreamQuiet, [Next]_vars PROVE StreamQuiet'
<1>1. Stream \in Seq(Messages) /\ QueueTypes
  BY StreamType DEF AllTypes
<1>2. CASE Stream' = Stream
  BY <1>2 DEF StreamQuiet, Quiet
<1>3. CASE Stream' \in Seq(Messages) /\ Thinned(Stream', Stream)
  BY <1>1, <1>3, ThinnedKeeps DEF StreamQuiet
<1>4. ASSUME NEW m \in Messages, ~IsPcm(m), Enqueue(m), UNCHANGED wire PROVE StreamQuiet'
  BY <1>1, <1>4, EnqueuedKeeps DEF StreamQuiet
<1>5. CASE Reply
  BY <1>4, <1>5, ReplyTypes DEF Reply, AllTypes
<1>6. CASE Report
  BY <1>4, <1>6 DEF Report, AllTypes, AnswerTypes
<1>7. CASE Frame
  <2>1. Pcm(produced') \in Messages /\ Enqueue(Pcm(produced')) /\ UNCHANGED wire
    BY <1>7, Answers DEF Frame, AllTypes, HelperTypes
  <2>2. \A x \in ToSet(Stream) : ~Doom(x)
    BY <1>7 DEF Frame, Protocol, Doomed, InFlight
  <2> QED
    BY <1>1, <2>1, <2>2, EnqueuedKeeps DEF StreamQuiet
<1> QED
  BY <1>2, <1>3, <1>5, <1>6, <1>7, StreamMoves

-----------------------------------------------------------------------------
(***************************************************************************)
(* A helper that is started has nothing of an earlier connection.          *)
(***************************************************************************)
LEMMA FreshInit == Init => Stages /\ AllTypes /\ FreshStart /\ StreamQuiet /\ Protocol /\ Agreed /\ Frames
<1> SUFFICES ASSUME Init
             PROVE Stages /\ AllTypes /\ FreshStart /\ StreamQuiet /\ Protocol /\ Agreed /\ Frames
  OBVIOUS
<1>1. Stages
  BY DEF Init, HelperInit, Stages
<1>2. HelperTypes /\ ClientTypes
  BY DEF Init, HelperInit, HelperTypes, ClientTypes, Ops
<1>3. AnswerTypes /\ QueueTypes
  BY NothingSent DEF Init, HelperInit, AnswerTypes, QueueTypes
<1>4. FreshStart
  BY DEF Init, HelperInit, FreshStart, Untouched, Nothing, Context
<1>5. Stream = <<>>
  BY NothingSent, ConcatEmptySeq DEF Init, HelperInit, Stream
<1>6. StreamQuiet
  BY <1>5 DEF StreamQuiet, Quiet
<1>7. socket = "none" /\ op = "none" /\ conn = "none"
  BY DEF Init, HelperInit
<1>8. Protocol /\ Agreed /\ Frames
  BY <1>7 DEF Protocol, Agreed, Frames
<1> QED
  BY <1>1, <1>2, <1>3, <1>4, <1>6, <1>8 DEF AllTypes

LEMMA UntouchedStep == ASSUME Stages, Untouched, [Next]_vars PROVE Untouched'
<1> USE DEF Untouched
<1>1. CASE Helper
  <2>1. op' = op
    BY <1>1 DEF Helper
  <2>2. CASE Listens
    BY <2>1, <2>2 DEF Listens
  <2>3. CASE Gone
    BY <2>1, <2>3 DEF Gone, Decodable
  <2>4. CASE Hello \/ HelperPrepare \/ HelperCommit \/ Terminate("abort") \/ Terminate("stop")
    BY <2>1, <2>4 DEF Hello, HelperPrepare, HelperCommit, Terminate, Handles
  <2>5. CASE BecomesReady \/ NotReady \/ CaptureFails
    BY <2>1, <2>5 DEF BecomesReady, NotReady, CaptureFails, Context
  <2>6. CASE Reply \/ Report \/ Frame \/ Write \/ ReaderEnds
    BY <2>1, <2>6 DEF Reply, Report, Frame, Write, ReaderEnds
  <2> QED
    BY <1>1, <2>2, <2>3, <2>4, <2>5, <2>6 DEF Helper, HelperThreads, Exits, Dies
<1>2. CASE op' # "starting"
  BY <1>2
<1>3. CASE Prepare \/ Restart
  BY <1>3 DEF Prepare, Restart, Spawn, Fresh
<1>4. CASE op = "starting" /\ op' = op /\ (Tasks \/ Calls)
  <2>1. UNCHANGED helperVars
    BY <1>3, <1>4 DEF Tasks, Calls, Stages, Read, ReadsEnd, Connect, StartFails, TellsHelper, Reaped,
      AsksToPrepare, Prepared, PrepareFails, SinkPrepared, CommitFails, Committed, SinkRefuses,
      AbortAnswered, PumpTakes, PumpFails, CleanPump, CleanStopped, CleanSink, Commit, Abort,
      Cancelled, Deactivate, Unwind, CloseClient, Restart, Prepare, MayPrepare
  <2> QED
    BY <1>4, <2>1
<1>5. CASE op # "starting" /\ op' = "starting" /\ (Tasks \/ Calls)
  <2>1. Prepare \/ Restart
    BY <1>5 DEF Tasks, Calls, Read, ReadsEnd, Connect, StartFails, TellsHelper, Reaped,
      AsksToPrepare, Prepared, PrepareFails, SinkPrepared, CommitFails, Committed, SinkRefuses,
      AbortAnswered, PumpTakes, PumpFails, CleanPump, CleanStopped, CleanSink, Commit, Abort,
      Cancelled, Deactivate, Unwind, CloseClient
  <2> QED
    BY <1>3, <2>1
<1>6. CASE UNCHANGED vars
  BY <1>6 DEF vars
<1> QED
  BY <1>1, <1>2, <1>4, <1>5, <1>6 DEF Next

LEMMA NothingStep == ASSUME Stages, Nothing, [Next]_vars PROVE Nothing'
<1> USE DEF Nothing
<1>1. CASE Helper \/ UNCHANGED vars
  BY <1>1 DEF Helper, vars
<1>2. CASE Prepare
  BY <1>2 DEF Prepare
<1>3. CASE PumpTakes
  BY <1>3 DEF PumpTakes, Stages
<1>4. CASE Tasks /\ ~PumpTakes
  BY <1>4 DEF Tasks, Stages, Read, ReadsEnd, Connect, StartFails, Restart, TellsHelper, Reaped,
    AsksToPrepare, Prepared, PrepareFails, SinkPrepared, CommitFails, Committed, SinkRefuses,
    AbortAnswered, PumpFails, CleanPump, CleanStopped, CleanSink, Unwind, CloseClient, Kept
<1>5. CASE Calls /\ ~Prepare
  BY <1>5 DEF Calls, Stages, Commit, Abort, Cancelled, Deactivate, Unwind, Kept
<1> QED
  BY <1>1, <1>2, <1>3, <1>4, <1>5 DEF Next

LEMMA EngineStep == ASSUME AllTypes, Context => engine, [Next]_vars PROVE Context' => engine'
<1> USE DEF Context
<1>1. CASE UNCHANGED <<phase, engine>>
  BY <1>1
<1>2. CASE phase' = "stopped"
  BY <1>2
<1>3. CASE Tasks \/ Calls \/ UNCHANGED vars
  <2>1. UNCHANGED <<phase, engine>> \/ phase' = "stopped"
    BY <1>3 DEF Tasks, Calls, Read, ReadsEnd, Connect, StartFails, Restart, TellsHelper, Reaped,
      AsksToPrepare, Prepared, PrepareFails, SinkPrepared, CommitFails, Committed, SinkRefuses,
      AbortAnswered, PumpTakes, PumpFails, CleanPump, CleanStopped, CleanSink, Prepare, Commit,
      Abort, Cancelled, Deactivate, CloseClient, Unwind, Closes, Release, Sends, Spawn, Fresh,
      Succeeds, Raises, vars
  <2> QED
    BY <1>1, <1>2, <2>1
<1>4. CASE HelperPrepare
  BY <1>4 DEF HelperPrepare
<1>5. CASE HelperCommit
  BY <1>5 DEF HelperCommit
<1>6. ASSUME NEW r, Terminate(r) PROVE Context' => engine'
  BY <1>6 DEF Terminate, AllTypes, HelperTypes
<1>7. CASE BecomesReady \/ CaptureFails
  BY <1>7 DEF BecomesReady, CaptureFails
<1>8. CASE Helper
  <2>1. CASE Reply \/ Report \/ Frame
    BY <1>1, <1>2, <2>1 DEF Reply, Report, Frame, Enqueue
  <2>2. CASE Listens \/ Hello \/ Write
    BY <1>1, <2>2 DEF Listens, Hello, Write
  <2>3. CASE ReaderEnds \/ Gone \/ NotReady
    BY <1>2, <2>3 DEF ReaderEnds, ClientDisconnected, Gone, NotReady
  <2> QED
    BY <1>4, <1>5, <1>6, <1>7, <1>8, <2>1, <2>2, <2>3 DEF Helper, HelperThreads, Exits, Dies
<1> QED
  BY <1>3, <1>8 DEF Next

LEMMA FreshStep == ASSUME Stages, AllTypes, FreshStart, [Next]_vars PROVE FreshStart'
  BY UntouchedStep, NothingStep, EngineStep DEF FreshStart

-----------------------------------------------------------------------------
(***************************************************************************)
(* Which answers are on their way.                                         *)
(***************************************************************************)
LEMMA Requested ==
  ASSUME NEW r, NEW q
  PROVE /\ Head(<<r>>) = r /\ Tail(<<r>>) = <<>> /\ <<r>> # <<>> /\ Append(<<>>, r) = <<r>>
        /\ Head(<<r, q>>) = r /\ Tail(<<r, q>>) = <<q>> /\ <<r, q>> # <<>>
        /\ Append(<<r>>, q) = <<r, q>> /\ <<r>> # <<r, q>> /\ <<q>> # <<r, q>>
<1>1. Head(<<r>>) = r /\ Head(<<r, q>>) = r
  OBVIOUS
<1>2. <<r>> # <<>> /\ <<r, q>> # <<>> /\ <<r>> # <<r, q>> /\ <<q>> # <<r, q>>
  <2>1. Len(<<r>>) = 1 /\ Len(<<q>>) = 1
    OBVIOUS
  <2>2. Len(<<r, q>>) = 2
    <3>1. <<r>> \in Seq({r, q}) /\ q \in {r, q} /\ <<r, q>> = Append(<<r>>, q)
      OBVIOUS
    <3>2. Len(Append(<<r>>, q)) = Len(<<r>>) + 1
      BY <3>1, AppendProperties
    <3> QED
      BY <2>1, <3>1, <3>2
  <2>3. Len(<<>>) = 0
    BY EmptySeq
  <2> QED
    BY <2>1, <2>2, <2>3
<1>3. Append(<<>>, r) = <<r>> /\ Append(<<r>>, q) = <<r, q>>
  <2>1. <<>> \in Seq({r}) /\ <<r>> \in Seq({r}) /\ r \in {r}
    OBVIOUS
  <2>2. Append(<<>>, r) = <<>> \o <<r>> /\ <<>> \o <<r>> = <<r>>
    BY <2>1, AppendIsConcat, ConcatEmptySeq
  <2>3. <<r>> \in Seq({r, q}) /\ q \in {r, q} /\ <<r, q>> = Append(<<r>>, q)
    OBVIOUS
  <2> QED
    BY <2>2, <2>3
<1>4. Tail(<<r>>) = <<>>
  OBVIOUS
<1>5. Tail(<<r, q>>) = <<q>>
  OBVIOUS
<1> QED
  BY <1>1, <1>2, <1>3, <1>4, <1>5

LEMMA AnswerSent ==
  ASSUME NEW r, Handles(r), NEW m \in Messages, replying' = <<m>>
  PROVE InFlight' = InFlight \cup {m} /\ Stream' = Stream
<1>1. Stream' = Stream /\ reporting' = reporting
  BY DEF Handles, Stream
<1>2. ToSet(replying) = {} /\ ToSet(replying') = {m}
  BY NoMessage, OneAnswer DEF Handles
<1> QED
  BY <1>1, <1>2 DEF InFlight

LEMMA NewsSent ==
  ASSUME NEW S, reporting' = reporting \cup S, UNCHANGED <<replying, outbox, wire>>
  PROVE InFlight' = InFlight \cup S /\ Stream' = Stream
<1>1. Stream' = Stream /\ ToSet(replying') = ToSet(replying)
  BY DEF Stream
<1> QED
  BY <1>1 DEF InFlight

\* A message that is queued is no longer held by a thread.
LEMMA Delivered ==
  ASSUME AllTypes, Reply \/ Report
  PROVE /\ InFlight' \subseteq InFlight
        /\ \/ socket' = "cut" /\ phase' = "stopped"
           \/ /\ UNCHANGED <<socket, phase, engine>>
              /\ \A x \in reporting \cup ToSet(Stream) :
                   ~IsPcm(x) => x \in reporting' \cup ToSet(Stream')
<1>1. CASE Reply
  <2>1. /\ Head(replying) \in Messages /\ ToSet(replying) = {Head(replying)}
        /\ Enqueue(Head(replying)) /\ UNCHANGED <<wire, reporting>> /\ replying' = <<>>
    BY <1>1, ReplyTypes DEF Reply, AllTypes
  <2>2. /\ ToSet(Stream') \subseteq ToSet(Stream) \cup {Head(replying)}
        /\ \/ /\ UNCHANGED <<socket, phase, ended, engine>>
              /\ \A x \in ToSet(Stream) \cup {Head(replying)} : ~IsPcm(x) => x \in ToSet(Stream')
           \/ socket' = "cut" /\ phase' = "stopped"
    BY <2>1, EnqueuedSet DEF AllTypes
  <2>3. ToSet(replying') = {}
    BY <2>1, NoMessage
  <2> QED
    BY <2>1, <2>2, <2>3 DEF InFlight
<1>2. CASE Report
  <2>1. PICK m \in reporting : Enqueue(m) /\ reporting' = reporting \ {m}
    BY <1>2 DEF Report
  <2>2. m \in Messages /\ UNCHANGED <<wire, replying>>
    BY <1>2, <2>1 DEF Report, AllTypes, AnswerTypes
  <2>3. /\ ToSet(Stream') \subseteq ToSet(Stream) \cup {m}
        /\ \/ /\ UNCHANGED <<socket, phase, ended, engine>>
              /\ \A x \in ToSet(Stream) \cup {m} : ~IsPcm(x) => x \in ToSet(Stream')
           \/ socket' = "cut" /\ phase' = "stopped"
    BY <2>1, <2>2, EnqueuedSet DEF AllTypes
  <2>4. ToSet(replying') = ToSet(replying)
    BY <2>2
  <2> QED
    BY <2>1, <2>3, <2>4 DEF InFlight
<1> QED
  BY <1>1, <1>2

LEMMA FrameSent ==
  ASSUME AllTypes, Frame
  PROVE /\ Pcm(produced') \in Messages /\ IsPcm(Pcm(produced')) /\ ~Doom(Pcm(produced'))
        /\ InFlight' \subseteq InFlight \cup {Pcm(produced')}
        /\ UNCHANGED <<socket, phase, engine, reporting>>
        /\ \A x \in ToSet(Stream) : ~IsPcm(x) => x \in ToSet(Stream')
<1>1. /\ Pcm(produced') \in Messages /\ IsPcm(Pcm(produced')) /\ ~Doom(Pcm(produced'))
      /\ Enqueue(Pcm(produced')) /\ UNCHANGED <<wire, replying, reporting>>
  BY Answers DEF Frame, AllTypes, HelperTypes
<1>2. /\ ToSet(Stream') \subseteq ToSet(Stream) \cup {Pcm(produced')}
      /\ UNCHANGED <<socket, phase, ended, engine>>
      /\ \A x \in ToSet(Stream) \cup {Pcm(produced')} : ~IsPcm(x) => x \in ToSet(Stream')
  BY <1>1, EnqueuedSet DEF AllTypes
<1>3. ToSet(replying') = ToSet(replying)
  BY <1>1
<1> QED
  BY <1>1, <1>2, <1>3 DEF InFlight

LEMMA Received ==
  ASSUME AllTypes, Read
  PROVE /\ Head(wire) \in Messages /\ Head(wire) \in InFlight /\ InFlight' \subseteq InFlight
        /\ \A x \in reporting \cup ToSet(Stream) :
             x # Head(wire) => x \in reporting' \cup ToSet(Stream')
<1>1. /\ Stream \in Seq(Messages) /\ Stream' \in Seq(Messages) /\ Head(wire) \in Messages
      /\ Without(Stream', Stream, 1) /\ Stream[1] = Head(wire) /\ Thinned(Stream', Stream)
  BY ReadThins
<1>2. ToSet(Stream') \subseteq ToSet(Stream)
  BY <1>1, ThinnedSet
<1>3. Head(wire) \in ToSet(Stream)
  BY <1>1, Lengths DEF Without, ToSet
<1>4. ASSUME NEW x \in ToSet(Stream), x # Head(wire) PROVE x \in ToSet(Stream')
  <2>1. PICK i \in 1 .. Len(Stream) : x = Stream[i]
    BY <1>1, Lengths DEF ToSet
  <2>2. i # 1
    BY <1>1, <1>4, <2>1
  <2>3. \E j \in 1 .. Len(Stream') : Stream'[j] = Stream[i]
    BY <1>1, <2>2, WithoutKeeps
  <2> QED
    BY <1>1, <2>1, <2>3, Lengths DEF ToSet
<1>5. reporting' = reporting /\ ToSet(replying') = ToSet(replying)
  BY DEF Read
<1> QED
  BY <1>1, <1>2, <1>3, <1>4, <1>5 DEF InFlight

-----------------------------------------------------------------------------
(***************************************************************************)
(* How far a connection is: the steps of the helper.                       *)
(***************************************************************************)
Steady == UNCHANGED <<clientVars, workVars>>
Staged == Connected /\ Greeting /\ Preparing /\ Later /\ Doomed

LEMMA Shrinks ==
  ASSUME Staged, Steady, UNCHANGED <<commands, phase>>, process' \in {process, "up"},
         InFlight' \subseteq InFlight
  PROVE Staged'
<1> USE DEF Steady, Staged
<1>1. Connected'
  BY DEF Connected
<1>2. Greeting'
  BY DEF Greeting
<1>3. Preparing'
  BY DEF Preparing
<1>4. Later'
  BY DEF Later, Asked
<1>5. Doomed'
  BY DEF Doomed
<1> QED
  BY <1>1, <1>2, <1>3, <1>4, <1>5

LEMMA HelloStaged == ASSUME AllTypes, Staged, Steady, Hello PROVE Staged'
<1> USE DEF Steady, Staged
<1>1. commands # <<>> /\ Head(commands) = "hello" /\ commands' = Tail(commands)
      /\ UNCHANGED <<process, phase>>
  BY DEF Hello, Handles
<1>2. op = "hello" /\ commands = <<"hello">> /\ commands' = <<>> /\ phase = "stopped"
      /\ InFlight = {}
  <2>1. commands \notin {<<"prepare">>, <<"commit">>, <<"abort">>, <<"stop">>, <<"commit", "abort">>}
    BY <1>1, Requested
  <2>2. op = "hello"
    BY <1>1, <2>1 DEF Connected, Preparing, Later
  <2>3. commands = <<"hello">> /\ InFlight = {} /\ phase = "stopped"
    BY <1>1, <2>2 DEF Greeting
  <2> QED
    BY <1>1, <2>2, <2>3, Requested
<1>3. InFlight' = {Ack("hello")}
  BY <1>2, AnswerSent, Answers DEF Hello, Requests
<1>4. Connected' /\ Greeting'
  BY <1>1, <1>2, <1>3 DEF Connected, Greeting
<1>5. Preparing' /\ Later'
  BY <1>2 DEF Preparing, Later
<1>6. Doomed'
  BY <1>1, <1>2 DEF Doomed
<1> QED
  BY <1>4, <1>5, <1>6

LEMMA PrepareStaged == ASSUME AllTypes, Staged, Steady, HelperPrepare PROVE Staged'
<1> USE DEF Steady, Staged
<1>1. commands # <<>> /\ Head(commands) = "prepare" /\ commands' = Tail(commands)
      /\ phase' = "preparing" /\ process' = process
  BY DEF HelperPrepare, Handles
<1>2. op = "preparing" /\ commands = <<"prepare">> /\ commands' = <<>>
      /\ InFlight \subseteq {Ack("hello")} /\ answer # "ok"
  <2>1. commands \notin {<<"hello">>, <<"commit">>, <<"abort">>, <<"stop">>, <<"commit", "abort">>}
    BY <1>1, Requested
  <2>2. op = "preparing"
    BY <1>1, <2>1 DEF Connected, Greeting, Later
  <2>3. commands = <<"prepare">> /\ InFlight \subseteq {Ack("hello")} /\ answer # "ok"
    BY <1>1, <2>2 DEF Preparing
  <2> QED
    BY <1>1, <2>2, <2>3, Requested
<1>3. Stream' = Stream /\ InFlight' = InFlight
  BY DEF HelperPrepare, Handles, InFlight, Stream
<1>4. Ack("prepare") # Ack("hello") /\ ~Doom(Ack("hello"))
  BY DEF Ack, Doom
<1>5. Connected' /\ Greeting' /\ Later'
  BY <1>1, <1>2 DEF Connected, Greeting, Later
<1>6. Preparing'
  BY <1>1, <1>2, <1>3, <1>4 DEF Preparing
<1>7. Doomed'
  BY <1>2, <1>3, <1>4 DEF Doomed
<1> QED
  BY <1>5, <1>6, <1>7

\* The requests that are made later, by what is done with the first of them.
LEMMA LaterCommands ==
  ASSUME Staged, commands # <<>>, Head(commands) \in {"commit", "abort", "stop"}
  PROVE /\ op \in {"prepared", "committing", "committed", "aborting"}
        /\ op = "prepared" => state # "READY"
        /\ \/ /\ Head(commands) = "commit" /\ op # "committed"
              /\ \/ commands = <<"commit">> /\ Tail(commands) = <<>>
                 \/ /\ commands = <<"commit", "abort">> /\ Tail(commands) = <<"abort">>
                    /\ op = "aborting"
           \/ /\ commands = <<Head(commands)>> /\ Tail(commands) = <<>>
              /\ Head(commands) # "commit" /\ op \in {"committed", "aborting"}
              /\ op = "committed" => cleanup \notin {"none", "pump"}
<1> USE DEF Staged
<1>1. op \notin {"hello", "preparing"}
  BY Requested DEF Greeting, Preparing
<1>2. op \in {"sink", "prepared", "committing", "committed", "aborting"}
  BY <1>1 DEF Connected
<1>3. commands \in {<<"commit">>, <<"abort">>, <<"stop">>, <<"commit", "abort">>}
  BY <1>2 DEF Later
<1>4. op # "sink" /\ (op = "prepared" => state # "READY")
      /\ (op \in {"prepared", "committing"} => commands = <<"commit">>)
      /\ (op = "committed" => commands = <<"stop">> /\ cleanup \notin {"none", "pump"})
  BY <1>2 DEF Later
<1>5. CASE commands = <<"commit">>
  BY <1>2, <1>4, <1>5, Requested
<1>6. CASE commands = <<"abort">>
  BY <1>2, <1>4, <1>6, Requested
<1>7. CASE commands = <<"stop">>
  BY <1>2, <1>4, <1>7, Requested
<1>8. CASE commands = <<"commit", "abort">>
  BY <1>2, <1>4, <1>8, Requested
<1> QED
  BY <1>3, <1>5, <1>6, <1>7, <1>8

LEMMA CommitStaged == ASSUME AllTypes, Staged, Steady, HelperCommit PROVE Staged'
<1> USE DEF Steady, Staged
<1>1. /\ commands # <<>> /\ Head(commands) = "commit" /\ commands' = Tail(commands)
      /\ process' = process
      /\ phase' = IF phase = "ready" THEN "active" ELSE phase
      /\ replying' = <<IF phase = "ready" THEN Ack("commit") ELSE Refusal("commit")>>
  BY DEF HelperCommit, Handles
<1>2. /\ op \in {"prepared", "committing", "aborting"} /\ (op = "prepared" => state # "READY")
      /\ commands' = <<>> \/ (commands' = <<"abort">> /\ op = "aborting")
      /\ commands \in {<<"commit">>, <<"commit", "abort">>}
  BY <1>1, LaterCommands
<1>3. phase # "preparing" /\ phase # "active" /\ ~Asked
      /\ (op = "committing" => pending = "commit")
  BY <1>2 DEF Later
<1>4. /\ Ack("commit") \in Messages /\ Refusal("commit") \in Messages
      /\ Ack("commit") # Refusal("commit") /\ ~Doom(Ack("commit"))
  BY Answers DEF Requests, Ack, Refusal
<1>5. InFlight' = InFlight \cup {IF phase = "ready" THEN Ack("commit") ELSE Refusal("commit")}
  BY <1>1, <1>4, AnswerSent DEF HelperCommit
<1>6. Connected' /\ Greeting' /\ Preparing'
  BY <1>1, <1>2 DEF Connected, Greeting, Preparing
<1>7. <<"abort">> \notin {<<"commit">>, <<"commit", "abort">>} /\ <<>> \notin {<<"commit">>, <<"commit", "abort">>}
  BY Requested
<1>8. Later'
  BY <1>1, <1>2, <1>3, <1>4, <1>5, <1>7 DEF Later, Asked
<1>9. Doomed'
  <2>1. CASE phase = "ready"
    BY <1>4, <1>5, <2>1 DEF Doomed
  <2>2. CASE phase # "ready"
    BY <1>1, <1>3, <2>2 DEF AllTypes, HelperTypes, Doomed
  <2> QED
    BY <2>1, <2>2
<1> QED
  BY <1>6, <1>8, <1>9

LEMMA TerminateStaged ==
  ASSUME AllTypes, Staged, Steady, NEW r \in {"abort", "stop"}, Terminate(r) PROVE Staged'
<1> USE DEF Steady, Staged
<1>1. /\ commands # <<>> /\ Head(commands) = r /\ commands' = Tail(commands)
      /\ process' = process
      /\ phase' = IF Context THEN "stopped" ELSE phase
      /\ replying' = <<IF Context \/ ended THEN Ack(r) ELSE Refusal(r)>>
  BY DEF Terminate, Handles
<1>2. op \in {"committed", "aborting"} /\ commands' = <<>>
  BY <1>1, LaterCommands
<1>3. phase' \in {"stopped", "failed"}
  BY <1>1 DEF Context, AllTypes, HelperTypes
<1>4. /\ Ack(r) \in Messages /\ Refusal(r) \in Messages
      /\ {Ack("commit"), Refusal("commit")} \cap {Ack(r), Refusal(r)} = {}
  BY Answers DEF Requests, Ack, Refusal
<1>5. InFlight' = InFlight \cup {IF Context \/ ended THEN Ack(r) ELSE Refusal(r)}
  BY <1>1, <1>4, AnswerSent DEF Terminate
<1>6. Connected' /\ Greeting' /\ Preparing' /\ Doomed'
  BY <1>1, <1>2, <1>3 DEF Connected, Greeting, Preparing, Doomed
<1>7. Ack("commit") \notin InFlight' \/ Refusal("commit") \notin InFlight'
  BY <1>2, <1>4, <1>5 DEF Later
<1>8. Later'
  BY <1>2, <1>3, <1>7, Requested DEF Later
<1> QED
  BY <1>6, <1>8

LEMMA EngineStaged ==
  ASSUME AllTypes, Staged, Steady, BecomesReady \/ NotReady \/ CaptureFails PROVE Staged'
<1> USE DEF Steady, Staged
<1>1. UNCHANGED <<process, commands, replying, outbox, wire>>
  BY DEF BecomesReady, NotReady, CaptureFails, Tells
<1>2. /\ Ack("commit") \notin {Ack("prepare"), Refusal("prepare"), Failure}
      /\ Refusal("commit") \notin {Ack("prepare"), Refusal("prepare"), Failure}
      /\ ~Doom(Ack("prepare"))
  BY DEF Ack, Refusal, Failure, Doom
<1>3. CASE BecomesReady \/ NotReady
  <2>1. phase = "preparing"
    BY <1>3 DEF BecomesReady, NotReady
  <2>2. op = "preparing" /\ ~(\E m \in InFlight : Doom(m)) /\ commands = <<>>
        /\ answer # "ok" /\ Ack("prepare") \notin InFlight
    BY <2>1 DEF Connected, Greeting, Later, Doomed, Preparing
  <2>3. CASE BecomesReady
    <3>1. InFlight' = InFlight \cup {Ack("prepare")} /\ phase' = "ready"
      BY <1>1, <2>3, NewsSent DEF BecomesReady, Tells
    <3>2. Connected' /\ Greeting' /\ Later'
      BY <1>1, <2>2 DEF Connected, Greeting, Later
    <3>3. Preparing'
      BY <1>1, <2>2, <3>1 DEF Preparing
    <3>4. Doomed'
      BY <1>2, <2>2, <3>1 DEF Doomed
    <3> QED
      BY <3>2, <3>3, <3>4
  <2>4. CASE NotReady
    <3>1. InFlight' = InFlight \cup {Refusal("prepare")} /\ phase' = "stopped"
      BY <1>1, <2>4, NewsSent DEF NotReady, Tells
    <3>2. Connected' /\ Greeting' /\ Later' /\ Doomed'
      BY <1>1, <2>2, <3>1 DEF Connected, Greeting, Later, Doomed
    <3>3. Preparing'
      BY <1>1, <2>2, <3>1 DEF Preparing
    <3> QED
      BY <3>2, <3>3
  <2> QED
    BY <1>3, <2>3, <2>4
<1>4. CASE CaptureFails
  <2>1. phase \in {"preparing", "ready", "active"} /\ phase' = "failed"
        /\ InFlight' = InFlight \cup Announced
    BY <1>1, <1>4, NewsSent DEF CaptureFails, Context
  <2>2. Connected' /\ Greeting' /\ Doomed'
    BY <1>1, <2>1 DEF Connected, Greeting, Doomed
  <2>3. Preparing'
    <3>1. op = "preparing" => Announced = {Refusal("prepare")} /\ commands = <<>>
      BY <2>1 DEF Preparing, Announced
    <3> QED
      BY <1>1, <2>1, <3>1 DEF Preparing
  <2>4. Later'
    <3>1. Announced \subseteq {Refusal("prepare"), Failure}
      BY DEF Announced
    <3>2. (Ack("commit") \in InFlight' <=> Ack("commit") \in InFlight)
          /\ (Refusal("commit") \in InFlight' <=> Refusal("commit") \in InFlight)
      BY <1>2, <2>1, <3>1
    <3> QED
      BY <1>1, <2>1, <3>2 DEF Later, Asked
  <2> QED
    BY <2>2, <2>3, <2>4
<1> QED
  BY <1>3, <1>4

LEMMA FrameStaged == ASSUME AllTypes, Staged, Steady, Frame PROVE Staged'
<1> USE DEF Steady, Staged
<1>1. phase = "active" /\ phase' = "active" /\ UNCHANGED <<process, commands>>
  BY FrameSent DEF Frame
<1>2. op \notin {"hello", "preparing"} /\ ~(\E m \in InFlight : Doom(m))
  BY <1>1 DEF Greeting, Preparing, Doomed
<1>3. /\ InFlight' \subseteq InFlight \cup {Pcm(produced')} /\ IsPcm(Pcm(produced'))
      /\ ~Doom(Pcm(produced'))
  BY FrameSent
<1>4. Pcm(produced') \notin {Ack("commit"), Refusal("commit")}
  BY <1>3, Answers DEF Requests
<1>5. Connected' /\ Greeting' /\ Preparing'
  BY <1>1, <1>2 DEF Connected, Greeting, Preparing
<1>6. Later'
  <2>1. (Ack("commit") \in InFlight' => Ack("commit") \in InFlight)
        /\ (Refusal("commit") \in InFlight' => Refusal("commit") \in InFlight)
    BY <1>3, <1>4
  <2> QED
    BY <1>1, <2>1 DEF Later, Asked
<1>7. Doomed'
  BY <1>2, <1>3 DEF Doomed
<1> QED
  BY <1>5, <1>6, <1>7

LEMMA HelperStaged == ASSUME AllTypes, Protocol, Helper PROVE Protocol'
<1> SUFFICES ASSUME socket' = "open" PROVE Staged'
  BY DEF Protocol, Staged
<1>1. Steady
  BY DEF Helper, Steady
<1>2. socket = "open"
  BY DEF Helper, HelperThreads, Listens, Hello, HelperPrepare, HelperCommit, Terminate, Handles,
    BecomesReady, Tells, Reply, Report, Write, ReaderEnds, Exits, Gone, Frame, NotReady,
    CaptureFails, Dies
<1>3. Staged
  BY <1>2 DEF Protocol, Staged
<1>4. ~ReaderEnds /\ ~Gone
  BY DEF ReaderEnds, Gone
<1>5. CASE Listens \/ Write
  <2>1. Stream' = Stream /\ UNCHANGED <<commands, phase, reporting, replying>>
        /\ process' \in {process, "up"}
    BY <1>5, WriteStream DEF Listens, Write, AllTypes, Stream
  <2>2. InFlight' = InFlight
    BY <2>1 DEF InFlight
  <2> QED
    BY <1>1, <1>3, <2>1, <2>2, Shrinks
<1>6. CASE Reply \/ Report
  <2>1. UNCHANGED <<process, commands>>
    BY <1>6 DEF Reply, Report
  <2>2. InFlight' \subseteq InFlight /\ phase' = phase
    BY <1>6, Delivered
  <2> QED
    BY <1>1, <1>3, <2>1, <2>2, Shrinks
<1> QED
  BY <1>1, <1>3, <1>4, <1>5, <1>6, HelloStaged, PrepareStaged, CommitStaged, TerminateStaged,
    EngineStaged, FrameStaged DEF Helper, HelperThreads, Exits, Dies

(***************************************************************************)
(* How far a connection is: the steps of the client and of its callers.    *)
(***************************************************************************)
LEMMA ConnectStaged == ASSUME AllTypes, Stages, FreshStart, Connect PROVE Staged'
<1>1. /\ op = "starting" /\ phase = "stopped" /\ replying = <<>> /\ reporting = {}
      /\ outbox = <<>> /\ wire = <<>>
  BY DEF Connect, FreshStart, Untouched
<1>2. /\ UNCHANGED <<phase, replying, reporting, outbox, wire, reaping, cleanup, process>>
      /\ op' = "hello" /\ commands' = <<"hello">> /\ pending' = "hello" /\ answer' = "none"
      /\ process = "up" /\ conn' = "open"
  BY DEF Connect
<1>3. InFlight' = {}
  <2>1. Stream' = <<>>
    BY <1>1, <1>2, NothingSent, ConcatEmptySeq DEF Stream
  <2> QED
    BY <1>1, <1>2, <2>1, NoMessage DEF InFlight
<1>4. reaping = "none" /\ cleanup \notin {"reap", "sink"}
  BY <1>1 DEF Stages
<1>5. Connected'
  BY <1>2, <1>4 DEF Connected
<1>6. Greeting'
  BY <1>1, <1>2, <1>3 DEF Greeting
<1>7. Preparing' /\ Later' /\ Doomed'
  BY <1>2, <1>3 DEF Preparing, Later, Doomed
<1> QED
  BY <1>5, <1>6, <1>7 DEF Staged

LEMMA ReadStaged == ASSUME AllTypes, Staged, Read PROVE Staged'
<1> USE DEF Staged
<1> DEFINE m == Head(wire)
<1>1. m \in Messages /\ m \in InFlight /\ InFlight' \subseteq InFlight
  BY Received
<1>2. /\ UNCHANGED <<process, phase, commands, op, pending, state, cleanup, reaping>>
      /\ conn' \in {conn, "failed"}
  BY DEF Read, Unexpected, Fails
<1>3. answer' = "ok" => answer = "ok" \/ (m.what = "ack" /\ m.to = pending /\ ~IsPcm(m))
  BY DEF Read, Unexpected, Fails, Answered
<1>4. answer' # answer => m.to = pending \/ m.what = "error"
  BY DEF Read, Unexpected, Fails, Answered
<1>5. Connected'
  BY <1>2 DEF Connected
<1>6. Doomed'
  BY <1>1, <1>2 DEF Doomed
<1>7. Greeting'
  <2>1. op = "hello" => InFlight # {} /\ commands = <<>>
    BY <1>1 DEF Greeting
  <2> QED
    BY <1>1, <1>2, <2>1 DEF Greeting
<1>8. Preparing'
  <2> SUFFICES ASSUME op = "preparing" PROVE Preparing'
    BY <1>2 DEF Preparing
  <2>1. m \in {Ack("hello"), Ack("prepare"), Refusal("prepare")} /\ pending = "prepare"
    BY <1>1 DEF Preparing
  <2>2. Ack("hello").to = "hello" /\ Refusal("prepare").what = "error"
    BY DEF Ack, Refusal
  <2>3. answer' = "ok" => answer = "ok" \/ m = Ack("prepare")
    BY <1>3, <2>1, <2>2
  <2>4. Ack("prepare") # Ack("hello")
    BY DEF Ack
  <2> HIDE DEF m
  <2> QED
    BY <1>1, <1>2, <2>3, <2>4 DEF Preparing
<1>9. Later'
  <2>1. op = "committing" /\ answer' = "ok" => commands = <<>>
    <3>1. CASE answer = "ok"
      BY <3>1 DEF Later
    <3>2. ASSUME op = "committing", m.what = "ack", m.to = pending PROVE commands = <<>>
      <4>1. m.to = "commit"
        BY <3>2 DEF Later
      <4>2. m = Ack("commit")
        BY <1>1, <3>2, <4>1 DEF Messages, Ack, IsPcm
      <4> QED
        BY <1>1, <3>2, <4>2 DEF Later, Asked
    <3> QED
      BY <1>3, <3>1, <3>2
  <2> QED
    BY <1>1, <1>2, <2>1 DEF Later, Asked
<1> QED
  BY <1>5, <1>6, <1>7, <1>8, <1>9

\* Requests and results change what the caller waits for, and send a request at most.
LEMMA CallStaged ==
  ASSUME AllTypes, Stages, Staged, Tasks \/ Calls, ~Connect, ~Read, socket' = "open"
  PROVE Staged'
<1> USE DEF Staged
<1>1. ~StartFails /\ ~PrepareFails /\ ~AbortAnswered /\ ~CleanStopped /\ ~Prepare /\ ~Restart
      /\ ~ReadsEnd
  BY DEF StartFails, PrepareFails, AbortAnswered, CleanStopped, Prepare, Restart, ReadsEnd, Spawn,
    Unwind, Closes, CloseClient
<1>2. ~TellsHelper /\ ~Reaped /\ ~CleanSink
  BY DEF TellsHelper, Reaped, CleanSink, Connected
<1>3. UNCHANGED <<process, phase, replying, reporting, outbox, wire>>
      /\ reaping' = "none"
  BY <1>1, <1>2 DEF Tasks, Calls, AsksToPrepare, Prepared, SinkPrepared, CommitFails, Committed,
    SinkRefuses, PumpTakes, PumpFails, CleanPump, Commit, Abort, Cancelled, Deactivate,
    Sends, Succeeds, Raises, Kept, Release, Closes, CloseClient, Unwind, Connected
<1>4. InFlight' = InFlight
  BY <1>3 DEF InFlight, Stream
<1>5. Doomed'
  BY <1>3, <1>4 DEF Doomed
<1>6. CASE AsksToPrepare
  <2>1. op = "hello" /\ answer = "ok" /\ op' = "preparing" /\ pending' = "prepare"
        /\ UNCHANGED <<conn, cleanup>>
        /\ \/ answer' = "none" /\ commands' \in {commands, Append(commands, "prepare")}
           \/ answer' = "error" /\ commands' = commands
    BY <1>6 DEF AsksToPrepare, Sends
  <2>2. commands = <<>> /\ phase = "stopped" /\ InFlight \subseteq {Ack("hello")}
    BY <2>1 DEF Greeting
  <2>3. commands' \in {<<>>, <<"prepare">>}
    BY <2>1, <2>2, Requested
  <2>4. Ack("prepare") # Ack("hello")
    BY DEF Ack
  <2>5. Connected' /\ Greeting' /\ Later'
    BY <1>3, <2>1 DEF Connected, Greeting, Later
  <2>6. Preparing'
    BY <1>3, <1>4, <2>1, <2>2, <2>3, <2>4 DEF Preparing
  <2> QED
    BY <1>5, <2>5, <2>6
<1>7. CASE Prepared
  <2>1. op = "preparing" /\ answer = "ok" /\ op' = "sink" /\ UNCHANGED <<conn, cleanup, commands>>
    BY <1>7 DEF Prepared, Succeeds
  <2>2. commands = <<>> /\ phase \notin {"active", "preparing"}
    BY <2>1 DEF Preparing
  <2>3. ~Asked
    BY <2>1 DEF Preparing, Asked, Ack, Refusal
  <2>4. Connected' /\ Greeting' /\ Preparing'
    BY <1>3, <2>1 DEF Connected, Greeting, Preparing
  <2>5. Later'
    BY <1>3, <1>4, <2>1, <2>2, <2>3, Requested DEF Later, Asked
  <2> QED
    BY <1>5, <2>4, <2>5
<1>8. CASE SinkPrepared
  <2>1. op = "sink" /\ op' = "prepared" /\ UNCHANGED <<conn, cleanup, commands, state>>
    BY <1>8 DEF SinkPrepared
  <2>2. Connected' /\ Greeting' /\ Preparing'
    BY <1>3, <2>1 DEF Connected, Greeting, Preparing
  <2>3. commands = <<>> /\ phase \notin {"active", "preparing"} /\ ~Asked
    BY <2>1 DEF Later
  <2>4. Later'
    BY <1>3, <1>4, <2>1, <2>3, Requested DEF Later, Asked
  <2> QED
    BY <1>5, <2>2, <2>4
<1>9. CASE CommitFails \/ SinkRefuses \/ (Cancelled /\ op = "committing")
  <2>1. op = "committing" /\ op' = "prepared" /\ state' # "READY"
        /\ UNCHANGED <<conn, cleanup, commands>>
    BY <1>9 DEF CommitFails, SinkRefuses, Cancelled, Raises, Succeeds, Kept
  <2>2. Connected' /\ Greeting' /\ Preparing'
    BY <1>3, <2>1 DEF Connected, Greeting, Preparing
  <2>3. Later'
    BY <1>3, <1>4, <2>1 DEF Later, Asked
  <2> QED
    BY <1>5, <2>2, <2>3
<1>10. CASE Committed
  <2>1. op = "committing" /\ op' = "committed" /\ answer = "ok" /\ pending' = "none"
        /\ UNCHANGED <<conn, cleanup, commands>>
    BY <1>10 DEF Committed, Succeeds
  <2>2. Connected' /\ Greeting' /\ Preparing'
    BY <1>3, <2>1 DEF Connected, Greeting, Preparing
  <2>3. commands = <<>>
    BY <2>1 DEF Later
  <2>4. Later'
    BY <1>3, <1>4, <2>1, <2>3, Requested DEF Later, Asked
  <2> QED
    BY <1>5, <2>2, <2>4
<1>11. CASE PumpTakes \/ PumpFails \/ Deactivate
  <2>1. UNCHANGED <<op, conn, commands, pending, answer>>
        /\ cleanup' \in {cleanup, Begin}
        /\ op = "committed"
    BY <1>11 DEF PumpTakes, PumpFails, PumpEnds, Deactivate, Stages
  <2>2. cleanup' \in {cleanup, "pump"} /\ (cleanup' # cleanup => cleanup = "none")
    BY <2>1 DEF Begin
  <2>3. Connected' /\ Greeting' /\ Preparing'
    BY <1>3, <2>1, <2>2 DEF Connected, Greeting, Preparing
  <2>4. Later'
    BY <1>3, <1>4, <2>1, <2>2 DEF Later, Asked
  <2> QED
    BY <1>5, <2>3, <2>4
<1>12. CASE CleanPump
  <2>1. op = "committed" /\ UNCHANGED <<op, conn>> /\ cleanup = "pump" /\ cleanup' = "stop"
        /\ commands' \in {commands, Append(commands, "stop")}
    BY <1>12 DEF CleanPump, Release, Sends, Closes, CloseClient, Stages
  <2>2. commands = <<>>
    BY <2>1 DEF Later
  <2>3. commands' \in {<<>>, <<"stop">>}
    BY <2>1, <2>2, Requested
  <2>4. Connected' /\ Greeting' /\ Preparing'
    BY <1>3, <2>1 DEF Connected, Greeting, Preparing
  <2>5. Later'
    BY <1>3, <1>4, <2>1, <2>3, Requested DEF Later, Asked
  <2> QED
    BY <1>5, <2>4, <2>5
<1>13. CASE Commit
  <2>1. op = "prepared" /\ state = "READY" /\ UNCHANGED <<conn, cleanup>>
        /\ \/ /\ op' = "committing" /\ pending' = "commit" /\ answer' = "none"
              /\ commands' \in {commands, Append(commands, "commit")}
           \/ op' = op /\ state' = "FAILED" /\ commands' = commands
    BY <1>13 DEF Commit, Sends, Kept
  <2>2. commands = <<>> /\ phase \notin {"active", "preparing"} /\ ~Asked
    BY <2>1 DEF Later
  <2>3. Append(commands, "commit") = <<"commit">>
    BY <2>2, Requested
  <2>4. Connected' /\ Greeting' /\ Preparing'
    BY <1>3, <2>1 DEF Connected, Greeting, Preparing
  <2>5. Later'
    BY <1>3, <1>4, <2>1, <2>2, <2>3, Requested DEF Later, Asked
  <2> QED
    BY <1>5, <2>4, <2>5
<1>14. CASE Abort
  <2>1. op \in {"sink", "prepared"} /\ op' = "aborting" /\ UNCHANGED <<conn, cleanup>>
        /\ commands' \in {commands, Append(commands, "abort")}
    BY <1>14 DEF Abort, Release, Sends, Closes, CloseClient
  <2>2. commands \in {<<>>, <<"commit">>}
    BY <2>1 DEF Later
  <2>3. commands' \in {<<>>, <<"commit">>, <<"abort">>, <<"commit", "abort">>}
        /\ (commands' \in {<<"commit">>, <<"commit", "abort">>} => commands = <<"commit">>)
    <3>1. Append(<<>>, "abort") = <<"abort">> /\ Append(<<"commit">>, "abort") = <<"commit", "abort">>
          /\ <<>> \notin {<<"commit">>, <<"commit", "abort">>}
          /\ <<"abort">> \notin {<<"commit">>, <<"commit", "abort">>}
      BY Requested
    <3>2. CASE commands = <<>>
      BY <2>1, <3>1, <3>2
    <3>3. CASE commands = <<"commit">>
      BY <2>1, <3>1, <3>3
    <3> QED
      BY <2>2, <3>2, <3>3
  <2>4. Connected' /\ Greeting' /\ Preparing'
    BY <1>3, <2>1 DEF Connected, Greeting, Preparing
  <2>5. Later'
    BY <1>3, <1>4, <2>1, <2>3 DEF Later, Asked
  <2> QED
    BY <1>5, <2>4, <2>5
<1>15. ~Cancelled \/ op = "committing"
  BY DEF Cancelled, Unwind, Closes, CloseClient, Connected
<1> QED
  BY <1>1, <1>2, <1>6, <1>7, <1>8, <1>9, <1>10, <1>11, <1>12, <1>13, <1>14, <1>15 DEF Tasks, Calls

LEMMA ProtocolStep == ASSUME AllTypes, Stages, FreshStart, Protocol, [Next]_vars PROVE Protocol'
<1>1. CASE UNCHANGED vars
  <2>1. Stream' = Stream
    BY <1>1 DEF vars, Stream
  <2>2. InFlight' = InFlight
    BY <1>1, <2>1 DEF vars, InFlight
  <2> QED
    BY <1>1, <2>2 DEF vars, Protocol, Connected, Greeting, Preparing, Later, Asked, Doomed
<1>2. CASE Tasks \/ Calls
  <2> SUFFICES ASSUME socket' = "open" PROVE Staged'
    BY DEF Protocol, Staged
  <2>1. CASE Connect
    BY <2>1, ConnectStaged
  <2>2. CASE ~Connect
    <3>1. socket = "open"
      BY <1>2, <2>2 DEF Tasks, Calls, Read, ReadsEnd, StartFails, Restart, TellsHelper, Reaped,
        AsksToPrepare, Prepared, PrepareFails, SinkPrepared, CommitFails, Committed, SinkRefuses,
        AbortAnswered, PumpTakes, PumpFails, CleanPump, CleanStopped, CleanSink, Prepare, Commit,
        Abort, Cancelled, Deactivate, CloseClient, Unwind, Closes, Release, Sends, Spawn,
        Succeeds, Raises
    <3>2. Staged
      BY <3>1 DEF Protocol, Staged
    <3> QED
      BY <1>2, <2>2, <3>2, ReadStaged, CallStaged
  <2> QED
    BY <2>1, <2>2
<1> QED
  BY <1>1, <1>2, HelperStaged DEF Next

-----------------------------------------------------------------------------
(***************************************************************************)
(* While the capture goes on the helper is active, or the news that it is  *)
(* not is on its way.                                                      *)
(***************************************************************************)
\* The capture goes on, or will once the answer that is on its way is read.
Going ==
  \/ op = "committing" /\ (answer = "ok" \/ Ack("commit") \in InFlight)
  \/ op = "committed" /\ cleanup = "none"

LEMMA AgreedIs == Agreed <=> (Going => Noticed)
  BY DEF Agreed, Going

LEMMA HelperAgreed ==
  ASSUME AllTypes, FreshStart, Protocol, Agreed, Helper PROVE Agreed'
<1> SUFFICES ASSUME Going' PROVE Noticed'
  BY AgreedIs DEF Agreed, Going
<1> SUFFICES ASSUME socket' = "open", process' = "up" PROVE Noticed'
  BY DEF Noticed
<1>1. socket = "open"
  BY DEF Helper, HelperThreads, Listens, Hello, HelperPrepare, HelperCommit, Terminate, Handles,
    BecomesReady, Tells, Reply, Report, Write, ReaderEnds, Exits, Gone, Frame, NotReady,
    CaptureFails, Dies
<1>2. Staged
  BY <1>1 DEF Protocol, Staged
<1>3. UNCHANGED <<op, answer, cleanup, conn>>
  BY DEF Helper
<1>4. op \in {"committing", "committed"} /\ phase # "preparing"
  BY <1>2, <1>3 DEF Going, Staged, Later
<1>5. ~ReaderEnds /\ ~Gone
  BY DEF ReaderEnds, Gone
<1>6. ~Listens
  BY <1>2 DEF Listens, Staged, Connected
<1>7. process = "up"
  BY <1>5, <1>6 DEF Helper, HelperThreads, Listens, Hello, HelperPrepare, HelperCommit, Terminate,
    Handles, BecomesReady, Tells, Reply, Report, Write, Exits, Frame, NotReady, CaptureFails, Dies
<1>8. ASSUME Going, UNCHANGED <<phase, engine>>,
             \A x \in reporting \cup ToSet(Stream) :
               ~IsPcm(x) => x \in reporting' \cup ToSet(Stream')
      PROVE Noticed'
  <2>1. Noticed
    BY <1>8, AgreedIs
  <2> QED
    BY <1>1, <1>3, <1>7, <1>8, <2>1 DEF Noticed, IsPcm
<1>9. CASE Hello
  <2>1. op = "hello"
    <3>1. commands # <<>> /\ Head(commands) = "hello"
      BY <1>9 DEF Hello, Handles
    <3>2. commands \notin {<<"commit">>, <<"abort">>, <<"stop">>, <<"commit", "abort">>}
      BY <3>1, Requested
    <3> QED
      BY <1>2, <1>4, <3>1, <3>2 DEF Staged, Later
  <2> QED
    BY <1>4, <2>1
<1>10. CASE HelperPrepare
  <2>1. commands # <<>> /\ Head(commands) = "prepare"
    BY <1>10 DEF HelperPrepare, Handles
  <2>2. commands \notin {<<"commit">>, <<"abort">>, <<"stop">>, <<"commit", "abort">>}
    BY <2>1, Requested
  <2> QED
    BY <1>2, <1>4, <2>1, <2>2 DEF Staged, Later
<1>11. CASE HelperCommit
  <2>1. commands # <<>> /\ Head(commands) = "commit"
    BY <1>11 DEF HelperCommit, Handles
  <2>2. op = "committing" /\ commands \in {<<"commit">>, <<"commit", "abort">>}
    BY <1>2, <1>4, <2>1, LaterCommands
  <2>3. ~Asked /\ answer # "ok"
    BY <1>2, <2>2, Requested DEF Staged, Later
  <2>4. CASE phase = "ready"
    BY <1>11, <2>4 DEF HelperCommit, Noticed, FreshStart, Context
  <2>5. CASE phase # "ready"
    <3>1. Refusal("commit") \in Messages /\ Refusal("commit") # Ack("commit")
      BY Answers DEF Requests, Ack, Refusal
    <3>2. InFlight' = InFlight \cup {Refusal("commit")}
      BY <1>11, <2>5, <3>1, AnswerSent DEF HelperCommit
    <3>3. Ack("commit") \notin InFlight'
      BY <2>3, <3>1, <3>2 DEF Asked
    <3> QED
      BY <1>3, <2>2, <2>3, <3>3 DEF Going
  <2> QED
    BY <2>4, <2>5
<1>12. ASSUME NEW r \in {"abort", "stop"}, Terminate(r) PROVE Noticed'
  <2>1. commands # <<>> /\ Head(commands) = r
    BY <1>12 DEF Terminate, Handles
  <2>2. op = "committed" /\ cleanup # "none"
    BY <1>2, <1>4, <2>1, LaterCommands
  <2> QED
    BY <1>3, <2>2 DEF Going
<1>13. CASE BecomesReady \/ NotReady
  BY <1>4, <1>13 DEF BecomesReady, NotReady
<1>14. CASE CaptureFails
  <2>1. \E m \in Announced : m.what = "error"
    BY DEF Announced, Failure, Refusal
  <2> QED
    BY <1>14, <2>1 DEF CaptureFails, Noticed
<1>15. CASE Reply \/ Report
  <2>1. /\ InFlight' \subseteq InFlight /\ UNCHANGED <<phase, engine>>
        /\ \A x \in reporting \cup ToSet(Stream) :
             ~IsPcm(x) => x \in reporting' \cup ToSet(Stream')
    BY <1>15, Delivered
  <2>2. Going
    BY <1>3, <2>1 DEF Going
  <2> QED
    BY <1>8, <2>1, <2>2
<1>16. CASE Frame
  <2>1. phase = "active" /\ engine /\ UNCHANGED <<phase, engine>>
    BY <1>16, FrameSent DEF Frame
  <2> QED
    BY <2>1 DEF Noticed
<1>17. CASE Write
  <2>1. Stream' = Stream /\ UNCHANGED <<phase, engine, reporting, replying>>
    BY <1>17, WriteStream DEF Write, AllTypes
  <2>2. InFlight' = InFlight
    BY <2>1 DEF InFlight
  <2>3. Going
    BY <1>3, <2>2 DEF Going
  <2> QED
    BY <1>8, <2>1, <2>3
<1> QED
  BY <1>5, <1>6, <1>9, <1>10, <1>11, <1>12, <1>13, <1>14, <1>15, <1>16, <1>17
    DEF Helper, HelperThreads, Exits, Dies

LEMMA ReadAgreed == ASSUME AllTypes, Protocol, Agreed, Read PROVE Agreed'
<1> SUFFICES ASSUME Going', socket = "open" PROVE Noticed'
  BY AgreedIs DEF Agreed, Going, Noticed, Read
<1> DEFINE m == Head(wire)
<1>1. Staged
  BY DEF Protocol, Staged
<1>2. /\ m \in Messages /\ m \in InFlight /\ InFlight' \subseteq InFlight
      /\ \A x \in reporting \cup ToSet(Stream) : x # m => x \in reporting' \cup ToSet(Stream')
  BY Received
<1>3. /\ UNCHANGED <<process, socket, phase, engine, op, cleanup, pending>>
      /\ conn = "failed" => conn' = "failed"
      /\ answer' = "ok" => answer = "ok" \/ (Answered(m) /\ m.what = "ack" /\ ~IsPcm(m))
      /\ m.what = "error" => Answered(m) \/ conn' = "failed"
  BY DEF Read, Unexpected, Fails, IsPcm
<1> HIDE DEF m
<1>4. Going
  <2>1. CASE answer' = "ok" /\ answer # "ok" /\ op = "committing"
    <3>1. m.to = "commit" /\ m.what = "ack"
      BY <1>1, <1>3, <2>1 DEF Answered, Staged, Later
    <3>2. m = Ack("commit")
      BY <1>2, <3>1 DEF Messages, Ack, IsPcm
    <3> QED
      BY <1>2, <2>1, <3>2 DEF Going
  <2>2. CASE ~(answer' = "ok" /\ answer # "ok" /\ op = "committing")
    BY <1>2, <1>3, <2>2 DEF Going
  <2> QED
    BY <2>1, <2>2
<1>5. Noticed
  BY <1>4, AgreedIs
<1>6. CASE m.what = "error" /\ Answered(m) /\ op = "committing"
  <2>1. m.to = "commit" /\ answer = "none"
    BY <1>1, <1>6 DEF Answered, Staged, Later
  <2>2. m = Refusal("commit")
    BY <1>2, <1>6, <2>1 DEF Messages, Refusal, IsPcm
  <2>3. Ack("commit") \notin InFlight
    BY <1>1, <1>2, <1>6, <2>2 DEF Staged, Later
  <2> QED
    BY <1>4, <1>6, <2>1, <2>3 DEF Going
<1>7. CASE m.what = "error" /\ conn' = "failed"
  BY <1>7 DEF Noticed
<1>8. CASE m.what # "error"
  BY <1>2, <1>3, <1>5, <1>8 DEF Noticed
<1>9. CASE m.what = "error" /\ Answered(m) /\ op = "committed" /\ cleanup = "none"
  <2>1. m.to = "none"
    BY <1>1, <1>9 DEF Answered, Staged, Later
  <2> QED
    BY <1>2, <2>1 DEF Messages, Requests
<1>10. (op = "committing") \/ (op = "committed" /\ cleanup = "none")
  BY <1>4 DEF Going
<1> QED
  BY <1>3, <1>6, <1>7, <1>8, <1>9, <1>10

LEMMA CallAgreed ==
  ASSUME AllTypes, Stages, FreshStart, Protocol, Agreed, Tasks \/ Calls, ~Read PROVE Agreed'
<1> SUFFICES ASSUME Going' PROVE Noticed'
  BY AgreedIs DEF Agreed, Going
<1>1. op' \in {"committing", "committed"}
  BY DEF Going
<1>2. CASE ReadsEnd
  BY <1>2 DEF ReadsEnd, Fails, Noticed
<1>3. CASE Commit
  <2>1. CASE op' = "committing"
    <3>1. op = "prepared" /\ state = "READY" /\ answer' = "none"
          /\ UNCHANGED <<socket, outbox, wire, replying, reporting>>
      BY <1>3, <2>1 DEF Commit, Sends
    <3>2. InFlight' = InFlight
      BY <3>1 DEF InFlight, Stream
    <3>3. Ack("commit") \in InFlight
      BY <2>1, <3>1, <3>2 DEF Going
    <3>4. socket # "open"
      BY <3>1, <3>3 DEF Protocol, Later, Asked
    <3> QED
      BY <3>1, <3>4 DEF Noticed
  <2>2. CASE op' # "committing"
    BY <1>1, <1>3, <2>2 DEF Commit, Sends
  <2> QED
    BY <2>1, <2>2
<1>4. ~Commit /\ ~ReadsEnd => UNCHANGED <<process, socket, phase, engine, conn, outbox, wire, replying, reporting>>
  <2> SUFFICES ASSUME ~Commit, ~ReadsEnd
               PROVE UNCHANGED <<process, socket, phase, engine, conn, outbox, wire, replying, reporting>>
    OBVIOUS
  <2>1. CASE Tasks
    BY <1>1, <2>1 DEF Tasks, Stages, Going, Connect, StartFails, Restart, TellsHelper, Reaped,
      AsksToPrepare, Prepared, PrepareFails, SinkPrepared, CommitFails, Committed, SinkRefuses,
      AbortAnswered, PumpTakes, PumpFails, CleanPump, CleanStopped, CleanSink, Unwind, Release,
      Closes, CloseClient, Sends, Succeeds, Raises
  <2>2. CASE Calls
    BY <1>1, <2>2 DEF Calls, Stages, Prepare, Abort, Cancelled, Deactivate, Unwind, Release, Closes,
      CloseClient, Sends
  <2> QED
    BY <2>1, <2>2
<1>5. CASE ~Commit /\ ~ReadsEnd
  <2>1. Stream' = Stream /\ InFlight' = InFlight
    BY <1>4, <1>5 DEF InFlight, Stream
  <2>2. Going
    <3>1. CASE Committed
      BY <3>1 DEF Committed, Succeeds, Going
    <3>2. CASE ~Committed
      <4>1. op' = op /\ (op = "committed" => (cleanup' = "none" => cleanup = "none"))
            /\ (op = "committing" => answer' = answer)
        BY <1>1, <1>5, <3>2 DEF Tasks, Calls, Stages, Connect, StartFails, Restart, TellsHelper,
          Reaped, AsksToPrepare, Prepared, PrepareFails, SinkPrepared, CommitFails, SinkRefuses,
          AbortAnswered, PumpTakes, PumpFails, PumpEnds, CleanPump, CleanStopped, CleanSink, Unwind,
          Release, Closes, CloseClient, Sends, Succeeds, Raises, Prepare, Abort, Cancelled,
          Deactivate, Begin, Going
      <4> QED
        BY <2>1, <4>1 DEF Going
    <3> QED
      BY <3>1, <3>2
  <2>3. Noticed
    BY <2>2, AgreedIs
  <2> QED
    BY <1>4, <1>5, <2>1, <2>3 DEF Noticed
<1> QED
  BY <1>2, <1>3, <1>5

LEMMA AgreedStep ==
  ASSUME AllTypes, Stages, FreshStart, Protocol, Agreed, [Next]_vars PROVE Agreed'
<1>1. CASE UNCHANGED vars
  <2>1. Stream' = Stream
    BY <1>1 DEF vars, Stream
  <2>2. InFlight' = InFlight
    BY <1>1, <2>1 DEF vars, InFlight
  <2> QED
    BY <1>1, <2>1, <2>2 DEF vars, Agreed, Noticed
<1> QED
  BY <1>1, HelperAgreed, ReadAgreed, CallAgreed DEF Next

-----------------------------------------------------------------------------
(***************************************************************************)
(* Every frame of a capture that goes on is counted once, and the frames   *)
(* keep their order.                                                       *)
(***************************************************************************)
LEMMA FramesSame ==
  ASSUME Ordered, Counted, Stream' = Stream, UNCHANGED <<produced, taken, last, dropped, frames>>
  PROVE Ordered' /\ Counted'
<1>1. Ordered'
  BY DEF Ordered, Rising
<1>2. Counted'
  BY DEF Counted, Count
<1> QED
  BY <1>1, <1>2

LEMMA Room ==
  ASSUME QueueTypes
  PROVE /\ MakeRoom \in Seq(Nat) /\ Len(MakeRoom) \in Nat /\ Len(MakeRoom) <= Len(frames)
        /\ \E d \in {0, 1} : \A i \in 1 .. Len(MakeRoom) :
             i + d \in 1 .. Len(frames) /\ MakeRoom[i] = frames[i + d]
<1>1. /\ frames \in Seq(Nat) /\ Len(frames) \in Nat /\ QueueSize \in Nat /\ QueueSize # 0
  BY HelperAssumption DEF QueueTypes
<1>2. CASE Len(frames) < QueueSize
  <2>1. MakeRoom = frames
    BY <1>2 DEF MakeRoom
  <2>2. \A i \in 1 .. Len(frames) : i + 0 \in 1 .. Len(frames) /\ frames[i] = frames[i + 0]
    BY <1>1
  <2> QED
    BY <1>1, <2>1, <2>2
<1>3. CASE ~(Len(frames) < QueueSize)
  <2>1. MakeRoom = Tail(frames) /\ frames # <<>>
    BY <1>1, <1>3 DEF MakeRoom
  <2>2. /\ Tail(frames) \in Seq(Nat) /\ Len(Tail(frames)) = Len(frames) - 1
        /\ \A i \in 1 .. Len(Tail(frames)) : Tail(frames)[i] = frames[i + 1]
    BY <1>1, <2>1, HeadTailProperties
  <2>3. Len(frames) # 0
    BY <1>1, <2>1
  <2> HIDE DEF MakeRoom
  <2>4. \A i \in 1 .. Len(MakeRoom) : i + 1 \in 1 .. Len(frames)
    BY <1>1, <2>1, <2>2, <2>3
  <2> QED
    BY <1>1, <2>1, <2>2, <2>3, <2>4
<1> QED
  BY <1>2, <1>3

LEMMA ReadFrames ==
  ASSUME AllTypes, Read, Ordered, Counted, IsPcm(Head(wire)) PROVE Ordered' /\ Counted'
<1> DEFINE m == Head(wire)
           r == MakeRoom
<1>1. /\ Stream \in Seq(Messages) /\ Stream' \in Seq(Messages)
      /\ Without(Stream', Stream, 1) /\ Stream[1] = m /\ Thinned(Stream', Stream) /\ m \in Messages
  BY ReadThins
<1>2. /\ Len(Stream) \in Nat /\ 1 \in 1 .. Len(Stream) /\ Len(Stream') = Len(Stream) - 1
      /\ DOMAIN Stream = 1 .. Len(Stream) /\ DOMAIN Stream' = 1 .. Len(Stream')
      /\ \A i \in 1 .. Len(Stream') : Stream'[i] = Stream[i + 1]
  BY <1>1, Lengths DEF Without
<1>3. m.seq \in Nat /\ IsPcm(m) /\ frames' = Append(r, m.seq)
      /\ dropped' = dropped + Len(frames) + 1 - Len(frames')
      /\ UNCHANGED <<produced, taken, last>>
  BY <1>1 DEF Read, Messages
<1>4. m \in ToSet(Stream)
  BY <1>1, <1>2 DEF ToSet
<1>5. /\ r \in Seq(Nat) /\ Len(r) \in Nat /\ Len(r) <= Len(frames)
  BY Room DEF AllTypes
<1>6. PICK d \in {0, 1} : \A i \in 1 .. Len(r) : i + d \in 1 .. Len(frames) /\ r[i] = frames[i + d]
  BY Room DEF AllTypes
<1> HIDE DEF r, m
<1>7. /\ frames' \in Seq(Nat) /\ Len(frames') = Len(r) + 1
      /\ \A i \in 1 .. Len(r) : frames'[i] = r[i]
      /\ frames'[Len(r) + 1] = m.seq
      /\ DOMAIN frames' = 1 .. Len(r) + 1
  BY <1>3, <1>5, AppendProperties, Lengths
<1>8. frames \in Seq(Nat) /\ DOMAIN frames = 1 .. Len(frames) /\ Len(frames) \in Nat
      /\ last \in Nat /\ produced \in Nat /\ dropped \in Nat /\ taken \in Nat
  BY Lengths DEF AllTypes, QueueTypes, ClientTypes, HelperTypes
<1>9. ASSUME NEW i \in DOMAIN frames'
      PROVE \/ i \in 1 .. Len(r) /\ i + d \in DOMAIN frames /\ frames'[i] = frames[i + d]
            \/ i = Len(r) + 1 /\ frames'[i] = m.seq
  <2>1. i \in 1 .. Len(r) \/ i = Len(r) + 1
    BY <1>5, <1>7
  <2>2. CASE i \in 1 .. Len(r)
    BY <1>6, <1>7, <1>8, <2>2
  <2> QED
    BY <1>7, <2>1, <2>2
<1>10. \A i \in DOMAIN frames : frames[i] < m.seq
  BY <1>3, <1>4 DEF Ordered
<1>11. \A i \in DOMAIN frames' : last < frames'[i] /\ frames'[i] <= produced
  <2>1. last < m.seq /\ m.seq <= produced
    BY <1>3, <1>4 DEF Ordered
  <2> QED
    BY <1>9, <2>1 DEF Ordered
<1>12. \A i, j \in DOMAIN frames' : i < j => frames'[i] < frames'[j]
  <2> SUFFICES ASSUME NEW i \in DOMAIN frames', NEW j \in DOMAIN frames', i < j
               PROVE frames'[i] < frames'[j]
    OBVIOUS
  <2>1. i \in 1 .. Len(r) /\ i + d \in DOMAIN frames /\ frames'[i] = frames[i + d] /\ i \in Nat /\ d \in Nat
    BY <1>5, <1>7, <1>9
  <2>2. CASE j \in 1 .. Len(r) /\ j + d \in DOMAIN frames /\ frames'[j] = frames[j + d]
    <3>1. i + d < j + d
      BY <2>1, <2>2
    <3> QED
      BY <2>1, <2>2, <3>1 DEF Ordered
  <2>3. CASE frames'[j] = m.seq
    BY <1>10, <2>1, <2>3
  <2> QED
    BY <1>9, <2>2, <2>3
<1>13. ASSUME NEW x \in ToSet(Stream'), IsPcm(x)
       PROVE last < x.seq /\ x.seq <= produced /\ \A j \in DOMAIN frames' : frames'[j] < x.seq
  <2>1. PICK i \in 1 .. Len(Stream') : x = Stream'[i]
    BY <1>2, <1>13 DEF ToSet
  <2>2. x = Stream[i + 1] /\ i + 1 \in DOMAIN Stream /\ 1 < i + 1 /\ 1 \in DOMAIN Stream
    BY <1>2, <2>1
  <2>3. m.seq < x.seq
    BY <1>1, <1>3, <1>13, <2>2 DEF Ordered, Rising
  <2>4. x \in ToSet(Stream)
    BY <2>2 DEF ToSet
  <2>5. last < x.seq /\ x.seq <= produced /\ \A j \in DOMAIN frames : frames[j] < x.seq
    BY <1>13, <2>4 DEF Ordered
  <2> QED
    BY <1>9, <2>3, <2>5
<1>14. Rising(Stream')
  BY <1>1, ThinnedKeeps DEF Ordered
<1>15. Ordered'
  BY <1>3, <1>11, <1>12, <1>13, <1>14 DEF Ordered, Rising
<1>16. Count(Stream) \in Nat /\ Count(Stream') = Count(Stream) - 1
  BY <1>1, <1>3, CountWithout, CountFinite
<1>17. Counted'
  <2>1. Count(Stream') = Count(Stream)'
    BY DEF Count
  <2>2. produced = taken + Count(Stream) + Len(frames) + dropped
    BY DEF Counted
  <2>3. dropped' = dropped + Len(frames) + 1 - Len(frames') /\ Len(frames') \in Nat
    BY <1>3, <1>5, <1>7
  <2> DEFINE c == Count(Stream)
             k == Len(frames')
             l == Len(frames)
  <2>4. c \in Nat /\ k \in Nat /\ l \in Nat /\ produced = taken + c + l + dropped
        /\ dropped' = dropped + l + 1 - k /\ Count(Stream)' = c - 1
    BY <1>8, <1>16, <2>1, <2>2, <2>3
  <2> HIDE DEF c, k, l
  <2>5. produced = taken + (c - 1) + k + dropped'
    BY <1>8, <2>4
  <2> QED
    BY <1>3, <2>4, <2>5 DEF Counted, k
<1> QED
  BY <1>15, <1>17

LEMMA AnswerFrames ==
  ASSUME AllTypes, Read, Ordered, Counted, ~IsPcm(Head(wire)), conn' = "open"
  PROVE Ordered' /\ Counted'
<1>1. /\ Stream \in Seq(Messages) /\ Stream' \in Seq(Messages)
      /\ Without(Stream', Stream, 1) /\ Stream[1] = Head(wire) /\ Thinned(Stream', Stream)
  BY ReadThins
<1>2. UNCHANGED <<produced, taken, last, dropped, frames>>
  BY DEF Read, Unexpected, Fails
<1>3. ToSet(Stream') \subseteq ToSet(Stream)
  BY <1>1, ThinnedSet
<1>4. Rising(Stream')
  BY <1>1, ThinnedKeeps DEF Ordered
<1>5. Ordered'
  BY <1>2, <1>3, <1>4 DEF Ordered, Rising
<1>6. Count(Stream') = Count(Stream) - 0 /\ Count(Stream) \in Nat
  BY <1>1, CountWithout, CountFinite
<1>7. Count(Stream)' = Count(Stream)
  BY <1>6 DEF Count
<1>8. Counted'
  BY <1>2, <1>7 DEF Counted
<1> QED
  BY <1>5, <1>8

\* A message that is queued is counted when it is a frame, and so is the one it displaces.
LEMMA QueuedFrames ==
  ASSUME AllTypes, Ordered, Counted, socket' = "open", NEW m \in Messages, Enqueue(m),
         UNCHANGED <<wire, taken, last, frames>>,
         \/ ~IsPcm(m) /\ UNCHANGED produced
         \/ IsPcm(m) /\ m.seq = produced + 1 /\ produced' = produced + 1
  PROVE Ordered' /\ Counted'
<1>1. last \in Nat /\ produced \in Nat /\ dropped \in Nat /\ taken \in Nat
      /\ frames \in Seq(Nat) /\ Len(frames) \in Nat /\ DOMAIN frames = 1 .. Len(frames)
  BY Lengths DEF AllTypes, QueueTypes, ClientTypes, HelperTypes
<1>2. produced' \in Nat /\ produced <= produced'
      /\ (IsPcm(m) => m.seq = produced' /\ produced < m.seq)
  BY <1>1
<1>3. ToSet(Stream') \subseteq ToSet(Stream) \cup {m} /\ Stream \in Seq(Messages)
  BY EnqueuedSet, StreamType DEF AllTypes
<1>4. \A x \in ToSet(Stream) : x \in Messages
  BY <1>3 DEF ToSet
<1>5. \A x \in ToSet(Stream) : IsPcm(x) => x.seq \in Nat /\ x.seq <= produced
  BY <1>4 DEF Ordered, Messages
<1>6. \A i \in DOMAIN frames : frames[i] \in Nat /\ frames[i] <= produced
  BY <1>1 DEF Ordered
<1>7. Rising(Stream')
  <2>1. IsPcm(m) => \A x \in ToSet(Stream) : IsPcm(x) => x.seq < m.seq
    BY <1>1, <1>2, <1>5
  <2> QED
    BY <2>1, EnqueuedKeeps DEF AllTypes, Ordered
<1>8. ASSUME NEW x \in ToSet(Stream'), IsPcm(x)
      PROVE last < x.seq /\ x.seq <= produced' /\ \A j \in DOMAIN frames : frames[j] < x.seq
  <2>1. CASE x \in ToSet(Stream)
    <3>1. last < x.seq /\ x.seq <= produced /\ \A j \in DOMAIN frames : frames[j] < x.seq
      BY <1>8, <2>1 DEF Ordered
    <3> QED
      BY <1>1, <1>2, <1>5, <1>8, <2>1, <3>1
  <2>2. CASE x = m
    <3>1. last <= produced
      BY DEF Ordered
    <3> QED
      BY <1>1, <1>2, <1>6, <1>8, <2>2, <3>1
  <2> QED
    BY <1>3, <1>8, <2>1, <2>2
<1>9. last <= produced' /\ \A i \in DOMAIN frames : last < frames[i] /\ frames[i] <= produced'
  <2>1. last <= produced /\ \A i \in DOMAIN frames : last < frames[i]
    BY DEF Ordered
  <2> QED
    BY <1>1, <1>2, <1>6, <2>1
<1>10. Ordered'
  BY <1>7, <1>8, <1>9 DEF Ordered, Rising
<1>11. /\ dropped' \in Nat /\ Count(Stream') \in Nat /\ Count(Stream) \in Nat
       /\ Count(Stream') + dropped' = Count(Stream) + dropped + IF IsPcm(m) THEN 1 ELSE 0
  BY <1>1, EnqueuedCount DEF AllTypes
<1> DEFINE n == IF IsPcm(m) THEN 1 ELSE 0
<1>12. n \in Nat /\ produced' = produced + n /\ Count(Stream') + dropped' = Count(Stream) + dropped + n
  BY <1>1, <1>11
<1> HIDE DEF n
<1>13. Counted'
  <2>1. produced = taken + Count(Stream) + Len(frames) + dropped
    BY DEF Counted
  <2> DEFINE c == Count(Stream)
             e == Count(Stream')
             k == Len(frames)
             f == dropped'
  <2>2. /\ k \in Nat /\ c \in Nat /\ e \in Nat /\ n \in Nat /\ f \in Nat
        /\ taken \in Nat /\ dropped \in Nat
        /\ e + f = c + dropped + n /\ produced = taken + c + k + dropped
        /\ produced' = produced + n
    BY <1>1, <1>11, <1>12, <2>1
  <2> HIDE DEF c, e, k, f
  <2>3. (taken + c + k + dropped) + n = taken + e + k + f
    BY <2>2
  <2>4. produced' = taken + e + k + dropped'
    BY <2>2, <2>3 DEF f
  <2>5. Count(Stream') = Count(Stream)'
    BY DEF Count
  <2> QED
    BY <2>4, <2>5 DEF Counted, e, k
<1> QED
  BY <1>10, <1>13

LEMMA HelperFrames == ASSUME AllTypes, Frames, Helper PROVE Frames'
<1> SUFFICES ASSUME conn' = "open", socket' = "open" PROVE Ordered' /\ Counted'
  BY DEF Frames
<1>1. UNCHANGED <<conn, frames, taken, last>>
  BY DEF Helper
<1>2. socket = "open"
  BY DEF Helper, HelperThreads, Listens, Hello, HelperPrepare, HelperCommit, Terminate, Handles,
    BecomesReady, Tells, Reply, Report, Write, ReaderEnds, Exits, Gone, Frame, NotReady,
    CaptureFails, Dies
<1>3. Ordered /\ Counted
  BY <1>1, <1>2 DEF Frames
<1>4. CASE Reply
  BY <1>1, <1>3, <1>4, ReplyTypes, QueuedFrames DEF Reply, AllTypes
<1>5. CASE Report
  <2>1. PICK m \in reporting : Enqueue(m)
    BY <1>5 DEF Report
  <2>2. m \in Messages /\ ~IsPcm(m) /\ UNCHANGED <<wire, produced>>
    BY <1>5 DEF Report, AllTypes, AnswerTypes
  <2> QED
    BY <1>1, <1>3, <2>1, <2>2, QueuedFrames
<1>6. CASE Frame
  <2>1. /\ produced' = produced + 1 /\ produced' \in Nat /\ Enqueue(Pcm(produced'))
        /\ UNCHANGED wire
    BY <1>6 DEF Frame, AllTypes, HelperTypes
  <2>2. Pcm(produced') \in Messages /\ IsPcm(Pcm(produced')) /\ Pcm(produced').seq = produced'
    BY <2>1, Answers
  <2> QED
    BY <1>1, <1>3, <2>1, <2>2, QueuedFrames
<1>7. CASE Write
  <2>1. Stream' = Stream
    BY <1>7, WriteStream DEF Write, AllTypes
  <2> QED
    BY <1>1, <1>3, <1>7, <2>1, FramesSame DEF Write
<1>8. ~ReaderEnds /\ ~Gone
  BY DEF ReaderEnds, Gone
<1>9. CASE Listens \/ Hello \/ HelperPrepare \/ HelperCommit \/ Terminate("abort")
           \/ Terminate("stop") \/ BecomesReady \/ NotReady \/ CaptureFails
  <2>1. UNCHANGED <<wire, outbox, produced, dropped>>
    BY <1>9 DEF Listens, Hello, HelperPrepare, HelperCommit, Terminate, Handles, BecomesReady,
      NotReady, CaptureFails, Tells
  <2>2. Stream' = Stream
    BY <2>1 DEF Stream
  <2> QED
    BY <1>1, <1>3, <2>1, <2>2, FramesSame
<1> QED
  BY <1>4, <1>5, <1>6, <1>7, <1>8, <1>9 DEF Helper, HelperThreads, Exits, Dies

\* The pump takes the oldest frame; nothing that follows is older than it.
LEMMA TakenFrames ==
  ASSUME AllTypes, PumpTakes, Ordered, Counted PROVE Ordered' /\ Counted'
<1>1. /\ frames \in Seq(Nat) /\ frames # <<>> /\ frames' = Tail(frames) /\ last' = Head(frames)
      /\ taken' = taken + 1 /\ UNCHANGED <<produced, dropped, wire, outbox>>
  BY DEF PumpTakes, AllTypes, QueueTypes
<1>2. /\ frames' \in Seq(Nat) /\ Len(frames') = Len(frames) - 1 /\ last' = frames[1]
      /\ \A i \in 1 .. Len(frames') : frames'[i] = frames[i + 1]
  BY <1>1, TailWithout DEF Without
<1>3. /\ Len(frames) \in Nat /\ Len(frames) # 0 /\ DOMAIN frames = 1 .. Len(frames)
      /\ DOMAIN frames' = 1 .. Len(frames')
  BY <1>1, <1>2, Lengths
<1>4. 1 \in DOMAIN frames /\ \A i \in DOMAIN frames' : i + 1 \in DOMAIN frames /\ 1 < i + 1
  BY <1>2, <1>3
<1>5. Stream' = Stream
  BY <1>1 DEF Stream
<1>6. last' <= produced' /\ \A i \in DOMAIN frames' : last' < frames'[i] /\ frames'[i] <= produced'
  BY <1>1, <1>2, <1>3, <1>4 DEF Ordered
<1>7. \A i, j \in DOMAIN frames' : i < j => frames'[i] < frames'[j]
  <2> SUFFICES ASSUME NEW i \in DOMAIN frames', NEW j \in DOMAIN frames', i < j
               PROVE frames'[i] < frames'[j]
    OBVIOUS
  <2>1. i + 1 < j + 1
    BY <1>3
  <2> QED
    BY <1>2, <1>3, <1>4, <2>1 DEF Ordered
<1>8. ASSUME NEW m \in ToSet(Stream), IsPcm(m)
      PROVE last' < m.seq /\ m.seq <= produced' /\ \A j \in DOMAIN frames' : frames'[j] < m.seq
  BY <1>1, <1>2, <1>3, <1>4, <1>8 DEF Ordered
<1>9. Ordered'
  BY <1>5, <1>6, <1>7, <1>8 DEF Ordered, Rising
<1>10. Counted'
  <2> DEFINE c == Count(Stream)
             k == Len(frames')
             l == Len(frames)
  <2>1. /\ c \in Nat /\ k \in Nat /\ l \in Nat /\ taken \in Nat /\ dropped \in Nat
    BY <1>2, <1>3, StreamType, CountFinite, Lengths DEF AllTypes, HelperTypes, ClientTypes
  <2>4. k = l - 1 /\ produced = taken + c + l + dropped
    BY <1>2 DEF Counted
  <2>2. Count(Stream)' = c
    BY <1>5 DEF Count
  <2> HIDE DEF c, k, l
  <2>3. produced = (taken + 1) + c + k + dropped
    BY <2>1, <2>4
  <2> QED
    BY <1>1, <2>2, <2>3 DEF Counted, k
<1> QED
  BY <1>9, <1>10

LEMMA FirstFrames == ASSUME FreshStart, Connect PROVE Ordered' /\ Counted'
<1>1. /\ frames' = <<>> /\ wire' = <<>> /\ outbox' = <<>> /\ produced' = 0 /\ dropped' = 0
      /\ taken' = 0 /\ last' = 0
  BY DEF Connect, FreshStart, Untouched, Nothing
<1>2. Stream' = <<>>
  BY <1>1, NothingSent, ConcatEmptySeq DEF Stream
<1>3. DOMAIN frames' = {} /\ Len(frames') = 0 /\ ToSet(Stream') = {} /\ DOMAIN Stream' = {}
  BY <1>1, <1>2, NothingSent, NoMessage
<1>4. Ordered'
  BY <1>1, <1>3 DEF Ordered, Rising
<1>5. Count(Stream)' = 0
  BY <1>2, CountEmpty DEF Count
<1>6. Counted'
  BY <1>1, <1>3, <1>5 DEF Counted
<1> QED
  BY <1>4, <1>6

LEMMA FramesStep ==
  ASSUME AllTypes, FreshStart, Frames, [Next]_vars PROVE Frames'
<1>1. CASE UNCHANGED vars
  <2>1. Stream' = Stream
    BY <1>1 DEF vars, Stream
  <2> QED
    BY <1>1, <2>1, FramesSame DEF vars, Frames
<1>2. CASE Helper
  BY <1>2, HelperFrames
<1>3. CASE Tasks \/ Calls
  <2> SUFFICES ASSUME conn' = "open", socket' = "open" PROVE Ordered' /\ Counted'
    BY DEF Frames
  <2>1. CASE Connect
    BY <2>1, FirstFrames
  <2>2. CASE Read
    <3>1. conn = "open" /\ socket = "open"
      BY <2>2 DEF Read, Unexpected, Fails
    <3> QED
      BY <2>2, <3>1, ReadFrames, AnswerFrames DEF Frames
  <2>3. ASSUME ~Connect, ~Read
        PROVE conn = "open" /\ socket = "open" /\ UNCHANGED <<wire, outbox, produced, dropped>>
    <3>1. CASE Tasks
      BY <2>3, <3>1 DEF Tasks, ReadsEnd, Fails, StartFails, Restart, TellsHelper, Reaped,
        AsksToPrepare, Prepared, PrepareFails, SinkPrepared, CommitFails, Committed, SinkRefuses,
        AbortAnswered, PumpTakes, PumpFails, CleanPump, CleanStopped, CleanSink, Unwind, Release,
        Closes, CloseClient, Sends, Succeeds, Raises, Spawn
    <3>2. CASE Calls
      BY <3>2 DEF Calls, Prepare, Commit, Abort, Cancelled, Deactivate, Unwind, Release, Closes,
        CloseClient, Sends, Spawn
    <3> QED
      BY <1>3, <3>1, <3>2
  <2>4. CASE PumpTakes
    <3>1. ~Connect /\ ~Read
      BY <2>4 DEF PumpTakes, Connect, Read
    <3> QED
      BY <2>3, <2>4, <3>1, TakenFrames DEF Frames
  <2>5. ASSUME ~Connect, ~Read, ~PumpTakes
        PROVE UNCHANGED <<frames, taken, last>>
    <3>1. Ordered /\ conn = "open"
      BY <2>3, <2>5 DEF Frames
    <3>2. CASE PumpFails
      <4>1. frames = <<>>
        <5> SUFFICES ASSUME frames # <<>> PROVE FALSE
          OBVIOUS
        <5>1. Head(frames) = 0
          BY <3>2 DEF PumpFails, Terminal
        <5>2. frames \in Seq(Nat) /\ last \in Nat
          BY DEF AllTypes, QueueTypes, ClientTypes
        <5>3. 1 \in DOMAIN frames /\ frames[1] = Head(frames)
          BY <5>2
        <5> QED
          BY <3>1, <5>1, <5>2, <5>3 DEF Ordered
      <4> QED
        BY <3>2, <4>1 DEF PumpFails
    <3>3. CASE Tasks /\ ~PumpFails
      BY <2>5, <3>3 DEF Tasks, ReadsEnd, Fails, StartFails, Restart, TellsHelper, Reaped,
        AsksToPrepare, Prepared, PrepareFails, SinkPrepared, CommitFails, Committed, SinkRefuses,
        AbortAnswered, CleanPump, CleanStopped, CleanSink, Unwind, Release, Closes, CloseClient,
        Sends, Succeeds, Raises, Kept
    <3>4. CASE Calls
      BY <3>4 DEF Calls, Prepare, Commit, Abort, Cancelled, Deactivate, Unwind, Release, Closes,
        CloseClient, Sends, Kept
    <3> QED
      BY <1>3, <3>2, <3>3, <3>4
  <2>6. CASE ~Connect /\ ~Read /\ ~PumpTakes
    <3>1. Stream' = Stream
      BY <2>3, <2>6 DEF Stream
    <3> QED
      BY <2>3, <2>5, <2>6, <3>1, FramesSame DEF Frames
  <2> QED
    BY <2>1, <2>2, <2>4, <2>6
<1> QED
  BY <1>1, <1>2, <1>3 DEF Next

-----------------------------------------------------------------------------
(***************************************************************************)
(* No helper is left behind.                                               *)
(***************************************************************************)

LEMMA SupervisedInit == Init => Stages /\ Supervised
BY DEF Init, HelperInit, Stages, Supervised

LEMMA SupervisedStep == Stages /\ Supervised /\ [Next]_vars => Stages' /\ Supervised'
<1> SUFFICES ASSUME Stages, Supervised, [Next]_vars PROVE Stages' /\ Supervised'
  OBVIOUS
<1> USE DEF Stages, Supervised
<1>1. CASE Helper
  BY <1>1 DEF Helper, HelperThreads, Listens, Hello, HelperPrepare, HelperCommit, Terminate,
    Handles, BecomesReady, Tells, Reply, Report, Write, ReaderEnds, Exits, Gone, Frame,
    NotReady, CaptureFails, Dies, Enqueue, ClientDisconnected
<1>2. CASE Read
  BY <1>2 DEF Read, Unexpected
<1>3. CASE ReadsEnd
  BY <1>3 DEF ReadsEnd, Fails
<1>4. CASE Connect
  BY <1>4 DEF Connect
<1>5. CASE StartFails
  BY <1>5 DEF StartFails, CloseClient, Refused, Spend
<1>6. CASE Restart
  BY <1>6 DEF Restart, Spawn, Fresh
<1>7. CASE TellsHelper
  BY <1>7 DEF TellsHelper, SaysTerminate
<1>8. CASE Reaped
  BY <1>8 DEF Reaped
<1>9. CASE AsksToPrepare
  BY <1>9 DEF AsksToPrepare, Sends
<1>10. CASE Prepared
  BY <1>10 DEF Prepared, Succeeds
<1>11. CASE PrepareFails
  BY <1>11 DEF PrepareFails, Refused, Spend, Unwind, CloseClient
<1>12. CASE SinkPrepared
  BY <1>12 DEF SinkPrepared
<1>13. CASE CommitFails
  BY <1>13 DEF CommitFails, Raises, Kept
<1>14. CASE Committed
  BY <1>14 DEF Committed, Succeeds
<1>15. CASE SinkRefuses
  BY <1>15 DEF SinkRefuses, Succeeds, Kept
<1>16. CASE AbortAnswered
  BY <1>16 DEF AbortAnswered, Closes, CloseClient
<1>17. CASE PumpTakes
  BY <1>17 DEF PumpTakes
<1>18. CASE PumpFails
  BY <1>18 DEF PumpFails, PumpEnds, Begin
<1>19. CASE CleanPump
  BY <1>19 DEF CleanPump, Release, Closes, CloseClient, Sends
<1>20. CASE CleanStopped
  BY <1>20 DEF CleanStopped, Closes, CloseClient
<1>21. CASE CleanSink
  <2>1. cleanup' \in {"done", "failed"} /\ op' = "none" /\ reaping = "none" /\ ~pump
    BY <1>21 DEF CleanSink
  <2> QED
    BY <1>21, <2>1 DEF CleanSink
<1>22. CASE Prepare
  BY <1>22 DEF Prepare, MayPrepare, Spawn, Fresh
<1>23. CASE Commit
  BY <1>23 DEF Commit, Sends, Kept
<1>24. CASE Abort
  BY <1>24 DEF Abort, Release, Closes, CloseClient, Sends
<1>25. CASE Cancelled
  BY <1>25 DEF Cancelled, Unwind, CloseClient, Closes, SaysTerminate
<1>26. CASE Deactivate
  BY <1>26 DEF Deactivate, Begin
<1>27. CASE UNCHANGED vars
  BY <1>27 DEF vars
<1> QED
  BY <1>1, <1>2, <1>3, <1>4, <1>5, <1>6, <1>7, <1>8, <1>9, <1>10, <1>11, <1>12, <1>13,
    <1>14, <1>15, <1>16, <1>17, <1>18, <1>19, <1>20, <1>21, <1>22, <1>23, <1>24, <1>25, <1>26,
    <1>27 DEF Next, Tasks, Calls

\* At most one helper runs, and none when no call is under way, for any number of attempts,
\* preparations and failures, unless a call was cancelled (HelperSupervisor.stop,
\* SubtitleAudioWorkload._cleanup_output).
THEOREM HelpersAreReclaimed == Spec => []HelperReclaimed
<1>1. Init => Stages /\ Supervised
  BY SupervisedInit
<1>2. Stages /\ Supervised /\ [Next]_vars => Stages' /\ Supervised'
  BY SupervisedStep
<1>3. Stages /\ Supervised => HelperReclaimed
  BY DEF Stages, Supervised, HelperReclaimed, Idle
<1> QED
  BY <1>1, <1>2, <1>3, PTL DEF Spec
-----------------------------------------------------------------------------
(***************************************************************************)
(* The invariant.                                                          *)
(***************************************************************************)
IInv ==
  /\ Stages /\ Supervised /\ AllTypes /\ FreshStart /\ Protocol /\ StreamQuiet /\ Agreed
  /\ Frames

LEMMA CaptureInvariant == Spec => []IInv
<1>1. Init => IInv
  BY FreshInit, SupervisedInit DEF IInv
<1>2. IInv /\ [Next]_vars => IInv'
  <2> SUFFICES ASSUME IInv, [Next]_vars PROVE IInv'
    OBVIOUS
  <2> USE DEF IInv
  <2>1. Stages' /\ Supervised'
    BY SupervisedStep
  <2>2. AllTypes'
    BY TypesStep
  <2>3. FreshStart' /\ Protocol' /\ StreamQuiet'
    BY FreshStep, ProtocolStep, QuietStep
  <2>4. Agreed' /\ Frames'
    BY AgreedStep, FramesStep
  <2> QED
    BY <2>1, <2>2, <2>3, <2>4
<1> QED
  BY <1>1, <1>2, PTL DEF Spec

\* The source is active only while the helper is, or while the news that it is not is on
\* its way, and no frame follows an error or the answer to a stop or an abort: no later
\* frame pushes the error out of the queue of the client, for any size of the queues and
\* wherever the answers of the reader thread and of the engine overtake each other
\* (CaptureController.captureFailed and handle, AudioCaptureClient._reader_loop).
THEOREM ActiveAgrees == Spec => []ActiveIsAgreed
<1>1. IInv => ActiveIsAgreed
  <2> SUFFICES ASSUME IInv PROVE ActiveIsAgreed
    OBVIOUS
  <2>1. \A i, j \in DOMAIN Stream :
          i < j /\ (Stream[i].what = "error" \/ Stream[i].to \in {"stop", "abort"})
            => ~IsPcm(Stream[j])
    BY DEF IInv, StreamQuiet, Quiet, Doom
  <2>2. op = "committed" /\ cleanup = "none" => Noticed
    BY DEF IInv, Agreed
  <2> QED
    BY <2>1, <2>2 DEF ActiveIsAgreed, Noticed
<1> QED
  BY <1>1, CaptureInvariant, PTL

\* Every frame that the helper produced for a capture that goes on was taken by the pump,
\* is on its way, or was counted as dropped by the queue of either end, and the frames the
\* client holds follow the last one taken in order, for any number of frames and any size
\* of the queues (BoundedWriteQueue.enqueue, AudioCaptureClient._enqueue_pcm).
THEOREM FramesAddUp == Spec => []FramesAccounted
<1>1. IInv => FramesAccounted
  <2> SUFFICES ASSUME IInv PROVE FramesAccounted
    OBVIOUS
  <2>1. TypeOK
    BY DEF IInv, AllTypes, HelperTypes, QueueTypes, ClientTypes, TypeOK
  <2> SUFFICES ASSUME conn = "open", socket = "open"
               PROVE /\ produced = taken + OnTheirWay + dropped
                     /\ \A i \in DOMAIN frames : frames[i] > last
                     /\ \A i, j \in DOMAIN frames : i < j => frames[i] < frames[j]
    BY <2>1 DEF FramesAccounted
  <2>2. Ordered /\ Counted
    BY DEF IInv, Frames
  <2>3. /\ frames \in Seq(Nat) /\ last \in Nat /\ Len(frames) \in Nat
        /\ DOMAIN frames = 1 .. Len(frames) /\ \A i \in DOMAIN frames : frames[i] \in Nat
    BY Lengths DEF IInv, AllTypes, QueueTypes, ClientTypes
  <2>4. \A i \in DOMAIN frames : last < frames[i]
    BY <2>2 DEF Ordered
  <2>5. \A i \in DOMAIN frames : frames[i] > last /\ frames[i] # Terminal
    BY <2>3, <2>4 DEF Terminal
  <2>6. {i \in DOMAIN frames : frames[i] # Terminal} = 1 .. Len(frames)
    BY <2>3, <2>5
  <2>7. Cardinality(1 .. Len(frames)) = Len(frames)
    <3>1. 1 \in Int /\ Len(frames) \in Int /\ (1 > Len(frames) <=> Len(frames) = 0)
      BY <2>3
    <3>2. Cardinality(1 .. Len(frames)) = IF 1 > Len(frames) THEN 0 ELSE Len(frames) - 1 + 1
      BY <3>1, FS_Interval
    <3> DEFINE n == Len(frames)
               c == Cardinality(1 .. Len(frames))
    <3>3. n \in Nat /\ (1 > n <=> n = 0) /\ c = IF 1 > n THEN 0 ELSE n - 1 + 1
      BY <2>3, <3>1, <3>2
    <3> HIDE DEF n, c
    <3>4. c = n
      BY <3>3
    <3> QED
      BY <3>4 DEF c, n
  <2>8. OnTheirWay = Count(Stream) + Len(frames)
    BY <2>6, <2>7 DEF OnTheirWay
  <2>9. produced = taken + OnTheirWay + dropped
    <3> DEFINE c == Count(Stream)
               k == Len(frames)
    <3>1. c \in Nat /\ k \in Nat /\ taken \in Nat /\ dropped \in Nat
          /\ produced = taken + c + k + dropped /\ OnTheirWay = c + k
      BY <2>2, <2>3, <2>8, StreamType, CountFinite DEF Counted, IInv, AllTypes, HelperTypes, ClientTypes
    <3> HIDE DEF c, k
    <3> QED
      BY <3>1
  <2> QED
    BY <2>2, <2>5, <2>9 DEF Ordered
<1> QED
  BY <1>1, CaptureInvariant, PTL

=============================================================================
