------------------------ MODULE MeetingLifecycleProofs ------------------------
(***************************************************************************)
(* What holds of the rows and the journals of any number of meetings with  *)
(* any number of windows and faults: type correctness, FirstStopsSettle,   *)
(* CompletedIsComplete and CrashLosesNothing.                              *)
(*                                                                         *)
(* The argument: every accepted window is safe, that is, the row holds it  *)
(* and no entry of the journal would delete it from the row, or an entry   *)
(* of the journal has it and no later one would delete it.  Replaying a    *)
(* part of the journal keeps a window safe, replaying all of it puts it    *)
(* into the row, and a window that comes later deletes no earlier one.     *)
(***************************************************************************)
EXTENDS MeetingLifecycle, SequenceTheorems, WellFoundedInduction, TLAPS

Clean == {"none", "application_restart", "finalization_timeout"}

\* An entry that leaves the window v in the row, or puts it there.
Has(e, v) == e.do = "window" /\ v \in e.turns
Keeps(e, v) == e.do = "window" => e.turns = {} \/ v \in e.turns \/ v < Min(e.turns)

Safe(row, log, v) ==
  \/ v \in row.transcript /\ \A l \in 1 .. Len(log) : Keeps(log[l], v)
  \/ \E j \in 1 .. Len(log) : Has(log[j], v) /\ \A l \in j + 1 .. Len(log) : Keeps(log[l], v)

OnlyWindows(log) == \A l \in 1 .. Len(log) : log[l].do = "window"
NoWindows(log) == \A l \in 1 .. Len(log) : log[l].do # "window"

\* A row of a meeting that has begun: why it ended says how.
Sound(row) ==
  /\ row.status \notin Terminal => row.reason = "none"
  /\ row.status = "completed" => row.reason = "none"

\* The rows and the journals.  A meeting that was stopped by an error, refused or
\* interrupted may have lost what waited in its journal.
Holds(row, log, windows) ==
  /\ Sound(row)
  /\ OnlyWindows(log) \/ NoWindows(log)
  /\ row.status \in Terminal /\ row.reason \in Clean => NoWindows(log)
  /\ row.reason \in Clean => \A v \in windows : Safe(row, log, v)
Stored(m) ==
  /\ Holds(db[m], journal[m], acknowledged[m] \ overwritten[m])
  /\ db[m].status = "completed" => m \notin expired
AllStored == \A m \in Meetings : Stored(m)

\* The meeting that is recorded, stopped and sealed.
BeforeFinish == {"prepared", "recording", "finishing"}
BeforeSeal == BeforeFinish \cup {"reconciling", "labelling", "sealing"}
WhileSealing == {"logging_finalize", "logging_status", "committing"}
Sealed == {"discarding", "queueing"}
Ending == {"settling", "marking", "releasing"}

CurrentStored ==
  /\ current # NoMeeting => current \in Created
  /\ phase \in BeforeSeal => Accepts(db[current]) /\ OnlyWindows(journal[current])
  /\ phase \in WhileSealing => Accepts(db[current]) /\ NoWindows(journal[current])
  /\ phase \in Sealed => db[current].status = FinalStatus
  /\ phase \in BeforeSeal => acknowledged[current] \subseteq 0 .. spoken
  /\ phase = "reconciling" => finalWindow \in {NoWindow, 0, spoken}
  /\ phase \in BeforeSeal /\ signature > 0 => signature \in acknowledged[current]

Expiry ==
  /\ expired \subseteq Created
  /\ phase = "down" => expired = {}
  /\ phase \in BeforeFinish => current \notin expired
  /\ phase \in BeforeSeal \cup WhileSealing /\ current \in expired /\ phase \notin BeforeFinish => timedOut

\* The capture and what the finalizer remembers of the meeting before.
Captures ==
  /\ current # NoMeeting \/ captureClosed => 1 \in Created
  /\ phase = "down" => capture = "off"
  /\ phase \in {"idle", "marking", "releasing"} /\ capture # "off" => captureClosed /\ 2 \in Created
  /\ phase \in BeforeFinish \cup {"settling"} /\ captureClosed /\ capture # "off" => 2 \in Created
  /\ phase \in BeforeFinish /\ captureClosed => 2 \in Created
  /\ phase \in BeforeSeal \cup WhileSealing \cup Sealed /\ phase \notin BeforeFinish => capture = "off"
Finalized ==
  /\ finalizedRecord = NoRecord \/ finalizedRecord.meeting \in Created
  /\ finalizedRecord.meeting = current /\ current # NoMeeting =>
       phase \in {"queueing"} \cup Ending /\ db[current].status \in Terminal
  /\ phase \in BeforeSeal \cup WhileSealing \cup Sealed \cup {"settling"}
       => record.status \in {"recording", "finalizing"}
  /\ phase = "marking" /\ record.status = "completed" => finalizedRecord # NoRecord
  /\ phase = "releasing" => \/ db[current].status \in Terminal \/ storageDegraded
                            \/ finalizedRecord.meeting \notin {NoMeeting, current}

Ind == TypeOK /\ AllStored /\ CurrentStored /\ Expiry /\ Captures /\ Finalized
-----------------------------------------------------------------------------
(***************************************************************************)
(* Induction: the order of the natural numbers is well founded.            *)
(***************************************************************************)
LEMMA LessIsWellFounded ==
  \E R : IsWellFoundedOn(R, Nat) /\ \A x, y \in Nat : x < y => <<x, y>> \in R
<1>1. IsWellFoundedOn(OpToRel(<, Nat), Nat)
  BY NatLessThanWellFounded, Zenon
<1>2. \A x, y \in Nat : x < y => <<x, y>> \in OpToRel(<, Nat)
  BY Zenon DEF OpToRel
<1> QED
  BY <1>1, <1>2

LEMMA MinimalElement ==
  ASSUME NEW R, IsWellFoundedOn(R, Nat), NEW T, T \subseteq Nat, T # {}
  PROVE \E x \in T : \A y \in T : ~(<<y, x>> \in R)
  BY WFMin, Zenon

LEMMA Least ==
  ASSUME NEW T \in SUBSET Nat, T # {} PROVE \E x \in T : \A y \in T : x <= y
<1>1. PICK R : IsWellFoundedOn(R, Nat) /\ \A x, y \in Nat : x < y => <<x, y>> \in R
  BY LessIsWellFounded
<1>2. T \subseteq Nat
  OBVIOUS
<1>3. IsWellFoundedOn(R, Nat)
  BY <1>1
<1>4. \E x \in T : \A y \in T : ~(<<y, x>> \in R)
  BY <1>2, <1>3, MinimalElement, Zenon
<1>5. PICK x \in T : \A y \in T : ~(<<y, x>> \in R)
  BY <1>4
<1>6. ASSUME NEW y \in T PROVE x <= y
  <2>1. x \in Nat /\ y \in Nat
    BY <1>2
  <2>2. ~(<<y, x>> \in R)
    BY <1>5
  <2>3. ~(y < x)
    BY <1>1, <2>1, <2>2
  <2> QED
    BY <2>1, <2>3
<1> QED
  BY <1>6

LEMMA InductionUpTo ==
  ASSUME NEW n \in Nat, NEW S, 0 \in S, \A k \in 0 .. n - 1 : k \in S => k + 1 \in S
  PROVE \A k \in 0 .. n : k \in S
<1> DEFINE T == {k \in Nat : k <= n /\ k \notin S}
<1> SUFFICES ASSUME T # {} PROVE FALSE
  OBVIOUS
<1>1. T \in SUBSET Nat
  OBVIOUS
<1>2. PICK x \in T : \A y \in T : x <= y
  BY <1>1, Least
<1>3. x \in Nat /\ x <= n /\ x \notin S /\ x # 0
  BY <1>2
<1>4. x - 1 \in Nat /\ x - 1 \in 0 .. n - 1 /\ ~(x <= x - 1) /\ (x - 1) + 1 = x
  BY <1>3
<1>5. x - 1 \in S
  BY <1>2, <1>4
<1> QED
  BY <1>3, <1>4, <1>5

-----------------------------------------------------------------------------
(***************************************************************************)
(* The replay of a journal.                                                *)
(***************************************************************************)
\* The recursive definition has a solution, so After is one.
LEMMA AfterEntries ==
  ASSUME NEW row, NEW log \in Seq(Entries)
  PROVE /\ After(row, log)[0] = row
        /\ \A k \in 1 .. Len(log) :
             After(row, log)[k] = ReplayOne(After(row, log)[k - 1], log[k])
<1> DEFINE n == Len(log)
           Solves(f, m) == f[0] = row /\ \A k \in 1 .. m : f[k] = ReplayOne(f[k - 1], log[k])
           S == {m \in 0 .. n : \E f : Solves(f, m)}
           Is(f) == f = [k \in 0 .. n |-> IF k = 0 THEN row ELSE ReplayOne(f[k - 1], log[k])]
<1>1. n \in Nat
  OBVIOUS
<1>2. 0 \in S
  <2> DEFINE f == [k \in 0 .. n |-> row]
  <2>1. f[0] = row /\ 1 .. 0 = {}
    BY <1>1
  <2>2. Solves(f, 0)
    BY <2>1
  <2> HIDE DEF f
  <2>3. 0 \in 0 .. n
    BY <1>1
  <2> QED
    BY <2>2, <2>3
<1>3. ASSUME NEW m \in 0 .. n - 1, m \in S PROVE m + 1 \in S
  <2>1. PICK f : Solves(f, m)
    BY <1>3
  <2> DEFINE g == [k \in 0 .. n |-> IF k = m + 1 THEN ReplayOne(f[m], log[m + 1]) ELSE f[k]]
  <2>2. m \in 0 .. n /\ m + 1 \in 0 .. n /\ m # m + 1 /\ 0 # m + 1
    BY <1>1
  <2>3. g[0] = row
    BY <1>1, <2>1, <2>2
  <2>4. ASSUME NEW k \in 1 .. m + 1 PROVE g[k] = ReplayOne(g[k - 1], log[k])
    <3>1. k - 1 \in 0 .. n /\ k \in 0 .. n /\ k - 1 # m + 1
      BY <1>1, <2>2
    <3>2. g[k - 1] = f[k - 1]
      BY <3>1
    <3>3. CASE k = m + 1
      <4>1. k - 1 = m
        BY <2>2, <3>3
      <4>2. g[k] = ReplayOne(f[m], log[m + 1])
        BY <3>1, <3>3
      <4> QED
        BY <3>2, <3>3, <4>1, <4>2
    <3>4. CASE k # m + 1
      <4>1. k \in 1 .. m
        BY <2>2, <3>4
      <4>2. g[k] = f[k] /\ f[k] = ReplayOne(f[k - 1], log[k])
        BY <2>1, <3>1, <3>4, <4>1
      <4> QED
        BY <3>2, <4>2
    <3> QED
      BY <3>3, <3>4
  <2> HIDE DEF g
  <2>5. Solves(g, m + 1)
    BY <2>3, <2>4
  <2> QED
    BY <2>2, <2>5
<1>4. n \in S
  <2> HIDE DEF S
  <2>1. \A k \in 0 .. n : k \in S
    BY <1>1, <1>2, <1>3, InductionUpTo
  <2> QED
    BY <1>1, <2>1
<1>5. PICK f : Solves(f, n)
  BY <1>4
<1> DEFINE F == [k \in 0 .. n |-> f[k]]
<1>6. Is(F)
  <2>1. ASSUME NEW k \in 0 .. n
        PROVE F[k] = IF k = 0 THEN row ELSE ReplayOne(F[k - 1], log[k])
    <3>1. CASE k = 0
      BY <1>5, <3>1
    <3>2. CASE k # 0
      <4>1. k \in 1 .. n /\ k - 1 \in 0 .. n
        BY <1>1, <3>2
      <4> QED
        BY <1>5, <3>2, <4>1
    <3> QED
      BY <3>1, <3>2
  <2> QED
    BY <2>1
<1> HIDE DEF F
<1>7. Is(After(row, log))
  <2>1. After(row, log) = CHOOSE g : Is(g)
    BY DEF After
  <2>2. \E g : Is(g)
    BY <1>6
  <2> HIDE DEF Is
  <2> QED
    BY <2>1, <2>2, Zenon
<1>8. 0 \in 0 .. n /\ \A k \in 1 .. n : k \in 0 .. n /\ k # 0
  BY <1>1
<1>9. After(row, log)[0] = row
  BY <1>7, <1>8
<1>10. \A k \in 1 .. n : After(row, log)[k] = ReplayOne(After(row, log)[k - 1], log[k])
  BY <1>7, <1>8
<1> QED
  BY <1>9, <1>10

Healthy(row) == row \in Rows /\ row.status # "none" /\ Sound(row) /\ row.reason \in Clean

\* An entry that is replayed leaves a row of its kind; a window leaves its status, and what
\* is not a window leaves the transcript.
LEMMA ReplayOneFits ==
  ASSUME NEW row, Healthy(row), NEW e \in Entries
  PROVE /\ Healthy(ReplayOne(row, e))
        /\ e.do = "window" => /\ ReplayOne(row, e).status = row.status
                              /\ ReplayOne(row, e).reason = row.reason
        /\ e.do # "window" => ReplayOne(row, e).transcript = row.transcript
<1>1. CASE e.do = "window"
  <2>1. e.turns \subseteq Windows
    BY <1>1 DEF Entries
  <2>2. ReplayOne(row, e) = StoreWindow(row, e.turns)
    BY <1>1 DEF ReplayOne
  <2> QED
    BY <1>1, <2>1, <2>2 DEF StoreWindow, Healthy, Rows, Sound
<1>2. CASE e.do = "finalize"
  <2>1. ReplayOne(row, e) = Seal(row, "completed", "none")
    BY <1>2 DEF ReplayOne
  <2> QED
    BY <1>2, <2>1 DEF Seal, WithStatus, Healthy, Rows, Sound, Statuses, Reasons, Terminal, Clean
<1>3. CASE e.do = "status"
  <2>1. ReplayOne(row, e) = WithStatus(row, e.status, ReasonOf(e.status)) /\ e.status \in Terminal
    BY <1>3 DEF ReplayOne, Entries
  <2> QED
    BY <1>3, <2>1 DEF WithStatus, ReasonOf, Healthy, Rows, Sound, Statuses, Reasons, Terminal, Clean
<1> QED
  BY <1>1, <1>2, <1>3 DEF Entries

\* So does a part of the journal.
LEMMA AfterFits ==
  ASSUME NEW row, Healthy(row), NEW log \in Seq(Entries), NEW k \in 0 .. Len(log)
  PROVE /\ Healthy(After(row, log)[k])
        /\ OnlyWindows(log) => /\ After(row, log)[k].status = row.status
                               /\ After(row, log)[k].reason = row.reason
        /\ NoWindows(log) => After(row, log)[k].transcript = row.transcript
<1> DEFINE A == After(row, log)
           Good(j) == /\ Healthy(A[j])
                      /\ OnlyWindows(log) => A[j].status = row.status /\ A[j].reason = row.reason
                      /\ NoWindows(log) => A[j].transcript = row.transcript
           S == {j \in 0 .. Len(log) : Good(j)}
<1>1. A[0] = row /\ \A j \in 1 .. Len(log) : A[j] = ReplayOne(A[j - 1], log[j])
  BY AfterEntries
<1> HIDE DEF A
<1>2. Len(log) \in Nat /\ 0 \in 0 .. Len(log)
  OBVIOUS
<1>3. 0 \in S
  BY <1>1, <1>2
<1>4. ASSUME NEW j \in 0 .. Len(log) - 1, j \in S PROVE j + 1 \in S
  <2>1. j + 1 \in 1 .. Len(log) /\ (j + 1) - 1 = j /\ j + 1 \in 0 .. Len(log)
    BY <1>2
  <2>2. A[j + 1] = ReplayOne(A[j], log[j + 1])
    BY <1>1, <2>1
  <2>3. log[j + 1] \in Entries
    BY <2>1
  <2>4. Good(j)
    BY <1>4
  <2>5. /\ Healthy(A[j + 1])
        /\ log[j + 1].do = "window" => /\ A[j + 1].status = A[j].status
                                       /\ A[j + 1].reason = A[j].reason
        /\ log[j + 1].do # "window" => A[j + 1].transcript = A[j].transcript
    BY <2>2, <2>3, <2>4, ReplayOneFits
  <2>6. Good(j + 1)
    BY <2>1, <2>4, <2>5 DEF OnlyWindows, NoWindows
  <2> QED
    BY <2>1, <2>6
<1>5. \A j \in 0 .. Len(log) : j \in S
  <2> HIDE DEF S
  <2> QED
    BY <1>2, <1>3, <1>4, InductionUpTo
<1>6. Good(k)
  BY <1>5
<1> QED
  BY <1>6 DEF A
-----------------------------------------------------------------------------
(***************************************************************************)
(* Safe windows.                                                           *)
(***************************************************************************)
LEMMA StoreKeeps ==
  ASSUME NEW row \in Rows, NEW turns \in SUBSET Windows, NEW v,
         (v \in row.transcript /\ Keeps(WindowEntry(turns), v)) \/ v \in turns
  PROVE v \in StoreWindow(row, turns).transcript
<1>1. CASE turns = {}
  BY <1>1 DEF StoreWindow
<1>2. CASE turns # {}
  BY <1>2 DEF StoreWindow, Keeps, WindowEntry, Rows
<1> QED
  BY <1>1, <1>2

\* A window that the row holds, and no entry deletes, stays.
LEMMA ReplayOneKeeps ==
  ASSUME NEW row, Healthy(row), NEW e \in Entries, NEW v,
         (v \in row.transcript /\ Keeps(e, v)) \/ Has(e, v)
  PROVE v \in ReplayOne(row, e).transcript
<1>1. CASE e.do = "window"
  <2>1. e.turns \in SUBSET Windows /\ e = WindowEntry(e.turns)
    BY <1>1 DEF Entries, WindowEntry
  <2>2. ReplayOne(row, e) = StoreWindow(row, e.turns)
    BY <1>1 DEF ReplayOne
  <2>3. (v \in row.transcript /\ Keeps(WindowEntry(e.turns), v)) \/ v \in e.turns
    BY <2>1 DEF Has
  <2> QED
    BY <2>1, <2>2, <2>3, StoreKeeps DEF Healthy
<1>2. CASE e.do # "window"
  BY <1>2, ReplayOneFits DEF Has
<1> QED
  BY <1>1, <1>2

LEMMA AfterKeeps ==
  ASSUME NEW row, Healthy(row), NEW log \in Seq(Entries), NEW v,
         NEW from \in 0 .. Len(log), v \in After(row, log)[from].transcript,
         \A l \in from + 1 .. Len(log) : Keeps(log[l], v)
  PROVE \A k \in from .. Len(log) : v \in After(row, log)[k].transcript
<1> DEFINE A == After(row, log)
           S == {k \in 0 .. Len(log) : k < from \/ v \in A[k].transcript}
<1>1. A[0] = row /\ \A j \in 1 .. Len(log) : A[j] = ReplayOne(A[j - 1], log[j])
  BY AfterEntries
<1>2. v \in A[from].transcript
  OBVIOUS
<1>3. \A j \in 0 .. Len(log) : Healthy(A[j])
  BY AfterFits
<1> HIDE DEF A
<1>4. Len(log) \in Nat /\ 0 \in 0 .. Len(log)
  OBVIOUS
<1>5. 0 \in S
  <2>1. from = 0 \/ 0 < from
    BY <1>4
  <2> QED
    BY <1>2, <1>4, <2>1
<1>6. ASSUME NEW j \in 0 .. Len(log) - 1, j \in S PROVE j + 1 \in S
  <2>1. j + 1 \in 1 .. Len(log) /\ (j + 1) - 1 = j /\ j + 1 \in 0 .. Len(log) /\ j \in 0 .. Len(log)
    BY <1>4
  <2>2. CASE j + 1 <= from
    <3>1. j + 1 < from \/ j + 1 = from
      BY <2>1, <2>2
    <3> QED
      BY <1>2, <2>1, <3>1
  <2>3. CASE ~(j + 1 <= from)
    <3>1. ~(j < from) /\ j + 1 \in from + 1 .. Len(log)
      BY <2>1, <2>3
    <3>2. v \in A[j].transcript
      BY <1>6, <3>1
    <3>3. Keeps(log[j + 1], v) /\ log[j + 1] \in Entries
      BY <2>1, <3>1
    <3>4. A[j + 1] = ReplayOne(A[j], log[j + 1])
      BY <1>1, <2>1
    <3>5. v \in A[j + 1].transcript
      BY <1>3, <2>1, <3>2, <3>3, <3>4, ReplayOneKeeps
    <3> QED
      BY <2>1, <3>5
  <2> QED
    BY <2>2, <2>3
<1>7. \A j \in 0 .. Len(log) : j \in S
  <2> HIDE DEF S
  <2> QED
    BY <1>4, <1>5, <1>6, InductionUpTo
<1>8. ASSUME NEW k \in from .. Len(log) PROVE v \in A[k].transcript
  <2>1. k \in 0 .. Len(log) /\ ~(k < from)
    BY <1>4
  <2> QED
    BY <1>7, <2>1
<1> QED
  BY <1>8 DEF A

\* The replay of a part of the journal keeps a window safe.
LEMMA SafeAfterPart ==
  ASSUME NEW row, Healthy(row), NEW log \in Seq(Entries), NEW v, Safe(row, log, v),
         NEW k \in 0 .. Len(log)
  PROVE Safe(After(row, log)[k], log, v)
<1>1. CASE v \in row.transcript /\ \A l \in 1 .. Len(log) : Keeps(log[l], v)
  <2>1. After(row, log)[0] = row /\ 0 \in 0 .. Len(log)
    BY AfterEntries
  <2>2. \A j \in 0 .. Len(log) : v \in After(row, log)[j].transcript
    BY <1>1, <2>1, AfterKeeps
  <2> QED
    BY <1>1, <2>2 DEF Safe
<1>2. CASE \E j \in 1 .. Len(log) : Has(log[j], v) /\ \A l \in j + 1 .. Len(log) : Keeps(log[l], v)
  BY <1>2 DEF Safe
<1> QED
  BY <1>1, <1>2 DEF Safe

\* The replay of all of it puts the window into the row.
LEMMA SafeAfterAll ==
  ASSUME NEW row, Healthy(row), NEW log \in Seq(Entries), NEW v, Safe(row, log, v)
  PROVE v \in After(row, log)[Len(log)].transcript
<1>1. Len(log) \in Nat
  OBVIOUS
<1>2. CASE v \in row.transcript /\ \A l \in 1 .. Len(log) : Keeps(log[l], v)
  <2>1. After(row, log)[0] = row /\ 0 \in 0 .. Len(log)
    BY <1>1, AfterEntries
  <2>2. \A j \in 0 .. Len(log) : v \in After(row, log)[j].transcript
    BY <1>2, <2>1, AfterKeeps
  <2> QED
    BY <1>1, <2>2
<1>3. CASE \E j \in 1 .. Len(log) : Has(log[j], v) /\ \A l \in j + 1 .. Len(log) : Keeps(log[l], v)
  <2>1. PICK j \in 1 .. Len(log) : Has(log[j], v) /\ \A l \in j + 1 .. Len(log) : Keeps(log[l], v)
    BY <1>3
  <2>2. j \in 0 .. Len(log) /\ j - 1 \in 0 .. Len(log) /\ Len(log) \in j .. Len(log)
    BY <1>1
  <2>3. Healthy(After(row, log)[j - 1])
    BY <2>2, AfterFits
  <2>4. After(row, log)[j] = ReplayOne(After(row, log)[j - 1], log[j]) /\ log[j] \in Entries
    BY AfterEntries
  <2>5. v \in After(row, log)[j].transcript
    BY <2>1, <2>3, <2>4, ReplayOneKeeps
  <2>6. \A k \in j .. Len(log) : v \in After(row, log)[k].transcript
    BY <2>1, <2>2, <2>5, AfterKeeps
  <2> QED
    BY <2>2, <2>6
<1> QED
  BY <1>2, <1>3 DEF Safe

LEMMA SafeInRow ==
  ASSUME NEW row, NEW log \in Seq(Entries), NEW v, NoWindows(log)
  PROVE Safe(row, log, v) <=> v \in row.transcript
BY DEF Safe, NoWindows, Has, Keeps

LEMMA SafeEmpty ==
  ASSUME NEW row, NEW v PROVE Safe(row, <<>>, v) <=> v \in row.transcript
<1>1. <<>> \in Seq(Entries) /\ NoWindows(<<>>)
  BY DEF NoWindows
<1> QED
  BY <1>1, SafeInRow

\* A window is safe whatever is appended that does not delete it.
LEMMA SafeAppend ==
  ASSUME NEW row, NEW log \in Seq(Entries), NEW e \in Entries, NEW v,
         (Safe(row, log, v) /\ Keeps(e, v)) \/ Has(e, v)
  PROVE Safe(row, Append(log, e), v)
<1> DEFINE n == Len(log)
           more == Append(log, e)
<1>1. n \in Nat /\ Len(more) = n + 1 /\ more[n + 1] = e /\ \A l \in 1 .. n : more[l] = log[l]
  OBVIOUS
<1> HIDE DEF n, more
<1>2. \A l \in 1 .. n + 1 : l \in 1 .. n \/ l = n + 1
  BY <1>1
<1>3. CASE Has(e, v)
  <2>1. n + 1 \in 1 .. n + 1 /\ (n + 1) + 1 .. n + 1 = {}
    BY <1>1
  <2>2. \E j \in 1 .. Len(more) : Has(more[j], v) /\ \A l \in j + 1 .. Len(more) : Keeps(more[l], v)
    BY <1>1, <1>3, <2>1
  <2> QED
    BY <2>2 DEF Safe, more
<1>4. CASE Keeps(e, v) /\ v \in row.transcript /\ \A l \in 1 .. n : Keeps(log[l], v)
  <2>1. \A l \in 1 .. Len(more) : Keeps(more[l], v)
    BY <1>1, <1>2, <1>4
  <2> QED
    BY <1>4, <2>1 DEF Safe, more
<1>5. CASE Keeps(e, v) /\ \E j \in 1 .. n : Has(log[j], v) /\ \A l \in j + 1 .. n : Keeps(log[l], v)
  <2>1. PICK j \in 1 .. n : Has(log[j], v) /\ \A l \in j + 1 .. n : Keeps(log[l], v)
    BY <1>5
  <2>2. j \in 1 .. n + 1 /\ \A l \in j + 1 .. n + 1 : (l \in j + 1 .. n /\ l \in 1 .. n) \/ l = n + 1
    BY <1>1
  <2>3. \A l \in j + 1 .. Len(more) : Keeps(more[l], v)
    BY <1>1, <1>5, <2>1, <2>2
  <2>4. Has(more[j], v)
    BY <1>1, <2>1
  <2> QED
    BY <1>1, <2>2, <2>3, <2>4 DEF Safe, more
<1> QED
  BY <1>3, <1>4, <1>5 DEF Safe, n
-----------------------------------------------------------------------------
(***************************************************************************)
(* The ends of a replay and of a reconcile.                                *)
(***************************************************************************)
Typed(row, log) == row \in Rows /\ row.status # "none" /\ log \in Seq(Entries) /\ Sound(row)
KeepsSafe(m, row, log) ==
  row.reason \in Clean => \A v \in acknowledged[m] \ overwritten[m] : Safe(row, log, v)
Fits(m, row, log) ==
  /\ Typed(row, log)
  /\ OnlyWindows(log) \/ NoWindows(log)
  /\ row.status \in Terminal /\ row.reason \in Clean => NoWindows(log)
  /\ KeepsSafe(m, row, log)
  /\ Accepts(db[m]) /\ OnlyWindows(journal[m]) => row.status = db[m].status /\ OnlyWindows(log)

LEMMA EmptyLog == NoWindows(<<>>) /\ OnlyWindows(<<>>) /\ <<>> \in Seq(Entries)
BY DEF NoWindows, OnlyWindows

LEMMA RowFits ==
  ASSUME TypeOK, NEW m \in Created, Stored(m)
  PROVE Fits(m, db[m], journal[m])
<1>1. m \in Meetings /\ db[m] \in Rows /\ db[m].status # "none" /\ journal[m] \in Seq(Entries)
  BY DEF TypeOK, Created
<1> QED
  BY <1>1 DEF Fits, Typed, KeepsSafe, Stored, Holds

\* A replay up to a failure, or to the end.
LEMMA ReplayFits ==
  ASSUME TypeOK, NEW m \in Created, Stored(m), NEW r \in Replays(m)
  PROVE /\ Fits(m, r.row, r.log)
        /\ r.ok \in BOOLEAN /\ r.cost \in 0 .. 1
        /\ r.ok => r.log = <<>>
        /\ r = [row |-> r.row, log |-> r.log, ok |-> r.ok, cost |-> r.cost]
<1> DEFINE log == journal[m]
           A == After(db[m], log)
<1>1. /\ m \in Meetings /\ db[m] \in Rows /\ db[m].status # "none" /\ log \in Seq(Entries)
      /\ Len(log) \in Nat /\ Fits(m, db[m], log)
  BY RowFits DEF TypeOK, Created
<1>2. CASE log = <<>>
  <2>1. r = [row |-> db[m], log |-> log, ok |-> TRUE, cost |-> 0]
    BY <1>2 DEF Replays
  <2> QED
    BY <1>1, <1>2, <2>1
<1>3. CASE log # <<>> /\ Settled(db[m])
  <2>1. \/ r = [row |-> db[m], log |-> <<>>, ok |-> TRUE, cost |-> 0]
        \/ r = [row |-> db[m], log |-> log, ok |-> FALSE, cost |-> 1]
    BY <1>3 DEF Replays
  <2>2. KeepsSafe(m, db[m], <<>>)
    <3>1. db[m].reason \in Clean => NoWindows(log)
      BY <1>3 DEF Stored, Holds, Settled
    <3> QED
      BY <1>1, <3>1, SafeInRow, SafeEmpty DEF KeepsSafe, Fits
  <2>3. Fits(m, db[m], <<>>)
    BY <1>1, <2>2, EmptyLog DEF Fits, Typed
  <2> HIDE DEF log
  <2>4. CASE r = [row |-> db[m], log |-> <<>>, ok |-> TRUE, cost |-> 0]
    BY <2>3, <2>4
  <2>5. CASE r = [row |-> db[m], log |-> log, ok |-> FALSE, cost |-> 1]
    BY <1>1, <2>5 DEF log
  <2> QED
    BY <2>1, <2>4, <2>5
<1>4. CASE log # <<>> /\ ~Settled(db[m])
  <2>1. \E k \in 0 .. Len(log) :
          \/ r = [row |-> A[k], log |-> <<>>, ok |-> TRUE, cost |-> 0] /\ k = Len(log)
          \/ r = [row |-> A[k], log |-> log, ok |-> FALSE, cost |-> 1]
          \/ r = [row |-> A[k], log |-> log, ok |-> FALSE, cost |-> 0]
    <3> DEFINE legal(k) == \A i \in 1 .. k : Replayable(A[i - 1], log[i])
               fault(k) == IF k = Len(log) THEN "journal" ELSE "db"
    <3>1. r \in {[row |-> A[k], log |-> <<>>, ok |-> TRUE, cost |-> 0] :
                   k \in {i \in {Len(log)} : legal(i)}}
                \cup {[row |-> A[k], log |-> log, ok |-> FALSE, cost |-> 1] :
                        k \in {i \in 0 .. Len(log) : legal(i) /\ fault(i) \in Faults}}
                \cup {[row |-> A[k], log |-> log, ok |-> FALSE, cost |-> 0] :
                        k \in {i \in 0 .. Len(log) - 1 : legal(i) /\ ~legal(i + 1)}}
      BY <1>4 DEF Replays
    <3>2. Len(log) \in 0 .. Len(log) /\ \A k \in 0 .. Len(log) - 1 : k \in 0 .. Len(log)
      BY <1>1
    <3> HIDE DEF A, log, legal, fault
    <3> QED
      BY <3>1, <3>2
  <2>2. PICK k \in 0 .. Len(log) :
          \/ r = [row |-> A[k], log |-> <<>>, ok |-> TRUE, cost |-> 0] /\ k = Len(log)
          \/ r = [row |-> A[k], log |-> log, ok |-> FALSE, cost |-> 1]
          \/ r = [row |-> A[k], log |-> log, ok |-> FALSE, cost |-> 0]
    BY <2>1
  <2>3. db[m].status \notin Terminal /\ db[m].reason = "none" /\ Healthy(db[m])
    BY <1>1, <1>4 DEF Settled, Stored, Holds, Sound, Healthy, Clean
  <2>4. /\ Healthy(A[k])
        /\ OnlyWindows(log) => A[k].status = db[m].status /\ A[k].reason = db[m].reason
    BY <1>1, <2>3, AfterFits
  <2>5. \A v \in acknowledged[m] \ overwritten[m] : Safe(db[m], log, v)
    BY <1>1, <2>3 DEF Fits, KeepsSafe, Clean
  <2>6. CASE r.ok
    <3>1. r = [row |-> A[Len(log)], log |-> <<>>, ok |-> TRUE, cost |-> 0] /\ k = Len(log)
      BY <2>2, <2>6
    <3>2. \A v \in acknowledged[m] \ overwritten[m] : v \in A[Len(log)].transcript
      BY <1>1, <2>3, <2>5, SafeAfterAll
    <3>3. KeepsSafe(m, A[Len(log)], <<>>)
      BY <3>2, SafeEmpty DEF KeepsSafe
    <3> HIDE DEF A, log
    <3>4. Fits(m, A[Len(log)], <<>>)
      BY <2>4, <3>1, <3>3, EmptyLog DEF Fits, Typed, Healthy, log
    <3> QED
      BY <3>1, <3>4
  <2>7. CASE ~r.ok
    <3>1. /\ r.row = A[k] /\ r.log = log /\ r.ok \in BOOLEAN /\ r.cost \in 0 .. 1
          /\ r = [row |-> r.row, log |-> r.log, ok |-> r.ok, cost |-> r.cost]
      <4> HIDE DEF A, log
      <4>1. CASE r = [row |-> A[k], log |-> log, ok |-> FALSE, cost |-> 1]
        BY <4>1
      <4>2. CASE r = [row |-> A[k], log |-> log, ok |-> FALSE, cost |-> 0]
        BY <4>2
      <4> QED
        BY <2>2, <2>7, <4>1, <4>2
    <3>2. \A v \in acknowledged[m] \ overwritten[m] : Safe(A[k], log, v)
      BY <1>1, <2>3, <2>5, SafeAfterPart
    <3>3. OnlyWindows(log) \/ NoWindows(log)
      BY DEF Stored, Holds
    <3>4. OnlyWindows(log) => A[k].status \notin Terminal
      BY <2>3, <2>4
    <3> HIDE DEF A
    <3>5. Fits(m, A[k], log)
      BY <1>1, <2>4, <3>2, <3>3, <3>4 DEF Fits, Typed, Healthy, KeepsSafe
    <3> QED
      BY <2>7, <3>1, <3>5
  <2> QED
    BY <2>2, <2>6, <2>7
<1> QED
  BY <1>2, <1>3, <1>4

\* A window is stored by a replay that went to its end.
LEMMA StoreFits ==
  ASSUME TypeOK, NEW m \in Created, Stored(m), Accepts(db[m]), OnlyWindows(journal[m]),
         NEW r \in Replays(m), r.ok, NEW turns \in SUBSET Windows
  PROVE /\ Typed(StoreWindow(r.row, turns), <<>>)
        /\ StoreWindow(r.row, turns).status = db[m].status
        /\ StoreWindow(r.row, turns).reason = "none"
        /\ \A v \in acknowledged[m] \ overwritten[m] :
             Keeps(WindowEntry(turns), v) => v \in StoreWindow(r.row, turns).transcript
        /\ \A v \in turns : v \in StoreWindow(r.row, turns).transcript
<1>1. Fits(m, r.row, <<>>) /\ r.log = <<>>
  BY ReplayFits
<1>2. r.row \in Rows /\ r.row.status = db[m].status /\ r.row.reason = "none"
  BY <1>1 DEF Fits, Typed, Sound, Accepts, Terminal
<1>3. \A v \in acknowledged[m] \ overwritten[m] : v \in r.row.transcript
  BY <1>1, <1>2, SafeEmpty DEF Fits, KeepsSafe, Clean
<1>4. \A v : (v \in r.row.transcript /\ Keeps(WindowEntry(turns), v)) \/ v \in turns
               => v \in StoreWindow(r.row, turns).transcript
  BY <1>2, StoreKeeps
<1>5. Typed(StoreWindow(r.row, turns), <<>>) /\ StoreWindow(r.row, turns).status = r.row.status
      /\ StoreWindow(r.row, turns).reason = r.row.reason
  BY <1>1, <1>2 DEF Fits, Typed, StoreWindow, Rows, Sound
<1> QED
  BY <1>2, <1>3, <1>4, <1>5

AttemptFits(m, turns, c) ==
  /\ Typed(c.row, c.log) /\ OnlyWindows(c.log)
  /\ c.row.status = db[m].status /\ c.row.reason = "none"
  /\ c.result \in {"stored", "journaled", "raised", "skipped"} /\ c.cost \in Nat
  /\ \A v \in acknowledged[m] \ overwritten[m] :
       Keeps(WindowEntry(turns), v) => Safe(c.row, c.log, v)
  /\ c.result \in {"stored", "journaled"} => \A v \in turns : Safe(c.row, c.log, v)

\* What a reconcile leaves.
LEMMA AttemptEnds ==
  ASSUME TypeOK, current \in Created, Stored(current), Accepts(db[current]),
         OnlyWindows(journal[current]), NEW turns \in SUBSET Windows, NEW c \in Attempts(turns)
  PROVE AttemptFits(current, turns, c)
<1> DEFINE m == current
           E == WindowEntry(turns)
<1>1. PICK r \in Replays(m) :
        \/ \E s \in Stores(r, turns) :
             c = [row |-> s.row, log |-> s.log, result |-> "stored", cost |-> s.cost]
        \/ \E f \in StoreFails(r, turns) : c \in JournalWindow(f, turns)
  BY DEF Attempts
<1>2. /\ Fits(m, r.row, r.log) /\ r.ok \in BOOLEAN /\ r.cost \in 0 .. 1 /\ (r.ok => r.log = <<>>)
      /\ r = [row |-> r.row, log |-> r.log, ok |-> r.ok, cost |-> r.cost]
  BY ReplayFits
<1>3. r.row.status = db[m].status /\ OnlyWindows(r.log) /\ Typed(r.row, r.log)
      /\ r.row.reason = "none" /\ db[m].status \notin Terminal
  BY <1>2 DEF Fits, Typed, Sound, Accepts, Terminal
<1>4. \A v \in acknowledged[m] \ overwritten[m] : Safe(r.row, r.log, v)
  BY <1>2, <1>3 DEF Fits, KeepsSafe, Clean
<1>5. CASE \E s \in Stores(r, turns) :
             c = [row |-> s.row, log |-> s.log, result |-> "stored", cost |-> s.cost]
  <2>1. r.ok /\ \E s : s = [r EXCEPT !.row = StoreWindow(@, turns)]
                  /\ c = [row |-> s.row, log |-> s.log, result |-> "stored", cost |-> s.cost]
    BY <1>5 DEF Stores
  <2>2. /\ c.row = StoreWindow(r.row, turns) /\ c.log = <<>>
        /\ c.result = "stored" /\ c.cost \in Nat
    BY <1>2, <2>1
  <2>3. \A v : Safe(c.row, c.log, v) <=> v \in StoreWindow(r.row, turns).transcript
    BY <2>2, SafeEmpty
  <2>4. /\ Typed(StoreWindow(r.row, turns), <<>>)
        /\ StoreWindow(r.row, turns).status = db[m].status
        /\ StoreWindow(r.row, turns).reason = "none"
        /\ \A v \in acknowledged[m] \ overwritten[m] :
             Keeps(WindowEntry(turns), v) => v \in StoreWindow(r.row, turns).transcript
        /\ \A v \in turns : v \in StoreWindow(r.row, turns).transcript
    BY <2>1, StoreFits
  <2> QED
    BY <2>2, <2>3, <2>4, EmptyLog DEF AttemptFits
<1>6. CASE \E f \in StoreFails(r, turns) : c \in JournalWindow(f, turns)
  <2>1. PICK f \in StoreFails(r, turns) : c \in JournalWindow(f, turns)
    BY <1>6
  <2>2. /\ f.log = r.log /\ f.cost \in Nat
        /\ f.row = r.row \/ (r.ok /\ f.row = StoreWindow(r.row, turns))
    <3>1. CASE f = r
      BY <1>2, <3>1
    <3>2. CASE f # r
      <4>1. r.ok /\ f \in {[r EXCEPT !.row = IF g = "commit" THEN StoreWindow(@, turns) ELSE @,
                                     !.cost = @ + 1] : g \in Faults \cap {"db", "commit"}}
        BY <1>2, <2>1, <3>2 DEF StoreFails
      <4>2. PICK g : f = [r EXCEPT !.row = IF g = "commit" THEN StoreWindow(@, turns) ELSE @,
                                   !.cost = @ + 1]
        BY <4>1
      <4>3. f.log = r.log
        BY <1>2, <4>2
      <4>4. f.cost = r.cost + 1 /\ r.cost \in Nat
        BY <1>2, <4>2
      <4>5. f.row = IF g = "commit" THEN StoreWindow(r.row, turns) ELSE r.row
        BY <1>2, <4>2
      <4>6. r.ok
        BY <4>1
      <4>7. f.cost \in Nat
        BY <4>4
      <4> QED
        BY <4>3, <4>5, <4>6, <4>7, Zenon
    <3> QED
      BY <3>1, <3>2
  <2>3. /\ Typed(f.row, r.log) /\ f.row.status = db[m].status /\ f.row.reason = "none"
        /\ \A v \in acknowledged[m] \ overwritten[m] : Keeps(E, v) => Safe(f.row, r.log, v)
    <3>1. CASE f.row = r.row
      BY <1>3, <1>4, <3>1
    <3>2. CASE r.ok /\ f.row = StoreWindow(r.row, turns)
      <4>1. r.log = <<>> /\ r.ok
        BY <1>2, <3>2
      <4>2. /\ Typed(f.row, <<>>) /\ f.row.status = db[m].status /\ f.row.reason = "none"
            /\ \A v \in acknowledged[m] \ overwritten[m] : Keeps(E, v) => v \in f.row.transcript
        <5>1. /\ Typed(StoreWindow(r.row, turns), <<>>)
              /\ StoreWindow(r.row, turns).status = db[m].status
              /\ StoreWindow(r.row, turns).reason = "none"
              /\ \A v \in acknowledged[m] \ overwritten[m] :
                   Keeps(E, v) => v \in StoreWindow(r.row, turns).transcript
          BY <4>1, StoreFits
        <5>2. f.row = StoreWindow(r.row, turns)
          BY <3>2
        <5> QED
          BY <5>1, <5>2, Zenon
      <4> QED
        BY <4>1, <4>2, SafeEmpty
    <3> QED
      BY <2>2, <3>1, <3>2
  <2>4. \/ c = [row |-> f.row, log |-> Append(f.log, E), result |-> "journaled", cost |-> f.cost]
        \/ c = [row |-> f.row, log |-> f.log, result |-> "raised", cost |-> f.cost + 1]
    BY <2>1 DEF JournalWindow
  <2>5. E \in Entries /\ E.do = "window" /\ E.turns = turns
    BY DEF Entries, WindowEntry
  <2>6. CASE c = [row |-> f.row, log |-> Append(f.log, E), result |-> "journaled", cost |-> f.cost]
    <3>1. c.row = f.row /\ c.log = Append(r.log, E) /\ c.result = "journaled" /\ c.cost \in Nat
      BY <2>2, <2>6
    <3>2. r.log \in Seq(Entries)
      BY <1>3 DEF Typed
    <3> HIDE DEF E
    <3>3. Typed(c.row, c.log) /\ OnlyWindows(c.log)
      BY <1>3, <2>3, <2>5, <3>1, <3>2 DEF Typed, OnlyWindows
    <3>4. \A v \in acknowledged[m] \ overwritten[m] : Keeps(E, v) => Safe(c.row, c.log, v)
      BY <2>3, <2>5, <3>1, <3>2, SafeAppend
    <3>5. \A v \in turns : Safe(c.row, c.log, v)
      BY <2>5, <3>1, <3>2, SafeAppend DEF Has
    <3> QED
      BY <2>3, <3>1, <3>3, <3>4, <3>5 DEF AttemptFits, E
  <2>7. CASE c = [row |-> f.row, log |-> f.log, result |-> "raised", cost |-> f.cost + 1]
    <3>1. c.row = f.row /\ c.log = r.log /\ c.result = "raised" /\ c.cost \in Nat
      BY <2>2, <2>7
    <3> QED
      BY <1>3, <2>3, <3>1 DEF AttemptFits
  <2> QED
    BY <2>4, <2>6, <2>7
<1> QED
  BY <1>1, <1>5, <1>6

LEMMA SkippedFits ==
  ASSUME TypeOK, current \in Created, Stored(current), Accepts(db[current]),
         OnlyWindows(journal[current]), NEW turns
  PROVE AttemptFits(current, turns, Skipped)
<1>1. Fits(current, db[current], journal[current])
  BY RowFits
<1>2. db[current].reason = "none"
  BY DEF Stored, Holds, Sound, Accepts, Terminal
<1> QED
  BY <1>1, <1>2 DEF AttemptFits, Skipped, Fits, KeepsSafe, Typed, Clean
-----------------------------------------------------------------------------
(***************************************************************************)
(* What a step does to the meetings.                                       *)
(***************************************************************************)
LEMMA FaultsTyped ==
  ASSUME TypeOK, NEW n \in Nat, Spend(n) PROVE faults' \in 0 .. MaxFaults
BY BoundsAssumption DEF TypeOK, Spend

LEMMA StoredSame ==
  ASSUME AllStored, db' = db, journal' = journal, acknowledged' = acknowledged,
         overwritten' = overwritten,
         \A m \in Meetings : db[m].status = "completed" /\ m \in expired' => m \in expired
  PROVE AllStored'
BY DEF AllStored, Stored

\* A step on one meeting.
LEMMA StoredOne ==
  ASSUME AllStored, NEW m \in Meetings,
         \A k \in Meetings \ {m} : /\ db'[k] = db[k] /\ journal'[k] = journal[k]
                                   /\ acknowledged'[k] = acknowledged[k]
                                   /\ overwritten'[k] = overwritten[k]
                                   /\ k \in expired' => k \in expired,
         Holds(db'[m], journal'[m], acknowledged'[m] \ overwritten'[m]),
         db'[m].status = "completed" => m \notin expired'
  PROVE AllStored'
<1> SUFFICES ASSUME NEW k \in Meetings PROVE Stored(k)'
  BY DEF AllStored
<1>1. CASE k = m
  BY <1>1 DEF Stored
<1>2. CASE k # m
  <2>1. Stored(k)
    BY DEF AllStored
  <2>2. k \in Meetings \ {m}
    BY <1>2
  <2>3. db'[k] = db[k] /\ journal'[k] = journal[k] /\ acknowledged'[k] = acknowledged[k]
        /\ overwritten'[k] = overwritten[k] /\ (k \in expired' => k \in expired)
    BY <2>2
  <2> QED
    BY <2>1, <2>3 DEF Stored
<1> QED
  BY <1>1, <1>2

\* A change of the status and of the reason.
LEMMA RowHolds ==
  ASSUME NEW row, NEW log, NEW windows, Holds(row, log, windows), NEW new,
         new.transcript = row.transcript, Sound(new),
         new.status \in Terminal /\ new.reason \in Clean => NoWindows(log),
         new.reason \in Clean => row.reason \in Clean
  PROVE Holds(new, log, windows)
BY DEF Holds, Safe

\* The ends of a write.
LEMMA WriteEnds ==
  ASSUME TypeOK, NEW out, NEW m \in Meetings, NEW legal, NEW row \in Rows, Write(out, m, legal, row)
  PROVE /\ faults' \in 0 .. MaxFaults
        /\ db' \in [Meetings -> Rows]
        /\ \A k \in Meetings \ {m} : db'[k] = db[k]
        /\ (out = "fail" /\ db' = db) \/ (legal /\ db'[m] = row)
        /\ out = "ok" => db'[m] = row
<1>1. faults' \in 0 .. MaxFaults
  <2>1. (IF out = "ok" \/ ~legal THEN 0 ELSE 1) \in Nat
    OBVIOUS
  <2> QED
    BY <2>1, FaultsTyped DEF Write
<1> QED
  BY <1>1 DEF Write, TypeOK

\* The meetings that have a row.
LEMMA CreatedOne ==
  ASSUME NEW m \in Meetings, \A k \in Meetings \ {m} : db'[k] = db[k], db'[m].status # "none"
  PROVE Created' = Created \cup {m}
<1>1. ASSUME NEW k PROVE k \in Created' <=> k \in Created \cup {m}
  <2>1. CASE k \in Meetings \ {m}
    BY <2>1 DEF Created
  <2>2. CASE k \notin Meetings \ {m}
    BY <2>2 DEF Created
  <2> QED
    BY <2>1, <2>2
<1> QED
  BY <1>1
-----------------------------------------------------------------------------
(***************************************************************************)
(* The steps that leave the disk alone.                                    *)
(***************************************************************************)
LEMMA CommitStep == ASSUME Ind, Commit PROVE Ind'
<1> USE DEF Ind, Commit, disk, session, finalizer, finalization, history
<1>1. TypeOK'
  BY DEF TypeOK, Phases, Created
<1>2. AllStored'
  BY StoredSame
<1>3. CurrentStored'
  BY DEF CurrentStored, Created, BeforeSeal, BeforeFinish, WhileSealing, Sealed, FinalStatus
<1>4. Expiry'
  BY DEF Expiry, Created, BeforeSeal, BeforeFinish, WhileSealing
<1>5. Captures'
  BY DEF Captures, Created, BeforeSeal, BeforeFinish, WhileSealing, Sealed
<1>6. Finalized'
  BY DEF Finalized, Created, BeforeSeal, BeforeFinish, WhileSealing, Sealed, Ending
<1> QED
  BY <1>1, <1>2, <1>3, <1>4, <1>5, <1>6

LEMMA FinishFailsStep == ASSUME Ind, FinishFails PROVE Ind'
<1> USE DEF Ind, FinishFails, Goto, disk, session, finalizer, finalization, history
<1>1. TypeOK'
  <2>1. faults' \in 0 .. MaxFaults
    BY FaultsTyped
  <2> QED
    BY <2>1 DEF TypeOK, Phases, Created
<1>2. AllStored'
  BY StoredSame
<1>3. CurrentStored'
  BY DEF CurrentStored, Created, BeforeSeal, BeforeFinish, WhileSealing, Sealed
<1>4. Expiry'
  BY DEF Expiry, Created, BeforeSeal, BeforeFinish, WhileSealing
<1>5. Captures'
  BY DEF Captures, Created, BeforeSeal, BeforeFinish, WhileSealing, Sealed, TypeOK
<1>6. Finalized'
  BY DEF Finalized, Created, BeforeSeal, BeforeFinish, WhileSealing, Sealed, Ending
<1> QED
  BY <1>1, <1>2, <1>3, <1>4, <1>5, <1>6

LEMMA RemapFailsStep == ASSUME Ind, RemapFails PROVE Ind'
<1> USE DEF Ind, RemapFails, Goto, disk, session, finalizer, finalization, recording, history
<1>1. TypeOK'
  <2>1. faults' \in 0 .. MaxFaults
    BY FaultsTyped
  <2> QED
    BY <2>1 DEF TypeOK, Phases, Created
<1>2. AllStored'
  BY StoredSame
<1>3. CurrentStored'
  BY DEF CurrentStored, Created, BeforeSeal, BeforeFinish, WhileSealing, Sealed
<1>4. Expiry'
  BY DEF Expiry, Created, BeforeSeal, BeforeFinish, WhileSealing
<1>5. Captures'
  BY DEF Captures, Created, BeforeSeal, BeforeFinish, WhileSealing, Sealed, TypeOK
<1>6. Finalized'
  BY DEF Finalized, Created, BeforeSeal, BeforeFinish, WhileSealing, Sealed, Ending
<1> QED
  BY <1>1, <1>2, <1>3, <1>4, <1>5, <1>6

LEMMA SettleStep == ASSUME Ind, Settle PROVE Ind'
<1> USE DEF Ind, Settle, Goto, disk, finalizer, finalization, history
<1>1. TypeOK'
  BY DEF TypeOK, Phases, Created
<1>2. AllStored'
  BY StoredSame
<1>3. CurrentStored'
  BY DEF CurrentStored, Created, BeforeSeal, BeforeFinish, WhileSealing, Sealed
<1>4. Expiry'
  BY DEF Expiry, Created, BeforeSeal, BeforeFinish, WhileSealing
<1>5. Captures'
  BY DEF Captures, Created, BeforeSeal, BeforeFinish, WhileSealing, Sealed, TypeOK
<1>6. Finalized'
  BY DEF Finalized, Created, BeforeSeal, BeforeFinish, WhileSealing, Sealed, Ending
<1> QED
  BY <1>1, <1>2, <1>3, <1>4, <1>5, <1>6

LEMMA KeepCompletedStep == ASSUME Ind, KeepCompleted PROVE Ind'
<1> USE DEF Ind, KeepCompleted, Goto, disk, session, finalizer, finalization, recording, history
<1>1. TypeOK'
  BY DEF TypeOK, Phases, Created
<1>2. AllStored'
  BY StoredSame
<1>3. CurrentStored'
  BY DEF CurrentStored, Created, BeforeSeal, BeforeFinish, WhileSealing, Sealed
<1>4. Expiry'
  BY DEF Expiry, Created, BeforeSeal, BeforeFinish, WhileSealing
<1>5. Captures'
  BY DEF Captures, Created, BeforeSeal, BeforeFinish, WhileSealing, Sealed, TypeOK
<1>6. Finalized'
  <2>1. finalizedRecord # NoRecord /\ current # NoMeeting /\ current \in Created
    BY DEF Finalized, TypeOK, CurrentStored
  <2>2. finalizedRecord.meeting # NoMeeting
    BY <2>1 DEF Finalized, Created, Meetings, NoMeeting
  <2> QED
    BY <2>2 DEF Finalized, Created, BeforeSeal, BeforeFinish, WhileSealing, Sealed, Ending
<1> QED
  BY <1>1, <1>2, <1>3, <1>4, <1>5, <1>6

LEMMA ReleaseStep == ASSUME Ind, Release PROVE Ind'
<1> USE DEF Ind, Release, Goto, disk, finalizer, finalization, recording, history
<1>1. TypeOK'
  BY DEF TypeOK, Phases, Created
<1>2. AllStored'
  BY StoredSame
<1>3. CurrentStored'
  BY DEF CurrentStored, BeforeSeal, BeforeFinish, WhileSealing, Sealed
<1>4. Expiry'
  BY DEF Expiry, Created, BeforeSeal, BeforeFinish, WhileSealing
<1>5. Captures'
  BY DEF Captures, Created, BeforeSeal, BeforeFinish, WhileSealing, Sealed, TypeOK
<1>6. Finalized'
  BY DEF Finalized, Created, BeforeSeal, BeforeFinish, WhileSealing, Sealed, Ending
<1> QED
  BY <1>1, <1>2, <1>3, <1>4, <1>5, <1>6

LEMMA FinishCaptureStep ==
  ASSUME Ind, NEW late \in 0 .. 1, NEW expires \in BOOLEAN, FinishCapture(late, expires)
  PROVE Ind'
<1> USE DEF Ind, FinishCapture, Goto, disk, session
<1>1. TypeOK'
  <2>1. faults' \in 0 .. MaxFaults
    <3>1. (IF expires THEN 1 ELSE 0) \in Nat
      OBVIOUS
    <3> QED
      BY <3>1, FaultsTyped
  <2>2. spoken' \in Windows /\ finalWindow' \in Windows \cup {NoWindow}
    BY BoundsAssumption DEF TypeOK, Windows
  <2>3. expired' \subseteq Meetings /\ timedOut' \in BOOLEAN
    BY DEF TypeOK, CurrentStored, Created, NoMeeting
  <2> QED
    BY <2>1, <2>2, <2>3 DEF TypeOK, Phases, Created
<1>2. AllStored'
  <2>1. db[current].status # "completed"
    BY DEF CurrentStored, BeforeSeal, BeforeFinish, Accepts
  <2> QED
    BY <2>1, StoredSame
<1>3. CurrentStored'
  <2>1. acknowledged[current] \subseteq 0 .. spoken'
    BY DEF CurrentStored, BeforeSeal, BeforeFinish, TypeOK, Windows
  <2>2. finalWindow' \in {NoWindow, 0, spoken'}
    BY DEF TypeOK, Windows
  <2> QED
    BY <2>1, <2>2 DEF CurrentStored, Created, BeforeSeal, BeforeFinish, WhileSealing, Sealed
<1>4. Expiry'
  BY DEF Expiry, Created, BeforeSeal, BeforeFinish, WhileSealing, CurrentStored, TypeOK
<1>5. Captures'
  BY DEF Captures, Created, BeforeSeal, BeforeFinish, WhileSealing, Sealed, TypeOK
<1>6. Finalized'
  BY DEF Finalized, Created, BeforeSeal, BeforeFinish, WhileSealing, Sealed, Ending
<1> QED
  BY <1>1, <1>2, <1>3, <1>4, <1>5, <1>6

LEMMA CrashStep == ASSUME Ind, Crash PROVE Ind'
<1> USE DEF Ind, Crash, Goto, disk
<1>1. TypeOK'
  <2>1. faults' \in 0 .. MaxFaults
    BY FaultsTyped
  <2>2. NoRecord \in Records /\ 0 \in Windows
    BY BoundsAssumption DEF NoRecord, Records, Statuses, Windows
  <2> QED
    BY <2>1, <2>2 DEF TypeOK, Phases, Created
<1>2. AllStored'
  BY StoredSame
<1>3. CurrentStored'
  BY DEF CurrentStored, BeforeSeal, BeforeFinish, WhileSealing, Sealed
<1>4. Expiry'
  BY DEF Expiry, BeforeSeal, BeforeFinish, WhileSealing
<1>5. Captures'
  BY DEF Captures, BeforeSeal, BeforeFinish, WhileSealing, Sealed
<1>6. Finalized'
  BY DEF Finalized, BeforeSeal, BeforeFinish, WhileSealing, Sealed, Ending
<1> QED
  BY <1>1, <1>2, <1>3, <1>4, <1>5, <1>6
-----------------------------------------------------------------------------
(***************************************************************************)
(* The write-ahead entries of the seal.                                    *)
(***************************************************************************)
LEMMA HoldsLogged ==
  ASSUME NEW row, NEW log \in Seq(Entries), NEW windows, Holds(row, log, windows), NoWindows(log),
         NEW e \in Entries, e.do # "window"
  PROVE /\ Append(log, e) \in Seq(Entries) /\ NoWindows(Append(log, e))
        /\ Holds(row, Append(log, e), windows)
<1>1. Append(log, e) \in Seq(Entries) /\ NoWindows(Append(log, e))
  BY DEF NoWindows
<1>2. \A v : Safe(row, log, v) => Safe(row, Append(log, e), v)
  BY SafeAppend DEF Keeps
<1> QED
  BY <1>1, <1>2 DEF Holds

LEMMA HoldsDiscarded ==
  ASSUME NEW row, NEW log \in Seq(Entries), NEW windows, Holds(row, log, windows),
         row.status \in Terminal
  PROVE Holds(row, <<>>, windows)
<1>1. row.reason \in Clean => \A v \in windows : Safe(row, <<>>, v)
  BY SafeInRow, SafeEmpty DEF Holds
<1> QED
  BY <1>1, EmptyLog DEF Holds

\* current is a meeting that has a row.
LEMMA CurrentCreated ==
  ASSUME Ind, current # NoMeeting
  PROVE current \in Created /\ current \in Meetings /\ Stored(current) /\ 1 \in Created
        /\ journal[current] \in Seq(Entries) /\ db[current] \in Rows
BY DEF Ind, CurrentStored, Created, AllStored, TypeOK, Captures

LEMMA LogAheadStep ==
  ASSUME Ind, NEW at \in WhileSealing, NEW next \in WhileSealing, NEW entry \in Entries,
         entry.do # "window", LogAhead(at, entry, next)
  PROVE Ind'
<1> USE DEF Ind, LogAhead, Goto, session, finalizer, finalization, recording, history
<1>1. phase' \in WhileSealing \cup {"settling"} /\ phase \in WhileSealing
  BY DEF WhileSealing
<1>2. current # NoMeeting
  BY DEF TypeOK, WhileSealing
<1>3. current \in Created /\ current \in Meetings /\ Stored(current)
      /\ journal[current] \in Seq(Entries) /\ Accepts(db[current]) /\ NoWindows(journal[current])
  BY <1>1, <1>2, CurrentCreated DEF CurrentStored
<1>4. journal' = journal \/ journal' = [journal EXCEPT ![current] = Append(@, entry)]
  OBVIOUS
<1>5. /\ \A k \in Meetings \ {current} : journal'[k] = journal[k]
      /\ journal'[current] \in Seq(Entries) /\ NoWindows(journal'[current])
      /\ Holds(db[current], journal'[current], acknowledged[current] \ overwritten[current])
      /\ journal' \in [Meetings -> Seq(Entries)]
  <2>1. journal \in [Meetings -> Seq(Entries)]
    BY DEF TypeOK
  <2>2. Holds(db[current], journal[current], acknowledged[current] \ overwritten[current])
    BY <1>3 DEF Stored
  <2>3. CASE journal' = journal
    BY <1>3, <2>1, <2>2, <2>3
  <2>4. CASE journal' = [journal EXCEPT ![current] = Append(@, entry)]
    <3> DEFINE log == Append(journal[current], entry)
    <3>1. log \in Seq(Entries) /\ NoWindows(log)
          /\ Holds(db[current], log, acknowledged[current] \ overwritten[current])
      BY <1>3, <2>2, HoldsLogged
    <3>2. journal' = [journal EXCEPT ![current] = log]
      BY <2>4
    <3> HIDE DEF log
    <3>3. journal'[current] = log /\ \A k \in Meetings \ {current} : journal'[k] = journal[k]
      BY <1>3, <2>1, <3>2
    <3>4. journal' \in [Meetings -> Seq(Entries)]
      BY <1>3, <2>1, <3>1, <3>2
    <3> QED
      BY <3>1, <3>3, <3>4
  <2> QED
    BY <1>4, <2>3, <2>4
<1>6. TypeOK'
  <2>1. faults' \in 0 .. MaxFaults
    BY FaultsTyped DEF TypeOK
  <2>2. phase' \in Phases \ {"down", "idle"}
    BY <1>1 DEF WhileSealing, Phases
  <2>3. \A m \in Meetings \ Created : journal'[m] = <<>>
    BY <1>3, <1>5 DEF TypeOK
  <2> QED
    BY <1>2, <1>5, <2>1, <2>2, <2>3 DEF TypeOK, Created
<1>7. AllStored'
  BY <1>3, <1>5, StoredOne DEF Stored
<1>8. CurrentStored'
  BY <1>1, <1>3, <1>5 DEF CurrentStored, Created, BeforeSeal, BeforeFinish, WhileSealing, Sealed
<1>9. Expiry'
  BY <1>1 DEF Expiry, Created, BeforeSeal, BeforeFinish, WhileSealing
<1>10. Captures'
  BY <1>1 DEF Captures, Created, BeforeSeal, BeforeFinish, WhileSealing, Sealed
<1>11. Finalized'
  BY <1>1 DEF Finalized, Created, BeforeSeal, BeforeFinish, WhileSealing, Sealed, Ending
<1> QED
  BY <1>6, <1>7, <1>8, <1>9, <1>10, <1>11

LEMMA LogFinalizeStep == ASSUME Ind, LogFinalize PROVE Ind'
BY LogAheadStep DEF LogFinalize, Entries, WhileSealing

LEMMA LogStatusStep == ASSUME Ind, LogStatus PROVE Ind'
<1>1. [do |-> "status", status |-> FinalStatus] \in Entries
  BY DEF FinalStatus, Entries, Terminal
<1> QED
  BY <1>1, LogAheadStep DEF LogStatus, WhileSealing

LEMMA DiscardStep == ASSUME Ind, Discard PROVE Ind'
<1> USE DEF Ind, Discard, Goto, session, finalization, recording, history
<1>1. current # NoMeeting
  BY DEF TypeOK
<1>2. current \in Created /\ current \in Meetings /\ Stored(current)
      /\ journal[current] \in Seq(Entries)
  BY <1>1, CurrentCreated
<1>3. db[current].status = FinalStatus /\ FinalStatus \in Terminal
  BY DEF CurrentStored, Sealed, FinalStatus, Terminal
<1>4. journal' = journal \/ journal' = [journal EXCEPT ![current] = <<>>]
  OBVIOUS
<1>5. /\ \A k \in Meetings \ {current} : journal'[k] = journal[k]
      /\ Holds(db[current], journal'[current], acknowledged[current] \ overwritten[current])
      /\ journal' \in [Meetings -> Seq(Entries)]
  <2>1. journal \in [Meetings -> Seq(Entries)]
    BY DEF TypeOK
  <2>2. Holds(db[current], journal[current], acknowledged[current] \ overwritten[current])
    BY <1>2 DEF Stored
  <2>3. CASE journal' = journal
    BY <2>1, <2>2, <2>3
  <2>4. CASE journal' = [journal EXCEPT ![current] = <<>>]
    <3>1. journal'[current] = <<>> /\ \A k \in Meetings \ {current} : journal'[k] = journal[k]
      BY <1>2, <2>1, <2>4
    <3>2. journal' \in [Meetings -> Seq(Entries)]
      BY <1>2, <2>1, <2>4, EmptyLog
    <3>3. Holds(db[current], <<>>, acknowledged[current] \ overwritten[current])
      BY <1>2, <1>3, <2>2, HoldsDiscarded
    <3> QED
      BY <3>1, <3>2, <3>3
  <2> QED
    BY <1>4, <2>3, <2>4
<1>6. TypeOK'
  <2>1. faults' \in 0 .. MaxFaults
    BY FaultsTyped DEF TypeOK
  <2>2. finalizedRecord' \in Records
    BY <1>2, <1>3 DEF RecordOf, Records, Statuses
  <2>3. \A m \in Meetings \ Created : journal'[m] = <<>>
    BY <1>2, <1>5 DEF TypeOK
  <2> QED
    BY <1>1, <1>5, <2>1, <2>2, <2>3 DEF TypeOK, Created, Phases
<1>7. AllStored'
  BY <1>2, <1>5, StoredOne DEF Stored
<1>8. CurrentStored'
  BY <1>2, <1>3 DEF CurrentStored, Created, BeforeSeal, BeforeFinish, WhileSealing, Sealed, FinalStatus
<1>9. Expiry'
  BY DEF Expiry, Created, BeforeSeal, BeforeFinish, WhileSealing
<1>10. Captures'
  BY DEF Captures, Created, BeforeSeal, BeforeFinish, WhileSealing, Sealed
<1>11. Finalized'
  BY <1>2, <1>3 DEF Finalized, Created, BeforeSeal, BeforeFinish, WhileSealing, Sealed, Ending, RecordOf
<1> QED
  BY <1>6, <1>7, <1>8, <1>9, <1>10, <1>11
-----------------------------------------------------------------------------
(***************************************************************************)
(* The steps that change the status of the current meeting.                *)
(***************************************************************************)
LEMMA WriteCurrent ==
  ASSUME Ind, current # NoMeeting, NEW out, NEW legal, NEW row \in Rows,
         Write(out, current, legal, row), journal' = journal, acknowledged' = acknowledged,
         overwritten' = overwritten, expired' = expired,
         legal => /\ row.transcript = db[current].transcript /\ row.status # "none" /\ Sound(row)
                  /\ row.status \in Terminal /\ row.reason \in Clean => NoWindows(journal[current])
                  /\ row.reason \in Clean => db[current].reason \in Clean
                  /\ row.status = "completed" => current \notin expired
  PROVE /\ AllStored'
        /\ Created' = Created
        /\ faults' \in 0 .. MaxFaults /\ db' \in [Meetings -> Rows]
        /\ db'[current] = db[current] \/ (legal /\ db'[current] = row)
        /\ out # "fail" => legal /\ db'[current] = row
<1> DEFINE m == current
<1>1. m \in Created /\ m \in Meetings /\ Stored(m)
  BY CurrentCreated
<1>2. /\ faults' \in 0 .. MaxFaults /\ db' \in [Meetings -> Rows]
      /\ \A k \in Meetings \ {m} : db'[k] = db[k]
      /\ (out = "fail" /\ db' = db) \/ (legal /\ db'[m] = row)
  BY <1>1, WriteEnds DEF Ind
<1>3. db'[m].status # "none"
  BY <1>1, <1>2 DEF Created
<1>4. Created' = Created
  BY <1>1, <1>2, <1>3, CreatedOne
<1>5. Holds(db'[m], journal[m], acknowledged[m] \ overwritten[m])
  BY <1>1, <1>2, RowHolds DEF Stored
<1>6. db'[m].status = "completed" => m \notin expired
  BY <1>1, <1>2 DEF Stored
<1>7. AllStored'
  BY <1>1, <1>2, <1>5, <1>6, StoredOne DEF Ind
<1> QED
  BY <1>2, <1>4, <1>7

LEMMA WithStatusRow ==
  ASSUME NEW row \in Rows, NEW status \in Statuses, NEW reason \in Reasons
  PROVE /\ WithStatus(row, status, reason) \in Rows
        /\ WithStatus(row, status, reason).transcript = row.transcript
        /\ WithStatus(row, status, reason).status = status
        /\ WithStatus(row, status, reason).reason = reason
BY DEF WithStatus, Rows

LEMMA AbortStartStep == ASSUME Ind, NEW out \in Outcomes, AbortStart(out) PROVE Ind'
<1> USE DEF AbortStart, finalizer, finalization, history
<1> DEFINE row == WithStatus(db[current], "interrupted", "mode_switch_aborted")
<1>1. current # NoMeeting
  BY DEF Ind, TypeOK
<1>2. current \in Created /\ current \in Meetings /\ db[current] \in Rows
  BY <1>1, CurrentCreated
<1>3. row \in Rows /\ row.transcript = db[current].transcript /\ row.status = "interrupted"
      /\ row.reason = "mode_switch_aborted"
  BY <1>2, WithStatusRow DEF Statuses, Terminal, Reasons
<1> HIDE DEF row
<1>4. Write(out, current, TRUE, row)
  BY DEF row
<1>5. AllStored' /\ Created' = Created /\ faults' \in 0 .. MaxFaults /\ db' \in [Meetings -> Rows]
  BY <1>1, <1>3, <1>4, WriteCurrent DEF Sound, Terminal, Clean
<1>6. TypeOK'
  <2>1. record' \in Records
    BY <1>2 DEF Ind, TypeOK, Records, RecordOf, Statuses, Terminal
  <2> QED
    BY <1>5, <2>1 DEF Ind, TypeOK, Phases
<1>7. CurrentStored'
  BY DEF CurrentStored, BeforeSeal, BeforeFinish, WhileSealing, Sealed
<1>8. Expiry'
  BY <1>5 DEF Ind, Expiry, BeforeSeal, BeforeFinish, WhileSealing
<1>9. Captures'
  BY <1>5 DEF Ind, Captures, BeforeSeal, BeforeFinish, WhileSealing, Sealed
<1>10. Finalized'
  BY <1>5 DEF Ind, Finalized, BeforeSeal, BeforeFinish, WhileSealing, Sealed, Ending
<1> QED
  BY <1>5, <1>6, <1>7, <1>8, <1>9, <1>10 DEF Ind

LEMMA InterruptStep == ASSUME Ind, NEW out \in Outcomes, Interrupt(out) PROVE Ind'
<1> USE DEF Interrupt, Goto, finalizer, finalization, history
<1> DEFINE row == WithStatus(db[current], "interrupted", "interrupted")
<1>1. current # NoMeeting
  BY DEF Ind, TypeOK
<1>2. current \in Created /\ current \in Meetings /\ db[current] \in Rows
  BY <1>1, CurrentCreated
<1>3. row \in Rows /\ row.transcript = db[current].transcript /\ row.status = "interrupted"
      /\ row.reason = "interrupted"
  BY <1>2, WithStatusRow DEF Statuses, Terminal, Reasons
<1> HIDE DEF row
<1>4. Write(out, current, TRUE, row)
  BY DEF row
<1>5. AllStored' /\ Created' = Created /\ faults' \in 0 .. MaxFaults /\ db' \in [Meetings -> Rows]
  BY <1>1, <1>3, <1>4, WriteCurrent DEF Sound, Terminal, Clean
<1>6. TypeOK'
  <2>1. record' \in Records /\ storageDegraded' \in BOOLEAN
    BY <1>2 DEF Ind, TypeOK, Records, RecordOf, Statuses, Terminal
  <2> QED
    BY <1>5, <2>1 DEF Ind, TypeOK, Phases
<1>7. CurrentStored'
  BY DEF CurrentStored, BeforeSeal, BeforeFinish, WhileSealing, Sealed
<1>8. Expiry'
  BY <1>5 DEF Ind, Expiry, BeforeSeal, BeforeFinish, WhileSealing
<1>9. Captures'
  BY <1>5 DEF Ind, Captures, BeforeSeal, BeforeFinish, WhileSealing, Sealed
<1>10. Finalized'
  BY <1>5 DEF Ind, Finalized, BeforeSeal, BeforeFinish, WhileSealing, Sealed, Ending
<1> QED
  BY <1>5, <1>6, <1>7, <1>8, <1>9, <1>10 DEF Ind

LEMMA BeginStopStep == ASSUME Ind, NEW out \in Outcomes, BeginStop(out) PROVE Ind'
<1> USE DEF BeginStop, Goto, finalizer, finalization, recording, history
<1> DEFINE row == WithStatus(db[current], "finalizing", "none")
<1>1. current # NoMeeting
  BY DEF Ind, TypeOK
<1>2. current \in Created /\ current \in Meetings /\ db[current] \in Rows /\ Stored(current)
  BY <1>1, CurrentCreated
<1>3. row \in Rows /\ row.transcript = db[current].transcript /\ row.status = "finalizing"
      /\ row.reason = "none"
  BY <1>2, WithStatusRow DEF Statuses, Terminal, Reasons
<1>4. db[current].reason = "none" /\ Accepts(db[current]) /\ OnlyWindows(journal[current])
  BY <1>2 DEF Ind, CurrentStored, BeforeSeal, BeforeFinish, Stored, Holds, Sound, Accepts, Terminal
<1> HIDE DEF row
<1>5. Write(out, current, TRUE, row)
  BY DEF row
<1>6. /\ AllStored' /\ Created' = Created /\ faults' \in 0 .. MaxFaults /\ db' \in [Meetings -> Rows]
      /\ db'[current] = db[current] \/ db'[current] = row
  BY <1>1, <1>3, <1>4, <1>5, WriteCurrent DEF Sound, Terminal, Clean
<1>7. TypeOK'
  <2>1. record' \in Records
    BY <1>2 DEF Ind, TypeOK, Records, RecordOf, Statuses, Terminal
  <2> QED
    BY <1>6, <2>1 DEF Ind, TypeOK, Phases
<1>8. CurrentStored'
  <2>1. Accepts(db'[current])
    BY <1>3, <1>4, <1>6 DEF Accepts
  <2> QED
    BY <1>2, <1>4, <1>6, <2>1 DEF Ind, CurrentStored, BeforeSeal, BeforeFinish, WhileSealing, Sealed
<1>9. Expiry'
  BY <1>6 DEF Ind, Expiry, BeforeSeal, BeforeFinish, WhileSealing
<1>10. Captures'
  BY <1>6 DEF Ind, Captures, BeforeSeal, BeforeFinish, WhileSealing, Sealed
<1>11. Finalized'
  BY <1>6 DEF Ind, Finalized, BeforeSeal, BeforeFinish, WhileSealing, Sealed, Ending, RecordOf
<1> QED
  BY <1>6, <1>7, <1>8, <1>9, <1>10, <1>11 DEF Ind

LEMMA CommitSealStep == ASSUME Ind, NEW out \in Outcomes, CommitSeal(out) PROVE Ind'
<1> USE DEF CommitSeal, Goto, session, finalizer, finalization, recording, history
<1> DEFINE row == Seal(db[current], FinalStatus, ReasonOf(FinalStatus))
           legal == MaySeal(db[current], FinalStatus)
<1>1. current # NoMeeting
  BY DEF Ind, TypeOK
<1>2. current \in Created /\ current \in Meetings /\ db[current] \in Rows /\ Stored(current)
  BY <1>1, CurrentCreated
<1>3. /\ db[current].reason = "none" /\ Accepts(db[current]) /\ NoWindows(journal[current])
      /\ current \in expired => timedOut
  BY <1>2 DEF Ind, CurrentStored, BeforeFinish, WhileSealing, Stored, Holds, Sound, Accepts, Terminal,
    Expiry
<1>4. FinalStatus \in Terminal /\ FinalStatus \in Statuses /\ ReasonOf(FinalStatus) \in Reasons
      /\ (FinalStatus = "completed" => current \notin expired /\ ReasonOf(FinalStatus) = "none")
  BY <1>3 DEF FinalStatus, ReasonOf, Statuses, Terminal, Reasons
<1>5. row = WithStatus(db[current], FinalStatus, ReasonOf(FinalStatus))
  BY <1>3, <1>4 DEF Seal, Accepts, Terminal
<1>6. row \in Rows /\ row.transcript = db[current].transcript /\ row.status = FinalStatus
      /\ row.reason = ReasonOf(FinalStatus)
  BY <1>2, <1>4, <1>5, WithStatusRow
<1> HIDE DEF row, legal
<1>7. Write(out, current, legal, row)
  BY DEF row, legal
<1>8. /\ AllStored' /\ Created' = Created /\ faults' \in 0 .. MaxFaults /\ db' \in [Meetings -> Rows]
      /\ out # "fail" => db'[current] = row
  BY <1>1, <1>3, <1>4, <1>6, <1>7, WriteCurrent DEF Sound, Terminal, Clean
<1>9. TypeOK'
  BY <1>8 DEF Ind, TypeOK, Phases
<1>10. CurrentStored'
  BY <1>2, <1>6, <1>8 DEF Ind, CurrentStored, BeforeSeal, BeforeFinish, WhileSealing, Sealed, FinalStatus
<1>11. Expiry'
  BY <1>8 DEF Ind, Expiry, BeforeSeal, BeforeFinish, WhileSealing
<1>12. Captures'
  BY <1>8 DEF Ind, Captures, BeforeSeal, BeforeFinish, WhileSealing, Sealed
<1>13. Finalized'
  BY <1>8 DEF Ind, Finalized, BeforeSeal, BeforeFinish, WhileSealing, Sealed, Ending
<1> QED
  BY <1>8, <1>9, <1>10, <1>11, <1>12, <1>13 DEF Ind

LEMMA QueueMinutesStep == ASSUME Ind, NEW out \in Outcomes, QueueMinutes(out) PROVE Ind'
<1> USE DEF QueueMinutes, Goto, finalizer, finalization, recording, history
<1> DEFINE row == [db[current] EXCEPT !.minutes = TRUE]
<1>1. current # NoMeeting
  BY DEF Ind, TypeOK
<1>2. current \in Created /\ current \in Meetings /\ db[current] \in Rows /\ Stored(current)
  BY <1>1, CurrentCreated
<1>3. row \in Rows /\ row.transcript = db[current].transcript /\ row.status = db[current].status
      /\ row.reason = db[current].reason
  BY <1>2 DEF Rows
<1>4. db[current].status = FinalStatus /\ FinalStatus \in Terminal
  BY DEF Ind, CurrentStored, Sealed, FinalStatus, Terminal
<1> HIDE DEF row
<1>5. Write(out, current, TRUE, row)
  BY DEF row
<1>6. /\ AllStored' /\ Created' = Created /\ faults' \in 0 .. MaxFaults /\ db' \in [Meetings -> Rows]
      /\ db'[current] = db[current] \/ db'[current] = row
  BY <1>1, <1>2, <1>3, <1>4, <1>5, WriteCurrent DEF Sound, Stored, Holds, Created
<1>7. TypeOK'
  BY <1>6 DEF Ind, TypeOK, Phases
<1>8. CurrentStored'
  BY <1>2, <1>6 DEF Ind, CurrentStored, BeforeSeal, BeforeFinish, WhileSealing, Sealed
<1>9. Expiry'
  BY <1>6 DEF Ind, Expiry, BeforeSeal, BeforeFinish, WhileSealing
<1>10. Captures'
  BY <1>6 DEF Ind, Captures, BeforeSeal, BeforeFinish, WhileSealing, Sealed
<1>11. Finalized'
  <2>1. db'[current].status \in Terminal
    BY <1>3, <1>4, <1>6
  <2> QED
    BY <1>6, <2>1 DEF Ind, Finalized, BeforeSeal, BeforeFinish, WhileSealing, Sealed, Ending
<1> QED
  BY <1>6, <1>7, <1>8, <1>9, <1>10, <1>11 DEF Ind

LEMMA MarkInterruptedStep == ASSUME Ind, NEW out \in Outcomes, MarkInterrupted(out) PROVE Ind'
<1> USE DEF MarkInterrupted, Goto, finalizer, finalization, recording, history
<1> DEFINE row == WithStatus(db[current], "interrupted", "meeting_stop_failed")
<1>1. current # NoMeeting
  BY DEF Ind, TypeOK
<1>2. current \in Created /\ current \in Meetings /\ db[current] \in Rows
  BY <1>1, CurrentCreated
<1>3. row \in Rows /\ row.transcript = db[current].transcript /\ row.status = "interrupted"
      /\ row.reason = "meeting_stop_failed"
  BY <1>2, WithStatusRow DEF Statuses, Terminal, Reasons
<1> HIDE DEF row
<1>4. Write(out, current, TRUE, row)
  BY DEF row
<1>5. /\ AllStored' /\ Created' = Created /\ faults' \in 0 .. MaxFaults /\ db' \in [Meetings -> Rows]
      /\ db'[current] = db[current] \/ db'[current] = row
      /\ out # "fail" => db'[current] = row
  BY <1>1, <1>3, <1>4, WriteCurrent DEF Sound, Terminal, Clean
<1>6. TypeOK'
  <2>1. record' \in Records /\ storageDegraded' \in BOOLEAN
    BY <1>2 DEF Ind, TypeOK, Records, RecordOf, Statuses, Terminal
  <2> QED
    BY <1>5, <2>1 DEF Ind, TypeOK, Phases
<1>7. CurrentStored'
  BY <1>2, <1>5 DEF CurrentStored, BeforeSeal, BeforeFinish, WhileSealing, Sealed
<1>8. Expiry'
  BY <1>5 DEF Ind, Expiry, BeforeSeal, BeforeFinish, WhileSealing
<1>9. Captures'
  BY <1>5 DEF Ind, Captures, BeforeSeal, BeforeFinish, WhileSealing, Sealed
<1>10. Finalized'
  <2>1. out = "ok" \/ storageDegraded'
    OBVIOUS
  <2>2. db'[current].status \in Terminal \/ db'[current] = db[current]
    BY <1>3, <1>5 DEF Terminal
  <2>3. out = "ok" => db'[current].status \in Terminal
    BY <1>3, <1>5 DEF Terminal
  <2> QED
    BY <1>5, <2>1, <2>2, <2>3 DEF Ind, Finalized, BeforeSeal, BeforeFinish, WhileSealing, Sealed, Ending
<1> QED
  BY <1>5, <1>6, <1>7, <1>8, <1>9, <1>10 DEF Ind
-----------------------------------------------------------------------------
(***************************************************************************)
(* The steps that begin a meeting.                                         *)
(***************************************************************************)
LEMMA FreshMeeting ==
  ASSUME Ind, NEW m \in Meetings, Fresh(m)
  PROVE /\ m \notin Created /\ m # current /\ m # NoMeeting /\ finalizedRecord.meeting # m
        /\ journal[m] = <<>> /\ acknowledged[m] = {} /\ m \notin expired
        /\ 1 \in Created \cup {m}
        /\ captureClosed => 2 \in Created \cup {m}
<1>1. m \notin Created /\ m \in Nat \ {0} /\ \A k \in 1 .. m - 1 : k \in Created
  BY DEF Fresh, Meetings
<1>2. m # current /\ m # NoMeeting
  BY <1>1 DEF Ind, CurrentStored, NoMeeting
<1>3. finalizedRecord.meeting # m
  BY <1>1 DEF Ind, Finalized, NoRecord, NoMeeting
<1>4. journal[m] = <<>> /\ acknowledged[m] = {} /\ m \notin expired
  BY <1>1 DEF Ind, TypeOK, Expiry
<1>5. 1 \in Created \cup {m}
  <2>1. m = 1 \/ 1 \in 1 .. m - 1
    BY <1>1
  <2> QED
    BY <1>1, <2>1
<1>6. captureClosed => 2 \in Created \cup {m}
  <2>1. captureClosed => 1 \in Created
    BY DEF Ind, Captures
  <2>2. m = 1 \/ m = 2 \/ 2 \in 1 .. m - 1
    BY <1>1
  <2> QED
    BY <1>1, <2>1, <2>2
<1> QED
  BY <1>1, <1>2, <1>3, <1>4, <1>5, <1>6

\* The row of a new meeting is written, or not.
LEMMA FreshStored ==
  ASSUME Ind, NEW m \in Meetings, Fresh(m), \A k \in Meetings \ {m} : db'[k] = db[k],
         db'[m] = db[m] \/ (db'[m].status \in {"recording", "interrupted"} /\ Sound(db'[m])),
         journal' = journal, acknowledged' = acknowledged, overwritten' = overwritten,
         expired' = expired
  PROVE /\ AllStored'
        /\ Created \subseteq Created'
        /\ db'[m] # db[m] => Created' = Created \cup {m}
        /\ \A k \in Meetings \ Created' : journal'[k] = <<>> /\ acknowledged'[k] = {}
<1>1. m \notin Created /\ journal[m] = <<>> /\ acknowledged[m] = {}
  BY FreshMeeting
<1>2. CASE db'[m] = db[m]
  <2>1. \A k \in Meetings : db'[k] = db[k]
    BY <1>2
  <2>2. Created' = Created
    BY <2>1 DEF Created
  <2>3. Stored(m)
    BY DEF Ind, AllStored
  <2>4. Holds(db'[m], journal'[m], acknowledged'[m] \ overwritten'[m])
    BY <1>2, <2>3 DEF Stored
  <2>5. AllStored'
    BY <1>2, <2>3, <2>4, StoredOne DEF Ind, Stored
  <2> QED
    BY <1>2, <2>2, <2>5 DEF Ind, TypeOK
<1>3. CASE db'[m].status \in {"recording", "interrupted"} /\ Sound(db'[m])
  <2>1. Created' = Created \cup {m}
    BY <1>3, CreatedOne
  <2>2. Holds(db'[m], <<>>, {})
    BY <1>3, EmptyLog DEF Holds
  <2>3. acknowledged'[m] \ overwritten'[m] = {}
    BY <1>1
  <2>4. AllStored'
    BY <1>1, <1>3, <2>2, <2>3, StoredOne DEF Ind
  <2> QED
    BY <2>1, <2>4 DEF Ind, TypeOK
<1> QED
  BY <1>2, <1>3

LEMMA NewRowFits ==
  /\ NewRow \in Rows /\ NewRow.status = "recording" /\ Sound(NewRow) /\ Accepts(NewRow)
  /\ WithStatus(NewRow, "interrupted", "mode_switch_aborted") \in Rows
  /\ WithStatus(NewRow, "interrupted", "mode_switch_aborted").status = "interrupted"
  /\ Sound(WithStatus(NewRow, "interrupted", "mode_switch_aborted"))
BY DEF NewRow, Rows, WithStatus, Statuses, Reasons, Terminal, Sound, Accepts

LEMMA PrepareStep == ASSUME Ind, NEW m \in Meetings, Prepare(m) PROVE Ind'
<1> USE DEF Prepare, finalizer, finalization, history
<1>1. /\ m \notin Created /\ m # NoMeeting /\ finalizedRecord.meeting # m
      /\ journal[m] = <<>> /\ acknowledged[m] = {} /\ m \notin expired
      /\ 1 \in Created \cup {m} /\ (captureClosed => 2 \in Created \cup {m})
  BY FreshMeeting
<1>2. db' = [db EXCEPT ![m] = NewRow] /\ db \in [Meetings -> Rows]
  BY DEF Ind, TypeOK
<1>3. db' \in [Meetings -> Rows] /\ db'[m] = NewRow /\ \A k \in Meetings \ {m} : db'[k] = db[k]
  BY <1>2, NewRowFits
<1>4. /\ AllStored' /\ Created' = Created \cup {m}
      /\ \A k \in Meetings \ Created' : journal'[k] = <<>> /\ acknowledged'[k] = {}
  <2>1. db[m].status = "none"
    BY <1>1 DEF Created
  <2>2. db'[m] # db[m]
    BY <1>3, <2>1, NewRowFits
  <2> QED
    BY <1>3, <2>2, NewRowFits, FreshStored
<1>5. TypeOK'
  <2>1. record' \in Records /\ spoken' \in Windows
    BY BoundsAssumption DEF Records, RecordOf, Statuses, Windows
  <2> QED
    BY <1>1, <1>3, <1>4, <2>1 DEF Ind, TypeOK, Phases
<1>6. CurrentStored'
  BY <1>1, <1>3, <1>4, NewRowFits, EmptyLog
  DEF CurrentStored, BeforeSeal, BeforeFinish, WhileSealing, Sealed, NoWindow
<1>7. Expiry'
  BY <1>1, <1>4 DEF Ind, Expiry, BeforeSeal, BeforeFinish, WhileSealing
<1>8. Captures'
  BY <1>1, <1>4 DEF Ind, Captures, BeforeSeal, BeforeFinish, WhileSealing, Sealed
<1>9. Finalized'
  BY <1>1, <1>4 DEF Ind, Finalized, BeforeSeal, BeforeFinish, WhileSealing, Sealed, Ending, RecordOf
<1> QED
  BY <1>4, <1>5, <1>6, <1>7, <1>8, <1>9 DEF Ind

LEMMA PrepareFailsStep ==
  ASSUME Ind, NEW m \in Meetings, NEW out \in Outcomes, PrepareFails(m, out) PROVE Ind'
<1> USE DEF PrepareFails, session, recording, finalizer, finalization, history
<1>1. /\ faults' \in 0 .. MaxFaults /\ db' \in [Meetings -> Rows]
      /\ \A k \in Meetings \ {m} : db'[k] = db[k]
      /\ db'[m] = db[m] \/ db'[m] = NewRow
  BY NewRowFits, WriteEnds DEF Ind
<1>2. /\ AllStored' /\ Created \subseteq Created'
      /\ \A k \in Meetings \ Created' : journal'[k] = <<>> /\ acknowledged'[k] = {}
  BY <1>1, NewRowFits, FreshStored
<1>3. current = NoMeeting
  BY DEF Ind, TypeOK
<1>4. TypeOK'
  BY <1>1, <1>2 DEF Ind, TypeOK
<1>5. CurrentStored'
  BY <1>3 DEF CurrentStored, BeforeSeal, BeforeFinish, WhileSealing, Sealed
<1>6. Expiry'
  BY <1>2 DEF Ind, Expiry, BeforeSeal, BeforeFinish, WhileSealing
<1>7. Captures'
  BY <1>2 DEF Ind, Captures, BeforeSeal, BeforeFinish, WhileSealing, Sealed
<1>8. Finalized'
  BY <1>2, <1>3 DEF Ind, Finalized, BeforeSeal, BeforeFinish, WhileSealing, Sealed, Ending
<1> QED
  BY <1>2, <1>4, <1>5, <1>6, <1>7, <1>8 DEF Ind

LEMMA PrepareRefusedStep ==
  ASSUME Ind, NEW m \in Meetings, NEW out \in Outcomes, PrepareRefused(m, out) PROVE Ind'
<1> USE DEF PrepareRefused, recording, finalizer, finalization, history
<1>1. /\ db' \in [Meetings -> Rows]
      /\ \A k \in Meetings \ {m} : db'[k] = db[k]
      /\ db'[m].status \in {"recording", "interrupted"} /\ Sound(db'[m])
  BY NewRowFits DEF Ind, TypeOK
<1>2. faults' \in 0 .. MaxFaults
  <2>1. (IF capture = "off" THEN 1 ELSE 0) + (IF out = "ok" THEN 0 ELSE 1) \in Nat
    OBVIOUS
  <2> QED
    BY <2>1, FaultsTyped DEF Ind
<1>3. /\ AllStored' /\ Created \subseteq Created'
      /\ \A k \in Meetings \ Created' : journal'[k] = <<>> /\ acknowledged'[k] = {}
  BY <1>1, FreshStored
<1>4. current = NoMeeting
  BY DEF Ind, TypeOK
<1>5. TypeOK'
  <2>1. record' \in Records
    BY <1>1 DEF Records, RecordOf, Statuses, Terminal
  <2> QED
    BY <1>1, <1>2, <1>3, <2>1 DEF Ind, TypeOK
<1>6. CurrentStored'
  BY <1>4 DEF CurrentStored, BeforeSeal, BeforeFinish, WhileSealing, Sealed
<1>7. Expiry'
  BY <1>3 DEF Ind, Expiry, BeforeSeal, BeforeFinish, WhileSealing
<1>8. Captures'
  BY <1>3 DEF Ind, Captures, BeforeSeal, BeforeFinish, WhileSealing, Sealed
<1>9. Finalized'
  BY <1>3, <1>4 DEF Ind, Finalized, BeforeSeal, BeforeFinish, WhileSealing, Sealed, Ending
<1> QED
  BY <1>3, <1>5, <1>6, <1>7, <1>8, <1>9 DEF Ind
-----------------------------------------------------------------------------
(***************************************************************************)
(* The next start.                                                         *)
(***************************************************************************)
LEMMA StartStep == ASSUME Ind, Start PROVE Ind'
<1> USE DEF Ind, Start, Goto, session, recording, finalizer, finalization, history
<1> DEFINE Closed(row) == IF Accepts(row)
                          THEN WithStatus(row, "interrupted", "application_restart") ELSE row
<1>1. ASSUME NEW m \in Meetings
      PROVE /\ db'[m] = Closed(db[m]) /\ Closed(db[m]) \in Rows
            /\ (Closed(db[m]).status = "none" <=> db[m].status = "none")
            /\ Stored(m)'
  <2>1. db'[m] = Closed(db[m]) /\ db[m] \in Rows /\ Stored(m) /\ journal[m] = <<>>
    BY DEF TypeOK, AllStored
  <2>2. CASE Accepts(db[m])
    <3> DEFINE row == WithStatus(db[m], "interrupted", "application_restart")
    <3>1. row \in Rows /\ row.transcript = db[m].transcript /\ row.status = "interrupted"
          /\ row.reason = "application_restart"
      BY <2>1, WithStatusRow DEF Statuses, Terminal, Reasons
    <3>2. db[m].reason = "none" /\ Closed(db[m]) = row /\ db[m].status # "none"
      BY <2>1, <2>2 DEF Stored, Holds, Sound, Accepts, Terminal
    <3> HIDE DEF row
    <3>3. Holds(row, <<>>, acknowledged[m] \ overwritten[m])
      <4>1. Holds(db[m], <<>>, acknowledged[m] \ overwritten[m])
        BY <2>1 DEF Stored
      <4>2. Sound(row) /\ db[m].reason \in Clean /\ row.transcript = db[m].transcript
        BY <3>1, <3>2 DEF Sound, Clean, Terminal
      <4> QED
        BY <4>1, <4>2, RowHolds, EmptyLog
    <3> HIDE DEF Closed
    <3> QED
      BY <2>1, <3>1, <3>2, <3>3 DEF Stored
  <2>3. CASE ~Accepts(db[m])
    BY <2>1, <2>3 DEF Stored
  <2> QED
    BY <2>2, <2>3
<1>2. AllStored'
  BY <1>1 DEF AllStored
<1>3. Created' = Created
  BY <1>1 DEF Created
<1>4. current = NoMeeting
  BY DEF TypeOK
<1>5. TypeOK'
  <2>1. db' \in [Meetings -> Rows]
    BY <1>1
  <2> QED
    BY <1>3, <2>1 DEF TypeOK, Phases
<1>6. CurrentStored'
  BY <1>4 DEF CurrentStored, BeforeSeal, BeforeFinish, WhileSealing, Sealed
<1>7. Expiry'
  BY <1>3 DEF Expiry, BeforeSeal, BeforeFinish, WhileSealing
<1>8. Captures'
  BY <1>3 DEF Captures, BeforeSeal, BeforeFinish, WhileSealing, Sealed
<1>9. Finalized'
  BY <1>3, <1>4 DEF Finalized, BeforeSeal, BeforeFinish, WhileSealing, Sealed, Ending
<1> QED
  BY <1>2, <1>5, <1>6, <1>7, <1>8, <1>9

\* A meeting whose row and journal a replay leaves.
LEMMA ReplayStored ==
  ASSUME Ind, NEW m \in Created, NEW r \in Replays(m), Spend(r.cost),
         db' = [db EXCEPT ![m] = r.row], journal' = [journal EXCEPT ![m] = r.log],
         acknowledged' = acknowledged, expired' = expired, overwritten' = overwritten,
         phase = "down" \/ (Accepts(db[m]) /\ OnlyWindows(journal[m]))
  PROVE /\ AllStored' /\ Created' = Created /\ faults' \in 0 .. MaxFaults
        /\ db' \in [Meetings -> Rows] /\ journal' \in [Meetings -> Seq(Entries)]
        /\ \A k \in Meetings \ Created' : journal'[k] = <<>>
        /\ Accepts(db[m]) /\ OnlyWindows(journal[m]) =>
             Accepts(db'[m]) /\ OnlyWindows(journal'[m])
        /\ r.ok => journal'[m] = <<>>
<1>1. m \in Meetings /\ Stored(m) /\ db \in [Meetings -> Rows] /\ journal \in [Meetings -> Seq(Entries)]
  BY DEF Ind, AllStored, Created, TypeOK
<1>2. Fits(m, r.row, r.log) /\ r.cost \in 0 .. 1 /\ (r.ok => r.log = <<>>)
  BY <1>1, ReplayFits DEF Ind
<1>3. r.row \in Rows /\ r.log \in Seq(Entries) /\ r.row.status # "none"
  BY <1>2 DEF Fits, Typed
<1>4. db'[m] = r.row /\ journal'[m] = r.log
  BY <1>1
<1>5. \A k \in Meetings \ {m} : db'[k] = db[k] /\ journal'[k] = journal[k]
  BY <1>1
<1>6. db' \in [Meetings -> Rows] /\ journal' \in [Meetings -> Seq(Entries)]
  BY <1>1, <1>3
<1>7. Created' = Created
  BY <1>1, <1>3, <1>4, <1>5, CreatedOne
<1>8. Holds(r.row, r.log, acknowledged[m] \ overwritten[m])
  BY <1>2 DEF Fits, Typed, KeepsSafe, Holds
<1>9. r.row.status = "completed" => m \notin expired
  BY <1>2 DEF Ind, Expiry, Fits, Accepts
<1>10. AllStored'
  BY <1>1, <1>4, <1>5, <1>8, <1>9, StoredOne DEF Ind
<1>11. faults' \in 0 .. MaxFaults
  <2>1. r.cost \in Nat
    BY <1>2
  <2> QED
    BY <2>1, FaultsTyped DEF Ind
<1>12. \A k \in Meetings \ Created' : journal'[k] = <<>>
  BY <1>5, <1>7 DEF Ind, TypeOK
<1>13. Accepts(db[m]) /\ OnlyWindows(journal[m]) => Accepts(db'[m]) /\ OnlyWindows(journal'[m])
  BY <1>2, <1>4 DEF Fits, Accepts
<1> QED
  BY <1>2, <1>4, <1>6, <1>7, <1>10, <1>11, <1>12, <1>13

LEMMA ReplayNextStep ==
  ASSUME Ind, NEW m \in Meetings, NEW r \in Replays(m), ReplayNext(m, r) PROVE Ind'
<1> USE DEF ReplayNext, session, recording, finalizer, finalization, history
<1>1. m \in Created
  BY DEF Ind, TypeOK
<1>2. /\ AllStored' /\ Created' = Created /\ faults' \in 0 .. MaxFaults
      /\ db' \in [Meetings -> Rows] /\ journal' \in [Meetings -> Seq(Entries)]
      /\ \A k \in Meetings \ Created' : journal'[k] = <<>>
  BY <1>1, ReplayStored
<1>3. current = NoMeeting
  BY DEF Ind, TypeOK
<1>4. TypeOK'
  BY <1>2 DEF Ind, TypeOK
<1>5. CurrentStored'
  BY <1>3 DEF CurrentStored, BeforeSeal, BeforeFinish, WhileSealing, Sealed
<1>6. Expiry'
  BY <1>2 DEF Ind, Expiry, BeforeSeal, BeforeFinish, WhileSealing
<1>7. Captures'
  BY <1>2 DEF Ind, Captures, BeforeSeal, BeforeFinish, WhileSealing, Sealed
<1>8. Finalized'
  BY <1>2, <1>3 DEF Ind, Finalized, BeforeSeal, BeforeFinish, WhileSealing, Sealed, Ending
<1> QED
  BY <1>2, <1>4, <1>5, <1>6, <1>7, <1>8 DEF Ind

LEMMA SealReplayStep == ASSUME Ind, NEW r \in Replays(current), SealReplay(r) PROVE Ind'
<1> USE DEF SealReplay, Goto, session, recording, finalizer, finalization, history
<1>1. current # NoMeeting /\ current \in Created /\ current \in Meetings
  BY CurrentCreated DEF Ind, TypeOK
<1>2. Accepts(db[current]) /\ OnlyWindows(journal[current])
  BY DEF Ind, CurrentStored, BeforeSeal
<1>3. /\ AllStored' /\ Created' = Created /\ faults' \in 0 .. MaxFaults
      /\ db' \in [Meetings -> Rows] /\ journal' \in [Meetings -> Seq(Entries)]
      /\ \A k \in Meetings \ Created' : journal'[k] = <<>>
      /\ Accepts(db'[current]) /\ (r.ok => journal'[current] = <<>>)
  BY <1>1, <1>2, ReplayStored
<1>4. TypeOK'
  BY <1>1, <1>3 DEF Ind, TypeOK, Phases
<1>5. CurrentStored'
  BY <1>1, <1>3, EmptyLog DEF CurrentStored, BeforeSeal, BeforeFinish, WhileSealing, Sealed
<1>6. Expiry'
  BY <1>3 DEF Ind, Expiry, BeforeSeal, BeforeFinish, WhileSealing
<1>7. Captures'
  BY <1>3 DEF Ind, Captures, BeforeSeal, BeforeFinish, WhileSealing, Sealed
<1>8. Finalized'
  BY <1>3 DEF Ind, Finalized, BeforeSeal, BeforeFinish, WhileSealing, Sealed, Ending
<1> QED
  BY <1>3, <1>4, <1>5, <1>6, <1>7, <1>8 DEF Ind
-----------------------------------------------------------------------------
(***************************************************************************)
(* The steps that reconcile a window.                                      *)
(***************************************************************************)
LEMMA LeastOfOne == ASSUME NEW w \in Int PROVE Min({w}) = w
BY DEF Min

\* A window deletes no earlier one, nor itself.
LEMMA KeepsEarlier ==
  ASSUME NEW w \in Int, NEW v \in Int, v <= w PROVE Keeps(WindowEntry(Turns(w)), v)
BY LeastOfOne DEF Keeps, WindowEntry, Turns

\* A reconcile of the current meeting, whose row and journal it leaves.
LEMMA ReconciledStored ==
  ASSUME Ind, phase \in BeforeSeal, NEW row, NEW log, Typed(row, log), OnlyWindows(log),
         row.status = db[current].status, row.reason = "none",
         NEW n \in Nat, Spend(n),
         db' = [db EXCEPT ![current] = row], journal' = [journal EXCEPT ![current] = log],
         expired' = expired,
         \A k \in Meetings \ {current} : /\ acknowledged'[k] = acknowledged[k]
                                         /\ overwritten'[k] = overwritten[k],
         \A v \in acknowledged'[current] \ overwritten'[current] : Safe(row, log, v)
  PROVE /\ AllStored' /\ Created' = Created /\ faults' \in 0 .. MaxFaults
        /\ db' \in [Meetings -> Rows] /\ journal' \in [Meetings -> Seq(Entries)]
        /\ \A k \in Meetings \ Created' : journal'[k] = <<>> /\ acknowledged'[k] = {}
        /\ Accepts(db'[current]) /\ OnlyWindows(journal'[current])
<1> DEFINE m == current
<1>1. m \in Created /\ m \in Meetings /\ Accepts(db[m])
      /\ db \in [Meetings -> Rows] /\ journal \in [Meetings -> Seq(Entries)]
  BY CurrentCreated DEF Ind, CurrentStored, TypeOK, BeforeSeal, BeforeFinish
<1>2. /\ row \in Rows /\ log \in Seq(Entries) /\ row.status # "none" /\ Sound(row)
      /\ OnlyWindows(log) /\ row.status = db[m].status /\ row.reason = "none"
  BY DEF Typed
<1>3. db'[m] = row /\ journal'[m] = log
  BY <1>1
<1>4. \A k \in Meetings \ {m} : db'[k] = db[k] /\ journal'[k] = journal[k]
  BY <1>1
<1>5. db' \in [Meetings -> Rows] /\ journal' \in [Meetings -> Seq(Entries)]
  BY <1>1, <1>2
<1>6. Created' = Created
  <2>1. db'[m].status # "none"
    BY <1>2, <1>3
  <2>2. Created' = Created \cup {m}
    BY <1>1, <1>4, <2>1, CreatedOne
  <2> QED
    BY <1>1, <2>2
<1>7. Accepts(row) /\ row.status \notin Terminal
  BY <1>1, <1>2 DEF Accepts, Terminal
<1>8. Holds(row, log, acknowledged'[m] \ overwritten'[m])
  BY <1>2, <1>7 DEF Holds
<1>9. AllStored'
  BY <1>1, <1>3, <1>4, <1>7, <1>8, StoredOne DEF Ind, Terminal
<1>10. faults' \in 0 .. MaxFaults
  BY FaultsTyped DEF Ind
<1>11. \A k \in Meetings \ Created' : journal'[k] = <<>> /\ acknowledged'[k] = {}
  BY <1>1, <1>4, <1>6 DEF Ind, TypeOK
<1> QED
  BY <1>2, <1>3, <1>5, <1>6, <1>7, <1>9, <1>10, <1>11

\* The windows that reconcile is given.
LEMMA WindowStep ==
  ASSUME Ind, phase \in BeforeSeal, NEW w \in Windows \cup {NoWindow}, NEW c \in Reconciles(w),
         acknowledged[current] \subseteq 0 .. w \/ w \in {NoWindow, 0},
         Reconciled(w, c), expired' = expired
  PROVE /\ AllStored' /\ Created' = Created /\ faults' \in 0 .. MaxFaults
        /\ db' \in [Meetings -> Rows] /\ journal' \in [Meetings -> Seq(Entries)]
        /\ acknowledged' \in [Meetings -> SUBSET Windows]
        /\ signature' \in Windows \cup {NoWindow}
        /\ \A k \in Meetings \ Created' : journal'[k] = <<>> /\ acknowledged'[k] = {}
        /\ Accepts(db'[current]) /\ OnlyWindows(journal'[current])
        /\ acknowledged'[current] \subseteq acknowledged[current] \cup {w}
        /\ w <= 0 => acknowledged' = acknowledged
        /\ signature' > 0 => signature' \in acknowledged'[current]
<1> DEFINE m == current
<1>1. /\ m \in Created /\ m \in Meetings /\ Stored(m) /\ Accepts(db[m]) /\ OnlyWindows(journal[m])
      /\ signature > 0 => signature \in acknowledged[m]
  BY CurrentCreated DEF Ind, CurrentStored, TypeOK, BeforeSeal, BeforeFinish
<1>2. /\ acknowledged \in [Meetings -> SUBSET Windows] /\ overwritten \in [Meetings -> SUBSET Windows]
      /\ w \in Int /\ signature \in Windows \cup {NoWindow} /\ Windows \subseteq Nat
  BY BoundsAssumption DEF Ind, TypeOK, Windows, NoWindow
<1>3. Turns(w) \in SUBSET Windows
  BY <1>2 DEF Turns, NoWindow
<1>4. AttemptFits(m, Turns(w), c)
  BY <1>1, <1>3, AttemptEnds, SkippedFits DEF Reconciles, Ind
<1>5. c.result = "skipped" => c = Skipped /\ w \in {signature, NoWindow}
  <2>1. c \in Attempts(Turns(w)) => c.result # "skipped"
    BY DEF Attempts, JournalWindow
  <2> QED
    BY <2>1 DEF Reconciles
<1> HIDE DEF m
<1>6. /\ c.result = "raised" \/ w <= 0 => acknowledged' = acknowledged
      /\ ~(c.result = "raised" \/ w <= 0) =>
           acknowledged' = [acknowledged EXCEPT ![m] = @ \cup {w}]
      /\ overwritten' = overwritten
      /\ signature' = IF c.result = "stored" THEN w ELSE signature
  BY DEF Reconciled, m
<1>7. ~(c.result = "raised" \/ w <= 0) => acknowledged'[m] = acknowledged[m] \cup {w}
  BY <1>1, <1>2, <1>6
<1>8. \A k \in Meetings \ {m} : acknowledged'[k] = acknowledged[k]
  BY <1>1, <1>2, <1>6
<1>9. acknowledged' \in [Meetings -> SUBSET Windows] /\ signature' \in Windows \cup {NoWindow}
  <2>1. ~(w <= 0) => w \in Windows
    BY <1>2 DEF NoWindow
  <2> QED
    BY <1>1, <1>2, <1>6, <2>1
<1>10. ASSUME NEW v \in acknowledged'[m] \ overwritten'[m] PROVE Safe(c.row, c.log, v)
  <2>1. CASE v \in acknowledged[m]
    <3>1. Keeps(WindowEntry(Turns(w)), v)
      <4>1. CASE w <= 0
        BY <4>1 DEF Keeps, WindowEntry, Turns
      <4>2. CASE ~(w <= 0)
        <5>1. v \in Int /\ v <= w
          BY <1>2, <2>1, <4>2 DEF NoWindow, m
        <5> QED
          BY <1>2, <5>1, KeepsEarlier
      <4> QED
        BY <4>1, <4>2
    <3>2. v \in acknowledged[m] \ overwritten[m]
      BY <1>6, <2>1
    <3> QED
      BY <1>4, <3>1, <3>2 DEF AttemptFits
  <2>2. CASE v \notin acknowledged[m]
    <3>1. v = w /\ ~(w <= 0) /\ c.result # "raised"
      BY <1>6, <1>7, <2>2
    <3>2. v \in Turns(w)
      BY <3>1 DEF Turns
    <3>3. c.result # "skipped"
      BY <1>1, <1>2, <1>5, <2>2, <3>1 DEF NoWindow
    <3> QED
      BY <1>4, <3>1, <3>2, <3>3 DEF AttemptFits
  <2> QED
    BY <2>1, <2>2
<1>11. /\ AllStored' /\ Created' = Created /\ faults' \in 0 .. MaxFaults
       /\ db' \in [Meetings -> Rows] /\ journal' \in [Meetings -> Seq(Entries)]
       /\ \A k \in Meetings \ Created' : journal'[k] = <<>> /\ acknowledged'[k] = {}
       /\ Accepts(db'[m]) /\ OnlyWindows(journal'[m])
  <2>1. c.cost \in Nat /\ Spend(c.cost)
    BY <1>4 DEF AttemptFits, Reconciled
  <2>2. db' = [db EXCEPT ![m] = c.row] /\ journal' = [journal EXCEPT ![m] = c.log]
    BY DEF Reconciled, m
  <2>3. /\ Typed(c.row, c.log) /\ OnlyWindows(c.log)
        /\ c.row.status = db[m].status /\ c.row.reason = "none"
    BY <1>4 DEF AttemptFits
  <2> QED
    BY <1>6, <1>8, <1>10, <2>1, <2>2, <2>3, ReconciledStored DEF m
<1>12. acknowledged'[m] \subseteq acknowledged[m] \cup {w} /\ (w <= 0 => acknowledged' = acknowledged)
  BY <1>6, <1>7
<1>13. signature' > 0 => signature' \in acknowledged'[m]
  <2>1. CASE c.result = "stored"
    BY <1>2, <1>6, <1>7, <2>1
  <2>2. CASE c.result # "stored"
    BY <1>1, <1>2, <1>6, <1>7, <2>2
  <2> QED
    BY <2>1, <2>2
<1> QED
  BY <1>9, <1>11, <1>12, <1>13 DEF m

LEMMA HearStep == ASSUME Ind, NEW c \in Reconciles(spoken + 1), Hear(c) PROVE Ind'
<1> USE DEF Hear, session, finalizer, finalization
<1>1. spoken \in Nat /\ spoken + 1 \in Windows /\ Windows \subseteq Nat
  BY BoundsAssumption DEF Ind, TypeOK, Windows
<1>2. /\ acknowledged[current] \subseteq 0 .. spoken /\ phase \in BeforeSeal
      /\ current # NoMeeting /\ current \in Created /\ current \in Meetings
  BY CurrentCreated DEF Ind, CurrentStored, BeforeSeal, BeforeFinish, TypeOK
<1>3. acknowledged[current] \subseteq 0 .. spoken + 1
  BY <1>1, <1>2
<1>4. /\ AllStored' /\ Created' = Created /\ faults' \in 0 .. MaxFaults
      /\ db' \in [Meetings -> Rows] /\ journal' \in [Meetings -> Seq(Entries)]
      /\ acknowledged' \in [Meetings -> SUBSET Windows]
      /\ signature' \in Windows \cup {NoWindow}
      /\ \A k \in Meetings \ Created' : journal'[k] = <<>> /\ acknowledged'[k] = {}
      /\ Accepts(db'[current]) /\ OnlyWindows(journal'[current])
      /\ acknowledged'[current] \subseteq acknowledged[current] \cup {spoken + 1}
      /\ signature' > 0 => signature' \in acknowledged'[current]
  BY <1>1, <1>2, <1>3, WindowStep
<1>5. TypeOK'
  BY <1>1, <1>4 DEF Ind, TypeOK, Reconciled
<1>6. CurrentStored'
  <2>1. acknowledged'[current] \subseteq 0 .. spoken'
    BY <1>1, <1>3, <1>4
  <2> QED
    BY <1>2, <1>4, <2>1 DEF CurrentStored, BeforeSeal, BeforeFinish, WhileSealing, Sealed
<1>7. Expiry'
  BY <1>4 DEF Ind, Expiry, BeforeSeal, BeforeFinish, WhileSealing
<1>8. Captures'
  BY <1>4 DEF Ind, Captures, BeforeSeal, BeforeFinish, WhileSealing, Sealed
<1>9. Finalized'
  BY <1>4 DEF Ind, Finalized, BeforeSeal, BeforeFinish, WhileSealing, Sealed, Ending
<1> QED
  BY <1>4, <1>5, <1>6, <1>7, <1>8, <1>9 DEF Ind

LEMMA ReconcileFinalStep ==
  ASSUME Ind, NEW c \in Reconciles(finalWindow), ReconcileFinal(c) PROVE Ind'
<1> USE DEF ReconcileFinal, Goto, session, finalizer, finalization
<1>1. /\ acknowledged[current] \subseteq 0 .. spoken /\ finalWindow \in {NoWindow, 0, spoken}
      /\ phase \in BeforeSeal
      /\ current # NoMeeting /\ current \in Created /\ current \in Meetings
      /\ finalWindow \in Windows \cup {NoWindow} /\ spoken \in Nat
  BY CurrentCreated, BoundsAssumption
  DEF Ind, CurrentStored, BeforeSeal, BeforeFinish, TypeOK, Windows
<1>2. /\ AllStored' /\ Created' = Created /\ faults' \in 0 .. MaxFaults
      /\ db' \in [Meetings -> Rows] /\ journal' \in [Meetings -> Seq(Entries)]
      /\ acknowledged' \in [Meetings -> SUBSET Windows]
      /\ signature' \in Windows \cup {NoWindow}
      /\ \A k \in Meetings \ Created' : journal'[k] = <<>> /\ acknowledged'[k] = {}
      /\ Accepts(db'[current]) /\ OnlyWindows(journal'[current])
      /\ acknowledged'[current] \subseteq acknowledged[current] \cup {finalWindow}
      /\ finalWindow <= 0 => acknowledged' = acknowledged
      /\ signature' > 0 => signature' \in acknowledged'[current]
  BY <1>1, WindowStep
<1>3. phase' \in {"labelling", "settling"}
  OBVIOUS
<1>4. TypeOK'
  BY <1>1, <1>2, <1>3 DEF Ind, TypeOK, Reconciled, Phases
<1>5. CurrentStored'
  <2>1. acknowledged'[current] \subseteq 0 .. spoken
    BY <1>1, <1>2 DEF NoWindow
  <2> QED
    BY <1>1, <1>2, <1>3, <2>1 DEF CurrentStored, BeforeSeal, BeforeFinish, WhileSealing, Sealed
<1>6. Expiry'
  BY <1>2, <1>3 DEF Ind, Expiry, BeforeSeal, BeforeFinish, WhileSealing
<1>7. Captures'
  BY <1>2, <1>3 DEF Ind, Captures, BeforeSeal, BeforeFinish, WhileSealing, Sealed
<1>8. Finalized'
  BY <1>2, <1>3 DEF Ind, Finalized, BeforeSeal, BeforeFinish, WhileSealing, Sealed, Ending
<1> QED
  BY <1>2, <1>4, <1>5, <1>6, <1>7, <1>8 DEF Ind

\* What the overlay may delete is what its journal held.
LEMMA OverlayReads ==
  ASSUME Ind, phase = "labelling", NEW v \in acknowledged[current] \ Overwrites[current]
  PROVE v \in acknowledged[current] \ overwritten[current] /\ v \in db[current].transcript
<1> DEFINE m == current
<1>1. /\ m \in Meetings /\ Stored(m) /\ Accepts(db[m]) /\ journal[m] \in Seq(Entries)
      /\ overwritten \in [Meetings -> SUBSET Windows]
  BY CurrentCreated DEF Ind, CurrentStored, TypeOK, BeforeSeal
<1>2. Overwrites[m] = overwritten[m] \cup (Pending(m) \ db[m].transcript)
  BY <1>1 DEF Overwrites
<1>3. Safe(db[m], journal[m], v)
  BY <1>1, <1>2 DEF Stored, Holds, Sound, Accepts, Terminal, Clean
<1>4. (\E j \in 1 .. Len(journal[m]) : Has(journal[m][j], v)) => v \in Pending(m)
  BY <1>1 DEF Pending, Has
<1> QED
  BY <1>2, <1>3, <1>4 DEF Safe

LEMMA OverwritesType ==
  ASSUME Ind, phase = "labelling"
  PROVE /\ Overwrites \in [Meetings -> SUBSET Windows]
        /\ \A k \in Meetings \ {current} : Overwrites[k] = overwritten[k]
<1> DEFINE m == current
<1>1. /\ m \in Meetings /\ journal[m] \in Seq(Entries)
      /\ overwritten \in [Meetings -> SUBSET Windows]
  BY CurrentCreated DEF Ind, TypeOK
<1>2. Pending(m) \subseteq Windows
  BY <1>1 DEF Pending, Entries
<1> QED
  BY <1>1, <1>2 DEF Overwrites

LEMMA OverlayStep == ASSUME Ind, NEW c \in Corrections, Overlay(c) PROVE Ind'
<1> USE DEF Overlay, Goto, session, recording, finalizer, finalization
<1> DEFINE m == current
           T == db[m].transcript
<1>1. /\ phase \in BeforeSeal /\ m # NoMeeting /\ m \in Created /\ m \in Meetings
      /\ Stored(m) /\ Accepts(db[m]) /\ OnlyWindows(journal[m]) /\ T \in SUBSET Windows
  BY CurrentCreated DEF Ind, CurrentStored, BeforeSeal, BeforeFinish, TypeOK, Rows
<1>2. /\ Overwrites \in [Meetings -> SUBSET Windows]
      /\ \A k \in Meetings \ {m} : Overwrites[k] = overwritten[k]
  BY OverwritesType
<1>3. /\ overwritten' \in [Meetings -> SUBSET Windows]
      /\ \A k \in Meetings \ {m} : overwritten'[k] = overwritten[k]
  BY <1>2 DEF Ind, TypeOK
<1>4. /\ Typed(c.row, c.log) /\ OnlyWindows(c.log) /\ c.cost \in Nat
      /\ c.row.status = db[m].status /\ c.row.reason = "none"
      /\ \A v \in acknowledged[m] \ overwritten'[m] : Safe(c.row, c.log, v)
  <2>1. CASE c = Skipped
    <3>1. AttemptFits(m, {}, c)
      BY <1>1, <2>1, SkippedFits DEF Ind
    <3>2. overwritten' = overwritten
      BY <2>1 DEF Skipped
    <3>3. \A v : Keeps(WindowEntry({}), v)
      BY DEF Keeps, WindowEntry
    <3> QED
      BY <3>1, <3>2, <3>3 DEF AttemptFits
  <2>2. CASE c \in Attempts(T)
    <3>1. AttemptFits(m, T, c)
      BY <1>1, <2>2, AttemptEnds DEF Ind
    <3>2. c.result # "skipped"
      BY <2>2 DEF Attempts, JournalWindow
    <3>3. overwritten' = Overwrites
      BY <3>2
    <3>4. \A v \in T : Keeps(WindowEntry(T), v)
      BY DEF Keeps, WindowEntry
    <3> HIDE DEF T
    <3> QED
      BY <3>1, <3>3, <3>4, OverlayReads DEF AttemptFits, T
  <2> QED
    BY <2>1, <2>2 DEF Corrections
<1>5. /\ AllStored' /\ Created' = Created /\ faults' \in 0 .. MaxFaults
      /\ db' \in [Meetings -> Rows] /\ journal' \in [Meetings -> Seq(Entries)]
      /\ \A k \in Meetings \ Created' : journal'[k] = <<>> /\ acknowledged'[k] = {}
      /\ Accepts(db'[m]) /\ OnlyWindows(journal'[m])
  BY <1>1, <1>3, <1>4, ReconciledStored
<1>6. TypeOK'
  BY <1>1, <1>3, <1>5 DEF Ind, TypeOK, Phases
<1>7. CurrentStored'
  BY <1>1, <1>5 DEF Ind, CurrentStored, BeforeSeal, BeforeFinish, WhileSealing, Sealed
<1>8. Expiry'
  BY <1>5 DEF Ind, Expiry, BeforeSeal, BeforeFinish, WhileSealing
<1>9. Captures'
  BY <1>5 DEF Ind, Captures, BeforeSeal, BeforeFinish, WhileSealing, Sealed
<1>10. Finalized'
  BY <1>5 DEF Ind, Finalized, BeforeSeal, BeforeFinish, WhileSealing, Sealed, Ending
<1> QED
  BY <1>5, <1>6, <1>7, <1>8, <1>9, <1>10 DEF Ind

\* What a cancelled call stores or reads again.
Shielded == IF phase = "reconciling" THEN Turns(finalWindow) ELSE db[current].transcript

LEMMA ReconcileCancelledStep ==
  ASSUME Ind, NEW r \in Replays(current), NEW s \in {r} \cup Stores(r, Shielded),
         ReconcileCancelled(s)
  PROVE Ind'
<1> USE DEF ReconcileCancelled, Goto, session, recording, finalizer, finalization
<1> DEFINE m == current
<1>1. /\ phase \in BeforeSeal /\ m # NoMeeting /\ m \in Created /\ m \in Meetings
      /\ Stored(m) /\ Accepts(db[m]) /\ OnlyWindows(journal[m])
      /\ db[m].transcript \in SUBSET Windows
  BY CurrentCreated DEF Ind, CurrentStored, BeforeSeal, BeforeFinish, TypeOK, Rows
<1>2. /\ overwritten' \in [Meetings -> SUBSET Windows]
      /\ \A k \in Meetings \ {m} : overwritten'[k] = overwritten[k]
      /\ \A v \in acknowledged[m] \ overwritten'[m] : v \in acknowledged[m] \ overwritten[m]
  <2>1. CASE phase = "labelling"
    BY <2>1, OverwritesType, OverlayReads
  <2>2. CASE phase # "labelling"
    BY <2>2 DEF Ind, TypeOK
  <2> QED
    BY <2>1, <2>2
<1>3. Fits(m, r.row, r.log) /\ r.cost \in Nat /\ (r.ok => r.log = <<>>)
      /\ r = [row |-> r.row, log |-> r.log, ok |-> r.ok, cost |-> r.cost]
  BY <1>1, ReplayFits DEF Ind
<1>4. /\ Typed(s.row, s.log) /\ OnlyWindows(s.log) /\ s.cost + 1 \in Nat
      /\ s.row.status = db[m].status /\ s.row.reason = "none"
      /\ \A v \in acknowledged[m] \ overwritten'[m] : Safe(s.row, s.log, v)
  <2>1. CASE s = r
    <3>1. r.row.status = db[m].status /\ OnlyWindows(r.log) /\ Typed(r.row, r.log)
          /\ r.row.reason = "none"
      BY <1>1, <1>3 DEF Fits, Typed, Sound, Accepts, Terminal
    <3>2. \A v \in acknowledged[m] \ overwritten[m] : Safe(r.row, r.log, v)
      BY <1>3, <3>1 DEF Fits, KeepsSafe, Clean
    <3>3. r.cost + 1 \in Nat
      BY <1>3
    <3> QED
      BY <1>2, <2>1, <3>1, <3>2, <3>3
  <2>2. CASE s \in Stores(r, Shielded)
    <3>1. r.ok /\ s = [r EXCEPT !.row = StoreWindow(@, Shielded)]
      BY <2>2 DEF Stores
    <3>2. s.row = StoreWindow(r.row, Shielded) /\ s.log = <<>> /\ s.cost = r.cost
      BY <1>3, <3>1
    <3>3. Shielded \in SUBSET Windows
      <4>1. finalWindow \in Windows \cup {NoWindow}
        BY DEF Ind, TypeOK
      <4> QED
        BY <1>1, <4>1, BoundsAssumption DEF Shielded, Turns, Windows, NoWindow
    <3>4. ASSUME NEW v \in acknowledged[m] \ overwritten'[m]
          PROVE Keeps(WindowEntry(Shielded), v)
      <4>1. CASE phase = "labelling"
        <5>1. v \in Shielded
          BY <4>1, OverlayReads DEF Shielded
        <5> QED
          BY <5>1 DEF Keeps, WindowEntry
      <4>2. CASE phase = "reconciling"
        <5>1. /\ acknowledged[m] \subseteq 0 .. spoken /\ spoken \in Nat
              /\ finalWindow \in {NoWindow, 0, spoken} /\ Shielded = Turns(finalWindow)
          BY <1>1, <4>2, BoundsAssumption DEF Ind, CurrentStored, TypeOK, Windows, Shielded
        <5>2. CASE finalWindow = spoken
          <6>1. v \in Int /\ v <= spoken
            BY <5>1
          <6> QED
            BY <5>1, <5>2, <6>1, KeepsEarlier
        <5>3. CASE finalWindow \in {NoWindow, 0}
          BY <5>1, <5>3 DEF Keeps, WindowEntry, Turns, NoWindow
        <5> QED
          BY <5>1, <5>2, <5>3
      <4> QED
        BY <4>1, <4>2
    <3>5. /\ Typed(s.row, <<>>) /\ s.row.status = db[m].status /\ s.row.reason = "none"
          /\ \A v \in acknowledged[m] \ overwritten'[m] : v \in s.row.transcript
      <4>1. /\ Typed(StoreWindow(r.row, Shielded), <<>>)
            /\ StoreWindow(r.row, Shielded).status = db[m].status
            /\ StoreWindow(r.row, Shielded).reason = "none"
            /\ \A v \in acknowledged[m] \ overwritten[m] :
                 Keeps(WindowEntry(Shielded), v) => v \in StoreWindow(r.row, Shielded).transcript
        BY <1>1, <3>1, <3>3, StoreFits DEF Ind
      <4> QED
        BY <1>2, <3>2, <3>4, <4>1
    <3>6. s.cost + 1 \in Nat
      BY <1>3, <3>2
    <3> QED
      BY <3>2, <3>5, <3>6, SafeEmpty, EmptyLog
  <2> QED
    BY <2>1, <2>2
<1>5. /\ AllStored' /\ Created' = Created /\ faults' \in 0 .. MaxFaults
      /\ db' \in [Meetings -> Rows] /\ journal' \in [Meetings -> Seq(Entries)]
      /\ \A k \in Meetings \ Created' : journal'[k] = <<>> /\ acknowledged'[k] = {}
      /\ Accepts(db'[m]) /\ OnlyWindows(journal'[m])
  <2>1. Spend(s.cost + 1) /\ db' = [db EXCEPT ![m] = s.row] /\ journal' = [journal EXCEPT ![m] = s.log]
        /\ acknowledged' = acknowledged /\ expired' = expired
    OBVIOUS
  <2> QED
    BY <1>1, <1>2, <1>4, <2>1, ReconciledStored
<1>6. TypeOK'
  BY <1>1, <1>2, <1>5 DEF Ind, TypeOK, Phases
<1>7. CurrentStored'
  BY <1>1, <1>5 DEF Ind, CurrentStored, BeforeSeal, BeforeFinish, WhileSealing, Sealed
<1>8. Expiry'
  BY <1>5 DEF Ind, Expiry, BeforeSeal, BeforeFinish, WhileSealing
<1>9. Captures'
  BY <1>5 DEF Ind, Captures, BeforeSeal, BeforeFinish, WhileSealing, Sealed
<1>10. Finalized'
  BY <1>5 DEF Ind, Finalized, BeforeSeal, BeforeFinish, WhileSealing, Sealed, Ending
<1> QED
  BY <1>5, <1>6, <1>7, <1>8, <1>9, <1>10 DEF Ind
-----------------------------------------------------------------------------
(***************************************************************************)
(* The theorems.                                                           *)
(***************************************************************************)
LEMMA InitInd == Init => Ind
<1> SUFFICES ASSUME Init PROVE Ind
  OBVIOUS
<1> USE DEF Init
<1>1. Created = {}
  BY DEF Created
<1>2. TypeOK
  <2>1. 0 \in Windows /\ NoRecord \in Records /\ 0 \in 0 .. MaxFaults
    BY BoundsAssumption DEF Windows, NoRecord, Records, Statuses
  <2>2. db \in [Meetings -> Rows] /\ journal \in [Meetings -> Seq(Entries)]
    BY EmptyLog DEF Rows, Statuses, Reasons
  <2> QED
    BY <2>1, <2>2 DEF TypeOK, Phases
<1>3. AllStored
  <2> SUFFICES ASSUME NEW m \in Meetings PROVE Stored(m)
    BY DEF AllStored
  <2>1. db[m].status = "none" /\ db[m].reason = "none" /\ journal[m] = <<>> /\ acknowledged[m] = {}
    OBVIOUS
  <2> QED
    BY <2>1, EmptyLog DEF Stored, Holds, Sound, Terminal
<1>4. CurrentStored /\ Expiry /\ Captures /\ Finalized
  BY DEF CurrentStored, Expiry, Captures, Finalized, BeforeSeal, BeforeFinish, WhileSealing,
    Sealed, Ending, NoRecord
<1> QED
  BY <1>2, <1>3, <1>4 DEF Ind

LEMMA StoppingInd == ASSUME Ind, Stopping PROVE Ind'
<1>1. CASE FinishFails
  BY <1>1, FinishFailsStep
<1>2. CASE \E late \in 0 .. 1, expires \in BOOLEAN : FinishCapture(late, expires)
  BY <1>2, FinishCaptureStep
<1>3. CASE phase = "reconciling" /\ \E c \in Reconciles(finalWindow) : ReconcileFinal(c)
  BY <1>3, ReconcileFinalStep
<1>4. CASE \E r \in Replays(current) : \E s \in {r} \cup Stores(r, Shielded) : ReconcileCancelled(s)
  BY <1>4, ReconcileCancelledStep
<1>5. CASE phase = "labelling" /\ \E c \in Corrections : Overlay(c)
  BY <1>5, OverlayStep
<1>6. CASE phase = "sealing" /\ \E r \in Replays(current) : SealReplay(r)
  BY <1>6, SealReplayStep
<1>7. CASE RemapFails \/ LogFinalize \/ LogStatus \/ Discard
  BY <1>7, RemapFailsStep, LogFinalizeStep, LogStatusStep, DiscardStep
<1>8. CASE \E out \in Outcomes : CommitSeal(out) \/ QueueMinutes(out) \/ MarkInterrupted(out)
  BY <1>8, CommitSealStep, QueueMinutesStep, MarkInterruptedStep
<1>9. CASE Settle \/ KeepCompleted \/ Release
  BY <1>9, SettleStep, KeepCompletedStep, ReleaseStep
<1> QED
  BY <1>1, <1>2, <1>3, <1>4, <1>5, <1>6, <1>7, <1>8, <1>9 DEF Stopping, Shielded

LEMMA NextInd == ASSUME Ind, [Next]_vars PROVE Ind'
<1>1. CASE \E m \in Meetings : \/ Prepare(m)
                               \/ \E out \in Outcomes : PrepareFails(m, out) \/ PrepareRefused(m, out)
  BY <1>1, PrepareStep, PrepareFailsStep, PrepareRefusedStep
<1>2. CASE Commit
  BY <1>2, CommitStep
<1>3. CASE \E out \in Outcomes : AbortStart(out) \/ BeginStop(out) \/ Interrupt(out)
  BY <1>3, AbortStartStep, BeginStopStep, InterruptStep
<1>4. CASE current # NoMeeting /\ \E c \in Reconciles(spoken + 1) : Hear(c)
  BY <1>4, HearStep
<1>5. CASE Stopping
  BY <1>5, StoppingInd
<1>6. CASE Crash
  BY <1>6, CrashStep
<1>7. CASE Recovering
  BY <1>7, ReplayNextStep, StartStep DEF Recovering
<1>8. CASE UNCHANGED vars
  <2> USE <1>8 DEF vars, disk, session, finalizer, recording, finalization, history
  <2>1. Created' = Created
    BY DEF Created
  <2>2. TypeOK' /\ AllStored'
    BY <2>1, StoredSame DEF Ind, TypeOK
  <2>3. CurrentStored' /\ Expiry'
    BY <2>1 DEF Ind, CurrentStored, Expiry, FinalStatus
  <2>4. Captures' /\ Finalized'
    BY <2>1 DEF Ind, Captures, Finalized
  <2> QED
    BY <2>2, <2>3, <2>4 DEF Ind
<1> QED
  BY <1>1, <1>2, <1>3, <1>4, <1>5, <1>6, <1>7, <1>8 DEF Next

\* The inductive invariant holds of every meeting, with any faults in any order.
THEOREM IndInvariant == Spec => []Ind
BY InitInd, NextInd, PTL DEF Spec

\* A meeting that reads as completed has every window its reconcile accepted, except those
\* that waited in the journal when the overlay rewrote the rows, and its finish did not
\* time out.
THEOREM CompletedHasItsWindows == Spec => []CompletedIsComplete
<1>1. Ind => CompletedIsComplete
  <2> SUFFICES ASSUME Ind, NEW m \in Meetings, db[m].status = "completed"
               PROVE acknowledged[m] \subseteq db[m].transcript \cup overwritten[m] /\ m \notin expired
    BY DEF CompletedIsComplete
  <2>1. Stored(m) /\ journal[m] \in Seq(Entries)
    BY DEF Ind, AllStored, TypeOK
  <2>2. db[m].reason \in Clean /\ NoWindows(journal[m])
    BY <2>1 DEF Stored, Holds, Sound, Terminal, Clean
  <2>3. \A v \in acknowledged[m] \ overwritten[m] : v \in db[m].transcript
    BY <2>1, <2>2, SafeInRow DEF Stored, Holds
  <2> QED
    BY <2>1, <2>3 DEF Stored
<1> QED
  BY <1>1, IndInvariant, PTL

\* A meeting that no error stopped has every accepted window in its row or its journal.
THEOREM AcceptedWindowsSurvive == Spec => []CrashLosesNothing
<1>1. Ind => CrashLosesNothing
  <2> SUFFICES ASSUME Ind, NEW m \in Meetings, db[m].reason \in Clean
               PROVE acknowledged[m] \subseteq Kept(m)
    BY DEF CrashLosesNothing, Clean
  <2>1. Stored(m) /\ journal[m] \in Seq(Entries)
    BY DEF Ind, AllStored, TypeOK
  <2>2. \A v : (\E j \in 1 .. Len(journal[m]) : Has(journal[m][j], v)) => v \in Pending(m)
    BY <2>1 DEF Pending, Has
  <2>3. \A v \in acknowledged[m] \ overwritten[m] : v \in db[m].transcript \cup Pending(m)
    BY <2>1, <2>2 DEF Stored, Holds, Safe
  <2> QED
    BY <2>3 DEF Kept
<1> QED
  BY <1>1, IndInvariant, PTL

\* The variables have their types, a stop that is about to release the session leaves the
\* meeting terminal or the storage degraded, and no capture survives it, but for the stop
\* of a later meeting.
THEOREM StopsSettle == Spec => []FirstStopsSettle
<1>1. Ind => FirstStopsSettle
  BY DEF Ind, FirstStopsSettle, Captures, Finalized
<1> QED
  BY <1>1, IndInvariant, PTL
=============================================================================
