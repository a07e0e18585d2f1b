-------------------------- MODULE LocalModelProofs --------------------------
(***************************************************************************)
(* What holds of the two that share the local language model, whatever     *)
(* asks them: the scheduler of its slot and the memory of a conversation.  *)
(*                                                                         *)
(* Of the scheduler, for any set of requests, priorities and               *)
(* cancellations: the queue is consistent, the slot has one user, and no   *)
(* eligible waiter is overlooked while the slot is free.  The three are    *)
(* inductive together.  With tickets that differ, the order of admission   *)
(* follows: nobody is overtaken and no summary enters during a recording.  *)
(*                                                                         *)
(* Of the conversation, for any number of turns, personas, clears and      *)
(* failures and any sizes of the windows: the snapshot stands for a prefix *)
(* of the context, and the chain covers what was heard, unless a turn      *)
(* slips in before a cleared context arrives.                              *)
(***************************************************************************)
EXTENDS InferenceScheduler, ConversationMemory, FiniteSetTheorems, TLAPS

Ind == QueueInvariant /\ OneSlot /\ NobodyOverlooked

\* What _admit_next does to the queue q: nothing, or one of q gets the free slot;
\* and if the slot stays free, nobody in q could have had it.
LEMMA AdmitNextEffect ==
  ASSUME NEW q, NEW number, NEW busy \in BOOLEAN, NEW nowPaused,
         AdmitNext(q, number, busy, nowPaused)
  PROVE  /\ \/ waiters' = q /\ active' = busy /\ admitted' = admitted
            \/ /\ ~busy /\ ~closed
               /\ \E r \in q : /\ waiters' = q \ {r}
                               /\ active' = TRUE
                               /\ admitted' = admitted \cup {r}
         /\ ~active' /\ ~closed => \A r \in waiters' : ~Eligible(r, nowPaused)
<1> DEFINE candidates == {r \in q : Eligible(r, nowPaused)}
<1>1. CASE busy \/ closed \/ candidates = {}
  <2>1. waiters' = q /\ active' = busy /\ admitted' = admitted
    BY <1>1 DEF AdmitNext
  <2>2. ~active' /\ ~closed => candidates = {}
    BY <1>1, <2>1
  <2> QED
    BY <2>1, <2>2
<1>2. CASE ~(busy \/ closed \/ candidates = {})
  <2>1. PICK r \in candidates : /\ waiters' = q \ {r}
                                /\ active' = TRUE
                                /\ admitted' = admitted \cup {r}
    BY <1>2 DEF AdmitNext
  <2> QED
    BY <1>2, <2>1
<1> QED
  BY <1>1, <1>2

\* A request takes its step to "left" (or stays out of the slot), someone of the
\* queue may be admitted: the three invariants survive.
LEMMA AdmitNextKeeps ==
  ASSUME Ind, NEW q \in SUBSET waiters, NEW busy \in BOOLEAN, NEW r \in Requests,
         AdmitNext(q, ticket, busy, paused),
         phase' = [phase EXCEPT ![r] = "left"], phase[r] # "new", r \notin q,
         busy = active \/ (phase[r] = "using" /\ busy = FALSE),
         UNCHANGED <<sequence, ticket, paused, closed, revoked, cancelled>>
  PROVE  Ind'
<1>1. /\ \/ waiters' = q /\ active' = busy /\ admitted' = admitted
         \/ /\ ~busy /\ ~closed
            /\ \E s \in q : /\ waiters' = q \ {s}
                            /\ active' = TRUE
                            /\ admitted' = admitted \cup {s}
      /\ ~active' /\ ~closed => \A s \in waiters' : ~Eligible(s, paused)
  BY AdmitNextEffect
<1>2. QueueInvariant'
  BY <1>1 DEF Ind, QueueInvariant, TypeOK, Phases
<1>3. OneSlot'
  <2>1. ~busy => \A s \in Using \cup Granted : s = r
    BY DEF Ind, OneSlot, QueueInvariant, TypeOK, Using, Granted
  <2>2. (Using \cup Granted)' \subseteq (Using \cup Granted) \cup admitted'
    BY DEF Using, Granted, Ind, QueueInvariant, TypeOK
  <2>3. r \notin (Using \cup Granted)'
    BY DEF Using, Granted, Ind, QueueInvariant, TypeOK
  <2>4. CASE admitted' = admitted
    <3>1. (Using \cup Granted)' \subseteq Using \cup Granted
      BY <2>4 DEF Using, Granted, Ind, QueueInvariant, TypeOK
    <3> QED
      BY <1>1, <2>1, <2>3, <3>1 DEF Ind, OneSlot, QueueInvariant, TypeOK
  <2>5. ASSUME NEW s \in q, ~busy, active' = TRUE, admitted' = admitted \cup {s}
        PROVE  OneSlot'
    <3>1. (Using \cup Granted)' \subseteq (Using \cup Granted) \cup {s}
      BY <2>5 DEF Using, Granted, Ind, QueueInvariant, TypeOK
    <3> QED
      BY <2>1, <2>3, <2>5, <3>1 DEF OneSlot
  <2> QED
    BY <1>1, <2>4, <2>5
<1>4. NobodyOverlooked'
  BY <1>1 DEF NobodyOverlooked, Eligible
<1> QED
  BY <1>2, <1>3, <1>4 DEF Ind

\* acquire adds a new request to the queue before it looks for someone to admit.
LEMMA AcquireKeeps == ASSUME Ind, NEW r \in Requests, Acquire(r) PROVE Ind'
<1> DEFINE q == waiters \cup {r}
<1>1. /\ \/ waiters' = q /\ active' = active /\ admitted' = admitted
         \/ /\ ~active /\ ~closed
            /\ \E s \in q : /\ waiters' = q \ {s}
                            /\ active' = TRUE
                            /\ admitted' = admitted \cup {s}
      /\ ~active' /\ ~closed => \A s \in waiters' : ~Eligible(s, paused)
  <2>1. AdmitNext(q, ticket', active, paused)
    BY DEF Acquire, JoinTheLine
  <2>2. active \in BOOLEAN
    BY DEF Ind, QueueInvariant, TypeOK
  <2> QED
    BY <2>1, <2>2, AdmitNextEffect
<1>2. /\ phase[r] = "new" /\ ~closed
      /\ phase' = [phase EXCEPT ![r] =
                     IF r \in admitted' /\ r \notin Revocable THEN "using" ELSE "waiting"]
      /\ ticket' = [ticket EXCEPT ![r] = sequence]
      /\ sequence' = sequence + 1
      /\ UNCHANGED <<paused, closed, revoked, cancelled>>
  BY DEF Acquire, JoinTheLine, Moves
<1>3. QueueInvariant'
  <2>1. TypeOK'
    <3>1. phase' \in [Requests -> Phases] /\ ticket' \in [Requests -> Nat] /\ sequence' \in Nat
      BY <1>2 DEF Ind, QueueInvariant, TypeOK, Phases
    <3>2. waiters' \subseteq Requests /\ admitted' \subseteq Requests /\ active' \in BOOLEAN
      BY <1>1 DEF Ind, QueueInvariant, TypeOK
    <3> QED
      BY <1>2, <3>1, <3>2 DEF Ind, QueueInvariant, TypeOK
  <2>2. r \notin admitted
    BY <1>2 DEF Ind, QueueInvariant
  <2>3. waiters' \subseteq q \ admitted'
    BY <1>1, <2>2 DEF Ind, QueueInvariant
  <2>4. \A s \in waiters' : phase'[s] = "waiting"
    BY <1>2, <2>3 DEF Ind, QueueInvariant, TypeOK
  <2>5. \A s \in (admitted \cup cancelled)' : phase'[s] # "new"
    BY <1>1, <1>2 DEF Ind, QueueInvariant, TypeOK
  <2> QED
    BY <1>2, <2>1, <2>3, <2>4, <2>5 DEF QueueInvariant, TypeOK
<1>4. OneSlot'
  <2>1. r \notin admitted
    BY <1>2 DEF Ind, QueueInvariant
  <2>2. CASE admitted' = admitted
    <3>1. (Using \cup Granted)' \subseteq Using \cup Granted
      BY <1>2, <2>1, <2>2 DEF Using, Granted, Ind, QueueInvariant, TypeOK
    <3>2. active => active'
      BY <1>1, <2>2
    <3> QED
      BY <3>1, <3>2 DEF Ind, OneSlot
  <2>3. ASSUME NEW s \in q, ~active, active' = TRUE, admitted' = admitted \cup {s}
        PROVE  OneSlot'
    <3>1. Using \cup Granted = {}
      BY <2>3 DEF Ind, OneSlot
    <3>2. (Using \cup Granted)' \subseteq {s}
      BY <1>2, <2>1, <2>3, <3>1 DEF Using, Granted, Ind, QueueInvariant, TypeOK
    <3> QED
      BY <2>3, <3>2 DEF OneSlot
  <2> QED
    BY <1>1, <2>2, <2>3
<1>5. NobodyOverlooked'
  BY <1>1, <1>2 DEF NobodyOverlooked, Eligible
<1> QED
  BY <1>3, <1>4, <1>5 DEF Ind

\* resume_background makes the summaries eligible and looks for one at once.
LEMMA ResumeBackgroundKeeps == ASSUME Ind, ResumeBackground PROVE Ind'
<1>1. /\ \/ waiters' = waiters /\ active' = active /\ admitted' = admitted
         \/ /\ ~active /\ ~closed
            /\ \E s \in waiters : /\ waiters' = waiters \ {s}
                                  /\ active' = TRUE
                                  /\ admitted' = admitted \cup {s}
      /\ ~active' /\ ~closed => \A s \in waiters' : ~Eligible(s, FALSE)
  <2>1. active \in BOOLEAN /\ AdmitNext(waiters, ticket, active, FALSE)
    BY DEF Ind, QueueInvariant, TypeOK, ResumeBackground
  <2> QED
    BY <2>1, AdmitNextEffect
<1>2. paused' = FALSE /\ UNCHANGED <<phase, sequence, ticket, closed, revoked, cancelled>>
  BY DEF ResumeBackground
<1>3. QueueInvariant'
  BY <1>1, <1>2 DEF Ind, QueueInvariant, TypeOK
<1>4. OneSlot'
  <2>1. CASE admitted' = admitted
    BY <1>1, <1>2, <2>1 DEF Ind, OneSlot, Using, Granted, QueueInvariant, TypeOK
  <2>2. ASSUME NEW s \in waiters, ~active, active' = TRUE, admitted' = admitted \cup {s}
        PROVE  OneSlot'
    <3>1. Using \cup Granted = {}
      BY <2>2 DEF Ind, OneSlot
    <3>2. (Using \cup Granted)' \subseteq {s}
      BY <1>2, <2>2, <3>1 DEF Using, Granted
    <3> QED
      BY <2>2, <3>2 DEF OneSlot
  <2> QED
    BY <1>1, <2>1, <2>2
<1>5. NobodyOverlooked'
  BY <1>1, <1>2 DEF NobodyOverlooked, Eligible
<1> QED
  BY <1>3, <1>4, <1>5 DEF Ind

\* try_acquire takes the slot only when it is free and nobody waits.
LEMMA TryAcquireKeeps == ASSUME Ind, NEW r \in Requests, TryAcquire(r) PROVE Ind'
<1>1. /\ phase[r] = "new"
      /\ UNCHANGED <<waiters, sequence, ticket, admitted, paused, closed, revoked, cancelled>>
  BY DEF TryAcquire, queueVars
<1>2. CASE phase' = [phase EXCEPT ![r] = "left"] /\ active' = active
  <2>1. QueueInvariant'
    BY <1>1, <1>2 DEF Ind, QueueInvariant, TypeOK, Phases
  <2>2. (Using \cup Granted)' \subseteq Using \cup Granted
    BY <1>1, <1>2 DEF Using, Granted, Ind, QueueInvariant, TypeOK
  <2> QED
    BY <1>1, <1>2, <2>1, <2>2 DEF Ind, OneSlot, NobodyOverlooked, Eligible
<1>3. CASE ~active /\ phase' = [phase EXCEPT ![r] = "using"] /\ active' = TRUE
  <2>1. QueueInvariant'
    BY <1>1, <1>3 DEF Ind, QueueInvariant, TypeOK, Phases
  <2>2. Using \cup Granted = {}
    BY <1>3 DEF Ind, OneSlot
  <2>3. (Using \cup Granted)' \subseteq {r}
    BY <1>1, <1>3, <2>2 DEF Using, Granted, Ind, QueueInvariant, TypeOK
  <2> QED
    BY <1>3, <2>1, <2>3 DEF Ind, OneSlot, NobodyOverlooked
<1> QED
  BY <1>2, <1>3 DEF TryAcquire, Moves

\* The initial state is empty and every step of the scheduler keeps the invariant.
LEMMA InitInd == Init => Ind
<1> SUFFICES ASSUME Init PROVE Ind
  OBVIOUS
<1>1. QueueInvariant
  BY DEF Init, QueueInvariant, TypeOK, Phases
<1>2. Using \cup Granted = {}
  BY DEF Init, Using, Granted
<1> QED
  BY <1>1, <1>2 DEF Init, Ind, OneSlot, NobodyOverlooked

\* The steps that leave the slot and the queue alone.
LEMMA QuietStepsKeep ==
  ASSUME Ind, NEW r \in Requests,
         AcquireRefused(r) \/ Resume(r) \/ ResumeClosed(r) \/ Cancel(r) \/ Revoke(r)
  PROVE  Ind'
<1>1. UNCHANGED <<waiters, sequence, ticket, admitted, active, paused, closed>>
  BY DEF AcquireRefused, Resume, ResumeClosed, Cancel, Revoke, queueVars
<1>2. revoked \subseteq revoked'
  BY DEF AcquireRefused, Resume, ResumeClosed, Cancel, Revoke
<1>3. QueueInvariant'
  <2>1. CASE AcquireRefused(r)
    BY <2>1 DEF AcquireRefused, Moves, Ind, QueueInvariant, TypeOK, Phases, queueVars
  <2>2. CASE Resume(r)
    BY <2>2 DEF Resume, Granted, Moves, Ind, QueueInvariant, TypeOK, Phases, queueVars
  <2>3. CASE ResumeClosed(r)
    BY <2>3 DEF ResumeClosed, Moves, Ind, QueueInvariant, TypeOK, Phases, queueVars
  <2>4. CASE Cancel(r)
    BY <2>4 DEF Cancel, Ind, QueueInvariant, TypeOK, queueVars
  <2>5. CASE Revoke(r)
    BY <2>5 DEF Revoke, Ind, QueueInvariant, TypeOK, queueVars
  <2> QED
    BY <2>1, <2>2, <2>3, <2>4, <2>5
<1>4. (Using \cup Granted)' \subseteq Using \cup Granted
  <2>1. CASE AcquireRefused(r)
    BY <1>1, <2>1 DEF AcquireRefused, Moves, Using, Granted, Ind, QueueInvariant, TypeOK
  <2>2. CASE Resume(r)
    BY <1>1, <2>2 DEF Resume, Moves, Using, Granted, Ind, QueueInvariant, TypeOK
  <2>3. CASE ResumeClosed(r)
    BY <1>1, <2>3 DEF ResumeClosed, Moves, Using, Granted, Ind, QueueInvariant, TypeOK
  <2>4. CASE Cancel(r) \/ Revoke(r)
    BY <1>1, <2>4 DEF Cancel, Revoke, Using, Granted
  <2> QED
    BY <2>1, <2>2, <2>3, <2>4
<1>5. OneSlot'
  BY <1>1, <1>4 DEF Ind, OneSlot
<1>6. NobodyOverlooked'
  BY <1>1, <1>2 DEF Ind, NobodyOverlooked, Eligible
<1> QED
  BY <1>3, <1>5, <1>6 DEF Ind

\* The steps that may hand the slot on.
LEMMA LeavingKeeps ==
  ASSUME Ind, NEW r \in Requests, ResumeCancelled(r) \/ GiveUp(r) \/ Release(r)
  PROVE  Ind'
<1>0. active \in BOOLEAN
  BY DEF Ind, QueueInvariant, TypeOK
<1>1. CASE ResumeCancelled(r) /\ r \in admitted
  <2>1. /\ phase' = [phase EXCEPT ![r] = "left"] /\ phase[r] = "waiting"
        /\ UNCHANGED <<waiters, sequence, ticket, admitted, active, paused, closed,
                       revoked, cancelled>>
    BY <1>1 DEF ResumeCancelled, Moves
  <2>2. QueueInvariant'
    BY <1>1, <2>1 DEF Ind, QueueInvariant, TypeOK, Phases
  <2>3. (Using \cup Granted)' \subseteq Using \cup Granted
    BY <2>1 DEF Using, Granted, Ind, QueueInvariant, TypeOK
  <2> QED
    BY <2>1, <2>2, <2>3 DEF Ind, OneSlot, NobodyOverlooked, Eligible
<1>2. CASE ResumeCancelled(r) /\ r \notin admitted
  <2> DEFINE q == waiters \ {r}
  <2>1. /\ AdmitNext(q, ticket, active, paused)
        /\ phase' = [phase EXCEPT ![r] = "left"] /\ phase[r] = "waiting"
        /\ UNCHANGED <<sequence, ticket, paused, closed, revoked, cancelled>>
    BY <1>2 DEF ResumeCancelled, Moves
  <2>2. q \in SUBSET waiters /\ r \notin q
    OBVIOUS
  <2> HIDE DEF q
  <2> QED
    BY <1>0, <2>1, <2>2, AdmitNextKeeps
<1>3. CASE GiveUp(r)
  <2> DEFINE q == waiters \ {r}
  <2>1. /\ AdmitNext(q, ticket, active, paused)
        /\ phase' = [phase EXCEPT ![r] = "left"] /\ phase[r] = "waiting"
        /\ UNCHANGED <<sequence, ticket, paused, closed, revoked, cancelled>>
    BY <1>3 DEF GiveUp, Moves
  <2>2. q \in SUBSET waiters /\ r \notin q
    OBVIOUS
  <2> HIDE DEF q
  <2> QED
    BY <1>0, <2>1, <2>2, AdmitNextKeeps
<1>4. CASE Release(r)
  <2>1. /\ AdmitNext(waiters, ticket, FALSE, paused)
        /\ phase' = [phase EXCEPT ![r] = "left"] /\ phase[r] = "using"
        /\ UNCHANGED <<sequence, ticket, paused, closed, revoked, cancelled>>
    BY <1>4 DEF Release, Moves
  <2>2. r \notin waiters
    BY <2>1 DEF Ind, QueueInvariant
  <2> QED
    BY <2>1, <2>2, AdmitNextKeeps
<1> QED
  BY <1>1, <1>2, <1>3, <1>4

\* Every step, or a stutter.
LEMMA NextInd == Ind /\ [Next]_vars => Ind'
<1> SUFFICES ASSUME Ind, [Next]_vars PROVE Ind'
  OBVIOUS
<1>1. ASSUME NEW r \in Requests,
             AcquireRefused(r) \/ Resume(r) \/ ResumeClosed(r) \/ Cancel(r) \/ Revoke(r)
      PROVE  Ind'
  BY <1>1, QuietStepsKeep
<1>2. ASSUME NEW r \in Requests, ResumeCancelled(r) \/ GiveUp(r) \/ Release(r) PROVE Ind'
  BY <1>2, LeavingKeeps
<1>3. ASSUME NEW r \in Requests, Acquire(r) PROVE Ind'
  BY <1>3, AcquireKeeps
<1>4. ASSUME NEW r \in Requests, TryAcquire(r) PROVE Ind'
  BY <1>4, TryAcquireKeeps
<1>5. CASE ResumeBackground
  BY <1>5, ResumeBackgroundKeeps
<1>6. CASE PauseBackground
  <2>1. QueueInvariant' /\ (Using \cup Granted)' = Using \cup Granted
    BY <1>6 DEF PauseBackground, Ind, QueueInvariant, TypeOK, Using, Granted, queueVars
  <2> QED
    BY <1>6, <2>1 DEF PauseBackground, Ind, OneSlot, NobodyOverlooked, Eligible, queueVars
<1>7. CASE Close
  <2>1. QueueInvariant' /\ (Using \cup Granted)' = Using \cup Granted
    BY <1>7 DEF Close, Ind, QueueInvariant, TypeOK, Using, Granted
  <2> QED
    BY <1>7, <2>1 DEF Close, Ind, OneSlot, NobodyOverlooked
<1>8. CASE UNCHANGED vars
  BY <1>8 DEF vars, queueVars, Ind, QueueInvariant, TypeOK, OneSlot, NobodyOverlooked,
     Eligible, Using, Granted
<1> QED
  BY <1>1, <1>2, <1>3, <1>4, <1>5, <1>6, <1>7, <1>8 DEF Next, WakeUp

\* The three invariants hold in every reachable state.
LEMMA Inductive == Spec => []Ind
  BY InitInd, NextInd, PTL DEF Spec

-----------------------------------------------------------------------------
\* Whatever way a request leaves acquire by (admitted, refused, cancelled, timed out,
\* revoked, closed), the queue keeps exactly requests that still wait.
THEOREM QueueStaysConsistent == Spec => []QueueInvariant
  BY Inductive, PTL DEF Ind

\* At most one request has the slot, and the scheduler counts it as taken, for any
\* number of requests and any cancellations.
THEOREM SlotIsExclusive == Spec => []OneSlot
  BY Inductive, PTL DEF Ind

\* A free slot and an eligible waiter never meet: release, acquire, resume_background
\* and the departures of waiters each pass the slot on.
THEOREM FreeSlotIsOffered == Spec => []NobodyOverlooked
  BY Inductive, PTL DEF Ind

Users == Using \cup Granted \cup Leaked

\* Whoever accounts for the slot goes on doing so, unless it moves by itself.
LEMMA UsersStay ==
  ASSUME Ind, NEW r \in Requests, NEW step \in Phases, phase' = [phase EXCEPT ![r] = step],
         r \notin Users, admitted \subseteq admitted', cancelled' = cancelled
  PROVE  Users \subseteq Users'
  BY DEF Users, Using, Granted, Leaked, Ind, QueueInvariant, TypeOK

\* A waiter that _admit_next takes accounts for the slot.
LEMMA TheAdmittedUse ==
  ASSUME NEW s \in Requests, s \in admitted', phase'[s] = "waiting"
  PROVE  Users' # {}
  BY DEF Users, Granted

\* What AdmitNextEffect says of who is admitted.
LEMMA AdmitsOne ==
  ASSUME NEW q, NEW number, NEW busy \in BOOLEAN, NEW nowPaused,
         AdmitNext(q, number, busy, nowPaused)
  PROVE  \/ active' = busy /\ admitted' = admitted
         \/ \E s \in q : admitted' = admitted \cup {s}
<1> DEFINE candidates == {r \in q : Eligible(r, nowPaused)}
<1>1. CASE busy \/ closed \/ candidates = {}
  BY <1>1 DEF AdmitNext
<1>2. CASE ~(busy \/ closed \/ candidates = {})
  <2>1. PICK r \in candidates : admitted' = admitted \cup {r}
    BY <1>2 DEF AdmitNext
  <2> QED
    BY <2>1
<1> QED
  BY <1>1, <1>2

\* The slot is only ever lost to a waiter that was admitted and then cancelled.
THEOREM SlotIsAccountedFor == Spec => []SlotAccountedFor
<1>1. Init => SlotAccountedFor
  BY DEF Init, SlotAccountedFor
<1>2. ASSUME Ind, SlotAccountedFor, [Next]_vars PROVE SlotAccountedFor'
  <2> SUFFICES ASSUME active' PROVE Users' # {}
    BY DEF SlotAccountedFor, Users
  <2>0. /\ active => Users # {}
        /\ active \in BOOLEAN /\ phase \in [Requests -> Phases]
        /\ waiters \subseteq Requests /\ waiters \cap admitted = {}
        /\ \A s \in waiters : phase[s] = "waiting"
    BY <1>2 DEF SlotAccountedFor, Users, Ind, QueueInvariant, TypeOK
  <2>1. ASSUME NEW r \in Requests,
               AcquireRefused(r) \/ Resume(r) \/ ResumeClosed(r) \/ Cancel(r) \/ Revoke(r)
        PROVE  Users' # {}
    <3>1. active' = active /\ admitted' = admitted
      BY <2>1 DEF AcquireRefused, Resume, ResumeClosed, Cancel, Revoke, queueVars
    <3>2. CASE Resume(r)
      BY <2>0, <3>2 DEF Resume, Moves, Users, Using
    <3>3. CASE AcquireRefused(r) \/ ResumeClosed(r)
      <4>1. /\ phase' = [phase EXCEPT ![r] = "left"] /\ cancelled' = cancelled
            /\ r \notin Users
        BY <1>2, <3>3 DEF AcquireRefused, ResumeClosed, Moves, Users, Using, Granted, Leaked
      <4> QED
        BY <1>2, <2>0, <3>1, <4>1, UsersStay DEF Phases
    <3>4. CASE Cancel(r) \/ Revoke(r)
      BY <2>0, <3>1, <3>4 DEF Cancel, Revoke, Users, Using, Granted, Leaked
    <3> QED
      BY <2>1, <3>2, <3>3, <3>4
  <2>2. ASSUME NEW r \in Requests, ResumeCancelled(r), r \in admitted PROVE Users' # {}
    BY <2>0, <2>2 DEF ResumeCancelled, Moves, Users, Leaked
  <2>3. ASSUME NEW r \in Requests,
               GiveUp(r) \/ (ResumeCancelled(r) /\ r \notin admitted) \/ Release(r)
        PROVE  Users' # {}
    <3> DEFINE q == waiters \ {r}
    <3>1. PICK busy \in BOOLEAN : /\ AdmitNext(q, ticket, busy, paused)
                                  /\ busy => active /\ r \notin Users
      <4>1. CASE Release(r)
        <5>1. waiters = q
          BY <2>0, <4>1 DEF Release
        <5> QED
          BY <4>1, <5>1 DEF Release
      <4>2. CASE GiveUp(r) \/ (ResumeCancelled(r) /\ r \notin admitted)
        <5>1. r \notin Users
          BY <2>0, <4>2 DEF GiveUp, ResumeCancelled, Users, Using, Granted, Leaked
        <5> QED
          BY <2>0, <4>2, <5>1 DEF GiveUp, ResumeCancelled
      <4> QED
        BY <2>3, <4>1, <4>2
    <3>2. phase' = [phase EXCEPT ![r] = "left"] /\ cancelled' = cancelled
      BY <2>3 DEF GiveUp, ResumeCancelled, Release, Moves
    <3> HIDE DEF q
    <3>3. \/ active' = busy /\ admitted' = admitted
          \/ \E s \in q : admitted' = admitted \cup {s}
      BY <3>1, AdmitsOne
    <3>4. CASE active' = busy /\ admitted' = admitted
      BY <1>2, <2>0, <3>1, <3>2, <3>4, UsersStay DEF Phases
    <3>5. ASSUME NEW s \in q, admitted' = admitted \cup {s} PROVE Users' # {}
      <4>1. s \in Requests /\ phase'[s] = "waiting"
        BY <2>0, <3>2 DEF q
      <4> QED
        BY <3>5, <4>1, TheAdmittedUse
    <3> QED
      BY <3>3, <3>4, <3>5
  <2>4. ASSUME NEW r \in Requests, Acquire(r) PROVE Users' # {}
    <3> DEFINE q == waiters \cup {r}
               step == IF r \in admitted' /\ r \notin Revocable THEN "using" ELSE "waiting"
    <3>1. /\ AdmitNext(q, ticket', active, paused)
          /\ phase[r] = "new" /\ phase' = [phase EXCEPT ![r] = step]
          /\ cancelled' = cancelled
      BY <2>4 DEF Acquire, JoinTheLine, Moves
    <3>2. r \notin Users
      BY <3>1 DEF Users, Using, Granted, Leaked
    <3>3. step \in Phases
      BY DEF Phases
    <3>4. CASE r \in admitted'
      BY <2>0, <3>1, <3>4 DEF Users, Using, Granted
    <3>5. CASE r \notin admitted'
      <4> HIDE DEF q, step
      <4>1. \/ active' = active /\ admitted' = admitted
            \/ \E s \in q : admitted' = admitted \cup {s}
        BY <2>0, <3>1, AdmitsOne
      <4>2. CASE active' = active /\ admitted' = admitted
        BY <1>2, <2>0, <3>1, <3>2, <3>3, <4>2, UsersStay
      <4>3. ASSUME NEW s \in q, admitted' = admitted \cup {s} PROVE Users' # {}
        <5>1. s \in waiters /\ s # r
          BY <3>5, <4>3 DEF q
        <5>2. s \in Requests /\ phase'[s] = "waiting"
          BY <2>0, <3>1, <5>1
        <5> QED
          BY <4>3, <5>2, TheAdmittedUse
      <4> QED
        BY <4>1, <4>2, <4>3
    <3> QED
      BY <3>4, <3>5
  <2>5. ASSUME NEW r \in Requests, TryAcquire(r) PROVE Users' # {}
    <3>1. /\ phase[r] = "new" /\ admitted' = admitted /\ cancelled' = cancelled
          /\ r \notin Users
      BY <2>5 DEF TryAcquire, Users, Using, Granted, Leaked
    <3>2. CASE phase' = [phase EXCEPT ![r] = "left"] /\ active' = active
      BY <1>2, <2>0, <3>1, <3>2, UsersStay DEF Phases
    <3>3. CASE phase' = [phase EXCEPT ![r] = "using"]
      BY <2>0, <3>3 DEF Users, Using
    <3> QED
      BY <2>5, <3>2, <3>3 DEF TryAcquire, Moves
  <2>6. CASE ResumeBackground
    <3>1. phase' = phase /\ cancelled' = cancelled /\ AdmitNext(waiters, ticket, active, FALSE)
      BY <2>6 DEF ResumeBackground
    <3>2. \/ active' = active /\ admitted' = admitted
          \/ \E s \in waiters : admitted' = admitted \cup {s}
      BY <2>0, <3>1, AdmitsOne
    <3>3. CASE active' = active /\ admitted' = admitted
      BY <2>0, <3>1, <3>3 DEF Users, Using, Granted, Leaked
    <3>4. ASSUME NEW s \in waiters, admitted' = admitted \cup {s} PROVE Users' # {}
      BY <2>0, <3>1, <3>4, TheAdmittedUse
    <3> QED
      BY <3>2, <3>3, <3>4
  <2>7. CASE PauseBackground \/ Close \/ UNCHANGED vars
    BY <2>0, <2>7 DEF PauseBackground, Close, vars, queueVars, Users, Using, Granted, Leaked
  <2> QED
    BY <1>2, <2>1, <2>2, <2>3, <2>4, <2>5, <2>6, <2>7 DEF Next, WakeUp
<1> QED
  BY Inductive, <1>1, <1>2, PTL DEF Spec

\* Whatever is cancelled, revoked or closed, and for any number of requests: the slot has
\* one user at most, is offered while it is free, and is lost in one way only.
THEOREM SlotIsWellKept == Spec => []SlotWellKept
  BY QueueStaysConsistent, SlotIsExclusive, FreeSlotIsOffered, SlotIsAccountedFor, PTL
  DEF SlotWellKept

\* While a meeting is recorded no summary enters the slot that was not admitted
\* before the recording began.
THEOREM SummariesAreHeldBack == Spec => RecordingHoldsBack
<1> DEFINE HeldBack == \A r \in Background :
             phase'[r] = "using" /\ phase[r] # "using" /\ r \notin admitted => ~paused'
<1>1. ASSUME Ind, [Next]_vars PROVE HeldBack
  <2> SUFFICES ASSUME NEW r \in Background, phase'[r] = "using", phase[r] # "using",
                      r \notin admitted
               PROVE  ~paused'
    OBVIOUS
  <2>1. r \in Requests /\ phase \in [Requests -> Phases]
    BY RequestsAssumption, <1>1 DEF Ind, QueueInvariant, TypeOK
  <2>2. ASSUME NEW s \in Requests, Acquire(s) PROVE ~paused'
    <3>1. s = r /\ r \in admitted' /\ paused' = paused
      BY <2>1, <2>2 DEF Acquire, Moves
    <3>2. AdmitNext(waiters \cup {r}, ticket', active, paused)
      BY <2>2, <3>1 DEF Acquire, JoinTheLine
    <3>3. Eligible(r, paused)
      BY <3>1, <3>2 DEF AdmitNext
    <3> QED
      BY <3>1, <3>3 DEF Eligible
  <2>3. ASSUME NEW s \in Requests, TryAcquire(s) PROVE ~paused'
    BY <2>1, <2>3 DEF TryAcquire, Moves, Eligible
  <2>4. ASSUME NEW s \in Requests,
               \/ AcquireRefused(s) \/ Resume(s) \/ ResumeCancelled(s) \/ ResumeClosed(s)
               \/ GiveUp(s) \/ Release(s)
        PROVE  FALSE
    BY <2>1, <2>4 DEF AcquireRefused, Resume, ResumeCancelled, ResumeClosed, GiveUp,
       Release, Moves, Granted
  <2>5. ASSUME \/ \E s \in Requests : Cancel(s) \/ Revoke(s)
               \/ PauseBackground \/ ResumeBackground \/ Close \/ UNCHANGED vars
        PROVE  FALSE
    BY <2>5 DEF Cancel, Revoke, PauseBackground, ResumeBackground, Close, vars
  <2> QED
    BY <1>1, <2>2, <2>3, <2>4, <2>5 DEF Next, WakeUp
<1>2. Ind /\ [Next]_vars => [HeldBack]_vars
  BY <1>1
<1> QED
  BY Inductive, <1>2, PTL DEF Spec, RecordingHoldsBack

\* Each waiter has a number of its own, below the next one.
Tickets == /\ \A s \in waiters : ticket[s] < sequence
           /\ \A r, s \in waiters : ticket[r] = ticket[s] => r = s

\* Whom _admit_next admits came before every eligible one that it leaves in the queue.
LEMMA AdmitsTheFirst ==
  ASSUME NEW q, NEW number, NEW busy \in BOOLEAN, NEW nowPaused,
         AdmitNext(q, number, busy, nowPaused), NEW r \in admitted' \ admitted
  PROVE  r \in q /\ \A s \in waiters' : Eligible(s, nowPaused) => Before(r, s, number)
<1> DEFINE candidates == {s \in q : Eligible(s, nowPaused)}
<1>1. CASE busy \/ closed \/ candidates = {}
  BY <1>1 DEF AdmitNext
<1>2. CASE ~(busy \/ closed \/ candidates = {})
  <2>1. PICK t \in candidates : /\ \A s \in candidates : Before(t, s, number)
                                /\ waiters' = q \ {t} /\ admitted' = admitted \cup {t}
    BY <1>2 DEF AdmitNext
  <2>2. r = t
    BY <2>1
  <2> QED
    BY <2>1, <2>2
<1> QED
  BY <1>1, <1>2

\* The queue only shrinks, but for the one who joins it.
LEMMA QueueMoves ==
  ASSUME Ind, [Next]_vars
  PROVE  \/ waiters' \subseteq waiters /\ UNCHANGED <<ticket, sequence>>
         \/ \E r \in Requests : /\ r \notin waiters /\ waiters' \subseteq waiters \cup {r}
                                /\ ticket' = [ticket EXCEPT ![r] = sequence]
                                /\ sequence' = sequence + 1
<1>0. active \in BOOLEAN /\ FALSE \in BOOLEAN
  BY DEF Ind, QueueInvariant, TypeOK
<1>1. ASSUME NEW q, NEW number, NEW busy \in BOOLEAN, NEW nowPaused,
             AdmitNext(q, number, busy, nowPaused)
      PROVE  waiters' \subseteq q
  BY <1>1, AdmitNextEffect
<1>2. ASSUME NEW r \in Requests, Acquire(r)
      PROVE  /\ r \notin waiters /\ waiters' \subseteq waiters \cup {r}
             /\ ticket' = [ticket EXCEPT ![r] = sequence] /\ sequence' = sequence + 1
  <2>1. r \notin waiters
    BY <1>2 DEF Acquire, Ind, QueueInvariant
  <2> QED
    BY <1>0, <1>1, <1>2, <2>1 DEF Acquire, JoinTheLine
<1>3. ASSUME NEW r \in Requests, ResumeCancelled(r) \/ GiveUp(r) \/ Release(r)
      PROVE  waiters' \subseteq waiters /\ UNCHANGED <<ticket, sequence>>
  <2>1. UNCHANGED <<ticket, sequence>>
    BY <1>3 DEF ResumeCancelled, GiveUp, Release
  <2>2. CASE waiters' = waiters
    BY <2>1, <2>2
  <2>3. CASE AdmitNext(waiters \ {r}, ticket, active, paused)
    <3>1. waiters' \subseteq waiters \ {r}
      BY <1>0, <1>1, <2>3
    <3> QED
      BY <2>1, <3>1
  <2>4. CASE AdmitNext(waiters, ticket, FALSE, paused)
    <3>1. waiters' \subseteq waiters
      BY <1>0, <1>1, <2>4
    <3> QED
      BY <2>1, <3>1
  <2> QED
    BY <1>3, <2>2, <2>3, <2>4 DEF ResumeCancelled, GiveUp, Release
<1>4. ASSUME ResumeBackground PROVE waiters' \subseteq waiters /\ UNCHANGED <<ticket, sequence>>
  <2>1. waiters' \subseteq waiters
    BY <1>0, <1>1, <1>4 DEF ResumeBackground
  <2> QED
    BY <1>4, <2>1 DEF ResumeBackground
<1>5. ASSUME \/ \E r \in Requests : \/ AcquireRefused(r) \/ TryAcquire(r) \/ Resume(r)
                                   \/ ResumeClosed(r) \/ Cancel(r) \/ Revoke(r)
             \/ PauseBackground \/ Close \/ UNCHANGED vars
      PROVE  waiters' \subseteq waiters /\ UNCHANGED <<ticket, sequence>>
  BY <1>5 DEF AcquireRefused, TryAcquire, Resume, ResumeClosed, Cancel, Revoke, PauseBackground,
     Close, vars, queueVars
<1> QED
  BY <1>2, <1>3, <1>4, <1>5 DEF Next, WakeUp

LEMMA TicketsKept == ASSUME Ind, Tickets, [Next]_vars PROVE Tickets'
<1>1. sequence \in Nat /\ ticket \in [Requests -> Nat] /\ waiters \subseteq Requests
  BY DEF Ind, QueueInvariant, TypeOK
<1>2. CASE waiters' \subseteq waiters /\ UNCHANGED <<ticket, sequence>>
  BY <1>2 DEF Tickets
<1>3. ASSUME NEW r \in Requests, r \notin waiters, waiters' \subseteq waiters \cup {r},
             ticket' = [ticket EXCEPT ![r] = sequence], sequence' = sequence + 1
      PROVE  Tickets'
  <2>1. ticket'[r] = sequence /\ \A s \in waiters : ticket'[s] = ticket[s] /\ ticket[s] \in Nat
    BY <1>1, <1>3
  <2>2. \A s \in waiters' : ticket'[s] < sequence'
    BY <1>1, <1>3, <2>1 DEF Tickets
  <2>3. \A s, t \in waiters' : ticket'[s] = ticket'[t] => s = t
    BY <1>1, <1>3, <2>1 DEF Tickets
  <2> QED
    BY <2>2, <2>3 DEF Tickets
<1> QED
  BY <1>2, <1>3, QueueMoves

\* Who newly has the slot, or is newly given it, was first among those that are still in
\* the queue and could have it.
InTurn(r, s) == /\ Priority[r] <= Priority[s]
                /\ Priority[r] = Priority[s] => r \in waiters /\ ticket[r] < ticket[s]
Enters(r) == (phase'[r] = "using" \/ r \in admitted') /\ ~(phase[r] = "using" \/ r \in admitted)

LEMMA StepInTurn ==
  ASSUME Ind, Tickets, [Next]_vars, NEW r \in Requests, Enters(r),
         NEW s \in waiters \cap waiters', Eligible(s, paused'), r # s
  PROVE  InTurn(r, s)
<1>0. /\ phase \in [Requests -> Phases] /\ active \in BOOLEAN /\ sequence \in Nat
      /\ ticket \in [Requests -> Nat] /\ waiters \subseteq Requests
      /\ Priority[r] \in Int /\ Priority[s] \in Int
      /\ ticket[r] \in Nat /\ ticket[s] \in Nat /\ ticket[s] < sequence
      /\ (r \in waiters => ticket[r] # ticket[s])
  BY RequestsAssumption DEF Ind, QueueInvariant, TypeOK, Tickets
<1>1. ASSUME NEW t \in Requests, Acquire(t) PROVE InTurn(r, s)
  <2>1. /\ AdmitNext(waiters \cup {t}, ticket', active, paused) /\ paused' = paused
        /\ ticket' = [ticket EXCEPT ![t] = sequence] /\ phase[t] = "new"
        /\ phase' = [phase EXCEPT ![t] =
                       IF t \in admitted' /\ t \notin Revocable THEN "using" ELSE "waiting"]
    BY <1>1 DEF Acquire, JoinTheLine, Moves
  <2>2. r \in admitted' \ admitted
    BY <1>0, <2>1 DEF Enters
  <2>3. r \in waiters \cup {t} /\ Before(r, s, ticket')
    BY <1>0, <2>1, <2>2, AdmitsTheFirst
  <2>4. t \notin waiters
    BY <2>1 DEF Ind, QueueInvariant
  <2>5. ticket'[s] = ticket[s] /\ ticket'[r] = IF r = t THEN sequence ELSE ticket[r]
    BY <1>0, <2>1, <2>4
  <2> QED
    BY <1>0, <2>3, <2>5 DEF Before, InTurn
<1>2. ASSUME NEW q \in SUBSET waiters, NEW busy \in BOOLEAN, AdmitNext(q, ticket, busy, paused'),
             r \in admitted' \ admitted
      PROVE  InTurn(r, s)
  <2>1. r \in q /\ Before(r, s, ticket)
    BY <1>2, AdmitsTheFirst
  <2> QED
    BY <1>0, <2>1 DEF Before, InTurn
<1>3. ASSUME NEW t \in Requests, ResumeCancelled(t) \/ GiveUp(t) \/ Release(t) PROVE InTurn(r, s)
  <2>1. phase' = [phase EXCEPT ![t] = "left"] /\ paused' = paused
    BY <1>3 DEF ResumeCancelled, GiveUp, Release, Moves
  <2>2. r \in admitted' \ admitted
    BY <1>0, <2>1 DEF Enters
  <2>3. \/ AdmitNext(waiters \ {t}, ticket, active, paused)
        \/ AdmitNext(waiters, ticket, FALSE, paused)
    BY <1>3, <2>2 DEF ResumeCancelled, GiveUp, Release
  <2>4. CASE AdmitNext(waiters \ {t}, ticket, active, paused)
    <3>1. waiters \ {t} \in SUBSET waiters
      OBVIOUS
    <3> QED
      BY <1>0, <1>2, <2>1, <2>2, <2>4, <3>1
  <2>5. CASE AdmitNext(waiters, ticket, FALSE, paused)
    <3>1. waiters \in SUBSET waiters /\ FALSE \in BOOLEAN
      OBVIOUS
    <3> QED
      BY <1>2, <2>1, <2>2, <2>5, <3>1
  <2> QED
    BY <2>3, <2>4, <2>5
<1>4. ASSUME ResumeBackground PROVE InTurn(r, s)
  <2>1. AdmitNext(waiters, ticket, active, paused') /\ phase' = phase
    BY <1>4 DEF ResumeBackground
  <2>2. r \in admitted' \ admitted /\ waiters \in SUBSET waiters
    BY <2>1 DEF Enters
  <2> QED
    BY <1>0, <1>2, <2>1, <2>2
<1>5. ASSUME NEW t \in Requests, TryAcquire(t) PROVE FALSE
  BY <1>0, <1>5 DEF TryAcquire, Moves, Enters, queueVars
<1>6. ASSUME \/ \E t \in Requests : \/ AcquireRefused(t) \/ Resume(t) \/ ResumeClosed(t)
                                   \/ Cancel(t) \/ Revoke(t)
             \/ PauseBackground \/ Close \/ UNCHANGED vars
      PROVE  FALSE
  BY <1>0, <1>6 DEF AcquireRefused, Resume, ResumeClosed, Cancel, Revoke, PauseBackground, Close,
     vars, Moves, Granted, Enters
<1> QED
  BY <1>1, <1>3, <1>4, <1>5, <1>6 DEF Next, WakeUp

\* Whoever is admitted was behind nobody who still waits and could have the slot, however
\* the requests came, left or were cancelled, and for any priorities.
THEOREM NobodyIsOvertaken == Spec => NobodyOvertaken
<1> DEFINE Orderly == \A r \in Requests :
             Enters(r) => \A s \in waiters \cap waiters' :
                            Eligible(s, paused') /\ r # s => InTurn(r, s)
<1>1. Ind /\ Tickets /\ [Next]_vars => Ind' /\ Tickets' /\ [Orderly]_vars
  BY NextInd, TicketsKept, StepInTurn
<1>2. Init => Tickets
  BY DEF Init, Tickets
<1>3. Spec => [][Orderly]_vars
  BY InitInd, <1>1, <1>2, PTL DEF Spec
<1> QED
  BY <1>3 DEF NobodyOvertaken, Enters, InTurn

\* The order of the slot, in whole: nobody is overtaken and no summary enters while a
\* meeting is recorded.
THEOREM TheOrderIsKept == Spec => AdmittedInTurn
  BY NobodyIsOvertaken, SummariesAreHeldBack DEF AdmittedInTurn

-----------------------------------------------------------------------------
(***************************************************************************)
(* Windows of the conversation.                                            *)
(***************************************************************************)
\* A snapshot stands for the first pairs of a set.
Prefix(snapshot, pairs) ==
  snapshot.end <= Cardinality(pairs) /\ snapshot.content = First(pairs, snapshot.end)
Snapshots == [end : Nat, content : SUBSET Turns]

LEMMA PairsFinite ==
  ASSUME NEW S \in SUBSET Turns PROVE IsFiniteSet(S) /\ Cardinality(S) \in Nat
<1>1. IsFiniteSet(Turns)
  BY ConversationAssumption, FS_Interval DEF Turns
<1> QED
  BY <1>1, FS_Subset, FS_CardinalityType

LEMMA FirstNone == ASSUME NEW S \in SUBSET Turns PROVE First(S, 0) = {}
<1>1. \A p \in S : Cardinality({q \in S : q < p}) \in Nat
  <2> SUFFICES ASSUME NEW p \in S PROVE Cardinality({q \in S : q < p}) \in Nat
    OBVIOUS
  <2>1. {q \in S : q < p} \in SUBSET Turns
    OBVIOUS
  <2> QED
    BY <2>1, PairsFinite
<1> QED
  BY <1>1 DEF First

LEMMA FirstGrows ==
  ASSUME NEW S \in SUBSET Turns, NEW m \in Nat, NEW n \in Nat, m <= n
  PROVE First(S, m) \subseteq First(S, n)
<1> SUFFICES ASSUME NEW p \in S, Cardinality({q \in S : q < p}) < m
             PROVE Cardinality({q \in S : q < p}) < n
  BY DEF First
<1>1. {q \in S : q < p} \in SUBSET Turns
  OBVIOUS
<1>2. Cardinality({q \in S : q < p}) \in Nat
  BY <1>1, PairsFinite
<1> QED
  BY <1>2

\* A pair that follows the others changes nothing for what comes before it.
LEMMA FirstBelow ==
  ASSUME NEW S \in SUBSET Turns, NEW t \in Turns, \A p \in S : p < t,
         NEW n \in Nat, n <= Cardinality(S)
  PROVE /\ Cardinality(S \union {t}) = Cardinality(S) + 1
        /\ First(S \union {t}, n) = First(S, n)
<1>1. IsFiniteSet(S) /\ Cardinality(S) \in Nat /\ t \in Int /\ \A p \in S : p \in Int
  BY PairsFinite DEF Turns
<1>2. t \notin S
  BY <1>1
<1>3. Cardinality(S \union {t}) = Cardinality(S) + 1
  BY <1>1, <1>2, FS_AddElement
<1>4. ASSUME NEW p \in S
      PROVE {q \in S \union {t} : q < p} = {q \in S : q < p}
  BY <1>1, <1>4
<1>5. {q \in S \union {t} : q < t} = S
  <2>1. ~(t < t)
    BY <1>1
  <2> QED
    BY <2>1
<1>6. ~(Cardinality({q \in S \union {t} : q < t}) < n)
  BY <1>1, <1>5
<1> QED
  BY <1>3, <1>4, <1>6 DEF First

LEMMA PrefixGrows ==
  ASSUME NEW S \in SUBSET Turns, NEW t \in Turns, \A p \in S : p < t,
         NEW s \in Snapshots
  PROVE /\ Prefix(s, S) => Prefix(s, S \union {t})
        /\ s.end <= Cardinality(S) /\ Prefix(s, S \union {t}) => Prefix(s, S)
<1>1. Cardinality(S) \in Nat /\ s.end \in Nat
  BY PairsFinite DEF Snapshots
<1>2. s.end <= Cardinality(S) => /\ Cardinality(S \union {t}) = Cardinality(S) + 1
                                 /\ First(S \union {t}, s.end) = First(S, s.end)
  BY <1>1, FirstBelow
<1> QED
  BY <1>1, <1>2 DEF Prefix

LEMMA SummaryTypes ==
  ASSUME NEW S \in SUBSET Turns, NEW old \in Snapshots, NEW keep \in Nat \ {0},
         HasWindow(S, old, keep), NEW s \in Summaries(S, old, keep)
  PROVE /\ s \in Snapshots /\ s.end < Cardinality(S) /\ old.end < s.end
        /\ s.content = old.content \union (First(S, s.end) \ First(S, old.end))
<1>1. Cardinality(S) \in Nat /\ old.end \in Nat /\ old.content \in SUBSET Turns
  BY PairsFinite DEF Snapshots
<1>2. PICK e \in Fitted(S, keep) :
        s = [end |-> e, content |-> old.content \union (First(S, e) \ First(S, old.end))]
  BY DEF Summaries
<1>3. e \in Nat /\ e < Cardinality(S) /\ old.end < e
  BY <1>1 DEF Fitted, HasWindow
<1>4. First(S, e) \in SUBSET Turns
  BY DEF First
<1> QED
  BY <1>1, <1>2, <1>3, <1>4 DEF Snapshots

\* The summary of a window takes up where the old snapshot ends.
LEMMA SummaryPrefix ==
  ASSUME NEW S \in SUBSET Turns, NEW old \in Snapshots, NEW keep \in Nat \ {0},
         HasWindow(S, old, keep), NEW s \in Summaries(S, old, keep), Prefix(old, S)
  PROVE Prefix(s, S)
<1>1. /\ s.end < Cardinality(S) /\ old.end < s.end
      /\ s.content = old.content \union (First(S, s.end) \ First(S, old.end))
      /\ s.end \in Nat /\ old.end \in Nat /\ Cardinality(S) \in Nat
  BY SummaryTypes, PairsFinite DEF Snapshots
<1>2. First(S, old.end) \subseteq First(S, s.end)
  BY <1>1, FirstGrows
<1> QED
  BY <1>1, <1>2 DEF Prefix

LEMMA CoversTypes ==
  ASSUME NEW S \in SUBSET Turns, NEW s \in Snapshots
  PROVE /\ Covers(S, s) \in SUBSET Turns
        /\ Prefix(s, S) => Covers(S, s) = S
  BY DEF Covers, Prefix, First, Snapshots

LEMMA RecoverableTypes ==
  ASSUME NEW S \in SUBSET Turns, NEW old \in Snapshots, NEW s \in Recoverable(S, old)
  PROVE /\ s \in Snapshots
        /\ Prefix(old, S) => Prefix(s, S)
<1>1. RecoveryPairs \in Nat \ {0}
  BY ConversationAssumption
<1>2. CASE HasWindow(S, old, RecoveryPairs)
  BY <1>1, <1>2, SummaryTypes, SummaryPrefix DEF Recoverable
<1>3. CASE ~HasWindow(S, old, RecoveryPairs)
  BY <1>3 DEF Recoverable
<1> QED
  BY <1>2, <1>3

-----------------------------------------------------------------------------
(***************************************************************************)
(* The types of the requests and of the compaction.                        *)
(***************************************************************************)
Questions ==
  [gen : Nat, turn : Turns, turns : Nat \ {0}, since : Nat, prompt : Prompts, known : SUBSET Turns,
   malformed : BOOLEAN, phase : {"stream", "seed", "rebuild"}, base : Chains, retry : BOOLEAN]
Compactions ==
  [gen : Nat, turns : Nat, from : Chains, at : Nat, pairs : SUBSET Turns, old : Snapshots,
   prompt : Prompts]
WorkTypes ==
  /\ req = None \/ req \in Questions
  /\ task = None \/ (task \in Compactions /\ HasWindow(task.pairs, task.old, RecentPairs))
  /\ speaking = None \/ speaking \in [turn : Turns, since : Nat]
AllTypes == ConversationTypes /\ WorkTypes

USE DEF context, chain

LEMMA EmptyIsSnapshot == Empty \in Snapshots /\ \A S \in SUBSET Turns : Prefix(Empty, S)
<1>1. Empty \in Snapshots /\ Empty.end = 0 /\ Empty.content = {}
  BY DEF Empty, Snapshots
<1> QED
  BY <1>1, PairsFinite, FirstNone DEF Prefix

\* A chain that the server is told about again.
LEMMA SeedTypes ==
  ASSUME AllTypes, req # None, NEW snapshot \in Recoverable(req.known, memory)
  PROVE /\ snapshot \in Snapshots
        /\ Seed(snapshot) \in Responses /\ Seed(snapshot) # None
        /\ Prefix(memory, req.known) => /\ Prefix(snapshot, req.known)
                                        /\ Seed(snapshot).covers = req.known
<1>1. req \in Questions /\ memory \in Snapshots
  BY DEF AllTypes, WorkTypes, ConversationTypes, Snapshots
<1>2. req.known \in SUBSET Turns /\ req.gen \in Nat
  BY <1>1 DEF Questions
<1>3. snapshot \in Snapshots /\ (Prefix(memory, req.known) => Prefix(snapshot, req.known))
  BY <1>1, <1>2, RecoverableTypes
<1>4. /\ Covers(req.known, snapshot) \in SUBSET Turns
      /\ Prefix(snapshot, req.known) => Covers(req.known, snapshot) = req.known
  BY <1>2, <1>3, CoversTypes
<1>5. Seed(snapshot) \in Responses
  BY <1>2, <1>4 DEF Seed, Responses
<1>6. Seed(snapshot) # None
  BY <1>5, ConversationAssumption
<1>7. Seed(snapshot).covers = Covers(req.known, snapshot)
  BY DEF Seed
<1> QED
  BY <1>3, <1>4, <1>5, <1>6, <1>7

LEMMA CoveredTypes ==
  ASSUME AllTypes, req # None PROVE CoveredBefore \in SUBSET Turns
<1>1. req.base \in Chains
  BY DEF AllTypes, WorkTypes, Questions
<1> QED
  BY <1>1 DEF CoveredBefore, Chains, Responses

\* A failure that the bound allows.
LEMMA SpendTypes == ASSUME AllTypes, Spend PROVE faults' \in 0 .. MaxFaults
  BY ConversationAssumption DEF AllTypes, ConversationTypes, Spend

LEMMA InitTypes == ConversationInit => AllTypes
<1> SUFFICES ASSUME ConversationInit PROVE AllTypes
  OBVIOUS
<1>1. 0 \in 0 .. 0 /\ 0 \in 0 .. MaxAsked /\ 0 \in 0 .. MaxClears /\ 0 \in 0 .. MaxFaults
  BY ConversationAssumption
<1>3. ConversationTypes
  BY <1>1, EmptyIsSnapshot DEF ConversationInit, ConversationTypes, Chains, Snapshots
<1>2. WorkTypes
  BY DEF ConversationInit, WorkTypes
<1> QED
  BY <1>2, <1>3 DEF AllTypes

LEMMA AskTypes == ASSUME AllTypes, Ask PROVE AllTypes'
<1> DEFINE turns == asked' - since
           reset == previous # None /\ OtherConversation(turns)
           gen == generation + (IF reset THEN 2 ELSE 1)
<1>1. /\ since \in Nat /\ asked \in Nat /\ since <= asked /\ asked' = asked + 1 /\ asked' \in Turns
      /\ asked < MaxAsked /\ MaxAsked \in Nat /\ generation \in Nat /\ answered \in SUBSET Turns
      /\ stray \in BOOLEAN /\ prompt \in Prompts /\ previous \in Chains
  BY ConversationAssumption DEF AllTypes, ConversationTypes, Ask, Turns
<1>2. gen \in Nat /\ turns \in Nat \ {0} /\ generation' = gen
  BY <1>1 DEF Ask
<1>3. \/ UNCHANGED <<chain, memory, task>>
      \/ Forget
  BY DEF Ask
<1>4. ConversationTypes'
  BY <1>1, <1>2, <1>3, EmptyIsSnapshot DEF Ask, Forget, AllTypes, ConversationTypes, Chains,
    Snapshots
<1> HIDE DEF gen, turns
<1>5. \A stage \in {"stream", "seed"}, base \in {previous, None} :
        Request(gen, turns, stage, base) \in Questions
  BY <1>1, <1>2 DEF Request, Questions, Chains
<1>6. req' = None \/ req' \in Questions
  BY <1>5 DEF Ask, gen, turns
<1>7. WorkTypes'
  BY <1>3, <1>6 DEF Ask, Forget, AllTypes, WorkTypes
<1> QED
  BY <1>4, <1>7 DEF AllTypes

LEMMA RecoveredTypes == ASSUME AllTypes, Recovered PROVE AllTypes'
<1>1. PICK snapshot \in Recoverable(req.known, memory) :
        /\ memory' = snapshot
        /\ req' = [req EXCEPT !.phase = "stream", !.base = Seed(snapshot)]
        /\ IF req.phase = "seed"
           THEN previous' = Seed(snapshot) /\ told' = req.prompt /\ completed' = req.turns - 1
           ELSE UNCHANGED chain
  BY DEF Recovered
<1>2. req # None /\ snapshot \in Snapshots /\ Seed(snapshot) \in Chains
  BY SeedTypes DEF Recovered, Chains
<1>3. req \in Questions
  BY <1>2 DEF AllTypes, WorkTypes
<1>4. req' \in Questions
  BY <1>1, <1>2, <1>3 DEF Questions
<1>5. req.prompt \in Prompts /\ req.turns - 1 \in Nat
  BY <1>3 DEF Questions
<1>6. ConversationTypes'
  BY <1>1, <1>2, <1>5 DEF Recovered, AllTypes, ConversationTypes, Snapshots
<1>7. WorkTypes'
  BY <1>4 DEF Recovered, AllTypes, WorkTypes
<1> QED
  BY <1>6, <1>7 DEF AllTypes

\* A refused request is given up, goes on without a chain when nothing was answered, or has
\* its chain rebuilt.
LEMMA RefusedRequest ==
  ASSUME AllTypes, Refused
  PROVE /\ req # None /\ req \in Questions
        /\ req' # None => /\ req' \in Questions
                          /\ req'.known = req.known /\ req'.since = req.since
                          /\ req'.turn = req.turn /\ req'.gen = req.gen
                          /\ req'.phase = "stream" => req'.base = None /\ req'.known = {}
<1>1. req # None /\ req \in Questions
  BY DEF AllTypes, WorkTypes, Refused, Streaming
<1>2. \/ req' = None
      \/ req.known = {} /\ req' = [req EXCEPT !.base = None, !.retry = FALSE]
      \/ req' = [req EXCEPT !.phase = "rebuild", !.retry = FALSE]
  BY DEF Refused
<1>3. CASE req' = [req EXCEPT !.base = None, !.retry = FALSE] /\ req.known = {}
  BY <1>1, <1>3 DEF Questions, Chains
<1>4. CASE req' = [req EXCEPT !.phase = "rebuild", !.retry = FALSE]
  BY <1>1, <1>4 DEF Questions
<1> QED
  BY <1>1, <1>2, <1>3, <1>4

LEMMA RefusedTypes == ASSUME AllTypes, Refused \/ ReadTimeout PROVE AllTypes'
<1>2. CASE Refused
  <2>1. req' = None \/ req' \in Questions
    BY <1>2, RefusedRequest
  <2>2. ConversationTypes'
    BY <1>2, SpendTypes DEF Refused, AllTypes, ConversationTypes, Chains
  <2>3. WorkTypes'
    BY <1>2, <2>1 DEF Refused, AllTypes, WorkTypes
  <2> QED
    BY <2>2, <2>3 DEF AllTypes
<1>3. CASE ReadTimeout
  <2>1. ConversationTypes'
    <3>1. generation' \in Nat /\ faults' \in 0 .. MaxFaults
      BY <1>3, SpendTypes DEF ReadTimeout, AllTypes, ConversationTypes
    <3> QED
      BY <1>3, <3>1, EmptyIsSnapshot DEF ReadTimeout, Forget, AllTypes, ConversationTypes, Chains,
        Snapshots
  <2>2. WorkTypes'
    BY <1>3 DEF ReadTimeout, Forget, AllTypes, WorkTypes
  <2> QED
    BY <2>1, <2>2 DEF AllTypes
<1> QED
  BY <1>2, <1>3

LEMMA EndsTypes == ASSUME AllTypes, StreamEnds PROVE AllTypes'
<1>1. req # None /\ req \in Questions
  BY DEF AllTypes, WorkTypes, StreamEnds, Streaming
<1>2. /\ req.gen \in Nat /\ req.turn \in Turns /\ req.turns \in Nat /\ req.since \in Nat
      /\ req.prompt \in Prompts /\ req.known \in SUBSET Turns
  BY <1>1 DEF Questions
<1>3. CoveredBefore \in SUBSET Turns
  BY <1>1, CoveredTypes
<1>4. previous' \in Chains /\ told' \in Prompts \union {None} /\ completed' \in Nat
  BY <1>2, <1>3 DEF StreamEnds, Commit, AllTypes, ConversationTypes, Chains, Responses
<1>5. ConversationTypes'
  BY <1>4 DEF StreamEnds, AllTypes, ConversationTypes
<1>6. UNCHANGED task \/ Schedule(req.known \union {req.turn})
  BY DEF StreamEnds, Commit
<1>7. task' = None \/ (task' \in Compactions /\ HasWindow(task'.pairs, task'.old, RecentPairs))
  <2> DEFINE pairs == req.known \union {req.turn}
  <2>1. CASE UNCHANGED task
    BY <2>1 DEF AllTypes, WorkTypes
  <2>2. CASE ~UNCHANGED task
    <3>1. /\ HasWindow(pairs, memory, RecentPairs)
          /\ task' = [gen |-> req.gen, turns |-> Cardinality(pairs), from |-> previous',
                      at |-> completed', pairs |-> pairs, old |-> memory, prompt |-> req.prompt]
      BY <1>6, <2>2 DEF Schedule
    <3>2. pairs \in SUBSET Turns
      BY <1>2
    <3>3. Cardinality(pairs) \in Nat /\ memory \in Snapshots
      BY <3>2, PairsFinite DEF AllTypes, ConversationTypes, Snapshots
    <3> HIDE DEF pairs
    <3>4. task' \in Compactions
      BY <1>2, <1>4, <3>1, <3>2, <3>3 DEF Compactions
    <3> QED
      BY <3>1, <3>4
  <2> QED
    BY <2>1, <2>2
<1>8. speaking' \in [turn : Turns, since : Nat]
  BY <1>2 DEF StreamEnds
<1>9. WorkTypes'
  BY <1>7, <1>8 DEF StreamEnds, WorkTypes
<1> QED
  BY <1>5, <1>9 DEF AllTypes

\* What a compaction finds.
LEMMA ReplaceTypes ==
  ASSUME AllTypes, task # None, NEW snapshot \in Summaries(task.pairs, task.old, RecentPairs),
         Replace(snapshot)
  PROVE /\ snapshot \in Snapshots /\ previous' \in Responses /\ previous' # None
        /\ previous'.covers = Covers(task.pairs, snapshot)
        /\ told' \in Prompts
<1>1. task \in Compactions /\ HasWindow(task.pairs, task.old, RecentPairs)
      /\ RecentPairs \in Nat \ {0}
  BY ConversationAssumption DEF AllTypes, WorkTypes
<1>2. /\ task.pairs \in SUBSET Turns /\ task.old \in Snapshots /\ task.gen \in Nat
      /\ task.prompt \in Prompts
  BY <1>1 DEF Compactions
<1>3. snapshot \in Snapshots
  BY <1>1, <1>2, SummaryTypes
<1>4. Covers(task.pairs, snapshot) \in SUBSET Turns
  BY <1>2, <1>3, CoversTypes
<1>5. previous' \in Responses /\ previous'.covers = Covers(task.pairs, snapshot)
  BY <1>2, <1>4 DEF Replace, Responses
<1> QED
  BY <1>2, <1>3, <1>5, ConversationAssumption DEF Replace

LEMMA CompactionTypes == ASSUME AllTypes, CompactionEnds PROVE AllTypes'
<1>1. /\ previous' \in Chains /\ told' \in Prompts \union {None} /\ completed' \in Nat
      /\ memory' \in Snapshots
  <2>1. CASE UNCHANGED <<chain, memory>>
    BY <2>1 DEF AllTypes, ConversationTypes, Snapshots
  <2>2. CASE ~UNCHANGED <<chain, memory>>
    <3>1. PICK snapshot \in Summaries(task.pairs, task.old, RecentPairs) : Replace(snapshot)
      BY <2>2 DEF CompactionEnds
    <3>2. task # None
      BY DEF CompactionEnds
    <3> QED
      BY <3>1, <3>2, ReplaceTypes DEF Replace, AllTypes, ConversationTypes, Chains
  <2> QED
    BY <2>1, <2>2
<1>2. ConversationTypes'
  BY <1>1 DEF CompactionEnds, AllTypes, ConversationTypes, Snapshots
<1>3. WorkTypes'
  BY DEF CompactionEnds, AllTypes, WorkTypes
<1> QED
  BY <1>2, <1>3 DEF AllTypes

LEMMA TypesKept == ASSUME AllTypes, [ConversationNext]_conversationVars PROVE AllTypes'
<1>1. CASE RecoveryFails \/ StreamFails
  BY <1>1, SpendTypes DEF RecoveryFails, StreamFails, AllTypes, ConversationTypes, WorkTypes
<1>2. CASE Heard
  <2>1. speaking.turn \in Turns
    BY <1>2 DEF Heard, AllTypes, WorkTypes
  <2>2. answered' \in SUBSET Turns /\ stray' \in BOOLEAN
    BY <1>2, <2>1 DEF Heard, AllTypes, ConversationTypes
  <2> QED
    BY <1>2, <2>2 DEF Heard, AllTypes, ConversationTypes, WorkTypes
<1>3. CASE Interrupted \/ CloseNative
  BY <1>3 DEF Interrupted, CloseNative, AllTypes, ConversationTypes, WorkTypes
<1>4. CASE ClearContext
  BY <1>4, ConversationAssumption, EmptyIsSnapshot DEF ClearContext, Forget, AllTypes,
    ConversationTypes, WorkTypes, Snapshots, Chains
<1>5. CASE ContextReplaced
  <2>1. since' \in 0 .. asked' /\ asked' \in 0 .. MaxAsked
    BY <1>5, ConversationAssumption DEF ContextReplaced, AllTypes, ConversationTypes
  <2>2. prompt' \in Prompts
    BY <1>5 DEF ContextReplaced, AllTypes, ConversationTypes
  <2> QED
    BY <1>5, <2>1, <2>2 DEF ContextReplaced, AllTypes, ConversationTypes, WorkTypes
<1>6. CASE UNCHANGED conversationVars
  BY <1>6 DEF conversationVars, AllTypes, ConversationTypes, WorkTypes
<1> QED
  BY <1>1, <1>2, <1>3, <1>4, <1>5, <1>6, AskTypes, RecoveredTypes, RefusedTypes, EndsTypes,
    CompactionTypes DEF ConversationNext

-----------------------------------------------------------------------------
(***************************************************************************)
(* One question at a time, and the compaction between two of them.         *)
(***************************************************************************)
\* The last question is the one that is worked on or spoken, and no answer to it was heard.
OneTurn ==
  /\ answered \subseteq (since + 1) .. asked
  /\ req = None \/ speaking = None
  /\ req # None => /\ req.turn = asked /\ req.since < asked /\ req.since <= since
                   /\ asked \notin answered
                   /\ req.known \subseteq (req.since + 1) .. (asked - 1)
  /\ speaking # None => /\ speaking.turn = asked /\ speaking.since < asked
                        /\ speaking.since <= since /\ asked \notin answered

\* A request takes a generation of its own, so a compaction that was scheduled before it
\* has an older one.
Dated ==
  /\ req # None => req.gen <= generation
  /\ task # None => task.gen <= generation
  /\ task # None /\ req # None /\ req.gen = generation => task.gen < generation

\* What a new request is made of.
LEMMA Asked ==
  ASSUME AllTypes, Ask
  PROVE LET turns == asked' - since
            reset == previous # None /\ OtherConversation(turns)
        IN /\ since \in Nat /\ asked \in Nat /\ since <= asked /\ asked' = asked + 1
           /\ generation \in Nat /\ generation' \in Nat /\ generation < generation'
           /\ req = None /\ speaking = None /\ speaking' = None
           /\ UNCHANGED <<since, answered, clearing>>
           /\ IF reset THEN Forget ELSE UNCHANGED <<chain, memory, task>>
           /\ slipped' = ((slipped /\ ~reset) \/ clearing # None)
           /\ req' # None =>
                /\ req'.gen = generation' /\ req'.turn = asked' /\ req'.since = since
                /\ req'.known = answered
                /\ req'.phase = "stream" =>
                     \/ ~reset /\ previous # None /\ req'.base = previous
                     \/ req'.base = None /\ (turns = 1 \/ answered = {})
<1> DEFINE turns == asked' - since
           reset == previous # None /\ OtherConversation(turns)
           gen == generation + (IF reset THEN 2 ELSE 1)
<1>1. since \in Nat /\ asked \in Nat /\ since <= asked /\ generation \in Nat
  BY ConversationAssumption DEF AllTypes, ConversationTypes
<1>2. /\ asked' = asked + 1 /\ generation' = gen
      /\ req = None /\ speaking = None /\ speaking' = None
      /\ UNCHANGED <<since, answered, clearing>>
      /\ IF reset THEN Forget ELSE UNCHANGED <<chain, memory, task>>
      /\ slipped' = ((slipped /\ ~reset) \/ clearing # None)
  BY DEF Ask
<1>3. gen \in Nat /\ generation < gen
  BY <1>1
<1>4. ASSUME NEW stage, NEW base
      PROVE /\ Request(gen, turns, stage, base).gen = gen
            /\ Request(gen, turns, stage, base).turn = asked'
            /\ Request(gen, turns, stage, base).since = since
            /\ Request(gen, turns, stage, base).known = answered
            /\ Request(gen, turns, stage, base).phase = stage
            /\ Request(gen, turns, stage, base).base = base
  BY DEF Request
<1>5. \/ req' = None
      \/ ~reset /\ previous # None /\ req' = Request(gen, turns, "stream", previous)
      \/ (turns = 1 \/ answered = {}) /\ req' = Request(gen, turns, "stream", None)
      \/ req' = Request(gen, turns, "seed", None)
  BY DEF Ask
<1> HIDE DEF gen, turns, reset
<1>6. req' # None =>
        /\ req'.gen = gen /\ req'.turn = asked' /\ req'.since = since /\ req'.known = answered
        /\ req'.phase = "stream" =>
             \/ ~reset /\ previous # None /\ req'.base = previous
             \/ req'.base = None /\ (turns = 1 \/ answered = {})
  BY <1>4, <1>5
<1> QED
  BY <1>1, <1>2, <1>3, <1>6 DEF gen, turns, reset

LEMMA OneTurnStep ==
  ASSUME AllTypes, OneTurn, [ConversationNext]_conversationVars PROVE OneTurn'
<1>1. /\ since \in Nat /\ asked \in Nat /\ since <= asked
  BY ConversationAssumption DEF AllTypes, ConversationTypes
<1>2. CASE Ask
  <2>1. /\ asked' = asked + 1 /\ speaking' = None /\ since' = since /\ answered' = answered
        /\ req' # None => req'.turn = asked' /\ req'.since = since /\ req'.known = answered
    BY <1>2, Asked
  <2>2. answered \subseteq (since + 1) .. asked
    BY DEF OneTurn
  <2>3. asked' \notin answered /\ since < asked' /\ answered \subseteq (since + 1) .. asked'
        /\ asked' - 1 = asked
    BY <1>1, <2>1, <2>2
  <2>4. req' # None => /\ req'.turn = asked' /\ req'.since < asked' /\ req'.since <= since'
                       /\ asked' \notin answered'
                       /\ req'.known \subseteq (req'.since + 1) .. (asked' - 1)
    <3> SUFFICES ASSUME req' # None
                 PROVE /\ req'.turn = asked' /\ req'.since < asked' /\ req'.since <= since'
                       /\ asked' \notin answered'
                       /\ req'.known \subseteq (req'.since + 1) .. (asked' - 1)
      OBVIOUS
    <3>1. req'.turn = asked' /\ req'.since = since /\ req'.known = answered
      BY <2>1
    <3>2. since <= since
      BY <1>1
    <3>3. (req'.since + 1) .. (asked' - 1) = (since + 1) .. asked
      BY <2>3, <3>1
    <3> QED
      BY <2>1, <2>2, <2>3, <3>1, <3>2, <3>3
  <2> QED
    BY <2>1, <2>3, <2>4 DEF OneTurn
<1>3. CASE Recovered
  <2>1. /\ req # None /\ req \in Questions /\ UNCHANGED <<since, asked, answered, speaking>>
        /\ \E b : req' = [req EXCEPT !.phase = "stream", !.base = b]
    BY <1>3 DEF Recovered, AllTypes, WorkTypes
  <2>2. req'.turn = req.turn /\ req'.since = req.since /\ req'.known = req.known
    BY <2>1 DEF Questions
  <2> QED
    BY <2>1, <2>2 DEF OneTurn
<1>4. CASE Refused
  <2>1. req # None /\ UNCHANGED <<since, asked, answered, speaking>>
    BY <1>4, RefusedRequest DEF Refused
  <2>2. req' # None => req'.turn = req.turn /\ req'.since = req.since /\ req'.known = req.known
    BY <1>4, RefusedRequest
  <2> QED
    BY <2>1, <2>2 DEF OneTurn
<1>5. CASE StreamEnds
  <2>1. /\ req # None /\ req' = None /\ speaking' = [turn |-> req.turn, since |-> req.since]
        /\ UNCHANGED <<since, asked, answered>>
    BY <1>5 DEF StreamEnds, Streaming
  <2>2. speaking'.turn = req.turn /\ speaking'.since = req.since
    BY <2>1
  <2> QED
    BY <2>1, <2>2 DEF OneTurn
<1>6. CASE Heard
  <2>1. /\ req' = None /\ speaking' = None /\ UNCHANGED <<since, asked>>
        /\ answered' = answered \/ (speaking.since = since /\ answered' = answered \union {asked})
    BY <1>6 DEF Heard, OneTurn
  <2>2. speaking.since < asked
    BY <1>6 DEF Heard, OneTurn
  <2>3. answered' \subseteq (since + 1) .. asked
    <3>1. speaking.since = since => asked \in (since + 1) .. asked
      BY <1>1, <2>2
    <3> QED
      BY <2>1, <3>1 DEF OneTurn
  <2> QED
    BY <2>1, <2>3 DEF OneTurn
<1>7. CASE ContextReplaced
  <2>1. since' = asked /\ answered' = {} /\ UNCHANGED <<asked, req, speaking>>
    BY <1>7 DEF ContextReplaced
  <2>2. (req # None => req.since <= asked) /\ (speaking # None => speaking.since <= asked)
    <3>1. (req # None => req.since < asked /\ req.since \in Nat)
          /\ (speaking # None => speaking.since < asked /\ speaking.since \in Nat)
      BY DEF OneTurn, AllTypes, WorkTypes, Questions
    <3> QED
      BY <1>1, <3>1
  <2> QED
    BY <2>1, <2>2 DEF OneTurn
<1>8. CASE RecoveryFails \/ StreamFails \/ ReadTimeout \/ CompactionEnds \/ Interrupted
           \/ ClearContext \/ CloseNative \/ UNCHANGED conversationVars
  <2>1. /\ UNCHANGED <<since, asked, answered>> /\ req' \in {req, None}
        /\ speaking' \in {speaking, None}
    BY <1>8 DEF RecoveryFails, StreamFails, ReadTimeout, CompactionEnds, Interrupted, ClearContext,
      CloseNative, conversationVars
  <2> QED
    BY <2>1 DEF OneTurn
<1> QED
  BY <1>2, <1>3, <1>4, <1>5, <1>6, <1>7, <1>8 DEF ConversationNext

LEMMA DatedStep ==
  ASSUME AllTypes, Dated, [ConversationNext]_conversationVars PROVE Dated'
<1>1. generation \in Nat
  BY DEF AllTypes, ConversationTypes
<1>2. (task # None => task.gen \in Nat) /\ (req # None => req.gen \in Nat)
  BY DEF AllTypes, WorkTypes, Questions, Compactions
<1>3. CASE Ask
  <2>1. /\ generation' \in Nat /\ generation < generation'
        /\ req' # None => req'.gen = generation'
        /\ task' \in {None, task}
    BY <1>3, Asked DEF Forget
  <2>2. task' # None => task'.gen < generation'
    BY <1>1, <1>2, <2>1 DEF Dated
  <2> QED
    BY <1>1, <1>2, <2>1, <2>2 DEF Dated
<1>4. CASE Recovered \/ Refused
  <2>1. req # None /\ req \in Questions /\ UNCHANGED <<task, generation>>
    BY <1>4 DEF Recovered, Refused, Streaming, AllTypes, WorkTypes
  <2>2. req' # None => req'.gen = req.gen
    BY <1>4, <2>1, RefusedRequest DEF Recovered, Questions
  <2> QED
    BY <2>1, <2>2 DEF Dated
<1>5. CASE StreamEnds
  <2>1. req # None /\ req' = None /\ generation' = generation
    BY <1>5 DEF StreamEnds, Streaming
  <2>2. task' = task \/ task'.gen = req.gen
    BY <1>5 DEF StreamEnds, Commit, Schedule
  <2> QED
    BY <2>1, <2>2 DEF Dated
<1>6. CASE ReadTimeout \/ ClearContext
  <2>1. \/ task' = None /\ generation' = generation + 1
        \/ task' = task /\ req' = None /\ generation' = generation
    BY <1>6 DEF ReadTimeout, ClearContext, Forget
  <2>2. req' \in {req, None}
    BY <1>6 DEF ReadTimeout, ClearContext
  <2> QED
    BY <1>1, <1>2, <2>1, <2>2 DEF Dated
<1>7. CASE RecoveryFails \/ StreamFails \/ CompactionEnds \/ Heard \/ Interrupted
           \/ ContextReplaced \/ CloseNative \/ UNCHANGED conversationVars
  <2>1. generation' = generation /\ req' \in {req, None} /\ task' \in {task, None}
    BY <1>7 DEF RecoveryFails, StreamFails, CompactionEnds, Heard, Interrupted, ContextReplaced,
      CloseNative, conversationVars
  <2> QED
    BY <2>1 DEF Dated
<1> QED
  BY <1>3, <1>4, <1>5, <1>6, <1>7 DEF ConversationNext

\* A step that lets a compaction replace the chain.
LEMMA ReplacesBetween ==
  ASSUME AllTypes, Dated, [ConversationNext]_conversationVars
  PROVE previous' # previous /\ previous' # None /\ previous'.by = "compaction" =>
          ~(req # None /\ req.gen = generation)
<1> SUFFICES ASSUME previous' # previous, previous' # None, previous'.by = "compaction"
             PROVE ~(req # None /\ req.gen = generation)
  OBVIOUS
<1>1. ~StreamEnds
  BY DEF StreamEnds, Commit
<1>2. ~Recovered
  <2> SUFFICES ASSUME Recovered PROVE FALSE
    OBVIOUS
  <2>1. \E snapshot : previous' = Seed(snapshot)
    BY DEF Recovered
  <2> QED
    BY <2>1 DEF Seed
<1>3. CompactionEnds
  BY <1>1, <1>2 DEF ConversationNext, Ask, Forget, RecoveryFails, Refused, StreamFails, ReadTimeout,
    Heard, Interrupted, ClearContext, ContextReplaced, CloseNative, conversationVars
<1>4. task # None /\ StillCurrent
  BY <1>3 DEF CompactionEnds
<1>5. generation \in Nat
  BY DEF AllTypes, ConversationTypes
<1> QED
  BY <1>4, <1>5 DEF StillCurrent, Dated

-----------------------------------------------------------------------------
(***************************************************************************)
(* What is remembered of the conversation, while no turn slips in before a *)
(* cleared context arrives.                                                *)
(***************************************************************************)
Cleared == clearing # None /\ ~slipped => previous = None /\ memory = Empty /\ task = None

\* A request of the present generation knows the context there is; an older one belongs to
\* a context that is being replaced or was.
Fresh ==
  req # None /\ ~slipped =>
    IF req.gen = generation
    THEN clearing = None /\ req.since = since /\ req.known = answered
    ELSE clearing # None \/ req.since # since

Remembered == ~slipped /\ clearing = None => Prefix(memory, answered)

\* The chain covers what was heard, and the answer that is being spoken.
Told ==
  ~slipped /\ clearing = None /\ previous # None =>
    /\ answered \subseteq previous.covers /\ previous.covers \subseteq (since + 1) .. asked
    /\ speaking # None /\ speaking.since = since => asked \in previous.covers

Known ==
  Streaming /\ ~slipped =>
    /\ req.known \subseteq CoveredBefore
    /\ CoveredBefore \subseteq (req.since + 1) .. (req.turn - 1)

\* A compaction that is not too late knows every answer that can have been heard.
Compacted ==
  task # None /\ ~slipped /\ task.gen = generation =>
    /\ clearing = None /\ req = None
    /\ task.pairs \subseteq (since + 1) .. asked /\ asked \in task.pairs
    /\ answered \in {task.pairs, task.pairs \ {asked}}
    /\ speaking # None => speaking.since = since
    /\ Prefix(task.old, task.pairs \ {asked})

Recall == Cleared /\ Fresh /\ Remembered /\ Told /\ Known /\ Compacted
Bound == AllTypes /\ OneTurn /\ Dated /\ Recall

LEMMA Numbers ==
  ASSUME AllTypes
  PROVE /\ since \in Nat /\ asked \in Nat /\ since <= asked /\ generation \in Nat
        /\ answered \in SUBSET Turns /\ memory \in Snapshots
        /\ req # None => req \in Questions
        /\ task # None => task \in Compactions
  BY ConversationAssumption DEF AllTypes, ConversationTypes, WorkTypes, Snapshots

LEMMA AskRecalls == ASSUME Bound, Ask PROVE Recall'
<1> DEFINE turns == asked' - since
           reset == previous # None /\ OtherConversation(turns)
<1>1. /\ since \in Nat /\ asked \in Nat /\ since <= asked /\ asked' = asked + 1
      /\ generation \in Nat /\ generation' \in Nat /\ generation < generation'
      /\ req = None /\ speaking = None /\ speaking' = None
      /\ UNCHANGED <<since, answered, clearing>>
      /\ IF reset THEN Forget ELSE UNCHANGED <<chain, memory, task>>
      /\ slipped' = ((slipped /\ ~reset) \/ clearing # None)
      /\ req' # None =>
           /\ req'.gen = generation' /\ req'.turn = asked' /\ req'.since = since
           /\ req'.known = answered
           /\ req'.phase = "stream" =>
                \/ ~reset /\ previous # None /\ req'.base = previous
                \/ req'.base = None /\ (turns = 1 \/ answered = {})
  BY Asked DEF Bound
<1> HIDE DEF reset
<1>2. SUFFICES ASSUME ~slipped', clearing = None PROVE Recall'
  <2>1. CASE slipped'
    BY <2>1 DEF Recall, Cleared, Fresh, Remembered, Told, Known, Compacted
  <2>2. CASE ~slipped'
    BY <1>1, <2>2
  <2> QED
    BY <2>1, <2>2
<1>3. reset \/ ~slipped
  BY <1>1, <1>2
<1>4. clearing' = None
  BY <1>1, <1>2
<1>5. Cleared' /\ Fresh'
  BY <1>1, <1>4 DEF Cleared, Fresh
<1>6. Remembered'
  <2>1. CASE reset
    BY <1>1, <2>1, EmptyIsSnapshot, Numbers DEF Bound, Forget, Remembered, Prefix
  <2>2. CASE ~reset
    <3>1. memory' = memory /\ answered' = answered /\ ~slipped
      BY <1>1, <1>3, <2>2
    <3> QED
      BY <1>2, <3>1 DEF Bound, Recall, Remembered, Prefix
  <2> QED
    BY <2>1, <2>2
<1>7. ~reset => /\ ~slipped
                /\ previous # None => /\ answered \subseteq previous.covers
                                      /\ previous.covers \subseteq (since + 1) .. asked
  BY <1>2, <1>3 DEF Bound, Recall, Told
<1>8. (since + 1) .. asked \subseteq (since + 1) .. asked' /\ asked' - 1 = asked
  BY <1>1
<1>9. Told'
  <2>1. previous' = None \/ (~reset /\ previous' = previous)
    BY <1>1 DEF Forget
  <2> QED
    BY <1>1, <1>7, <1>8, <2>1 DEF Told
<1>10. Known'
  <2> SUFFICES ASSUME Streaming'
               PROVE /\ req'.known \subseteq CoveredBefore'
                     /\ CoveredBefore' \subseteq (req'.since + 1) .. (req'.turn - 1)
    BY DEF Known
  <2>1. req' # None /\ req'.phase = "stream"
    BY DEF Streaming
  <2>2. req'.known = answered /\ (req'.since + 1) .. (req'.turn - 1) = (since + 1) .. asked
    BY <1>1, <1>8, <2>1
  <2>3. CASE ~reset /\ previous # None /\ req'.base = previous
    BY <1>7, <2>2, <2>3 DEF CoveredBefore
  <2>4. CASE req'.base = None /\ (turns = 1 \/ answered = {})
    <3>1. turns = 1 => asked = since
      BY <1>1
    <3>2. answered \subseteq (since + 1) .. asked
      BY DEF Bound, OneTurn
    <3>3. answered = {}
      BY <1>1, <2>4, <3>1, <3>2
    <3> QED
      BY <2>2, <2>4, <3>3 DEF CoveredBefore
  <2> QED
    BY <1>1, <2>1, <2>3, <2>4
<1>11. Compacted'
  <2>1. task' = None \/ task' = task
    BY <1>1 DEF Forget
  <2>2. task # None => task.gen <= generation /\ task.gen \in Nat
    BY Numbers DEF Bound, Dated, Compactions
  <2> QED
    BY <1>1, <2>1, <2>2 DEF Compacted
<1> QED
  BY <1>5, <1>6, <1>9, <1>10, <1>11 DEF Recall

LEMMA RecoveredRecalls == ASSUME Bound, Recovered PROVE Recall'
<1>1. PICK snapshot \in Recoverable(req.known, memory) :
        /\ req.gen = generation /\ memory' = snapshot
        /\ req' = [req EXCEPT !.phase = "stream", !.base = Seed(snapshot)]
        /\ IF req.phase = "seed"
           THEN previous' = Seed(snapshot) /\ told' = req.prompt /\ completed' = req.turns - 1
           ELSE UNCHANGED chain
  BY DEF Recovered, Recovers
<1>2. /\ req # None /\ req \in Questions
      /\ UNCHANGED <<since, asked, answered, clearing, slipped, generation, task, speaking>>
  BY Numbers DEF Recovered, Bound
<1>3. SUFFICES ASSUME ~slipped PROVE Recall'
  BY <1>2 DEF Recall, Cleared, Fresh, Remembered, Told, Known, Compacted
<1>4. clearing = None /\ req.since = since /\ req.known = answered
  BY <1>1, <1>2, <1>3 DEF Bound, Recall, Fresh
<1>5. Prefix(memory, req.known)
  BY <1>3, <1>4 DEF Bound, Recall, Remembered
<1>6. /\ Seed(snapshot) # None /\ Prefix(snapshot, req.known) /\ Seed(snapshot).covers = req.known
  BY <1>2, <1>5, SeedTypes DEF Bound
<1>7. /\ req'.phase = "stream" /\ req'.base = Seed(snapshot) /\ req'.known = req.known
      /\ req'.since = req.since /\ req'.turn = req.turn /\ req'.gen = req.gen
  BY <1>1, <1>2 DEF Questions
<1>8. speaking = None /\ answered \subseteq (since + 1) .. asked
      /\ req.known \subseteq (req.since + 1) .. (req.turn - 1)
  BY <1>2 DEF Bound, OneTurn
<1>9. Cleared' /\ Fresh'
  BY <1>1, <1>2, <1>3, <1>4, <1>7 DEF Cleared, Fresh
<1>10. Remembered'
  BY <1>1, <1>2, <1>4, <1>6 DEF Remembered, Prefix
<1>11. Told'
  BY <1>1, <1>2, <1>3, <1>4, <1>6, <1>8 DEF Bound, Recall, Told
<1>12. Known'
  BY <1>6, <1>7, <1>8 DEF Known, CoveredBefore
<1>13. Compacted'
  BY <1>2, <1>3 DEF Bound, Recall, Compacted
<1> QED
  BY <1>9, <1>10, <1>11, <1>12, <1>13 DEF Recall

LEMMA RefusedRecalls == ASSUME Bound, Refused PROVE Recall'
<1>1. /\ req # None /\ req \in Questions
      /\ UNCHANGED <<since, asked, answered, clearing, slipped, generation, memory, task, speaking>>
      /\ previous' = None \/ previous' = previous
  BY Numbers DEF Refused, Streaming, Bound
<1>2. req' # None => /\ req'.known = req.known /\ req'.since = req.since /\ req'.turn = req.turn
                     /\ req'.gen = req.gen
                     /\ req'.phase = "stream" => req'.base = None /\ req'.known = {}
  BY RefusedRequest DEF Bound
<1>3. Cleared' /\ Remembered' /\ Told'
  BY <1>1 DEF Bound, Recall, Cleared, Remembered, Told, Prefix
<1>4. Fresh'
  BY <1>1, <1>2 DEF Bound, Recall, Fresh
<1>5. Known'
  BY <1>2 DEF Known, Streaming, CoveredBefore
<1>6. Compacted'
  BY <1>1 DEF Bound, Recall, Compacted
<1> QED
  BY <1>3, <1>4, <1>5, <1>6 DEF Recall

LEMMA EndsRecalls == ASSUME Bound, StreamEnds PROVE Recall'
<1>1. /\ Streaming /\ req # None /\ req \in Questions /\ req' = None
      /\ speaking' = [turn |-> req.turn, since |-> req.since]
      /\ UNCHANGED <<since, asked, answered, clearing, slipped, generation, memory>>
  BY Numbers DEF StreamEnds, Streaming, Bound
<1>2. SUFFICES ASSUME ~slipped PROVE Recall'
  BY <1>1 DEF Recall, Cleared, Fresh, Remembered, Told, Known, Compacted
<1>3. speaking'.since = req.since /\ req.turn = asked /\ asked \notin answered /\ asked \in Turns
  BY <1>1 DEF Bound, OneTurn, Questions
<1>4. Fresh' /\ Known' /\ Remembered'
  BY <1>1 DEF Bound, Recall, Fresh, Known, Streaming, Remembered, Prefix
<1>5. CASE ~Current
  <2>1. req.gen # generation /\ UNCHANGED <<previous, task>>
    BY <1>5 DEF StreamEnds, Commit, Current
  <2>2. clearing # None \/ req.since # since
    BY <1>1, <1>2, <2>1 DEF Bound, Recall, Fresh
  <2>3. Told'
    BY <1>1, <1>3, <2>1, <2>2 DEF Bound, Recall, Told
  <2>4. Cleared' /\ Compacted'
    BY <1>1, <2>1 DEF Bound, Recall, Cleared, Compacted
  <2> QED
    BY <1>4, <2>3, <2>4 DEF Recall
<1>6. CASE Current
  <2>1. clearing = None /\ req.since = since /\ req.known = answered /\ req.gen = generation
    BY <1>1, <1>2, <1>6 DEF Bound, Recall, Fresh, Current
  <2>2. /\ previous' = [by |-> "stream", gen |-> req.gen,
                        covers |-> CoveredBefore \union {req.turn}]
        /\ Schedule(req.known \union {req.turn})
    BY <1>6 DEF StreamEnds, Commit
  <2>3. /\ answered \subseteq CoveredBefore
        /\ CoveredBefore \subseteq (since + 1) .. (asked - 1)
    BY <1>1, <1>2, <1>3, <2>1 DEF Bound, Recall, Known
  <2>4. since \in Nat /\ asked \in Nat /\ since < asked
    BY <1>1, <2>1, Numbers DEF Bound, OneTurn
  <2>5. asked \in (since + 1) .. asked /\ (since + 1) .. (asked - 1) \subseteq (since + 1) .. asked
    BY <2>4
  <2>6. previous'.covers = CoveredBefore \union {asked}
    BY <1>3, <2>2
  <2>7. Told'
    BY <1>1, <2>3, <2>5, <2>6 DEF Told
  <2>8. Cleared'
    BY <1>1, <2>1 DEF Cleared
  <2>9. Compacted'
    <3> DEFINE pairs == req.known \union {req.turn}
    <3>1. CASE UNCHANGED task
      BY <1>1, <3>1 DEF Bound, Recall, Compacted
    <3>2. CASE ~UNCHANGED task
      <4>1. task' = [gen |-> req.gen, turns |-> Cardinality(pairs), from |-> previous',
                     at |-> completed', pairs |-> pairs, old |-> memory, prompt |-> req.prompt]
        BY <2>2, <3>2 DEF Schedule
      <4>2. task'.pairs = pairs /\ task'.old = memory
        BY <4>1
      <4>3. pairs = answered \union {asked} /\ pairs \ {asked} = answered
        BY <1>3, <2>1
      <4>4. pairs \subseteq (since + 1) .. asked
        BY <2>3, <2>5, <4>3
      <4>5. Prefix(memory, answered)
        BY <1>2, <2>1 DEF Bound, Recall, Remembered
      <4> HIDE DEF pairs
      <4>6. Prefix(memory, pairs \ {asked})
        BY <4>3, <4>5
      <4>7. Prefix(task'.old, task'.pairs \ {asked'}) /\ answered' = task'.pairs \ {asked'}
        BY <1>1, <4>2, <4>3, <4>6
      <4> QED
        BY <1>1, <1>3, <2>1, <4>2, <4>3, <4>4, <4>7 DEF Compacted, Prefix
    <3> QED
      BY <3>1, <3>2
  <2> QED
    BY <1>4, <2>7, <2>8, <2>9 DEF Recall
<1> QED
  BY <1>5, <1>6

\* The snapshot of a compaction that is in time stands for the first answers heard.
LEMMA CompactedPrefix ==
  ASSUME Bound, task # None, ~slipped, task.gen = generation,
         NEW snapshot \in Summaries(task.pairs, task.old, RecentPairs)
  PROVE /\ Prefix(snapshot, answered) /\ Covers(task.pairs, snapshot) = task.pairs
        /\ snapshot \in Snapshots
<1> DEFINE before == task.pairs \ {asked}
<1>1. /\ task.pairs \subseteq (since + 1) .. asked /\ asked \in task.pairs
      /\ answered \in {task.pairs, before} /\ Prefix(task.old, before)
  BY DEF Bound, Recall, Compacted
<1>2. /\ task \in Compactions /\ HasWindow(task.pairs, task.old, RecentPairs)
      /\ RecentPairs \in Nat \ {0} /\ since \in Nat /\ asked \in Nat
  BY ConversationAssumption, Numbers DEF Bound, AllTypes, WorkTypes
<1>3. task.pairs \in SUBSET Turns /\ task.old \in Snapshots
  BY <1>2 DEF Compactions
<1>4. before \in SUBSET Turns /\ asked \in Turns /\ task.pairs = before \union {asked}
  BY <1>1, <1>3
<1>5. \A p \in before : p < asked
  BY <1>1, <1>2
<1> HIDE DEF before
<1>6. Prefix(task.old, task.pairs)
  BY <1>1, <1>3, <1>4, <1>5, PrefixGrows
<1>7. /\ Prefix(snapshot, task.pairs) /\ snapshot \in Snapshots
      /\ snapshot.end < Cardinality(task.pairs)
  BY <1>2, <1>3, <1>6, SummaryPrefix, SummaryTypes
<1>8. Cardinality(task.pairs) = Cardinality(before) + 1 /\ Cardinality(before) \in Nat
      /\ snapshot.end \in Nat
  <2>1. 0 \in Nat /\ Cardinality(before) \in Nat /\ 0 <= Cardinality(before)
    BY <1>4, PairsFinite
  <2>2. Cardinality(before \union {asked}) = Cardinality(before) + 1
    BY <1>4, <1>5, <2>1, FirstBelow
  <2> QED
    BY <1>4, <1>7, <2>1, <2>2 DEF Snapshots
<1>9. snapshot.end <= Cardinality(before)
  BY <1>7, <1>8
<1>10. Prefix(snapshot, before)
  BY <1>4, <1>5, <1>7, <1>9, PrefixGrows
<1> QED
  BY <1>1, <1>3, <1>7, <1>10, CoversTypes

LEMMA CompactionRecalls == ASSUME Bound, CompactionEnds PROVE Recall'
<1>1. /\ task # None /\ task' = None
      /\ UNCHANGED <<since, asked, answered, clearing, slipped, generation, req, speaking>>
  BY DEF CompactionEnds
<1>2. Fresh' /\ Known' /\ Compacted'
  BY <1>1 DEF Bound, Recall, Fresh, Known, Streaming, CoveredBefore, Compacted
<1>3. CASE UNCHANGED <<chain, memory>>
  BY <1>1, <1>2, <1>3 DEF Bound, Recall, Cleared, Remembered, Told, Prefix
<1>4. CASE ~UNCHANGED <<chain, memory>>
  <2>1. StillCurrent
    BY <1>4 DEF CompactionEnds
  <2>2. PICK snapshot \in Summaries(task.pairs, task.old, RecentPairs) : Replace(snapshot)
    BY <1>4 DEF CompactionEnds
  <2>3. SUFFICES ASSUME ~slipped PROVE Recall'
    BY <1>1 DEF Recall, Cleared, Fresh, Remembered, Told, Known, Compacted
  <2>4. task.gen = generation
    BY <2>1 DEF StillCurrent
  <2>5. /\ clearing = None /\ task.pairs \subseteq (since + 1) .. asked /\ asked \in task.pairs
        /\ answered \subseteq task.pairs
    BY <1>1, <2>3, <2>4 DEF Bound, Recall, Compacted
  <2>6. Prefix(snapshot, answered) /\ Covers(task.pairs, snapshot) = task.pairs
    BY <1>1, <2>3, <2>4, CompactedPrefix
  <2>7. memory' = snapshot /\ previous'.covers = task.pairs
    BY <2>2, <2>6 DEF Replace
  <2>8. Cleared' /\ Remembered' /\ Told'
    BY <1>1, <2>5, <2>6, <2>7 DEF Cleared, Remembered, Told, Prefix
  <2> QED
    BY <1>2, <2>8 DEF Recall
<1> QED
  BY <1>3, <1>4

LEMMA HeardRecalls == ASSUME Bound, Heard PROVE Recall'
<1>1. /\ speaking # None /\ speaking' = None /\ req = None
      /\ UNCHANGED <<since, asked, clearing, slipped, generation, previous, memory, task, req>>
      /\ speaking.turn = asked /\ asked \notin answered
      /\ IF speaking.since = since THEN answered' = answered \union {asked}
                                   ELSE answered' = answered
  BY DEF Bound, OneTurn, Heard
<1>2. Cleared' /\ Fresh' /\ Known'
  BY <1>1 DEF Bound, Recall, Cleared, Fresh, Known, Streaming
<1>3. CASE speaking.since # since
  <2>1. Remembered' /\ Told' /\ Compacted'
    BY <1>1, <1>3 DEF Bound, Recall, Remembered, Told, Compacted, Prefix
  <2> QED
    BY <1>2, <2>1 DEF Recall
<1>4. CASE speaking.since = since
  <2>1. answered' = answered \union {asked}
    BY <1>1, <1>4
  <2>2. /\ answered \in SUBSET Turns /\ asked \in Turns /\ asked \in Nat /\ since \in Nat
        /\ memory \in Snapshots
    BY <1>1, Numbers DEF Bound, AllTypes, WorkTypes
  <2>3. \A p \in answered : p < asked
    BY <1>1, <2>2 DEF Bound, OneTurn
  <2>4. Remembered'
    <3>1. Prefix(memory, answered) => Prefix(memory, answered \union {asked})
      BY <2>2, <2>3, PrefixGrows
    <3> QED
      BY <1>1, <2>1, <3>1 DEF Bound, Recall, Remembered, Prefix
  <2>5. Told'
    BY <1>1, <1>4, <2>1 DEF Bound, Recall, Told
  <2>6. Compacted'
    <3> SUFFICES ASSUME task' # None, ~slipped', task'.gen = generation' PROVE Compacted'
      BY DEF Compacted
    <3>1. /\ clearing = None /\ req = None
          /\ task.pairs \subseteq (since + 1) .. asked /\ asked \in task.pairs
          /\ answered \in {task.pairs, task.pairs \ {asked}}
          /\ Prefix(task.old, task.pairs \ {asked})
      BY <1>1 DEF Bound, Recall, Compacted
    <3>2. answered' = task.pairs
      BY <2>1, <3>1
    <3> QED
      BY <1>1, <3>1, <3>2 DEF Compacted, Prefix
  <2> QED
    BY <1>2, <2>4, <2>5, <2>6 DEF Recall
<1> QED
  BY <1>3, <1>4

LEMMA ClearRecalls == ASSUME Bound, ClearContext \/ ContextReplaced PROVE Recall'
<1>1. CASE ClearContext
  <2>1. /\ clearing' # None /\ previous' = None /\ memory' = Empty /\ task' = None
        /\ generation' = generation + 1 /\ UNCHANGED <<since, slipped, req>>
    BY <1>1, ConversationAssumption DEF ClearContext, Forget
  <2>2. req # None => req.gen # generation'
    <3>1. generation \in Nat /\ (req # None => req.gen \in Nat /\ req.gen <= generation)
      BY Numbers DEF Bound, Dated, Questions
    <3> QED
      BY <2>1, <3>1
  <2>3. Cleared' /\ Fresh' /\ Remembered' /\ Told' /\ Compacted'
    BY <2>1, <2>2 DEF Cleared, Fresh, Remembered, Told, Compacted
  <2>4. Known'
    BY <2>1 DEF Bound, Recall, Known, Streaming, CoveredBefore
  <2> QED
    BY <2>3, <2>4 DEF Recall
<1>2. CASE ContextReplaced
  <2>1. /\ clearing # None /\ clearing' = None /\ since' = asked /\ answered' = {}
        /\ UNCHANGED <<asked, slipped, generation, previous, memory, task, req, speaking>>
    BY <1>2 DEF ContextReplaced
  <2>2. ~slipped => previous = None /\ memory = Empty /\ task = None
    BY <2>1 DEF Bound, Recall, Cleared
  <2>3. req # None => req.since # asked
    <3>1. req # None => req.since \in Nat /\ req.since < asked
      BY Numbers DEF Bound, OneTurn, Questions
    <3> QED
      BY <3>1, Numbers DEF Bound
  <2>4. Fresh'
    BY <2>1, <2>3 DEF Bound, Recall, Fresh
  <2>5. Cleared' /\ Told' /\ Compacted'
    BY <2>1, <2>2 DEF Cleared, Told, Compacted
  <2>6. Remembered'
    <3>1. {} \in SUBSET Turns
      OBVIOUS
    <3> QED
      BY <2>1, <2>2, <3>1, EmptyIsSnapshot DEF Remembered, Prefix
  <2>7. Known'
    BY <2>1 DEF Bound, Recall, Known, Streaming, CoveredBefore
  <2> QED
    BY <2>4, <2>5, <2>6, <2>7 DEF Recall
<1> QED
  BY <1>1, <1>2

LEMMA TimeoutRecalls == ASSUME Bound, ReadTimeout PROVE Recall'
<1>1. /\ req' = None /\ UNCHANGED <<since, asked, answered, clearing, slipped, speaking>>
      /\ \/ previous' = None /\ memory' = Empty /\ task' = None
         \/ UNCHANGED <<generation, previous, memory, task>>
  BY DEF ReadTimeout, Forget
<1>2. Fresh' /\ Known'
  BY <1>1 DEF Fresh, Known, Streaming
<1>3. Cleared' /\ Told' /\ Compacted'
  BY <1>1 DEF Bound, Recall, Cleared, Told, Compacted
<1>4. Remembered'
  <2>1. Prefix(Empty, answered)
    BY EmptyIsSnapshot, Numbers DEF Bound
  <2> QED
    BY <1>1, <2>1 DEF Bound, Recall, Remembered, Prefix
<1> QED
  BY <1>2, <1>3, <1>4 DEF Recall

LEMMA BoundStep == Bound /\ [ConversationNext]_conversationVars => Bound'
<1> SUFFICES ASSUME Bound, [ConversationNext]_conversationVars PROVE Bound'
  OBVIOUS
<1>1. CASE RecoveryFails \/ StreamFails \/ Interrupted \/ CloseNative
           \/ UNCHANGED conversationVars
  <2>1. /\ UNCHANGED <<since, asked, answered, clearing, slipped, generation, previous, memory>>
        /\ req' \in {req, None} /\ task' \in {task, None} /\ speaking' \in {speaking, None}
    BY <1>1 DEF RecoveryFails, StreamFails, Interrupted, CloseNative, conversationVars
  <2>2. Cleared' /\ Fresh' /\ Remembered' /\ Told'
    BY <2>1 DEF Bound, Recall, Cleared, Fresh, Remembered, Told, Prefix
  <2>3. Known'
    BY <2>1 DEF Bound, Recall, Known, Streaming, CoveredBefore
  <2>4. Compacted'
    BY <2>1 DEF Bound, Recall, Compacted, Prefix
  <2> QED
    BY <2>2, <2>3, <2>4, TypesKept, OneTurnStep, DatedStep DEF Bound, Recall
<1>2. AllTypes' /\ OneTurn' /\ Dated'
  BY TypesKept, OneTurnStep, DatedStep DEF Bound
<1>3. Recall'
  BY <1>1, AskRecalls, RecoveredRecalls, RefusedRecalls, EndsRecalls, CompactionRecalls,
    HeardRecalls, ClearRecalls, TimeoutRecalls DEF ConversationNext, Bound
<1> QED
  BY <1>2, <1>3 DEF Bound

LEMMA BoundInit == ConversationInit => Bound
<1> SUFFICES ASSUME ConversationInit PROVE Bound
  OBVIOUS
<1>1. req = None /\ task = None /\ speaking = None /\ previous = None /\ clearing = None
      /\ answered = {} /\ memory = Empty
  BY DEF ConversationInit
<1>2. OneTurn /\ Dated
  BY <1>1 DEF OneTurn, Dated
<1>3. Prefix(memory, answered)
  BY <1>1, EmptyIsSnapshot
<1>4. Recall
  BY <1>1, <1>3 DEF Recall, Cleared, Fresh, Remembered, Told, Known, Streaming, Compacted
<1> QED
  BY <1>2, <1>4, InitTypes DEF Bound

LEMMA ConversationIsBound == ConversationSpec => []Bound
BY BoundInit, BoundStep, PTL DEF ConversationSpec

\* The server has been told, in the chain that a request continues, every question and
\* answer of the conversation that was heard to the end and nothing of one that was cleared,
\* for any number of turns, personas, clears and failures and any sizes of the windows
\* (get_chat_completions, _run_compaction, _recover_invalid_chain).
THEOREM TheServerKnows == ConversationSpec => []KnowsTheConversation
<1>1. Bound => KnowsTheConversation
  BY DEF Bound, AllTypes, Recall, Known, KnowsTheConversation
<1> QED
  BY <1>1, ConversationIsBound, PTL

\* The snapshot that a current request finds stands for the first of its pairs, however
\* compactions, recoveries, clears and answers follow each other (MemorySnapshot in
\* context_memory.py, _run_compaction).
THEOREM SnapshotsArePrefixes == ConversationSpec => []SnapshotIsPrefix
<1>1. Bound => SnapshotIsPrefix
  <2> SUFFICES ASSUME Bound, Streaming, Current, ~slipped
               PROVE /\ memory.end <= Cardinality(req.known)
                     /\ memory.content = First(req.known, memory.end)
    BY DEF SnapshotIsPrefix
  <2>1. clearing = None /\ req.known = answered
    BY DEF Bound, Recall, Fresh, Streaming, Current
  <2> QED
    BY <2>1 DEF Bound, Recall, Remembered, Prefix
<1> QED
  BY <1>1, ConversationIsBound, PTL

\* A compaction that was scheduled by one response never replaces the chain under a request
\* that was made after it: that request has taken a generation of its own (_run_compaction).
THEOREM ReplacedInBetween == ConversationSpec => ReplacedBetweenRequests
<1>1. Bound /\ [ConversationNext]_conversationVars =>
        [previous' # previous /\ previous' # None /\ previous'.by = "compaction" =>
           ~(req # None /\ req.gen = generation)]_conversationVars
  BY ReplacesBetween DEF Bound
<1> QED
  BY <1>1, ConversationIsBound, PTL DEF ConversationSpec, ReplacedBetweenRequests
=============================================================================
