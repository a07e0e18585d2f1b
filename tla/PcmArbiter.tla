----------------------------- MODULE PcmArbiter ------------------------------
(***************************************************************************)
(* What RuntimeModeCoordinator (src/sona/meeting/runtime_mode.py) promises *)
(* to everybody who reads its mode, its PCM owner and its revision: the    *)
(* PCM is taken from its owner before it is given to another, and a        *)
(* revision names one mode.  RuntimeMode implements this specification,    *)
(* UIRuntime builds on it.                                                 *)
(***************************************************************************)
EXTENDS Naturals

CONSTANT Workloads

VARIABLES mode, owner, revision
arbiter == <<mode, owner, revision>>

Modes == Workloads \union {"idle"}
Owners == Workloads \union {"none"}
OwnerOf(m) == IF m = "idle" THEN "none" ELSE m

Init == mode = "idle" /\ owner = "none" /\ revision = 0

\* The microphone is taken from its owner; the mode is still the old one.
Silence ==
  /\ owner' = "none"
  /\ UNCHANGED <<mode, revision>>

\* A mode gets its PCM from nobody, or keeps it, under a new revision; the idle mode
\* takes it from whoever has it.
Commit(m) ==
  /\ owner = "none" \/ OwnerOf(m) \in {"none", owner}
  /\ mode' = m /\ owner' = OwnerOf(m)
  /\ revision' = revision + 1

Next == Silence \/ \E m \in Modes : Commit(m)
Spec == Init /\ [][Next]_arbiter
=============================================================================
