---------------------------- MODULE CaptureHelper ----------------------------
(***************************************************************************)
(* The helper process that captures what an output device plays            *)
(* (src/native/sona-audio-capture): CaptureController with its phases,     *)
(* BoundedWriteQueue and the reader and writer threads of a connection.    *)
(*                                                                         *)
(* The controller changes its phase under a lock and answers after it has  *)
(* let it go, from the reader thread (replying) or from a thread of the    *)
(* engine (reporting), so answers may overtake each other; frames are      *)
(* queued under the lock.  A process serves one client and one capture.    *)
(***************************************************************************)
EXTENDS Naturals, Sequences, SequencesExt

CONSTANTS
  QueueSize,  \* capacity of BoundedWriteQueue, and of the queue of the client
  SocketSize, \* messages the socket holds
  MaxFrames,  \* bound on the frames of a capture
  MaxFaults   \* bound on failures and timeouts in a behaviour

ASSUME HelperAssumption ==
  QueueSize \in Nat \ {0} /\ SocketSize \in Nat \ {0} /\ MaxFrames \in Nat /\ MaxFaults \in Nat

Requests == {"hello", "prepare", "commit", "abort", "stop"}
Ack(r) == [what |-> "ack", to |-> r, seq |-> 0]
Refusal(r) == [what |-> "error", to |-> r, seq |-> 0]
Failure == Refusal("nobody")
Pcm(n) == [what |-> "pcm", to |-> "nobody", seq |-> n]
IsPcm(m) == m.what = "pcm"

VARIABLES
  process,   \* "none" | "starting" | "up" | "terminating"
  socket,    \* "none" | "open" | "left" by the client | "cut" by the helper
  phase,     \* CaptureController.phase
  ended,     \* lastTerminalCaptureID is that of the capture
  engine,    \* TRUE while the device is captured
  produced,  \* the sequence number of the last frame
  commands,  \* requests on their way to the helper
  replying,  \* the answer the reader thread is about to queue, at most one
  reporting, \* answers that threads of the engine are about to queue
  outbox,    \* the frames of BoundedWriteQueue
  wire,      \* messages on their way to the client
  dropped,   \* frames dropped by the full queue of either end
  faults

helperVars == <<process, socket, phase, ended, engine, produced, commands, replying,
                reporting, outbox, wire, dropped, faults>>

Spend == faults < MaxFaults /\ faults' = faults + 1
Context == phase \in {"preparing", "ready", "active"}
Fresh ==
  /\ phase' = "stopped" /\ ended' = FALSE /\ engine' = FALSE /\ produced' = 0
  /\ commands' = <<>> /\ replying' = <<>> /\ reporting' = {} /\ outbox' = <<>> /\ wire' = <<>>
  /\ dropped' = 0
HelperInit ==
  /\ process = "none" /\ socket = "none" /\ faults = 0
  /\ phase = "stopped" /\ ended = FALSE /\ engine = FALSE /\ produced = 0
  /\ commands = <<>> /\ replying = <<>> /\ reporting = {} /\ outbox = <<>> /\ wire = <<>>
  /\ dropped = 0
-----------------------------------------------------------------------------
(***************************************************************************)
(* Messages to the client.                                                 *)
(***************************************************************************)
\* Mutant of Victim: the oldest message of any kind.
VictimOfAnyKind(frames) == 1
\* Where a full queue makes room: at its oldest frame.
Victim(frames) == Min(frames)
\* BoundedWriteQueue.enqueue.  A full queue gives up its oldest frame; when it holds
\* answers only a frame is dropped, and one more answer closes the connection.
Enqueue(m) ==
  LET frames == {i \in DOMAIN outbox : IsPcm(outbox[i])}
      full == Len(outbox) >= QueueSize
  IN /\ outbox' = IF ~full THEN Append(outbox, m)
                  ELSE IF frames # {} THEN Append(RemoveAt(outbox, Victim(frames)), m)
                  ELSE IF IsPcm(m) THEN outbox ELSE <<>>
     /\ dropped' = IF full /\ (frames # {} \/ IsPcm(m)) THEN dropped + 1 ELSE dropped
     /\ IF full /\ frames = {} /\ ~IsPcm(m)
        THEN socket' = "cut" /\ phase' = "stopped" /\ ended' = FALSE /\ engine' = FALSE
        ELSE UNCHANGED <<socket, phase, ended, engine>>
Reply ==
  /\ socket = "open" /\ replying # <<>>
  /\ Enqueue(Head(replying)) /\ replying' = <<>>
  /\ UNCHANGED <<process, produced, commands, reporting, wire, faults>>
Report ==
  /\ socket = "open"
  /\ \E m \in reporting : Enqueue(m) /\ reporting' = reporting \ {m}
  /\ UNCHANGED <<process, produced, commands, replying, wire, faults>>
Frame ==
  /\ socket = "open" /\ phase = "active" /\ engine /\ produced < MaxFrames
  /\ produced' = produced + 1 /\ Enqueue(Pcm(produced'))
  /\ UNCHANGED <<process, commands, replying, reporting, wire, faults>>
Write ==
  /\ socket = "open" /\ outbox # <<>> /\ Len(wire) < SocketSize
  /\ wire' = Append(wire, Head(outbox)) /\ outbox' = Tail(outbox)
  /\ UNCHANGED <<process, socket, phase, ended, engine, produced, commands, replying,
                 reporting, dropped, faults>>
-----------------------------------------------------------------------------
(***************************************************************************)
(* Requests.                                                               *)
(***************************************************************************)
Handles(r) ==
  /\ process = "up" /\ socket = "open" /\ replying = <<>>
  /\ commands # <<>> /\ Head(commands) = r /\ commands' = Tail(commands)
  /\ UNCHANGED <<process, socket, produced, reporting, outbox, wire, dropped, faults>>
Hello ==
  Handles("hello") /\ replying' = <<Ack("hello")>> /\ UNCHANGED <<phase, ended, engine>>
\* The answer to prepare comes from the engine, unless it cannot start.
HelperPrepare ==
  /\ Handles("prepare") /\ phase = "stopped"
  /\ phase' = "preparing" /\ ended' = FALSE /\ engine' = TRUE
  /\ UNCHANGED replying
HelperCommit ==
  /\ Handles("commit")
  /\ phase' = IF phase = "ready" THEN "active" ELSE phase
  /\ replying' = <<IF phase = "ready" THEN Ack("commit") ELSE Refusal("commit")>>
  /\ UNCHANGED <<ended, engine>>
Terminate(r) ==
  /\ Handles(r)
  /\ replying' = <<IF Context \/ ended THEN Ack(r) ELSE Refusal(r)>>
  /\ phase' = IF Context THEN "stopped" ELSE phase
  /\ ended' = (ended \/ Context)
  /\ engine' = (engine /\ ~Context)
-----------------------------------------------------------------------------
(***************************************************************************)
(* The engine.                                                             *)
(***************************************************************************)
Tells(m) ==
  /\ reporting' = reporting \cup {m}
  /\ UNCHANGED <<process, socket, produced, commands, replying, outbox, wire, dropped>>
BecomesReady ==
  /\ phase = "preparing" /\ phase' = "ready" /\ Tells(Ack("prepare"))
  /\ UNCHANGED <<ended, engine, faults>>
\* engine.prepare throws, or no callback comes in time.
NotReady ==
  /\ Spend /\ phase = "preparing"
  /\ phase' = "stopped" /\ ended' = TRUE /\ engine' = FALSE /\ Tells(Refusal("prepare"))
\* Whom captureFailed answers: the prepare request, although it may have been answered,
\* and nobody once frames flow.
Announced == IF phase = "active" THEN {Failure} ELSE {Refusal("prepare")}
CaptureFails ==
  /\ Spend /\ Context
  /\ phase' = "failed" /\ ended' = TRUE /\ engine' = FALSE
  /\ reporting' = reporting \cup Announced
  /\ UNCHANGED <<process, socket, produced, commands, replying, outbox, wire, dropped>>
-----------------------------------------------------------------------------
(***************************************************************************)
(* The connection and the process.                                         *)
(***************************************************************************)
ClientDisconnected == phase' = "stopped" /\ ended' = FALSE /\ engine' = FALSE
\* The reader finds that the client has left.
ReaderEnds ==
  /\ process = "up" /\ socket = "left" /\ socket' = "none"
  /\ ClientDisconnected
  /\ commands' = <<>> /\ replying' = <<>> /\ reporting' = {} /\ outbox' = <<>> /\ wire' = <<>>
  /\ UNCHANGED <<process, produced, dropped, faults>>
\* What WireDecoder makes of a stream that ends: a message half written is none.
Decodable == {wire} \cup (IF wire = <<>> THEN {} ELSE {Front(wire)})
Gone ==
  /\ process' = "none" /\ socket' = IF socket = "open" THEN "cut" ELSE socket
  /\ phase' = "stopped" /\ ended' = FALSE /\ engine' = FALSE
  /\ commands' = <<>> /\ replying' = <<>> /\ reporting' = {} /\ outbox' = <<>>
  /\ wire' \in Decodable
  /\ UNCHANGED <<produced, dropped>>
Listens ==
  /\ process = "starting" /\ process' = "up"
  /\ UNCHANGED <<socket, phase, ended, engine, produced, commands, replying, reporting,
                 outbox, wire, dropped, faults>>
Dies == process \in {"starting", "up"} /\ Spend /\ Gone
Exits == process = "terminating" /\ Gone /\ UNCHANGED faults

HelperThreads ==
  \/ Listens \/ Hello \/ HelperPrepare \/ HelperCommit \/ Terminate("abort") \/ Terminate("stop")
  \/ BecomesReady \/ Reply \/ Report \/ Write \/ ReaderEnds \/ Exits
=============================================================================
