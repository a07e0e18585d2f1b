--------------------------- MODULE ControlChannel ----------------------------
(***************************************************************************)
(* The sockets that show and command the runtime (src/sona/ui): a control  *)
(* connection with a reader, one command at a time and a single writer     *)
(* (websocket_routes.py, control.py); the queue of size one through which  *)
(* it gets the latest runtime state (runtime_events.py); how the browser   *)
(* merges states (useCommandSocket.ts); and the subtitle connections,      *)
(* which are refused or revoked when the mode has no subtitles and get     *)
(* them through a bounded queue each (subtitles/clients.py).               *)
(*                                                                         *)
(* A WebSocket keeps the order of messages.  A subtitle text is its        *)
(* number.  Three commands stand for all: mute and unmute, which take      *)
(* effect at once, and switch, which waits for the coordinator.            *)
(***************************************************************************)
EXTENDS AudioHub, Sequences

CONSTANTS
  Browsers, Watchers, \* control and subtitle connections
  ResponseSize,       \* _CONTROL_RESPONSE_QUEUE_SIZE
  ChannelSize,        \* _CLIENT_QUEUE_SIZE
  MaxInbox,           \* bound on unread commands
  None

ASSUME ControlChannelAssumption ==
  /\ ResponseSize \in Nat \ {0} /\ ChannelSize \in Nat \ {0}
  /\ MaxInbox \in Nat

Eligible == {"subtitles", "meeting"}
Commands == {"mute", "unmute", "switch"}

VARIABLES
  \* _serve_control_websocket.
  conn,      \* "off", "open", "gone" (the browser left, nobody has noticed), "closed"
  inbox,     \* commands on their way to the reader
  reader,    \* [at, item]: "receiving", "handling" a command, "putting" its response
  responses, \* the response queue
  sending,   \* what the writer has taken from the queues and not sent
  writer,    \* "alive", or "dead": a send has raised
  \* The browser.
  shown,     \* currentState
  owed,      \* commands it waits for
  \* RuntimeStateBroadcaster, of both kinds of connections.
  latest,    \* the state in the queue of each client
  \* _serve_subtitle_websocket and SubtitleClientHub.
  watch,     \* "off", "accepting", "open", "closing", "closed"
  initial,   \* the mode the connection found
  channel,   \* the queue of its sender
  text,      \* the last subtitles
  shownText

control == <<conn, inbox, reader, responses, sending, writer, shown, owed>>
subtitle == <<watch, initial, channel, text, shownText>>

Clients == Browsers \union Watchers
Snapshot == [mode |-> mode, owner |-> owner, revision |-> revision, muted |-> muted]
Receiving == [at |-> "receiving", item |-> None]
Event(s) == [answer |-> FALSE, state |-> s]
Answer(s) == [answer |-> TRUE, state |-> s]

Registered(k) == IF k \in Browsers THEN conn[k] \in {"open", "gone"}
                 ELSE watch[k] \in {"accepting", "open", "closing"}

\* Mutant of Replaced: a client that still has a state to send keeps it.
ReplacedIfEmpty(k, s) == IF latest[k] = None THEN s ELSE latest[k]

\* _replace_latest.
Replaced(k, s) == s

Publish(s) == latest' = [k \in Clients |-> IF Registered(k) THEN Replaced(k, s) ELSE None]

\* The level sink and the subtitle source publish at any time.
PublishRuntimeState ==
  /\ Input
  /\ Publish(Snapshot)
  /\ UNCHANGED <<control, subtitle, capture, sound>>
-----------------------------------------------------------------------------
(***************************************************************************)
(* The browser.                                                            *)
(***************************************************************************)
OnlyControl == UNCHANGED <<subtitle, capture, sound>>

Connect(b) ==
  /\ conn[b] = "off" /\ Started
  /\ conn' = [conn EXCEPT ![b] = "open"]
  /\ latest' = [latest EXCEPT ![b] = Snapshot]
  /\ UNCHANGED <<inbox, reader, responses, sending, writer, shown, owed, inputs>> /\ OnlyControl

\* It sends nothing before it has seen a state.
Send(b, command) ==
  /\ conn[b] = "open" /\ shown[b] # None /\ Len(inbox[b]) < MaxInbox
  /\ Input
  /\ inbox' = [inbox EXCEPT ![b] = Append(@, command)]
  /\ owed' = [owed EXCEPT ![b] = @ + 1]
  /\ UNCHANGED <<conn, reader, responses, sending, writer, shown, latest>> /\ OnlyControl

BrowserLeaves(b) ==
  /\ conn[b] = "open" /\ Input
  /\ conn' = [conn EXCEPT ![b] = "gone"]
  /\ UNCHANGED <<inbox, reader, responses, sending, writer, shown, owed, latest>> /\ OnlyControl

\* mergeRuntimeState: under the same revision the ownership is not taken.
Merge(current, state) ==
  CASE current = None -> state
    [] current # None /\ state.revision > current.revision -> state
    [] current # None /\ state.revision < current.revision -> current
    [] OTHER -> [current EXCEPT !.muted = state.muted]
-----------------------------------------------------------------------------
(***************************************************************************)
(* The server's side of a control connection.                              *)
(***************************************************************************)
Read(b) ==
  /\ Registered(b) /\ reader[b] = Receiving /\ inbox[b] # <<>>
  /\ reader' = [reader EXCEPT ![b] = [at |-> "handling", item |-> Head(inbox[b])]]
  /\ inbox' = [inbox EXCEPT ![b] = Tail(@)]
  /\ UNCHANGED <<conn, responses, sending, writer, shown, owed, latest, inputs>> /\ OnlyControl

\* The command runs and the response is made, with the state of that moment, or without
\* one when the snapshot cannot be built.  Muting is published, unmuting is not.
Handle(b) ==
  /\ reader[b].at = "handling"
  /\ CASE reader[b].item = "mute" -> SetMuted(TRUE) /\ Publish(Snapshot')
       [] reader[b].item = "unmute" -> SetMuted(FALSE) /\ UNCHANGED latest
       [] OTHER -> UNCHANGED <<sound, latest>>
  /\ \/ /\ UNCHANGED inputs
        /\ reader' = [reader EXCEPT ![b] = [at |-> "putting", item |-> Answer(Snapshot')]]
     \/ /\ Input
        /\ reader' = [reader EXCEPT ![b] = [at |-> "putting", item |-> Answer(None)]]
  /\ UNCHANGED <<conn, inbox, responses, sending, writer, shown, owed, subtitle, capture>>

Put(b) ==
  /\ reader[b].at = "putting" /\ Len(responses[b]) < ResponseSize
  /\ responses' = [responses EXCEPT ![b] = Append(@, reader[b].item)]
  /\ reader' = [reader EXCEPT ![b] = Receiving]
  /\ UNCHANGED <<conn, inbox, sending, writer, shown, owed, latest, inputs>> /\ OnlyControl

\* Mutant of Unsent: of an event and a response that are ready at once only the event goes.
UnsentEventFirst(event, answer) == IF event # <<>> THEN event ELSE answer

\* The event goes before the response.
Unsent(event, answer) == event \o answer

\* _send_control_messages: asyncio.wait returns when one of the two queues has an item; it
\* may find both done, and a get that is cancelled leaves its item in the queue.
WriterTakes(b) ==
  /\ Registered(b) /\ writer[b] = "alive" /\ sending[b] = <<>>
  /\ \E event \in {<<>>} \union {<<Event(s)>> : s \in {latest[b]} \ {None}},
        answer \in {<<>>} \union {<<Head(q)>> : q \in {responses[b]} \ {<<>>}} :
       /\ event \o answer # <<>>
       /\ latest' = [latest EXCEPT ![b] = IF event = <<>> THEN @ ELSE None]
       /\ responses' = [responses EXCEPT ![b] = IF answer = <<>> THEN @ ELSE Tail(@)]
       /\ sending' = [sending EXCEPT ![b] = Unsent(event, answer)]
  /\ UNCHANGED <<conn, inbox, reader, writer, shown, owed, inputs>> /\ OnlyControl

WriterSends(b) ==
  /\ Registered(b) /\ sending[b] # <<>>
  /\ LET m == Head(sending[b]) IN
     \/ /\ conn[b] = "open"
        /\ sending' = [sending EXCEPT ![b] = Tail(@)]
        /\ shown' = [shown EXCEPT ![b] = IF m.state = None THEN @ ELSE Merge(@, m.state)]
        /\ owed' = [owed EXCEPT ![b] = IF m.answer THEN @ - 1 ELSE @]
        /\ UNCHANGED writer
     \/ /\ conn[b] = "gone"
        /\ writer' = [writer EXCEPT ![b] = "dead"]
        /\ sending' = [sending EXCEPT ![b] = <<>>]
        /\ UNCHANGED <<shown, owed>>
  /\ UNCHANGED <<conn, inbox, reader, responses, latest, inputs>> /\ OnlyControl

\* The reader sees that the browser has left when it has read everything.
Disconnected(b) ==
  /\ conn[b] = "gone" /\ reader[b] = Receiving /\ inbox[b] = <<>>
  /\ conn' = [conn EXCEPT ![b] = "closed"]
  /\ latest' = [latest EXCEPT ![b] = None]
  /\ responses' = [responses EXCEPT ![b] = <<>>] /\ sending' = [sending EXCEPT ![b] = <<>>]
  /\ UNCHANGED <<inbox, reader, writer, shown, owed, inputs>> /\ OnlyControl
-----------------------------------------------------------------------------
(***************************************************************************)
(* A subtitle connection.                                                  *)
(***************************************************************************)
OnlySubtitle == UNCHANGED <<control, capture, sound>>

WatchConnect(w) ==
  /\ watch[w] = "off" /\ Started
  /\ watch' = [watch EXCEPT ![w] = "accepting"]
  /\ initial' = [initial EXCEPT ![w] = mode]
  /\ UNCHANGED <<latest, channel, text, shownText, inputs>> /\ OnlySubtitle

\* Mutant of Admitted: the state that came while the socket was accepted is not looked at.
AdmittedFirst(w) == initial[w] \in Eligible

\* Both the state it found and the one that came while the socket was accepted count.
Admitted(w) ==
  initial[w] \in Eligible /\ (latest[w] = None \/ latest[w].mode \in Eligible)

WatchAccepted(w) ==
  /\ watch[w] = "accepting"
  /\ latest' = [latest EXCEPT ![w] = None]
  /\ IF Admitted(w)
     THEN /\ watch' = [watch EXCEPT ![w] = "open"]
          /\ channel' = [channel EXCEPT ![w] = <<text>>]
     ELSE watch' = [watch EXCEPT ![w] = "closed"] /\ UNCHANGED channel
  /\ UNCHANGED <<initial, text, shownText, inputs>> /\ OnlySubtitle

\* _revoke_ineligible_subtitle.
Revoke(w) ==
  /\ watch[w] = "open" /\ latest[w] # None
  /\ latest' = [latest EXCEPT ![w] = None]
  /\ watch' = [watch EXCEPT ![w] = IF latest[w].mode \in Eligible THEN @ ELSE "closing"]
  /\ UNCHANGED <<initial, channel, text, shownText, inputs>> /\ OnlySubtitle

WatcherLeaves(w) ==
  /\ watch[w] = "open" /\ Input
  /\ watch' = [watch EXCEPT ![w] = "closing"]
  /\ UNCHANGED <<latest, initial, channel, text, shownText>> /\ OnlySubtitle

WatchEnds(w) ==
  /\ watch[w] = "closing"
  /\ watch' = [watch EXCEPT ![w] = "closed"]
  /\ latest' = [latest EXCEPT ![w] = None]
  /\ channel' = [channel EXCEPT ![w] = <<>>]
  /\ UNCHANGED <<initial, text, shownText, inputs>> /\ OnlySubtitle

\* SubtitleClientHub.publish: a full queue loses its oldest text.
Fanned(queue) == Append(IF Len(queue) < ChannelSize THEN queue ELSE Tail(queue), text + 1)

PublishText ==
  /\ Input
  /\ text' = text + 1
  /\ channel' = [w \in Watchers |-> IF watch[w] \in {"open", "closing"} THEN Fanned(channel[w])
                                    ELSE channel[w]]
  /\ UNCHANGED <<latest, watch, initial, shownText>> /\ OnlySubtitle

\* _send_loop.
SendText(w) ==
  /\ watch[w] = "open" /\ channel[w] # <<>>
  /\ shownText' = [shownText EXCEPT ![w] = Head(channel[w])]
  /\ channel' = [channel EXCEPT ![w] = Tail(@)]
  /\ UNCHANGED <<latest, watch, initial, text, inputs>> /\ OnlySubtitle

ControlInit ==
  /\ conn = [b \in Browsers |-> "off"] /\ inbox = [b \in Browsers |-> <<>>]
  /\ reader = [b \in Browsers |-> Receiving] /\ responses = [b \in Browsers |-> <<>>]
  /\ sending = [b \in Browsers |-> <<>>] /\ writer = [b \in Browsers |-> "alive"]
  /\ shown = [b \in Browsers |-> None] /\ owed = [b \in Browsers |-> 0]
  /\ latest = [k \in Clients |-> None]
  /\ watch = [w \in Watchers |-> "off"] /\ initial = [w \in Watchers |-> "idle"]
  /\ channel = [w \in Watchers |-> <<>>] /\ text = 0 /\ shownText = [w \in Watchers |-> 0]

Serve(b) == Read(b) \/ Handle(b) \/ Put(b) \/ Disconnected(b)
Write(b) == WriterTakes(b) \/ WriterSends(b)
Admit(w) == WatchAccepted(w) \/ Revoke(w) \/ WatchEnds(w)

ControlStep ==
  \/ \E b \in Browsers : \/ Connect(b) \/ BrowserLeaves(b) \/ Serve(b) \/ Write(b)
                         \/ \E command \in Commands : Send(b, command)
  \/ \E w \in Watchers : WatchConnect(w) \/ WatcherLeaves(w) \/ Admit(w) \/ SendText(w)
  \/ PublishText \/ PublishRuntimeState
=============================================================================
