-------------------------- MODULE TranscriptTimeline --------------------------
(***************************************************************************)
(* Where the turns of one transcription stream land in the transcript of a *)
(* meeting: SpeechRailStreamingTranscriber (speechrail/transcriber.py)     *)
(* puts the events of the server on the clock of the session, and          *)
(* reconcile_window (meeting/repository.py) replaces what the segments of  *)
(* a confirmed turn reach back to.  On the way MeetingSession._on_window   *)
(* smooths the segments, and MeetingFinalizer.finalize ends the transcript *)
(* with the last window as it came and with the labels of the overlay.     *)
(*                                                                         *)
(* The server is external.  It cuts the audio into items, one for each     *)
(* turn; an item begins where the one before it ended, and the segments of *)
(* an item count their time from its beginning.  It announces where the    *)
(* speech of its turns starts and stops, or only one of them, or neither;  *)
(* one that announces both may send the segments of a turn, or only its    *)
(* text.  Time is counted in ticks.                                        *)
(***************************************************************************)
EXTENDS SpeakerLabels

CONSTANTS
  MaxTime,   \* bound on the audio of the stream
  MaxTurns,  \* bound on the turns confirmed
  Nominals,  \* the nominal durations of a text
  Announced, \* what a server may announce of its turns, subsets of {"start", "stop"}
  Voices     \* the labels of the people who speak

ASSUME TimelineAssumption ==
  /\ MaxTime \in Nat /\ MaxTurns \in Nat
  /\ Nominals \subseteq Nat \ {0}
  /\ Announced \subseteq SUBSET {"start", "stop"}
  /\ Voices \subseteq Nat \ {0}

NoTime == -1
Both == {"start", "stop"}

VARIABLES
  audio,        \* _audio_ms
  turns,        \* number of turns confirmed
  \* the server
  itemFrom,     \* where its current item begins
  speech,       \* where the speech of the item really starts and stops, if it has
  announces,    \* what it announces of its turns
  labels,       \* whether it labels the speakers of its segments
  said,         \* where the last segment of the item really ends
  spoken,       \* what was really said: when, by whom, with words or without
  \* the transcriber
  activeStart,  \* _active_item_start_ms
  activeEnd,    \* _active_item_end_ms
  activeOffset, \* _active_item_offset_ms
  boundary,     \* _last_audio_boundary_ms
  confirmedEnd, \* _last_confirmed_end_ms
  pending,      \* _pending_segments
  \* the transcript
  lastWindow,   \* the last confirmed window
  rows,         \* transcript_segments of the meeting
  sealed        \* "no", or how the transcript was finished

server == <<itemFrom, speech, announces, labels, said, spoken>>
item == <<activeStart, activeEnd, activeOffset>>
transcript == <<lastWindow, rows, sealed>>
timelineVars == <<audio, turns, server, item, boundary, confirmedEnd, pending, transcript>>

Times == 0..MaxTime
Silent == [start |-> NoTime, stop |-> NoTime]

\* A segment of the current turn; and what was really said.
Segment(start, end, key, words) ==
  [turn |-> turns + 1, start |-> start, end |-> end, key |-> key, words |-> words]
Speech(from, to, voice, key, words) ==
  [turn |-> turns + 1, from |-> from, to |-> to, voice |-> voice, key |-> key, words |-> words]
Open == sealed = "no"
Larger(a, b) == IF a > b THEN a ELSE b
-----------------------------------------------------------------------------
\* send_audio.
SendAudio ==
  /\ Open /\ audio < MaxTime
  /\ audio' = audio + 1
  /\ UNCHANGED <<turns, server, item, boundary, confirmedEnd, pending, transcript>>

\* Speech starts after the silence that ended the turn before; speech_started.
SpeechStarted(s) ==
  /\ Open /\ speech = Silent /\ turns < MaxTurns
  /\ s \in itemFrom..audio
  /\ itemFrom > 0 => s > itemFrom
  /\ speech' = [speech EXCEPT !.start = s]
  /\ IF "start" \in announces
     THEN activeStart' = s /\ activeEnd' = NoTime /\ activeOffset' = boundary
     ELSE UNCHANGED item
  /\ UNCHANGED <<audio, turns, itemFrom, announces, labels, said, spoken, boundary, confirmedEnd,
                 pending, transcript>>

\* speech_stopped.
SpeechStopped(e) ==
  /\ Open /\ speech.start # NoTime /\ speech.stop = NoTime
  /\ e \in speech.start..audio /\ e > said
  /\ speech' = [speech EXCEPT !.stop = e]
  /\ IF "stop" \in announces
     THEN activeEnd' = e /\ boundary' = e
     ELSE UNCHANGED <<activeEnd, boundary>>
  /\ UNCHANGED <<audio, turns, itemFrom, announces, labels, said, spoken, activeStart, activeOffset,
                 confirmedEnd, pending, transcript>>

\* _segment_offset_ms.
SegmentOffset == IF activeOffset = NoTime THEN 0 ELSE activeOffset

\* A segment of the item, from a to b on the clock of the item.
SegmentArrives(a, b, voice, words) ==
  /\ Open /\ announces = Both /\ speech.start # NoTime
  /\ a < b /\ itemFrom + a >= Larger(said, speech.start)
  /\ itemFrom + b <= audio
  /\ speech.stop # NoTime => itemFrom + b < speech.stop
  /\ LET key == IF labels THEN voice ELSE 0
     IN /\ pending' = Append(pending, Segment(SegmentOffset + a, SegmentOffset + b, key, words))
        /\ spoken' = spoken \cup {Speech(itemFrom + a, itemFrom + b, voice, key, words)}
  /\ said' = itemFrom + b
  /\ UNCHANGED <<audio, turns, itemFrom, speech, announces, labels, item, boundary, confirmedEnd,
                 transcript>>

\* Mutant of Synthesized: the end of the turn before is not looked at.
SynthesizedAnywhere(nominal, words) ==
  LET start == IF activeStart # NoTime THEN activeStart
               ELSE IF activeEnd # NoTime THEN Larger(0, activeEnd - nominal)
               ELSE Larger(0, Larger(audio, nominal) - nominal)
      end == IF activeEnd # NoTime THEN Larger(start, activeEnd) ELSE start + nominal
  IN Segment(start, end, 0, words)

\* _synthesized_segment: the segment of a turn that has none.
Synthesized(nominal, words) ==
  LET bounded == activeStart # NoTime /\ activeEnd # NoTime
      last == IF activeEnd # NoTime THEN activeEnd ELSE Larger(audio, nominal)
      start == IF activeStart # NoTime THEN activeStart ELSE Larger(0, last - nominal)
      end == IF bounded THEN Larger(activeStart, activeEnd)
             ELSE IF activeStart # NoTime THEN activeStart + nominal ELSE last
  IN IF ~bounded /\ start < confirmedEnd
     THEN Segment(confirmedEnd, Larger(end, confirmedEnd + nominal), 0, words)
     ELSE Segment(start, end, 0, words)

\* reconcile_window; a window without segments changes nothing.
Reconcile(old, segments) ==
  IF segments = {} THEN old
  ELSE {r \in old : r.end < Min({s.start : s \in segments})} \cup segments

\* What a completed turn resets.
ForgetItem ==
  /\ activeStart' = NoTime /\ activeEnd' = NoTime /\ activeOffset' = NoTime
  /\ pending' = <<>>

\* completed, with text, and _on_window.
Completed(nominal, voice, words) ==
  LET segments == IF pending # <<>> THEN pending ELSE <<Synthesized(nominal, words)>>
  IN /\ Open /\ speech.stop # NoTime
     /\ confirmedEnd' = Max({s.end : s \in ToSet(segments)})
     /\ lastWindow' = segments
     /\ rows' = Reconcile(rows, ToSet(Smoothed(segments)))
     /\ spoken' = IF pending # <<>> THEN spoken
                  ELSE spoken \cup {Speech(speech.start, speech.stop, voice, 0, words)}
     /\ turns' = turns + 1
     /\ ForgetItem
     /\ itemFrom' = speech.stop /\ speech' = Silent /\ said' = 0
     /\ UNCHANGED <<audio, announces, labels, boundary, sealed>>

\* completed, without text: a turn the recogniser heard nothing in.
CompletedEmpty ==
  /\ Open /\ speech.stop # NoTime /\ pending = <<>>
  /\ ForgetItem
  /\ itemFrom' = speech.stop /\ speech' = Silent /\ said' = 0
  /\ UNCHANGED <<audio, turns, announces, labels, spoken, boundary, confirmedEnd, transcript>>

\* finalize: the last window is stored as it came, and the overlay corrects the labels,
\* unless it is not used or fails.
Finalize(overlay) ==
  LET stored == Reconcile(rows, ToSet(lastWindow))
      corrected == {Labelled(r, Spans(spoken, audio)) : r \in stored}
  IN /\ Open
     /\ sealed' = IF overlay THEN "labelled" ELSE "plain"
     /\ rows' = IF overlay THEN Reconcile(stored, corrected) ELSE stored
     /\ UNCHANGED <<audio, turns, server, item, boundary, confirmedEnd, pending, lastWindow>>
-----------------------------------------------------------------------------
TimelineInit ==
  /\ audio = 0 /\ turns = 0
  /\ itemFrom = 0 /\ speech = Silent /\ announces \in Announced /\ said = 0
  /\ labels \in BOOLEAN /\ spoken = {}
  /\ activeStart = NoTime /\ activeEnd = NoTime /\ activeOffset = NoTime
  /\ boundary = 0 /\ confirmedEnd = NoTime /\ pending = <<>>
  /\ lastWindow = <<>> /\ rows = {} /\ sealed = "no"

TimelineNext ==
  \/ SendAudio
  \/ \E s \in Times : SpeechStarted(s)
  \/ \E e \in Times : SpeechStopped(e)
  \/ \E a, b \in Times, voice \in Voices, words \in BOOLEAN : SegmentArrives(a, b, voice, words)
  \/ \E nominal \in Nominals, voice \in Voices, words \in BOOLEAN : Completed(nominal, voice, words)
  \/ CompletedEmpty
  \/ \E overlay \in BOOLEAN : Finalize(overlay)

TimelineSpec == TimelineInit /\ [][TimelineNext]_timelineVars
-----------------------------------------------------------------------------
Kept(p) == p.words \/ p.to - p.from >= MinDuration
Confirmed == {p \in spoken : p.turn <= turns}

\* What was said with words, or for long, is in the transcript at the time it was said,
\* whatever the turns after it, the smoother and the finish replace (repository.py:429-433,
\* transcriber.py:133-139, diarization_smoother.py:92-98).  It holds of a server that
\* announces both bounds of every turn.
SpeechIsKept ==
  announces = Both =>
    \A p \in Confirmed : Kept(p) =>
      \E r \in rows : r.turn = p.turn /\ r.start <= p.from /\ p.to <= r.end

\* The smoother relabels flickers only: what somebody said for longer than two of them
\* stays his, in a segment of his label, while the meeting is recorded
\* (diarization_smoother.py:103-134).
LongSpeechKeepsSpeaker ==
  announces = Both /\ sealed = "no" =>
    \A p \in Confirmed : p.to - p.from > TwoFlicker =>
      \E r \in rows : r.turn = p.turn /\ r.key = p.key /\ r.start <= p.from /\ p.to <= r.end

\* The overlay counts from the beginning of its buffer and the transcript from the beginning
\* of the meeting: while they are the same, a segment is never left to somebody who spoke
\* less of it than another (diarization_overlay.py:75-102).
Spoke(r, v) ==
  MapThenSumSet(LAMBDA p : Common(r, [start |-> p.from, end |-> p.to]), {p \in spoken : p.voice = v})
LabelledByVoice ==
  sealed = "labelled" /\ announces = Both /\ audio \in MinFlush..MaxBuffer =>
    \A r \in rows : \A v \in Voices :
      Spoke(r, v) > 0 => r.key \in Voices /\ Spoke(r, r.key) >= Spoke(r, v)

\* A turn whose bounds the server does not both announce never begins before the end of
\* a turn already in the transcript (transcriber.py:331-333).
FallbackFollows ==
  [][announces # Both /\ sealed' = "no" =>
       \A r \in rows' \ rows : \A q \in rows : q.end <= r.start]_timelineVars
=============================================================================
