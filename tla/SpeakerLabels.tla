---------------------------- MODULE SpeakerLabels ----------------------------
(***************************************************************************)
(* Who said what in the transcript of a meeting.  DiarizationSmoother      *)
(* (diarization_smoother.py) cleans the segments of a window before they   *)
(* are stored, with the labels of the stream.  When the meeting is over,   *)
(* MeetingDiarizationOverlay (diarization_overlay.py) has the audio it     *)
(* buffered labelled once more, and gives every stored segment the label   *)
(* that overlaps it longest.                                               *)
(*                                                                         *)
(* A segment is a record with start, end, key, words and turn; time is in  *)
(* ticks, the least duration rounded up and the flickers down.  A label is *)
(* a number, 0 the label of nobody.                                        *)
(***************************************************************************)
EXTENDS Integers, SequencesExt

CONSTANTS
  MinDuration,   \* min_duration_ms: what is shorter and without words is noise
  OneFlicker,    \* max(min_duration_ms, 500)
  TwoFlicker,    \* max(min_duration_ms, 600)
  HangoverGap,   \* hangover_gap_ms
  MaxBuffer,     \* max_buffer_seconds
  MinFlush       \* _MIN_FLUSH_BYTES

ASSUME LabelsAssumption ==
  /\ {MinDuration, OneFlicker, TwoFlicker, HangoverGap, MinFlush} \subseteq Nat
  /\ MaxBuffer \in Nat \ {0}
  /\ OneFlicker <= TwoFlicker /\ MinDuration <= TwoFlicker + 1

Length(s) == s.end - s.start
-----------------------------------------------------------------------------
(***************************************************************************)
(* The smoother.  Each pass is a function of how far it has come.          *)
(***************************************************************************)
\* Mutant of Noise: whatever is short is noise.
ShortIsNoise(x) == Length(x) < MinDuration

\* Short segments without words are dropped.
Noise(x) == ~x.words /\ Length(x) < MinDuration
Filtered(s) ==
  LET kept[i \in 0..Len(s)] ==
        IF i = 0 THEN <<>>
        ELSE IF Noise(s[i]) THEN kept[i - 1] ELSE Append(kept[i - 1], s[i])
  IN kept[Len(s)]

\* Mutant of Blip: the length of the segment is not looked at.
BlipOfAnyLength(s, keys, i) ==
  /\ i \in 2..Len(s) - 1
  /\ keys[i - 1] = keys[i + 1] /\ keys[i] # keys[i - 1]

\* A-B-A: one short segment between two of the same speaker.
Blip(s, keys, i) ==
  /\ i \in 2..Len(s) - 1
  /\ keys[i - 1] = keys[i + 1] /\ keys[i] # keys[i - 1]
  /\ Length(s[i]) <= OneFlicker

\* A-B-B-A.
TwoBlips(s, keys, i) ==
  /\ i \in 2..Len(s) - 2
  /\ keys[i - 1] = keys[i + 2] /\ keys[i] = keys[i + 1] /\ keys[i] # keys[i - 1]
  /\ s[i + 1].end - s[i].start <= TwoFlicker

\* The labels after the first pass, and after both; each pass sees what it has changed already.
OneSteadied(s, keys, i) == IF Blip(s, keys, i) THEN [keys EXCEPT ![i] = keys[i - 1]] ELSE keys
OnceSteadied(s) ==
  LET keys[i \in 0..Len(s)] ==
        IF i = 0 THEN [j \in 1..Len(s) |-> s[j].key] ELSE OneSteadied(s, keys[i - 1], i)
  IN keys[Len(s)]

TwoSteadied(s, keys, i) ==
  IF TwoBlips(s, keys, i) THEN [keys EXCEPT ![i] = keys[i - 1], ![i + 1] = keys[i - 1]] ELSE keys
TwiceSteadied(s) ==
  LET keys[i \in 0..Len(s)] ==
        IF i = 0 THEN OnceSteadied(s) ELSE TwoSteadied(s, keys[i - 1], i)
  IN keys[Len(s)]

Steadied(s) ==
  LET keys == TwiceSteadied(s)
  IN [j \in 1..Len(s) |-> [s[j] EXCEPT !.key = keys[j]]]

\* Neighbours of one speaker become one segment, which keeps the identity of the first.
Joins(a, b) == a.key = b.key /\ b.start - a.end <= HangoverGap
Joined(a, b) == [a EXCEPT !.end = IF @ > b.end THEN @ ELSE b.end, !.words = @ \/ b.words]
WithNext(m, x) ==
  IF m # <<>> /\ Joins(Last(m), x) THEN [m EXCEPT ![Len(m)] = Joined(@, x)] ELSE Append(m, x)
Merged(s) ==
  LET m[i \in 0..Len(s)] == IF i = 0 THEN <<>> ELSE WithNext(m[i - 1], s[i])
  IN m[Len(s)]

\* smooth_segments; the order of the result numbers its segments.
Smoothed(s) == Merged(Steadied(Filtered(s)))
-----------------------------------------------------------------------------
\* The buffer of push_pcm after so much audio: where it begins.
BufferFrom(audio) == IF audio > MaxBuffer THEN audio - MaxBuffer ELSE 0

\* What the transcription service, which is external, makes of the buffer: it hears the
\* speech that is in it, and counts the time from the beginning of the buffer.
Diarized(speech, audio) ==
  {[key |-> p.voice, start |-> IF p.from > BufferFrom(audio) THEN p.from - BufferFrom(audio) ELSE 0,
    end |-> p.to - BufferFrom(audio)] : p \in {q \in speech : q.to > BufferFrom(audio)}}

\* _to_spans: what has no length is dropped.
ToSpans(result) == {span \in result : span.end > span.start}
\* flush: too little audio is not sent.
Spans(speech, audio) == IF audio < MinFlush THEN {} ELSE ToSpans(Diarized(speech, audio))

\* For how long a segment and the spans of a speaker overlap.
Common(x, span) ==
  LET from == IF x.start > span.start THEN x.start ELSE span.start
      to == IF x.end < span.end THEN x.end ELSE span.end
  IN IF to > from THEN to - from ELSE 0
Overlap(x, spans, k) == MapThenSumSet(LAMBDA span : Common(x, span), {p \in spans : p.key = k})

\* Mutant of Labelled: the label of the highest number wins.
LabelledByNumber(x, spans) ==
  LET heard == {k \in {p.key : p \in spans} : Overlap(x, spans, k) > 0}
  IN IF heard = {} THEN x ELSE [x EXCEPT !.key = CHOOSE k \in heard : \A j \in heard : j <= k]

\* assign_speakers_by_overlap: the longest overlap wins, the later label on a tie, and a
\* segment that overlaps nothing keeps its label.
Labelled(x, spans) ==
  LET heard == {k \in {p.key : p \in spans} : Overlap(x, spans, k) > 0}
      beats(k, j) == \/ Overlap(x, spans, k) > Overlap(x, spans, j)
                     \/ Overlap(x, spans, k) = Overlap(x, spans, j) /\ k >= j
  IN IF heard = {} THEN x ELSE [x EXCEPT !.key = CHOOSE k \in heard : \A j \in heard : beats(k, j)]
=============================================================================
