--------------------------- MODULE MeetingEventsMC ---------------------------
\* MeetingEvents for TLC: two pages that can be exchanged (no liveness is checked).
EXTENDS MeetingEvents, TLC

Pages == Permutations(Clients)
=============================================================================
