SPECIFICATION Spec
CONSTANTS
  QueueSize = 2
  MaxChunks = 4
  MaxLeases = 2
  MaxFaults = 2
  MaxDelays = 2
CHECK_DEADLOCK FALSE
INVARIANTS
  OwnChunksOnly
  SubtitlesAccounted
  ClockNearInput
  HealthyIsReported
PROPERTIES
  SubtitlesComeBack
