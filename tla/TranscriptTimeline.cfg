SPECIFICATION TimelineSpec
CONSTANTS
  MaxTime = 6
  MaxTurns = 2
  Nominals = {1, 2}
  Announced = {{}, {"start"}, {"stop"}, {"start", "stop"}}
  Voices = {1, 2}
  MinDuration = 2
  OneFlicker = 1
  TwoFlicker = 2
  HangoverGap = 2
  MaxBuffer = 5
  MinFlush = 3
INVARIANTS
  
  
  LabelledByVoice

  
CHECK_DEADLOCK FALSE
