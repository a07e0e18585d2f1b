SPECIFICATION Spec
CONSTANTS
  MaxMeetings = 1
  MaxWindows = 2
  MaxFaults = 1
  Faults = {"db"}
INVARIANTS
  NothingIsOverwritten
CHECK_DEADLOCK FALSE
