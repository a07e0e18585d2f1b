SPECIFICATION Spec
CONSTANTS
  MaxMeetings = 2
  MaxWindows = 3
  MaxFaults = 3
  Faults = {"db", "commit", "journal", "capture", "cancel", "crash"}
CHECK_DEADLOCK FALSE
INVARIANTS
  CompletedIsComplete
  FirstStopsSettle
  CrashLosesNothing

  
