SPECIFICATION FairSpec
CONSTANTS
  Meetings = {m1, m2}
  MaxJobs = 2
  MaxAttempts = 2
  MaxCalls = 2
  MaxRecordings = 2
  MaxFaults = 2
INVARIANTS
  QueueHonest
PROPERTIES
  FinalStays
  JobsSettle
CHECK_DEADLOCK FALSE
