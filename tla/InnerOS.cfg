SPECIFICATION Spec
CONSTANTS
  Connections = {k1}
  Savers = {s1, s2}
  MaxQueries = 2
  CacheSize = 1
  MaxFaults = 2
  Other = Other
  None = None
INVARIANTS
  
  KeptUntilSaved
PROPERTIES
  QueriesAreAnswered
CHECK_DEADLOCK FALSE
