SPECIFICATION Spec
CONSTANTS
  Clients = {p1, p2}
  Requests = {r1}
  QueueSize = 1
  MaxContent = 3
  MaxVolatile = 1
  MaxConnects = 2
  MaxFetches = 2
  MaxFaults = 1
SYMMETRY Pages
INVARIANTS
  LossIsSignalled
  
CHECK_DEADLOCK FALSE
