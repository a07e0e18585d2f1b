SPECIFICATION Spec
CONSTANTS
  QueueSize = 2
  SocketSize = 1
  MaxFrames = 3
  MaxFaults = 3
  MaxLeases = 2
  MaxAttempts = 2
  MaxCancels = 2
INVARIANTS
  FramesAccounted
  ActiveIsAgreed
  HelperReclaimed
PROPERTIES
  FailureEndsCapture
CHECK_DEADLOCK FALSE
