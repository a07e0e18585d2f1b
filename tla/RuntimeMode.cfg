SPECIFICATION Spec
CONSTANTS
  Clients = {c1, c2}
  Shutdown = shutdown
  Nobody = nobody
  MaxCommands = 3
  Faults = {"error", "callback", "cancel", "absorb", "decay"}
INVARIANTS
  PcmReachesOnlyOwner
  StoppedIsSilent
  Settled
PROPERTIES
  Arbitrated
  CommandsAnswered
CHECK_DEADLOCK FALSE
