SPECIFICATION Spec
CONSTANTS
  query1 = query1
  query2 = query2
  summary1 = summary1
  summary2 = summary2
  Requests <- MCRequests
  Priority <- MCPriority
  Background <- MCBackground
  Revocable <- MCRevocable
  Cancellable <- MCRequests
INVARIANTS
  SlotWellKept
PROPERTIES
  AdmittedInTurn
  WaitersAnswered
CHECK_DEADLOCK FALSE
