SPECIFICATION Spec
CHECK_DEADLOCK FALSE
CONSTANTS
  Nothing = Nothing
  p1 = p1
  p2 = p2
  Processes <- TheProcesses
  Scenarios <- ReworkScene
  MaxAttempts = 2
  MaxCalls = 2
INVARIANT MadeAsPlanned
