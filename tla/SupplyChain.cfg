SPECIFICATION Spec
CHECK_DEADLOCK FALSE
CONSTANTS
  Nothing = Nothing
  p1 = p1
  p2 = p2
  Processes <- TheProcesses
  Scenarios <- AllScenes
  MaxAttempts = 2
  MaxCalls = 2
INVARIANTS
  TypeOK
  StockNeverNegative
  OnceOrNotAtAll
  DoneIsStored
  DocumentsMatchLedger
  RefundsWithinPaid
  CountedStockStood
PROPERTIES
  PlacedHoldsFit
SYMMETRY Replicas
