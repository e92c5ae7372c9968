SPECIFICATION Spec
CHECK_DEADLOCK FALSE
CONSTANTS
  j1 = j1
  w1 = w1
  w2 = w2
  Jobs <- TheJobs
  Claimants <- TheWorkers
  Lease = 2
  TTL = 4
  ReplyWindow = 1
  SendReserve = 0
  AnswerBudget = 2
  MaxTime = 3
  MaxAccount = 0
  Asks <- AnyAsk
  MemorySync = TRUE
  MaxTurns = 2
  MaxCrashes = 1
INVARIANTS
  TurnTypeOK
  ModelRunsOnce
  AnswerHasReceipt
  DeliversWhatWasCommitted
SYMMETRY Replicas
