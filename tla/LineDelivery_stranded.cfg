SPECIFICATION SettlingSpec
CONSTANTS
  Jobs = {j1}
  Claimants = {w1}
  Senders = {s1}
  Lease = 2
  TTL = 2
  ReplyWindow = 1
  SendReserve = 0
  AnswerBudget = 1
  MaxTime = 7
  MaxAccount = 0
  SendLease = 1
  Backoff = 1
  RetryWindow = 2
  OwnerCarried = TRUE
  MaxPause = 1
  WireLife = 1
  KeyLife = 4
  MaxCrashes = 0
  MaxEarly = 0
  Horizon = 2
PROPERTY RuntimeJobsSettle
CHECK_DEADLOCK FALSE
