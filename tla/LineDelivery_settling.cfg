SPECIFICATION SettlingSpec
CONSTANTS
  Jobs = {j1}
  Claimants = {w1}
  Senders = {s1}
  Lease = 2
  TTL = 2
  ReplyWindow = 1
  SendReserve = 0
  AnswerBudget = 1
  MaxTime = 7
  MaxAccount = 1
  SendLease = 1
  Backoff = 1
  RetryWindow = 2
  OwnerCarried = FALSE
  MaxPause = 1
  WireLife = 1
  KeyLife = 4
  MaxCrashes = 1
  MaxEarly = 0
  Horizon = 2
PROPERTY ServerJobsSettle
CHECK_DEADLOCK FALSE
