SPECIFICATION SendingSpec

CONSTANTS
  Jobs = {j1}
  Claimants = {w1}
  Senders = {s1}
  Lease = 2
  TTL = 3
  ReplyWindow = 1
  SendReserve = 0
  AnswerBudget = 2
  MaxTime = 4
  MaxAccount = 0
  SendLease = 1
  Backoff = 1
  RetryWindow = 2
  OwnerCarried = FALSE
  MaxPause = 1
  WireLife = 1
  KeyLife = 4
  MaxCrashes = 0
  MaxEarly = 1
  Horizon = 0
INVARIANT FailedNotDelivered
CHECK_DEADLOCK FALSE
