SPECIFICATION FencingSpec
SYMMETRY Pair
CONSTANTS
  Jobs = {j1}
  Claimants = {w1, w2}
  Senders = {s1}
  Lease = 2
  TTL = 3
  ReplyWindow = 1
  SendReserve = 0
  AnswerBudget = 1
  MaxTime = 3
  MaxAccount = 3
  SendLease = 1
  Backoff = 1
  RetryWindow = 2
  OwnerCarried = TRUE
  MaxPause = 1
  WireLife = 1
  KeyLife = 4
  MaxCrashes = 0
  MaxEarly = 0
  Horizon = 0
INVARIANTS FencedWorkStops CohortHolds AnswerOfLatestExecution OneExecutor ClosedHoldsNoToken
PROPERTIES ClosedStaysClosed OutOfHoursReplyKept
CHECK_DEADLOCK FALSE
