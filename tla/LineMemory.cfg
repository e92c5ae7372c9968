SPECIFICATION LiveSpec
CHECK_DEADLOCK FALSE
CONSTANTS
  j1 = j1
  j2 = j2
  s1 = s1
  s2 = s2
  c1 = c1
  c2 = c2
  Jobs <- TheJobs
  Scanners <- TheScanners
  Couriers <- TheCouriers
  Wire = 1
  Grace = 2
  ClaimTime = 1
  MaxAttempts = 2
  DeliveryLease = 1
  Plans <- ThePlans
  MaxTime = 8
INVARIANTS
  TypeOK
  ErasedStaysErased
PROPERTIES
  DeliveryTellsTruth
  OutboxesDrain
