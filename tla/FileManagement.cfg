SPECIFICATION LiveSpec
CHECK_DEADLOCK FALSE
CONSTANTS
  r1 = r1
  r2 = r2
  r3 = r3
  Calls <- Uploads
  Ids <- FourIds
  Replicas <- TwoAndOther
  Bind <- Binding
  Slots = 1
  PageSize = 1
  Plans <- ThePlans
INVARIANTS
  TypeOK
  BytesStand
  HeardIsStored
  VersionsInOrder
  SlotsBalance
  ListingIsWhole
PROPERTY RetrySettles
