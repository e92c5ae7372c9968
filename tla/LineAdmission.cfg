SPECIFICATION LiveSpec
CHECK_DEADLOCK FALSE
CONSTANTS
  s1 = s1
  s2 = s2
  Sweepers <- TwoSweeps
  StaleAfter = 1
  Gap = 1
  MaxTime = 2
  Plans <- AllPlans
INVARIANTS
  TypeOK
  AckedIsRecoverable
  OneJob
  LabelsTell
PROPERTY AckedSettles
