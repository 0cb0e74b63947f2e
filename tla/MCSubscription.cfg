CONSTANTS
  Workers = {w1, w2}
  Plans = {1, 2, 3}
  InitialPlan = 2
  MaxRetries = 2
  MayFail = TRUE
  MayLose = TRUE
  MaxVersion = 4
  MaxPayments = 2
SPECIFICATION FairSpec
INVARIANTS
  PlanIsBacked
PROPERTIES
  FreshSavesAreLegal
  RenewalEnds
CHECK_DEADLOCK FALSE
