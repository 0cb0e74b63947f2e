CONSTANTS
  MINUTELY = MINUTELY
  HOURLY = HOURLY
  Workers = {w1, w2}
  Clients = {c1}
  Periods <- MCPeriods
  Length <- MCLength
  Limit <- MCLimit
  Loads <- MCLoads
  MaxTime = 2
  MaxRequests = 3
SPECIFICATION Spec
INVARIANTS
  OvershootIsBounded
  BlockedRowsWereFull
  RefusedOnlyWhenRaced
PROPERTIES
  OnlyEndedWindowsVanish
CHECK_DEADLOCK FALSE
