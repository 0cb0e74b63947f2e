CONSTANTS
  Workers = {w1, w2}
  Users = {u1}
  Second = 2
  Life <- MCLife
  MaxTime = 2
  MaxPairs = 3
  MaxFailures = 1
SPECIFICATION Spec
INVARIANTS
  RevocationHolds
  BlacklistedUntilExpired
  ReuseHasACause
CHECK_DEADLOCK FALSE
