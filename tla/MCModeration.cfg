CONSTANTS
  m1 = m1
  m2 = m2
  a1 = a1
  a2 = a2
  Reports = {r1, r2}
  Reviewers = {v1}
  Sweeps = {s1}
  ModeratorPools <- MCModeratorPools
  AdminPools <- MCAdminPools
  NoOne = NoOne
  MaxSetbacks = 1
SPECIFICATION FairSpec
INVARIANTS
  ItemFollowsReport
PROPERTIES
  OnlyOvertakenSavesUndo
  OverdueGetsAttention
  SweepEnds
CHECK_DEADLOCK FALSE
