CONSTANTS
  c1 = c1
  c2 = c2
  c3 = c3
  t1 = t1
  Raw = Raw
  Callers = {c1, c2, c3}
  Scopes = {Raw, t1}
  ScopeOf <- MCMixed
  LockTTL = 1
  CacheTTL = 1
  MaxWrites = 1
  MayFail = TRUE
  PollsMayFail = TRUE
  NoValue = NoValue
SPECIFICATION FairSpec
INVARIANTS
  TypeOK
PROPERTIES
  UsesLockProperly
  NobodyPollsForEver
  StaleValuesDieOut
