CONSTANTS
  Callers = {c1, c2, c3}
  Keys = {k1}
  TTL = 2
  MaxCalls = 2
  NoValue = NoValue
SPECIFICATION FairSpec
INVARIANTS
  LeaseIsBacked
  MutualExclusionWithinLease
PROPERTIES
  ReleasedOnlyByItsHolder
  KeyComesFree
