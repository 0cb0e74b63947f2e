CONSTANTS
  Workers = {w1, w2}
  Sids = {s1, s2}
  NoSid = NoSid
  MaxSessions = 1
  MaxRecVersion = 2
  MaxDeaths = 1
SPECIFICATION SessionFairSpec
INVARIANTS
  SessionTypeOK
  IndexBounded
PROPERTIES
  StaleEntriesCleaned
CHECK_DEADLOCK FALSE
