CONSTANTS
  r1 = r1
  r2 = r2
  r3 = r3
  p1 = p1
  p2 = p2
  Requests = {r1, r2, r3}
  Fingerprints = {p1, p2}
  Fingerprint <- MCFingerprint
  LockTTL = 1
  RecordTTL = 2
  WaitTimeout = 1
  MayFail = TRUE
  NoValue = NoValue
SPECIFICATION IdempotencyFairSpec
INVARIANTS
  RecordIsBacked
  AnswersAreBacked
PROPERTIES
  OnlyHandlersBlock
