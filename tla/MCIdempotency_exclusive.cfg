CONSTANTS
  r1 = r1
  r2 = r2
  r3 = r3
  p1 = p1
  p2 = p2
  Requests = {r1, r2, r3}
  Fingerprints = {p1, p2}
  Fingerprint <- MCFingerprint
  LockTTL = 2
  RecordTTL = 2
  WaitTimeout = 1
  MayFail = FALSE
  NoValue = NoValue
SPECIFICATION IdempotencySpec
INVARIANTS
  ExclusiveWhileLocked
