CONSTANTS
  p1 = p1
  p2 = p2
  s1 = s1
  s2 = s2
  s3 = s3
  Slots = {s1, s2, s3}
  Processes = {p1, p2}
  process <- MCProcess
  NoProcess = NoProcess
  Attempts = 3
  MaxRetries = 3
  MaxStalled = 1
SPECIFICATION WebhookFairSpec
INVARIANTS
  SendsBounded
  CompletedIsKnown
PROPERTIES
  JobSettles
  FailedGetsForwarded
CHECK_DEADLOCK FALSE
