\* Rejections past the retry limit of two tasks; one failure is tolerated.
CONSTANTS
  NoAgent = NoAgent
  r1 = r1
  d1 = d1
  d2 = d2
  a1 = a1
  a2 = a2
  ReleaseId = {r1}
  Device = {d1, d2}
  Agent = {a1}
  Request <- TwoDevices
  TTLs = {1}
  LeaseTTL = 1
  Second = 1
  Minute = 1
  MaxTime = 3
  MaxAttempts = 3
  MaxFailed = 1
SPECIFICATION WireSpec
PROPERTY FailureTriggersRollback
CHECK_DEADLOCK FALSE
