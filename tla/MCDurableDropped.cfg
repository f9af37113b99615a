\* A store that refuses one event.
CONSTANTS
  NoAgent = NoAgent
  r1 = r1
  d1 = d1
  a1 = a1
  a2 = a2
  ReleaseId = {r1}
  Device = {d1}
  Agent = {a1, a2}
  Request <- Solo
  TTLs = {1}
  LeaseTTL = 1
  Second = 1
  Minute = 1
  MaxTime = 1
  MaxAttempts = 2
  MaxFailed = 0
  MaxRefusals = 1
SPECIFICATION DurableSpec
SYMMETRY AgentSymmetry
PROPERTY CompletionStored
CHECK_DEADLOCK FALSE
