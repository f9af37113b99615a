\* A store that refuses events of one call, and crashes; one task without retry,
\* two agents, clock to 3: leases run out and are reaped around the refusal.
CONSTANTS
  NoAgent = NoAgent
  r1 = r1
  d1 = d1
  a1 = a1
  a2 = a2
  ReleaseId = {r1}
  Device = {d1}
  Agent = {a1, a2}
  Request <- OneShot
  TTLs = {1}
  LeaseTTL = 1
  Second = 1
  Minute = 1
  MaxTime = 3
  MaxAttempts = 2
  MaxFailed = 0
  MaxRefusals = 1
SPECIFICATION DurableSpec
SYMMETRY AgentSymmetry
INVARIANTS  ActiveLeaseHeld
CHECK_DEADLOCK FALSE
