\* Crashes between any two events, one task with one retry, two agents, clock to
\* 3: leases run out, are renewed and are reaped around the crashes.
CONSTANTS
  NoAgent = NoAgent
  r1 = r1
  d1 = d1
  a1 = a1
  a2 = a2
  ReleaseId = {r1}
  Device = {d1}
  Agent = {a1, a2}
  Request <- Solo
  TTLs = {1}
  LeaseTTL = 1
  Second = 1
  Minute = 1
  MaxTime = 3
  MaxAttempts = 2
  MaxFailed = 0
  MaxRefusals = 0
SPECIFICATION DurableSpec
SYMMETRY AgentSymmetry
PROPERTIES NoDoubleDispatch LogImplementsTaskLease
CHECK_DEADLOCK FALSE
