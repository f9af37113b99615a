\* Crashes between any two events, one device named twice, two agents, one
\* instant.
CONSTANTS
  NoAgent = NoAgent
  r1 = r1
  d1 = d1
  a1 = a1
  a2 = a2
  ReleaseId = {r1}
  Device = {d1}
  Agent = {a1, a2}
  Request <- NamedTwice
  TTLs = {1}
  LeaseTTL = 1
  Second = 1
  Minute = 1
  MaxTime = 1
  MaxAttempts = 2
  MaxFailed = 0
  MaxRefusals = 0
SPECIFICATION DurableSpec
SYMMETRY AgentSymmetry
INVARIANTS CompletedStaysQuiet RolledBackStaysClean
PROPERTY CompletionLogged
CHECK_DEADLOCK FALSE
