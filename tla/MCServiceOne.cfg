\* The whole API on one release with one device and two agents.
CONSTANTS
  NoAgent = NoAgent
  r1 = r1
  d1 = d1
  d2 = d2
  a1 = a1
  a2 = a2
  ReleaseId = {r1}
  Device = {d1}
  Agent = {a1, a2}
  Request <- OneDevice
  TTLs = {1}
  LeaseTTL = 1
  Second = 1
  Minute = 1
  MaxTime = 4
  MaxAttempts = 3
  MaxFailed = 2
SPECIFICATION Spec
SYMMETRY AgentSymmetry
INVARIANTS TypeOK ActiveLeaseHeld TerminalQuiescent
PROPERTIES NoLeaseTheft ImplementsTaskLease
CHECK_DEADLOCK FALSE
