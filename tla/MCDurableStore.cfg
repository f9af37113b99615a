\* Crashes at every point, and writes that fail without leaving a partial record.
CONSTANTS
  x = x
  y = y
  Aggregate = {x, y}
  CrashTails = {"nothing", "part", "all"}
  ErrorTails = {"nothing", "all"}
  MaxRevision = 5
SPECIFICATION Spec
INVARIANTS TypeOK AckedSurvives AuditFaithful
PROPERTY ImplementsEventLog
CHECK_DEADLOCK FALSE
