\* A failed write may leave part of its record, a crash all but the newline.
CONSTANTS
  x = x
  y = y
  Aggregate = {x, y}
  CrashTails = {"nothing", "unterminated"}
  ErrorTails = {"nothing", "part"}
  MaxRevision = 5
SPECIFICATION Spec
INVARIANT AckedSurvives
CHECK_DEADLOCK FALSE
