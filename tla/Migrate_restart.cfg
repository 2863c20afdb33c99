CONSTANTS
  N = 3
  Idempotent = {2}
  Procs = {p1, p2}
SPECIFICATION MigrateSpec
INVARIANTS
  AppliedPrefix
  CleanIsComplete
CHECK_DEADLOCK FALSE
