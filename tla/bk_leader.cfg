\* Two processes that compete for the lock, stop, crash and meet failing calls.
SPECIFICATION Spec
CONSTANTS
  Schedules = {1}
  Paths = {1, 2}
  UniquePaths = TRUE
  Procs = {p1, p2}
  Users = {}
  MaxRuns = 2
  MaxPending = 2
  Retention = 1
  MaxStops = 1
  Errors = TRUE
  None = None
SYMMETRY ProcSymmetry
INVARIANT OneActivePerSchedule
INVARIANT ExecutedByLeader
PROPERTY EndedStaysEnded
