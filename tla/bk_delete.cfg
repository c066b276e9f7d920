\* Delete commands next to retention, with failing calls and removals.
SPECIFICATION Spec
CONSTANTS
  Schedules = {1}
  Paths = {1, 2}
  UniquePaths = TRUE
  Procs = {p1}
  Users = {u1}
  MaxRuns = 2
  MaxPending = 2
  Retention = 1
  MaxStops = 0
  Errors = TRUE
  None = None
SYMMETRY ProcSymmetry
INVARIANT RemovedLeavesNoFile
