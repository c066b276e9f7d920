\* One process that stops, crashes and is started again, with a queue of one.
SPECIFICATION FairSpec
CONSTANTS
  Schedules = {1}
  Paths = {1, 2}
  UniquePaths = FALSE
  Procs = {p1}
  Users = {}
  MaxRuns = 2
  MaxPending = 1
  Retention = 1
  MaxStops = 1
  Errors = FALSE
  None = None
INVARIANT SuccessHasFile
INVARIANT RetentionSparesNewest
PROPERTY CancelTakesEffect
