\* Two tasks, three operations between them, on one key of each driver.
CONSTANTS
  Workers = {w1, w2}
  Configs <- EveryDriver
  Ops = {"get", "connect", "connectDb", "close", "disconnect", "cleanup", "sweep", "reclaim", "shutdown"}
  MaxPools = 2
  MaxPub = 3
  MaxTasks = 3
  MaxOps = 3
  None = None
SPECIFICATION Spec
SYMMETRY WorkerSymmetry
INVARIANTS
  OneOwner
  NoTaskOutlivesShutdown
  WaitersHaveWakers
PROPERTIES
  UsedPoolStays
CHECK_DEADLOCK FALSE
