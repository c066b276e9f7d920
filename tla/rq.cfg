\* A client that cancels, waits and cancels again, and an id of two owners of every kind,
\* under the fairness of threads, wakers and timers.
CONSTANTS
  Ids = {e1}
  NoId = NoId
  Clients = {c1}
  Kinds = {"plain", "tracked", "child"}
  MaxReg = 2
SPECIFICATION FairSpec
INVARIANTS
  TerminalMeansReleased
  ProvenMeansEnded
  StoredInterruptReachable
  CancelReachesInterrupt
PROPERTIES
  EntryLeavesByOwnHand
  CompletionIsSent
  DetachedIsReclaimed
CHECK_DEADLOCK FALSE
