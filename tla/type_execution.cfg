\* Three requests that compete for two ids with two contexts, one observer.
CONSTANTS
  Ids = {e1, e2}
  Contexts = {x1, x2}
  Blank = Blank
  Requests = {q1, q2, q3}
  Observers = {o1}
SYMMETRY RequestSymmetry
SPECIFICATION Spec
INVARIANTS
  NeverReplayed
  ObservedTerminalIsTrue
  KnownReplyIsDurable
PROPERTIES
  ImplementsExecuteOnce
CHECK_DEADLOCK FALSE
