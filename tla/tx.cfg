\* Two callers that call again and again, one closer, and server settings that
\* also open transactions nobody asked for.
CONSTANTS
  Calls = {a1, a2}
  Closers = {k1}
  Autocommit = FALSE
  Chain = TRUE
  MaxTx = 2
  None = None
SPECIFICATION FairSpec
INVARIANTS
  OutcomeIsTrue
  IdleMeansNoTransaction
  CommittedOnRequestOnly
PROPERTIES
  ClosersReturn
  NothingLeftOpen
CHECK_DEADLOCK FALSE
