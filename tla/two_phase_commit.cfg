SPECIFICATION Spec
CONSTANTS
  Participants = {p1, p2, p3}
  MaxRetries = 2
  MaxCrashes = 2
  LostReplies = TRUE
SYMMETRY ParticipantSymmetry
INVARIANT CommitNeedsUnanimity
INVARIANT OutcomeIsTrue
INVARIANT NobodyInDoubt
PROPERTY ImplementsAtomicCommit
