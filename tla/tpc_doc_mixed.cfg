SPECIFICATION Spec
CONSTANTS
  Participants = {p1, p2, p3}
  MaxRetries = 1
  MaxCrashes = 1
  LostReplies = FALSE
SYMMETRY ParticipantSymmetry
INVARIANT RolledBackIsTrue
