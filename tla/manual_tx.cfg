\* Three requests at a time on one session.
CONSTANTS
  Calls = {c1, c2, c3}
  Watch = Watch
  Disc = Disc
  Guard = Guard
  None = None
SPECIFICATION FairSpec
INVARIANTS
  KnownIsTrue
  GoneAfterDisconnect
PROPERTIES
  NeverOnPoisoned
  EndedIsReleased
