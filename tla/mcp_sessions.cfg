\* Two calls at a time, three sessions over time, room for two.
CONSTANTS
  Requests = {r1, r2}
  MaxIds = 3
  MaxSessions = 2
  MaxOwners = 1
SPECIFICATION FairSpec
INVARIANTS
  SessionsBounded
  NothingForgotten
  ActiveIsServed
CHECK_DEADLOCK FALSE
PROPERTIES
  CallsReturn
