\* Three schedules that share a queue of two, without end.
SPECIFICATION FairSpec
CONSTANTS
  Schedules = {1, 2, 3}
  MaxPending = 2
  OneShot = 0
PROPERTY DueIsServed
