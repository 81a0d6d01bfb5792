\* One user, from before or after the enrolment, with restarts.
CONSTANTS
  Users = {u1}
  Threshold = 2
  FailureWindow = 2
  Lockout = 2
  Unlock = 2
  SetupMax = 2
  MaxTime = 3
  MayCrash = TRUE
  QueueMax = 2
SPECIFICATION FairSpec
INVARIANTS
  TypeOK
  CodeCountsOnce
  GuessesBounded
  ActsAreProved
  InOrderOnce
PROPERTIES
  NothingSkipped
  QueueMoves
