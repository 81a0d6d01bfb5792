\* No fault: polls, sweeps that are dropped and retried, operator commands.
CONSTANTS
  Users = {u1, u2}
  Inflows = {d1, d2}
  Amounts = {1, 2, 3}
  Reserve = 1
  Window = 6
  MaxLate = 1
  LostAnswers = FALSE
  DbFaults = FALSE
  MayCrash = FALSE
SPECIFICATION FairSpec
INVARIANTS
  SweptOnce
  UnsweptIsThere
PROPERTIES
  SweepableIsCredited
