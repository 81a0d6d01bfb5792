\* A send may throw although its transaction lands.
CONSTANTS
  Users = {u1, u2}
  MaxRows = 1
  Amounts = {1, 2}
  InitialShares = 2
  StopFlags = {"degraded"}
  SubmitRetries = 2
  MaxRequeues = 0
  LostAnswers = TRUE
  DbFaults = FALSE
  MayCrash = FALSE
SPECIFICATION Spec
INVARIANT
  FailedIsUnpaid
