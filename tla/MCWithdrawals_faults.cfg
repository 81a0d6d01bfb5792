\* Every fault the code handles: lost answers, failing SQLite writes, crashes.
CONSTANTS
  Users = {u1, u2}
  MaxRows = 2
  Amounts = {2}
  InitialShares = 2
  StopFlags = {"degraded"}
  SubmitRetries = 2
  MaxRequeues = 1
  LostAnswers = TRUE
  DbFaults = TRUE
  MayCrash = TRUE
SPECIFICATION Spec
SYMMETRY Symmetry
INVARIANTS
  CompletedIsPaid
  SharesMatchCompleted
PROPERTIES
  SentIsFrozen
