\* Crashes and requeues, but every send is answered truthfully and SQLite works.
CONSTANTS
  Users = {u1, u2}
  MaxRows = 2
  Amounts = {1, 2}
  InitialShares = 2
  StopFlags = {"vault_paused", "degraded"}
  SubmitRetries = 2
  MaxRequeues = 1
  LostAnswers = FALSE
  DbFaults = FALSE
  MayCrash = TRUE
SPECIFICATION FairSpec
INVARIANTS
  PaidAtMostOnce
  FailedIsUnpaid
  RowIsOurs
PROPERTIES
  ImplementsLedger
  EventuallySettled
