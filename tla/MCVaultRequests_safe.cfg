\* Requests, whitelist changes, ticks and restarts.
CONSTANTS
  Users = {u1}
  Addresses = {a1, a2}
  Amounts = {0, 1}
  InitialShares = 2
  MinAmount = 1
  DailyCount = 2
  DailyUsd = 9
  QueueMax = 2
  Day = 1
  Cooldown = 1
  MaxTime = 2
  MaxRows = 1
  MaxChanges = 3
  MayCrash = TRUE
SPECIFICATION Spec
INVARIANTS
  TypeOK
  DestinationMatured
  NewestChangeCounts
PROPERTIES
  ReplacedAfterCooldown
