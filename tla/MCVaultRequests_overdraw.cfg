\* Two requests of the whole balance in one tick.
CONSTANTS
  Users = {u1}
  Addresses = {a1}
  Amounts = {0, 1}
  InitialShares = 2
  MinAmount = 1
  DailyCount = 3
  DailyUsd = 9
  QueueMax = 3
  Day = 1
  Cooldown = 1
  MaxTime = 1
  MaxRows = 2
  MaxChanges = 1
  MayCrash = FALSE
SPECIFICATION Spec
INVARIANT
  NoOverdraw
