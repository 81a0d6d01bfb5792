\* Every fault, and every command of the operator beside the bot.
CONSTANTS
  Procs = {"bot", "cli"}
  Commands = {"force", "exit", "reconcile", "orphan", "clear"}
  MaxMints = 2
  MaxDays = 1
  DailyMax = 1
  LostAnswers = TRUE
  DbFaults = TRUE
  MayCrash = TRUE
SPECIFICATION Spec
INVARIANTS
  StoredWasOpened
  ReplacesNotAdds
