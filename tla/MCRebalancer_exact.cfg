\* Every answer truthful, SQLite works, no crash; the operator clears degraded,
\* stops the bot, exits and closes positions beside it.
CONSTANTS
  Procs = {"bot", "cli"}
  Commands = {"clear", "pause", "exit", "orphan"}
  MaxMints = 4
  MaxDays = 2
  DailyMax = 2
  LostAnswers = FALSE
  DbFaults = FALSE
  MayCrash = FALSE
SPECIFICATION FairSpec
INVARIANTS
  AtMostOnePosition
  NothingOrphaned
  DailyCap
PROPERTIES
  OpensEventually
