\* Lost answers, failing SQLite writes and crashes.
CONSTANTS
  Users = {u1, u2}
  Inflows = {d1, d2}
  Amounts = {1, 3}
  Reserve = 1
  Window = 4
  MaxLate = 1
  LostAnswers = TRUE
  DbFaults = TRUE
  MayCrash = TRUE
SPECIFICATION Spec
SYMMETRY Symmetry
INVARIANTS
  CreditedIsSwept
  MintedOnce
