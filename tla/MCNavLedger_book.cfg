CONSTANTS
  Users = {op, u1}
  Operator = op
  InitialNav = 4
  DepositUsd = {3}
  Rent = 1
  RequestUsd = {3}
  Fee <- Quarter
  Splits <- InHalves
  Misread <- OffCenter
  Moves <- UpOrDown
  MaxTime = 1
  MaxOps = 3
SPECIFICATION Spec
INVARIANTS
  BookFollowsMoney
  SnapshotsInOrder
PROPERTIES
  PayoutIsFair
  DilutionBounded
CHECK_DEADLOCK FALSE
