\* Two sources, prices that agree (10, 11) and one that does not (20). SOL/USD at 9
\* is within the half width (10.5%) of 10, but 10 is not within that of 9.
CONSTANTS
  Sources = {jupiter, dexscreener}
  Quotes = {10, 11, 20}
  SolPrices = {9, 10}
  Divergence <- Tenth
  HalfWidth <- Narrow
  Window = 2
  Required = 2
  MinInterval = 1
  DailyMax = 1
  Holdings <- Lopsided
  SolFloor = 4
  MaxPosition = 9
  SubmitRetries = 2
  MaxAbandoned = 1
SPECIFICATION FairSpec
INVARIANTS
  TypeOK
  RangeHoldsQuotes
  SwapNoWorse
  FloorKept
PROPERTIES
  OldPricesDontCount
  Recentred
