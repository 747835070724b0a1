SPECIFICATION Spec
CONSTANTS
  Timeframes <- MCTimeframes
  Day = 6
  DeadZone = {5}
  PaperScout = FALSE
  Prices = {1, 2}
  BootPrice = 1
  BootTimes = {3, 5}
  BootLimit = 2
  MaxLate = 1
  MaxTime = 7
  MaxTrades = 4
INVARIANTS
  TypeOK
  CandlesStrictlyOrdered
  CandlesMatchTrades
  HigherTimeframesEndedBefore
  VwapSpillsOneCandle
CHECK_DEADLOCK FALSE
