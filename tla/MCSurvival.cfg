SPECIFICATION FairSpec
CONSTANTS
  InitialEquity = 20
  MaxOpenPositions = 1
  MaxDrawdownPct = 100
  MaxDailyLossPct = 1000
  StreakShort = 1
  StreakLong = 3
  DailyLosses = 3
  DeathPct = 95
  AutoFlatPct = 10
  RatchetPct = 2
  McPenalties = {0}
  Pnls <- MCSwings
  Balances = {21}
  MaxEvents = 3
INVARIANT
  TypeOK
PROPERTIES
  LockoutPrevails
  FitAccountIsReleased
