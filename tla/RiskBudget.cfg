SPECIFICATION BudgetSpec
CONSTANTS
  InitialEquity = 3
  MaxOpenPositions = 1
  MaxDrawdownPct = 40
  MaxDailyLossPct = 30
  MaxInFlight = 2
  MaxLoss = 2
  MaxRecovered = 3
  MaxEquity = 3
INVARIANTS
  BudgetTypeOK
  CapOvershootBounded
  DrawdownBudget
  RuinedAccountIsShut
