SPECIFICATION Spec
CONSTANTS
  s1 = s1
  s2 = s2
  s3 = s3
  Setups = {s1, s2, s3}
  HighConfidence = {s1, s2}
  StrategyOf <- MCStrategyOf
  RegimeOf <- MCRegimeOf
  SymbolOf <- MCSymbolOf
  ClientIdOf <- MCClientIdOf
  TaOf <- MCTaOf
  Pnls <- MCPnls
  BaseTa = 60
  StreakTrigger = 2
  StreakPause = 1
  HourLoss = 4
  HourPause = 2
  Hour = 1
  MinTrades = 2
  BlacklistTrades = 3
  LongPause = 3
  WindowSize = 2
  OutcomeCap = 3
  MaxTime = 1
  MaxCrashes = 1
INVARIANTS
  TypeOK
  MisattributionNeedsOverlap
  KellyCountsOncePerRefresh
PROPERTIES
  PauseMatchesOutcomes
CHECK_DEADLOCK FALSE
SYMMETRY Alike
