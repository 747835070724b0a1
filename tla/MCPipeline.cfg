SPECIFICATION FairSpec
CONSTANTS
  s1 = s1
  s2 = s2
  btc = btc
  eth = eth
  id1 = id1
  id2 = id2
  NoSetup = NoSetup
  Setups = {s1, s2}
  Symbols = {btc, eth}
  ClientIds = {id1, id2}
  SymbolOf <- MCSymbolOf
  ClientIdOf <- MCClientIdOf
  Pnls <- MCPnls
  HonorSurvival = TRUE
  MaxEvents = 2
  InitialEquity = 4
  MaxOpenPositions = 1
  MaxDrawdownPct = 50
  MaxDailyLossPct = 50
INVARIANTS
  PipelineTypeOK
  CounterMatchesBook
  FrozenModeStopsLaterVerdicts
PROPERTIES
  ImplementsLifecycle
  EverySetupIsDecided
