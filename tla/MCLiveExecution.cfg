SPECIFICATION Spec
CONSTANTS
  s1 = s1
  s2 = s2
  s3 = s3
  btc = btc
  Setups = {s1, s2, s3}
  Symbols = {btc}
  SymbolOf <- MCSymbolOf
  SideOf <- MCSideOf
  SizeOf <- MCSizeOf
  StopOf <- MCStopOf
  TargetOf <- MCTargetOf
  FairOf <- MCFairOf
  Lot = 2
  Quotes <- MCQuotes
  MaxCrashes = 1
INVARIANTS
  TypeOK
  UntrackedOnlyByKnownRoutes
  FlatAllIsFinal
  CounterDriftBounded
CHECK_DEADLOCK FALSE
