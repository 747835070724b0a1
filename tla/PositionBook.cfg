SPECIFICATION Spec
CONSTANTS
  Ids = {a}
  Symbols = {btc, eth}
  MaxPrice = 5
  MaxHold = 1
INVARIANTS
  TypeOK
  BreakevenKeepsEntry
  TrailLocksHalfOfBest
PROPERTY
  StopNeverLoosens
