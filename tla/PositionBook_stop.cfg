SPECIFICATION Spec
CONSTANTS
  Ids = {a}
  Symbols = {btc}
  MaxPrice = 4
  MaxHold = 1
INVARIANT
  BreakevenStopIsHonoured
