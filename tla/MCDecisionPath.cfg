SPECIFICATION Spec
CONSTANTS
  Configs <- MCConfigs
  Active <- MCActive
  Markets <- MCMarkets
  Snapshots <- MCSnapshots
  QuantStates <- MCQuantStates
  Lessons <- MCLessons
  Spreads <- MCSpreads
  Fundings <- MCFundings
  AdjustOffsets <- MCOffsets
  AdjustSizes = {5, 300}
  LlmConfidences = {50, 90}
  LlmPrices = {0, 9940, 9995, 10060}
  MinScore = 20
  ReduceDelta = 5
  FallbackTa = 62
  FastApproveMin = 80
  RiskPerTrade = 50
  MaxLeverage = 3
  MaxNotionalPct = 40
  MinRewardRisk = 100
  MaxSpread = 4
  MinNetEdge = 0
  FeeAndSlippage = 6
  FundingBlock = 10
  MinTaConfidence = 60
  BaseRisk = 50
  KellyCap = 25
  KellyMinTrades = 20
  TargetVol = 15
  MaxVolPct = 200
  MaxVar = 300
INVARIANTS
  OrderGeometry
  SizeWithinCaps
  BlackoutOnlyFastApproves
