------------------------------- MODULE Sizing -------------------------------
(***************************************************************************)
(* How large a position is: the risk manager's checks and base size        *)
(* (execution/risk.rs, execution/tcm.rs), the quant engine's multiplier    *)
(* (quant.rs, portfolio) and the part of a lesson that touches it.         *)
(*                                                                         *)
(* A size is its notional, in basis points of the equity.  Distances,      *)
(* costs and funding are in basis points of the entry, multipliers in      *)
(* percent, the Kelly fraction and the reward/risk ratio in hundredths.    *)
(***************************************************************************)
EXTENDS Strategies

CONSTANTS
  RiskPerTrade,     \* risk_per_trade_pct
  MaxLeverage, MaxNotionalPct, MinRewardRisk, MaxSpread, MinNetEdge,
  FeeAndSlippage,   \* of one side
  FundingBlock, MinTaConfidence,
  BaseRisk,         \* base_risk_pct of the risk agent, a default no file sets
  KellyCap, KellyMinTrades, TargetVol, MaxVolPct, MaxVar

Integral ==
  {RiskPerTrade, MaxLeverage, MaxNotionalPct, MinRewardRisk, BaseRisk, KellyCap, TargetVol,
   MaxVolPct} \subseteq Int

\* What a configuration that was loaded satisfies.
Validated ==
  /\ RiskPerTrade \in 1 .. 500
  /\ MinRewardRisk > 0 /\ MinNetEdge >= 0
  /\ MaxNotionalPct > 0 /\ MaxNotionalPct <= MaxLeverage * 100

ASSUME ConfigAssumption == Integral /\ Validated

Distance(s) == Magnitude(s.entry - s.stopLoss)
Reward(s)   == Magnitude(s.takeProfit - s.entry)

NotionalCap == Least(MaxLeverage * 10000, MaxNotionalPct * 100)

\* multiplier is the survival agent's.
CalculateSize(s, multiplier) ==
  IF Distance(s) = 0 THEN 0
  ELSE Least(NotionalCap, (RiskPerTrade * multiplier * 100) \div Distance(s))

RoundTripCost == 2 * FeeAndSlippage

\* The reward is a distance: on which side of the entry it lies is not asked.
ValidateSignal(s, spread) ==
  /\ Distance(s) > 0
  /\ Reward(s) * 100 >= MinRewardRisk * Distance(s)
  /\ spread = Cold \/ spread <= MaxSpread
  /\ MinNetEdge > 0 => Reward(s) - RoundTripCost >= MinNetEdge

FundingBlocks(side, rate) == Sign(side) * rate >= FundingBlock

-----------------------------------------------------------------------------
(* The quant engine; q is what it knows of a symbol and of past trades *)

KellyFraction(q) ==
  IF q.avgWin <= 0 \/ q.avgLoss <= 0 THEN 0
  ELSE Clamp(q.winPct - ((100 - q.winPct) * q.avgLoss) \div q.avgWin, 0, KellyCap)

\* A fraction of zero, of a cold start or of a losing record, changes nothing.
KellyMultiplier(q) ==
  IF q.trades < KellyMinTrades \/ KellyFraction(q) = 0 THEN 100
  ELSE Least((KellyFraction(q) * 100) \div Greatest(BaseRisk, 1), 200)

VolMultiplier(q) ==
  IF q.vol = Cold THEN 100
  ELSE IF q.vol = 0 THEN 0
  ELSE Least((TargetVol * 100) \div q.vol, MaxVolPct)

VarRejects(q, s) == q.cvar # Cold /\ Distance(s) + q.cvar > MaxVar

KalmanMultiplier(q, side) ==
  CASE Sign(side) * q.kalman < 0 -> 70
    [] Sign(side) * q.kalman > 0 -> 115
    [] q.kalman = 0 -> 100

CorrelationPenalty(q) == IF q.correlated = 0 THEN 100 ELSE IF q.correlated = 1 THEN 85 ELSE 72

Of(percent, x) == (percent * x) \div 100

ComputeSizing(q, side) ==
  Clamp(Of(CorrelationPenalty(q),
           Of(KalmanMultiplier(q, side), Of(VolMultiplier(q), KellyMultiplier(q)))),
        10, 300)

-----------------------------------------------------------------------------
(* What a lesson that applies does to a setup *)

Verdict(lesson) ==
  CASE lesson = "none"   -> [allowed |-> TRUE, size |-> 100, taDelta |-> 0]
    [] lesson = "block"  -> [allowed |-> FALSE, size |-> 0, taDelta |-> 0]
    [] lesson = "derate" -> [allowed |-> TRUE, size |-> 50, taDelta |-> 10]
    [] lesson = "boost"  -> [allowed |-> TRUE, size |-> 120, taDelta |-> 0 - 5]

EffectiveTaThreshold(lesson) == Clamp(MinTaConfidence + Verdict(lesson).taDelta, 0, 100)

MaxBoost == 120
=============================================================================
