--------------------------- MODULE MCDecisionPath ---------------------------
(* Constants of DecisionPath a cfg cannot write: a range market and what     *)
(* makes each strategy fire out of it, on both sides of the VWAP or band.    *)
EXTENDS DecisionPath

RangeMarket ==
  [adx |-> 18, chop |-> 500, diUp |-> TRUE, rsi |-> 50, atr |-> 40, vwap |-> 10020, slope |-> 0,
   ofi |-> 0, vol |-> 100, roc |-> 0, low |-> 9990, high |-> 10010, highest |-> 10200,
   lowest |-> 9800, bbLower |-> 9900, bbMid |-> 10000, bbUpper |-> 10100,
   keltnerLower |-> 9910, keltnerUpper |-> 10090, ema8 |-> Cold, ema21 |-> Cold,
   ema50 |-> Cold, ema200 |-> Cold, candles |-> 30, trend |-> 0,
   htf |-> [tf \in {900, 3600} |-> 0]]

NearVwap == [RangeMarket EXCEPT !.vwap = 10010, !.atr = 20, !.slope = 5, !.ofi = 1, !.ema200 = 9900]
TrendMarket    == [RangeMarket EXCEPT !.adx = 30, !.chop = 300, !.vol = 200, !.atr = 80, !.vwap = Cold]

Banded(mid, half) ==
  [RangeMarket EXCEPT !.vwap = Cold, !.atr = 60, !.bbMid = mid, !.bbLower = mid - half,
                      !.bbUpper = mid + half]

MCMarkets ==
  {RangeMarket, NearVwap,
   [RangeMarket EXCEPT !.vwap = 9975],                                  \* long, target behind
   [RangeMarket EXCEPT !.vwap = 9980, !.slope = 0 - 20],                \* short
   [RangeMarket EXCEPT !.vwap = 10025, !.slope = 0 - 20],               \* short, target behind
   \* closed below the lower band, above the upper one, and a spike to the
   \* lower band that closed above the middle
   [Banded(10085, 80) EXCEPT !.low = 9990, !.rsi = 25],
   [Banded(9915, 80) EXCEPT !.high = 10010, !.rsi = 75],
   [Banded(9960, 60) EXCEPT !.low = 9890, !.rsi = 25],
   [TrendMarket EXCEPT !.highest = 9990, !.roc = 60],                   \* breakout up
   [TrendMarket EXCEPT !.lowest = 10010, !.roc = 0 - 60, !.diUp = FALSE],
   [TrendMarket EXCEPT !.ema8 = 9990, !.ema21 = 9980, !.ema50 = 9960, !.ema200 = 9900],
   [TrendMarket EXCEPT !.adx = 45, !.roc = 40, !.bbMid = 9970, !.bbLower = 9870,
                       !.bbUpper = 10070],         \* out of a squeeze
   [RangeMarket EXCEPT !.vwap = Cold, !.htf[3600] = 0 - 1]}             \* nothing but the scout

MCConfigs ==
  {[scout |-> TRUE,  brainKey |-> TRUE,  manager |-> TRUE,  failClosed |-> FALSE, failOpen |-> TRUE],
   [scout |-> FALSE, brainKey |-> TRUE,  manager |-> TRUE,  failClosed |-> TRUE,  failOpen |-> TRUE],
   [scout |-> FALSE, brainKey |-> TRUE,  manager |-> FALSE, failClosed |-> TRUE,  failOpen |-> TRUE],
   [scout |-> FALSE, brainKey |-> FALSE, manager |-> FALSE, failClosed |-> TRUE,  failOpen |-> FALSE]}

MCActive == {"VwapScalp", "MeanReversion", "Momentum", "EmaRibbon", "Squeeze"}

\* A snapshot that lets a long pass, one that blocks it.
MCSnapshots ==
  {[news |-> 80, social |-> 80, onchain |-> 60, fearGreed |-> 70, funding |-> 0],
   [news |-> 0 - 80, social |-> 0 - 70, onchain |-> 0 - 60, fearGreed |-> 20, funding |-> 0 - 3]}

ColdStart == [trades |-> 0, winPct |-> 0, avgWin |-> 0, avgLoss |-> 0, vol |-> Cold,
              cvar |-> Cold, kalman |-> 0, correlated |-> 0]
MCQuantStates ==
  {ColdStart,
   [ColdStart EXCEPT !.trades = 30, !.winPct = 55, !.avgWin = 2, !.avgLoss = 1, !.correlated = 2],
   [ColdStart EXCEPT !.trades = 30, !.winPct = 40, !.avgWin = 1, !.avgLoss = 1,
                     !.vol = 5, !.kalman = 1, !.cvar = 100],
   [ColdStart EXCEPT !.vol = 0, !.kalman = 0 - 1, !.cvar = 290]}

MCLessons == {"none", "block", "derate", "boost"}
MCSpreads == {Cold, 3, 9}
MCFundings == {0, 12}
MCOffsets == {0 - 80, 0, 80}
=============================================================================
