------------------------------ MODULE Strategies ------------------------------
(***************************************************************************)
(* What a closed candle is turned into (src/src/strategy, agents/signal.rs *)
(* from line 131 on): the regime, the strategies chosen for it, their      *)
(* entries with stop, target and confidence, the paper scout and the alpha *)
(* gate, as operators.                                                     *)
(*                                                                         *)
(* A market k is the candle and the indicator values of a symbol.  Prices  *)
(* and the ATR are in basis points of the close, ADX, RSI and confidence   *)
(* in points, choppiness in tenths, ROC and volume ratio in hundredths,    *)
(* the VWAP slope in ten-thousandths.  An indicator that is not warm is    *)
(* Cold, choppiness then reads 500 and the rates of change 0.  The long    *)
(* and the short case of every strategy mirror each other.                 *)
(***************************************************************************)
EXTENDS Integers, FiniteSetsExt

Close == 10000
Cold  == 0 - 1

Sign(side) == IF side = "Long" THEN 1 ELSE 0 - 1
Sides      == {"Long", "Short"}

Least(a, b)    == IF a < b THEN a ELSE b
Greatest(a, b) == IF a > b THEN a ELSE b
Magnitude(x)   == IF x < 0 THEN 0 - x ELSE x
Bonus(test, n) == IF test THEN n ELSE 0
Clamp(x, a, b) == Least(Greatest(x, a), b)

\* The value on the losing, and on the winning side of the two.
Behind(side, a, b) == IF side = "Long" THEN Least(a, b) ELSE Greatest(a, b)
Beyond(side, a, b) == Sign(side) * (a - b) > 0

-----------------------------------------------------------------------------
(* Regime and choice of strategies *)

BandsWarm(k) == k.bbMid # Cold /\ k.keltnerUpper # Cold

InSqueeze(k) == BandsWarm(k) /\ k.bbUpper < k.keltnerUpper /\ k.bbLower > k.keltnerLower

DetectRegime(k) ==
  IF k.adx = Cold THEN "Unknown"
  ELSE IF InSqueeze(k) /\ k.chop > 550 THEN "Squeeze"
  ELSE IF k.adx >= 40 THEN "Volatile"
  ELSE IF k.adx >= 25 /\ k.chop < 382
       THEN IF k.diUp THEN "TrendingBullish" ELSE "TrendingBearish"
  ELSE IF k.adx < 20 \/ k.chop > 618 THEN "Ranging"
  ELSE "Unknown"

Preferred ==
  [TrendingBullish |-> <<"EmaRibbon", "Momentum">>,
   TrendingBearish |-> <<"EmaRibbon", "Momentum">>,
   Ranging         |-> <<"MeanReversion", "VwapScalp", "EmaRibbon">>,
   Volatile        |-> <<"Squeeze", "Momentum">>,
   Squeeze         |-> <<"Squeeze">>,
   Unknown         |-> <<"VwapScalp", "MeanReversion", "EmaRibbon">>]

\* Positions in that list of those switched on.
SelectStrategies(active, regime) ==
  {i \in DOMAIN Preferred[regime] : Preferred[regime][i] \in active}

-----------------------------------------------------------------------------
(* The strategies: the sides each may take, stop, target and confidence *)

Signal(name, side, stop, target, conf) ==
  [strategy |-> name, side |-> side, entry |-> Close, stopLoss |-> stop,
   takeProfit |-> target, conf |-> Clamp(conf, 0, 100)]

\* x times the ATR, in tenths, away from the close.
Away(side, k, x) == Close + Sign(side) * ((x * k.atr) \div 10)

OfiConfirms(side, k) == Sign(side) * k.ofi > 0

DistFromVwap(k) == ((Close - k.vwap) * 10000) \div k.vwap

VwapSides(k) ==
  LET dist  == DistFromVwap(k)
      long  == dist >= 0 - 100 /\ dist <= 30 /\ k.slope >= 0 - 10
      short == dist >= 0 - 30 /\ dist <= 100 /\ k.slope <= 10
  IN IF k.vwap = Cold \/ k.atr = Cold THEN {}
     ELSE IF long THEN {"Long"} ELSE IF short THEN {"Short"} ELSE {}

\* Mutant of VwapScalp: the stop is measured from the VWAP.
VwapScalpFromVwap(k) ==
  {Signal("VwapScalp", side, k.vwap - Sign(side) * ((4 * k.atr) \div 10),
          Behind(side, k.vwap, Away(side, k, 12)), 62) : side \in VwapSides(k)}

\* The target is the VWAP or 1.2 ATR, "whichever is closer": also a VWAP
\* that the close has already passed.
VwapScalp(k) ==
  {Signal("VwapScalp", side, Away(side, k, 0 - 4), Behind(side, k.vwap, Away(side, k, 12)),
     62 + Bonus(Magnitude(k.slope) > 3, 8)
        + (IF Magnitude(DistFromVwap(k)) < 15 THEN 10
           ELSE Bonus(Magnitude(DistFromVwap(k)) < 30, 5))
        + Bonus(OfiConfirms(side, k), 5)) : side \in VwapSides(k)}

BandTouched(side, k) ==
  IF side = "Long" THEN k.low <= k.bbLower /\ k.rsi < 35
  ELSE k.high >= k.bbUpper /\ k.rsi > 65

ReversionScore(k) ==
  62 + (IF k.rsi < 20 \/ k.rsi > 80 THEN 15 ELSE Bonus(k.rsi < 30 \/ k.rsi > 70, 10))
     + (IF k.vol >= 200 THEN 12 ELSE Bonus(k.vol >= 120, 5))
     + (IF k.adx < 15 THEN 10 ELSE Bonus(k.adx < 20, 5))

\* A lower touch comes first; the middle band may lie behind the close too.
MeanReversion(k) ==
  LET band(side) == IF side = "Long" THEN k.bbLower ELSE k.bbUpper
      touched    == {side \in Sides : BandTouched(side, k)}
      side       == IF "Long" \in touched THEN "Long" ELSE "Short"
      width      == k.bbUpper - k.bbLower
  IN IF k.bbMid = Cold \/ k.atr = Cold \/ k.rsi = Cold \/ k.adx > 35 \/ k.vol < 80 \/ touched = {} THEN {}
     ELSE {Signal("MeanReversion", side,
             Behind(side, band(side) - Sign(side) * (width \div 2), Away(side, k, 0 - 8)),
             Behind(side, k.bbMid, Away(side, k, 15)), ReversionScore(k))}

Breaks(side, k) ==
  /\ Beyond(side, Close, IF side = "Long" THEN k.highest ELSE k.lowest)
  /\ Sign(side) * k.roc > 20
  /\ k.ema50 = Cold \/ k.ema200 = Cold \/ Beyond(side, k.ema50, k.ema200)

Momentum(k) ==
  IF k.candles < 21 \/ k.atr = Cold \/ k.vol < 120 THEN {}
  ELSE {Signal("Momentum", side, Away(side, k, 0 - 8), Away(side, k, 15),
          65 + (IF k.vol >= 200 THEN 10 ELSE Bonus(k.vol >= 150, 5))
             + Bonus(OfiConfirms(side, k), 5) + Bonus(Magnitude(k.roc) > 50, 5)
             + Bonus(Magnitude(k.roc) > 100, 5)) : side \in {s \in Sides : Breaks(s, k)}}

\* RSI seen from the side of the trade.
RsiFor(side, k) ==
  LET rsi == IF k.rsi = Cold THEN 50 ELSE k.rsi IN IF side = "Long" THEN rsi ELSE 100 - rsi

Extreme(side, k) == IF side = "Long" THEN k.low ELSE k.high

PullsBack(side, k) ==
  /\ Beyond(side, k.ema8, k.ema21)
  /\ k.ema50 = Cold \/ Beyond(side, k.ema21, k.ema50)
  /\ k.ema200 = Cold \/ Beyond(side, Close, k.ema200)
  /\ Sign(side) * (Extreme(side, k) - k.ema21) * 1000 <= 3 * k.ema21
  /\ Beyond(side, Close, k.ema21)
  /\ RsiFor(side, k) > 35 /\ RsiFor(side, k) < 70

EmaRibbon(k) ==
  LET base(side) == Behind(side, IF k.ema50 = Cold THEN k.ema21 ELSE k.ema50, Extreme(side, k))
  IN IF k.ema8 = Cold \/ k.ema21 = Cold \/ k.atr = Cold THEN {}
     ELSE {Signal("EmaRibbon", side, base(side) - Sign(side) * (k.atr \div 2), Away(side, k, 15),
             66 + Bonus(k.ema50 # Cold /\ k.ema200 # Cold, 5)
                + Bonus(RsiFor(side, k) > 45 /\ RsiFor(side, k) < 60, 5)) :
           side \in {s \in Sides : PullsBack(s, k)}}

Expands(side, k) == Sign(side) * k.roc > 10 /\ Beyond(side, Close, k.bbMid)

Squeeze(k) ==
  IF ~BandsWarm(k) \/ k.atr = Cold \/ InSqueeze(k) THEN {}
  ELSE {Signal("Squeeze", side, Behind(side, k.bbMid, Away(side, k, 0 - 5)), Away(side, k, 12),
          64 + (Least(Magnitude(k.roc), 300) * 4) \div 100
             + Bonus(OfiConfirms(side, k), 5)
             + Bonus(Beyond(side, Close, IF side = "Long" THEN k.bbUpper ELSE k.bbLower), 3)) :
        side \in {s \in Sides : Expands(s, k)}}

Evaluate(name, k) ==
  CASE name = "VwapScalp" -> VwapScalp(k)
    [] name = "MeanReversion" -> MeanReversion(k)
    [] name = "Momentum" -> Momentum(k)
    [] name = "EmaRibbon" -> EmaRibbon(k)
    [] name = "Squeeze" -> Squeeze(k)

-----------------------------------------------------------------------------
(* Which signal is published *)

\* Confidence after the EMA 200 has been consulted.
Adjusted(s, k) ==
  IF k.ema200 = Cold THEN s
  ELSE [s EXCEPT !.conf = IF Beyond(s.side, Close, k.ema200) THEN Least(@ + 3, 100)
                          ELSE Greatest(@ - 8, 0)]

\* What each chosen strategy fires, with its place in the list.
Fired(active, k) ==
  LET regime == DetectRegime(k)
  IN UNION {{[at |-> i, signal |-> Adjusted(s, k)] : s \in Evaluate(Preferred[regime][i], k)} :
              i \in SelectStrategies(active, regime)}

Precedes(x, y) ==
  \/ x.signal.conf > y.signal.conf
  \/ (x.signal.conf = y.signal.conf /\ x.at <= y.at)

\* The first of the most confident.
Best(active, k) ==
  {f.signal : f \in {x \in Fired(active, k) : \A y \in Fired(active, k) : Precedes(x, y)}}

\* Weight of the higher timeframes that closed up over those that closed
\* down; htf gives the direction of each.
HigherTimeframeBias(htf) == MapThenSumSet(LAMBDA tf : htf[tf] * tf, DOMAIN htf)

PaperScout(k) ==
  LET atr  == IF k.atr = Cold THEN Greatest(k.high - k.low, Close \div 1000) ELSE k.atr
      vwap == IF k.vwap = Cold THEN Close ELSE k.vwap
      bias == HigherTimeframeBias(k.htf)
      side == IF bias > 0 \/ (bias = 0 /\ Close >= vwap) THEN "Long" ELSE "Short"
      stop == Greatest((6 * atr) \div 10, Close \div 1000)
  IN IF k.candles < 3 \/ atr <= 0 THEN {}
     ELSE {Signal("VwapScalp", side, Close - Sign(side) * stop,
                  Close + Sign(side) * ((stop * 135) \div 100), 60)}

AltScore(x) ==
  LET fg == Clamp(2 * (x.fearGreed - 50), 0 - 100, 100)
  IN (30 * x.news + 25 * x.social + 25 * x.onchain + 20 * fg) \div 100

\* Receiving funding counts against a long, paying it for one.
FundingPenalty(rateBps) == IF rateBps >= 1 THEN 0 - 10 ELSE IF rateBps <= 0 - 1 THEN 10 ELSE 0

AlphaGate(x, trend, side, minScore) ==
  LET score == Sign(side) * ((45 * AltScore(x) + 45 * Clamp(trend, 0 - 100, 100)) \div 100
                             + FundingPenalty(x.funding))
  IN IF score >= minScore THEN "Allow" ELSE IF score <= 0 - minScore THEN "Block" ELSE "Reduce"

\* A blocked best is not replaced by the second best.
ApplyAlpha(best, k, fresh, minScore, delta) ==
  LET gate(p) == AlphaGate(p[2], k.trend, p[1].side, minScore)
  IN {IF gate(p) = "Reduce" THEN [p[1] EXCEPT !.conf = Greatest(@ - delta, 0)] ELSE p[1] :
        p \in {x \in best \X fresh : gate(x) # "Block"}}

\* At most one signal; without a fresh snapshot of the feeds, or with the
\* gate off, the best one as it is.
Selected(active, k, scout, fresh, minScore, delta) ==
  LET best == Best(active, k)
      tried == IF best = {} /\ scout THEN PaperScout(k) ELSE best
  IN IF fresh = {} THEN tried ELSE ApplyAlpha(tried, k, fresh, minScore, delta)
=============================================================================
