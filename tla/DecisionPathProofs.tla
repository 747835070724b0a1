-------------------------- MODULE DecisionPathProofs --------------------------
(***************************************************************************)
(* Three properties of DecisionPath for every configuration, market,       *)
(* lesson, quant state and answer.  BlackoutInv follows a setup no LLM has *)
(* answered about: its decision is the fallback of its own signal, and     *)
(* where LLMs fail closed only the fast path leads to a verdict.  PathInv  *)
(* follows signal, size, action and order, for SizeWithinCaps and          *)
(* OrderGeometry.                                                          *)
(***************************************************************************)
EXTENDS DecisionPath, TLAPS

Stages == {"idle", "signal", "allowed", "decided", "verdict", "sent"}

UnheardIsFallback ==
  (stage \in {"decided", "verdict", "sent"} /\ ~heard) =>
    decision = FallbackDecision /\ decision.go

UnheardVerdictIsFast ==
  (stage \in {"verdict", "sent"} /\ ~heard /\ conf.failClosed) =>
    conf.manager /\ action = Approve /\ lesson = "none" /\ decision.confidence >= FastApproveMin

BlackoutInv ==
  /\ stage \in Stages /\ heard \in BOOLEAN
  /\ UnheardIsFallback /\ UnheardVerdictIsFast

LEMMA FallbackFacts ==
  /\ FallbackDecision.offline = TRUE
  /\ FallbackDecision.confidence = signal.conf
  /\ FallbackDecision.go = (signal.conf >= FallbackTa)
BY DEF FallbackDecision, Decision

LEMMA AnswerFacts ==
  ASSUME NEW d \in Answers
  PROVE  d.offline = FALSE
BY DEF Answers, Decision

LEMMA KindFacts == Approve.kind = "Approve" /\ Veto.kind = "Veto"
BY DEF Approve, Veto

LEMMA ForgetKeeps ==
  ASSUME Forget, conf' = conf
  PROVE  BlackoutInv'
BY DEF Forget, BlackoutInv, Stages, UnheardIsFallback, UnheardVerdictIsFast

LEMMA DecidedKeeps ==
  ASSUME BlackoutInv, conf' = conf, NEW d, Decided(d), d.offline \in BOOLEAN,
         d.offline => d = FallbackDecision
  PROVE  BlackoutInv'
<1>1. CASE d.go
  <2>1. stage' = "decided" /\ decision' = d /\ heard' = ~d.offline /\ signal' = signal
    BY <1>1 DEF Decided
  <2>2. FallbackDecision' = FallbackDecision
    BY <2>1 DEF FallbackDecision, Decision
  <2>3. ~heard' => d = FallbackDecision
    BY <2>1
  <2>4. UnheardIsFallback'
    BY <1>1, <2>1, <2>2, <2>3 DEF UnheardIsFallback
  <2>5. UnheardVerdictIsFast'
    BY <2>1 DEF UnheardVerdictIsFast
  <2>6. QED BY <2>1, <2>4, <2>5 DEF BlackoutInv, Stages
<1>2. CASE ~d.go
  BY <1>2, ForgetKeeps DEF Decided
<1>3. QED BY <1>1, <1>2

\* A verdict is reached with an answer, or as the blackout allows.
LEMMA VerdictKeeps ==
  ASSUME BlackoutInv, stage = "decided",
         stage' = "verdict", heard' \in BOOLEAN, heard => heard',
         UNCHANGED <<conf, signal, lesson, decision>>,
         (~heard' /\ conf.failClosed) =>
           conf.manager /\ action' = Approve /\ lesson = "none"
           /\ decision.confidence >= FastApproveMin
  PROVE  BlackoutInv'
<1>1. FallbackDecision' = FallbackDecision
  BY DEF FallbackDecision, Decision
<1>2. UnheardIsFallback'
  BY <1>1 DEF BlackoutInv, UnheardIsFallback
<1>3. UnheardVerdictIsFast'
  BY DEF UnheardVerdictIsFast
<1>4. QED BY <1>2, <1>3 DEF BlackoutInv, Stages

LEMMA ManageKeeps ==
  ASSUME BlackoutInv, Manage
  PROVE  BlackoutInv'
<1>0. stage = "decided" /\ conf' = conf
  BY DEF Manage
<1>1. CASE Forget
  BY <1>0, <1>1, ForgetKeeps
<1>2. CASE Acts(ManagerOffAction) /\ ~conf.manager
  <2>1. CASE conf.failClosed /\ decision.offline
    BY <1>0, <1>2, <2>1, KindFacts, ForgetKeeps DEF Acts, ManagerOffAction
  <2>2. CASE ~(conf.failClosed /\ decision.offline)
    <3>1. ManagerOffAction = Approve
      BY <2>2 DEF ManagerOffAction
    <3>2. stage' = "verdict" /\ heard' = heard /\ UNCHANGED <<signal, lesson, decision>>
      BY <1>2, <3>1, KindFacts DEF Acts
    <3>3. ~(~heard /\ conf.failClosed)
      BY <1>0, <2>2, FallbackFacts DEF BlackoutInv, UnheardIsFallback
    <3>4. QED BY <1>0, <3>2, <3>3, VerdictKeeps DEF BlackoutInv
  <2>3. QED BY <2>1, <2>2
<1>3. CASE Acts(Approve) /\ conf.manager /\ FastApproves
  <2>1. stage' = "verdict" /\ heard' = heard /\ action' = Approve
        /\ UNCHANGED <<signal, lesson, decision>>
    BY <1>3, KindFacts DEF Acts
  <2>2. QED BY <1>0, <1>3, <2>1, VerdictKeeps DEF BlackoutInv, FastApproves
<1>4. CASE AsksManager
  <2>1. CASE \E a \in Verdicts :
               IF a.kind = "Veto" THEN Forget
               ELSE /\ stage' = "verdict" /\ action' = a /\ heard' = TRUE
                    /\ UNCHANGED <<signal, size, lesson, decision, order>>
    <3>1. CASE stage' = "verdict" /\ heard' = TRUE /\ UNCHANGED <<signal, lesson, decision>>
      BY <1>0, <3>1, VerdictKeeps
    <3>2. QED BY <1>1, <2>1, <3>1
  <2>2. CASE Acts(ErrorAction) /\ conf.failClosed
    <3>1. ErrorAction = Veto
      BY <2>2 DEF ErrorAction
    <3>2. QED BY <1>1, <2>2, <3>1, KindFacts DEF Acts
  <2>3. CASE Acts(ErrorAction) /\ ~conf.failClosed
    <3>1. CASE stage' = "verdict" /\ UNCHANGED <<signal, lesson, decision, heard>>
      BY <1>0, <2>3, <3>1, VerdictKeeps DEF BlackoutInv
    <3>2. QED BY <1>1, <2>3, <3>1 DEF Acts
  <2>4. QED BY <1>4, <2>1, <2>2, <2>3 DEF AsksManager
<1>5. QED BY <1>1, <1>2, <1>3, <1>4 DEF Manage

LEMMA StepKeepsBlackout ==
  ASSUME BlackoutInv, [Next]_vars
  PROVE  BlackoutInv'
<1>1. CASE SurvivalUpdated \/ UNCHANGED vars
  <2>1. UNCHANGED <<conf, stage, signal, lesson, decision, action, heard>>
    BY <1>1 DEF SurvivalUpdated, vars, setup
  <2>2. FallbackDecision' = FallbackDecision
    BY <2>1 DEF FallbackDecision, Decision
  <2>3. QED
    BY <2>1, <2>2 DEF BlackoutInv, UnheardIsFallback, UnheardVerdictIsFast
<1>2. CASE Candle
  BY <1>2 DEF Candle, BlackoutInv, Stages, UnheardIsFallback, UnheardVerdictIsFast
<1>3. CASE RiskCheck
  <2>1. CASE Forget
    BY <1>3, <2>1, ForgetKeeps DEF RiskCheck
  <2>2. CASE stage' = "allowed" /\ heard' = heard
    BY <1>3, <2>2
       DEF RiskCheck, BlackoutInv, Stages, UnheardIsFallback, UnheardVerdictIsFast
  <2>3. QED BY <1>3, <2>1, <2>2 DEF RiskCheck
<1>4. CASE Analyze
  <2>1. CASE \E d \in Answers : Decided(d)
    BY <1>4, <2>1, AnswerFacts, DecidedKeeps DEF Analyze
  <2>2. CASE Decided(FallbackDecision)
    BY <1>4, <2>2, FallbackFacts, DecidedKeeps DEF Analyze
  <2>3. QED BY <1>4, <2>1, <2>2 DEF Analyze
<1>5. CASE Manage
  BY <1>5, ManageKeeps
<1>6. CASE Execute
  <2>1. CASE Forget
    BY <1>6, <2>1, ForgetKeeps DEF Execute
  <2>2. CASE stage' = "sent" /\ UNCHANGED <<signal, lesson, decision, action, heard>>
    <3>1. stage = "verdict" /\ conf' = conf
      BY <1>6 DEF Execute
    <3>2. FallbackDecision' = FallbackDecision
      BY <2>2 DEF FallbackDecision, Decision
    <3>3. QED
      BY <2>2, <3>1, <3>2 DEF BlackoutInv, Stages, UnheardIsFallback, UnheardVerdictIsFast
  <2>3. QED BY <1>6, <2>1, <2>2 DEF Execute
<1>7. CASE Done
  BY <1>7, ForgetKeeps DEF Done
<1>8. QED BY <1>1, <1>2, <1>3, <1>4, <1>5, <1>6, <1>7 DEF Next

\* A live setup no LLM has answered about becomes an order only by the fast
\* path of a configured manager, whatever the markets, lessons, answers and
\* changes of the survival mode are.
THEOREM BlackoutOnlyFastApprovesTheorem == Spec => []BlackoutOnlyFastApproves
<1>1. Init => BlackoutInv
  BY DEF Init, BlackoutInv, Stages, UnheardIsFallback, UnheardVerdictIsFast
<1>2. BlackoutInv /\ [Next]_vars => BlackoutInv'
  BY StepKeepsBlackout
<1>3. BlackoutInv => BlackoutOnlyFastApproves
  BY FallbackFacts
     DEF BlackoutInv, UnheardIsFallback, UnheardVerdictIsFast, BlackoutOnlyFastApproves, Greatest
<1>4. QED BY <1>1, <1>2, <1>3, PTL DEF Spec

-----------------------------------------------------------------------------
(* The size of an order and its geometry.                                  *)

\* What every strategy gives: a stop that is not on the winning side, and a
\* target that is not on the losing one, save for a VWAP that was passed and
\* for a middle band that was passed, which is nearer than the stop.
Sound(s) ==
  /\ s = [strategy |-> s.strategy, side |-> s.side, entry |-> Close, stopLoss |-> s.stopLoss,
          takeProfit |-> s.takeProfit, conf |-> s.conf]
  /\ s.side \in Sides /\ s.stopLoss \in Int /\ s.takeProfit \in Int
  /\ Sign(s.side) * (s.stopLoss - Close) <= 0
  /\ \/ s.strategy = "VwapScalp"
     \/ Sign(s.side) * (s.takeProfit - Close) >= 0
     \/ Reward(s) < Distance(s)

\* What the checks of the risk manager leave of it.
Admitted(s) ==
  Distance(s) > 0 /\ Reward(s) * 100 >= MinRewardRisk * Distance(s)

\* A size within the caps, times a percentage.
Within(x, s, percent) ==
  /\ x \in Nat
  /\ 100 * x <= percent * NotionalCap
  /\ 100 * (x * Distance(s)) <= percent * (RiskPerTrade * 10000)

Bounded(a) ==
  \/ a.kind = "Approve"
  \/ a.kind = "Adjust" /\ a.size \in 10..150 /\ a.sl \in (0 - 50)..50 /\ a.tp \in (0 - 50)..50

Carried == stage # "idle" => Sound(signal)
Checked ==
  stage \in {"allowed", "decided", "verdict", "sent"} =>
    Admitted(signal) /\ Within(size, signal, 360)
Judged  == stage \in {"verdict", "sent"} => Bounded(action)
Priced  == stage \in {"decided", "verdict", "sent"} => decision.price \in Int
Ordered == stage = "sent" => order = BuildEntryRequest

PathInv ==
  /\ mode \in Modes /\ stage \in Stages
  /\ Carried /\ Checked /\ Judged /\ Priced /\ Ordered

USE DEF Close

LEMMA SignFacts ==
  ASSUME NEW side \in Sides
  PROVE  /\ Sign(side) \in {1, 0 - 1}
         /\ (side = "Long" /\ Sign(side) = 1) \/ (side = "Short" /\ Sign(side) = 0 - 1)
BY DEF Sides, Sign

LEMMA AwayFacts ==
  ASSUME NEW side \in Sides, NEW k, k.atr \in Nat, NEW x \in Int
  PROVE  /\ Away(side, k, x) \in Int
         /\ x >= 0 => Sign(side) * (Away(side, k, x) - Close) >= 0
         /\ x <= 0 => Sign(side) * (Away(side, k, x) - Close) <= 0
<1> DEFINE p == x * k.atr
<1>1. p \in Int /\ (x >= 0 => p >= 0) /\ (x <= 0 => p <= 0)
  OBVIOUS
<1> HIDE DEF p
<1>2. p \div 10 \in Int /\ (p >= 0 => p \div 10 >= 0) /\ (p <= 0 => p \div 10 <= 0)
  BY <1>1
<1>3. Away(side, k, x) = Close + Sign(side) * (p \div 10)
  BY DEF Away, p
<1>4. QED BY <1>1, <1>2, <1>3, SignFacts

LEMMA BehindFacts ==
  ASSUME NEW side \in Sides, NEW a \in Int, NEW b \in Int
  PROVE  /\ Behind(side, a, b) \in {a, b}
         /\ Sign(side) * (Behind(side, a, b) - a) <= 0
         /\ Sign(side) * (Behind(side, a, b) - b) <= 0
BY DEF Behind, Least, Greatest, Sides, Sign

\* A signal at the close is sound if its stop and target are.
LEMMA SignalSound ==
  ASSUME NEW name, NEW side \in Sides, NEW stop \in Int, NEW target \in Int, NEW confidence,
         Sign(side) * (stop - Close) <= 0,
         \/ name = "VwapScalp"
         \/ Sign(side) * (target - Close) >= 0
         \/ Magnitude(target - Close) < Magnitude(Close - stop)
  PROVE  Sound(Signal(name, side, stop, target, confidence))
BY DEF Sound, Signal, Reward, Distance

LEMMA VwapScalpSound ==
  ASSUME NEW k, WellFormed(k), NEW s \in VwapScalp(k)
  PROVE  Sound(s)
<1>1. PICK side, confidence :
        /\ side \in VwapSides(k)
        /\ s = Signal("VwapScalp", side, Away(side, k, 0 - 4),
                   Behind(side, k.vwap, Away(side, k, 12)), confidence)
  BY DEF VwapScalp
<1>2. side \in Sides /\ k.atr \in Nat /\ k.vwap \in Int
  BY <1>1 DEF VwapSides, Sides, WellFormed
<1>3. /\ Away(side, k, 0 - 4) \in Int /\ Away(side, k, 12) \in Int
      /\ Sign(side) * (Away(side, k, 0 - 4) - Close) <= 0
  BY <1>1, <1>2, AwayFacts
<1>4. Behind(side, k.vwap, Away(side, k, 12)) \in Int
  BY <1>1, <1>2, <1>3, BehindFacts
<1>5. QED BY <1>1, <1>2, <1>3, <1>4, SignalSound

LEMMA MomentumSound ==
  ASSUME NEW k, WellFormed(k), NEW s \in Momentum(k)
  PROVE  Sound(s)
<1>1. PICK side, confidence :
        /\ side \in Sides
        /\ s = Signal("Momentum", side, Away(side, k, 0 - 8), Away(side, k, 15), confidence)
  BY DEF Momentum
<1>2. k.atr \in Nat
  BY DEF Momentum, WellFormed
<1>3. /\ Away(side, k, 0 - 8) \in Int /\ Away(side, k, 15) \in Int
      /\ Sign(side) * (Away(side, k, 0 - 8) - Close) <= 0
      /\ Sign(side) * (Away(side, k, 15) - Close) >= 0
  BY <1>1, <1>2, AwayFacts
<1>4. QED BY <1>1, <1>3, SignalSound

LEMMA SqueezeSound ==
  ASSUME NEW k, WellFormed(k), NEW s \in Squeeze(k)
  PROVE  Sound(s)
<1>1. PICK side, confidence :
        /\ side \in Sides
        /\ s = Signal("Squeeze", side, Behind(side, k.bbMid, Away(side, k, 0 - 5)),
                   Away(side, k, 12), confidence)
  BY DEF Squeeze
<1>2. k.atr \in Nat /\ k.bbMid \in Int
  BY DEF Squeeze, WellFormed
<1>3. /\ Away(side, k, 0 - 5) \in Int /\ Away(side, k, 12) \in Int
      /\ Sign(side) * (Away(side, k, 0 - 5) - Close) <= 0
      /\ Sign(side) * (Away(side, k, 12) - Close) >= 0
  BY <1>1, <1>2, AwayFacts
<1> DEFINE stop == Behind(side, k.bbMid, Away(side, k, 0 - 5))
<1>4. stop \in Int /\ Sign(side) * (stop - Away(side, k, 0 - 5)) <= 0
  BY <1>1, <1>2, <1>3, BehindFacts
<1> HIDE DEF stop
<1>5. Sign(side) * (stop - Close) <= 0
  BY <1>1, <1>3, <1>4, SignFacts
<1>6. Sound(Signal("Squeeze", side, stop, Away(side, k, 12), confidence))
  BY <1>1, <1>3, <1>4, <1>5, SignalSound
<1>7. QED BY <1>1, <1>6 DEF stop

LEMMA EmaRibbonSound ==
  ASSUME NEW k, WellFormed(k), NEW s \in EmaRibbon(k)
  PROVE  Sound(s)
<1> DEFINE base(side) ==
      Behind(side, IF k.ema50 = Cold THEN k.ema21 ELSE k.ema50, Extreme(side, k))
<1>1. PICK side, confidence :
        /\ side \in Sides
        /\ s = Signal("EmaRibbon", side, base(side) - Sign(side) * (k.atr \div 2),
                   Away(side, k, 15), confidence)
  BY DEF EmaRibbon
<1>2. /\ k.atr \in Nat /\ k.ema21 \in Int /\ k.ema50 \in Int
      /\ k.low \in Int /\ k.high \in Int /\ k.low <= Close /\ Close <= k.high
  BY DEF EmaRibbon, WellFormed
<1>3. Away(side, k, 15) \in Int /\ Sign(side) * (Away(side, k, 15) - Close) >= 0
  BY <1>1, <1>2, AwayFacts
<1>4. Extreme(side, k) \in Int /\ Sign(side) * (Extreme(side, k) - Close) <= 0
  BY <1>1, <1>2 DEF Extreme, Sides, Sign
<1>5. base(side) \in Int /\ Sign(side) * (base(side) - Extreme(side, k)) <= 0
  BY <1>1, <1>2, <1>4, BehindFacts
<1>6. k.atr \div 2 \in Int /\ k.atr \div 2 >= 0
  BY <1>2
<1>7. PICK stop : stop = base(side) - Sign(side) * (k.atr \div 2)
  OBVIOUS
<1> HIDE DEF base
<1>8. stop \in Int /\ Sign(side) * (stop - Close) <= 0
  BY <1>1, <1>4, <1>5, <1>6, <1>7, SignFacts
<1>9. QED BY <1>1, <1>3, <1>7, <1>8, SignalSound

\* A middle band behind the close is nearer than the stop, which lies half the
\* width of the bands behind the outer one.
LEMMA PassedBandIsNear ==
  ASSUME NEW side \in Sides, NEW mid \in Int, NEW lower \in Int, NEW upper \in Int,
         NEW stop \in Int,
         lower < mid /\ mid < upper,
         Sign(side) * (mid - Close) < 0,
         Sign(side) * (stop - ((IF side = "Long" THEN lower ELSE upper)
                               - Sign(side) * ((upper - lower) \div 2))) <= 0
  PROVE  Magnitude(mid - Close) < Magnitude(Close - stop)
<1>1. PICK h \in Int : h = (upper - lower) \div 2 /\ h >= 0
  OBVIOUS
<1>2. CASE side = "Long"
  BY <1>1, <1>2 DEF Sign, Magnitude
<1>3. CASE side = "Short"
  BY <1>1, <1>3 DEF Sign, Magnitude
<1>4. QED BY <1>2, <1>3 DEF Sides

LEMMA MeanReversionSound ==
  ASSUME NEW k, WellFormed(k), NEW s \in MeanReversion(k)
  PROVE  Sound(s)
<1> DEFINE outer(side) == (IF side = "Long" THEN k.bbLower ELSE k.bbUpper)
                            - Sign(side) * ((k.bbUpper - k.bbLower) \div 2)
<1>1. PICK side, confidence :
        /\ side \in Sides
        /\ s = Signal("MeanReversion", side, Behind(side, outer(side), Away(side, k, 0 - 8)),
                   Behind(side, k.bbMid, Away(side, k, 15)), confidence)
  BY DEF MeanReversion, Sides
<1>2. /\ k.atr \in Nat /\ k.bbMid # Cold
      /\ k.bbMid \in Int /\ k.bbLower \in Int /\ k.bbUpper \in Int
  BY DEF MeanReversion, WellFormed
<1>3. \/ k.bbLower < k.bbMid /\ k.bbMid < k.bbUpper
      \/ k.bbLower = Close /\ k.bbMid = Close /\ k.bbUpper = Close
  BY <1>2 DEF WellFormed
<1>4. /\ Away(side, k, 0 - 8) \in Int /\ Away(side, k, 15) \in Int
      /\ Sign(side) * (Away(side, k, 0 - 8) - Close) <= 0
      /\ Sign(side) * (Away(side, k, 15) - Close) >= 0
  BY <1>1, <1>2, AwayFacts
<1>5. (k.bbUpper - k.bbLower) \div 2 \in Int
  BY <1>2
<1>6. outer(side) \in Int
  BY <1>1, <1>2, <1>5, SignFacts
<1>7. PICK o \in Int : o = outer(side)
  BY <1>6
<1>8. PICK stop : stop = Behind(side, o, Away(side, k, 0 - 8))
  OBVIOUS
<1>9. PICK target : target = Behind(side, k.bbMid, Away(side, k, 15))
  OBVIOUS
<1>10. /\ stop \in Int /\ Sign(side) * (stop - o) <= 0
       /\ Sign(side) * (stop - Away(side, k, 0 - 8)) <= 0
  BY <1>1, <1>4, <1>8, BehindFacts
<1>11. target \in Int /\ target \in {k.bbMid, Away(side, k, 15)}
  BY <1>1, <1>2, <1>4, <1>9, BehindFacts
<1>12. Sign(side) * (stop - Close) <= 0
  BY <1>1, <1>4, <1>10, SignFacts
<1>13. \/ Sign(side) * (target - Close) >= 0
       \/ Magnitude(target - Close) < Magnitude(Close - stop)
  <2>1. CASE Sign(side) * (target - Close) >= 0
    BY <2>1
  <2>2. CASE ~(Sign(side) * (target - Close) >= 0)
    <3>1. target = k.bbMid
      BY <1>4, <1>11, <2>2
    <3>2. Sign(side) * (k.bbMid - Close) < 0
      BY <1>1, <1>2, <2>2, <3>1, SignFacts
    <3>3. k.bbLower < k.bbMid /\ k.bbMid < k.bbUpper
      BY <1>1, <1>3, <3>2, SignFacts
    <3>4. Magnitude(k.bbMid - Close) < Magnitude(Close - stop)
      BY <1>1, <1>2, <1>7, <1>10, <3>2, <3>3, PassedBandIsNear
    <3>5. QED BY <3>1, <3>4
  <2>3. QED BY <2>1, <2>2
<1>14. Sound(Signal("MeanReversion", side, stop, target, confidence))
  BY <1>1, <1>10, <1>11, <1>12, <1>13, SignalSound
<1>15. QED BY <1>1, <1>7, <1>8, <1>9, <1>14

LEMMA PaperScoutSound ==
  ASSUME NEW k, WellFormed(k), NEW s \in PaperScout(k)
  PROVE  Sound(s)
<1> DEFINE atr == IF k.atr = Cold THEN Greatest(k.high - k.low, Close \div 1000) ELSE k.atr
           gap == Greatest((6 * atr) \div 10, Close \div 1000)
<1>1. PICK side \in Sides :
        s = Signal("VwapScalp", side, Close - Sign(side) * gap,
                   Close + Sign(side) * ((gap * 135) \div 100), 60)
  BY DEF PaperScout, Sides
<1>2. atr \in Int
  BY DEF WellFormed, Greatest
<1> HIDE DEF atr
<1>3. gap \in Int /\ gap >= 0
  BY <1>2 DEF Greatest
<1>4. PICK g \in Nat : g = gap
  BY <1>3
<1>5. (g * 135) \div 100 \in Int
  OBVIOUS
<1> HIDE DEF gap
<1>6. PICK stop \in Int : stop = Close - Sign(side) * g
  BY SignFacts
<1>7. PICK target \in Int : target = Close + Sign(side) * ((g * 135) \div 100)
  BY <1>5, SignFacts
<1>8. Sign(side) * (stop - Close) <= 0
  BY <1>6, SignFacts
<1>9. QED BY <1>1, <1>4, <1>6, <1>7, <1>8, SignalSound

LEMMA RegimeFacts ==
  ASSUME NEW k, NEW i \in DOMAIN Preferred[DetectRegime(k)]
  PROVE  Preferred[DetectRegime(k)][i]
           \in {"VwapScalp", "MeanReversion", "Momentum", "EmaRibbon", "Squeeze"}
<1>1. DetectRegime(k) \in {"TrendingBullish", "TrendingBearish", "Ranging", "Volatile",
                           "Squeeze", "Unknown"}
  BY DEF DetectRegime
<1>2. QED BY <1>1 DEF Preferred

LEMMA EvaluateSound ==
  ASSUME NEW k, WellFormed(k), NEW i \in DOMAIN Preferred[DetectRegime(k)],
         NEW s \in Evaluate(Preferred[DetectRegime(k)][i], k)
  PROVE  Sound(s)
BY RegimeFacts, VwapScalpSound, MeanReversionSound, MomentumSound, EmaRibbonSound, SqueezeSound
   DEF Evaluate

\* Neither the EMA 200 nor the alpha gate touches more than the confidence.
LEMMA ConfidenceKeepsSound ==
  ASSUME NEW s, Sound(s), NEW c
  PROVE  Sound([s EXCEPT !.conf = c])
<1>1. [s EXCEPT !.conf = c] =
        [strategy |-> s.strategy, side |-> s.side, entry |-> Close, stopLoss |-> s.stopLoss,
         takeProfit |-> s.takeProfit, conf |-> c]
  BY DEF Sound
<1>2. s.entry = Close
  BY DEF Sound
<1>3. QED BY <1>1, <1>2 DEF Sound, Reward, Distance

LEMMA BestSound ==
  ASSUME NEW active, NEW k, WellFormed(k), NEW s \in Best(active, k)
  PROVE  Sound(s)
<1>1. PICK f \in Fired(active, k) : s = f.signal
  BY DEF Best
<1>2. PICK i, e : /\ i \in DOMAIN Preferred[DetectRegime(k)]
                  /\ e \in Evaluate(Preferred[DetectRegime(k)][i], k)
                  /\ f = [at |-> i, signal |-> Adjusted(e, k)]
  BY DEF Fired, SelectStrategies
<1>3. Sound(e)
  BY <1>2, EvaluateSound
<1>4. s = Adjusted(e, k)
  BY <1>1, <1>2
<1>5. QED BY <1>3, <1>4, ConfidenceKeepsSound DEF Adjusted

LEMMA SelectedSound ==
  ASSUME NEW active, NEW k, WellFormed(k), NEW scout, NEW fresh, NEW least, NEW delta,
         NEW s \in Selected(active, k, scout, fresh, least, delta)
  PROVE  Sound(s)
<1> DEFINE tried == IF Best(active, k) = {} /\ scout THEN PaperScout(k) ELSE Best(active, k)
<1>1. \A t \in tried : Sound(t)
  BY BestSound, PaperScoutSound
<1> HIDE DEF tried
<1>2. CASE fresh = {}
  BY <1>1, <1>2 DEF Selected, tried
<1>3. CASE fresh # {}
  <2>1. s \in ApplyAlpha(tried, k, fresh, least, delta)
    BY <1>3 DEF Selected, tried
  <2>2. PICK p, c : p \in tried \X fresh /\ (s = p[1] \/ s = [p[1] EXCEPT !.conf = c])
    BY <2>1 DEF ApplyAlpha
  <2>3. QED BY <1>1, <2>2, ConfidenceKeepsSound
<1>4. QED BY <1>2, <1>3

LEMMA QuantStateFacts ==
  ASSUME NEW q \in QuantStates
  PROVE  /\ q.trades \in Int /\ q.winPct \in Int /\ q.avgWin \in Int /\ q.avgLoss \in Int
         /\ q.kalman \in Int
         /\ q.vol = Cold \/ q.vol \in Nat
BY InputAssumption DEF QuantState

LEMMA ConfigFacts ==
  /\ RiskPerTrade \in Int /\ RiskPerTrade > 0
  /\ MinRewardRisk \in Int /\ MinRewardRisk > 0
  /\ BaseRisk \in Int /\ KellyCap \in Int /\ TargetVol \in Int /\ MaxVolPct \in Int
  /\ NotionalCap \in Nat
<1>1. /\ MaxLeverage \in Int /\ MaxNotionalPct \in Int
      /\ MaxNotionalPct > 0 /\ MaxNotionalPct <= MaxLeverage * 100
  BY ConfigAssumption DEF Validated, Integral
<1>2. NotionalCap \in Nat
  BY <1>1 DEF NotionalCap, Least
<1>3. QED BY <1>2, ConfigAssumption DEF Validated, Integral

LEMMA OfFacts ==
  ASSUME NEW percent \in Int, NEW x \in Int
  PROVE  /\ Of(percent, x) \in Int /\ 100 * Of(percent, x) <= percent * x
         /\ (percent >= 0 /\ x >= 0 => Of(percent, x) >= 0)
<1>1. PICK p \in Int : p = percent * x /\ (percent >= 0 /\ x >= 0 => p >= 0)
  OBVIOUS
<1>2. p \div 100 \in Int /\ 100 * (p \div 100) <= p /\ (p >= 0 => p \div 100 >= 0)
  OBVIOUS
<1>3. QED BY <1>1, <1>2 DEF Of

LEMMA KellyInt ==
  ASSUME NEW q \in QuantStates
  PROVE  KellyMultiplier(q) \in Int
<1>1. KellyFraction(q) \in Int
  <2>1. CASE q.avgWin <= 0 \/ q.avgLoss <= 0
    BY <2>1 DEF KellyFraction
  <2>2. CASE ~(q.avgWin <= 0 \/ q.avgLoss <= 0)
    <3>1. q.avgWin \in Int /\ q.avgWin > 0 /\ q.avgLoss \in Int /\ q.winPct \in Int
      BY <2>2, QuantStateFacts
    <3>2. PICK n \in Int : n = (100 - q.winPct) * q.avgLoss
      BY <3>1
    <3>3. n \div q.avgWin \in Int
      BY <3>1
    <3>4. PICK d \in Int : d = n \div q.avgWin
      BY <3>3
    <3>5. KellyFraction(q) = Clamp(q.winPct - d, 0, KellyCap)
      BY <2>2, <3>2, <3>4 DEF KellyFraction
    <3>6. QED BY <3>1, <3>5, ConfigFacts DEF Clamp, Least, Greatest
  <2>3. QED BY <2>1, <2>2
<1>2. PICK d \in Int : d = Greatest(BaseRisk, 1) /\ d > 0
  BY ConfigFacts DEF Greatest
<1>3. PICK f \in Int : f = KellyFraction(q)
  BY <1>1
<1>4. (f * 100) \div d \in Int
  BY <1>2
<1>5. QED BY <1>2, <1>3, <1>4 DEF KellyMultiplier, Least

LEMMA VolInt ==
  ASSUME NEW q \in QuantStates
  PROVE  VolMultiplier(q) \in Int
<1>1. CASE q.vol = Cold \/ q.vol = 0
  BY <1>1 DEF VolMultiplier
<1>2. CASE ~(q.vol = Cold \/ q.vol = 0)
  <2>1. q.vol \in Int /\ q.vol > 0 /\ TargetVol \in Int /\ MaxVolPct \in Int
    BY <1>2, QuantStateFacts, ConfigFacts
  <2>2. (TargetVol * 100) \div q.vol \in Int
    BY <2>1
  <2>3. QED BY <1>2, <2>1, <2>2 DEF VolMultiplier, Least
<1>3. QED BY <1>1, <1>2

\* Whatever Kelly fraction, volatility, trend and correlation give.
LEMMA ComputeSizingFacts ==
  ASSUME NEW q \in QuantStates, NEW side \in Sides
  PROVE  ComputeSizing(q, side) \in 10..300
<1>1. KalmanMultiplier(q, side) \in Int
  <2>1. q.kalman \in Int
    BY QuantStateFacts
  <2>2. CASE q.kalman = 0
    BY <2>2, SignFacts DEF KalmanMultiplier
  <2>3. CASE q.kalman # 0
    BY <2>1, <2>3, SignFacts DEF KalmanMultiplier
  <2>4. QED BY <2>2, <2>3
<1>2. CorrelationPenalty(q) \in Int
  BY DEF CorrelationPenalty
<1>3. PICK x \in Int :
        x = Of(CorrelationPenalty(q),
               Of(KalmanMultiplier(q, side), Of(VolMultiplier(q), KellyMultiplier(q))))
  BY <1>1, <1>2, KellyInt, VolInt, OfFacts
<1>4. ComputeSizing(q, side) = Clamp(x, 10, 300)
  BY <1>3 DEF ComputeSizing
<1>5. QED BY <1>4 DEF Clamp, Least, Greatest

LEMMA SoundFacts ==
  ASSUME NEW s, Sound(s)
  PROVE  /\ s.entry = Close /\ s.side \in Sides
         /\ Distance(s) \in Nat /\ Reward(s) \in Nat
BY DEF Sound, Distance, Reward, Magnitude

LEMMA ProductLe ==
  ASSUME NEW a \in Int, NEW c \in Int, NEW d \in Nat, a <= c
  PROVE  a * d <= c * d
OBVIOUS

LEMMA CalculateSizeFacts ==
  ASSUME NEW s, Sound(s), NEW m \in 0..100
  PROVE  Within(CalculateSize(s, m), s, 100)
<1>1. PICK d \in Nat : d = Distance(s)
  BY SoundFacts
<1>2. CASE d = 0
  BY <1>1, <1>2, ConfigFacts DEF CalculateSize, Within
<1>3. CASE d # 0
  <2>1. PICK r \in Nat : r = RiskPerTrade * m * 100 /\ r <= RiskPerTrade * 10000
    <3>1. RiskPerTrade * m \in Nat /\ RiskPerTrade * m <= RiskPerTrade * 100
      BY ConfigFacts
    <3>2. QED BY <3>1, ConfigFacts
  <2>2. PICK x \in Nat : x = r \div d /\ x * d <= r
    <3>1. r \div d \in Int /\ d * (r \div d) <= r /\ r \div d >= 0
      BY <1>3
    <3>2. QED BY <3>1
  <2>3. PICK y \in Nat : y = CalculateSize(s, m) /\ y <= x /\ y <= NotionalCap
    BY <1>1, <1>3, <2>1, <2>2, ConfigFacts DEF CalculateSize, Least
  <2>4. y * d <= x * d /\ y * d \in Nat /\ x * d \in Nat
    BY <2>3, ProductLe
  <2>5. QED BY <1>1, <2>1, <2>2, <2>3, <2>4, ConfigFacts DEF Within
<1>4. QED BY <1>2, <1>3

\* A percentage of a size within a percentage of the caps.
LEMMA OfWithin ==
  ASSUME NEW s, Sound(s), NEW x, NEW percent \in Nat, Within(x, s, percent),
         NEW more \in Nat, NEW total \in Nat, more * percent <= 100 * total
  PROVE  Within(Of(more, x), s, total)
<1>1. PICK d \in Nat, n \in Nat, r \in Nat :
        d = Distance(s) /\ n = NotionalCap /\ r = RiskPerTrade * 10000
  BY SoundFacts, ConfigFacts
<1>2. x \in Nat /\ 100 * x <= percent * n /\ 100 * (x * d) <= percent * r
  BY <1>1 DEF Within
<1>3. Of(more, x) \in Int /\ 100 * Of(more, x) <= more * x /\ Of(more, x) >= 0
  <2>1. x \in Int /\ x >= 0 /\ more \in Int /\ more >= 0
    BY <1>2
  <2>2. QED BY <2>1, OfFacts
<1>4. PICK y \in Nat : y = Of(more, x) /\ 100 * y <= more * x
  BY <1>3
<1>5. PICK mx \in Nat, xd \in Nat, yd \in Nat : mx = more * x /\ xd = x * d /\ yd = y * d
  BY <1>2
<1>6. ASSUME NEW a \in Nat, NEW b \in Nat, 100 * a <= percent * b
      PROVE  more * a <= total * b
  <2>1. (100 * a) * more <= (percent * b) * more
    BY <1>6, ProductLe
  <2>2. (more * percent) * b <= (100 * total) * b
    BY ProductLe
  <2>3. (percent * b) * more = (more * percent) * b
    OBVIOUS
  <2>4. 100 * (more * a) <= 100 * (total * b)
    BY <2>1, <2>2, <2>3
  <2>5. QED BY <2>4
<1>7. mx <= total * n /\ more * xd <= total * r
  BY <1>2, <1>5, <1>6
<1>8. (100 * y) * d <= mx * d
  BY <1>4, <1>5, ProductLe
<1>9. 100 * yd <= more * xd
  <2>1. (100 * y) * d = 100 * yd /\ mx * d = more * xd
    BY <1>2, <1>5
  <2>2. QED BY <1>8, <2>1
<1>10. 100 * y <= total * n /\ 100 * yd <= total * r
  <2>1. total * n \in Int /\ total * r \in Int /\ more * xd \in Int
    OBVIOUS
  <2>2. QED BY <1>4, <1>5, <1>7, <1>9, <2>1
<1>11. QED BY <1>1, <1>4, <1>5, <1>10 DEF Within

LEMMA SizeOfWithin ==
  ASSUME NEW s, Sound(s), NEW l \in Lessons, NEW q \in QuantStates, mode \in Modes
  PROVE  Within(SizeOf(s, l, q), s, 360)
<1>1. PICK v \in 0..120 : v = Verdict(l).size
  BY InputAssumption DEF Verdict
<1>2. PICK c \in 10..300 : c = ComputeSizing(q, s.side)
  BY SoundFacts, ComputeSizingFacts
<1>3. PICK m \in 0..100 : m = Multiplier(mode)
  BY DEF Multiplier, Modes
<1>4. PICK x : x = CalculateSize(s, m) /\ Within(x, s, 100)
  BY <1>3, CalculateSizeFacts
<1>5. PICK y : y = Of(v, x) /\ Within(y, s, 120)
  <2>1. v \in Nat /\ v * 100 <= 100 * 120
    BY <1>1
  <2>2. QED BY <1>4, <2>1, OfWithin
<1>6. Within(Of(c, y), s, 360)
  <2>1. c \in Nat /\ c * 120 <= 100 * 360
    BY <1>2
  <2>2. QED BY <1>5, <2>1, OfWithin
<1>7. QED BY <1>1, <1>2, <1>3, <1>4, <1>5, <1>6 DEF SizeOf

LEMMA ParsedAdjustBounded ==
  ASSUME NEW z \in Int, NEW sl \in Int, NEW tp \in Int
  PROVE  Bounded(ParsedAdjust(z, sl, tp)) /\ ParsedAdjust(z, sl, tp).kind = "Adjust"
BY DEF ParsedAdjust, Bounded, Clamp, Least, Greatest

LEMMA ActionFacts ==
  /\ Bounded(Approve) /\ Veto.kind = "Veto"
  /\ ManagerOffAction \in {Approve, Veto} /\ ErrorAction \in {Approve, Veto}
  /\ \A a \in Verdicts : a.kind = "Veto" \/ Bounded(a)
<1>1. \A a \in Verdicts : a.kind = "Veto" \/ Bounded(a)
  <2>1. SUFFICES ASSUME NEW a \in Verdicts PROVE a.kind = "Veto" \/ Bounded(a)
    OBVIOUS
  <2>2. CASE a \in {Approve, Veto}
    BY <2>2 DEF Approve, Veto, Bounded
  <2>3. CASE \E z \in AdjustSizes, sl \in AdjustOffsets, tp \in AdjustOffsets :
               a = ParsedAdjust(z, sl, tp)
    BY <2>3, InputAssumption, ParsedAdjustBounded
  <2>4. QED BY <2>2, <2>3 DEF Verdicts
<1>2. QED BY <1>1 DEF Bounded, Approve, Veto, ManagerOffAction, ErrorAction

LEMMA ForgetKeepsPath ==
  ASSUME PathInv, Forget, mode' = mode
  PROVE  PathInv'
BY DEF PathInv, Forget, Stages, Carried, Checked, Judged, Priced, Ordered

LEMMA CandleKeepsPath ==
  ASSUME PathInv, Candle
  PROVE  PathInv'
<1>1. PICK k, fresh, s :
        /\ k \in Markets
        /\ s \in Selected(Active, k, conf.scout, fresh, MinScore, ReduceDelta)
        /\ signal' = s
  BY DEF Candle
<1>2. Sound(s)
  BY <1>1, InputAssumption, SelectedSound
<1>3. Carried'
  BY <1>1, <1>2 DEF Carried
<1>4. stage' = "signal" /\ mode' = mode
  BY DEF Candle
<1>5. Checked' /\ Judged' /\ Priced' /\ Ordered'
  BY <1>4 DEF Checked, Judged, Priced, Ordered
<1>6. QED BY <1>3, <1>4, <1>5 DEF PathInv, Stages

LEMMA RiskKeepsPath ==
  ASSUME PathInv, RiskCheck
  PROVE  PathInv'
<1>1. CASE Forget
  BY <1>1, ForgetKeepsPath DEF RiskCheck
<1>2. CASE \E l \in Lessons, q \in QuantStates, spread \in Spreads, rate \in Fundings :
             /\ Granted(signal, l, q, spread, rate)
             /\ stage' = "allowed" /\ size' = SizeOf(signal, l, q)
             /\ signal' = signal
  <2>1. PICK l \in Lessons, q \in QuantStates, spread \in Spreads, rate \in Fundings :
             /\ Granted(signal, l, q, spread, rate)
             /\ stage' = "allowed" /\ size' = SizeOf(signal, l, q)
             /\ signal' = signal
    BY <1>2
  <2>2. stage = "signal" /\ mode' = mode
    BY DEF RiskCheck
  <2>3. Sound(signal) /\ mode \in Modes
    BY <2>2 DEF PathInv, Carried
  <2>4. Carried'
    BY <2>1, <2>3 DEF Carried
  <2>5. Admitted(signal)
    BY <2>1 DEF Granted, ValidateSignal, Admitted
  <2>6. Within(SizeOf(signal, l, q), signal, 360)
    BY <2>3, SizeOfWithin
  <2>7. Checked'
    BY <2>1, <2>5, <2>6 DEF Checked
  <2>8. Judged' /\ Priced' /\ Ordered'
    BY <2>1 DEF Judged, Priced, Ordered
  <2>9. QED BY <2>1, <2>2, <2>3, <2>4, <2>7, <2>8 DEF PathInv, Stages
<1>3. QED BY <1>1, <1>2 DEF RiskCheck

LEMMA AnalyzeKeepsPath ==
  ASSUME PathInv, Analyze
  PROVE  PathInv'
<1>1. CASE Forget
  BY <1>1, ForgetKeepsPath DEF Analyze
<1>2. CASE stage' = "decided" /\ decision'.price \in Int /\ UNCHANGED <<signal, size>>
  BY <1>2 DEF Analyze, PathInv, Stages, Carried, Checked, Judged, Priced, Ordered
<1>3. FallbackDecision.price \in Int /\ \A d \in Answers : d.price \in Int
  BY InputAssumption DEF FallbackDecision, Answers, Decision
<1>4. QED BY <1>1, <1>2, <1>3 DEF Analyze, Decided

LEMMA ManageKeepsPath ==
  ASSUME PathInv, Manage
  PROVE  PathInv'
<1>1. CASE Forget
  BY <1>1, ForgetKeepsPath DEF Manage
<1>2. CASE stage' = "verdict" /\ Bounded(action') /\ UNCHANGED <<signal, size, decision>>
  BY <1>2 DEF Manage, PathInv, Stages, Carried, Checked, Judged, Priced, Ordered
<1>3. ASSUME NEW a, a.kind = "Veto" \/ Bounded(a), Acts(a)
      PROVE  \/ Forget
             \/ stage' = "verdict" /\ Bounded(action') /\ UNCHANGED <<signal, size, decision>>
  BY <1>3 DEF Acts
<1>4. CASE AsksManager
  <2>1. CASE Acts(ErrorAction)
    BY <1>1, <1>2, <1>3, <2>1, ActionFacts
  <2>2. CASE \E a \in Verdicts :
               IF a.kind = "Veto" THEN Forget
               ELSE /\ stage' = "verdict" /\ action' = a /\ heard' = TRUE
                    /\ UNCHANGED <<signal, size, lesson, decision, order>>
    BY <1>1, <1>2, <2>2, ActionFacts
  <2>3. QED BY <1>4, <2>1, <2>2 DEF AsksManager
<1>5. CASE Acts(ManagerOffAction) \/ Acts(Approve)
  BY <1>1, <1>2, <1>3, <1>5, ActionFacts
<1>6. QED BY <1>1, <1>4, <1>5 DEF Manage

LEMMA ExecuteKeepsPath ==
  ASSUME PathInv, Execute
  PROVE  PathInv'
<1>1. CASE Forget
  BY <1>1, ForgetKeepsPath DEF Execute
<1>2. CASE /\ stage' = "sent" /\ order' = BuildEntryRequest
           /\ UNCHANGED <<signal, size, decision, action>>
  <2>1. BuildEntryRequest' = BuildEntryRequest
    BY <1>2 DEF BuildEntryRequest, ProposedEntry
  <2>2. Ordered'
    BY <1>2, <2>1 DEF Ordered
  <2>3. stage = "verdict" /\ mode' = mode
    BY DEF Execute
  <2>4. Carried' /\ Checked' /\ Judged' /\ Priced'
    BY <1>2, <2>3 DEF PathInv, Carried, Checked, Judged, Priced
  <2>5. QED BY <1>2, <2>2, <2>3, <2>4 DEF PathInv, Stages
<1>3. QED BY <1>1, <1>2 DEF Execute

LEMMA StepKeepsPath ==
  ASSUME PathInv, [Next]_vars
  PROVE  PathInv'
<1>1. CASE SurvivalUpdated \/ UNCHANGED vars
  <2>1. mode' \in Modes /\ UNCHANGED <<stage, signal, size, decision, action, order>>
    BY <1>1 DEF SurvivalUpdated, vars, setup, PathInv
  <2>2. BuildEntryRequest' = BuildEntryRequest
    BY <2>1 DEF BuildEntryRequest, ProposedEntry
  <2>3. QED BY <2>1, <2>2 DEF PathInv, Carried, Checked, Judged, Priced, Ordered
<1>2. CASE Done
  BY <1>2, ForgetKeepsPath DEF Done
<1>3. QED
  BY <1>1, <1>2, CandleKeepsPath, RiskKeepsPath, AnalyzeKeepsPath, ManageKeepsPath,
     ExecuteKeepsPath DEF Next

LEMMA SpecKeepsPath == Spec => []PathInv
<1>1. Init => PathInv
  BY DEF Init, PathInv, Modes, Stages, Carried, Checked, Judged, Priced, Ordered
<1>2. PathInv /\ [Next]_vars => PathInv'
  BY StepKeepsPath
<1>3. QED BY <1>1, <1>2, PTL DEF Spec

\* The order that is built from an admitted signal.
LEMMA OrderFacts ==
  ASSUME PathInv, stage = "sent"
  PROVE  /\ order.side = signal.side /\ order.price = ProposedEntry
         /\ order.size = (IF action.kind = "Approve" THEN size ELSE Of(action.size, size))
         /\ order.stopLoss = (IF action.kind = "Approve" THEN signal.stopLoss ELSE
              signal.stopLoss + BpsOffset(ProposedEntry, action.sl, signal.side))
         /\ order.takeProfit = (IF action.kind = "Approve" THEN signal.takeProfit ELSE
              signal.takeProfit + BpsOffset(ProposedEntry, action.tp, signal.side))
<1>1. order = BuildEntryRequest
  BY DEF PathInv, Ordered
<1>2. CASE action.kind = "Approve"
  BY <1>1, <1>2 DEF BuildEntryRequest
<1>3. CASE action.kind # "Approve"
  <2>1. order =
          [side |-> signal.side, price |-> ProposedEntry, size |-> Of(action.size, size),
           stopLoss |-> signal.stopLoss + BpsOffset(ProposedEntry, action.sl, signal.side),
           takeProfit |-> signal.takeProfit + BpsOffset(ProposedEntry, action.tp, signal.side)]
    BY <1>1, <1>3 DEF BuildEntryRequest
  <2>2. QED BY <1>3, <2>1
<1>4. QED BY <1>2, <1>3

LEMMA OrderWithin ==
  ASSUME PathInv, stage = "sent"
  PROVE  Within(order.size, signal, 540)
<1>1. Sound(signal) /\ Within(size, signal, 360) /\ Bounded(action)
  BY DEF PathInv, Carried, Checked, Judged
<1>2. PICK n \in Nat, r \in Nat, d \in Nat :
        n = NotionalCap /\ r = RiskPerTrade * 10000 /\ d = Distance(signal)
  <2>1. Distance(signal) \in Nat
    BY <1>1, SoundFacts
  <2>2. NotionalCap \in Nat /\ RiskPerTrade * 10000 \in Nat
    BY ConfigFacts
  <2>3. QED BY <2>1, <2>2
<1>3. CASE action.kind = "Approve"
  <2>1. order.size = size
    BY <1>3, OrderFacts
  <2>2. size \in Nat /\ 100 * size <= 360 * n /\ 100 * (size * d) <= 360 * r /\ size * d \in Nat
    BY <1>1, <1>2 DEF Within
  <2>3. 100 * size <= 540 * n /\ 100 * (size * d) <= 540 * r
    BY <2>2
  <2>4. QED BY <1>2, <2>1, <2>2, <2>3 DEF Within
<1>4. CASE action.kind # "Approve"
  <2>1. order.size = Of(action.size, size)
    BY <1>4, OrderFacts
  <2>2. action.size \in Nat /\ action.size * 360 <= 100 * 540
    BY <1>1, <1>4 DEF Bounded
  <2>3. QED BY <1>1, <2>1, <2>2, OfWithin
<1>5. QED BY <1>3, <1>4

\* Lessons, quant engine and manager take no order further than 540 % of the
\* caps, whatever the markets, the records of past trades and the answers are.
THEOREM SizeTheorem == Spec => []SizeWithinCaps
<1>1. PathInv => SizeWithinCaps
  <2>1. SUFFICES ASSUME PathInv, stage = "sent"
                 PROVE  /\ order.size <= (NotionalCap * MaxBoost * 3 * 3) \div 200
                        /\ order.size * Distance(signal)
                             <= (RiskPerTrade * 10000 * MaxBoost * 3 * 3) \div 200
    BY DEF SizeWithinCaps
  <2>2. Within(order.size, signal, 540)
    BY <2>1, OrderWithin
  <2>3. Distance(signal) \in Nat
    BY <2>1, SoundFacts DEF PathInv, Carried
  <2>4. PICK n \in Nat : n = NotionalCap
    BY ConfigFacts
  <2>5. PICK r \in Nat : r = RiskPerTrade * 10000
    <3>1. RiskPerTrade * 10000 \in Nat
      BY ConfigFacts
    <3>2. QED BY <3>1
  <2>6. PICK x \in Nat : x = order.size
    BY <2>2 DEF Within
  <2>7. PICK y \in Nat : y = order.size * Distance(signal)
    BY <2>3, <2>6
  <2>8. 100 * x <= 540 * n /\ 100 * y <= 540 * r
    BY <2>2, <2>4, <2>5, <2>6, <2>7 DEF Within
  <2>9. x <= (n * 120 * 3 * 3) \div 200 /\ y <= (r * 120 * 3 * 3) \div 200
    BY <2>8
  <2>10. QED BY <2>4, <2>5, <2>6, <2>7, <2>9 DEF MaxBoost
<1>2. QED BY <1>1, SpecKeepsPath, PTL

LEMMA ProductGe ==
  ASSUME NEW a \in Int, NEW c \in Int, NEW d \in Nat, a >= c
  PROVE  a * d >= c * d
OBVIOUS

\* With a ratio of at least one the middle band that was passed is refused.
LEMMA AdmittedGeometry ==
  ASSUME MinRewardRisk >= 100, NEW s, Sound(s), Admitted(s)
  PROVE  /\ Sign(s.side) * (Close - s.stopLoss) = Distance(s) /\ Distance(s) > 0
         /\ s.strategy = "VwapScalp" \/ Sign(s.side) * (s.takeProfit - Close) = Reward(s)
         /\ Reward(s) > 0
<1>1. PICK d \in Nat : d = Distance(s)
  BY SoundFacts
<1>2. PICK r \in Nat : r = Reward(s)
  BY SoundFacts
<1>3. d > 0 /\ r * 100 >= MinRewardRisk * d
  BY <1>1, <1>2 DEF Admitted
<1>4. MinRewardRisk * d >= 100 * d /\ MinRewardRisk * d \in Int
  BY ConfigFacts, ProductGe
<1>5. r >= d
  BY <1>3, <1>4
<1>6. /\ s.side \in Sides /\ s.stopLoss \in Int /\ s.takeProfit \in Int
      /\ Sign(s.side) * (s.stopLoss - Close) <= 0
      /\ s.strategy = "VwapScalp" \/ Sign(s.side) * (s.takeProfit - Close) >= 0
  BY <1>1, <1>2, <1>5 DEF Sound
<1>7. d = Magnitude(Close - s.stopLoss) /\ r = Magnitude(s.takeProfit - Close)
  BY <1>1, <1>2, SoundFacts DEF Distance, Reward
<1>8. Sign(s.side) * (Close - s.stopLoss) = d
  BY <1>6, <1>7, SignFacts DEF Magnitude
<1>9. Sign(s.side) * (s.takeProfit - Close) >= 0 => Sign(s.side) * (s.takeProfit - Close) = r
  BY <1>6, <1>7, SignFacts DEF Magnitude
<1>10. QED BY <1>1, <1>2, <1>3, <1>5, <1>6, <1>8, <1>9

\* At most 50 bps of a price, rounded, are at most 50 bps of it, rounded up.
LEMMA FiftyBpsBound ==
  ASSUME NEW price \in Nat, NEW bps \in (0 - 50)..50, NEW side \in Sides
  PROVE  /\ BpsOffset(price, bps, side) \in Int
         /\ Magnitude(BpsOffset(price, bps, side)) <= price \div 200 + 1
<1>1. PICK x \in Int : x = price * bps
  OBVIOUS
<1>2. x <= 50 * price /\ x >= 0 - 50 * price
  <2>1. 50 * price >= bps * price /\ bps * price >= (0 - 50) * price
    BY ProductGe
  <2>2. bps * price = price * bps
    OBVIOUS
  <2>3. QED BY <1>1, <2>1, <2>2
<1>3. PICK y \in Int : y = x \div 10000
  BY <1>1
<1>4. y <= price \div 200 /\ y >= 0 - (price \div 200) - 1
  BY <1>2, <1>3
<1>5. BpsOffset(price, bps, side) = Sign(side) * y
  BY <1>1, <1>3 DEF BpsOffset
<1>6. QED BY <1>4, <1>5, SignFacts DEF Magnitude

\* What a manager's shift does to the stop and the target of an order,
\* wherever its entry price comes from.
LEMMA ShiftFacts ==
  ASSUME PathInv, stage = "sent"
  PROVE  /\ order.side = signal.side /\ order.price \in Nat
         /\ order.stopLoss \in Int /\ order.takeProfit \in Int
         /\ StopMoved <= FiftyBps /\ TargetMoved <= FiftyBps
<1>1. /\ Sound(signal) /\ Bounded(action) /\ decision.price \in Int
  BY DEF PathInv, Carried, Judged, Priced
<1>2. /\ signal.entry = Close /\ signal.side \in Sides
      /\ signal.stopLoss \in Int /\ signal.takeProfit \in Int
  BY <1>1, SoundFacts DEF Sound
<1>3. ProposedEntry \in Nat /\ order.side = signal.side /\ order.price = ProposedEntry
  BY <1>1, <1>2, OrderFacts DEF ProposedEntry
<1>4. CASE action.kind = "Approve"
  <2>1. order.stopLoss = signal.stopLoss /\ order.takeProfit = signal.takeProfit
    BY <1>4, OrderFacts
  <2>2. QED BY <1>2, <1>3, <2>1 DEF StopMoved, TargetMoved, FiftyBps, Magnitude
<1>5. CASE action.kind # "Approve"
  <2>1. PICK price \in Nat, x \in (0 - 50)..50, y \in (0 - 50)..50 :
          price = ProposedEntry /\ x = action.sl /\ y = action.tp
    BY <1>1, <1>3, <1>5 DEF Bounded
  <2>2. signal.side \in Sides
    BY <1>2
  <2>3. /\ BpsOffset(price, x, signal.side) \in Int
        /\ Magnitude(BpsOffset(price, x, signal.side)) <= price \div 200 + 1
    BY <2>1, <2>2, FiftyBpsBound, Zenon
  <2>4. /\ BpsOffset(price, y, signal.side) \in Int
        /\ Magnitude(BpsOffset(price, y, signal.side)) <= price \div 200 + 1
    BY <2>1, <2>2, FiftyBpsBound, Zenon
  <2>5. PICK sl \in Int, tp \in Int :
          /\ sl = BpsOffset(price, x, signal.side) /\ tp = BpsOffset(price, y, signal.side)
          /\ order.stopLoss = signal.stopLoss + sl /\ order.takeProfit = signal.takeProfit + tp
    BY <1>5, <2>1, <2>3, <2>4, OrderFacts
  <2>6. Magnitude(sl) <= order.price \div 200 + 1 /\ Magnitude(tp) <= order.price \div 200 + 1
    BY <1>3, <2>1, <2>3, <2>4, <2>5
  <2>7. order.stopLoss - signal.stopLoss = sl /\ order.takeProfit - signal.takeProfit = tp
    BY <1>2, <2>5
  <2>8. QED BY <1>2, <1>3, <2>5, <2>6, <2>7 DEF StopMoved, TargetMoved, FiftyBps
<1>6. QED BY <1>4, <1>5

\* Stop and target of an order lie where they should, unless the two LLMs
\* moved entry and exit that far together or a VWAP was passed: with the
\* reward/risk ratio of at least one that every configuration file has, and for
\* all markets, whatever the indicators, lessons and answers are.
THEOREM GeometryTheorem ==
  ASSUME MinRewardRisk >= 100
  PROVE  Spec => []OrderGeometry
<1>1. PathInv => OrderGeometry
  <2>1. SUFFICES ASSUME PathInv, stage = "sent"
                 PROVE  /\ StopLoses \/ Repriced + StopMoved >= Distance(signal)
                        /\ TargetWins \/ signal.strategy = "VwapScalp"
                                      \/ Repriced + TargetMoved >= Reward(signal)
                        /\ StopMoved <= FiftyBps /\ TargetMoved <= FiftyBps
    BY DEF OrderGeometry
  <2>2. Sound(signal) /\ Admitted(signal)
    BY <2>1 DEF PathInv, Carried, Checked
  <2>3. /\ order.side = signal.side /\ order.price \in Nat /\ signal.side \in Sides
        /\ order.stopLoss \in Int /\ order.takeProfit \in Int /\ signal.entry = Close
        /\ signal.stopLoss \in Int /\ signal.takeProfit \in Int
        /\ StopMoved <= FiftyBps /\ TargetMoved <= FiftyBps
    BY <2>1, <2>2, ShiftFacts, SoundFacts DEF Sound
  <2>4. Distance(signal) \in Nat /\ Reward(signal) \in Nat
    BY <2>2, SoundFacts
  <2>5. StopLoses \/ Repriced + StopMoved >= Distance(signal)
    <3>1. PICK p \in Int, x \in Int, a \in Int :
            p = order.price /\ x = order.stopLoss /\ a = signal.stopLoss
      BY <2>3
    <3>2. PICK d \in Nat : d = Distance(signal)
      BY <2>4
    <3>3. PICK side \in Sides : side = signal.side
      BY <2>3
    <3>4. Sign(side) * (Close - a) = d
      BY <2>2, <3>1, <3>2, <3>3, AdmittedGeometry
    <3>5. Beyond(side, p, x) \/ Magnitude(p - Close) + Magnitude(x - a) >= d
      BY <3>4, SignFacts DEF Beyond, Magnitude, Close
    <3>6. QED BY <2>3, <3>1, <3>2, <3>3, <3>5 DEF StopLoses, Repriced, StopMoved
  <2>6. CASE signal.strategy # "VwapScalp"
    <3>1. PICK p \in Int, x \in Int, a \in Int :
            p = order.price /\ x = order.takeProfit /\ a = signal.takeProfit
      BY <2>3
    <3>2. PICK d \in Nat : d = Reward(signal)
      BY <2>4
    <3>3. PICK side \in Sides : side = signal.side
      BY <2>3
    <3>4. Sign(side) * (a - Close) = d
      BY <2>2, <2>6, <3>1, <3>2, <3>3, AdmittedGeometry
    <3>5. Beyond(side, x, p) \/ Magnitude(p - Close) + Magnitude(x - a) >= d
      BY <3>4, SignFacts DEF Beyond, Magnitude, Close
    <3>6. TargetWins \/ Repriced + TargetMoved >= Reward(signal)
      BY <2>3, <3>1, <3>2, <3>3, <3>5 DEF TargetWins, Repriced, TargetMoved
    <3>7. QED BY <2>3, <2>5, <3>6
  <2>7. QED BY <2>3, <2>5, <2>6
<1>2. QED BY <1>1, SpecKeepsPath, PTL
=============================================================================
