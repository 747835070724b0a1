---------------------------- MODULE DecisionPath ----------------------------
(***************************************************************************)
(* One setup on its way from a closed candle to an order: the signal, risk,*)
(* brain, manager and execution agents (agents/signal.rs, risk.rs,         *)
(* brain.rs, manager.rs, execution.rs, llm/engine.rs) with what each       *)
(* computes.  Queues, copies of the survival mode and several setups in    *)
(* flight are TradingPipeline's; here the mode may change at any time and  *)
(* the values are real: prices, sizes and confidences.                     *)
(*                                                                         *)
(* An LLM that is asked answers with anything its parser lets through, or  *)
(* fails (no connection, no success, no JSON, no time).                    *)
(***************************************************************************)
EXTENDS Sizing

CONSTANTS
  Configs,          \* [scout, brainKey, manager, failClosed, failOpen]
  Active,           \* the strategies switched on
  Markets,          \* what a closed candle may look like
  Snapshots,        \* external snapshots of the alpha gate
  MinScore, ReduceDelta,
  QuantStates, Lessons, Spreads, Fundings,
  LlmConfidences, LlmPrices, AdjustSizes, AdjustOffsets,
  FallbackTa, FastApproveMin

None  == [none |-> TRUE]
Modes == {"Unknown", "Healthy", "Cautious", "Defensive", "Frozen", "Dead"}

\* A candle closes within its range; bands enclose their mean, and fall on it
\* only when all closes they are taken over, the last one too, were equal.
WellFormed(k) ==
  /\ {k.vwap, k.low, k.high, k.bbLower, k.bbMid, k.bbUpper, k.ema21, k.ema50} \subseteq Int
  /\ k.atr = Cold \/ k.atr \in Nat
  /\ k.low <= Close /\ Close <= k.high
  /\ k.bbMid # Cold => \/ (k.bbLower < k.bbMid /\ k.bbMid < k.bbUpper)
                       \/ (k.bbLower = Close /\ k.bbMid = Close /\ k.bbUpper = Close)

QuantState(q) ==
  /\ {q.trades, q.winPct, q.avgWin, q.avgLoss, q.kalman} \subseteq Int
  /\ q.vol = Cold \/ q.vol \in Nat

ASSUME InputAssumption ==
  /\ \A k \in Markets : WellFormed(k)
  /\ \A q \in QuantStates : QuantState(q)
  /\ Lessons \subseteq {"none", "block", "derate", "boost"}
  /\ AdjustSizes \subseteq Int /\ AdjustOffsets \subseteq Int /\ LlmPrices \subseteq Int

VARIABLES
  conf,      \* the loaded configuration
  mode,      \* the survival mode, Unknown until the first update
  stage,     \* where the setup is
  signal, size, lesson,   \* pre-signal, and what the risk agent made of it
  decision,  \* the brain's
  action,    \* the manager's
  order,     \* the entry request
  heard      \* an LLM answered about this setup

setup == <<signal, size, lesson, decision, action, order, heard>>
vars  == <<conf, mode, stage, setup>>

Multiplier(m) ==
  CASE m \in {"Unknown", "Healthy"} -> 100
    [] m = "Cautious" -> 60
    [] m = "Defensive" -> 30
    [] m \in {"Frozen", "Dead"} -> 0

Refuses(m) == m \in {"Frozen", "Dead"}

Init ==
  /\ conf \in Configs /\ mode = "Unknown" /\ stage = "idle"
  /\ signal = None /\ size = 0 /\ lesson = "none" /\ decision = None
  /\ action = None /\ order = None /\ heard = FALSE

\* A setup that is refused is forgotten, as is one that was ordered.
Forget ==
  /\ stage' = "idle" /\ signal' = None /\ size' = 0 /\ lesson' = "none"
  /\ decision' = None /\ action' = None /\ order' = None /\ heard' = FALSE

SurvivalUpdated ==
  /\ mode' \in Modes \ {"Unknown", mode}
  /\ UNCHANGED <<conf, stage, setup>>

-----------------------------------------------------------------------------
(* Signal agent *)

Candle ==
  /\ stage = "idle"
  /\ \E k \in Markets, fresh \in {{}} \union {{x} : x \in Snapshots} :
       \E s \in Selected(Active, k, conf.scout, fresh, MinScore, ReduceDelta) : signal' = s
  /\ stage' = "signal"
  /\ UNCHANGED <<conf, mode, size, lesson, decision, action, order, heard>>

-----------------------------------------------------------------------------
(* Risk agent; canOpen is RiskManager's answer *)

SizeOf(s, l, q) ==
  Of(ComputeSizing(q, s.side), Of(Verdict(l).size, CalculateSize(s, Multiplier(mode))))

Granted(s, l, q, spread, rate) ==
  /\ ~Refuses(mode)
  /\ Verdict(l).allowed
  /\ s.conf >= EffectiveTaThreshold(l)
  /\ ValidateSignal(s, spread)
  /\ ~FundingBlocks(s.side, rate)
  /\ ~VarRejects(q, s)
  /\ SizeOf(s, l, q) > 0

RiskCheck ==
  /\ stage = "signal"
  /\ \E l \in Lessons, q \in QuantStates, spread \in Spreads, rate \in Fundings,
        canOpen \in BOOLEAN :
       IF canOpen /\ Granted(signal, l, q, spread, rate)
       THEN /\ stage' = "allowed" /\ size' = SizeOf(signal, l, q) /\ lesson' = l
            /\ UNCHANGED <<signal, decision, action, order, heard>>
       ELSE Forget
  /\ UNCHANGED <<conf, mode>>

-----------------------------------------------------------------------------
(* Brain agent *)

Decision(go, confidence, price, offline) ==
  [go |-> go, confidence |-> confidence, price |-> price, offline |-> offline]

FallbackDecision == Decision(signal.conf >= FallbackTa, signal.conf, 0, TRUE)

\* direction and the adjustments an answer may carry are not looked at.
Answers == {Decision(go, c, p, FALSE) : go \in BOOLEAN, c \in LlmConfidences, p \in LlmPrices}

Decided(d) ==
  IF d.go THEN /\ stage' = "decided" /\ decision' = d /\ heard' = ~d.offline
               /\ UNCHANGED <<signal, size, lesson, action, order>>
  ELSE Forget

Analyze ==
  /\ stage = "allowed"
  /\ \/ conf.brainKey /\ \E d \in Answers : Decided(d)
     \/ Decided(FallbackDecision)
  /\ UNCHANGED <<conf, mode>>

-----------------------------------------------------------------------------
(* Manager agent *)

Approve == [kind |-> "Approve"]
Veto    == [kind |-> "Veto"]

\* Mutant of ParsedAdjust: the answer is taken as it is.
ParsedAdjustUnclamped(percent, sl, tp) ==
  [kind |-> "Adjust", size |-> percent, sl |-> sl, tp |-> tp]

ParsedAdjust(percent, sl, tp) ==
  [kind |-> "Adjust", size |-> Clamp(percent, 10, 150), sl |-> Clamp(sl, 0 - 50, 50),
   tp |-> Clamp(tp, 0 - 50, 50)]

ManagerOffAction ==
  IF conf.failClosed /\ decision.offline THEN Veto ELSE Approve

\* Mutant of ErrorAction: fail_open_on_error alone decides.
ErrorActionFailsOpen == IF conf.failOpen THEN Approve ELSE Veto

ErrorAction == IF conf.failOpen /\ ~conf.failClosed THEN Approve ELSE Veto

FastApproves ==
  decision.confidence >= FastApproveMin /\ lesson = "none" /\ mode \in {"Unknown", "Healthy"}

Verdicts == {Approve, Veto} \union
  {ParsedAdjust(z, sl, tp) : z \in AdjustSizes, sl \in AdjustOffsets, tp \in AdjustOffsets}

Acts(a) ==
  IF a.kind = "Veto" THEN Forget
  ELSE /\ stage' = "verdict" /\ action' = a
       /\ UNCHANGED <<signal, size, lesson, decision, order, heard>>

AsksManager ==
  \/ \E a \in Verdicts :
       IF a.kind = "Veto" THEN Forget
       ELSE /\ stage' = "verdict" /\ action' = a /\ heard' = TRUE
            /\ UNCHANGED <<signal, size, lesson, decision, order>>
  \/ Acts(ErrorAction)

Manage ==
  /\ stage = "decided"
  /\ IF Refuses(mode) THEN Forget
     ELSE IF ~conf.manager THEN Acts(ManagerOffAction)
     ELSE IF FastApproves THEN Acts(Approve)
     ELSE AsksManager
  /\ UNCHANGED <<conf, mode>>

-----------------------------------------------------------------------------
(* Execution agent *)

ProposedEntry == IF decision.price > 0 THEN decision.price ELSE signal.entry

BpsOffset(entry, bps, side) == Sign(side) * ((entry * bps) \div 10000)

\* The stop and the target stay where the signal put them when the brain
\* names another entry.
BuildEntryRequest ==
  LET entry == ProposedEntry
      plain == [side |-> signal.side, price |-> entry, size |-> size,
                stopLoss |-> signal.stopLoss, takeProfit |-> signal.takeProfit]
  IN IF action.kind = "Approve" THEN plain
     ELSE [plain EXCEPT !.size = Of(action.size, @),
                        !.stopLoss = @ + BpsOffset(entry, action.sl, signal.side),
                        !.takeProfit = @ + BpsOffset(entry, action.tp, signal.side)]

\* blocked is is_blocked of the risk manager.
Execute ==
  /\ stage = "verdict"
  /\ \E blocked \in BOOLEAN :
       IF Refuses(mode) \/ blocked THEN Forget
       ELSE /\ stage' = "sent" /\ order' = BuildEntryRequest
            /\ UNCHANGED <<signal, size, lesson, decision, action, heard>>
  /\ UNCHANGED <<conf, mode>>

Done == stage = "sent" /\ Forget /\ UNCHANGED <<conf, mode>>

Next ==
  SurvivalUpdated \/ Candle \/ RiskCheck \/ Analyze \/ Manage \/ Execute \/ Done

Spec == Init /\ [][Next]_vars

-----------------------------------------------------------------------------
(* Properties *)

StopLoses  == Beyond(order.side, order.price, order.stopLoss)
TargetWins == Beyond(order.side, order.takeProfit, order.price)
Repriced    == Magnitude(order.price - signal.entry)
StopMoved   == Magnitude(order.stopLoss - signal.stopLoss)
TargetMoved == Magnitude(order.takeProfit - signal.takeProfit)
FiftyBps    == order.price \div 200 + 1       \* rounded up

\* The stop of an order lies on the losing side, unless the two LLMs together
\* changed as much as its distance: the brain the entry price, which leaves
\* the stop where the signal put it, and the manager the stop, by 50 bps at
\* most whatever it asks for and whichever sign it takes for closer.  The
\* target lies on the winning side likewise, or it is a VWAP that the close
\* had already passed, which the test of the reward/risk ratio takes for a
\* reward.  A middle band that was passed fails that test, for the stop is
\* half a band's width behind the outer band, if the ratio asked for is at
\* least one, as in every file of config/ (agents/risk.rs:190 with
\* execution/risk.rs:229, strategy/vwap_scalp.rs:42, agents/execution.rs:386,
\* 460).
OrderGeometry ==
  stage = "sent" =>
    /\ StopLoses \/ Repriced + StopMoved >= Distance(signal)
    /\ TargetWins \/ signal.strategy = "VwapScalp"
                  \/ Repriced + TargetMoved >= Reward(signal)
    /\ StopMoved <= FiftyBps /\ TargetMoved <= FiftyBps

\* Whatever lessons, quant engine and manager multiply, an order stays within
\* 120 % * 300 % * 150 % of the caps on leverage and notional, and so does what
\* the signal's own stop would lose of the risk per trade: the caps of the
\* configuration hold for the base size alone (execution/risk.rs:267-282,
\* quant.rs:373, agents/manager.rs:494).
SizeWithinCaps ==
  stage = "sent" =>
    LET grown(x) == (x * MaxBoost * 3 * 3) \div 200
    IN /\ order.size <= grown(NotionalCap)
       /\ order.size * Distance(signal) <= grown(RiskPerTrade * 10000)

\* Live and with no answer of any LLM about the setup, an order leaves only by
\* the fast path of a manager that is configured: a TA confidence of at least
\* fast_approve_min_conf, no lesson, and no survival mode worse than healthy
\* when the manager looked (agents/manager.rs:55-70, 157-196).
BlackoutOnlyFastApproves ==
  (stage \in {"verdict", "sent"} /\ conf.failClosed /\ ~heard) =>
    /\ conf.manager /\ decision.offline
    /\ signal.conf >= Greatest(FastApproveMin, FallbackTa) /\ lesson = "none"
    /\ action = Approve
=============================================================================
