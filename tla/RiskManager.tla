---------------------------- MODULE RiskManager ----------------------------
(***************************************************************************)
(* The shared `RiskManager` (src/src/execution/risk.rs): the capital       *)
(* ledger and the circuit breaker every agent consults.  Each method takes *)
(* the mutex once, so each is one action.  Money is an integer number of   *)
(* units and every percentage test is cross-multiplied; the multiplier is  *)
(* in percent.  trip_reason and freeze_reason are text and left out.       *)
(*                                                                         *)
(* The module only defines the methods.  Who calls them, and when, is the  *)
(* business of the modules that extend it.                                 *)
(***************************************************************************)
EXTENDS Integers

CONSTANTS
  InitialEquity,     \* equity at boot, cfg.risk.equity_usd
  MaxOpenPositions,  \* limits.max_open_positions
  MaxDrawdownPct,    \* limits.max_drawdown_pct
  MaxDailyLossPct    \* limits.max_daily_loss_pct

ASSUME RiskLimitsAssumption ==
  /\ InitialEquity \in Nat \ {0}
  /\ MaxOpenPositions \in Nat
  /\ MaxDrawdownPct \in 1..100
  /\ MaxDailyLossPct \in Nat \ {0}

VARIABLES
  equity,
  peakEquity,
  openPositions,
  realizedPnlToday,
  tripped,
  frozen,
  sizeMultiplier     \* percent, 0..200

riskVars == <<equity, peakEquity, openPositions, realizedPnlToday,
              tripped, frozen, sizeMultiplier>>

RiskTypeOK ==
  /\ equity \in Int
  /\ peakEquity \in Int
  /\ openPositions \in Nat
  /\ realizedPnlToday \in Int
  /\ tripped \in BOOLEAN
  /\ frozen \in BOOLEAN
  /\ sizeMultiplier \in 0..200

RiskInit ==
  /\ equity = InitialEquity
  /\ peakEquity = InitialEquity
  /\ openPositions = 0
  /\ realizedPnlToday = 0
  /\ tripped = FALSE
  /\ frozen = FALSE
  /\ sizeMultiplier = 100

-----------------------------------------------------------------------------
(* Queries *)

\* drawdown_pct >= limit, with the code's guard on a non-positive peak.
DrawdownAtLimit(peak, eq) ==
  /\ peak > 0
  /\ (peak - eq) * 100 >= MaxDrawdownPct * peak

\* The loss test of on_position_closed: 0% unless equity is positive.
DailyLossAtLimit(pnl, eq) ==
  /\ eq > 0
  /\ pnl < 0
  /\ (0 - pnl) * 100 >= MaxDailyLossPct * eq

\* The loss test of can_open_position divides by equity without that guard:
\* a zero equity gives +infinity, a negative one a negative percentage.
DailyLossBlocksOpen ==
  /\ realizedPnlToday < 0
  /\ \/ equity = 0
     \/ DailyLossAtLimit(realizedPnlToday, equity)

IsBlocked == tripped \/ frozen

\* Mutant of CanOpenPosition: the cap is off by one.
CanOpenAtCap ==
  /\ ~IsBlocked
  /\ openPositions <= MaxOpenPositions
  /\ ~DrawdownAtLimit(peakEquity, equity)
  /\ ~DailyLossBlocksOpen

\* Mutant of CanOpenPosition: the drawdown is left to the trip.
CanOpenUnlessTripped ==
  /\ ~IsBlocked
  /\ openPositions < MaxOpenPositions
  /\ ~DailyLossBlocksOpen

CanOpenPosition ==
  /\ ~tripped
  /\ ~frozen
  /\ openPositions < MaxOpenPositions
  /\ ~DrawdownAtLimit(peakEquity, equity)
  /\ ~DailyLossBlocksOpen

\* calculate_size > 0: the size is the least of three products of equity
\* with positive limits, the first one scaled by the survival multiplier.
SizeIsPositive == equity > 0 /\ sizeMultiplier > 0

-----------------------------------------------------------------------------
(* Methods *)

SetEquity(e) ==
  /\ equity' = e
  /\ peakEquity' = IF e > peakEquity THEN e ELSE peakEquity
  /\ UNCHANGED <<openPositions, realizedPnlToday, tripped, frozen, sizeMultiplier>>

SetSizeMultiplier(m) ==
  /\ sizeMultiplier' = IF m < 0 THEN 0 ELSE IF m > 200 THEN 200 ELSE m
  /\ UNCHANGED <<equity, peakEquity, openPositions, realizedPnlToday, tripped, frozen>>

Freeze ==
  /\ frozen' = TRUE
  /\ UNCHANGED <<equity, peakEquity, openPositions, realizedPnlToday, tripped, sizeMultiplier>>

Unfreeze ==
  /\ frozen' = FALSE
  /\ UNCHANGED <<equity, peakEquity, openPositions, realizedPnlToday, tripped, sizeMultiplier>>

OnPositionOpened ==
  /\ openPositions' = openPositions + 1
  /\ UNCHANGED <<equity, peakEquity, realizedPnlToday, tripped, frozen, sizeMultiplier>>

OnPositionClosed(pnl) ==
  /\ openPositions' = IF openPositions > 0 THEN openPositions - 1 ELSE 0
  /\ realizedPnlToday' = realizedPnlToday + pnl
  /\ equity' = equity + pnl
  /\ peakEquity' = IF equity + pnl > peakEquity THEN equity + pnl ELSE peakEquity
  /\ tripped' = \/ tripped
                \/ DrawdownAtLimit(peakEquity', equity')
                \/ DailyLossAtLimit(realizedPnlToday', equity')
  /\ UNCHANGED <<frozen, sizeMultiplier>>

ResetDaily ==
  /\ realizedPnlToday' = 0
  /\ tripped' = FALSE
  /\ UNCHANGED <<equity, peakEquity, openPositions, frozen, sizeMultiplier>>
=============================================================================
