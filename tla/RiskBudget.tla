----------------------------- MODULE RiskBudget -----------------------------
(***************************************************************************)
(* The risk manager driven by its callers, to ask how much the account can *)
(* lose.  RiskAgent asks can_open_position and later, after the brain, the *)
(* manager and the order, ExecutionAgent opens the position on the weaker  *)
(* test is_blocked.  `granted` counts the setups between the two; at most  *)
(* MaxInFlight of them are under way at once.                              *)
(*                                                                         *)
(* A behaviour starts with the first recovery of main.rs, which counts     *)
(* every position the exchange reports without asking the cap; the second  *)
(* one, once the agents run, rewrites the book and counts nothing.  A      *)
(* restart of the program is another behaviour: the ledger is in memory.   *)
(*                                                                         *)
(* MaxLoss, the distance to the stop times the size, is what a position    *)
(* the agent opened loses at most: an assumption about fills and about the *)
(* stop being honoured.  A recovered position has no stop and loses any    *)
(* amount.  The paper exchange reports no balance and no position: it is   *)
(* the behaviours without recovery and without ReconcileBalance.           *)
(*                                                                         *)
(* History: `writtenDown`, a reconciliation has lowered the equity since   *)
(* the last grant; `unstopped`, what recovered positions have lost since   *)
(* then; `counted`, positions the first recovery counted; `uncounted`, how *)
(* many more the second one put on the book than the counter knows of.     *)
(***************************************************************************)
EXTENDS RiskManager

CONSTANTS
  MaxInFlight,       \* setups between the risk check and the order
  MaxLoss,           \* the most a position opened by the agent loses
  MaxRecovered,      \* positions the exchange reports at a start
  MaxEquity          \* bound on equity, profit and loss, for checking

ASSUME BudgetAssumption ==
  /\ MaxInFlight \in Nat \ {0}
  /\ MaxLoss \in Nat
  /\ MaxRecovered \in Nat
  /\ MaxEquity \in Nat

VARIABLES
  granted,
  own,               \* positions on the book that the agent opened
  recovered,         \* positions on the book that a recovery found
  counted, uncounted,
  reconciled,        \* the second recovery has run
  writtenDown, unstopped

bookVars    == <<own, recovered>>
startVars   == <<counted, uncounted, reconciled>>
historyVars == <<writtenDown, unstopped>>
budgetVars  == <<riskVars, granted, bookVars, startVars, historyVars>>

BudgetTypeOK ==
  /\ RiskTypeOK
  /\ granted \in 0..MaxInFlight
  /\ own \in Nat /\ recovered \in 0..MaxRecovered
  /\ counted \in 0..MaxRecovered /\ uncounted \in 0..MaxRecovered
  /\ reconciled \in BOOLEAN /\ writtenDown \in BOOLEAN
  /\ unstopped \in Nat

\* The first recovery: on_position_opened for every position found, and the
\* same positions into the book.  A failed fetch finds none.
BudgetInit ==
  /\ \E found \in 0..MaxRecovered :
       /\ openPositions = found
       /\ recovered = found
       /\ counted = found
  /\ equity = InitialEquity /\ peakEquity = InitialEquity
  /\ realizedPnlToday = 0 /\ tripped = FALSE
  /\ frozen = FALSE /\ sizeMultiplier = 100
  /\ granted = 0 /\ own = 0
  /\ uncounted = 0 /\ reconciled = FALSE
  /\ writtenDown = FALSE /\ unstopped = 0

Larger(a, b) == IF a < b THEN b ELSE a

-----------------------------------------------------------------------------

\* The second recovery: the book becomes what the exchange reports, all of
\* it without stops, also what the agent has opened in the meantime.
Recover ==
  /\ ~reconciled
  /\ reconciled' = TRUE
  /\ own' = 0
  /\ recovered' \in 0..MaxRecovered
  /\ uncounted' = Larger(recovered' - openPositions, 0)
  /\ UNCHANGED <<riskVars, granted, counted, historyVars>>

\* RiskAgent lets a setup through: can_open_position is Ok and the size is
\* positive.
Grant ==
  /\ granted < MaxInFlight
  /\ CanOpenPosition
  /\ SizeIsPositive
  /\ granted' = granted + 1
  /\ writtenDown' = FALSE /\ unstopped' = 0
  /\ UNCHANGED <<riskVars, bookVars, startVars>>

\* Mutant of Drop: a setup that is gone is dropped once more.
DropAgain ==
  /\ granted' = granted - 1
  /\ UNCHANGED <<riskVars, bookVars, startVars, historyVars>>

\* The brain, the manager, the survival gate, is_blocked or a rejected order
\* ends the setup.
Drop ==
  /\ granted > 0
  /\ granted' = granted - 1
  /\ UNCHANGED <<riskVars, bookVars, startVars, historyVars>>

\* ExecutionAgent opens the position: it re-checks is_blocked, and nothing
\* else.
OpenGranted ==
  /\ granted > 0
  /\ ~IsBlocked
  /\ granted' = granted - 1
  /\ own' = own + 1
  /\ OnPositionOpened
  /\ UNCHANGED <<recovered, startVars, historyVars>>

Books(pnl) ==
  /\ equity + pnl <= MaxEquity
  /\ realizedPnlToday + pnl <= MaxEquity
  /\ OnPositionClosed(pnl)

\* A position of the agent is closed at a profit or at a loss of at most
\* MaxLoss.
CloseTracked ==
  /\ own > 0
  /\ \E pnl \in (0 - MaxLoss)..MaxEquity : Books(pnl)
  /\ own' = own - 1
  /\ UNCHANGED <<granted, recovered, startVars, historyVars>>

\* A recovered position is closed: its stop is 0.
CloseRecovered ==
  /\ recovered > 0
  /\ \E pnl \in (0 - MaxEquity)..MaxEquity :
       /\ Books(pnl)
       /\ unstopped' = unstopped + Larger(0 - pnl, 0)
  /\ recovered' = recovered - 1
  /\ UNCHANGED <<granted, own, startVars, writtenDown>>

\* The midnight task of main.rs.
MidnightReset ==
  ResetDaily /\ UNCHANGED <<granted, bookVars, startVars, historyVars>>

\* survival's apply_state: a multiplier, then the freeze flag; Control's
\* freeze and unfreeze.
ApplySurvival ==
  /\ \/ \E m \in {0, 30, 60, 100} : SetSizeMultiplier(m)
     \/ Freeze
     \/ Unfreeze
  /\ UNCHANGED <<granted, bookVars, startVars, historyVars>>

\* The equity task of the survival agent, and main.rs at startup: only a
\* positive balance is taken.
ReconcileBalance ==
  /\ \E e \in 1..MaxEquity : SetEquity(e)
  /\ writtenDown' = (writtenDown \/ equity' < equity)
  /\ UNCHANGED <<granted, bookVars, startVars, unstopped>>

BudgetNext ==
  \/ Recover \/ Grant \/ Drop \/ OpenGranted
  \/ CloseTracked \/ CloseRecovered
  \/ MidnightReset \/ ApplySurvival \/ ReconcileBalance

BudgetSpec == BudgetInit /\ [][BudgetNext]_budgetVars

-----------------------------------------------------------------------------
(* Properties *)

\* CONFIG.md:123 calls max_open_positions a hard cap.  risk.rs:191 checks it
\* when the setup is evaluated, execution.rs:227 does not check it again when
\* the position is opened, main.rs:378-411 does not ask it for what it counts
\* at a start, and main.rs:530-555 puts positions on the book that it does
\* not count.  What these leave of the cap: it can be overshot by the setups
\* in flight, unless the first recovery found more, and on top by what the
\* second recovery found beyond the counter, and by no more.
CapOvershootBounded ==
  own + recovered + granted <=
    Larger(counted, MaxOpenPositions + MaxInFlight - 1) + uncounted

\* The circuit breaker as a budget: whatever the order of recoveries, grants,
\* opens, closes, midnight resets and freezes, the drawdown from the peak
\* never exceeds the limit by more than the agent's positions open or in
\* flight can lose, plus what recovered positions lost since the last grant.
\* A midnight reset (risk.rs:318-323) clears `tripped` while the drawdown
\* still stands; the drawdown test of can_open_position is what holds then.
\* Positions the counter does not know of widen the budget, each by MaxLoss;
\* money the exchange takes out of the ledger breaks it, until the next grant.
DrawdownBudget ==
  \/ writtenDown
  \/ (peakEquity - equity) * 100 <
        MaxDrawdownPct * peakEquity
          + 100 * (MaxLoss * (MaxOpenPositions + MaxInFlight - 1 + uncounted)
                     + unstopped)

\* An account with nothing left is never allowed to open, even though
\* can_open_position computes the daily loss as a negative percentage when
\* equity is negative and reset_daily clears the trip (risk.rs:177-211).
RuinedAccountIsShut == equity <= 0 => ~CanOpenPosition
=============================================================================
