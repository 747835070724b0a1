# Formal models of the crypto-scalper runtime

TLA+ modules for the multi-agent trading runtime in `src/src`, the TLC
configurations that model-check them on small instances, and TLAPS proofs of
their main safety properties for every value of the constants.  `PROJECT.json`
holds the machine-readable side: which definition models which lines (`map`),
which run checks which property, which mutation of the code each property
detects, and the list of hazards the properties are for.

    tlc -workers 2 -config MCPipeline.cfg MCPipeline.tla     # one run
    tlapm PipelineProofs.tla                                 # one proof module

## 1. The system

One process.  `main.rs` builds a message bus (a tokio broadcast channel), a
`RiskManager` and a `PositionBook`, both shared through `Arc`, and spawns twelve
agents, each a tokio task (some of them several) that loops over the bus.

| Component | State | Operations | Talks to |
|---|---|---|---|
| Risk manager (`execution/risk.rs`) | equity, peak, open positions, today's profit, `tripped`, `frozen`, size multiplier; one mutex | `set_equity`, `set_size_multiplier`, `freeze`, `unfreeze`, `can_open_position`, `is_blocked`, `validate_signal`, `calculate_size`, `on_position_opened/closed`, `reset_daily` | called by risk, execution, survival, control, main |
| Position book (`execution/position.rs`) | map from client id to position with stop, target, flags | `open`, `close_by_id`, `reconcile`, `check_exits` | called by execution and main |
| Bus (`agents/bus.rs`, `messages.rs`) | a ring of 4096 events, a read position per subscriber | `publish`, `subscribe` | everybody |
| Data agent (`agents/data.rs`, `data/*`) | candles, order book | ticks, candles, heartbeat | WebSocket in, bus out |
| Feeds agent (`agents/feeds.rs`, `feeds/*`) | last snapshot | fetch, publish, heartbeat | HTTP in, bus out |
| Signal agent (`agents/signal.rs`, `strategy/*`, `indicators/*`) | indicators per symbol | pre-signals | bus |
| Risk agent (`agents/risk.rs`) | own copy of the survival mode | allow or block a pre-signal | bus, risk manager |
| Brain agent (`agents/brain.rs`, `llm/*`) | none | ask the LLM about an allowed setup | bus, LLM |
| Manager agent (`agents/manager.rs`) | own copy of the survival mode | approve, adjust, veto | bus, LLM |
| Execution agent (`agents/execution.rs`) | own copy of the survival mode, last marks | entry, exits on ticks, flat-all | bus, risk manager, book, exchange |
| Survival agent (`agents/survival.rs`) | losses, cooldown, news, last flat-all; one mutex | recompute and apply a survival state, from an event task and a refresh task; reconcile equity | bus, risk manager, exchange |
| Control agent (`agents/control.rs`) | none | Telegram, stdin, file; carries out freeze and unfreeze | bus, risk manager |
| Watchdog (`agents/watchdog.rs`) | last heartbeat per agent, own `frozen` | freeze on stale heartbeats, unfreeze | bus |
| Learning (`agents/learning.rs`, `learning/*`), quant (`quant.rs`) | trade memory, policy | lessons, policy refresh | bus |
| Monitor (`agents/monitor.rs`, `monitoring/*`) | journals | Telegram, SQLite | bus |
| Exchange (`execution/exchange.rs`, `binance.rs`, `paper.rs`) | the broker's | order, cancel, equity, positions | HTTP |
| Offline (`backtest/*`, `research/*`, `portfolio/*`) | none shared | pure computations | files |

What is hard about it:

* **check and use are far apart.**  The cap, the drawdown and the daily loss are
  tested by the risk agent; the position opens after an LLM call, a manager call
  and an exchange call, and only `is_blocked` is tested again (`execution.rs:227`);
* **several writers of one flag.**  Survival's two tasks, the survival agent's
  unfreeze handler and the control agent (for operator and watchdog) all set
  `frozen`, and survival applies a state computed from an older snapshot, in three
  separate critical sections;
* **copies.**  Risk, manager and execution agent each keep the survival mode they
  saw last;
* **two records of one thing.**  The risk manager's counter and the book are
  updated by different calls with awaits between them;
* **a stop that moves.**  Breakeven and trail rewrite the stop from a distance
  that is itself measured to the stop;
* **a lossy bus.**  A slow loop is overrun and `while let Ok(..)` ends it;
* **partial failure.**  Orders are refused, time out, or are accepted after a
  timeout; stop and target orders are best effort; the broker fills and triggers
  while the agent awaits something else;
* **feedback.**  What the monitor writes minutes later becomes the lesson that
  forbids or enlarges the next trade;
* **edges of time.**  A candle closes with the first trade of the next one, so
  reconnects, late trades, the bootstrap and the midnight reset all meet it halfway;
* **two ways in.**  Operator commands come from a server that forgets what was
  confirmed and from a file that is read and then truncated.

What makes each modelled component correct is the list of properties below; what
can go wrong, with its line and the property that would notice, is `hazards` in
`PROJECT.json`.

## 2. Modules

| Module | Kind | Models |
|---|---|---|
| `RiskManager` | component | `execution/risk.rs`: state, queries and methods, one action per method. Extended by every module that shares it |
| `RiskBudget` | composition | the risk manager under all its callers: both recoveries at startup, grants in flight, opens, closes, midnight, survival, reconciliation |
| `PositionBook` | component | `execution/position.rs`: the book, `check_exits`, flat-all closes, recovered positions |
| `TradeLifecycle` | abstract specification | what the pipeline promises about one setup |
| `TradingPipeline` | composition | signal, risk, brain, manager and execution agent with their inboxes, over the risk manager and the book |
| `PipelineProperties` | properties | history variables, refinement mapping to `TradeLifecycle`, properties |
| `LiveExecution` | composition | the execution agent against a live broker, from the two reconciliations at startup through crashes |
| `Strategies` | operators | regime, the five strategies, scout, choice of the best signal, alpha gate |
| `Sizing` | operators | `validate_signal`, `calculate_size`, the quant engine's multiplier, what a lesson does to a setup |
| `DecisionPath` | composition | one setup with its prices, sizes and confidences from the closed candle to the entry request |
| `SignalPath` | composition | WebSocket client, candle builders, bootstrap, the signal agent's candle handling, the midnight task |
| `LearningLoop` | composition | monitor, journal, learning agent, lessons and policy, Kelly statistics |
| `ControlIngress` | component | Telegram poll and control file with crashes |
| `SurvivalControl` | composition | the survival agent's two tasks, equity task, control agent and operator over the risk manager |
| `MessageBus` | component | `agents/bus.rs` over a tokio broadcast ring (the ring itself is external, as the code uses it) |
| `AgentLiveness` | composition | heartbeats, watchdog and control agent over the bus, and the other writers of the freeze flag, survival and operator |
| `MCPipeline`, `MCSurvival`, `MCLiveExecution`, `MCDecisionPath`, `MCSignalPath`, `MCLearningLoop` | instances | constants TLC needs that a cfg cannot write |
| `LedgerProofs`, `PositionBookProofs`, `PipelineProofs`, `LiveExecutionProofs`, `ControlProofs`, `DecisionPathProofs`, `SignalPathProofs`, `LearningLoopProofs` | proofs | section 5 |

The pipeline is modelled three times, each time for what the others leave out:
`TradingPipeline` has several setups, inboxes and stale copies of the mode, and no
values; `DecisionPath` has one setup and all its values; `LiveExecution` has the
broker.  Their common part, the gates and the order in which they are asked, is the
same code mapped to each.

### How state and actions correspond to the code

*Money, prices, percentages.*  The code's `f64` amounts are integers and every
percentage test is cross-multiplied (`(peak - equity) * 100 >= limit * peak`), so
the comparisons are the code's without rounding.  Stops are kept doubled: the only
fraction `check_exits` computes is the middle between entry and price, because
every caller passes `atr_at_entry = 0`.

*RiskManager.*  `riskVars` is `Inner` without the limits (constants) and the two
reason strings.  The methods take the mutex once, so each is one action.  The two
loss tests are kept apart because the code has two: `on_position_closed` guards the
division by equity, `can_open_position` does not (`DailyLossBlocksOpen`).

*RiskBudget.*  `granted` counts setups between the risk agent's check and the
execution agent's `on_position_opened`.  `Grant` is the risk agent's check, `OpenGranted`
the execution agent's re-check (only `IsBlocked`), `CloseTracked` a booked exit;
`MidnightReset`, `ApplySurvival` and `ReconcileBalance` are the other callers.
`BudgetInit` is the first recovery, `main.rs:377-411`: each position the broker reports
is counted, whatever the cap.  `Recover` is the second, `main.rs:527-558`: it replaces
the book, in which the agent may have opened positions by then, and leaves the counter.
`own` and `recovered` are the two kinds of positions on the book.  Recovered ones have a
stop of 0 and may lose anything (`CloseRecovered`).  That one of the agent's own loses
at most `MaxLoss` is an assumption about fills, and about the stop being honoured, which
`PositionBook_stop` shows it is not once breakeven is armed: what is proved is how the
limits add up, not what a fill costs.  A restart begins another behaviour.  The paper
exchange reports no position and an equity of 0, which the equity task skips: it is the
behaviours without recovered positions and without `ReconcileBalance`.

*PositionBook.*  `CheckExits` is one call of `check_exits`: every position of the
symbol is judged by `ExitReason` in the order of the code's tests (skip if r is 0,
time, stop, target, trail) and the ones that stay are moved by `Ratchet`.  `best`
is a history field, the most favourable price the position was ever checked at.

*TradingPipeline.*  Each agent has an inbox holding the messages it acts on; a
publication appends to all interested inboxes in one step, which is what the bus
order means.  A handler without an await between reading and writing is one action.
The execution agent's handlers are cut where they await: `ExecGate` (gates) and
`EntryFilled`/`EntryFailed` (the exchange's answer), `ExecTick` (check_exits) and
`BookExit` (one exit each), `ExecFlatAll` (snapshot) and `FlattenOne` (one position
each); `ExecIdle` keeps one handler from starting before the other has ended.
Survival modes are reduced to may-open and may-not.  `HonorSurvival` is
`survival.enabled`: without it the modes are published and the execution agent does not
ask for them (`execution.rs:215`).  Survival, control and watchdog are an environment that freezes, unfreezes, resets and publishes modes at will.

*SurvivalControl.*  `pc` walks each task through snapshot, `recompute`, multiplier,
freeze flag and publication, the points between which the other task and the other
agents can run.  `Score` follows `recompute` term by term with integer division for
the code's `as i32`; the Monte Carlo penalty, a statistic over the last 200 trades,
is any member of `McPenalties`.  Closes are booked first (`Close`) and published
later (`Report`), as the execution agent does.  Cooldowns have no clock: `Expire`
ends them whenever it likes; the day may have turned at any close (`SinceMidnight`).
`standing` is a history variable: a freeze command or a death was carried out and no
unfreeze command since.

*LiveExecution.*  Every await of the agent is one action: the call either reaches the
broker or not, and its answer reaches the agent or not (`execution/binance.rs` gives up
after 5 s whatever the broker did).  `pc` names the handler the agent is in.  Between
two calls the broker may fill a resting limit entry or trigger a protective order;
`closePosition` orders close whatever net position the symbol has.  `limit_order.rs`
decides between a limit and a market entry from the quote, and `Quantity` is the
adapter's rounding down to lots.  `Crash` loses the book and the counter and keeps the
broker; the two startup steps then fetch the positions one after the other, as
`main.rs` does.  `lost` is a history variable: by which route the agent lost track of
a symbol.  Orders are told apart by the `id` their client id is made from and by their
type (`execution.rs:403`, `425`, `447`), so equal limit entries of two setups are two
orders and may both fill.  Each setup has an id of its own: that two equal signals
within a minute share one (`execution.rs:469`) is left to `LearningLoop`.

*Strategies, Sizing, DecisionPath.*  Prices are basis points of the close and sizes
basis points of the equity, so that the code's thresholds (0.3 %, 0.4 ATR, 1.2 ATR) are
integers; `f64` products are rounded down, so a bound that is checked with `<=` is
checked at the code's value or below the next integer.  Indicators are fields of a
market record and may have any value; what is not warm is `Cold`.  Long and short
branches of a strategy mirror each other in the source and are one operator with a
`side`.  `DecisionPath` keeps each agent's handler as one action, takes every answer
the LLM parsers let through, and every failure.  Paper fills take the LLM's entry
price, as `ProposedEntry` does; the LLM's direction and its `sl_adjustment` and
`tp_adjustment` are parsed and never read, so they are not in the model.

*SignalPath.*  Time is a counter with several units per timeframe.  A trade carries
its exchange time, is delivered at most `MaxLate` later, and closes the candles it is
past, in the order of the configuration (`agents/data.rs:70-98`).  `inbox` is the
signal agent's queue, through which closes and the midnight reset come in the order they were
published.  Of a candle the VWAP has accumulated only the bucket is kept.

*LearningLoop.*  `stage` and `book` are the pipeline reduced to judged, filled and
closed; `inbox` is the monitor's queue, so the journal lags behind the trades.  `rows`
and `closed` are the journal table (`INSERT OR REPLACE` by client id, closed rows in
the order of `exit_time`); `Relearn` is one refresh of the learning agent, with the
memory and lessons it builds as operators on the rows; `wins` and `losses` are the
capped lists Kelly is computed from.

*ControlIngress.*  `confirmed` is the server's: asking for an offset makes it forget
the updates before.  `lastUpdate` is the process's and lost at a crash.  The file is
read and its lines are published without an await in between (`ReadFile`), then
truncated (`Truncate`) with the result ignored; `gap` collects what was appended in
between.

*MessageBus, AgentLiveness.*  `unread` is a loop's window of the ring, `lagged` that
a message of it was overwritten, and `EndOfLoop` is `while let Ok(..)` meeting
`Err(Lagged)`.  Of what a message says, a loop keeps only what it acts on; the rest is
"other".  Heartbeat ages are counted in periods.  The watchdog is one of three that
write `frozen`: `Operator` sends the commands the control agent cannot tell from the
watchdog's, and `ApplyState` is survival's write, which may be a freeze or a release at
any time (when it is which is the subject of `SurvivalControl`).  `overridden` is a history
variable: one of these two wrote the flag last.

## 3. Runs

| Run | Checks | Bounds, and why they are enough |
|---|---|---|
| `RiskBudget` | `BudgetTypeOK`, `CapOvershootBounded`, `DrawdownBudget`, `RuinedAccountIsShut` | cap 1, two setups in flight, losses up to 2, equity 3, at most three positions found by either recovery: the overshoot, a recovery beyond the cap and one the counter misses, a trip, a reset under a standing drawdown and a negative equity all occur; the theorems remove the bounds |
| `PositionBook` | `TypeOK`, `BreakevenKeepsEntry`, `TrailLocksHalfOfBest`, `StopNeverLoosens` | one position slot, two symbols, prices 1..5, both sides, stops and targets anywhere: breakeven, trail, retreat and recovery all fit in five prices; positions do not interact |
| `MCPipeline` | `PipelineTypeOK`, `CounterMatchesBook`, `FrozenModeStopsLaterVerdicts`, `ImplementsLifecycle`, `EverySetupIsDecided` | two setups of one symbol, cap 1, two environment messages (mode, tick, flat-all), any number of freezes, unfreezes and resets, survival switched on: two setups are the least that overtake each other, two messages give frozen-then-healthy and tick-then-flat |
| `MCLiveExecution` | `TypeOK`, `UntrackedOnlyByKnownRoutes`, `FlatAllIsFinal`, `CounterDriftBounded` | three setups of one symbol on both sides, one without a stop and one without a target, a lot larger than one unit, a wide and a narrow quote, one crash: opposite entries net out at the broker, two equal limit entries rest side by side, a limit order rests while another position closes, a size is rounded away; positions of other symbols share nothing but the counter |
| `MCDecisionPath` | `OrderGeometry`, `SizeWithinCaps`, `BlackoutOnlyFastApproves` | thirteen markets chosen so that every strategy fires, on both sides where it has two kinds of target, with the VWAP or middle band before and behind the close; four configurations, four quant states, four lessons, manager and LLM answers in and out of their clamps, LLM prices on both sides of the close and of a near stop; the theorems remove the bounds |
| `MCSignalPath` | `TypeOK`, `CandlesStrictlyOrdered`, `CandlesMatchTrades`, `HigherTimeframesEndedBefore`, `VwapSpillsOneCandle` | timeframes 2 and 4, a day of 6, four trades at two prices, at most 1 late, boots in the middle of a candle and in the dead zone: a late trade, a gap, two closes by one trade and a midnight inside a candle of the higher timeframe all occur; the theorems remove the bounds |
| `MCLearningLoop` | `TypeOK`, `MisattributionNeedsOverlap`, `KellyCountsOncePerRefresh`, `PauseMatchesOutcomes` | three setups of one symbol, two of them alike, a losing streak of two, a window of two rows, two periods, one crash: outcomes overlap, the journal lags over a refresh; the theorems remove the bounds |
| `ControlIngress` | `ObeyedInOrderPerRun`, `FileCommandsAccountedFor`, `EveryCommandIsTaken` | three updates in batches of two, an allowed and another user, two lines, one crash, one failed truncation: a batch is cut by a crash, a line falls in the gap; the two invariants are theorems without bounds |
| `MCSurvival` | `TypeOK`, `LockoutPrevails`, `FitAccountIsReleased` | three external events of any kind (close, command, news, midnight, balance), unlimited opens, expiries and refreshes: a death, a recovery by reconciliation, and a command racing with either; the type invariant is a theorem without bounds |
| `AgentLiveness` | `TypeOK`, `CommandsFollowTrip`, `LostLivenessFreezes`, `RecoveryReleases` | ring of 2, one worker with its own heartbeat, one timer heartbeat, bursts of 3 that may be operator's commands, survival writing at any time: the ring overflows in both loops, and both other writers override the watchdog and are overridden by it; the first two are theorems without bounds |
| `PositionBook_stop` | refutes `BreakevenStopIsHonoured` | as `PositionBook` |
| `MCLiveExecution_protected` | refutes `ProtectedAtBroker` | as `MCLiveExecution` |

What the passing runs show, in words:

* the cap can be overshot: by the setups in flight, by whatever the first recovery
  counted, and by what the second one found beyond the counter; by no more.  The
  drawdown limit likewise, by what the agent's positions, open and granted, can lose and
  what recovered ones have lost, until the exchange itself takes money out of the
  ledger; the next setup let through starts the budget anew;
* an account without equity never opens, although one of its two loss tests
  computes a negative percentage then;
* no sequence of ticks moves a stop away from the price or gives back more than
  half of the best profit once it trails;
* counter and book agree up to the exits being booked; the execution agent's own
  copy of the survival mode is fresh enough because verdicts and modes share one
  order, as long as survival is switched on; every setup is decided once and in the end;
* the agent loses sight of a position at the broker only by a lost answer, an exit on
  a tick, a failed call of a flat-all or of the startup, or an entry that rests while
  the process dies: neither netting of opposite positions nor a crash in the middle of
  any handler adds a route, and a flat-all without a failure leaves nothing behind;
* counter and book start apart by what the two fetches at startup differ, and no later
  step makes it worse;
* an order has its stop on the losing side and its target on the winning one, whichever
  strategy made it, unless the price the brain names and the offset of the manager
  together cover the distance between: the stop stays where the signal put it when the
  entry moves.  The manager moves either by 50 bps at most, whichever sign it takes for
  closer.  A VWAP target that the close had passed stays on the wrong side;
* the size caps hold for the base size; what lesson, quant engine and manager multiply
  afterwards may exceed them by 120 % * 300 % * 150 % and no more;
* in a live LLM blackout exactly one path leads to an order, the fast approval;
* the indicators see every candle once and in order, over bootstrap, reconnects and
  late trades; a bucket without a late trade becomes exactly the candle of its trades;
  a higher timeframe is consulted only after it has ended; the VWAP carries at most
  one candle over midnight, however far the signal agent lags;
* a trade is journalled under another's strategy only if two outcomes of a symbol
  overlap; when nothing overlaps and the monitor has caught up, the pairs that are
  paused are those whose trades really ended in a losing run;
* operator commands are obeyed in order and once per run, a line of the file is lost
  only between a read and its truncation and repeated only by a truncation that did
  not happen; no command stays untaken;
* whatever stale states survival's tasks apply over each other, and whatever
  commands come between, an account that stays locked out ends up frozen with
  multiplier 0; one that stays fit ends up free unless a freeze command or a death still
  stands.  Of these nothing is claimed: the code lifts them, and says it does not (below);
* the watchdog says each change of its mind once and never again; still, as long as the
  control agent's loop has missed nothing, the account shows what it decided last, or
  what survival or an operator wrote since;
* a work loop that hangs for good freezes the account although heartbeats, and the
  watchdog's own loop, may be lost on the bus, and the watchdog's freeze does not
  outlive its cause.  The freeze does not last: it is published once, and survival's next
  refresh in a mode that may trade lifts it (`survival.rs:492-497`), as an operator may.

The two refuting runs each show a statement of a comment that the code does not
keep; `findings` in `PROJECT.json` quotes both sides: after breakeven no exit test
fires any more (`position.rs:185`), and an exit on a tick cancels the broker-side
protection of a position it never closes (`execution.rs:82-118`).

Further departures from comments and documents were followed as the code has them,
without a run of their own:

* the cap is tested again at execution only through `is_blocked`, which does not ask
  for it, and at a start not at all (`CONFIG.md:123` calls it a hard cap);
  `CapOvershootBounded` says what is left of it; `set_equity` never resets a trip
  (comment at `risk.rs:85-87`);
* a flat-all does not freeze, verdicts queued behind it open again
  (`messages.rs:125`); two fills with one client id count twice and are kept once
  (`execution.rs:469-471` expects the exchange to refuse); a trailing stop hit on a
  later tick leaves as a stop loss (`position.rs:202` before `239`);
* survival lifts every freeze in a mode that may trade: an operator's, which
  `survival.rs:493-494` means to leave in place and `CONTROL.md:46` says blocks until
  an unfreeze; the watchdog's; and that of a dead account, once its equity is above the
  line again, which `messages.rs:173-174` and `SURVIVAL.md:156-157` keep frozen until
  it is unfrozen by hand.  `FitAccountIsReleased` leaves out accounts under such a
  freeze, so that it holds of the code and of what these lines say;
* an unfreeze also ends a cooldown (`survival.rs:196-202`, `CONTROL.md:47`); the daily
  ratchet compares a profit with half of itself and never locks (`survival.rs:416`); a
  death the refresh task sees first is not flattened until an event comes
  (`SURVIVAL.md:153`), which `LockoutPrevails` does not ask for;
* with survival switched off nobody sends its heartbeat, and the watchdog, which is
  always started with its default list, freezes the account once and for all
  (`survival.rs:118`, `watchdog.rs:33`, `main.rs:605`);
* an empty list of Telegram users admits everybody (`control.rs:159`), where
  `CONTROL.md:72-75` says nobody;
* the manager is told that a negative offset moves the stop closer
  (`manager.rs:310-311`), while `bps_offset` moves the stop of a long up, closer, for a
  positive one ("sign convention left to the LLM", `execution.rs:461`); it is the same
  for the target, where negative is closer;
* some agents send their heartbeat from a timer task that goes on when the work loop
  hangs (`watchdog.rs:4-7`), and a loop that lags ends (`ARCHITECTURE.md:429-431`);
* a VWAP target may lie behind the entry, where the reward is a loss (the comment at
  `risk.rs:247-249` takes the reward/risk test for positive expected value); a Kelly fraction of zero leaves the size at 100 % while a
  small positive one shrinks it (`quant.rs:320-324`), and `base_risk_pct` is always
  the default; the fast approval is taken in a blackout although `manager.rs:59-62`
  speaks of failing closed when no LLM is there; the LLM's direction and adjustments
  and the quant engine's `ic_adjustment` are computed and never used;
* every refresh records the whole window again, so wins and losses both saturate at
  200 and the win rate drifts to 50 %, and Kelly becomes active with fewer trades than
  `kelly_min_trades` (`quant.rs:44-46`); each refresh takes a streak pause from now, so
  it has no end of its own (`lessons.rs:10` and `155` speak of minutes); a lesson's LLM floor reaches only the manager's prompt
  (`manager.rs:411`);
* after a restart the bootstrapped VWAP holds candles of the day before until the next
  midnight, and in a quiet market a late trade can add more.

Deadlock is checked in `RiskBudget`, `PositionBook`, `MCPipeline`, `MCDecisionPath`,
`MCSurvival` and `AgentLiveness`, whose specifications always have an enabled action.
`MCLiveExecution`, `MCSignalPath`, `MCLearningLoop` and `ControlIngress` run out of
setups, trades or commands within their bounds and may then really stop.

## 4. Fairness

* `MCPipeline`: weak fairness of risk, brain, manager and execution agent.  Each is a
  tokio task on an executor with as many workers as cores, and what it awaits ends:
  the LLM has a timeout (`llm/engine.rs:119-139`), the exchange client 5 s
  (`binance.rs:35`).  Nothing is assumed of the environment, nor that a signal is
  ever emitted.  Lag is not modelled here; it is the subject of `AgentLiveness`.
* `MCSurvival`: weak fairness of the event task, the refresh task (its timer keeps
  firing, which takes survival to be switched on), the control agent, and of the
  publication that follows a booked close.
  Trades, commands, news and the end of a cooldown are not fair.
* `ControlIngress` (`FairIngressSpec`): weak fairness of the poll, of the handling of an
  update, of the read and of the truncation.  Both are endless loops (`control.rs:123`,
  `control.rs:308`); that a poll succeeds again and again is the assumption that the
  network does not fail for ever, and likewise for the file system.  Nobody is assumed
  to send anything, and crashes need not happen.
* `AgentLiveness`: weak fairness of both loops, of the check task, and of every
  heartbeat that can be sent; strong fairness of the clock, whose tick waits for the
  watchdog's inbox to be empty once per period.  Without it the run would only say
  that a watchdog that never catches up with its inbox notices nothing; that it
  catches up within a period (seconds, against messages of microseconds) is the
  assumption, and an overrun inside a period is still possible.  Nothing is assumed of
  survival and operator: they may write the flag for ever or never.

## 5. Proofs

All theorems are about the specifications TLC checks, for every value of the
constants that satisfies the named assumptions.

`LedgerProofs` (assumes `RiskLimitsAssumption`; for the budget `BudgetAssumption`, for
survival `SurvivalAssumption`):

* `BudgetTypeInvariant`: `BudgetSpec => []BudgetTypeOK`;
* `CapOvershootTheorem`, `DrawdownBudgetTheorem`, from `BudgetInv`.  `CountInv` relates
  counter and book: the counter with the setups in flight stays within the larger of
  what the first recovery counted and the cap plus all but one of them, and the book is
  beyond the counter by no more than `uncounted`.  `DrawdownBudget` is not inductive: a
  close can lose what the drawdown alone does not show.  `MoneyInv` adds
  `MaxLoss * (own + granted)`, what the agent's positions can still lose, to the drawdown
  and bounds the sum.  A grant restores the bound from nothing, since it tests the
  drawdown and a free slot; opening moves a setup from one addend to the other; a close
  turns at most `MaxLoss` of risk into drawdown; a recovery only takes risk away, as what
  it puts on the book is accounted for when it closes (`unstopped`); a reconciliation
  either writes the ledger down, which the history variable records, or only helps.
  What a recovered position may lose has no bound, and neither do the theorems give one;
* `RuinedAccountTheorem`: the peak stays positive, so with equity at or below zero
  the drawdown is at least 100 % and the drawdown test refuses;
* `SurvivalTypeTheorem`.  That a counter stays within `MaxEvents` is not inductive:
  `CounterInv` says where every close is, booked and unreported, in the inbox, or
  counted, and that the three loss counters never pass what was counted.  `OneRiskCall`
  is the other half: whatever a task does, it makes one call of the risk manager or
  none, so `RiskTypeOK` needs one case per method and not one per action;
* `EarnedSizeTheorem`, the action property `SizeIsEarned`: what the size computed by
  `recompute` says about snapshot and counters.  The score is a clamped sum of capped
  penalties under a cap of its own for the cooldown.  `ScoreParts` bounds the sum by
  what is missing to 100, and as no penalty is negative each part is bounded by it
  alone (`VerdictParts`): a score of 80 leaves no penalty above 20.  Read backwards
  through the integer divisions (`QuotientBounds`, `DrawdownFacts`, `DailyLossFacts`)
  this is a bound on drawdown, loss, streak, news and equity.  A drawdown at the
  flat-all threshold costs 60 points, so the size is then at most 30 %.  This is about
  the snapshot the verdict is computed from; what the ledger has become when the
  multiplier is set is the subject of the liveness properties;
* `RatchetTheorem`: the daily profit ratchet locks nothing, whatever the ledger.

`PositionBookProofs` (assumes `PositionBookAssumption`):

* `TypeTheorem`, `BreakevenTheorem`, `TrailTheorem` from one inductive invariant:
  types; a position at breakeven keeps its entry; a trailing one is at breakeven,
  has a profit behind it and a stop that holds half of it; one at breakeven that
  does not trail is one `on_tick` skips (no initial risk); and before breakeven no
  price seen would have armed the trail.  The proof
  is per position and per side;
* `TightenTheorem`, the action property, from the same invariant.

`PipelineProofs` (assumes `RiskLimitsAssumption`, `PipelineAssumption`):

* `PipelineTypeInvariant`;
* `CounterTheorem`: with distinct client ids, `Spec => []CounterMatchesBook`.  The
  counter equals book plus pending exits only as long as no client id is opened while
  it is on the book, and that is because every setup is in exactly one place of the
  pipeline.  `PlacesInv` says so (each setup waits, is in one inbox once, in flight, on
  the book, being booked, or gone); `CounterInv` is then preserved by every step.  The
  theorem is about the checked `Spec`; a lemma drops the history variables first;
* `FrozenModeTheorem`.  The property speaks of orders, but what makes it true is the
  order of messages: with the mode the execution agent has now, and the mode messages
  in its inbox, it will be in the frozen mode when it reaches the verdict
  (`FrozenAfter`, a statement about a prefix of the inbox).  Three lemmas say that a
  message appended, a message taken and the announcement itself keep such a statement;
  `SealedInv` holds it for the end of the inbox while the last announcement is frozen,
  and for the position of every sealed verdict, and says that such a verdict is
  nowhere else.  The gate then finds the frozen mode and drops it, if survival is switched on.  The history
  variables read the bus off the inbox, so the proof first shows what they record;
* `LifecycleTheorem`: with distinct client ids, `Spec => ImplementsLifecycle`.  The
  stage of a setup is read off its place, and `PlacesInv` makes the places exclusive,
  before and after a step (`StageOfPlace`, `NextStageOfPlace`).  Then each action moves
  no setup (`Still`) or one (`Moves`), and each such move is an action of
  `TradeLifecycle`; `Commit` needs that nothing is in flight when the agent takes a
  message, `Fill` that the client id is not on the book, `Close` in a flat-all that its
  snapshot is still on the book (`CounterInv`).  Distinct ids are needed: a second
  order with the id of an open position overwrites it.

`LiveExecutionProofs` (assumes `LiveAssumption`, and finitely many symbols):

* `LiveTypeTheorem`, with `WhereInv`: what the agent works on at each point of its
  handlers, that a flat-all's snapshot stays on the book, and that an undelivered
  setup has no position;
* `CounterDriftTheorem`.  Between the fetches counter and book agree (`DriftInv`), the
  second fetch rewrites the book and leaves the counter, so their difference is
  `bootDrift`.  An entry raises both, a tick moves positions to the exits, a close
  lowers both, unless the counter is at 0 already: then it was too low, and comes
  closer (`CloseShrinks`);
* `UntrackedTheorem` and `FlatAllTheorem`, both from `TrackInv`.  Positions are counted
  in lots: for every symbol that was not lost by a known route, and for each side, the
  lots on the book that wait for an exit are at least what the broker holds net on that
  side plus what may still be filled there (`Covered`).  Neither netting nor a fill
  changes the sum; an entry adds to both; a close takes as much from the broker as from
  the book.  In a flat-all the book's part shrinks to what is left of its snapshot, so
  a symbol it has finished is empty at the broker (`CleanInv`), or it is lost.  The sum
  over the book is a cardinality (`Units`), so that no induction over the book is
  needed.

`ControlProofs` (assumes `IngressAssumption`; for the watchdog `LivenessAssumption` and
`BusAssumption`):

* `ObeyedInOrderTheorem`.  The order of what was obeyed is not inductive: it needs that
  what this run obeyed lies at or below `lastUpdate`, and what is still pending above
  it (`ObeyedUpToLast`, `PendingAboveLast`).  A poll asks from `lastUpdate` on, so a
  lost answer changes nothing;
* `FileCommandsTheorem`.  No line is lost, for between the read and the truncation
  everything in the file was executed or came in the gap (`ReadIsExecuted`).  None is
  repeated without a missed truncation: the lines of the file differ, and one that is
  in it while nothing is being read was executed at most as often as truncations were
  missed, once less than the others may have been (`AccountedFor`);
* `LivenessTypeTheorem`, for any ring, loops and agents;
* `CommandsTheorem`.  `CommandsFollowTrip` speaks of the whole inbox and is inductive
  with the types: a message at the end that is no command leaves the last command
  where it was, one that is becomes the last (`AppendedCommand`), and taking the last one sets
  `frozen` to what `tripped` is.  A write of survival, and a command of the operator when
  it is taken, set `overridden`; a command of the watchdog clears it.  An overwritten message makes `lagged` true, which
  ends the claim, as it ends the loop;
* `HungTimerTheorem`: `HungTimerGoesUnnoticed` says that an agent which beats from a
  timer is never stale to a watchdog that hears everything, however long its work
  hangs.  `TimerInv`: a beat of this period is noted or waits in the inbox, and the
  inbox is read before the period ends.

`DecisionPathProofs` (assumes `ConfigAssumption`; and of the inputs,
`InputAssumption`: a candle closes within its range, the ATR is not negative, and the
Bollinger bands enclose their mean strictly unless all their closes are equal):

* `BlackoutOnlyFastApprovesTheorem`, for any markets, lessons, quant states, sets of
  answers and configurations.  `BlackoutInv` follows a setup no LLM has answered about:
  its decision is the fallback of its own signal, and with `failClosed` each of the
  three other ways to a verdict (a switched-off manager, an answer, an error) is a veto
  or an answer;
* `SizeTheorem` and `GeometryTheorem`, from one invariant, `PathInv`, that follows the
  signal (`Sound`), what the risk agent's checks leave of it (`Admitted`), its size
  (`Within`), the manager's action (`Bounded`) and the order.  A percentage of a size is
  rounded down, so each of the three factors keeps a bound that is a product
  (`OfWithin`); the quant engine's factor is bounded by its last clamp alone
  (`ComputeSizingFacts`).  For the geometry there is a lemma for each strategy and the
  scout: the stop is never on the winning side, and the target never on the losing one
  but for the VWAP and a middle band that was passed, which is then nearer than the
  stop (`PassedBandIsNear`).  Entry price and manager then move the two ends of a
  distance: one can only pass the other if they cover it together, and the manager's
  part is at most 50 bps of the price (`FiftyBpsBound`).  The checks refuse a passed
  band only if the reward/risk ratio asked for is at least one, and the configuration may
  ask for less
  (`config.rs:659` only wants it positive); the theorem has `MinRewardRisk >= 100` as
  its hypothesis, which all four files under `config/` satisfy.

`SignalPathProofs` (assumes `SignalAssumption`; in it, that no timeframe is listed
twice is how the model names builders, and that the entry timeframe divides the
others is how the configuration is meant):

* `SignalTypeTheorem`, with `BuilderInv` (the builders of a symbol start with the same
  trade, and their buckets are multiples of their length) and `ClockInv`;
* `CandleOrderTheorem`: fed candles, candles under way and the forming one, in this
  order, increase (`OrderInv`).  Before the first trade there is nothing to compare
  with: then the fed candles, of the bootstrap, have ended by the time of the
  connection, and no trade is from before it;
* `NoLookAheadTheorem`.  `HigherEnded`: a higher candle, whether noted or still in the
  inbox, ends at or before every entry candle that is handled after it and before the
  forming one.  It needs that the two lengths divide each other (a closed higher
  candle ends where an entry bucket starts, `LongerStartsFirst`) and that the entry
  candle of a trade is published first (`PublishedEffect`);
* `CandlesTheorem`.  `Matches` says it of the forming candle separately: a trade of its
  bucket takes the candle along (`MergedIsCandle`), a trade of a later one starts with
  itself (`FirstIsCandle`) and finds no trade of its bucket before;
* `VwapTheorem`.  What was delivered before a midnight lies at or before every entry
  candle that comes after that midnight's reset (`Settled`, once for the last reset
  handled and once for each in the inbox), because a candle closes at a bucket no
  trade before is beyond.  Two candles in the intersection would each be at or before
  the other.

`LearningLoopProofs` (assumes `LearningAssumption`): the monitor lags, so every
invariant speaks of the events it has not handled and of what they will make of the
journal;

* `LearningTypeTheorem`, with `Named`: an event or an open position bears the client id
  of a setup that was filled.  `CloseTradeEffect` is the UPDATE by client id, which adds
  a row at the end and removes at most the one of the same id;
* `AttributionTheorem`.  `LastInv`: for a setup nothing overtook, the last outcome of
  its symbol that the monitor will have seen by then is its own (`LastIs`), now for one
  that is judged, and at its place in the inbox for one that was filled;
* `KellyTheorem`.  The closes under way have places in the list of trades behind those
  of the journal (`Placed`: an increasing function, so nothing is counted), hence a
  window is never longer than the list of trades, and a refresh adds no more than that;
* `PauseTheorem`.  Its condition never becomes true again (`CleanBefore`), and under it
  (`JournalInv`) every close under way finds the row of its own setup (`RowsInv`), a
  client id is open, about to be closed or closed and only one of these (`OnceInv`), and
  the list of trades is what the journal holds followed by what the closes under way
  say (`Told`).  An empty inbox leaves the journal; lists of the same trades have the
  same losing runs (`SameBuckets`), and the streak lessons are exactly those
  (`PausedAreLosing`).

Checked by TLC only: liveness under fairness (`EverySetupIsDecided`,
`EveryCommandIsTaken`, `LockoutPrevails`, `FitAccountIsReleased`, `LostLivenessFreezes`,
`RecoveryReleases`), which is beyond the prover.  Every other property of a passing run
is a theorem.  Three theorems are about what no run repeats: `EarnedSizeTheorem` and
`HungTimerTheorem`, whose formulas TLC found no counterexample to in the constants of
`MCSurvival` and `AgentLiveness`, and `RatchetTheorem`, which has no state in it.

## 6. Not modelled

Listed with reasons under `components` in `PROJECT.json`.  In short:

* HTTP, JSON, SQL and Telegram texts, request signing, argument and TOML parsing: pure
  input and output, or text;
* prompts and the wording of answers: an LLM answers anything its parser accepts;
* indicator, microstructure and quant formulas: floating-point recurrences.  Their
  results are inputs of `Strategies` and `Sizing`, where every combination of values a
  run lists is a market, so what depends on their thresholds is checked and what they
  compute is not;
* the Monte Carlo penalty, confidence intervals, expected shortfall: statistics, taken
  as choices where survival and sizing read them;
* `research/*`, `backtest/*`, strategy retirement, A/B test, multi-timeframe votes,
  exposure caps: no agent calls them;
* the reports, counters and metrics nobody reads back.
