----------------------------- MODULE LearningLoop -----------------------------
(***************************************************************************)
(* How a closed trade comes back as a lesson: the monitor agent            *)
(* (src/src/agents/monitor.rs) writes the journal (monitoring/logger.rs),  *)
(* the learning agent (agents/learning.rs) rebuilds memory and lessons     *)
(* from it (learning/memory.rs, lessons.rs) and the risk agent asks the    *)
(* policy (learning/policy.rs) before the next trade.  The same pnl also   *)
(* feeds the Kelly statistics of the quant engine (quant.rs).              *)
(*                                                                         *)
(* Brain, execution, monitor and learning agent are loops of their own;    *)
(* the monitor and the quant task read the bus in order, later than it is  *)
(* written.  Time counts refresh periods (300 s).  Prices, texts and the   *)
(* columns no lesson reads are left out; pnl are small integers.           *)
(***************************************************************************)
EXTENDS Integers, Sequences, FiniteSets, SequencesExt, FiniteSetsExt

CONSTANTS
  Setups,                    \* signals, each evaluated at most once
  StrategyOf, RegimeOf, SymbolOf,
  ClientIdOf,                \* the order's id; equal for equal proposals
  TaOf,                      \* ta_confidence
  HighConfidence,            \* setups the LLM rates 80 or more
  Pnls,
  BaseTa,                    \* base_min_ta_threshold
  StreakTrigger, StreakPause, HourLoss, HourPause, Hour,
  MinTrades, BlacklistTrades, LongPause,
  WindowSize,                \* closed_trades(500)
  OutcomeCap,                \* 200 wins and 200 losses
  MaxTime, MaxCrashes

Nobody == "nobody"          \* no brain outcome of the symbol yet
Every  == "every"           \* a lesson that is not restricted

ASSUME LearningAssumption ==
  /\ Nobody \notin Setups
  /\ HighConfidence \subseteq Setups
  /\ TaOf \in [Setups -> Nat] /\ BaseTa \in Nat
  /\ Pnls \subseteq Int
  /\ {StreakTrigger, StreakPause, HourPause, Hour, MinTrades, BlacklistTrades,
      LongPause, WindowSize, OutcomeCap} \subseteq Nat \ {0}
  /\ HourLoss \in Nat /\ MaxTime \in Nat /\ MaxCrashes \in Nat

VARIABLES
  now,
  due,               \* the refresh of this period is still to come
  stage,             \* how far a setup has come
  book,              \* execution: client id -> setup
  inbox,             \* monitor: events not handled yet
  lastBrain,         \* monitor: symbol -> setup of the last brain outcome
  rows,              \* journal: client id -> setup its columns were taken from
  closed,            \* journal: closed rows in the order of exit_time
  lessons,           \* policy
  wins, losses,      \* TradeOutcomes: how many of each are kept
  crashes,
  \* history
  truth,             \* trades as they closed
  overtaken,         \* setups another outcome of the symbol came after, unfilled
  irregular,         \* a reused client id, or a crash
  refreshes

agents  == <<stage, book, inbox, lastBrain>>
journal == <<rows, closed>>
kelly   == <<wins, losses>>
clock   == <<now, due>>
history == <<truth, overtaken, irregular, refreshes>>
vars    == <<agents, journal, lessons, kelly, clock, crashes, history>>

Symbols == {SymbolOf[s] : s \in Setups}
Ids     == {ClientIdOf[s] : s \in Setups}

-----------------------------------------------------------------------------
(* Memory: statistics of trades, oldest first; of each bucket, as the      *)
(* positions of the trades that count for it                               *)

Strategy(t) == StrategyOf[t.of]
Regime(t)   == RegimeOf[t.of]
Symbol(t)   == SymbolOf[t.of]

IsWin(t) == t.pnl > 0       \* a scratch counts as a loss

Where(trades, Test(_)) == {i \in 1..Len(trades) : Test(trades[i])}
Winning(trades, B)     == {i \in B : IsWin(trades[i])}
Count(B)               == Cardinality(B)
NetPnl(trades, B)      == MapThenSumSet(LAMBDA i : trades[i].pnl, B)
GrossProfit(trades, B) == NetPnl(trades, Winning(trades, B))
GrossLoss(trades, B)   == 0 - NetPnl(trades, B \ Winning(trades, B))

\* win_rate() < percent, of a bucket with at least one trade.
WinRateBelow(trades, B, percent) ==
  100 * Count(Winning(trades, B)) < percent * Count(B)

LastFive(B) == {i \in B : Cardinality({j \in B : j > i}) < 5}

\* The trailing run of equal outcomes, negative when it is a losing one.
Streak(trades, B) ==
  LET five == LastFive(B)
      run  == {i \in five : \A j, k \in five :
                 j >= i /\ k >= i => IsWin(trades[j]) = IsWin(trades[k])}
  IN IF run \subseteq Winning(trades, B) THEN Count(run) ELSE 0 - Count(run)

-----------------------------------------------------------------------------
(* Lessons *)

Lesson(kind, strategy, regime, symbol, until) ==
  [kind |-> kind, strategy |-> strategy, regime |-> regime, symbol |-> symbol,
   until |-> until]

Strategies(trades) == {Strategy(t) : t \in Range(trades)}
Regimes(trades)    == {Regime(t) : t \in Range(trades)}
SymbolsIn(trades)  == {Symbol(t) : t \in Range(trades)}

OfStrategy(trades, st)   == Where(trades, LAMBDA t : Strategy(t) = st)
OfSymbol(trades, sy)     == Where(trades, LAMBDA t : Symbol(t) = sy)
OfBucket(trades, st, sy) == OfStrategy(trades, st) \intersect OfSymbol(trades, sy)
OfRegime(trades, st, re) ==
  OfStrategy(trades, st) \intersect Where(trades, LAMBDA t : Regime(t) = re)
LastHour(trades, at)     == Where(trades, LAMBDA t : t.at >= at - Hour)

DrawdownCooldown(trades, at) ==
  IF /\ NetPnl(trades, LastHour(trades, at)) <= 0 - HourLoss
     /\ Count(LastHour(trades, at)) >= 2
  THEN {Lesson("DrawdownCooldown", Every, Every, Every, at + HourPause)} ELSE {}

\* Strategy and symbol, where the last trades were lost.
LosingBuckets(trades) ==
  {b \in Strategies(trades) \X SymbolsIn(trades) :
     Streak(trades, OfBucket(trades, b[1], b[2])) <= 0 - StreakTrigger}

LoseStreaks(trades, at) ==
  {Lesson("LoseStreak", b[1], Every, b[2], at + StreakPause) : b \in LosingBuckets(trades)}

Derates(trades, at) ==
  {Lesson("StrategyDerate", st, Every, Every, at + LongPause) :
     st \in {x \in Strategies(trades) :
               LET own == OfStrategy(trades, x)
               IN Count(own) >= MinTrades /\ WinRateBelow(trades, own, 35)}}

\* profit_factor() >= 1.5, infinite without a loss.
Boosts(trades, at) ==
  {Lesson("StrategyBoost", st, Every, Every, at + LongPause) :
     st \in {x \in Strategies(trades) :
               LET own == OfStrategy(trades, x)
               IN /\ Count(own) >= MinTrades
                  /\ ~WinRateBelow(trades, own, 65)
                  /\ 2 * GrossProfit(trades, own) >= 3 * GrossLoss(trades, own)}}

Blacklists(trades, at) ==
  {Lesson("RegimeBlacklist", b[1], b[2], Every, at + LongPause) :
     b \in {x \in Strategies(trades) \X Regimes(trades) :
              LET own == OfRegime(trades, x[1], x[2])
              IN Count(own) >= BlacklistTrades /\ WinRateBelow(trades, own, 30)}}

\* Raises a floor that no gate tests: it only reaches the manager's prompt.
Calibration(trades, at) ==
  LET sure == Where(trades, LAMBDA t : t.of \in HighConfidence)
  IN IF Count(sure) >= MinTrades /\ WinRateBelow(trades, sure, 40)
     THEN {Lesson("LlmCalibration", Every, Every, Every, at + LongPause)} ELSE {}

SymbolDerates(trades, at) ==
  {Lesson("SymbolDerate", Every, Every, sy, at + LongPause) :
     sy \in {x \in SymbolsIn(trades) :
               LET own == OfSymbol(trades, x)
               IN /\ Count(own) >= MinTrades
                  /\ NetPnl(trades, own) < 0 /\ WinRateBelow(trades, own, 35)}}

Extract(trades, at) ==
  UNION {DrawdownCooldown(trades, at), LoseStreaks(trades, at),
         Derates(trades, at), Boosts(trades, at), Blacklists(trades, at),
         Calibration(trades, at), SymbolDerates(trades, at)}

-----------------------------------------------------------------------------
(* Policy *)

Applies(l, s) ==
  /\ l.until >= now
  /\ l.strategy \in {Every, StrategyOf[s]}
  /\ l.regime \in {Every, RegimeOf[s]}
  /\ l.symbol \in {Every, SymbolOf[s]}

IsBlock(l) ==
  l.kind \in {"LoseStreak", "RegimeBlacklist", "DrawdownCooldown", "SymbolDerate"}

\* policy.evaluate: a block wins over everything, thresholds add up.
Evaluate(s) ==
  LET matched == {l \in lessons : Applies(l, s)}
      kinds   == {l.kind : l \in matched}
  IN [allowed  |-> \A l \in matched : ~IsBlock(l),
      taDelta  |-> (IF "StrategyDerate" \in kinds THEN 10 ELSE 0)
                   - (IF "StrategyBoost" \in kinds THEN 5 ELSE 0)]

TaThreshold(delta) == Max({0, Min({100, BaseTa + delta})})

-----------------------------------------------------------------------------
(* The trade, from risk gate to close, as bus events *)

Event(type, s, id, pnl) == [type |-> type, of |-> s, id |-> id, pnl |-> pnl]

\* Policy block and threshold of the risk agent.  A refused setup never comes
\* back, so refusal, here and by the later gates, is a setup that stays where
\* it is.
RiskGate(s) ==
  /\ Evaluate(s).allowed
  /\ TaOf[s] >= TaThreshold(Evaluate(s).taDelta)

\* Passed by the risk agent, then published by the brain, whatever it
\* decides, refusals too.  What happens in between is no business of theirs.
BrainOutcome(s) ==
  /\ stage[s] = "new"
  /\ RiskGate(s)
  /\ stage' = [stage EXCEPT ![s] = "judged"]
  /\ inbox' = Append(inbox, Event("Brain", s, ClientIdOf[s], 0))
  /\ overtaken' = overtaken \union
       {t \in Setups : stage[t] = "judged" /\ SymbolOf[t] = SymbolOf[s]}
  /\ UNCHANGED <<book, lastBrain, journal, lessons, kelly, clock, crashes,
                 truth, irregular, refreshes>>

\* Approved by the manager, sent and acknowledged.
OrderFilled(s) ==
  LET id == ClientIdOf[s]
  IN /\ stage[s] = "judged"
     /\ stage' = [stage EXCEPT ![s] = "filled"]
     /\ book' = [c \in (DOMAIN book) \union {id} |-> IF c = id THEN s ELSE book[c]]
     /\ inbox' = Append(inbox, Event("Filled", s, id, 0))
     /\ irregular' = (irregular \/ \E t \in Setups :
                        ClientIdOf[t] = id /\ stage[t] = "filled")
     /\ UNCHANGED <<lastBrain, journal, lessons, kelly, clock, crashes, truth,
                    overtaken, refreshes>>

Profits(pnls) == Cardinality({i \in 1..Len(pnls) : pnls[i] > 0})
Losses(pnls)  == Cardinality({i \in 1..Len(pnls) : pnls[i] < 0})

\* Mutant of Record: the two lists grow without end.
RecordUncapped(pnls) ==
  /\ wins'   = wins + Profits(pnls)
  /\ losses' = losses + Losses(pnls)

\* TradeOutcomes::record, for a list of pnl: each list keeps the last
\* OutcomeCap of its own; a pnl of 0 is neither.
Record(pnls) ==
  /\ wins'   = Min({OutcomeCap, wins + Profits(pnls)})
  /\ losses' = Min({OutcomeCap, losses + Losses(pnls)})

\* Published to monitor and quant task; the latter only counts, so it may
\* as well count at once.
PositionClosed(id) ==
  /\ id \in DOMAIN book
  /\ book' = [c \in (DOMAIN book) \ {id} |-> book[c]]
  /\ \E pnl \in Pnls :
       /\ inbox' = Append(inbox, Event("Closed", book[id], id, pnl))
       /\ Record(<<pnl>>)
       /\ truth' = Append(truth, [of |-> book[id], pnl |-> pnl])
  /\ UNCHANGED <<stage, lastBrain, journal, lessons, clock, crashes,
                 overtaken, irregular, refreshes>>

-----------------------------------------------------------------------------
(* The monitor *)

\* Mutant of OnBrainOutcome: the first outcome of a symbol is kept.
OnBrainOutcomeKeepsFirst(e) ==
  lastBrain' = [lastBrain EXCEPT ![SymbolOf[e.of]] = IF @ = Nobody THEN e.of ELSE @]

OnBrainOutcome(e) == lastBrain' = [lastBrain EXCEPT ![SymbolOf[e.of]] = e.of]

\* log_open_trade: strategy, regime and scores of a row are those of the
\* symbol's last brain outcome, not of the order that was filled.
ColumnsOf(e) == lastBrain[SymbolOf[e.of]]

\* client_order_id is UNIQUE: a second insert fails with a warning.
InsertTrade(id, by) ==
  rows' = IF id \in DOMAIN rows THEN rows
          ELSE [c \in (DOMAIN rows) \union {id} |-> IF c = id THEN by ELSE rows[c]]

\* No outcome, no row; the Telegram message is sent all the same.
OnOrderFilled(e) ==
  IF ColumnsOf(e) = Nobody THEN UNCHANGED rows ELSE InsertTrade(e.id, ColumnsOf(e))

\* The closed rows without that of the id, if it is one.
ClosedBut(id) ==
  IF \E i \in 1..Len(closed) : closed[i].id = id
  THEN RemoveAt(closed, CHOOSE i \in 1..Len(closed) : closed[i].id = id)
  ELSE closed

\* An UPDATE by client id, which may find no row, or one that is closed
\* already and moves to the end.
CloseTrade(id, pnl) ==
  closed' = IF id \in DOMAIN rows
            THEN Append(ClosedBut(id), [id |-> id, of |-> rows[id], pnl |-> pnl, at |-> now])
            ELSE closed

OnPositionClosed(e) == CloseTrade(e.id, e.pnl)

Monitor ==
  /\ inbox # <<>>
  /\ inbox' = Tail(inbox)
  /\ LET e == Head(inbox)
     IN \/ e.type = "Brain"  /\ OnBrainOutcome(e)   /\ UNCHANGED journal
        \/ e.type = "Filled" /\ OnOrderFilled(e)    /\ UNCHANGED <<lastBrain, closed>>
        \/ e.type = "Closed" /\ OnPositionClosed(e) /\ UNCHANGED <<lastBrain, rows>>
  /\ UNCHANGED <<stage, book, lessons, kelly, clock, crashes, history>>

-----------------------------------------------------------------------------
(* Learning and quant *)

PnlsOf(trades) == [i \in 1..Len(trades) |-> trades[i].pnl]

LastOf(trades) == SubSeq(trades, Max({1, Len(trades) - WindowSize + 1}), Len(trades))

\* Mutant of ClosedTrades: the window is cut at the wrong end.
ClosedTradesOldest == SubSeq(closed, 1, Min({WindowSize, Len(closed)}))

\* closed_trades(limit), put back into chronological order.
ClosedTrades == LastOf(closed)

\* Mutant of Relearn: the live task and the refresh both count new rows twice.
RelearnTwice ==
  /\ Record(PnlsOf(ClosedTrades) \o PnlsOf(ClosedTrades))
  /\ lessons' = Extract(ClosedTrades, now)

\* All rows of the window are recorded again at every refresh.
Relearn ==
  /\ Record(PnlsOf(ClosedTrades))
  /\ lessons' = Extract(ClosedTrades, now)

\* The 300 s refresh; the journal may fail to be read, with a warning.
Refresh ==
  /\ due /\ due' = FALSE
  /\ \/ Relearn /\ refreshes' = refreshes + 1
     \/ UNCHANGED <<lessons, kelly, refreshes>>
  /\ UNCHANGED <<agents, journal, now, crashes, truth, overtaken, irregular>>

\* Bounded by MaxTime; the refresh keeps up with its period.
Tick ==
  /\ now < MaxTime /\ ~due
  /\ now' = now + 1 /\ due' = TRUE
  /\ UNCHANGED <<agents, journal, lessons, kelly, crashes, history>>

\* The journal survives; open positions come back under other client ids
\* (broker-<symbol>, main.rs), whose close finds no row.
Crash ==
  /\ crashes < MaxCrashes
  /\ crashes' = crashes + 1 /\ irregular' = TRUE
  /\ stage' = [s \in Setups |-> IF stage[s] = "new" THEN "new" ELSE "filled"]
  /\ book' = <<>> /\ inbox' = <<>>
  /\ lastBrain' = [y \in Symbols |-> Nobody]
  /\ lessons' = {} /\ wins' = 0 /\ losses' = 0 /\ due' = TRUE
  /\ UNCHANGED <<journal, now, truth, overtaken, refreshes>>

Init ==
  /\ now = 0 /\ due = TRUE /\ crashes = 0
  /\ stage = [s \in Setups |-> "new"]
  /\ book = <<>> /\ inbox = <<>>
  /\ lastBrain = [y \in Symbols |-> Nobody]
  /\ rows = <<>> /\ closed = <<>> /\ lessons = {}
  /\ wins = 0 /\ losses = 0
  /\ truth = <<>> /\ overtaken = {} /\ irregular = FALSE /\ refreshes = 0

Next ==
  \/ \E s \in Setups : BrainOutcome(s) \/ OrderFilled(s)
  \/ \E id \in Ids : PositionClosed(id)
  \/ Monitor \/ Refresh \/ Tick \/ Crash

Spec == Init /\ [][Next]_vars

-----------------------------------------------------------------------------
(* Properties *)

Trade  == [of : Setups, pnl : Pnls]
Row    == [id : Ids, of : Setups, pnl : Pnls, at : 0..MaxTime]
Events == [type : {"Brain", "Filled", "Closed"}, of : Setups, id : Ids, pnl : Pnls \union {0}]

\* A trade is closed in the journal once, and only where it was inserted.
TypeOK ==
  /\ now \in 0..MaxTime /\ due \in BOOLEAN /\ crashes \in 0..MaxCrashes
  /\ stage \in [Setups -> {"new", "judged", "filled"}]
  /\ \E open \in SUBSET Ids : book \in [open -> Setups]
  /\ inbox \in Seq(Events)
  /\ lastBrain \in [Symbols -> Setups \union {Nobody}]
  /\ \E known \in SUBSET Ids : rows \in [known -> Setups]
  /\ closed \in Seq(Row)
  /\ \A i \in 1..Len(closed) : closed[i].id \in DOMAIN rows
  /\ \A i, j \in 1..Len(closed) : closed[i].id = closed[j].id => i = j
  /\ wins \in 0..OutcomeCap /\ losses \in 0..OutcomeCap
  /\ truth \in Seq(Trade) /\ overtaken \subseteq Setups
  /\ irregular \in BOOLEAN /\ refreshes \in Nat

\* monitor.rs:394-461 journals a fill with the last brain outcome of its
\* symbol.  A row carries another setup's strategy and regime only if an
\* outcome of the symbol was published between the setup's own outcome and
\* its fill; no delay of the monitor alone causes it, and no restart.
MisattributionNeedsOverlap ==
  \A id \in DOMAIN rows :
    ClientIdOf[rows[id]] # id => \E s \in overtaken : ClientIdOf[s] = id

Paused(ls) == {<<l.strategy, l.symbol>> : l \in {k \in ls : k.kind = "LoseStreak"}}

\* From PositionClosed over monitor, SQLite and memory to the lessons: a
\* refresh that reads the journal when the monitor has caught up pauses
\* exactly the (strategy, symbol) pairs whose trades really ended in a losing
\* run, however closes, inserts and earlier refreshes interleaved, as long as
\* no outcome overlapped, no client id was reused and nothing crashed.
PauseMatchesOutcomes ==
  [][ refreshes' > refreshes /\ inbox = <<>> /\ ~irregular
      /\ (\A s \in overtaken : stage[s] # "filled")
      => Paused(lessons') = LosingBuckets(LastOf(truth)) ]_vars

\* A trade counts for Kelly once live and once more at each refresh
\* (learning.rs:57-83): the statistics grow with the refreshes, not with the
\* trades, and no faster than that.
KellyCountsOncePerRefresh ==
  wins + losses <= Len(truth) * (refreshes + 1)
=============================================================================
