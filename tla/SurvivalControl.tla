-------------------------- MODULE SurvivalControl --------------------------
(***************************************************************************)
(* Who freezes and unfreezes the risk manager: the survival agent's event  *)
(* task and refresh task (src/src/agents/survival.rs), and the control     *)
(* agent (control.rs) on behalf of the operator; the watchdog's commands   *)
(* are among the operator's.  They run in parallel on the shared           *)
(* RiskManager and the shared SurvivalInner, each behind its own lock, so  *)
(* a task may be overtaken between reading the ledger, computing the       *)
(* state, setting the multiplier, setting the freeze flag and publishing   *)
(* the state.                                                              *)
(*                                                                         *)
(* Abstractions.  Time is left out: a cooldown ends, the flat-all debounce *)
(* ends, and a loss falls out of the rolling window whenever they please.  *)
(* The score is computed with integers as the code computes it; the Monte  *)
(* Carlo penalty is any of McPenalties.                                    *)
(* Closes, commands, news, midnights and reconciliations are bounded by    *)
(* MaxEvents, all together.                                                *)
(***************************************************************************)
EXTENDS RiskManager, Sequences

CONSTANTS
  StreakShort,         \* cfg.loss_streak_short
  StreakLong,          \* cfg.loss_streak_long
  DailyLosses,         \* cfg.daily_loss_count
  DeathPct,            \* cfg.death_line_pct, in percent
  AutoFlatPct,         \* cfg.auto_flat_drawdown_pct
  RatchetPct,          \* cfg.daily_pnl_ratchet_pct
  McPenalties,         \* outcomes of the Monte Carlo component, 0..20
  Pnls,                \* profits and losses of one position
  Balances,            \* what the exchange reports; {} for the paper exchange
  MaxEvents            \* bound on closes, commands, news, midnights, balances

ASSUME SurvivalAssumption ==
  /\ {StreakShort, StreakLong, DailyLosses, AutoFlatPct} \subseteq Nat \ {0}
  /\ DeathPct \in 1..99 /\ RatchetPct \in Nat
  /\ McPenalties \subseteq 0..20 /\ McPenalties # {}
  /\ Pnls \subseteq Int /\ Balances \subseteq Nat \ {0}
  /\ MaxEvents \in Nat

VARIABLES
  survIn, ctlIn,       \* inboxes of the survival event task and control agent
  unreported,          \* closes booked by the execution agent, not yet published
  streak, losses, lossesToday,   \* consecutive_losses, recent_closes, daily_loss_count
  cooldown,            \* cooldown_until lies in the future
  flatRecently,        \* last_flat_at is less than 60 s ago
  news,                \* the news score against its two thresholds
  pc, view, verdict,   \* per survival task: where it is, snapshot, computed mode
  published,           \* mode of the last SurvivalUpdated
  events,              \* closes, commands, ... so far
  standing             \* history: a freeze command handled, or a death
                       \* applied, after which no unfreeze command was handled

innerVars == <<streak, losses, lossesToday, cooldown, flatRecently, news>>
taskVars  == <<pc, view, verdict, published>>
queueVars == <<survIn, ctlIn, unreported>>
vars == <<riskVars, innerVars, taskVars, queueVars, events, standing>>

Tasks == {"event", "refresh"}
Modes == {"Healthy", "Cautious", "Defensive", "Frozen", "Dead"}
NoEntry == {"Frozen", "Dead"}
Steps == {"idle", "closed", "snapped", "computed", "sized", "gated"}

SurvMsgs == {[kind |-> "closed", pnl |-> p] : p \in Pnls}
              \union {[kind |-> "reset"], [kind |-> "unfreeze"]}
CtlMsgs  == [kind : {"freeze", "unfreeze"}]

Views == [equity : Int, peak : Int, today : Int]

TypeOK ==
  /\ RiskTypeOK
  /\ survIn \in Seq(SurvMsgs) /\ ctlIn \in Seq(CtlMsgs) /\ unreported \in Seq(Pnls)
  /\ {streak, losses, lossesToday} \subseteq 0..MaxEvents
  /\ {cooldown, flatRecently} \subseteq BOOLEAN
  /\ news \in {"panic", "calm", "euphoria"}
  /\ pc \in [Tasks -> Steps] /\ view \in [Tasks -> Views]
  /\ verdict \in [Tasks -> Modes] /\ published \in Modes
  /\ events \in 0..MaxEvents /\ standing \in BOOLEAN

NoView == [equity |-> 0, peak |-> 0, today |-> 0]

Init ==
  /\ RiskInit
  /\ survIn = <<>> /\ ctlIn = <<>> /\ unreported = <<>>
  /\ streak = 0 /\ losses = 0 /\ lossesToday = 0
  /\ cooldown = FALSE /\ flatRecently = FALSE /\ news = "calm"
  /\ pc = [t \in Tasks |-> "idle"] /\ view = [t \in Tasks |-> NoView]
  /\ verdict = [t \in Tasks |-> "Healthy"] /\ published = "Healthy"
  /\ events = 0 /\ standing = FALSE

-----------------------------------------------------------------------------
(* recompute *)

AtLeast(a, b) == IF a < b THEN b ELSE a
AtMost(a, b)  == IF a > b THEN b ELSE a

DrawdownPenalty(v) ==
  IF v.peak > v.equity /\ v.peak > 0
  THEN AtMost(((v.peak - v.equity) * 6000) \div (v.peak * AutoFlatPct), 60) ELSE 0

DailyLossPenalty(v) ==
  IF v.equity > 0 /\ v.today < 0
  THEN AtMost(((0 - v.today) * 600) \div v.equity, 40) ELSE 0

StreakPenalty == IF streak >= 2 THEN AtMost((streak - 1) * 8, 30) ELSE 0

NewsPenalty == CASE news = "panic" -> 25 [] news = "euphoria" -> 10 [] OTHER -> 0

AtDeathLine(eq) == eq * 100 <= InitialEquity * DeathPct

\* Distance to the death line as a percentage of the initial equity.
FloorPenalty(eq) ==
  LET distance == AtLeast(eq * 100 - InitialEquity * DeathPct, 0)
  IN IF eq <= 0 \/ distance < 5 * InitialEquity THEN 30
     ELSE IF distance < 10 * InitialEquity THEN 15 ELSE 0

\* A cooldown caps the score at 20 before news, floor and Monte Carlo.
Score(v, mc) ==
  LET base == 100 - DrawdownPenalty(v) - DailyLossPenalty(v) - StreakPenalty
      held == IF cooldown THEN AtMost(base, 20) ELSE base
      raw  == IF AtDeathLine(v.equity) THEN 0
              ELSE held - NewsPenalty - FloorPenalty(v.equity)
  IN AtMost(AtLeast(raw - mc, 0), 100)

\* The ratchet's test compares today's profit with half of itself.
RatchetLocked(v) ==
  /\ v.today * 100 >= RatchetPct * InitialEquity
  /\ 2 * v.today < v.today

ModeOf(v, mc) ==
  CASE AtDeathLine(v.equity) -> "Dead"
    [] ~AtDeathLine(v.equity) /\ (cooldown \/ RatchetLocked(v) \/ Score(v, mc) < 25)
         -> "Frozen"
    [] OTHER -> IF Score(v, mc) < 50 THEN "Defensive"
                ELSE IF Score(v, mc) < 80 THEN "Cautious" ELSE "Healthy"

Multiplier(mode) ==
  CASE mode = "Healthy" -> 100 [] mode = "Cautious" -> 60
    [] mode = "Defensive" -> 30 [] OTHER -> 0

Snapshot == [equity |-> equity, peak |-> peakEquity, today |-> realizedPnlToday]

-----------------------------------------------------------------------------
(* The two survival tasks, each at its own pace *)

Goto(t, step) == pc' = [pc EXCEPT ![t] = step]

Snap(t) ==
  /\ pc[t] = IF t = "event" THEN "closed" ELSE "idle"
  /\ view' = [view EXCEPT ![t] = Snapshot]
  /\ Goto(t, "snapped")
  /\ UNCHANGED <<riskVars, innerVars, verdict, published, queueVars, events, standing>>

\* drawdown_pct >= auto_flat_drawdown_pct, or dead: the event task publishes
\* a flat-all unless it did within the minute.
WantsFlat(t) ==
  /\ t = "event"
  /\ \/ AtDeathLine(view[t].equity)
     \/ /\ view[t].peak > 0
        /\ (view[t].peak - view[t].equity) * 100 >= AutoFlatPct * view[t].peak

Recompute(t) ==
  /\ pc[t] = "snapped"
  /\ \E mc \in McPenalties : verdict' = [verdict EXCEPT ![t] = ModeOf(view[t], mc)]
  /\ view' = [view EXCEPT ![t] = NoView]
  /\ flatRecently' = (flatRecently \/ WantsFlat(t))
  /\ Goto(t, "computed")
  /\ UNCHANGED <<riskVars, streak, losses, lossesToday, cooldown, news, published,
                 queueVars, events, standing>>

Size(t) ==
  /\ pc[t] = "computed"
  /\ SetSizeMultiplier(Multiplier(verdict[t]))
  /\ Goto(t, "sized")
  /\ UNCHANGED <<innerVars, view, verdict, published, queueVars, events, standing>>

\* Mutant of Gate: only death freezes.
GateOnlyDead(t) ==
  /\ pc[t] = "sized"
  /\ IF verdict[t] = "Dead" THEN Freeze ELSE Unfreeze
  /\ standing' = (standing \/ verdict[t] = "Dead")
  /\ Goto(t, "gated")
  /\ UNCHANGED <<innerVars, view, verdict, published, queueVars, events>>

\* Mutant of Gate: a freeze is never lifted.
GateNeverLifts(t) ==
  /\ pc[t] = "sized"
  /\ IF verdict[t] \in NoEntry THEN Freeze ELSE UNCHANGED riskVars
  /\ standing' = (standing \/ verdict[t] = "Dead")
  /\ Goto(t, "gated")
  /\ UNCHANGED <<innerVars, view, verdict, published, queueVars, events>>

\* apply_state's second half: any mode that may trade lifts any freeze.
Gate(t) ==
  /\ pc[t] = "sized"
  /\ IF verdict[t] \in NoEntry THEN Freeze ELSE Unfreeze
  /\ standing' = (standing \/ verdict[t] = "Dead")
  /\ Goto(t, "gated")
  /\ UNCHANGED <<innerVars, view, verdict, published, queueVars, events>>

Publish(t) ==
  /\ pc[t] = "gated"
  /\ published' = verdict[t]
  /\ Goto(t, "idle")
  /\ verdict' = [verdict EXCEPT ![t] = "Healthy"]
  /\ UNCHANGED <<riskVars, innerVars, view, queueVars, events, standing>>

Receives(kind) ==
  /\ pc["event"] = "idle"
  /\ survIn # <<>> /\ Head(survIn).kind = kind
  /\ survIn' = Tail(survIn)

\* Mutant of CountLoss: the window's losses are added to today's every time.
CountLossAndWindow ==
  /\ streak' = streak + 1 /\ losses' = losses + 1
  /\ lossesToday' = lossesToday + losses'
  /\ cooldown' = (cooldown \/ streak' >= StreakShort)

\* on_position_closed: the first close of a day forgets the losses of the day
\* before; then a win ends the streak, and a loss counts three ways and may
\* start a cooldown.  The rolling window holds any number of the losses.
SinceMidnight == {0, lossesToday}

CountLoss ==
  /\ streak' = streak + 1 /\ losses' = losses + 1
  /\ \E today \in SinceMidnight : lossesToday' = today + 1
  /\ \E inWindow \in 1..losses' :
       cooldown' = \/ cooldown
                   \/ streak' >= StreakShort
                   \/ inWindow >= StreakLong
                   \/ lossesToday' >= DailyLosses

CountWin ==
  streak' = 0 /\ lossesToday' \in SinceMidnight /\ UNCHANGED <<losses, cooldown>>

PositionClosed ==
  /\ Receives("closed")
  /\ IF Head(survIn).pnl < 0 THEN CountLoss ELSE CountWin
  /\ Goto("event", "closed")
  /\ UNCHANGED <<riskVars, flatRecently, news, view, verdict, published, ctlIn,
                 unreported, events, standing>>

SurvivalReset ==
  /\ Receives("reset")
  /\ lossesToday' = 0 /\ cooldown' = FALSE
  /\ UNCHANGED <<riskVars, streak, losses, flatRecently, news, taskVars, ctlIn,
                 unreported, events, standing>>

SurvivalUnfreeze ==
  /\ Receives("unfreeze")
  /\ cooldown' = FALSE
  /\ Unfreeze
  /\ UNCHANGED <<streak, losses, lossesToday, flatRecently, news, taskVars, ctlIn,
                 unreported, events, standing>>

-----------------------------------------------------------------------------
(* Control agent and the commands it gets *)

ControlFreeze ==
  /\ ctlIn # <<>> /\ Head(ctlIn).kind = "freeze"
  /\ Freeze
  /\ ctlIn' = Tail(ctlIn) /\ standing' = TRUE
  /\ UNCHANGED <<innerVars, taskVars, survIn, unreported, events>>

ControlUnfreeze ==
  /\ ctlIn # <<>> /\ Head(ctlIn).kind = "unfreeze"
  /\ Unfreeze
  /\ ctlIn' = Tail(ctlIn) /\ standing' = FALSE
  /\ UNCHANGED <<innerVars, taskVars, survIn, unreported, events>>

\* /freeze and /unfreeze: handle_command, file_loop or the watchdog's check
\* publish them.
SendFreeze ==
  /\ events < MaxEvents /\ events' = events + 1
  /\ ctlIn' = Append(ctlIn, [kind |-> "freeze"])
  /\ UNCHANGED <<riskVars, innerVars, taskVars, survIn, unreported, standing>>

SendUnfreeze ==
  /\ events < MaxEvents /\ events' = events + 1
  /\ ctlIn' = Append(ctlIn, [kind |-> "unfreeze"])
  /\ survIn' = Append(survIn, [kind |-> "unfreeze"])
  /\ UNCHANGED <<riskVars, innerVars, taskVars, unreported, standing>>

-----------------------------------------------------------------------------
(* The rest of the program: execution agent, equity task, midnight, time *)

Open ==
  /\ ~IsBlocked /\ openPositions < MaxOpenPositions
  /\ OnPositionOpened
  /\ UNCHANGED <<innerVars, taskVars, queueVars, events, standing>>

\* A close is booked first and published after an await.
Close ==
  /\ openPositions > 0 /\ events < MaxEvents /\ unreported = <<>>
  /\ events' = events + 1
  /\ \E pnl \in Pnls : OnPositionClosed(pnl) /\ unreported' = <<pnl>>
  /\ UNCHANGED <<innerVars, taskVars, survIn, ctlIn, standing>>

Report ==
  /\ unreported # <<>>
  /\ survIn' = Append(survIn, [kind |-> "closed", pnl |-> Head(unreported)])
  /\ unreported' = Tail(unreported)
  /\ UNCHANGED <<riskVars, innerVars, taskVars, ctlIn, events, standing>>

Reconcile ==
  /\ events < MaxEvents
  /\ events' = events + 1
  /\ \E e \in Balances : SetEquity(e)
  /\ UNCHANGED <<innerVars, taskVars, queueVars, standing>>

Midnight ==
  /\ events < MaxEvents /\ events' = events + 1
  /\ ResetDaily
  /\ survIn' = Append(survIn, [kind |-> "reset"])
  /\ UNCHANGED <<innerVars, taskVars, ctlIn, unreported, standing>>

\* A FeedsSnapshot handled by the event task.
News ==
  /\ pc["event"] = "idle"
  /\ events < MaxEvents /\ events' = events + 1
  /\ news' \in {"panic", "calm", "euphoria"}
  /\ UNCHANGED <<riskVars, streak, losses, lossesToday, cooldown, flatRecently,
                 taskVars, queueVars, standing>>

\* A cooldown or the debounce of the flat-all runs out.
Expire ==
  /\ cooldown' \in {cooldown, FALSE} /\ flatRecently' \in {flatRecently, FALSE}
  /\ UNCHANGED <<riskVars, streak, losses, lossesToday, news, taskVars, queueVars,
                 events, standing>>

-----------------------------------------------------------------------------

TaskStep(t) == Snap(t) \/ Recompute(t) \/ Size(t) \/ Gate(t) \/ Publish(t)
EventStep   == TaskStep("event") \/ PositionClosed \/ SurvivalReset \/ SurvivalUnfreeze
ControlStep == ControlFreeze \/ ControlUnfreeze

Next ==
  \/ EventStep \/ TaskStep("refresh") \/ ControlStep
  \/ SendFreeze \/ SendUnfreeze
  \/ Open \/ Close \/ Report \/ Reconcile \/ Midnight \/ News \/ Expire

Spec == Init /\ [][Next]_vars

\* The refresh timer keeps firing and no task stops in the middle; queues
\* are drained.  Nothing is assumed of trades, commands or time.
Fairness ==
  /\ WF_vars(EventStep) /\ WF_vars(TaskStep("refresh"))
  /\ WF_vars(ControlStep) /\ WF_vars(Report)

FairSpec == Spec /\ Fairness

-----------------------------------------------------------------------------
(* Properties *)

Lockout == cooldown \/ equity * 100 <= InitialEquity * DeathPct

\* Whatever stale states the two tasks apply and publish over each other and
\* however commands interfere: an account that stays dead or in cooldown
\* ends up frozen, sized zero and announced as closed, for good.
LockoutPrevails ==
  <>[]Lockout
    => <>[](frozen /\ sizeMultiplier = 0 /\ published \in NoEntry)

\* The other way round, no survival freeze is left behind: an account that
\* stays fit, and that neither a freeze command nor death holds, ends up
\* unfrozen and sized, with every agent told so.  A freeze command and death
\* are left out because they should hold: survival.rs:493-494 means to leave
\* manual freezes in place, and messages.rs:173-174 keeps a dead account
\* frozen until it is manually unfrozen.  The code does neither: Gate lifts
\* any freeze once the mode may trade.
Fit == \A mc \in McPenalties : ModeOf(Snapshot, mc) \notin NoEntry

FitAccountIsReleased ==
  <>[](Fit /\ ~standing)
    => <>[](~frozen /\ sizeMultiplier > 0 /\ published \notin NoEntry)
=============================================================================
