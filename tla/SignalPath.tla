------------------------------ MODULE SignalPath ------------------------------
(***************************************************************************)
(* From trades to the candles a signal is computed from: the WebSocket     *)
(* client (src/src/data/ws_client.rs), the candle builders of the data     *)
(* agent (agents/data.rs, data/ohlcv_builder.rs), the bootstrap at startup *)
(* (data/kline_bootstrap.rs) and the signal agent's state of one symbol    *)
(* (agents/signal.rs, strategy/state.rs), with the midnight task (main.rs).*)
(*                                                                         *)
(* Time is in units of which a timeframe has several.  A candle keeps its  *)
(* bucket and open, high, low and close; volume, and the indicators as     *)
(* functions of the candles they were fed, are left out, except for which  *)
(* candles the session VWAP has accumulated.                               *)
(***************************************************************************)
EXTENDS Integers, Sequences, FiniteSets, SequencesExt, FiniteSetsExt

CONSTANTS
  Timeframes,        \* lengths in config order; the first is the entry one
  Day,               \* length of a session
  DeadZone,          \* times of day without signals
  PaperScout,        \* paper_scout_enabled
  Prices,
  BootPrice,         \* of every kline fetched at startup
  BootTimes,         \* when the process may start
  BootLimit,         \* klines fetched at startup
  MaxLate,           \* how late a trade may be delivered
  MaxTime, MaxTrades

ASSUME SignalAssumption ==
  /\ Timeframes \in Seq(Nat \ {0}) /\ Timeframes # <<>>
  /\ \A i, j \in 1..Len(Timeframes) : Timeframes[i] = Timeframes[j] => i = j
  /\ \A i \in 1..Len(Timeframes) : Timeframes[i] % Timeframes[1] = 0
  /\ Day \in Nat \ {0} /\ Day % Timeframes[1] = 0
  /\ DeadZone \subseteq 0..(Day - 1) /\ PaperScout \in BOOLEAN
  /\ Prices \subseteq Nat \ {0} /\ BootPrice \in Prices
  /\ BootTimes \subseteq 0..MaxTime /\ BootLimit \in Nat
  /\ MaxLate \in Nat /\ MaxTime \in Nat /\ MaxTrades \in Nat

VARIABLES
  now,
  upSince,           \* when the connection was made, Down without one
  builders,          \* per timeframe, the forming candle
  inbox,             \* signal agent: events not handled yet
  htf,               \* per higher timeframe, the last closed candle
  candles,           \* closed candles of the entry timeframe
  vwap,              \* buckets the session VWAP has accumulated
  resetDue,          \* midnight has come, the reset is not published yet
  \* history
  delivered,         \* trades handed to the data agent
  late,              \* of them, those older than the forming candle
  skipped,           \* buckets that closed in the dead zone
  since,             \* midnight of the last reset the signal agent handled
  lookback           \* the entry candle last evaluated, and htf as it was

dataVars   == <<upSince, builders>>
signalVars == <<htf, candles, vwap>>
history    == <<delivered, late, skipped, since, lookback>>
vars       == <<now, dataVars, inbox, signalVars, resetDue, history>>

Entry  == Timeframes[1]
Higher == {Timeframes[i] : i \in 2..Len(Timeframes)}
All    == Range(Timeframes)
Down   == 0 - 1
None   == [bucket |-> 0 - 1, open |-> 0, high |-> 0, low |-> 0, close |-> 0]

Bucket(ts, tf) == ts - (ts % tf)
Midnight(ts)   == Bucket(ts, Day)

-----------------------------------------------------------------------------
(* OhlcvBuilder *)

First(t, tf) ==
  [bucket |-> Bucket(t.ts, tf), open |-> t.price, high |-> t.price,
   low |-> t.price, close |-> t.price]

\* A trade that is not of a later bucket counts for the forming candle.
Merged(c, t) ==
  [c EXCEPT !.high = Max({@, t.price}), !.low = Min({@, t.price}),
            !.close = t.price]

Crosses(c, t, tf) == c # None /\ Bucket(t.ts, tf) > c.bucket

\* Mutant of Ingest: a new bucket keeps the high and low of the old one.
IngestKeepsRange(c, t, tf) ==
  IF c = None THEN First(t, tf)
  ELSE IF Crosses(c, t, tf)
       THEN [Merged(c, t) EXCEPT !.bucket = Bucket(t.ts, tf), !.open = t.price]
       ELSE Merged(c, t)

Ingest(c, t, tf) ==
  IF c = None \/ Crosses(c, t, tf) THEN First(t, tf) ELSE Merged(c, t)

-----------------------------------------------------------------------------
(* The data agent *)

Closed(tf, c) == [type |-> "CandleClosed", tf |-> tf, candle |-> c]
Reset(at)     == [type |-> "ResetDaily", tf |-> at, candle |-> None]

\* Mutant of PublishedBefore: the longest timeframe goes first.
LongestFirst(i, j) == i > j

\* The builders of a symbol are in config order, and so are the candles they
\* close.
PublishedBefore(i, j) == i < j

Crossing(t) ==
  {i \in 1..Len(Timeframes) : Crosses(builders[Timeframes[i]], t, Timeframes[i])}

InOrder(C) ==
  {o \in [1..Cardinality(C) -> C] :
     \A m, n \in 1..Cardinality(C) : m < n => PublishedBefore(o[m], o[n])}

\* What the data agent publishes when a trade closes candles (one sequence).
ClosedBy(t) ==
  {[n \in DOMAIN o |-> Closed(Timeframes[o[n]], builders[Timeframes[o[n]]])] :
     o \in InOrder(Crossing(t))}

\* Every builder of the symbol ingests the trade, then Tick and the closed
\* candles are published.
Trade(t) ==
  /\ \E published \in ClosedBy(t) : inbox' = inbox \o published
  /\ builders' = [tf \in All |-> Ingest(builders[tf], t, tf)]
  /\ delivered' = Append(delivered, t)
  /\ late' = IF Bucket(t.ts, Entry) < builders[Entry].bucket
             THEN late \union {builders[Entry].bucket, Bucket(t.ts, Entry)} ELSE late
  /\ UNCHANGED <<now, upSince, signalVars, resetDue, skipped, since, lookback>>

\* A connection delivers what is traded while it is up, at most MaxLate after
\* its time and not always in order.
Arrives ==
  /\ upSince # Down /\ Len(delivered) < MaxTrades
  /\ \E ts \in Max({upSince, now - MaxLate})..now, price \in Prices :
       Trade([ts |-> ts, price |-> price, at |-> now])

\* The client loops for ever: connect, read until the peer closes or an error
\* comes, back off, again.  The builders outlive the connection, and what
\* was traded meanwhile is not asked for.
Connect    == upSince = Down /\ upSince' = now
Disconnect == upSince # Down /\ upSince' = Down

Connection ==
  /\ Connect \/ Disconnect
  /\ UNCHANGED <<now, builders, inbox, signalVars, resetDue, history>>

-----------------------------------------------------------------------------
(* The signal agent *)

InDeadZone == (now % Day) \in DeadZone

HigherTimeframe(e) ==
  /\ htf' = [htf EXCEPT ![e.tf] = e.candle]
  /\ UNCHANGED <<candles, vwap, skipped, since, lookback>>

\* Mutant of DeadZoneCandle: the session VWAP alone goes on.
DeadZoneCandleFeedsVwap(e) ==
  /\ vwap' = vwap \union {e.candle.bucket}
  /\ skipped' = skipped \union {e.candle.bucket}
  /\ UNCHANGED <<htf, candles, since, lookback>>

\* The dead zone is left before on_closed: the indicators never see the
\* candle.
DeadZoneCandle(e) ==
  /\ skipped' = skipped \union {e.candle.bucket}
  /\ UNCHANGED <<signalVars, since, lookback>>

\* Every indicator ingests the candle; the session VWAP accumulates it.
OnClosed(c) ==
  /\ candles' = Append(candles, c)
  /\ vwap' = vwap \union {c.bucket}

\* on_closed, then the strategies are evaluated with the higher timeframes
\* as they are known now.
EntryCandle(e) ==
  /\ OnClosed(e.candle)
  /\ lookback' = [candle |-> e.candle, htf |-> htf]
  /\ UNCHANGED <<htf, skipped, since>>

OnCandleClosed(e) ==
  IF e.tf # Entry THEN HigherTimeframe(e)
  ELSE IF InDeadZone /\ ~PaperScout THEN DeadZoneCandle(e)
  ELSE EntryCandle(e)

\* Mutant of OnResetDaily: the displayed value goes, the sums stay.
OnResetDailyKeepsSums(e) ==
  /\ since' = e.tf
  /\ UNCHANGED <<signalVars, skipped, lookback>>

OnResetDaily(e) ==
  /\ vwap' = {} /\ since' = e.tf
  /\ UNCHANGED <<htf, candles, skipped, lookback>>

Handle ==
  /\ inbox # <<>>
  /\ inbox' = Tail(inbox)
  /\ LET e == Head(inbox)
     IN \/ e.type = "CandleClosed" /\ OnCandleClosed(e)
        \/ e.type = "ResetDaily" /\ OnResetDaily(e)
  /\ UNCHANGED <<now, dataVars, resetDue, delivered, late>>

-----------------------------------------------------------------------------
(* Midnight and startup *)

\* The midnight task wakes half a minute into the day.
PublishReset ==
  /\ resetDue
  /\ resetDue' = FALSE
  /\ inbox' = Append(inbox, Reset(Midnight(now)))
  /\ UNCHANGED <<now, dataVars, signalVars, history>>

\* Bounded by MaxTime; the reset is not a whole unit late.
Tick ==
  /\ now < MaxTime /\ ~resetDue
  /\ now' = now + 1
  /\ resetDue' = (Midnight(now + 1) # Midnight(now))
  /\ UNCHANGED <<dataVars, inbox, signalVars, history>>

Kline(b) ==
  [bucket |-> b, open |-> BootPrice, high |-> BootPrice, low |-> BootPrice,
   close |-> BootPrice]

\* Mutant of Bootstrapped: the forming kline is kept.
BootstrappedWithForming(at, n) ==
  [i \in 1..n |-> Kline(Bucket(at, Entry) - (n - i) * Entry)]

\* The last klines that have closed by then, oldest first; all prices alike.
Bootstrapped(at, n) ==
  [i \in 1..n |-> Kline(Bucket(at, Entry) - (n - i + 1) * Entry)]

\* Before any agent is spawned; every source may fail, and the state is cold.
Init ==
  /\ now \in BootTimes
  /\ \E n \in {0, Min({BootLimit, now \div Entry})} : candles = Bootstrapped(now, n)
  /\ vwap = {c.bucket : c \in Range(candles)}
  /\ upSince = Down
  /\ builders = [tf \in All |-> None] /\ htf = [tf \in Higher |-> None]
  /\ inbox = <<>> /\ resetDue = FALSE
  /\ delivered = <<>> /\ late = {} /\ skipped = {} /\ since = 0
  /\ lookback = [candle |-> None, htf |-> [tf \in Higher |-> None]]

Next == Arrives \/ Connection \/ Handle \/ PublishReset \/ Tick

Spec == Init /\ [][Next]_vars

-----------------------------------------------------------------------------
(* Properties *)

Candle ==
  {c \in [bucket : 0..MaxTime, open : Prices, high : Prices, low : Prices, close : Prices] :
     {c.open, c.close} \subseteq c.low..c.high}

Event ==
  [type : {"CandleClosed"}, tf : All, candle : Candle]
    \union [type : {"ResetDaily"}, tf : 0..MaxTime, candle : {None}]

\* Only candles the indicators were fed are in the session VWAP (state.rs:142-192).
TypeOK ==
  /\ now \in 0..MaxTime /\ upSince \in {Down} \union 0..MaxTime /\ resetDue \in BOOLEAN
  /\ builders \in [All -> Candle \union {None}]
  /\ htf \in [Higher -> Candle \union {None}]
  /\ inbox \in Seq(Event)
  /\ candles \in Seq(Candle)
  /\ vwap \subseteq {c.bucket : c \in Range(candles)}
  /\ delivered \in Seq([ts : 0..MaxTime, price : Prices, at : 0..MaxTime])
  /\ lookback \in [candle : Candle \union {None}, htf : [Higher -> Candle \union {None}]]

\* No candle is fed twice to the indicators and none out of order: not where
\* the bootstrap (kline_bootstrap.rs:124-132) meets the first live candle,
\* not over reconnects, not by trades that come late.
CandlesStrictlyOrdered ==
  \A i, j \in 1..Len(candles) : i < j => candles[i].bucket < candles[j].bucket

\* The trades of a bucket, as positions in what was delivered.
TradesOf(b, trades) == {i \in 1..Len(trades) : Bucket(trades[i].ts, Entry) = b}

IsCandleOf(c, b, trades) ==
  LET T == TradesOf(b, trades)
  IN /\ c.bucket = b
     /\ \E i \in T : (\A j \in T : i <= j) /\ c.open = trades[i].price
     /\ \E i \in T : (\A j \in T : j <= i) /\ c.close = trades[i].price
     /\ \E i \in T : c.high = trades[i].price
     /\ \E i \in T : c.low = trades[i].price
     /\ \A i \in T : trades[i].price \in c.low..c.high

InFlight ==
  {inbox[i].candle : i \in {k \in 1..Len(inbox) : inbox[k].type = "CandleClosed"
                                                /\ inbox[k].tf = Entry}}

\* Every bucket with a delivered trade reaches the indicators as the candle
\* of exactly its trades, or is forming, or is under way, or closed in the
\* dead zone; only trades that came late are counted elsewhere.
CandlesMatchTrades ==
  \A b \in {Bucket(t.ts, Entry) : t \in Range(delivered)} \ late :
    \/ b \in skipped
    \/ \E c \in Range(candles) \union InFlight \union {builders[Entry]} :
         IsCandleOf(c, b, delivered)

\* A candle is evaluated (signal.rs:84-137) against higher timeframes that
\* had ended when it opened: no look-ahead, and at a common boundary the
\* higher candle that closes with it is not seen yet.
HigherTimeframesEndedBefore ==
  \A tf \in Higher :
    lookback.htf[tf] # None => lookback.htf[tf].bucket + tf <= lookback.candle.bucket

\* A candle forming at midnight closes with a later trade, after the VWAP is
\* reset half a minute into the day (signal.rs:262-270, main.rs:621-638).
\* However far the signal agent lags, at most one candle that was forming
\* then is in the new VWAP; more of the old session only by trades that
\* came after midnight.
FormingByMidnight == {Bucket(t.ts, Entry) : t \in {d \in Range(delivered) : d.at < since}}

VwapSpillsOneCandle ==
  Cardinality(vwap \intersect FormingByMidnight) <= 1
=============================================================================
