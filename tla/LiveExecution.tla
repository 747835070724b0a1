---------------------------- MODULE LiveExecution ----------------------------
(***************************************************************************)
(* The execution agent (src/src/agents/execution.rs) against a live        *)
(* exchange (src/src/execution/binance.rs), from boot (main.rs) through    *)
(* crashes: what the broker holds, next to what the agent believes.        *)
(*                                                                         *)
(* The agent handles one message at a time and awaits every call; a call   *)
(* is one action, in which the broker does or does not act and the agent   *)
(* does or does not hear of it.  In between the broker fills and triggers  *)
(* what rests there.  Of a price only what routes an order is kept; sizes  *)
(* are raw units, the broker counts lots.  The gates before an entry are   *)
(* TradingPipeline's; here any verdict may arrive that passed them.        *)
(***************************************************************************)
EXTENDS Integers, FiniteSets

CONSTANTS
  Setups,            \* approved verdicts, each delivered at most once
  Symbols,
  SymbolOf, SideOf, SizeOf,    \* of a setup
  StopOf, TargetOf,  \* the setup's stop and target price, 0 for none
  FairOf,            \* the setup's entry price
  Lot,               \* raw units per lot
  Quotes,            \* records bid, ask: tops of book the agent may have seen
  MaxCrashes

ASSUME LiveAssumption ==
  /\ Setups \intersect Symbols = {}
  /\ SymbolOf \in [Setups -> Symbols]
  /\ SideOf \in [Setups -> {"Long", "Short"}]
  /\ SizeOf \in [Setups -> Nat]
  /\ StopOf \in [Setups -> Nat] /\ TargetOf \in [Setups -> Nat]
  /\ FairOf \in [Setups -> Nat]
  /\ Lot \in Nat \ {0}
  /\ Quotes \subseteq [bid : Nat, ask : Nat]
  /\ MaxCrashes \in Nat

VARIABLES
  net,               \* broker: signed lots per symbol
  resting,           \* broker: orders waiting for their price
  book,              \* PositionBook: key -> position
  openPositions,     \* RiskManager's counter
  pc,                \* where the agent is
  cur,               \* setup or book key the agent is working on
  exits,             \* keys a tick took off the book, not yet booked
  flattening,        \* keys a flat-all still has to close
  fresh,             \* setups not delivered yet
  crashes,
  \* history
  lost,              \* per symbol, how the agent lost track of the broker
  clean,             \* symbols whose last flat-all met no failure
  bootDrift,         \* by how much the two fetches of the startup differed
  guarded            \* symbols for which a stop order was accepted

brokerVars == <<net, resting>>
agentVars  == <<book, openPositions, pc, cur, exits, flattening, fresh>>
history    == <<lost, clean, bootDrift, guarded>>
vars       == <<brokerVars, agentVars, crashes, history>>

Nothing == "nothing"

Keys  == Setups \union Symbols      \* a recovered position's key is its symbol
Sides == {"Long", "Short"}

Opposite(side) == IF side = "Long" THEN "Short" ELSE "Long"
Sign(side)     == IF side = "Long" THEN 1 ELSE 0 - 1
Abs(n)         == IF n < 0 THEN 0 - n ELSE n

Routes == {"timeout", "exit", "flat", "cancel", "orphan", "unseen"}

-----------------------------------------------------------------------------
(* Requests, and what goes over the wire *)

\* An entry, its stop and its target are told apart by a client id each, made
\* from the setup's: here that id and the type.  Equal entries of two setups
\* are two orders.
Request(id, symbol, side, size, type, reduceOnly) ==
  [id |-> id, symbol |-> symbol, side |-> side, size |-> size, type |-> type,
   reduceOnly |-> reduceOnly]

\* format_quantity: down to whole lots, too small a size becomes 0.
Quantity(size) == size \div Lot

Protective(type) == type \in {"StopLoss", "TakeProfit"}

\* Protective orders carry closePosition instead of a quantity, and then
\* neither quantity nor reduceOnly.
WireOrder(r) ==
  [id |-> r.id, symbol |-> r.symbol, side |-> r.side, type |-> r.type,
   closes |-> Protective(r.type),
   qty |-> IF Protective(r.type) THEN 0 ELSE Quantity(r.size),
   reduceOnly |-> r.reduceOnly /\ ~Protective(r.type)]

\* spread_bps > 1.5 of the mid, cross-multiplied.
WideSpread(q) == 40000 * (q.ask - q.bid) > 3 * (q.ask + q.bid)

\* plan_limit_order plans a resting or crossing limit order, or none.  Where
\* it rests decides when it fills, which is the broker's business.
PlansLimit(q, fair) == q.bid > 0 /\ q.ask > q.bid /\ fair > 0

\* The entry of a setup under the last top of book, if there is one.
EntryType(q, fair) ==
  IF WideSpread(q) /\ PlansLimit(q, fair) THEN "Limit" ELSE "Market"

EntryTypes(s) ==
  {"Market"} \union {EntryType(q, FairOf[s]) : q \in Quotes}

EntryRequest(s, type) ==
  Request(s, SymbolOf[s], SideOf[s], SizeOf[s], type, FALSE)

StopRequest(s) ==
  Request(s, SymbolOf[s], Opposite(SideOf[s]), SizeOf[s], "StopLoss", TRUE)

TargetRequest(s) ==
  Request(s, SymbolOf[s], Opposite(SideOf[s]), SizeOf[s], "TakeProfit", TRUE)

\* The id of a flat-all's order is made from symbol and time; a market order
\* does not rest, so the time is left out.
CloseRequest(p) ==
  Request(p.symbol, p.symbol, Opposite(p.side), p.size, "Market", TRUE)

-----------------------------------------------------------------------------
(* The broker, as the code uses it: one net position per symbol *)

Reduces(w) == net[w.symbol] * Sign(w.side) < 0

\* A reduce-only order takes away at most what is there.
Traded(w) ==
  IF w.reduceOnly /\ w.qty > Abs(net[w.symbol])
  THEN Abs(net[w.symbol]) ELSE w.qty

Acceptable(w) == w.closes \/ (w.qty > 0 /\ (w.reduceOnly => Reduces(w)))

Takes(w) ==
  /\ Acceptable(w)
  /\ IF w.type = "Market"
     THEN /\ net' = [net EXCEPT ![w.symbol] = @ + Sign(w.side) * Traded(w)]
          /\ UNCHANGED resting
     ELSE /\ resting' = resting \union {w}
          /\ UNCHANGED net

\* The three ends of place_order: taken and acknowledged, taken with the
\* answer lost (the client gives up after 5 s), refused or never arrived.
PlaceOrder(r, outcome) ==
  CASE outcome \in {"ok", "lost"} -> Takes(WireOrder(r))
    [] outcome = "refused"        -> UNCHANGED brokerVars

Outcomes == {"ok", "lost", "refused"}

\* cancel_all; its result is ignored everywhere.
CancelAll(symbol, done) ==
  /\ resting' = IF done THEN {o \in resting : o.symbol # symbol} ELSE resting
  /\ UNCHANGED net

EntriesResting(symbol, orders) ==
  {o \in orders : o.symbol = symbol /\ ~o.closes}

\* What rests meets its price.
BrokerFills(o) ==
  /\ o \in resting /\ ~o.closes
  /\ net' = [net EXCEPT ![o.symbol] = @ + Sign(o.side) * o.qty]
  /\ resting' = resting \ {o}
  /\ UNCHANGED <<agentVars, crashes, history>>

BrokerTriggers(o) ==
  /\ o \in resting /\ o.closes /\ Reduces(o)
  /\ net' = [net EXCEPT ![o.symbol] = 0]
  /\ resting' = resting \ {o}
  /\ UNCHANGED <<agentVars, crashes, history>>

-----------------------------------------------------------------------------
(* The agent: entries *)

Remember(symbol, route, when) ==
  lost' = IF when THEN [lost EXCEPT ![symbol] = @ \union {route}] ELSE lost

\* Mutant of EntryAcked: an entry with nothing executed yet is not booked.
EntryAckedIfFilled(s, type) ==
  /\ openPositions' = openPositions + (IF type = "Market" THEN 1 ELSE 0)
  /\ book' = IF type # "Market" THEN book
             ELSE [k \in (DOMAIN book) \union {s} |->
               IF k = s THEN [symbol |-> SymbolOf[s], side |-> SideOf[s],
                              size |-> SizeOf[s]]
                        ELSE book[k]]
  /\ cur' = s
  /\ pc' = "stop"

\* The acknowledged quantity is not read; a fill price of 0, which a resting
\* order reports, is replaced by the entry price, which is positive.
EntryAcked(s, type) ==
  /\ openPositions' = openPositions + 1
  /\ book' = [k \in (DOMAIN book) \union {s} |->
               IF k = s THEN [symbol |-> SymbolOf[s], side |-> SideOf[s],
                              size |-> SizeOf[s]]
                        ELSE book[k]]
  /\ cur' = s
  /\ pc' = "stop"

\* A verdict that passed the gates: the entry order, and on its
\* acknowledgement counter and book, in that order and without an await.
SendEntry(s) ==
  /\ pc = "idle" /\ s \in fresh
  /\ fresh' = fresh \ {s}
  /\ clean' = clean \ {SymbolOf[s]}
  /\ \E type \in EntryTypes(s), outcome \in Outcomes :
       /\ PlaceOrder(EntryRequest(s, type), outcome)
       /\ IF outcome = "ok" THEN EntryAcked(s, type)
          ELSE UNCHANGED <<openPositions, book, cur, pc>>
       /\ Remember(SymbolOf[s], "timeout", outcome = "lost")
  /\ UNCHANGED <<exits, flattening, crashes, bootDrift, guarded>>

\* build_sl_request and build_tp_request give nothing for a price of 0.  A
\* rejection is logged.
PlaceStop ==
  /\ pc = "stop"
  /\ pc' = "target"
  /\ \/ /\ StopOf[cur] > 0
        /\ \E outcome \in Outcomes :
             /\ PlaceOrder(StopRequest(cur), outcome)
             /\ guarded' = IF outcome = "ok"
                           THEN guarded \union {SymbolOf[cur]} ELSE guarded
     \/ StopOf[cur] = 0 /\ UNCHANGED <<brokerVars, guarded>>
  /\ UNCHANGED <<book, openPositions, cur, exits, flattening, fresh, crashes,
                 lost, clean, bootDrift>>

PlaceTarget ==
  /\ pc = "target"
  /\ pc' = "idle" /\ cur' = Nothing
  /\ \/ /\ TargetOf[cur] > 0
        /\ \E outcome \in Outcomes : PlaceOrder(TargetRequest(cur), outcome)
     \/ TargetOf[cur] = 0 /\ UNCHANGED brokerVars
  /\ UNCHANGED <<book, openPositions, exits, flattening, fresh, crashes, history>>

-----------------------------------------------------------------------------
(* The agent: exits on a tick *)

KeysOf(symbol) == {k \in DOMAIN book : book[k].symbol = symbol}

Without(keys) == [k \in (DOMAIN book) \ keys |-> book[k]]

\* Mutant of CountClosed: a plain subtraction.
CountClosedPlain == openPositions' = openPositions - 1

CountClosed == openPositions' = IF openPositions > 0 THEN openPositions - 1 ELSE 0

\* check_exits takes any of the symbol's positions off the book.
Tick(symbol) ==
  /\ pc = "idle"
  /\ \E due \in (SUBSET KeysOf(symbol)) \ {{}} :
       /\ book' = Without(due)
       /\ exits' = {[symbol |-> symbol, key |-> k] : k \in due}
  /\ pc' = "exits"
  /\ UNCHANGED <<brokerVars, openPositions, cur, flattening, fresh, crashes, history>>

\* One of them: booked with the risk manager, then cancel_all.  No order
\* that closes the position is sent.
BookExit(e) ==
  /\ pc = "exits" /\ e \in exits
  /\ CountClosed
  /\ exits' = exits \ {e}
  /\ pc' = IF exits = {e} THEN "idle" ELSE "exits"
  /\ \E done \in BOOLEAN : CancelAll(e.symbol, done)
  /\ Remember(e.symbol, "exit",
              net[e.symbol] # 0 \/ EntriesResting(e.symbol, resting') # {})
  /\ UNCHANGED <<book, cur, flattening, fresh, crashes, clean, bootDrift, guarded>>

-----------------------------------------------------------------------------
(* The agent: flat-all *)

\* A snapshot of the book; whoever was tracked so far is promised a flat.
FlatAll ==
  /\ pc = "idle" /\ DOMAIN book # {}
  /\ flattening' = DOMAIN book
  /\ clean' = clean \union {book[k].symbol : k \in DOMAIN book}
  /\ pc' = "flat"
  /\ UNCHANGED <<brokerVars, book, openPositions, cur, exits, fresh, crashes,
                 lost, bootDrift, guarded>>

\* Mutant of FlatCancel: the orders are left for the broker to expire.
FlatSkipsCancel(k) ==
  /\ pc = "flat" /\ k \in flattening
  /\ cur' = k /\ pc' = "close"
  /\ UNCHANGED <<brokerVars, book, openPositions, exits, flattening, fresh,
                 crashes, history>>

FlatCancel(k) ==
  /\ pc = "flat" /\ k \in flattening
  /\ cur' = k /\ pc' = "close"
  /\ \E done \in BOOLEAN :
       /\ CancelAll(book[k].symbol, done)
       /\ clean' = IF done THEN clean ELSE clean \ {book[k].symbol}
  /\ Remember(book[k].symbol, "cancel",
              EntriesResting(book[k].symbol, resting') # {})
  /\ UNCHANGED <<book, openPositions, exits, flattening, fresh, crashes,
                 bootDrift, guarded>>

\* The reduce-only market order, whose failure is logged; then the position
\* is booked as closed and leaves the book.
FlatClose ==
  /\ pc = "close"
  /\ LET p == book[cur]
         untouched == net'[p.symbol] = net[p.symbol] /\ net[p.symbol] # 0
     IN /\ \E outcome \in Outcomes : PlaceOrder(CloseRequest(p), outcome)
        /\ Remember(p.symbol, "flat", untouched)
        /\ clean' = IF untouched THEN clean \ {p.symbol} ELSE clean
  /\ CountClosed
  /\ book' = Without({cur})
  /\ flattening' = flattening \ {cur}
  /\ pc' = IF flattening = {cur} THEN "idle" ELSE "flat"
  /\ cur' = Nothing
  /\ UNCHANGED <<exits, fresh, crashes, bootDrift, guarded>>

-----------------------------------------------------------------------------
(* Crash and startup *)

\* What fetch_open_positions reports: net positions that are not zero.
Held == {s \in Symbols : net[s] # 0}

Recovered ==
  [s \in Held |-> [symbol |-> s,
                   side |-> IF net[s] > 0 THEN "Long" ELSE "Short",
                   size |-> Abs(net[s]) * Lot]]

\* The process dies at any point; the broker keeps positions and orders.
Crash ==
  /\ crashes < MaxCrashes
  /\ crashes' = crashes + 1
  /\ book' = <<>> /\ openPositions' = 0
  /\ pc' = "fetch1" /\ cur' = Nothing /\ exits' = {} /\ flattening' = {}
  /\ lost' = [s \in Symbols |->
                IF EntriesResting(s, resting) # {} THEN {"orphan"} ELSE {}]
  /\ clean' = {} /\ guarded' = {}
  /\ UNCHANGED <<brokerVars, fresh, bootDrift>>

\* Before the agents are spawned: every reported position is counted, and
\* the book is filled unless there is none or the call fails.
FirstReconcile ==
  /\ pc = "fetch1"
  /\ pc' = "fetch2"
  /\ \/ /\ Held # {}
        /\ book' = Recovered
        /\ openPositions' = openPositions + Cardinality(Held)
     \/ UNCHANGED <<book, openPositions>>
  /\ bootDrift' = Cardinality(DOMAIN book')
  /\ UNCHANGED <<brokerVars, cur, exits, flattening, fresh, crashes, lost,
                 clean, guarded>>

BootEnds ==
  /\ pc' = "idle"
  /\ bootDrift' = bootDrift - Cardinality(DOMAIN book')
  /\ lost' = [s \in Symbols |->
                IF net[s] # 0 /\ (\A k \in DOMAIN book' : book'[k].symbol # s)
                THEN lost[s] \union {"unseen"} ELSE lost[s]]
  /\ UNCHANGED <<brokerVars, cur, exits, flattening, fresh, crashes, clean, guarded>>

\* Mutant of SecondReconcile: it counts what it finds, like the first.
SecondReconcileCounts ==
  /\ pc = "fetch2"
  /\ \/ book' = Recovered /\ openPositions' = openPositions + Cardinality(Held)
     \/ UNCHANGED <<book, openPositions>>
  /\ BootEnds

\* Before the execution agent is spawned: the book becomes what the call
\* reports, nothing is counted; or the call fails.
SecondReconcile ==
  /\ pc = "fetch2"
  /\ \/ book' = Recovered
     \/ UNCHANGED book
  /\ UNCHANGED openPositions
  /\ BootEnds

-----------------------------------------------------------------------------

Init ==
  /\ net = [s \in Symbols |-> 0] /\ resting = {}
  /\ book = <<>> /\ openPositions = 0
  /\ pc = "fetch1" /\ cur = Nothing /\ exits = {} /\ flattening = {}
  /\ fresh = Setups /\ crashes = 0
  /\ lost = [s \in Symbols |-> {}] /\ clean = {} /\ guarded = {}
  /\ bootDrift = 0

Agent ==
  \/ FirstReconcile \/ SecondReconcile
  \/ \E s \in Setups : SendEntry(s)
  \/ PlaceStop \/ PlaceTarget
  \/ \E s \in Symbols : Tick(s)
  \/ \E e \in exits : BookExit(e)
  \/ FlatAll \/ FlatClose
  \/ \E k \in Keys : FlatCancel(k)

Broker == \E o \in resting : BrokerFills(o) \/ BrokerTriggers(o)

Next == Agent \/ Broker \/ Crash

Spec == Init /\ [][Next]_vars

-----------------------------------------------------------------------------
(* Properties *)

Position == [symbol : Symbols, side : Sides, size : Nat]

TypeOK ==
  /\ net \in [Symbols -> Int]
  /\ \A o \in resting : o \in [id : Keys, symbol : Symbols, side : Sides,
       type : {"Limit", "StopLoss", "TakeProfit"}, closes : BOOLEAN,
       qty : Nat, reduceOnly : BOOLEAN]
  /\ \E open \in SUBSET Keys : book \in [open -> Position]
  /\ openPositions \in Nat
  /\ pc \in {"fetch1", "fetch2", "idle", "stop", "target", "exits", "flat", "close"}
  /\ cur \in Keys \union {Nothing}
  /\ exits \subseteq [symbol : Symbols, key : Keys]
  /\ flattening \subseteq DOMAIN book
  /\ fresh \subseteq Setups
  /\ crashes \in 0..MaxCrashes
  /\ lost \in [Symbols -> SUBSET Routes]
  /\ clean \subseteq Symbols /\ guarded \subseteq Symbols
  /\ bootDrift \in Int

Booted == pc \notin {"fetch1", "fetch2"}

Tracked(s) ==
  \/ \E k \in DOMAIN book : book[k].symbol = s
  \/ \E e \in exits : e.symbol = s

\* The agent loses sight of a position at the broker only along the routes
\* `lost` names: an order whose answer was lost, an exit that sends no
\* closing order, a flat-all whose calls failed, an entry still resting when
\* the process died, a startup whose calls failed.  Resting limit entries,
\* orders of other positions on the symbol, and a restart in the middle of
\* any handler are no further route (execution.rs:279-344, main.rs:377-555).
UntrackedOnlyByKnownRoutes ==
  \A s \in Symbols :
    Booted /\ net[s] # 0 /\ lost[s] = {} => Tracked(s)

\* After a flat-all (execution.rs:130-194) none of whose calls failed, the
\* broker holds nothing on the symbols it covered, and no entry rests there
\* that could fill later, although the orders and the position it closes
\* are shared by all positions of the symbol.
FlatAllIsFinal ==
  pc = "idle" =>
    \A s \in clean : lost[s] = {} =>
      net[s] = 0 /\ EntriesResting(s, resting) = {}

\* Two places write the counter at startup and the book is rewritten by the
\* second (main.rs:377-411, 530-555).  Counter and book differ by no more
\* than the two calls reported differently: no later entry, exit or
\* flat-all adds to it, although a counter at 0 stays there.
CounterDriftBounded ==
  Booted =>
    Abs(openPositions - Cardinality(DOMAIN book) - Cardinality(exits))
      <= Abs(bootDrift)

\* execution.rs:6-9: the protective orders guarantee "that even if our
\* process dies the position has protective exits sitting at the broker".
ProtectedAtBroker ==
  pc = "idle" =>
    \A s \in guarded : net[s] # 0 =>
      \E o \in resting : o.symbol = s /\ o.type = "StopLoss"
=============================================================================
