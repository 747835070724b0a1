---------------------------- MODULE PositionBook ----------------------------
(***************************************************************************)
(* The in-memory position tracker (src/src/execution/position.rs): the map *)
(* from client id to position, and check_exits, which the execution agent  *)
(* calls on every tick and which may move a stop or close a position.      *)
(*                                                                         *)
(* Prices are 1..MaxPrice, in steps.  Stops are kept doubled (`stop2`):    *)
(* the trailing stop is the middle between entry and price, the only       *)
(* fraction the code computes, because every caller sets atr_at_entry to 0 *)
(* (execution.rs:340, main.rs:394, main.rs:544).  A stop or target of 0 is *)
(* the code's "none".  Sizes, and peak_price and trough_price, which no    *)
(* caller updates, are left out; partial take-profit is never enabled.     *)
(***************************************************************************)
EXTENDS Integers

CONSTANTS
  Ids,               \* client ids
  Symbols,
  MaxPrice,          \* bound on prices
  MaxHold            \* cfg.max_hold_secs, in steps of the clock

ASSUME PositionBookAssumption ==
  /\ MaxPrice \in Nat \ {0}
  /\ MaxHold \in Nat \ {0}

VARIABLE book        \* a function from the open client ids to positions

Prices == 1..MaxPrice
Sides  == {"Long", "Short"}

\* `age` is now - opened_at, counted up to the first value past the limit.
\* `best` is history: the most favourable price the position was checked at.
Position ==
  [symbol    : Symbols,
   side      : Sides,
   entry     : Prices,
   stop2     : 0..(2 * MaxPrice),
   tp        : 0..MaxPrice,
   age       : 0..(MaxHold + 1),
   breakeven : BOOLEAN,
   trailing  : BOOLEAN,
   best      : Prices]

\* How far price a is ahead of price b for a position on this side.
Ahead(side, a, b) == IF side = "Long" THEN a - b ELSE b - a

-----------------------------------------------------------------------------
(* check_exits for one position *)

\* Twice r, the distance from the entry to the current stop.
Risk2(p) ==
  IF 2 * p.entry >= p.stop2 THEN 2 * p.entry - p.stop2 ELSE p.stop2 - 2 * p.entry

\* A position whose stop sits on its entry is skipped altogether.
Checked(p) == Risk2(p) > 0

Gain(p, price) == Ahead(p.side, price, p.entry)

Expired(p) == p.age > MaxHold

StopHit(p, price) == p.stop2 > 0 /\ Ahead(p.side, 2 * price, p.stop2) <= 0

TargetHit(p, price) == p.tp > 0 /\ Ahead(p.side, price, p.tp) >= 0

\* Profit of half an r arms the breakeven stop, profit of one r the trail.
ArmsBreakeven(p, price) == ~p.breakeven /\ 4 * Gain(p, price) >= Risk2(p)

Trails(p, price) == p.trailing \/ 2 * Gain(p, price) >= Risk2(p)

\* Mutant of BreakevenStop: the flag is set, the stop is not moved.
BreakevenStopUnmoved(p, price) == p.stop2

BreakevenStop(p, price) ==
  IF ArmsBreakeven(p, price) THEN 2 * p.entry ELSE p.stop2

\* Mutant of NewStop: the trail follows the price back.
NewStopUnratcheted(p, price) ==
  IF Trails(p, price) THEN price + p.entry ELSE BreakevenStop(p, price)

\* Mutant of NewStop: the trail is one and a half profits wide, unratcheted.
NewStopTooWide(p, price) ==
  IF Trails(p, price) THEN 3 * p.entry - price ELSE BreakevenStop(p, price)

\* The fallback trail of half the profit: twice (price + entry) / 2.
NewStop(p, price) ==
  IF /\ Trails(p, price)
     /\ Ahead(p.side, price + p.entry, BreakevenStop(p, price)) > 0
  THEN price + p.entry
  ELSE BreakevenStop(p, price)

TrailHit(p, price) ==
  Trails(p, price) /\ Ahead(p.side, 2 * price, NewStop(p, price)) <= 0

\* The tests in the order of the code; "None" keeps the position.
ExitReason(p, price) ==
  CASE ~Checked(p)         -> "None"
    [] Checked(p) /\ Expired(p) -> "TimeExit"
    [] Checked(p) /\ ~Expired(p) /\ StopHit(p, price) -> "StopLoss"
    [] Checked(p) /\ ~Expired(p) /\ ~StopHit(p, price) /\ TargetHit(p, price)
         -> "TakeProfit"
    [] OTHER -> IF TrailHit(p, price) THEN "Trailing" ELSE "None"

BestOf(p, price) == IF Ahead(p.side, price, p.best) > 0 THEN price ELSE p.best

\* What a position that stays becomes.
Ratchet(p, price) ==
  IF Checked(p)
  THEN [p EXCEPT !.breakeven = p.breakeven \/ ArmsBreakeven(p, price),
                 !.trailing  = Trails(p, price),
                 !.stop2     = NewStop(p, price),
                 !.best      = BestOf(p, price)]
  ELSE [p EXCEPT !.best = BestOf(p, price)]

-----------------------------------------------------------------------------
(* Operations *)

Opened(symbol, side, entry, stop, tp) ==
  [symbol |-> symbol, side |-> side, entry |-> entry, stop2 |-> 2 * stop,
   tp |-> tp, age |-> 0, breakeven |-> FALSE, trailing |-> FALSE,
   best |-> entry]

\* Startup in live mode: the exchange's positions, without stop or target.
Init ==
  \E recovered \in SUBSET Ids :
    book \in [recovered -> {Opened(s, d, e, 0, 0) :
                              s \in Symbols, d \in Sides, e \in Prices}]

\* The execution agent after a fill.  The stop was placed relative to the
\* proposal's entry, not to the fill, and validate_signal only looks at
\* distances, so it may be on either side of the entry.
OpenPosition(id) ==
  \E s \in Symbols, d \in Sides, e \in Prices, stop \in Prices, tp \in Prices :
    book' = [i \in (DOMAIN book) \union {id} |->
               IF i = id THEN Opened(s, d, e, stop, tp) ELSE book[i]]

\* One tick of a symbol.
CheckExits(symbol, price) ==
  LET leaves(id) == /\ book[id].symbol = symbol
                    /\ ExitReason(book[id], price) # "None"
  IN book' = [id \in {i \in DOMAIN book : ~leaves(i)} |->
                IF book[id].symbol = symbol THEN Ratchet(book[id], price)
                                            ELSE book[id]]

\* Flat-all.
CloseById(id) ==
  /\ id \in DOMAIN book
  /\ book' = [i \in (DOMAIN book) \ {id} |-> book[i]]

\* One step of the clock.
Elapse ==
  book' = [id \in DOMAIN book |->
             [book[id] EXCEPT !.age = IF @ <= MaxHold THEN @ + 1 ELSE @]]

Next ==
  \/ \E id \in Ids : OpenPosition(id) \/ CloseById(id)
  \/ \E s \in Symbols, price \in Prices : CheckExits(s, price)
  \/ Elapse

Spec == Init /\ [][Next]_book

-----------------------------------------------------------------------------
(* Properties *)

TypeOK == \E open \in SUBSET Ids : book \in [open -> Position]

\* Once the breakeven stop is armed (position.rs:216-220) the stop never
\* stands on the losing side of the entry again, whatever the trail does and
\* wherever the stop stood before.
BreakevenKeepsEntry ==
  \A id \in DOMAIN book :
    book[id].breakeven =>
      Ahead(book[id].side, book[id].stop2, 2 * book[id].entry) >= 0

\* A trailing position has locked in half of the best profit it was ever
\* checked at (position.rs:227-239), although the code keeps no peak: prices
\* that fall back never take the stop back with them.
TrailLocksHalfOfBest ==
  \A id \in DOMAIN book :
    book[id].trailing =>
      Ahead(book[id].side, book[id].stop2, book[id].best + book[id].entry) >= 0

\* No tick moves a stop away from the price, with one exception the code
\* allows: a stop that was placed on the wrong side of the entry is brought
\* back when breakeven is armed.
StopNeverLoosens ==
  [][\A s \in Symbols, price \in Prices : CheckExits(s, price) =>
       \A id \in DOMAIN book \intersect DOMAIN book' :
         (/\ book[id].stop2 > 0
          /\ \/ book[id].breakeven
             \/ Ahead(book[id].side, 2 * book[id].entry, book[id].stop2) >= 0)
         => Ahead(book[id].side, book'[id].stop2, book[id].stop2) >= 0]_book

\* position.rs:8 promises a "Breakeven stop (move SL to entry after 0.5R
\* profit)" and execution.rs:346-348 falls back on "the in-memory exit
\* tracker": once the stop has been moved to breakeven, a tick at or through
\* it closes the position.
BreakevenStopIsHonoured ==
  \A id \in DOMAIN book, price \in Prices :
    book[id].breakeven /\ StopHit(book[id], price)
      => ExitReason(book[id], price) # "None"
=============================================================================
