------------------------ MODULE LiveExecutionProofs ------------------------
(***************************************************************************)
(* Proofs about the execution agent against a live exchange, for any       *)
(* number of setups, symbols, sizes, quotes and crashes: the model is well *)
(* typed; the risk manager's counter never drifts from the book by more    *)
(* than the two fetches of the last startup differed; and while the agent  *)
(* has not lost track of a symbol, the lots on its book cover, side by     *)
(* side, what the broker holds and what waiting entries may add to it,     *)
(* which is why a position is untracked only along the known routes and    *)
(* why a flat-all without a failure leaves nothing behind.                 *)
(***************************************************************************)
EXTENDS LiveExecution, FiniteSetTheorems, TLAPS

-----------------------------------------------------------------------------
(* The type invariant in parts, and where the agent may be *)

RestingOrders ==
  [id : Keys, symbol : Symbols, side : Sides, type : {"Limit", "StopLoss", "TakeProfit"},
   closes : BOOLEAN, qty : Nat, reduceOnly : BOOLEAN]

BrokerOK == net \in [Symbols -> Int] /\ resting \subseteq RestingOrders

BookOK ==
  /\ \E open \in SUBSET Keys : book \in [open -> Position]
  /\ openPositions \in Nat

WorkOK ==
  /\ pc \in {"fetch1", "fetch2", "idle", "stop", "target", "exits", "flat", "close"}
  /\ cur \in Keys \union {Nothing}
  /\ exits \subseteq [symbol : Symbols, key : Keys]
  /\ flattening \subseteq DOMAIN book
  /\ fresh \subseteq Setups

HistoryOK ==
  /\ crashes \in 0..MaxCrashes
  /\ lost \in [Symbols -> SUBSET Routes]
  /\ clean \subseteq Symbols /\ guarded \subseteq Symbols
  /\ bootDrift \in Int

\* TypeOK is these parts.
LEMMA TypeParts == TypeOK <=> BrokerOK /\ BookOK /\ WorkOK /\ HistoryOK
  BY DEF TypeOK, BrokerOK, BookOK, WorkOK, HistoryOK, RestingOrders

\* What the agent works on, by where it is: it protects a setup, closes a
\* position that is on the book, and handles one list at a time; a verdict
\* not delivered yet has no position.
WhereInv ==
  /\ pc \in {"stop", "target"} => cur \in Setups
  /\ pc = "close" => cur \in flattening
  /\ pc # "exits" => exits = {}
  /\ pc \notin {"flat", "close"} => flattening = {}
  /\ pc = "fetch1" => book = <<>> /\ openPositions = 0
  /\ fresh \intersect DOMAIN book = {}

\* By how much counter and book differ.
Drift == openPositions - Cardinality(DOMAIN book) - Cardinality(exits)

DriftInv ==
  /\ IsFiniteSet(DOMAIN book) /\ IsFiniteSet(exits)
  /\ pc = "fetch2" => openPositions = Cardinality(DOMAIN book)
                      /\ bootDrift = Cardinality(DOMAIN book)
  /\ CounterDriftBounded

-----------------------------------------------------------------------------
(* The broker *)

\* Requests the agent builds.
Requests == [id : Keys, symbol : Symbols, side : Sides, size : Nat,
             type : {"Market", "Limit", "StopLoss", "TakeProfit"}, reduceOnly : BOOLEAN]

\* Whole lots of a size are a natural number.
LEMMA QuantityNat ==
  ASSUME NEW size \in Nat
  PROVE  Quantity(size) \in Nat
  BY LiveAssumption DEF Quantity, LiveAssumption

\* What the client puts on the wire is an order the broker knows.
LEMMA WireOrderOK ==
  ASSUME NEW r \in Requests
  PROVE  /\ WireOrder(r).symbol \in Symbols /\ WireOrder(r).side \in Sides
         /\ WireOrder(r).qty \in Nat
         /\ WireOrder(r).type = r.type
         /\ r.type # "Market" => WireOrder(r) \in RestingOrders
<1>1. r.size \in Nat /\ Quantity(r.size) \in Nat
  BY QuantityNat DEF Requests
<1> DEFINE w == WireOrder(r)
<1>2. w = [id |-> r.id, symbol |-> r.symbol, side |-> r.side, type |-> r.type,
           closes |-> Protective(r.type),
           qty |-> IF Protective(r.type) THEN 0 ELSE Quantity(r.size),
           reduceOnly |-> r.reduceOnly /\ ~Protective(r.type)]
  BY DEF WireOrder
<1>3. Protective(r.type) \in BOOLEAN /\ (r.reduceOnly /\ ~Protective(r.type)) \in BOOLEAN
  BY DEF Protective
<1>4. (IF Protective(r.type) THEN 0 ELSE Quantity(r.size)) \in Nat
  BY <1>1
<1>5. r.id \in Keys /\ r.symbol \in Symbols /\ r.side \in Sides
      /\ r.type \in {"Market", "Limit", "StopLoss", "TakeProfit"}
  BY DEF Requests
<1> HIDE DEF w
<1>6. /\ w.symbol = r.symbol /\ w.side = r.side /\ w.type = r.type
      /\ w.qty = IF Protective(r.type) THEN 0 ELSE Quantity(r.size)
  BY <1>2
<1>7. r.type # "Market" => w \in RestingOrders
  BY <1>2, <1>3, <1>4, <1>5 DEF RestingOrders
<1>8. QED
  BY <1>4, <1>5, <1>6, <1>7 DEF w

\* However a request ends, the broker's books stay well formed.
LEMMA PlaceOrderOK ==
  ASSUME BrokerOK, NEW r \in Requests, NEW outcome \in Outcomes, PlaceOrder(r, outcome)
  PROVE  BrokerOK'
<1> DEFINE w == WireOrder(r)
<1>1. /\ w.symbol \in Symbols /\ w.side \in Sides /\ w.qty \in Nat /\ w.type = r.type
      /\ r.type # "Market" => w \in RestingOrders
  BY WireOrderOK
<1> HIDE DEF w
<1>2. CASE outcome = "refused"
  <2>1. UNCHANGED brokerVars
    BY <1>2 DEF PlaceOrder
  <2>2. QED
    BY <2>1 DEF BrokerOK, brokerVars
<1>3. CASE outcome \in {"ok", "lost"}
  <2>1. Takes(w)
    BY <1>3 DEF PlaceOrder, w
  <2>2. CASE w.type = "Market"
    <3>1. /\ net' = [net EXCEPT ![w.symbol] = @ + Sign(w.side) * Traded(w)]
          /\ resting' = resting
      BY <2>1, <2>2 DEF Takes
    <3>2. net[w.symbol] \in Int /\ Abs(net[w.symbol]) \in Nat
      BY <1>1 DEF BrokerOK, Abs
    <3>3. Traded(w) \in Int /\ Sign(w.side) \in Int
      BY <1>1, <3>2 DEF Traded, Sign
    <3>4. net[w.symbol] + Sign(w.side) * Traded(w) \in Int
      BY <3>2, <3>3
    <3>5. QED
      BY <3>1, <3>4 DEF BrokerOK
  <2>3. CASE w.type # "Market"
    <3>1. resting' = resting \union {w} /\ net' = net
      BY <2>1, <2>3 DEF Takes
    <3>2. QED
      BY <1>1, <2>3, <3>1 DEF BrokerOK
  <2>4. QED
    BY <2>2, <2>3
<1>4. QED
  BY <1>2, <1>3 DEF Outcomes

\* The agent's requests are well formed.
LEMMA RequestsOK ==
  /\ \A s \in Setups : /\ StopRequest(s) \in Requests /\ TargetRequest(s) \in Requests
                       /\ \A type \in EntryTypes(s) : EntryRequest(s, type) \in Requests
  /\ \A p \in Position : CloseRequest(p) \in Requests
<1> USE LiveAssumption DEF LiveAssumption
<1>1. \A side \in Sides : Opposite(side) \in Sides
  BY DEF Sides, Opposite
<1>2. ASSUME NEW id \in Keys, NEW symbol \in Symbols, NEW side \in Sides, NEW size \in Nat,
             NEW type \in {"Market", "Limit", "StopLoss", "TakeProfit"},
             NEW reduceOnly \in BOOLEAN
      PROVE  Request(id, symbol, side, size, type, reduceOnly) \in Requests
  BY DEF Request, Requests
<1>3. ASSUME NEW s \in Setups
      PROVE  /\ StopRequest(s) \in Requests /\ TargetRequest(s) \in Requests
             /\ \A type \in EntryTypes(s) : EntryRequest(s, type) \in Requests
  <2>1. /\ SymbolOf[s] \in Symbols /\ SideOf[s] \in Sides /\ SizeOf[s] \in Nat
        /\ Opposite(SideOf[s]) \in Sides /\ s \in Keys
    BY <1>1 DEF Sides, Keys
  <2>2. EntryTypes(s) \subseteq {"Market", "Limit"}
    BY DEF EntryTypes, EntryType
  <2>3. QED
    BY <1>2, <2>1, <2>2 DEF StopRequest, TargetRequest, EntryRequest
<1>4. ASSUME NEW p \in Position PROVE CloseRequest(p) \in Requests
  BY <1>1, <1>2 DEF Position, CloseRequest, Keys
<1>5. QED
  BY <1>3, <1>4

LEMMA CancelAllOK ==
  ASSUME BrokerOK, NEW symbol, NEW done, CancelAll(symbol, done)
  PROVE  BrokerOK'
  BY DEF BrokerOK, CancelAll

-----------------------------------------------------------------------------
(* Type correctness *)

TypeInv == BrokerOK /\ BookOK /\ WorkOK /\ HistoryOK /\ WhereInv

\* A symbol's list of routes stays one.
LEMMA RememberOK ==
  ASSUME HistoryOK, NEW symbol \in Symbols, NEW route \in Routes, NEW when,
         Remember(symbol, route, when)
  PROVE  lost' \in [Symbols -> SUBSET Routes]
<1>1. CASE when
  <2>1. lost' = [lost EXCEPT ![symbol] = @ \union {route}]
    BY <1>1 DEF Remember
  <2>2. QED
    BY <2>1 DEF HistoryOK
<1>2. CASE ~when
  BY <1>2 DEF Remember, HistoryOK
<1>3. QED
  BY <1>1, <1>2

\* The book is a function on keys; taking keys off leaves one.
LEMMA WithoutOK ==
  ASSUME BookOK, NEW keys
  PROVE  /\ DOMAIN Without(keys) = (DOMAIN book) \ keys
         /\ \E open \in SUBSET Keys : Without(keys) \in [open -> Position]
<1>1. PICK open \in SUBSET Keys : book \in [open -> Position]
  BY DEF BookOK
<1>2. Without(keys) \in [open \ keys -> Position] /\ open \ keys \in SUBSET Keys
  BY <1>1 DEF Without
<1>3. QED
  BY <1>1, <1>2 DEF Without

\* What is on the book has a symbol the program trades.
LEMMA OnBook ==
  ASSUME BookOK
  PROVE  DOMAIN book \subseteq Keys /\ \A k \in DOMAIN book : book[k] \in Position
  BY DEF BookOK

\* A recovered book has the symbols as keys.
LEMMA RecoveredOK ==
  ASSUME BrokerOK
  PROVE  /\ DOMAIN Recovered = Held /\ Held \subseteq Symbols
         /\ Recovered \in [Held -> Position] /\ Held \in SUBSET Keys
<1> USE LiveAssumption DEF LiveAssumption
<1>1. \A s \in Held : s \in Symbols /\ net[s] \in Int
  BY DEF BrokerOK, Held
<1>2. ASSUME NEW s \in Held
      PROVE  [symbol |-> s, side |-> IF net[s] > 0 THEN "Long" ELSE "Short",
              size |-> Abs(net[s]) * Lot] \in Position
  <2>1. Abs(net[s]) \in Nat /\ Lot \in Nat
    BY <1>1 DEF Abs
  <2>2. Abs(net[s]) * Lot \in Nat
    BY <2>1
  <2>3. QED
    BY <1>1, <2>2 DEF Position, Sides
<1>3. QED
  BY <1>1, <1>2 DEF Recovered, Keys

LEMMA InitTypes == Init => TypeInv
<1> SUFFICES ASSUME Init PROVE TypeInv
  OBVIOUS
<1> USE LiveAssumption DEF LiveAssumption, Init
<1>1. BrokerOK
  BY DEF BrokerOK
<1>2. book \in [{} -> Position] /\ {} \in SUBSET Keys
  OBVIOUS
<1>3. BookOK
  BY <1>2 DEF BookOK
<1>4. WorkOK /\ HistoryOK /\ WhereInv
  BY DEF WorkOK, HistoryOK, WhereInv
<1>5. QED
  BY <1>1, <1>3, <1>4 DEF TypeInv

\* Entries: the order, and what is booked on its acknowledgement.
LEMMA EntryTypesKept ==
  ASSUME TypeInv, NEW s \in Setups, SendEntry(s)
  PROVE  TypeInv'
<1> USE LiveAssumption DEF LiveAssumption
<1>1. BrokerOK /\ BookOK /\ WorkOK /\ HistoryOK /\ WhereInv
  BY DEF TypeInv
<1>2. PICK type \in EntryTypes(s), outcome \in Outcomes :
        /\ PlaceOrder(EntryRequest(s, type), outcome)
        /\ IF outcome = "ok" THEN EntryAcked(s, type)
           ELSE UNCHANGED <<openPositions, book, cur, pc>>
        /\ Remember(SymbolOf[s], "timeout", outcome = "lost")
  BY DEF SendEntry
<1>3. /\ pc = "idle" /\ s \in fresh /\ fresh' = fresh \ {s}
      /\ clean' = clean \ {SymbolOf[s]}
      /\ UNCHANGED <<exits, flattening, crashes, bootDrift, guarded>>
      /\ exits = {} /\ flattening = {}
  BY <1>1 DEF SendEntry, WhereInv
<1>4. BrokerOK'
  BY <1>1, <1>2, RequestsOK, PlaceOrderOK
<1>5. HistoryOK'
  <2>1. lost' \in [Symbols -> SUBSET Routes]
    BY <1>1, <1>2, RememberOK DEF Routes
  <2>2. QED
    BY <1>1, <1>3, <2>1 DEF HistoryOK
<1>6. CASE outcome = "ok"
  <2> DEFINE p == [symbol |-> SymbolOf[s], side |-> SideOf[s], size |-> SizeOf[s]]
  <2>1. /\ openPositions' = openPositions + 1 /\ cur' = s /\ pc' = "stop"
        /\ book' = [k \in (DOMAIN book) \union {s} |-> IF k = s THEN p ELSE book[k]]
    BY <1>2, <1>6 DEF EntryAcked
  <2>2. p \in Position
    BY DEF Position, Sides
  <2>3. PICK open \in SUBSET Keys : book \in [open -> Position]
    BY <1>1 DEF BookOK
  <2>4. book' \in [open \union {s} -> Position] /\ open \union {s} \in SUBSET Keys
        /\ DOMAIN book' = (DOMAIN book) \union {s}
    BY <2>1, <2>2, <2>3 DEF Keys
  <2>5. BookOK'
    <3>1. \E o \in SUBSET Keys : book' \in [o -> Position]
      BY <2>4
    <3>2. openPositions' \in Nat
      BY <1>1, <2>1 DEF BookOK
    <3>3. QED
      BY <3>1, <3>2 DEF BookOK
  <2>6. WorkOK'
    <3>1. s \in Keys /\ flattening' \subseteq DOMAIN book'
      BY <1>3 DEF Keys
    <3>2. QED
      BY <1>1, <1>3, <2>1, <3>1 DEF WorkOK
  <2>7. WhereInv'
    BY <1>1, <1>3, <2>1, <2>4 DEF WhereInv
  <2>8. QED
    BY <1>4, <1>5, <2>5, <2>6, <2>7 DEF TypeInv
<1>7. CASE outcome # "ok"
  <2>1. UNCHANGED <<openPositions, book, cur, pc>>
    BY <1>2, <1>7
  <2>2. BookOK' /\ WorkOK' /\ WhereInv'
    BY <1>1, <1>3, <2>1 DEF BookOK, WorkOK, WhereInv
  <2>3. QED
    BY <1>4, <1>5, <2>2 DEF TypeInv
<1>8. QED
  BY <1>6, <1>7

\* The protective orders.
LEMMA ProtectTypesKept ==
  ASSUME TypeInv, PlaceStop \/ PlaceTarget
  PROVE  TypeInv'
<1> USE LiveAssumption DEF LiveAssumption
<1>1. BrokerOK /\ BookOK /\ WorkOK /\ HistoryOK /\ WhereInv
  BY DEF TypeInv
<1>2. cur \in Setups /\ UNCHANGED <<book, openPositions, exits, flattening, fresh, crashes>>
      /\ exits = {} /\ flattening = {}
  BY <1>1 DEF WhereInv, PlaceStop, PlaceTarget
<1>3. StopRequest(cur) \in Requests /\ TargetRequest(cur) \in Requests /\ SymbolOf[cur] \in Symbols
  BY <1>2, RequestsOK
<1>4. BrokerOK'
  <2>1. \/ UNCHANGED brokerVars
        \/ \E r \in Requests, outcome \in Outcomes : PlaceOrder(r, outcome)
    BY <1>3 DEF PlaceStop, PlaceTarget
  <2>2. QED
    BY <1>1, <2>1, PlaceOrderOK DEF BrokerOK, brokerVars
<1>5. BookOK'
  BY <1>1, <1>2 DEF BookOK
<1>6. CASE PlaceStop
  <2>1. /\ pc' = "target" /\ cur' = cur
        /\ guarded' \subseteq guarded \union {SymbolOf[cur]}
        /\ UNCHANGED <<lost, clean, bootDrift>>
    BY <1>6 DEF PlaceStop
  <2>2. WorkOK' /\ HistoryOK' /\ WhereInv'
    BY <1>1, <1>2, <1>3, <2>1 DEF WorkOK, HistoryOK, WhereInv
  <2>3. QED
    BY <1>4, <1>5, <2>2 DEF TypeInv
<1>7. CASE PlaceTarget
  <2>1. pc' = "idle" /\ cur' = Nothing /\ UNCHANGED history
    BY <1>7 DEF PlaceTarget
  <2>2. WorkOK' /\ HistoryOK' /\ WhereInv'
    BY <1>1, <1>2, <2>1 DEF WorkOK, HistoryOK, WhereInv, history
  <2>3. QED
    BY <1>4, <1>5, <2>2 DEF TypeInv
<1>8. QED
  BY <1>6, <1>7

\* A tick and the exits it starts.
LEMMA ExitTypesKept ==
  ASSUME TypeInv, (\E s \in Symbols : Tick(s)) \/ (\E e \in exits : BookExit(e))
  PROVE  TypeInv'
<1>1. BrokerOK /\ BookOK /\ WorkOK /\ HistoryOK /\ WhereInv
  BY DEF TypeInv
<1>2. ASSUME NEW s \in Symbols, Tick(s) PROVE TypeInv'
  <2>1. PICK due \in SUBSET KeysOf(s) :
          /\ book' = Without(due)
          /\ exits' = {[symbol |-> s, key |-> k] : k \in due}
    BY <1>2 DEF Tick
  <2>2. /\ pc = "idle" /\ pc' = "exits" /\ flattening = {} /\ exits = {}
        /\ UNCHANGED <<brokerVars, openPositions, cur, flattening, fresh, crashes, history>>
    BY <1>1, <1>2 DEF Tick, WhereInv
  <2>3. DOMAIN book' \subseteq DOMAIN book
        /\ \E open \in SUBSET Keys : book' \in [open -> Position]
    BY <1>1, <2>1, WithoutOK
  <2>4. due \subseteq Keys
    BY <1>1, OnBook DEF KeysOf
  <2>5. BrokerOK' /\ HistoryOK'
    BY <1>1, <2>2 DEF BrokerOK, brokerVars, HistoryOK, history
  <2>6. BookOK'
    BY <1>1, <2>2, <2>3 DEF BookOK
  <2>7. exits' \subseteq [symbol : Symbols, key : Keys]
    BY <2>1, <2>4
  <2>8. WorkOK' /\ WhereInv'
    BY <1>1, <2>2, <2>3, <2>7 DEF WorkOK, WhereInv
  <2>9. QED
    BY <2>5, <2>6, <2>8 DEF TypeInv
<1>3. ASSUME NEW e \in exits, BookExit(e) PROVE TypeInv'
  <2>1. /\ pc = "exits" /\ exits' = exits \ {e}
        /\ pc' = IF exits = {e} THEN "idle" ELSE "exits"
        /\ CountClosed
        /\ Remember(e.symbol, "exit", net[e.symbol] # 0 \/ EntriesResting(e.symbol, resting') # {})
        /\ UNCHANGED <<book, cur, flattening, fresh, crashes, clean, bootDrift, guarded>>
    BY <1>3 DEF BookExit
  <2>2. e.symbol \in Symbols
    BY <1>1 DEF WorkOK
  <2>3. BrokerOK'
    BY <1>1, <1>3, CancelAllOK DEF BookExit
  <2>4. openPositions' \in Nat
    BY <1>1, <2>1 DEF CountClosed, BookOK
  <2>5. BookOK'
    BY <1>1, <2>1, <2>4 DEF BookOK
  <2>6. lost' \in [Symbols -> SUBSET Routes]
    BY <1>1, <2>1, <2>2, RememberOK DEF Routes
  <2>7. HistoryOK'
    BY <1>1, <2>1, <2>6 DEF HistoryOK
  <2>8. WorkOK' /\ WhereInv'
    BY <1>1, <2>1 DEF WorkOK, WhereInv
  <2>9. QED
    BY <2>3, <2>5, <2>7, <2>8 DEF TypeInv
<1>4. QED
  BY <1>2, <1>3

\* The three steps of a flat-all.
LEMMA FlatTypesKept ==
  ASSUME TypeInv, FlatAll \/ FlatClose \/ \E k \in Keys : FlatCancel(k)
  PROVE  TypeInv'
<1>1. BrokerOK /\ BookOK /\ WorkOK /\ HistoryOK /\ WhereInv
  BY DEF TypeInv
<1>2. DOMAIN book \subseteq Keys /\ \A k \in DOMAIN book : book[k] \in Position
  BY <1>1, OnBook
<1>3. \A p \in Position : p.symbol \in Symbols
  BY DEF Position
<1>4. CASE FlatAll
  <2>1. /\ flattening' = DOMAIN book /\ pc' = "flat" /\ pc = "idle"
        /\ clean' = clean \union {book[k].symbol : k \in DOMAIN book}
        /\ UNCHANGED <<brokerVars, book, openPositions, cur, exits, fresh, crashes,
                       lost, bootDrift, guarded>>
    BY <1>4 DEF FlatAll
  <2>2. BrokerOK' /\ BookOK' /\ HistoryOK'
    BY <1>1, <1>2, <1>3, <2>1 DEF BrokerOK, brokerVars, BookOK, HistoryOK
  <2>3. WorkOK' /\ WhereInv'
    BY <1>1, <2>1 DEF WorkOK, WhereInv
  <2>4. QED
    BY <2>2, <2>3 DEF TypeInv
<1>5. ASSUME NEW k \in Keys, FlatCancel(k) PROVE TypeInv'
  <2>1. /\ pc = "flat" /\ k \in flattening /\ cur' = k /\ pc' = "close"
        /\ Remember(book[k].symbol, "cancel",
                    EntriesResting(book[k].symbol, resting') # {})
        /\ UNCHANGED <<book, openPositions, exits, flattening, fresh, crashes,
                       bootDrift, guarded>>
    BY <1>5 DEF FlatCancel
  <2>2. k \in DOMAIN book /\ book[k].symbol \in Symbols
    BY <1>1, <1>2, <1>3, <2>1 DEF WorkOK
  <2>3. PICK done \in BOOLEAN :
          /\ CancelAll(book[k].symbol, done)
          /\ clean' = IF done THEN clean ELSE clean \ {book[k].symbol}
    BY <1>5 DEF FlatCancel
  <2>4. BrokerOK'
    BY <1>1, <2>3, CancelAllOK
  <2>5. lost' \in [Symbols -> SUBSET Routes]
    BY <1>1, <2>1, <2>2, RememberOK DEF Routes
  <2>6. BookOK' /\ HistoryOK'
    BY <1>1, <2>1, <2>3, <2>5 DEF BookOK, HistoryOK
  <2>7. WorkOK' /\ WhereInv'
    BY <1>1, <2>1 DEF WorkOK, WhereInv
  <2>8. QED
    BY <2>4, <2>6, <2>7 DEF TypeInv
<1>6. CASE FlatClose
  <2>1. pc = "close" /\ cur \in flattening /\ cur \in DOMAIN book /\ book[cur] \in Position
    BY <1>1, <1>2, <1>6 DEF FlatClose, WhereInv, WorkOK
  <2> DEFINE untouched == net'[book[cur].symbol] = net[book[cur].symbol]
                          /\ net[book[cur].symbol] # 0
  <2>2. /\ \E outcome \in Outcomes : PlaceOrder(CloseRequest(book[cur]), outcome)
        /\ Remember(book[cur].symbol, "flat", untouched)
        /\ clean' \subseteq clean
        /\ CountClosed /\ book' = Without({cur}) /\ flattening' = flattening \ {cur}
        /\ pc' = IF flattening = {cur} THEN "idle" ELSE "flat"
        /\ cur' = Nothing
        /\ UNCHANGED <<exits, fresh, crashes, bootDrift, guarded>>
    BY <1>6 DEF FlatClose
  <2> HIDE DEF untouched
  <2>3. BrokerOK'
    BY <1>1, <2>1, <2>2, RequestsOK, PlaceOrderOK
  <2>4. DOMAIN book' = (DOMAIN book) \ {cur}
        /\ \E open \in SUBSET Keys : book' \in [open -> Position]
    BY <1>1, <2>2, WithoutOK
  <2>5. openPositions' \in Nat
    BY <1>1, <2>2 DEF CountClosed, BookOK
  <2>6. BookOK'
    BY <2>4, <2>5 DEF BookOK
  <2>7. lost' \in [Symbols -> SUBSET Routes]
    BY <1>1, <1>3, <2>1, <2>2, RememberOK DEF Routes
  <2>8. HistoryOK'
    BY <1>1, <2>2, <2>7 DEF HistoryOK
  <2>9. WorkOK' /\ WhereInv'
    BY <1>1, <2>1, <2>2, <2>4 DEF WorkOK, WhereInv
  <2>10. QED
    BY <2>3, <2>6, <2>8, <2>9 DEF TypeInv
<1>7. QED
  BY <1>4, <1>5, <1>6

\* A crash and the two fetches of the startup.
LEMMA BootTypesKept ==
  ASSUME IsFiniteSet(Symbols), TypeInv, DriftInv, Crash \/ FirstReconcile \/ SecondReconcile
  PROVE  TypeInv'
<1> USE LiveAssumption DEF LiveAssumption
<1>1. BrokerOK /\ BookOK /\ WorkOK /\ HistoryOK /\ WhereInv
  BY DEF TypeInv
<1>2. /\ DOMAIN Recovered = Held /\ Held \subseteq Symbols
      /\ Recovered \in [Held -> Position] /\ Held \in SUBSET Keys
      /\ Cardinality(Held) \in Nat
  BY <1>1, RecoveredOK, FS_Subset, FS_CardinalityType
<1>3. CASE Crash
  <2>1. /\ crashes < MaxCrashes /\ crashes' = crashes + 1
        /\ book' = <<>> /\ openPositions' = 0
        /\ pc' = "fetch1" /\ cur' = Nothing /\ exits' = {} /\ flattening' = {}
        /\ lost' = [s \in Symbols |->
                      IF EntriesResting(s, resting) # {} THEN {"orphan"} ELSE {}]
        /\ clean' = {} /\ guarded' = {}
        /\ UNCHANGED <<brokerVars, fresh, bootDrift>>
    BY <1>3 DEF Crash
  <2>2. book' \in [{} -> Position] /\ {} \in SUBSET Keys
    BY <2>1
  <2>3. BookOK'
    BY <2>1, <2>2 DEF BookOK
  <2>4. lost' \in [Symbols -> SUBSET Routes]
    BY <2>1 DEF Routes
  <2>5. crashes' \in 0..MaxCrashes
    BY <1>1, <2>1 DEF HistoryOK
  <2>6. BrokerOK' /\ HistoryOK'
    BY <1>1, <2>1, <2>4, <2>5 DEF BrokerOK, brokerVars, HistoryOK
  <2>7. WorkOK' /\ WhereInv'
    BY <1>1, <2>1 DEF WorkOK, WhereInv
  <2>8. QED
    BY <2>3, <2>6, <2>7 DEF TypeInv
<1>4. CASE FirstReconcile
  <2>1. /\ pc = "fetch1" /\ pc' = "fetch2" /\ bootDrift' = Cardinality(DOMAIN book')
        /\ \/ book' = Recovered /\ openPositions' = openPositions + Cardinality(Held)
           \/ UNCHANGED <<book, openPositions>>
        /\ UNCHANGED <<brokerVars, cur, exits, flattening, fresh, crashes, lost,
                       clean, guarded>>
    BY <1>4 DEF FirstReconcile
  <2>2. BookOK'
    BY <1>1, <1>2, <2>1 DEF BookOK
  <2>3. bootDrift' \in Int /\ fresh \intersect DOMAIN book' = {}
    <3>1. CASE book' = Recovered
      BY <1>1, <1>2, <2>1, <3>1 DEF WorkOK
    <3>2. CASE book' = book
      BY <1>1, <2>1, <3>2, FS_CardinalityType DEF DriftInv, WhereInv
    <3>3. QED
      BY <2>1, <3>1, <3>2
  <2>4. BrokerOK' /\ HistoryOK'
    BY <1>1, <2>1, <2>3 DEF BrokerOK, brokerVars, HistoryOK
  <2>5. WorkOK' /\ WhereInv'
    BY <1>1, <2>1, <2>3 DEF WorkOK, WhereInv
  <2>6. QED
    BY <2>2, <2>4, <2>5 DEF TypeInv
<1>5. CASE SecondReconcile
  <2>1. /\ pc = "fetch2" /\ pc' = "idle" /\ (book' = Recovered \/ book' = book)
        /\ bootDrift' = bootDrift - Cardinality(DOMAIN book')
        /\ lost' = [s \in Symbols |->
                IF net[s] # 0 /\ (\A k \in DOMAIN book' : book'[k].symbol # s)
                THEN lost[s] \union {"unseen"} ELSE lost[s]]
        /\ UNCHANGED <<brokerVars, openPositions, cur, exits, flattening, fresh, crashes,
                       clean, guarded>>
    BY <1>5 DEF SecondReconcile, BootEnds
  <2>2. BookOK'
    BY <1>1, <1>2, <2>1 DEF BookOK
  <2>3. Cardinality(DOMAIN book') \in Nat /\ fresh \intersect DOMAIN book' = {}
    <3>1. CASE book' = Recovered
      BY <1>1, <1>2, <3>1 DEF WorkOK
    <3>2. CASE book' = book
      BY <1>1, <3>2, FS_CardinalityType DEF DriftInv, WhereInv
    <3>3. QED
      BY <2>1, <3>1, <3>2
  <2>4. bootDrift' \in Int
    BY <1>1, <2>1, <2>3 DEF HistoryOK
  <2>5. lost' \in [Symbols -> SUBSET Routes]
    BY <1>1, <2>1 DEF HistoryOK, Routes
  <2>6. BrokerOK' /\ HistoryOK'
    BY <1>1, <2>1, <2>4, <2>5 DEF BrokerOK, brokerVars, HistoryOK
  <2>7. WorkOK' /\ WhereInv'
    BY <1>1, <2>1, <2>3 DEF WorkOK, WhereInv
  <2>8. QED
    BY <2>2, <2>6, <2>7 DEF TypeInv
<1>6. QED
  BY <1>3, <1>4, <1>5

\* What the broker does on its own.
LEMMA BrokerTypesKept ==
  ASSUME TypeInv, Broker
  PROVE  TypeInv'
<1>1. PICK o \in resting : BrokerFills(o) \/ BrokerTriggers(o)
  BY DEF Broker
<1>2. BrokerOK /\ o \in RestingOrders /\ UNCHANGED <<agentVars, crashes, history>>
  BY <1>1 DEF TypeInv, BrokerOK, BrokerFills, BrokerTriggers
<1>3. o.symbol \in Symbols /\ o.qty \in Nat /\ Sign(o.side) \in Int
  BY <1>2 DEF RestingOrders, Sign
<1>4. net[o.symbol] + Sign(o.side) * o.qty \in Int
  BY <1>2, <1>3 DEF BrokerOK
<1>5. BrokerOK'
  BY <1>1, <1>2, <1>3, <1>4 DEF BrokerOK, BrokerFills, BrokerTriggers
<1>6. BookOK' /\ WorkOK' /\ HistoryOK' /\ WhereInv'
  BY <1>2 DEF TypeInv, BookOK, WorkOK, HistoryOK, WhereInv, agentVars, history
<1>7. QED
  BY <1>5, <1>6 DEF TypeInv

-----------------------------------------------------------------------------
(* The drift of the counter *)

\* A counter that is too low stays at 0 and comes closer by it.
LEMMA CloseShrinks ==
  ASSUME NEW open \in Nat, NEW held \in Nat, held > 0, NEW open2, NEW bound \in Int,
         open2 = IF open > 0 THEN open - 1 ELSE 0,
         Abs(open - held) <= Abs(bound)
  PROVE  Abs(open2 - (held - 1)) <= Abs(bound)
  BY DEF Abs

\* Every step keeps counter and book as far apart as the startup left them,
\* or closer.
LEMMA DriftStep ==
  ASSUME IsFiniteSet(Symbols), TypeInv, TypeInv', DriftInv, [Next]_vars
  PROVE  DriftInv'
<1> USE LiveAssumption DEF LiveAssumption
<1> DEFINE held == Cardinality(DOMAIN book)
           out  == Cardinality(exits)
           held2 == Cardinality(DOMAIN book')
           out2  == Cardinality(exits')
<1>1. /\ WhereInv /\ BookOK /\ WorkOK /\ BrokerOK
      /\ IsFiniteSet(DOMAIN book) /\ IsFiniteSet(exits)
      /\ held \in Nat /\ out \in Nat /\ openPositions \in Nat /\ bootDrift \in Int
      /\ Booted => Abs(openPositions - held - out) <= Abs(bootDrift)
  BY FS_CardinalityType DEF TypeInv, DriftInv, CounterDriftBounded, BookOK, HistoryOK
<1>2. CASE UNCHANGED <<book, openPositions, exits, bootDrift>>
           /\ pc' # "fetch2" /\ (Booted' => Booted)
  BY <1>1, <1>2 DEF DriftInv, CounterDriftBounded
<1>3. ASSUME NEW s \in Setups, SendEntry(s) PROVE DriftInv'
  <2>1. /\ pc = "idle" /\ s \in fresh /\ bootDrift' = bootDrift /\ exits' = exits
        /\ \/ UNCHANGED <<openPositions, book, pc>>
           \/ /\ openPositions' = openPositions + 1 /\ pc' = "stop"
              /\ DOMAIN book' = (DOMAIN book) \union {s}
    BY <1>3 DEF SendEntry, EntryAcked
  <2>2. CASE UNCHANGED <<openPositions, book, pc>>
    BY <1>2, <2>1, <2>2 DEF Booted
  <2>3. CASE /\ openPositions' = openPositions + 1 /\ pc' = "stop"
             /\ DOMAIN book' = (DOMAIN book) \union {s}
    <3>1. s \notin DOMAIN book
      BY <1>1, <2>1 DEF WhereInv
    <3>2. IsFiniteSet(DOMAIN book') /\ held2 = held + 1
      BY <1>1, <2>3, <3>1, FS_AddElement
    <3>3. openPositions' - held2 - out2 = openPositions - held - out
      BY <1>1, <2>1, <2>3, <3>2
    <3>4. QED
      BY <1>1, <2>1, <2>3, <3>2, <3>3 DEF DriftInv, CounterDriftBounded, Booted
  <2>4. QED
    BY <2>1, <2>2, <2>3
<1>4. ASSUME NEW s \in Symbols, Tick(s) PROVE DriftInv'
  <2>1. PICK due \in SUBSET KeysOf(s) :
          /\ book' = Without(due)
          /\ exits' = {[symbol |-> s, key |-> k] : k \in due}
    BY <1>4 DEF Tick
  <2>2. pc = "idle" /\ pc' = "exits" /\ UNCHANGED <<openPositions, bootDrift>> /\ exits = {}
    BY <1>1, <1>4 DEF Tick, WhereInv, history
  <2>3. due \subseteq DOMAIN book /\ DOMAIN book' = (DOMAIN book) \ due
    BY <1>1, <2>1, WithoutOK DEF KeysOf
  <2>4. IsFiniteSet(due) /\ Cardinality(due) \in Nat
    BY <1>1, <2>3, FS_Subset, FS_CardinalityType
  <2>5. IsFiniteSet(exits') /\ out2 = Cardinality(due)
    <3> DEFINE f == [k \in due |-> [symbol |-> s, key |-> k]]
    <3>1. f \in Bijection(due, exits')
      <4>1. f \in [due -> exits']
        BY <2>1
      <4>2. \A i, j \in due : f[i] = f[j] => i = j
        OBVIOUS
      <4>3. \A e \in exits' : \E k \in due : f[k] = e
        BY <2>1
      <4>4. QED
        BY <4>1, <4>2, <4>3 DEF Bijection, Injection, Surjection, IsInjective
    <3>2. ExistsBijection(due, exits')
      BY <3>1 DEF ExistsBijection
    <3>3. QED
      BY <2>4, <3>2, FS_Bijection
  <2>6. IsFiniteSet(DOMAIN book') /\ held2 = held - Cardinality(due)
    <3>1. (DOMAIN book) \cap due = due
      BY <2>3
    <3>2. /\ IsFiniteSet((DOMAIN book) \ due)
          /\ Cardinality((DOMAIN book) \ due) = held - Cardinality((DOMAIN book) \cap due)
      BY <1>1, FS_Difference
    <3>3. QED
      BY <2>3, <3>1, <3>2
  <2>7. out = 0
    BY <2>2, FS_EmptySet
  <2>8. openPositions' - held2 - out2 = openPositions - held - out
    BY <1>1, <2>2, <2>4, <2>5, <2>6, <2>7
  <2>9. QED
    BY <1>1, <2>2, <2>5, <2>6, <2>8 DEF DriftInv, CounterDriftBounded, Booted
<1>5. ASSUME NEW e \in exits, BookExit(e) PROVE DriftInv'
  <2>1. /\ pc = "exits" /\ pc' \in {"idle", "exits"} /\ exits' = exits \ {e}
        /\ UNCHANGED <<book, bootDrift>> /\ CountClosed
    BY <1>5 DEF BookExit
  <2>2. IsFiniteSet(exits') /\ out2 = out - 1 /\ out2 \in Nat
    BY <1>1, <2>1, FS_RemoveElement, FS_CardinalityType
  <2>3. Abs(openPositions - (held + out)) <= Abs(bootDrift) /\ held + out \in Nat /\ held + out > 0
    BY <1>1, <2>1, <2>2 DEF Booted
  <2>4. Abs(openPositions' - ((held + out) - 1)) <= Abs(bootDrift)
    BY <1>1, <2>1, <2>3, CloseShrinks DEF CountClosed
  <2>5. openPositions' \in Nat
    BY DEF TypeInv, BookOK
  <2>6. openPositions' - held2 - out2 = openPositions' - ((held + out) - 1)
    BY <1>1, <2>1, <2>2, <2>5
  <2>7. QED
    BY <1>1, <2>1, <2>2, <2>4, <2>6 DEF DriftInv, CounterDriftBounded
<1>6. CASE FlatClose
  <2>1. /\ pc = "close" /\ pc' \in {"idle", "flat"} /\ book' = Without({cur})
        /\ UNCHANGED <<exits, bootDrift>> /\ CountClosed
    BY <1>6 DEF FlatClose
  <2>2. cur \in DOMAIN book
    BY <1>1, <2>1 DEF WhereInv, WorkOK
  <2>3. DOMAIN book' = (DOMAIN book) \ {cur}
    BY <1>1, <2>1, WithoutOK
  <2>4. IsFiniteSet(DOMAIN book') /\ held2 = held - 1 /\ held2 \in Nat
    BY <1>1, <2>2, <2>3, FS_RemoveElement, FS_CardinalityType
  <2>5. Abs(openPositions - (held + out)) <= Abs(bootDrift) /\ held + out \in Nat /\ held + out > 0
    BY <1>1, <2>1, <2>4 DEF Booted
  <2>6. Abs(openPositions' - ((held + out) - 1)) <= Abs(bootDrift)
    BY <1>1, <2>1, <2>5, CloseShrinks DEF CountClosed
  <2>7. openPositions' \in Nat
    BY DEF TypeInv, BookOK
  <2>8. openPositions' - held2 - out2 = openPositions' - ((held + out) - 1)
    BY <1>1, <2>1, <2>4, <2>7
  <2>9. QED
    BY <1>1, <2>1, <2>4, <2>6, <2>8 DEF DriftInv, CounterDriftBounded
<1>7. CASE Crash
  BY <1>1, <1>7, FS_EmptySet DEF Crash, DriftInv, CounterDriftBounded, Booted
<1>8. CASE FirstReconcile \/ SecondReconcile
  <2>1. /\ exits = {} /\ exits' = {} /\ out = 0 /\ out2 = 0
        /\ book' = Recovered \/ book' = book
    BY <1>1, <1>8, FS_EmptySet DEF WhereInv, FirstReconcile, SecondReconcile, BootEnds
  <2>2. IsFiniteSet(DOMAIN book') /\ held2 \in Nat /\ DOMAIN Recovered = Held
    BY <1>1, <2>1, RecoveredOK, FS_Subset, FS_CardinalityType
  <2>3. CASE FirstReconcile
    <3>1. pc = "fetch1" /\ pc' = "fetch2" /\ bootDrift' = held2
          /\ \/ book' = Recovered /\ openPositions' = openPositions + Cardinality(Held)
             \/ UNCHANGED <<book, openPositions>>
      BY <2>3 DEF FirstReconcile
    <3>2. openPositions = 0 /\ book = <<>> /\ held = 0
      BY <1>1, <3>1, FS_EmptySet DEF WhereInv
    <3>3. openPositions' = held2
      BY <2>2, <3>1, <3>2
    <3>4. QED
      BY <2>1, <2>2, <3>1, <3>3, FS_EmptySet DEF DriftInv, CounterDriftBounded, Booted
  <2>4. CASE SecondReconcile
    <3>1. pc = "fetch2" /\ pc' = "idle" /\ bootDrift' = bootDrift - held2
          /\ openPositions' = openPositions
      BY <2>4 DEF SecondReconcile, BootEnds
    <3>2. openPositions = bootDrift
      BY <3>1 DEF DriftInv
    <3>3. openPositions' - held2 - out2 = bootDrift' /\ bootDrift' \in Int
      BY <1>1, <2>1, <2>2, <3>1, <3>2
    <3>4. Abs(openPositions' - held2 - out2) <= Abs(bootDrift')
      BY <3>3 DEF Abs
    <3>5. QED
      BY <2>1, <2>2, <3>1, <3>4, FS_EmptySet DEF DriftInv, CounterDriftBounded
  <2>5. QED
    BY <1>8, <2>3, <2>4
<1>9. CASE UNCHANGED vars
  BY <1>1, <1>9 DEF vars, agentVars, history, DriftInv, CounterDriftBounded, Booted
<1>10. CASE PlaceStop \/ PlaceTarget \/ FlatAll \/ \E k \in Keys : FlatCancel(k)
  BY <1>2, <1>10 DEF PlaceStop, PlaceTarget, FlatAll, FlatCancel, history, Booted
<1>11. CASE Broker
  BY <1>1, <1>11 DEF Broker, BrokerFills, BrokerTriggers, agentVars, history, DriftInv,
                     CounterDriftBounded, Booted
<1>12. QED
  BY <1>3, <1>4, <1>5, <1>6, <1>7, <1>8, <1>9, <1>10, <1>11 DEF Next, Agent

-----------------------------------------------------------------------------
(* Lots, counted as the pairs of a holder and one of its lots *)

Units(f) == UNION {{k} \X (1..f[k]) : k \in DOMAIN f}

Total(f) == Cardinality(Units(f))

\* A lot has one holder, and its number is within what that holder has.
LEMMA UnitsMembers ==
  ASSUME NEW S, NEW f \in [S -> Nat]
  PROVE  \A u : u \in Units(f) <=> \E k \in S : u \in {k} \X (1..f[k])
  BY DEF Units

\* One holder has as many lots as it has.
LEMMA UnitsOfOne ==
  ASSUME NEW k, NEW n \in Nat
  PROVE  IsFiniteSet({k} \X (1..n)) /\ Cardinality({k} \X (1..n)) = n
<1>1. IsFiniteSet({k}) /\ Cardinality({k}) = 1
  BY FS_Singleton
<1>2. IsFiniteSet(1..n) /\ Cardinality(1..n) = n
  <2>1. 1 \in Int /\ n \in Int
    OBVIOUS
  <2>2. QED
    BY <2>1, FS_Interval
<1>3. /\ IsFiniteSet({k} \X (1..n))
      /\ Cardinality({k} \X (1..n)) = Cardinality({k}) * Cardinality(1..n)
  <2> DEFINE A == {k}
             B == 1..n
  <2>1. IsFiniteSet(A) /\ IsFiniteSet(B)
    BY <1>1, <1>2
  <2> HIDE DEF A, B
  <2>2. IsFiniteSet(A \X B) /\ Cardinality(A \X B) = Cardinality(A) * Cardinality(B)
    BY <2>1, FS_Product
  <2>3. QED
    BY <2>2 DEF A, B
<1>4. QED
  BY <1>1, <1>2, <1>3

\* Finitely many holders have finitely many lots.
LEMMA TotalNat ==
  ASSUME NEW S, IsFiniteSet(S), NEW f \in [S -> Nat]
  PROVE  IsFiniteSet(Units(f)) /\ Total(f) \in Nat
<1> DEFINE g == [k \in S |-> {k} \X (1..f[k])]
           T == {{k} \X (1..f[k]) : k \in S}
<1>1. g \in Surjection(S, T)
  <2>1. g \in [S -> T]
    OBVIOUS
  <2>2. \A t \in T : \E k \in S : g[k] = t
    OBVIOUS
  <2>3. QED
    BY <2>1, <2>2 DEF Surjection
<1>2. IsFiniteSet(T)
  BY <1>1, FS_Surjection
<1>3. \A t \in T : IsFiniteSet(t)
  <2>1. SUFFICES ASSUME NEW k \in S PROVE IsFiniteSet({k} \X (1..f[k]))
    OBVIOUS
  <2>2. f[k] \in Nat
    OBVIOUS
  <2>3. QED
    BY <2>2, UnitsOfOne
<1>4. IsFiniteSet(Units(f))
  BY <1>2, <1>3, FS_UNION DEF Units
<1>5. QED
  BY <1>4, FS_CardinalityType DEF Total

\* Taking a holder out takes its lots out.
LEMMA TotalSplit ==
  ASSUME NEW S, IsFiniteSet(S), NEW f \in [S -> Nat], NEW x \in S,
         NEW g \in [S \ {x} -> Nat], \A k \in S \ {x} : g[k] = f[k]
  PROVE  Total(f) = Total(g) + f[x] /\ Total(g) \in Nat
<1> DEFINE U == {x} \X (1..f[x])
<1>1. IsFiniteSet(S \ {x}) /\ f[x] \in Nat
  BY FS_RemoveElement
<1>2. IsFiniteSet(Units(g)) /\ Total(g) \in Nat /\ IsFiniteSet(U) /\ Cardinality(U) = f[x]
  BY <1>1, TotalNat, UnitsOfOne
<1>3. Units(f) = Units(g) \cup U
  <2>1. ASSUME NEW u, u \in Units(f) PROVE u \in Units(g) \cup U
    <3>1. PICK k \in S : u \in {k} \X (1..f[k])
      BY <2>1, UnitsMembers
    <3>2. CASE k = x
      BY <3>1, <3>2
    <3>3. CASE k # x
      BY <3>1, <3>3, UnitsMembers
    <3>4. QED
      BY <3>2, <3>3
  <2>2. ASSUME NEW u, u \in Units(g) \cup U PROVE u \in Units(f)
    BY <2>2, UnitsMembers
  <2>3. QED
    BY <2>1, <2>2
<1>4. Units(g) \cap U = {}
  <2>1. \A u \in Units(g) : u[1] # x
    BY UnitsMembers
  <2>2. \A u \in U : u[1] = x
    OBVIOUS
  <2>3. QED
    BY <2>1, <2>2
<1>5. Cardinality(Units(f)) = Cardinality(Units(g)) + Cardinality(U) - Cardinality({})
  BY <1>2, <1>3, <1>4, FS_Union
<1>6. QED
  BY <1>2, <1>5, FS_EmptySet DEF Total

\* Nobody holds nothing, and who holds nothing has only empty hands.
LEMMA TotalZero ==
  ASSUME NEW S, IsFiniteSet(S), NEW f \in [S -> Nat]
  PROVE  Total(f) = 0 <=> \A k \in S : f[k] = 0
<1>1. IsFiniteSet(Units(f))
  BY TotalNat
<1>2. Total(f) = 0 <=> Units(f) = {}
  BY <1>1, FS_EmptySet DEF Total
<1>3. ASSUME Units(f) = {}, NEW k \in S PROVE f[k] = 0
  <2>1. CASE f[k] > 0
    <3>1. 1 \in 1..f[k]
      BY <2>1
    <3>2. <<k, 1>> \in {k} \X (1..f[k])
      BY <3>1
    <3>3. <<k, 1>> \in Units(f)
      BY <3>2, UnitsMembers
    <3>4. QED
      BY <1>3, <3>3
  <2>2. QED
    BY <2>1
<1>4. ASSUME \A k \in S : f[k] = 0 PROVE Units(f) = {}
  <2>1. ASSUME NEW u \in Units(f) PROVE FALSE
    <3>1. PICK k \in S : u \in {k} \X (1..f[k])
      BY UnitsMembers
    <3>2. 1..f[k] = {}
      BY <1>4
    <3>3. QED
      BY <3>1, <3>2
  <2>2. QED
    BY <2>1
<1>5. QED
  BY <1>2, <1>3, <1>4

-----------------------------------------------------------------------------
(* What the book and the resting entries of a symbol add up to *)

Holders(b, s, side) == {k \in DOMAIN b : b[k].symbol = s /\ b[k].side = side}

Lots(b, s, side) == [k \in Holders(b, s, side) |-> Quantity(b[k].size)]

Waiting(r, s, side) == {o \in EntriesResting(s, r) : o.side = side}

Rests(r, s, side) == [o \in Waiting(r, s, side) |-> o.qty]

\* The part of a net position that is on a side.
Exposed(n, side) == IF Sign(side) * n > 0 THEN Sign(side) * n ELSE 0

\* A symbol is covered when, on either side, the book holds at least the lots
\* the broker has there, plus those that resting entries may still add.
Covered(n, r, b, s) ==
  \A side \in Sides :
    Exposed(n, side) + Total(Rests(r, s, side)) <= Total(Lots(b, s, side))

\* A book as TypeOK has it, and orders as RestInv has them.
SomeBook(b) ==
  /\ \E open \in SUBSET Keys : b \in [open -> Position]
  /\ IsFiniteSet(DOMAIN b)

SomeOrders(r) ==
  /\ r \subseteq RestingOrders /\ IsFiniteSet(r)
  /\ \A o \in r : ~o.closes => o.qty > 0

LEMMA LotsNat ==
  ASSUME NEW b, SomeBook(b), NEW s, NEW side
  PROVE  /\ IsFiniteSet(Holders(b, s, side))
         /\ Lots(b, s, side) \in [Holders(b, s, side) -> Nat]
         /\ Total(Lots(b, s, side)) \in Nat
<1>1. IsFiniteSet(Holders(b, s, side))
  <2>1. Holders(b, s, side) \in SUBSET (DOMAIN b)
    BY DEF Holders
  <2>2. QED
    BY <2>1, FS_Subset DEF SomeBook
<1>2. \A k \in Holders(b, s, side) : Quantity(b[k].size) \in Nat
  BY QuantityNat DEF SomeBook, Holders, Position
<1>3. Lots(b, s, side) \in [Holders(b, s, side) -> Nat]
  BY <1>2 DEF Lots
<1>4. QED
  BY <1>1, <1>3, TotalNat

LEMMA RestsNat ==
  ASSUME NEW r, SomeOrders(r), NEW s, NEW side
  PROVE  /\ IsFiniteSet(Waiting(r, s, side))
         /\ Rests(r, s, side) \in [Waiting(r, s, side) -> Nat]
         /\ Total(Rests(r, s, side)) \in Nat
<1>1. IsFiniteSet(Waiting(r, s, side))
  <2>1. Waiting(r, s, side) \in SUBSET r
    BY DEF Waiting, EntriesResting
  <2>2. QED
    BY <2>1, FS_Subset DEF SomeOrders
<1>2. \A o \in Waiting(r, s, side) : o.qty \in Nat
  BY DEF SomeOrders, Waiting, EntriesResting, RestingOrders
<1>3. Rests(r, s, side) \in [Waiting(r, s, side) -> Nat]
  BY <1>2 DEF Rests
<1>4. QED
  BY <1>1, <1>3, TotalNat

\* Two books that agree on a symbol's positions hold the same lots of it.
LEMMA LotsSame ==
  ASSUME NEW b, NEW c, NEW s,
         \A k : (k \in DOMAIN b /\ b[k].symbol = s) <=> (k \in DOMAIN c /\ c[k].symbol = s),
         \A k \in DOMAIN b : b[k].symbol = s => c[k] = b[k]
  PROVE  \A side : Lots(c, s, side) = Lots(b, s, side)
<1> SUFFICES ASSUME NEW side PROVE Lots(c, s, side) = Lots(b, s, side)
  OBVIOUS
<1>1. Holders(b, s, side) = Holders(c, s, side)
  BY DEF Holders
<1>2. \A k \in Holders(b, s, side) : c[k] = b[k]
  BY DEF Holders
<1>3. QED
  BY <1>1, <1>2 DEF Lots

\* A position taken off the book takes its lots along, and no others.
LEMMA LotsTaken ==
  ASSUME NEW b, SomeBook(b), NEW x \in DOMAIN b, NEW c, SomeBook(c),
         DOMAIN c = (DOMAIN b) \ {x}, \A k \in DOMAIN c : c[k] = b[k]
  PROVE  /\ Total(Lots(b, b[x].symbol, b[x].side))
              = Total(Lots(c, b[x].symbol, b[x].side)) + Quantity(b[x].size)
         /\ \A s, side : s # b[x].symbol \/ side # b[x].side =>
              Lots(c, s, side) = Lots(b, s, side)
<1>1. ASSUME NEW s, NEW side, s # b[x].symbol \/ side # b[x].side
      PROVE  Lots(c, s, side) = Lots(b, s, side)
  <2>1. Holders(c, s, side) = Holders(b, s, side)
    BY <1>1 DEF Holders
  <2>2. \A k \in Holders(b, s, side) : c[k] = b[k]
    BY <1>1 DEF Holders
  <2>3. QED
    BY <2>1, <2>2 DEF Lots
<1>2. Total(Lots(b, b[x].symbol, b[x].side))
        = Total(Lots(c, b[x].symbol, b[x].side)) + Quantity(b[x].size)
  <2> DEFINE S == Holders(b, b[x].symbol, b[x].side)
             f == Lots(b, b[x].symbol, b[x].side)
             g == Lots(c, b[x].symbol, b[x].side)
  <2>1. x \in S /\ Holders(c, b[x].symbol, b[x].side) = S \ {x}
    BY DEF Holders
  <2>2. /\ IsFiniteSet(S) /\ f \in [S -> Nat] /\ g \in [S \ {x} -> Nat]
    BY <2>1, LotsNat
  <2>3. \A k \in S \ {x} : g[k] = f[k]
    BY <2>1 DEF Lots, Holders
  <2>4. f[x] = Quantity(b[x].size)
    BY <2>1 DEF Lots
  <2> HIDE DEF S, f, g
  <2>5. Total(f) = Total(g) + f[x]
    BY <2>1, <2>2, <2>3, TotalSplit
  <2>6. QED
    BY <2>4, <2>5 DEF f, g
<1>3. QED
  BY <1>1, <1>2

\* An entry that leaves the broker's queue takes its lots along.
LEMMA RestsTaken ==
  ASSUME NEW r, SomeOrders(r), NEW o \in r
  PROVE  /\ ~o.closes => Total(Rests(r, o.symbol, o.side))
                           = Total(Rests(r \ {o}, o.symbol, o.side)) + o.qty
         /\ \A s, side : o.closes \/ s # o.symbol \/ side # o.side =>
              Rests(r \ {o}, s, side) = Rests(r, s, side)
         /\ SomeOrders(r \ {o})
<1>1. SomeOrders(r \ {o})
  BY FS_RemoveElement DEF SomeOrders
<1>2. ASSUME NEW s, NEW side, o.closes \/ s # o.symbol \/ side # o.side
      PROVE  Rests(r \ {o}, s, side) = Rests(r, s, side)
  <2>1. Waiting(r \ {o}, s, side) = Waiting(r, s, side)
    BY <1>2 DEF Waiting, EntriesResting
  <2>2. QED
    BY <2>1 DEF Rests
<1>3. ASSUME ~o.closes
      PROVE  Total(Rests(r, o.symbol, o.side)) = Total(Rests(r \ {o}, o.symbol, o.side)) + o.qty
  <2> DEFINE S == Waiting(r, o.symbol, o.side)
             f == Rests(r, o.symbol, o.side)
             g == Rests(r \ {o}, o.symbol, o.side)
  <2>1. o \in S /\ Waiting(r \ {o}, o.symbol, o.side) = S \ {o}
    BY <1>3 DEF Waiting, EntriesResting
  <2>2. IsFiniteSet(S) /\ f \in [S -> Nat] /\ g \in [S \ {o} -> Nat]
    BY <1>1, <2>1, RestsNat
  <2>3. (\A k \in S \ {o} : g[k] = f[k]) /\ f[o] = o.qty
    BY <2>1 DEF Rests
  <2> HIDE DEF S, f, g
  <2>4. Total(f) = Total(g) + f[o]
    BY <2>1, <2>2, <2>3, TotalSplit
  <2>5. QED
    BY <2>3, <2>4 DEF f, g
<1>4. QED
  BY <1>1, <1>2, <1>3

\* Where no entry waits, none adds anything; and only there.
LEMMA RestsNone ==
  ASSUME NEW r, SomeOrders(r), NEW s \in Symbols
  PROVE  EntriesResting(s, r) = {} <=> \A side \in Sides : Total(Rests(r, s, side)) = 0
<1>1. \A side \in Sides : Total(Rests(r, s, side)) = 0
         <=> \A o \in Waiting(r, s, side) : Rests(r, s, side)[o] = 0
  BY RestsNat, TotalZero
<1>2. \A side \in Sides : Total(Rests(r, s, side)) = 0 <=> Waiting(r, s, side) = {}
  BY <1>1 DEF SomeOrders, Rests, Waiting, EntriesResting
<1>3. EntriesResting(s, r) = {} <=> \A side \in Sides : Waiting(r, s, side) = {}
  BY DEF Waiting, EntriesResting, SomeOrders, RestingOrders
<1>4. QED
  BY <1>2, <1>3

\* A flat symbol on which no entry waits is covered by any book.
LEMMA FlatIsCovered ==
  ASSUME NEW r, SomeOrders(r), NEW b, SomeBook(b), NEW s \in Symbols, EntriesResting(s, r) = {}
  PROVE  Covered(0, r, b, s)
<1>1. \A side \in Sides : Total(Rests(r, s, side)) = 0 /\ Total(Lots(b, s, side)) \in Nat
  BY RestsNone, LotsNat
<1>2. \A side \in Sides : Exposed(0, side) = 0
  BY DEF Exposed, Sides, Sign
<1>3. QED
  BY <1>1, <1>2 DEF Covered

\* A symbol that is not on the book is covered only if it is flat and no
\* entry waits.
LEMMA EmptyCover ==
  ASSUME NEW r, SomeOrders(r), NEW b, SomeBook(b), NEW s \in Symbols, NEW n \in Int,
         \A k \in DOMAIN b : b[k].symbol # s,
         Covered(n, r, b, s)
  PROVE  n = 0 /\ EntriesResting(s, r) = {}
<1>1. ASSUME NEW side \in Sides
      PROVE  Total(Lots(b, s, side)) = 0 /\ Total(Rests(r, s, side)) \in Nat
  <2>1. Holders(b, s, side) = {}
    BY DEF Holders
  <2>2. Total(Lots(b, s, side)) = 0
    BY <2>1, LotsNat, TotalZero
  <2>3. QED
    BY <2>2, RestsNat
<1>2. ASSUME NEW side \in Sides
      PROVE  Exposed(n, side) = 0 /\ Total(Rests(r, s, side)) = 0
  <2>1. Exposed(n, side) + Total(Rests(r, s, side)) <= 0
    BY <1>1 DEF Covered
  <2>2. Exposed(n, side) \in Nat
    BY DEF Exposed, Sign
  <2>3. QED
    BY <1>1, <2>1, <2>2
<1>3. n = 0
  BY <1>2 DEF Exposed, Sides, Sign
<1>4. QED
  BY <1>2, <1>3, RestsNone

\* An order joins the queue: an entry adds at most its lots to its side, a
\* protective order none.
LEMMA RestsJoined ==
  ASSUME NEW r, SomeOrders(r), NEW w \in RestingOrders, ~w.closes => w.qty > 0
  PROVE  /\ SomeOrders(r \union {w})
         /\ ~w.closes => Total(Rests(r \union {w}, w.symbol, w.side))
                           <= Total(Rests(r, w.symbol, w.side)) + w.qty
         /\ \A s, side : w.closes \/ s # w.symbol \/ side # w.side =>
              Rests(r \union {w}, s, side) = Rests(r, s, side)
<1>1. SomeOrders(r \union {w})
  BY FS_AddElement DEF SomeOrders
<1>2. /\ Total(Rests(r, w.symbol, w.side)) \in Nat /\ w.qty \in Nat
      /\ Total(Rests(r \union {w}, w.symbol, w.side)) \in Nat
  BY <1>1, RestsNat DEF RestingOrders
<1>3. CASE w \in r
  <2> DEFINE r2 == r \union {w}
  <2>1. r2 = r
    BY <1>3
  <2>2. SomeOrders(r2) /\ Total(Rests(r2, w.symbol, w.side)) \in Nat
    BY <1>1, <1>2
  <2> HIDE DEF r2
  <2>3. /\ Total(Rests(r2, w.symbol, w.side)) <= Total(Rests(r, w.symbol, w.side)) + w.qty
        /\ \A s, side : Rests(r2, s, side) = Rests(r, s, side)
    BY <1>2, <2>1
  <2>4. QED
    BY <2>2, <2>3 DEF r2
<1>4. CASE w \notin r
  <2>1. (r \union {w}) \ {w} = r /\ w \in r \union {w}
    <3>1. \A o : o \in (r \union {w}) \ {w} <=> o \in r
      BY <1>4
    <3>2. QED
      BY <3>1
  <2>2. /\ ~w.closes => Total(Rests(r \union {w}, w.symbol, w.side))
                          = Total(Rests((r \union {w}) \ {w}, w.symbol, w.side)) + w.qty
        /\ \A s, side : w.closes \/ s # w.symbol \/ side # w.side =>
             Rests((r \union {w}) \ {w}, s, side) = Rests(r \union {w}, s, side)
    BY <1>1, <2>1, RestsTaken
  <2>3. QED
    BY <1>1, <1>2, <2>1, <2>2
<1>5. QED
  BY <1>3, <1>4

\* Buying raises what is exposed on the long side by no more, and never what
\* is exposed on the short side; and the other way round.
LEMMA ExposedAdds ==
  ASSUME NEW n \in Int, NEW q \in Nat, NEW side \in Sides
  PROVE  /\ n + Sign(side) * q \in Int
         /\ Exposed(n + Sign(side) * q, side) <= Exposed(n, side) + q
         /\ Exposed(n + Sign(side) * q, Opposite(side)) <= Exposed(n, Opposite(side))
<1>1. CASE side = "Long"
  BY <1>1 DEF Exposed, Sign, Opposite
<1>2. CASE side = "Short"
  BY <1>2 DEF Exposed, Sign, Opposite
<1>3. QED
  BY <1>1, <1>2 DEF Sides

\* A reduce-only order takes its quantity off the side it closes, or all.
LEMMA ExposedShrinks ==
  ASSUME NEW n \in Int, NEW q \in Nat, NEW side \in Sides, n * Sign(Opposite(side)) < 0,
         NEW t, t = IF q > Abs(n) THEN Abs(n) ELSE q
  PROVE  /\ n + Sign(Opposite(side)) * t \in Int
         /\ Exposed(n + Sign(Opposite(side)) * t, Opposite(side)) = 0
         /\ \/ Exposed(n + Sign(Opposite(side)) * t, side) = 0
            \/ Exposed(n + Sign(Opposite(side)) * t, side) = Exposed(n, side) - q
         /\ q > 0 => n + Sign(Opposite(side)) * t # n
<1>1. CASE side = "Long"
  <2>1. Opposite(side) = "Short" /\ Sign(Opposite(side)) = -1 /\ Sign(side) = 1 /\ n > 0
    BY <1>1 DEF Sign, Opposite
  <2>2. Abs(n) = n /\ t \in Nat /\ t <= n /\ t <= q /\ (t = n \/ t = q)
    BY <2>1 DEF Abs
  <2>3. n + Sign(Opposite(side)) * t = n - t
    BY <2>1, <2>2
  <2>4. /\ Exposed(n - t, Opposite(side)) = 0 /\ Exposed(n, side) = n
        /\ Exposed(n - t, side) = n - t
    BY <2>1, <2>2 DEF Exposed
  <2>5. QED
    BY <2>1, <2>2, <2>3, <2>4
<1>2. CASE side = "Short"
  <2>1. Opposite(side) = "Long" /\ Sign(Opposite(side)) = 1 /\ Sign(side) = -1 /\ n < 0
    BY <1>2 DEF Sign, Opposite
  <2>2. Abs(n) = -n /\ t \in Nat /\ t <= -n /\ t <= q /\ (t = -n \/ t = q)
    BY <2>1 DEF Abs
  <2>3. n + Sign(Opposite(side)) * t = n + t
    BY <2>1, <2>2
  <2>4. /\ Exposed(n + t, Opposite(side)) = 0 /\ Exposed(n, side) = -n
        /\ Exposed(n + t, side) = -(n + t)
    BY <2>1, <2>2 DEF Exposed
  <2>5. QED
    BY <2>1, <2>2, <2>3, <2>4
<1>3. QED
  BY <1>1, <1>2 DEF Sides

\* What is exposed, waiting and held are numbers.
LEMMA CoverTypes ==
  ASSUME NEW r, SomeOrders(r), NEW b, SomeBook(b), NEW s
  PROVE  \A side \in Sides : /\ Total(Rests(r, s, side)) \in Nat
                             /\ Total(Lots(b, s, side)) \in Nat
                             /\ \A n \in Int : Exposed(n, side) \in Nat
  BY RestsNat, LotsNat DEF Exposed, Sign, Sides

\* An acknowledged entry is covered by the position it is booked as, whether
\* it filled at once or rests.
LEMMA EntryCovered ==
  ASSUME NEW r, SomeOrders(r), NEW b, SomeBook(b), NEW c, SomeBook(c), NEW x,
         x \notin DOMAIN b, DOMAIN c = (DOMAIN b) \union {x}, \A k \in DOMAIN b : c[k] = b[k],
         NEW n \in Int, Covered(n, r, b, c[x].symbol)
  PROVE  /\ Covered(n + Sign(c[x].side) * Quantity(c[x].size), r, c, c[x].symbol)
         /\ \A w \in RestingOrders :
              /\ w.symbol = c[x].symbol /\ w.side = c[x].side /\ ~w.closes
              /\ w.qty = Quantity(c[x].size) /\ w.qty > 0
              => Covered(n, r \union {w}, c, c[x].symbol)
<1> DEFINE s == c[x].symbol
           d == c[x].side
           q == Quantity(c[x].size)
           L(side) == Total(Lots(b, s, side))
           R(side) == Total(Rests(r, s, side))
<1>1. x \in DOMAIN c /\ DOMAIN b = (DOMAIN c) \ {x} /\ \A k \in DOMAIN b : b[k] = c[k]
  OBVIOUS
<1>2. /\ Total(Lots(c, s, d)) = Total(Lots(b, s, d)) + q
      /\ \A side : side # d => Lots(b, s, side) = Lots(c, s, side)
  <2>1. Total(Lots(c, c[x].symbol, c[x].side))
          = Total(Lots(b, c[x].symbol, c[x].side)) + Quantity(c[x].size)
    BY ONLY SomeBook(b), SomeBook(c), <1>1, LotsTaken
  <2>2. \A s2, side : s2 # c[x].symbol \/ side # c[x].side =>
          Lots(b, s2, side) = Lots(c, s2, side)
    BY ONLY SomeBook(b), SomeBook(c), <1>1, LotsTaken
  <2>3. QED
    BY <2>1, <2>2
<1>3. d \in Sides /\ q \in Nat /\ s \in Symbols
  <2>1. c[x] \in Position
    BY <1>1 DEF SomeBook
  <2>2. QED
    BY <2>1, QuantityNat DEF Position
<1>4. \A side \in Sides : L(side) \in Nat /\ R(side) \in Nat /\ \A m \in Int : Exposed(m, side) \in Nat
  BY CoverTypes
<1>5. \A side \in Sides : Exposed(n, side) + R(side) <= L(side)
  BY DEF Covered
<1>6. Covered(n + Sign(d) * q, r, c, s)
  <2>1. n + Sign(d) * q \in Int /\ Opposite(d) \in Sides /\ Opposite(d) # d
        /\ \A side \in Sides : side = d \/ side = Opposite(d)
    BY <1>3, ExposedAdds DEF Sides, Opposite
  <2>2. /\ Exposed(n + Sign(d) * q, d) <= Exposed(n, d) + q
        /\ Exposed(n + Sign(d) * q, Opposite(d)) <= Exposed(n, Opposite(d))
    BY <1>3, ExposedAdds
  <2>3. Exposed(n + Sign(d) * q, d) + R(d) <= Total(Lots(c, s, d))
    <3>1. Exposed(n + Sign(d) * q, d) \in Nat /\ Exposed(n, d) \in Nat /\ L(d) \in Nat /\ R(d) \in Nat
      BY <1>3, <1>4, <2>1
    <3>2. Exposed(n, d) + R(d) <= L(d)
      BY <1>3, <1>5
    <3>3. QED
      BY <1>2, <1>3, <2>2, <3>1, <3>2
  <2>4. Exposed(n + Sign(d) * q, Opposite(d)) + R(Opposite(d)) <= Total(Lots(c, s, Opposite(d)))
    <3>1. /\ Exposed(n + Sign(d) * q, Opposite(d)) \in Nat /\ Exposed(n, Opposite(d)) \in Nat
          /\ L(Opposite(d)) \in Nat /\ R(Opposite(d)) \in Nat
      BY <1>4, <2>1
    <3>2. Exposed(n, Opposite(d)) + R(Opposite(d)) <= L(Opposite(d))
      BY <1>5, <2>1
    <3>3. L(Opposite(d)) = Total(Lots(c, s, Opposite(d)))
      BY <1>2, <2>1
    <3>4. QED
      BY <2>2, <3>1, <3>2, <3>3
  <2>5. QED
    BY <2>1, <2>3, <2>4 DEF Covered
<1>7. ASSUME NEW w \in RestingOrders, w.symbol = s, w.side = d, ~w.closes, w.qty = q, w.qty > 0
      PROVE  Covered(n, r \union {w}, c, s)
  <2>1. /\ Total(Rests(r \union {w}, s, d)) <= R(d) + q
        /\ \A side : side # d => Rests(r \union {w}, s, side) = Rests(r, s, side)
        /\ SomeOrders(r \union {w})
    BY <1>7, RestsJoined
  <2>2. ASSUME NEW side \in Sides
        PROVE  Exposed(n, side) + Total(Rests(r \union {w}, s, side)) <= Total(Lots(c, s, side))
    <3>1. /\ Exposed(n, side) \in Nat /\ L(side) \in Nat /\ R(side) \in Nat
          /\ Total(Rests(r \union {w}, s, side)) \in Nat
          /\ Exposed(n, side) + R(side) <= L(side)
      BY <1>4, <1>5, <2>1, CoverTypes
    <3>2. CASE side = d
      BY <1>2, <1>3, <2>1, <3>1, <3>2
    <3>3. CASE side # d
      BY <1>2, <2>1, <3>1, <3>3
    <3>4. QED
      BY <3>2, <3>3
  <2>3. QED
    BY <2>2 DEF Covered
<1>8. QED
  BY <1>6, <1>7

\* An entry that fills moves its lots from waiting to exposed.
LEMMA FillCovered ==
  ASSUME NEW r, SomeOrders(r), NEW b, SomeBook(b), NEW o \in r, ~o.closes,
         NEW n \in Int, Covered(n, r, b, o.symbol)
  PROVE  Covered(n + Sign(o.side) * o.qty, r \ {o}, b, o.symbol)
<1>1. o.side \in Sides /\ o.qty \in Nat
  BY DEF SomeOrders, RestingOrders
<1>2. /\ Total(Rests(r, o.symbol, o.side)) = Total(Rests(r \ {o}, o.symbol, o.side)) + o.qty
      /\ \A side : side # o.side => Rests(r \ {o}, o.symbol, side) = Rests(r, o.symbol, side)
      /\ SomeOrders(r \ {o})
  BY RestsTaken
<1>3. SUFFICES ASSUME NEW side \in Sides
               PROVE  Exposed(n + Sign(o.side) * o.qty, side)
                        + Total(Rests(r \ {o}, o.symbol, side)) <= Total(Lots(b, o.symbol, side))
  BY DEF Covered
<1>4. n + Sign(o.side) * o.qty \in Int
      /\ Exposed(n + Sign(o.side) * o.qty, o.side) <= Exposed(n, o.side) + o.qty
      /\ Exposed(n + Sign(o.side) * o.qty, Opposite(o.side)) <= Exposed(n, Opposite(o.side))
  BY <1>1, ExposedAdds
<1>5. /\ Exposed(n, side) \in Nat /\ Exposed(n + Sign(o.side) * o.qty, side) \in Nat
      /\ Total(Lots(b, o.symbol, side)) \in Nat /\ Total(Rests(r, o.symbol, side)) \in Nat
      /\ Total(Rests(r \ {o}, o.symbol, side)) \in Nat
      /\ Exposed(n, side) + Total(Rests(r, o.symbol, side)) <= Total(Lots(b, o.symbol, side))
  BY <1>2, <1>4, CoverTypes DEF Covered
<1>6. CASE side = o.side
  BY <1>1, <1>2, <1>4, <1>5, <1>6
<1>7. CASE side # o.side
  <2>1. side = Opposite(o.side) /\ Rests(r \ {o}, o.symbol, side) = Rests(r, o.symbol, side)
    BY <1>1, <1>2, <1>7 DEF Sides, Opposite
  <2>2. QED
    BY <1>4, <1>5, <2>1
<1>8. QED
  BY <1>6, <1>7

\* Closing a position of a symbol on which no entry waits leaves what is left
\* covered by the positions that are left.
LEMMA CloseCovered ==
  ASSUME NEW r, SomeOrders(r), NEW b, SomeBook(b), NEW c, SomeBook(c), NEW x \in DOMAIN b,
         DOMAIN c = (DOMAIN b) \ {x}, \A k \in DOMAIN c : c[k] = b[k],
         NEW n \in Int, Covered(n, r, b, b[x].symbol), EntriesResting(b[x].symbol, r) = {},
         n * Sign(Opposite(b[x].side)) < 0,
         NEW t, t = IF Quantity(b[x].size) > Abs(n) THEN Abs(n) ELSE Quantity(b[x].size)
  PROVE  Covered(n + Sign(Opposite(b[x].side)) * t, r, c, b[x].symbol)
<1> DEFINE s == b[x].symbol
           d == b[x].side
           q == Quantity(b[x].size)
           m == n + Sign(Opposite(d)) * t
<1>1. d \in Sides /\ q \in Nat /\ s \in Symbols
  <2>1. b[x] \in Position
    BY DEF SomeBook
  <2>2. QED
    BY <2>1, QuantityNat DEF Position
<1>2. /\ m \in Int /\ Exposed(m, Opposite(d)) = 0
      /\ Exposed(m, d) = 0 \/ Exposed(m, d) = Exposed(n, d) - q
  BY <1>1, ExposedShrinks
<1>3. \A side \in Sides : Total(Rests(r, s, side)) = 0
  BY <1>1, RestsNone
<1>4. Total(Lots(b, s, d)) = Total(Lots(c, s, d)) + q
  BY LotsTaken
<1> HIDE DEF m
<1>5. ASSUME NEW side \in Sides
      PROVE  Exposed(m, side) + Total(Rests(r, s, side)) <= Total(Lots(c, s, side))
  <2>1. /\ Total(Lots(c, s, side)) \in Nat /\ Total(Lots(b, s, side)) \in Nat
        /\ Exposed(n, side) \in Nat /\ Exposed(m, side) \in Nat
        /\ Exposed(n, side) + Total(Rests(r, s, side)) <= Total(Lots(b, s, side))
    BY <1>2, CoverTypes DEF Covered
  <2>2. CASE side = d
    BY <1>1, <1>2, <1>3, <1>4, <2>1, <2>2
  <2>3. CASE side # d
    <3>1. side = Opposite(d)
      BY <1>1, <2>3 DEF Sides, Opposite
    <3>2. QED
      BY <1>2, <1>3, <2>1, <3>1
  <2>4. QED
    BY <2>2, <2>3
<1>6. QED
  BY <1>5 DEF Covered, m

\* Without an entry waiting, or with nothing exposed, a covered symbol stays
\* covered.
LEMMA CoverLess ==
  ASSUME NEW r, SomeOrders(r), NEW q, SomeOrders(q), NEW b, SomeBook(b), NEW s \in Symbols,
         NEW n \in Int, Covered(n, r, b, s)
  PROVE  /\ EntriesResting(s, q) = {} => Covered(n, q, b, s)
         /\ Covered(0, r, b, s)
<1>1. \A side \in Sides : /\ Exposed(n, side) + Total(Rests(r, s, side)) <= Total(Lots(b, s, side))
                          /\ Total(Rests(r, s, side)) \in Nat /\ Total(Lots(b, s, side)) \in Nat
                          /\ Exposed(n, side) \in Nat
                          /\ Exposed(0, side) = 0
  BY CoverTypes DEF Covered, Exposed, Sign, Sides
<1>2. EntriesResting(s, q) = {} => \A side \in Sides : Total(Rests(q, s, side)) = 0
  BY RestsNone
<1>3. QED
  BY <1>1, <1>2 DEF Covered

\* What the fetch of open positions puts on the book covers what the broker
\* holds.
LEMMA RecoveredCovered ==
  ASSUME BrokerOK, SomeBook(Recovered), SomeOrders(resting), NEW s \in Symbols,
         EntriesResting(s, resting) = {}
  PROVE  Covered(net[s], resting, Recovered, s)
<1>1. net[s] \in Int
  BY DEF BrokerOK
<1>2. CASE net[s] = 0
  BY <1>2, FlatIsCovered
<1>3. CASE net[s] # 0
  <2> DEFINE b == Recovered
             a == Abs(net[s])
             c == [k \in (DOMAIN b) \ {s} |-> b[k]]
  <2>1. /\ s \in DOMAIN b /\ b[s].symbol = s /\ b[s].size = a * Lot
        /\ b[s].side = IF net[s] > 0 THEN "Long" ELSE "Short"
    BY <1>3 DEF Recovered, Held
  <2>2. a \in Nat /\ Lot \in Nat \ {0}
    BY <1>1, LiveAssumption DEF Abs, LiveAssumption
  <2>3. Quantity(b[s].size) = a
    <3>1. \A x \in Nat, l \in Nat \ {0} : (x * l) \div l = x
      OBVIOUS
    <3>2. QED
      BY <2>1, <2>2, <3>1 DEF Quantity
  <2>4. SomeBook(c)
    <3>1. PICK open \in SUBSET Keys : b \in [open -> Position]
      BY DEF SomeBook
    <3>2. c \in [open \ {s} -> Position] /\ open \ {s} \in SUBSET Keys
      BY <3>1
    <3>3. IsFiniteSet(DOMAIN c)
      BY FS_RemoveElement DEF SomeBook
    <3>4. QED
      BY <3>2, <3>3 DEF SomeBook
  <2>5. DOMAIN c = (DOMAIN b) \ {s} /\ \A k \in DOMAIN c : c[k] = b[k]
    OBVIOUS
  <2> HIDE DEF b, c
  <2>6. Total(Lots(b, b[s].symbol, b[s].side)) = Total(Lots(c, b[s].symbol, b[s].side)) + Quantity(b[s].size)
    BY ONLY <2>1, <2>4, <2>5, SomeBook(Recovered), LotsTaken DEF b
  <2>7. \A side \in Sides : /\ Total(Lots(b, s, side)) \in Nat /\ Total(Lots(c, s, side)) \in Nat
                            /\ Total(Rests(resting, s, side)) = 0
    BY <2>4, CoverTypes, RestsNone DEF b
  <2>8. ASSUME NEW side \in Sides
        PROVE  Exposed(net[s], side) + Total(Rests(resting, s, side)) <= Total(Lots(b, s, side))
    <3>1. CASE side = b[s].side
      <4>1. Exposed(net[s], side) = a
        BY <1>1, <1>3, <2>1, <3>1 DEF Exposed, Sign, Abs
      <4>2. Total(Lots(b, s, side)) = Total(Lots(c, s, side)) + a
        BY <2>1, <2>3, <2>6, <3>1
      <4>3. QED
        BY <2>2, <2>7, <4>1, <4>2
    <3>2. CASE side # b[s].side
      <4>1. Exposed(net[s], side) = 0
        BY <1>1, <1>3, <2>1, <3>2 DEF Exposed, Sign, Sides
      <4>2. QED
        BY <2>7, <4>1
    <3>3. QED
      BY <3>1, <3>2
  <2>9. QED
    BY <2>8 DEF Covered, b
<1>4. QED
  BY <1>2, <1>3

\* How a request ends at the broker.
LEMMA PlaceEffect ==
  ASSUME BrokerOK, NEW r \in Requests, NEW outcome \in Outcomes, PlaceOrder(r, outcome)
  PROVE  /\ outcome = "refused" => net' = net /\ resting' = resting
         /\ outcome # "refused" /\ r.type = "Market" =>
              /\ resting' = resting /\ Quantity(r.size) > 0
              /\ r.reduceOnly => net[r.symbol] * Sign(r.side) < 0
              /\ net' = [net EXCEPT ![r.symbol] = @ + Sign(r.side) *
                           (IF r.reduceOnly /\ Quantity(r.size) > Abs(net[r.symbol])
                            THEN Abs(net[r.symbol]) ELSE Quantity(r.size))]
         /\ outcome # "refused" /\ r.type # "Market" =>
              /\ net' = net
              /\ \E w \in RestingOrders :
                   /\ resting' = resting \union {w}
                   /\ w.symbol = r.symbol /\ w.side = r.side
                   /\ w.closes <=> Protective(r.type)
                   /\ ~w.closes => w.qty = Quantity(r.size) /\ w.qty > 0
<1> DEFINE w == WireOrder(r)
<1>1. /\ w.symbol = r.symbol /\ w.side = r.side /\ w.type = r.type
      /\ w.closes <=> Protective(r.type)
      /\ w.qty = IF Protective(r.type) THEN 0 ELSE Quantity(r.size)
      /\ w.reduceOnly <=> r.reduceOnly /\ ~Protective(r.type)
  BY DEF WireOrder
<1>2. r.type # "Market" => w \in RestingOrders
  BY WireOrderOK
<1>3. CASE outcome = "refused"
  <2>1. UNCHANGED brokerVars
    BY <1>3 DEF PlaceOrder
  <2>2. QED
    BY <1>3, <2>1 DEF brokerVars
<1>4. CASE outcome # "refused"
  <2>1. Takes(w)
    BY <1>4 DEF PlaceOrder, Outcomes
  <2> HIDE DEF w
  <2>2. CASE r.type = "Market"
    <3>1. ~Protective(r.type)
      BY <2>2 DEF Protective
    <3>2. w.qty > 0 /\ (w.reduceOnly => Reduces(w)) /\ resting' = resting
          /\ net' = [net EXCEPT ![w.symbol] = @ + Sign(w.side) * Traded(w)]
      BY <1>1, <2>1, <2>2, <3>1 DEF Takes, Acceptable
    <3>3. w.qty = Quantity(r.size) /\ (w.reduceOnly <=> r.reduceOnly)
      BY <1>1, <3>1
    <3>4. Traded(w) = IF r.reduceOnly /\ Quantity(r.size) > Abs(net[r.symbol])
                      THEN Abs(net[r.symbol]) ELSE Quantity(r.size)
      BY <1>1, <3>3 DEF Traded
    <3>5. QED
      BY <1>1, <1>4, <2>2, <3>2, <3>3, <3>4 DEF Reduces
  <2>3. CASE r.type # "Market"
    <3>1. Acceptable(w) /\ resting' = resting \union {w} /\ net' = net
      BY <1>1, <2>1, <2>3 DEF Takes
    <3>2. ~w.closes => w.qty = Quantity(r.size) /\ w.qty > 0
      BY <1>1, <3>1 DEF Acceptable
    <3>3. QED
      BY <1>1, <1>2, <1>4, <2>3, <3>1, <3>2
  <2>4. QED
    BY <2>2, <2>3
<1>5. QED
  BY <1>3, <1>4

-----------------------------------------------------------------------------
(* What the agent tracks covers what the broker holds *)

NoEntry(s) == EntriesResting(s, resting) = {}

CoveredNow(s) == Covered(net[s], resting, book, s)

\* As long as the agent has not lost track of a symbol: while it is up and
\* owes no exit of it, the symbol is covered; while it starts, no entry
\* waits, and what the book already has of it covers it; and between the two
\* calls of a flat-all no entry waits.
ExposureInv ==
  \A s \in Symbols : lost[s] = {} =>
    /\ Booted /\ (\A e \in exits : e.symbol # s) => CoveredNow(s)
    /\ ~Booted => NoEntry(s) /\ (KeysOf(s) = {} \/ CoveredNow(s))
    /\ pc = "close" /\ book[cur].symbol = s => NoEntry(s)

\* What a flat-all promised to close it is still closing.
CleanInv ==
  /\ \A s \in clean : KeysOf(s) \subseteq flattening
  /\ ~Booted => clean = {}

TrackInv == SomeOrders(resting) /\ ExposureInv /\ CleanInv

\* What a step starts from and ends in.
StepFacts ==
  /\ BrokerOK /\ WorkOK /\ HistoryOK /\ WhereInv
  /\ SomeBook(book) /\ SomeOrders(resting) /\ ExposureInv /\ CleanInv

LEMMA StepFactsHold ==
  ASSUME TypeInv, DriftInv, TrackInv
  PROVE  StepFacts
  BY DEF TypeInv, DriftInv, TrackInv, StepFacts, SomeBook, BookOK

\* A symbol of which nothing changed is tracked as before.
LEMMA CoverFrame ==
  ASSUME NEW s, CoveredNow(s), net'[s] = net[s],
         \A side : Rests(resting', s, side) = Rests(resting, s, side),
         \A side : Lots(book', s, side) = Lots(book, s, side)
  PROVE  CoveredNow(s)'
  BY DEF CoveredNow, Covered

\* The routes by which the agent loses track only add up.
LEMMA LostGrows ==
  ASSUME HistoryOK, NEW symbol \in Symbols, NEW route, NEW when, Remember(symbol, route, when)
  PROVE  /\ \A s \in Symbols : lost'[s] = {} => lost[s] = {}
         /\ when => lost'[symbol] # {}
<1>1. CASE when
  BY <1>1 DEF Remember, HistoryOK
<1>2. CASE ~when
  BY <1>2 DEF Remember
<1>3. QED
  BY <1>1, <1>2

\* An entry, however it ends.
LEMMA EntryTracked ==
  ASSUME StepFacts, SomeBook(book'), NEW s \in Setups, SendEntry(s)
  PROVE  TrackInv'
<1> USE LiveAssumption DEF LiveAssumption
<1> DEFINE x == SymbolOf[s]
           d == SideOf[s]
           q == Quantity(SizeOf[s])
<1>1. PICK type \in EntryTypes(s), outcome \in Outcomes :
        /\ PlaceOrder(EntryRequest(s, type), outcome)
        /\ IF outcome = "ok" THEN EntryAcked(s, type)
           ELSE UNCHANGED <<openPositions, book, cur, pc>>
        /\ Remember(x, "timeout", outcome = "lost")
  BY DEF SendEntry
<1>2. /\ pc = "idle" /\ s \in fresh /\ clean' = clean \ {x} /\ exits = {}
      /\ UNCHANGED <<exits, flattening, crashes, bootDrift, guarded>>
      /\ s \notin DOMAIN book /\ x \in Symbols /\ d \in Sides /\ SizeOf[s] \in Nat
  BY DEF SendEntry, StepFacts, WhereInv, Sides
<1>3. /\ EntryRequest(s, type) \in Requests /\ type \in {"Market", "Limit"}
      /\ EntryRequest(s, type).symbol = x /\ EntryRequest(s, type).side = d
      /\ EntryRequest(s, type).size = SizeOf[s] /\ EntryRequest(s, type).type = type
      /\ EntryRequest(s, type).reduceOnly = FALSE
  BY RequestsOK DEF EntryRequest, Request, EntryTypes, EntryType
<1>4. q \in Nat
  BY <1>2, QuantityNat
<1> HIDE DEF q
<1>5. \/ outcome = "refused" /\ net' = net /\ resting' = resting
      \/ /\ outcome # "refused" /\ resting' = resting /\ q > 0
         /\ net' = [net EXCEPT ![x] = @ + Sign(d) * q]
      \/ /\ outcome # "refused" /\ net' = net
         /\ \E w \in RestingOrders :
              /\ resting' = resting \union {w} /\ w.symbol = x /\ w.side = d
              /\ ~w.closes /\ w.qty = q /\ w.qty > 0
  BY <1>1, <1>3, PlaceEffect DEF StepFacts, Protective, q
<1>6. SomeOrders(resting')
      /\ \A t, side : t # x => Rests(resting', t, side) = Rests(resting, t, side)
  <2>1. SomeOrders(resting)
    BY DEF StepFacts
  <2>2. ASSUME NEW w \in RestingOrders, resting' = resting \union {w}, w.symbol = x,
               ~w.closes, w.qty > 0
        PROVE  SomeOrders(resting')
               /\ \A t, side : t # x => Rests(resting', t, side) = Rests(resting, t, side)
    BY <2>1, <2>2, RestsJoined
  <2>3. QED
    BY <1>5, <2>1, <2>2
<1>7. \A t \in Symbols : lost'[t] = {} => lost[t] = {} /\ (outcome = "lost" => t # x)
  BY <1>1, <1>2, LostGrows DEF StepFacts
<1>8. \/ UNCHANGED <<book, pc>> /\ outcome # "ok"
      \/ /\ outcome = "ok" /\ pc' = "stop"
         /\ DOMAIN book' = (DOMAIN book) \union {s}
         /\ \A k \in DOMAIN book : book'[k] = book[k]
         /\ book'[s] = [symbol |-> x, side |-> d, size |-> SizeOf[s]]
  BY <1>1, <1>2 DEF EntryAcked
<1>9. \A t \in Symbols : t # x => KeysOf(t)' = KeysOf(t)
  BY <1>8 DEF KeysOf
<1>10. ASSUME NEW t \in Symbols, t # x PROVE \A side : Lots(book', t, side) = Lots(book, t, side)
  BY <1>8, <1>10, LotsSame
<1>11. ASSUME NEW t \in Symbols, lost'[t] = {} PROVE CoveredNow(t)'
  <2>1. CoveredNow(t)
    BY <1>2, <1>7, <1>11 DEF StepFacts, ExposureInv, Booted
  <2>2. CASE t # x
    <3>1. net'[t] = net[t]
      BY <1>5, <2>2 DEF StepFacts, BrokerOK
    <3>2. \A side : Rests(resting', t, side) = Rests(resting, t, side)
      BY <1>6, <2>2
    <3>3. QED
      BY <1>10, <2>1, <2>2, <3>1, <3>2, CoverFrame
  <2>3. CASE t = x /\ outcome = "ok"
    <3>1. /\ DOMAIN book' = (DOMAIN book) \union {s} /\ s \notin DOMAIN book
          /\ \A k \in DOMAIN book : book'[k] = book[k]
          /\ book'[s].symbol = x /\ book'[s].side = d /\ book'[s].size = SizeOf[s]
      BY <1>2, <1>8, <2>3
    <3>2. net[x] \in Int /\ Covered(net[x], resting, book, book'[s].symbol)
      BY <1>2, <2>1, <2>3, <3>1 DEF StepFacts, BrokerOK, CoveredNow
    <3>3. /\ Covered(net[x] + Sign(d) * q, resting, book', x)
          /\ \A w \in RestingOrders :
              /\ w.symbol = x /\ w.side = d /\ ~w.closes /\ w.qty = q /\ w.qty > 0
              => Covered(net[x], resting \union {w}, book', x)
      <4>1. SomeBook(book) /\ SomeOrders(resting)
        BY DEF StepFacts
      <4>2. /\ Covered(net[x] + Sign(book'[s].side) * Quantity(book'[s].size),
                       resting, book', book'[s].symbol)
            /\ \A w \in RestingOrders :
                 /\ w.symbol = book'[s].symbol /\ w.side = book'[s].side /\ ~w.closes
                 /\ w.qty = Quantity(book'[s].size) /\ w.qty > 0
                 => Covered(net[x], resting \union {w}, book', book'[s].symbol)
        BY ONLY SomeBook(book'), <3>1, <3>2, <4>1, EntryCovered
      <4>3. QED
        BY <3>1, <4>2 DEF q
    <3>4. CASE resting' = resting /\ net' = [net EXCEPT ![x] = @ + Sign(d) * q]
      <4>1. net'[x] = net[x] + Sign(d) * q
        BY <1>2, <3>4 DEF StepFacts, BrokerOK
      <4>2. QED
        BY <2>3, <3>3, <3>4, <4>1 DEF CoveredNow
    <3>5. CASE net' = net /\ \E w \in RestingOrders :
                /\ resting' = resting \union {w} /\ w.symbol = x /\ w.side = d
                /\ ~w.closes /\ w.qty = q /\ w.qty > 0
      BY <2>3, <3>3, <3>5 DEF CoveredNow
    <3>6. QED
      BY <1>5, <2>3, <3>4, <3>5
  <2>4. CASE t = x /\ outcome # "ok"
    <3>1. outcome = "refused"
      BY <1>7, <1>11, <2>4 DEF Outcomes
    <3>2. net' = net /\ resting' = resting /\ book' = book
      BY <1>5, <1>8, <3>1
    <3>3. QED
      BY <2>1, <3>2 DEF CoveredNow
  <2>5. QED
    BY <2>2, <2>3, <2>4
<1>12. pc' \in {"idle", "stop"}
  BY <1>2, <1>8
<1>13. ExposureInv'
  BY <1>11, <1>12 DEF ExposureInv, Booted
<1>14. CleanInv'
  <2>1. \A t \in clean' : t \in clean /\ t # x /\ t \in Symbols
    BY <1>2 DEF StepFacts, HistoryOK
  <2>2. \A t \in clean' : KeysOf(t)' \subseteq flattening'
    BY <1>2, <1>9, <2>1 DEF StepFacts, CleanInv
  <2>3. QED
    BY <1>12, <2>2 DEF CleanInv, Booted
<1>15. QED
  BY <1>6, <1>13, <1>14 DEF TrackInv

\* The protective orders add no entry.
LEMMA ProtectTracked ==
  ASSUME StepFacts, PlaceStop \/ PlaceTarget
  PROVE  TrackInv'
<1>1. /\ cur \in Setups /\ pc \in {"stop", "target"} /\ pc' \in {"target", "idle"} /\ exits = {}
      /\ UNCHANGED <<book, exits, flattening, lost, clean>>
  BY DEF StepFacts, WhereInv, PlaceStop, PlaceTarget, history
<1>2. \/ UNCHANGED brokerVars
      \/ \E outcome \in Outcomes : \/ PlaceOrder(StopRequest(cur), outcome)
                                   \/ PlaceOrder(TargetRequest(cur), outcome)
  BY DEF PlaceStop, PlaceTarget
<1>3. /\ StopRequest(cur) \in Requests /\ StopRequest(cur).type = "StopLoss"
      /\ TargetRequest(cur) \in Requests /\ TargetRequest(cur).type = "TakeProfit"
  BY <1>1, RequestsOK DEF StopRequest, TargetRequest, Request
<1>4. /\ net' = net
      /\ \/ resting' = resting
         \/ \E w \in RestingOrders : w.closes /\ resting' = resting \union {w}
  <2>1. CASE UNCHANGED brokerVars
    BY <2>1 DEF brokerVars
  <2>2. ASSUME NEW r \in Requests, r.type \in {"StopLoss", "TakeProfit"},
               NEW outcome \in Outcomes, PlaceOrder(r, outcome)
        PROVE  /\ net' = net
               /\ \/ resting' = resting
                  \/ \E w \in RestingOrders : w.closes /\ resting' = resting \union {w}
    BY <2>2, PlaceEffect DEF StepFacts, Protective
  <2>3. QED
    BY <1>2, <1>3, <2>1, <2>2
<1>5. SomeOrders(resting') /\ \A s, side : Rests(resting', s, side) = Rests(resting, s, side)
  BY <1>4, RestsJoined DEF StepFacts
<1>6. ASSUME NEW s \in Symbols, lost'[s] = {} PROVE CoveredNow(s)'
  <2>1. CoveredNow(s)
    BY <1>1, <1>6 DEF StepFacts, ExposureInv, Booted
  <2>2. QED
    BY <1>1, <1>4, <1>5, <2>1, CoverFrame
<1>7. ExposureInv'
  BY <1>1, <1>6 DEF ExposureInv, Booted
<1>8. CleanInv'
  BY <1>1 DEF StepFacts, CleanInv, KeysOf, Booted
<1>9. QED
  BY <1>5, <1>7, <1>8 DEF TrackInv

\* A tick: the symbol owes exits, the others keep their positions.
LEMMA TickTracked ==
  ASSUME StepFacts, NEW x \in Symbols, Tick(x)
  PROVE  TrackInv'
<1>1. PICK due \in (SUBSET KeysOf(x)) \ {{}} :
        /\ book' = Without(due)
        /\ exits' = {[symbol |-> x, key |-> k] : k \in due}
  BY DEF Tick
<1>2. /\ pc = "idle" /\ pc' = "exits" /\ exits = {}
      /\ net' = net /\ resting' = resting /\ lost' = lost /\ clean' = clean
      /\ flattening' = flattening
  BY DEF Tick, StepFacts, WhereInv, brokerVars, history
<1>3. /\ DOMAIN book' = (DOMAIN book) \ due /\ \A k \in DOMAIN book' : book'[k] = book[k]
      /\ \A k \in due : book[k].symbol = x
  BY <1>1 DEF Without, KeysOf
<1>4. \E e \in exits' : e.symbol = x
  <2>1. PICK k \in due : TRUE
    BY <1>1
  <2>2. [symbol |-> x, key |-> k] \in exits'
    BY <1>1
  <2>3. QED
    BY <2>2
<1>5. ASSUME NEW s \in Symbols, s # x, lost'[s] = {} PROVE CoveredNow(s)'
  <2>1. CoveredNow(s)
    BY <1>2, <1>5 DEF StepFacts, ExposureInv, Booted
  <2>2. \A side : Lots(book', s, side) = Lots(book, s, side)
    BY <1>3, <1>5, LotsSame
  <2>3. QED
    BY <1>2, <2>1, <2>2, CoverFrame
<1>6. ExposureInv'
  BY <1>2, <1>4, <1>5 DEF ExposureInv, Booted
<1>7. CleanInv'
  BY <1>2, <1>3 DEF StepFacts, CleanInv, KeysOf, Booted
<1>8. QED
  BY <1>2, <1>6, <1>7 DEF TrackInv, StepFacts

\* cancel_all touches one symbol's orders.
LEMMA CancelEffect ==
  ASSUME SomeOrders(resting), NEW x \in Symbols, NEW done, CancelAll(x, done)
  PROVE  /\ SomeOrders(resting') /\ net' = net
         /\ \A s \in Symbols : NoEntry(s) => NoEntry(s)'
         /\ \A s, side : s # x => Rests(resting', s, side) = Rests(resting, s, side)
<1>1. resting' \in SUBSET resting /\ net' = net
  BY DEF CancelAll
<1>2. SomeOrders(resting')
  BY <1>1, FS_Subset DEF SomeOrders
<1>3. \A s \in Symbols : NoEntry(s) => NoEntry(s)'
  BY <1>1 DEF NoEntry, EntriesResting
<1>4. ASSUME NEW s, NEW side, s # x PROVE Rests(resting', s, side) = Rests(resting, s, side)
  <2>1. Waiting(resting', s, side) = Waiting(resting, s, side)
    BY <1>4 DEF CancelAll, Waiting, EntriesResting
  <2>2. QED
    BY <2>1 DEF Rests
<1>5. QED
  BY <1>1, <1>2, <1>3, <1>4

\* An exit is booked: either nothing is left at the broker, or the agent has
\* lost track.
LEMMA ExitTracked ==
  ASSUME StepFacts, NEW e \in exits, BookExit(e)
  PROVE  TrackInv'
<1> DEFINE x == e.symbol
<1>1. /\ pc = "exits" /\ exits' = exits \ {e} /\ pc' \in {"idle", "exits"}
      /\ Remember(x, "exit", net[x] # 0 \/ EntriesResting(x, resting') # {})
      /\ UNCHANGED <<book, cur, flattening, fresh, crashes, clean, bootDrift, guarded>>
      /\ x \in Symbols
  BY DEF BookExit, StepFacts, WorkOK
<1>2. PICK done \in BOOLEAN : CancelAll(x, done)
  BY DEF BookExit
<1>3. SomeOrders(resting) /\ SomeBook(book)
  BY DEF StepFacts
<1>4. /\ SomeOrders(resting') /\ net' = net
      /\ \A s, side : s # x => Rests(resting', s, side) = Rests(resting, s, side)
  BY <1>1, <1>2, <1>3, CancelEffect
<1>5. \A s \in Symbols : lost'[s] = {} => lost[s] = {}
                         /\ (s = x => net[x] = 0 /\ EntriesResting(x, resting') = {})
  BY <1>1, LostGrows DEF StepFacts
<1>6. ASSUME NEW s \in Symbols, lost'[s] = {}, \A f \in exits' : f.symbol # s
      PROVE  CoveredNow(s)'
  <2>1. CASE s = x
    <3>1. Covered(0, resting', book, x)
      BY <1>1, <1>3, <1>4, <1>5, <1>6, <2>1, FlatIsCovered
    <3>2. QED
      BY <1>1, <1>4, <1>5, <1>6, <2>1, <3>1 DEF CoveredNow
  <2>2. CASE s # x
    <3>1. \A f \in exits : f.symbol # s
      BY <1>1, <1>6, <2>2
    <3>2. CoveredNow(s)
      BY <1>1, <1>5, <1>6, <3>1 DEF StepFacts, ExposureInv, Booted
    <3>3. QED
      BY <1>1, <1>4, <2>2, <3>2, CoverFrame
  <2>3. QED
    BY <2>1, <2>2
<1>7. ExposureInv'
  BY <1>1, <1>6 DEF ExposureInv, Booted
<1>8. CleanInv'
  BY <1>1 DEF StepFacts, CleanInv, KeysOf, Booted
<1>9. QED
  BY <1>4, <1>7, <1>8 DEF TrackInv

\* A flat-all is ordered.
LEMMA FlatAllTracked ==
  ASSUME StepFacts, FlatAll
  PROVE  TrackInv'
<1>1. /\ pc = "idle" /\ pc' = "flat" /\ flattening' = DOMAIN book /\ exits = {} /\ exits' = exits
      /\ net' = net /\ resting' = resting /\ lost' = lost /\ book' = book
      /\ clean' = clean \union {book[k].symbol : k \in DOMAIN book}
  BY DEF FlatAll, StepFacts, WhereInv, brokerVars
<1>2. ASSUME NEW s \in Symbols, lost'[s] = {} PROVE CoveredNow(s)'
  BY <1>1, <1>2 DEF StepFacts, ExposureInv, Booted, CoveredNow
<1>3. ExposureInv'
  BY <1>1, <1>2 DEF ExposureInv, Booted
<1>4. CleanInv'
  BY <1>1 DEF CleanInv, KeysOf, Booted
<1>5. QED
  BY <1>1, <1>3, <1>4 DEF TrackInv, StepFacts

\* A flat-all cancels: no entry waits, or the agent has lost track.
LEMMA FlatCancelTracked ==
  ASSUME StepFacts, NEW k \in Keys, FlatCancel(k)
  PROVE  TrackInv'
<1> DEFINE x == book[k].symbol
<1>1. /\ pc = "flat" /\ k \in flattening /\ cur' = k /\ pc' = "close" /\ exits = {}
      /\ Remember(x, "cancel", EntriesResting(x, resting') # {})
      /\ UNCHANGED <<book, openPositions, exits, flattening, fresh, crashes, bootDrift, guarded>>
      /\ clean' \subseteq clean
  BY DEF FlatCancel, StepFacts, WhereInv
<1>2. PICK done \in BOOLEAN : CancelAll(x, done)
  BY DEF FlatCancel
<1>3. SomeOrders(resting) /\ SomeBook(book) /\ x \in Symbols
  BY <1>1 DEF StepFacts, WorkOK, SomeBook, Position
<1>4. /\ SomeOrders(resting') /\ net' = net
      /\ \A s, side : s # x => Rests(resting', s, side) = Rests(resting, s, side)
  BY <1>2, <1>3, CancelEffect
<1>5. \A s \in Symbols : lost'[s] = {} => lost[s] = {}
                         /\ (s = x => EntriesResting(x, resting') = {})
  BY <1>1, <1>3, LostGrows DEF StepFacts
<1>6. ASSUME NEW s \in Symbols, lost'[s] = {} PROVE CoveredNow(s)'
  <2>1. CoveredNow(s)
    BY <1>1, <1>5, <1>6 DEF StepFacts, ExposureInv, Booted
  <2>2. CASE s = x
    <3>1. net[x] \in Int
      BY <1>3 DEF StepFacts, BrokerOK
    <3>2. Covered(net[x], resting', book, x)
      BY <1>3, <1>4, <1>5, <1>6, <2>1, <2>2, <3>1, CoverLess DEF CoveredNow
    <3>3. QED
      BY <1>1, <1>4, <2>2, <3>2 DEF CoveredNow
  <2>3. CASE s # x
    BY <1>1, <1>4, <2>1, <2>3, CoverFrame
  <2>4. QED
    BY <2>2, <2>3
<1>7. ExposureInv'
  BY <1>1, <1>5, <1>6 DEF ExposureInv, Booted, NoEntry
<1>8. CleanInv'
  BY <1>1 DEF StepFacts, CleanInv, KeysOf, Booted
<1>9. QED
  BY <1>4, <1>7, <1>8 DEF TrackInv

\* A flat-all closes: the position and its lots are gone, the symbol is flat,
\* or the agent has lost track.
LEMMA FlatCloseTracked ==
  ASSUME StepFacts, SomeBook(book'), FlatClose
  PROVE  TrackInv'
<1> DEFINE p == book[cur]
           x == book[cur].symbol
           d == book[cur].side
           untouched == net'[x] = net[x] /\ net[x] # 0
           q == Quantity(book[cur].size)
           t == IF q > Abs(net[x]) THEN Abs(net[x]) ELSE q
<1>1. /\ pc = "close" /\ pc' \in {"idle", "flat"} /\ cur \in flattening /\ exits = {}
      /\ book' = Without({cur}) /\ flattening' = flattening \ {cur} /\ exits' = exits
      /\ Remember(x, "flat", untouched) /\ clean' \subseteq clean
  BY DEF FlatClose, StepFacts, WhereInv
<1>2. PICK outcome \in Outcomes : PlaceOrder(CloseRequest(p), outcome)
  BY DEF FlatClose
<1>3. /\ cur \in DOMAIN book /\ p \in Position /\ x \in Symbols /\ d \in Sides
      /\ SomeOrders(resting) /\ SomeBook(book) /\ q \in Nat /\ net[x] \in Int
  <2>1. cur \in DOMAIN book /\ p \in Position /\ SomeOrders(resting) /\ SomeBook(book)
    BY <1>1 DEF StepFacts, WorkOK, SomeBook
  <2>2. QED
    BY <2>1, QuantityNat DEF Position, StepFacts, BrokerOK
<1>4. DOMAIN book' = (DOMAIN book) \ {cur} /\ \A k \in DOMAIN book' : book'[k] = book[k]
  BY <1>1 DEF Without
<1>5. /\ CloseRequest(p) \in Requests /\ CloseRequest(p).symbol = x
      /\ CloseRequest(p).side = Opposite(d) /\ CloseRequest(p).size = book[cur].size
      /\ CloseRequest(p).type = "Market" /\ CloseRequest(p).reduceOnly = TRUE
  BY <1>3, RequestsOK DEF CloseRequest, Request
<1> HIDE DEF t, q
<1>6. /\ resting' = resting
      /\ \/ net' = net
         \/ /\ net[x] * Sign(Opposite(d)) < 0
            /\ net' = [net EXCEPT ![x] = @ + Sign(Opposite(d)) * t]
  BY <1>2, <1>5, PlaceEffect DEF StepFacts, t, q
<1>7. \A s \in Symbols : lost'[s] = {} => lost[s] = {} /\ (s = x => ~untouched)
  BY <1>1, <1>3, LostGrows DEF StepFacts
<1>8. ASSUME NEW s \in Symbols, lost'[s] = {} PROVE CoveredNow(s)'
  <2>1. CoveredNow(s) /\ lost[s] = {}
    BY <1>1, <1>7, <1>8 DEF StepFacts, ExposureInv, Booted
  <2>2. CASE s # x
    <3>1. net'[s] = net[s]
      BY <1>6, <2>2 DEF StepFacts, BrokerOK
    <3>2. \A side : Lots(book', s, side) = Lots(book, s, side)
      BY <1>4, <2>2, LotsSame
    <3>3. QED
      BY <1>6, <2>1, <3>1, <3>2, CoverFrame
  <2>3. CASE s = x
    <3>1. EntriesResting(x, resting) = {}
      BY <1>1, <2>1, <2>3 DEF StepFacts, ExposureInv, NoEntry
    <3>2. CASE net' = net
      <4>1. net[x] = 0
        BY <1>7, <1>8, <2>3, <3>2
      <4>2. Covered(0, resting, book', x)
        BY <1>3, <3>1, FlatIsCovered
      <4>3. QED
        BY <1>6, <2>3, <3>2, <4>1, <4>2 DEF CoveredNow
    <3>3. CASE /\ net[x] * Sign(Opposite(d)) < 0
               /\ net' = [net EXCEPT ![x] = @ + Sign(Opposite(d)) * t]
      <4>1. net'[x] = net[x] + Sign(Opposite(d)) * t
        BY <1>3, <3>3 DEF StepFacts, BrokerOK
      <4>2. Covered(net[x], resting, book, book[cur].symbol)
        BY <2>1, <2>3 DEF CoveredNow
      <4>3. t = IF Quantity(book[cur].size) > Abs(net[book[cur].symbol])
                THEN Abs(net[book[cur].symbol]) ELSE Quantity(book[cur].size)
        BY DEF t, q
      <4>4. Covered(net[x] + Sign(Opposite(d)) * t, resting, book', x)
        BY ONLY <1>3, <1>4, <3>1, <3>3, <4>2, <4>3, SomeBook(book'), CloseCovered
      <4>5. QED
        BY <1>6, <2>3, <4>1, <4>4 DEF CoveredNow
    <3>4. QED
      BY <1>6, <3>2, <3>3
  <2>4. QED
    BY <2>2, <2>3
<1>9. ExposureInv'
  BY <1>1, <1>8 DEF ExposureInv, Booted
<1>10. CleanInv'
  BY <1>1, <1>4 DEF StepFacts, CleanInv, KeysOf, Booted
<1>11. QED
  BY <1>3, <1>6, <1>9, <1>10 DEF TrackInv

\* What waits at the broker meets its price.
LEMMA BrokerTracked ==
  ASSUME StepFacts, Broker
  PROVE  TrackInv'
<1>1. PICK o \in resting : BrokerFills(o) \/ BrokerTriggers(o)
  BY DEF Broker
<1> DEFINE x == o.symbol
<1>2. /\ resting' = resting \ {o} /\ UNCHANGED <<agentVars, crashes, history>>
      /\ SomeOrders(resting) /\ SomeBook(book) /\ x \in Symbols /\ net[x] \in Int
  BY <1>1 DEF BrokerFills, BrokerTriggers, StepFacts, SomeOrders, RestingOrders, BrokerOK
<1>3. /\ book' = book /\ pc' = pc /\ cur' = cur /\ exits' = exits /\ lost' = lost /\ clean' = clean
      /\ flattening' = flattening
  BY <1>2 DEF agentVars, history
<1>4. SomeOrders(resting') /\ \A s, side : s # x \/ o.closes =>
                                Rests(resting', s, side) = Rests(resting, s, side)
  BY <1>2, RestsTaken
<1>5. \A s \in Symbols : NoEntry(s) => NoEntry(s)'
  BY <1>2 DEF NoEntry, EntriesResting
<1>6. ASSUME NEW s \in Symbols, CoveredNow(s) PROVE CoveredNow(s)'
  <2>1. CASE s # x
    <3>1. net'[s] = net[s]
      BY <1>1, <2>1 DEF BrokerFills, BrokerTriggers, StepFacts, BrokerOK
    <3>2. QED
      BY <1>3, <1>4, <1>6, <2>1, <3>1, CoverFrame
  <2>2. CASE s = x /\ BrokerFills(o)
    <3>1. ~o.closes /\ net'[x] = net[x] + Sign(o.side) * o.qty
      BY <1>2, <2>2 DEF BrokerFills, StepFacts, BrokerOK
    <3>2. Covered(net[x] + Sign(o.side) * o.qty, resting \ {o}, book, x)
      BY <1>2, <1>6, <2>2, <3>1, FillCovered DEF CoveredNow
    <3>3. QED
      BY <1>2, <1>3, <2>2, <3>1, <3>2 DEF CoveredNow
  <2>3. CASE s = x /\ BrokerTriggers(o)
    <3>1. o.closes /\ net'[x] = 0
      BY <1>2, <2>3 DEF BrokerTriggers, StepFacts, BrokerOK
    <3>2. Covered(0, resting, book, x)
      BY <1>2, <1>6, <2>3, CoverLess DEF CoveredNow
    <3>3. Covered(0, resting', book, x)
      BY <1>4, <3>1, <3>2 DEF Covered
    <3>4. QED
      BY <1>3, <2>3, <3>1, <3>3 DEF CoveredNow
  <2>4. QED
    BY <1>1, <2>1, <2>2, <2>3
<1>7. ExposureInv'
  BY <1>3, <1>5, <1>6 DEF StepFacts, ExposureInv, Booted, KeysOf
<1>8. CleanInv'
  BY <1>3 DEF StepFacts, CleanInv, KeysOf, Booted
<1>9. QED
  BY <1>4, <1>7, <1>8 DEF TrackInv

\* A crash and the two fetches.
LEMMA BootTracked ==
  ASSUME IsFiniteSet(Symbols), StepFacts, SomeBook(book'),
         Crash \/ FirstReconcile \/ SecondReconcile
  PROVE  TrackInv'
<1>1. net' = net /\ resting' = resting /\ SomeOrders(resting) /\ BrokerOK
  BY DEF Crash, FirstReconcile, SecondReconcile, BootEnds, brokerVars, StepFacts
<1>2. SomeBook(Recovered)
  <2>1. /\ DOMAIN Recovered = Held /\ Held \in SUBSET Symbols
        /\ Recovered \in [Held -> Position] /\ Held \in SUBSET Keys
    BY <1>1, RecoveredOK
  <2>2. IsFiniteSet(Held)
    BY <2>1, FS_Subset
  <2>3. QED
    BY <2>1, <2>2 DEF SomeBook
<1>3. ASSUME NEW s \in Symbols, NoEntry(s), book' = Recovered PROVE CoveredNow(s)'
  <2>1. Covered(net[s], resting, Recovered, s)
    BY <1>1, <1>2, <1>3, RecoveredCovered DEF NoEntry
  <2>2. QED
    BY <1>1, <1>3, <2>1 DEF CoveredNow
<1>4. CASE Crash
  <2>1. /\ pc' = "fetch1" /\ book' = <<>> /\ clean' = {}
        /\ lost' = [s \in Symbols |-> IF EntriesResting(s, resting) # {} THEN {"orphan"} ELSE {}]
    BY <1>4 DEF Crash
  <2>2. ASSUME NEW s \in Symbols, lost'[s] = {} PROVE NoEntry(s)'
    BY <1>1, <2>1, <2>2 DEF NoEntry
  <2>3. \A s \in Symbols : KeysOf(s)' = {}
    BY <2>1 DEF KeysOf
  <2>4. ExposureInv'
    BY <2>1, <2>2, <2>3 DEF ExposureInv, Booted
  <2>5. CleanInv'
    BY <2>1 DEF CleanInv
  <2>6. QED
    BY <1>1, <2>4, <2>5 DEF TrackInv
<1>5. CASE FirstReconcile
  <2>1. /\ pc = "fetch1" /\ pc' = "fetch2" /\ book = <<>> /\ lost' = lost /\ clean' = clean
        /\ book' = Recovered \/ book' = book
    BY <1>5 DEF FirstReconcile, StepFacts, WhereInv
  <2>2. ASSUME NEW s \in Symbols, lost'[s] = {} PROVE NoEntry(s)' /\ NoEntry(s)
    BY <1>1, <2>1, <2>2 DEF StepFacts, ExposureInv, NoEntry, Booted
  <2>3. ASSUME NEW s \in Symbols, lost'[s] = {} PROVE KeysOf(s)' = {} \/ CoveredNow(s)'
    <3>1. CASE book' = Recovered
      BY <1>3, <2>2, <2>3, <3>1
    <3>2. CASE book' = book
      BY <2>1, <3>2 DEF KeysOf
    <3>3. QED
      BY <2>1, <3>1, <3>2
  <2>4. ExposureInv'
    BY <2>1, <2>2, <2>3 DEF ExposureInv, Booted
  <2>5. CleanInv'
    BY <2>1 DEF CleanInv, StepFacts, Booted
  <2>6. QED
    BY <1>1, <2>4, <2>5 DEF TrackInv
<1>6. CASE SecondReconcile
  <2>1. /\ pc = "fetch2" /\ pc' = "idle" /\ clean' = clean /\ (book' = Recovered \/ book' = book)
        /\ lost' = [s \in Symbols |->
             IF net[s] # 0 /\ (\A k \in DOMAIN book' : book'[k].symbol # s)
             THEN lost[s] \union {"unseen"} ELSE lost[s]]
    BY <1>6 DEF SecondReconcile, BootEnds
  <2>2. ASSUME NEW s \in Symbols, lost'[s] = {} PROVE CoveredNow(s)'
    <3>1. /\ lost[s] = {}
          /\ net[s] = 0 \/ \E k \in DOMAIN book' : book'[k].symbol = s
      BY <2>1, <2>2
    <3>2. NoEntry(s) /\ (KeysOf(s) = {} \/ CoveredNow(s))
      BY <2>1, <3>1 DEF StepFacts, ExposureInv, Booted
    <3>3. CASE book' = Recovered
      BY <1>3, <3>2, <3>3
    <3>4. CASE book' = book /\ KeysOf(s) = {}
      <4>1. net[s] = 0
        BY <3>1, <3>4 DEF KeysOf
      <4>2. Covered(0, resting, book', s)
        BY <1>1, <3>2, FlatIsCovered DEF NoEntry
      <4>3. QED
        BY <1>1, <4>1, <4>2 DEF CoveredNow
    <3>5. CASE book' = book /\ CoveredNow(s)
      BY <1>1, <3>5 DEF CoveredNow
    <3>6. QED
      BY <2>1, <3>2, <3>3, <3>4, <3>5
  <2>3. ExposureInv'
    BY <2>1, <2>2 DEF ExposureInv, Booted
  <2>4. CleanInv'
    BY <2>1 DEF CleanInv, StepFacts, Booted
  <2>5. QED
    BY <1>1, <2>3, <2>4 DEF TrackInv
<1>7. QED
  BY <1>4, <1>5, <1>6

\* Every step keeps track.
LEMMA TrackStep ==
  ASSUME IsFiniteSet(Symbols), TypeInv, DriftInv, TypeInv', DriftInv', TrackInv, [Next]_vars
  PROVE  TrackInv'
<1>1. StepFacts
  BY StepFactsHold
<1>2. SomeBook(book')
  BY DEF TypeInv, DriftInv, SomeBook, BookOK
<1>3. CASE UNCHANGED vars
  BY <1>3 DEF vars, brokerVars, agentVars, history, TrackInv, ExposureInv, CleanInv, CoveredNow,
              NoEntry, KeysOf, Booted
<1>4. CASE Next
  BY <1>1, <1>2, <1>4, EntryTracked, ProtectTracked, TickTracked, ExitTracked, FlatAllTracked,
     FlatCancelTracked, FlatCloseTracked, BrokerTracked, BootTracked DEF Next, Agent
<1>5. QED
  BY <1>3, <1>4

\* At the start the broker holds nothing.
LEMMA InitTracks == Init => TrackInv
  BY FS_EmptySet DEF Init, TrackInv, SomeOrders, ExposureInv, CleanInv, Booted, NoEntry,
                     EntriesResting, KeysOf

-----------------------------------------------------------------------------
(* Theorems *)

\* Types, places and drift, step by step.
LEMMA LiveStep ==
  ASSUME IsFiniteSet(Symbols), TypeInv, DriftInv, [Next]_vars
  PROVE  TypeInv' /\ DriftInv'
<1>1. TypeInv'
  <2>1. CASE UNCHANGED vars
    BY <2>1 DEF vars, brokerVars, agentVars, history, TypeInv, BrokerOK, BookOK, WorkOK,
                HistoryOK, WhereInv
  <2>2. CASE Next
    BY <2>2, EntryTypesKept, ProtectTypesKept, ExitTypesKept, FlatTypesKept, BootTypesKept,
       BrokerTypesKept DEF Next, Agent
  <2>3. QED
    BY <2>1, <2>2
<1>2. QED
  BY <1>1, DriftStep

\* With finitely many symbols the invariant holds throughout.
LEMMA LiveInvariant ==
  ASSUME IsFiniteSet(Symbols)
  PROVE  Spec => [](TypeInv /\ DriftInv)
<1>1. Init => DriftInv
  BY FS_EmptySet DEF Init, DriftInv, CounterDriftBounded, Booted
<1>2. TypeInv /\ DriftInv /\ [Next]_vars => TypeInv' /\ DriftInv'
  BY LiveStep
<1>3. QED
  BY <1>1, <1>2, InitTypes, PTL DEF Spec

\* The execution agent, the broker and the book are well typed in every
\* reachable state, crashes and lost answers included: in particular a
\* flat-all only ever works on positions that are still on the book.
THEOREM LiveTypeTheorem ==
  ASSUME IsFiniteSet(Symbols)
  PROVE  Spec => []TypeOK
<1>1. TypeInv => TypeOK
  BY TypeParts DEF TypeInv
<1>2. QED
  BY <1>1, LiveInvariant, PTL

\* Once the program is up, the risk manager's counter differs from book and
\* pending exits by at most what the two fetches of the startup
\* (main.rs:377-411, 530-555) reported differently, for ever: entries, exits,
\* flat-alls and the floor of the counter at 0 never widen the gap.
THEOREM CounterDriftTheorem ==
  ASSUME IsFiniteSet(Symbols)
  PROVE  Spec => []CounterDriftBounded
<1>1. DriftInv => CounterDriftBounded
  BY DEF DriftInv
<1>2. QED
  BY <1>1, LiveInvariant, PTL
\* Tracking holds throughout, too.
LEMMA TrackInvariant ==
  ASSUME IsFiniteSet(Symbols)
  PROVE  Spec => [](TypeInv /\ DriftInv /\ TrackInv)
<1>1. Init => DriftInv
  BY FS_EmptySet DEF Init, DriftInv, CounterDriftBounded, Booted
<1>2. TypeInv /\ DriftInv /\ TrackInv /\ [Next]_vars => TypeInv' /\ DriftInv' /\ TrackInv'
  BY LiveStep, TrackStep
<1>3. QED
  BY <1>1, <1>2, InitTypes, InitTracks, PTL DEF Spec

\* A position the broker holds and the agent neither has on its book nor is
\* about to book as closed was lost along one of the known routes: an order
\* whose answer was lost, an exit that sends no closing order, a flat-all
\* whose calls failed, an entry that rested when the process died, or a
\* startup whose calls failed (execution.rs:279-344, main.rs:377-555).  What
\* rests at the broker, partial closes, several positions on a symbol, on
\* one side or both, and crashes anywhere are no further route.
THEOREM UntrackedTheorem ==
  ASSUME IsFiniteSet(Symbols)
  PROVE  Spec => []UntrackedOnlyByKnownRoutes
<1>1. TypeInv /\ DriftInv /\ TrackInv => UntrackedOnlyByKnownRoutes
  <2>1. SUFFICES ASSUME TypeInv, DriftInv, TrackInv, NEW s \in Symbols,
                        Booted, lost[s] = {}, ~Tracked(s)
                 PROVE  net[s] = 0
    BY DEF UntrackedOnlyByKnownRoutes
  <2>2. /\ \A e \in exits : e.symbol # s
        /\ \A k \in DOMAIN book : book[k].symbol # s
    BY <2>1 DEF Tracked
  <2>3. Covered(net[s], resting, book, s)
    BY <2>1, <2>2 DEF TrackInv, ExposureInv, CoveredNow
  <2>4. SomeOrders(resting) /\ SomeBook(book) /\ net[s] \in Int
    BY <2>1, StepFactsHold DEF StepFacts, BrokerOK
  <2>5. QED
    BY <2>2, <2>3, <2>4, EmptyCover
<1>2. QED
  BY <1>1, TrackInvariant, PTL

\* After a flat-all (execution.rs:130-194) none of whose calls failed, the
\* broker holds nothing of the symbols it covered and no entry of them waits,
\* whatever else was done on other symbols since and however many positions
\* of the symbol, on one side or both, shared the net position.
THEOREM FlatAllTheorem ==
  ASSUME IsFiniteSet(Symbols)
  PROVE  Spec => []FlatAllIsFinal
<1>1. TypeInv /\ DriftInv /\ TrackInv => FlatAllIsFinal
  <2>1. SUFFICES ASSUME TypeInv, DriftInv, TrackInv, pc = "idle", NEW s \in clean, lost[s] = {}
                 PROVE  net[s] = 0 /\ EntriesResting(s, resting) = {}
    BY DEF FlatAllIsFinal
  <2>2. /\ s \in Symbols /\ exits = {} /\ flattening = {}
        /\ SomeOrders(resting) /\ SomeBook(book) /\ net[s] \in Int
    BY <2>1, StepFactsHold DEF StepFacts, HistoryOK, WhereInv, BrokerOK
  <2>3. \A k \in DOMAIN book : book[k].symbol # s
    BY <2>1, <2>2 DEF TrackInv, CleanInv, KeysOf
  <2>4. Covered(net[s], resting, book, s)
    BY <2>1, <2>2 DEF TrackInv, ExposureInv, CoveredNow, Booted
  <2>5. QED
    BY <2>2, <2>3, <2>4, EmptyCover
<1>2. QED
  BY <1>1, TrackInvariant, PTL
=============================================================================
