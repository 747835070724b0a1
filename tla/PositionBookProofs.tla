-------------------------- MODULE PositionBookProofs --------------------------
(***************************************************************************)
(* Proofs about the position tracker, for every set of ids and symbols and *)
(* every price range.  What is claimed of the book is proved of one        *)
(* position first (RatchetInv) and lifted to every operation (StepInv).    *)
(***************************************************************************)
EXTENDS PositionBook, TLAPS

\* The strengthening.  The two claims need to know that the trail is only
\* ever armed together with breakeven and at a profit, that a position at
\* breakeven which does not trail is skipped, and that no price seen before
\* breakeven would have armed the trail.
PositionInv(p) ==
  /\ p.breakeven => Ahead(p.side, p.stop2, 2 * p.entry) >= 0
  /\ p.trailing =>
       /\ p.breakeven
       /\ Ahead(p.side, p.best, p.entry) > 0
       /\ Ahead(p.side, p.stop2, p.best + p.entry) >= 0
  /\ p.breakeven /\ ~p.trailing => Risk2(p) = 0
  /\ ~p.breakeven =>
       \/ Risk2(p) = 0
       \/ 2 * Ahead(p.side, p.best, p.entry) < Risk2(p)

BookInv == \A id \in DOMAIN book : PositionInv(book[id])

-----------------------------------------------------------------------------

\* A position as it is opened or recovered is well typed and has the
\* invariant.
LEMMA OpenedInv ==
  ASSUME NEW s \in Symbols, NEW d \in Sides, NEW e \in Prices,
         NEW stop \in 0..MaxPrice, NEW tp \in 0..MaxPrice
  PROVE  /\ Opened(s, d, e, stop, tp) \in Position
         /\ PositionInv(Opened(s, d, e, stop, tp))
<1> USE PositionBookAssumption DEF PositionBookAssumption
<1> DEFINE p == Opened(s, d, e, stop, tp)
<1>1. p \in Position
  BY DEF Opened, Position, Prices
<1>2. PositionInv(p)
  BY DEF Opened, PositionInv, Prices, Ahead, Risk2
<1>3. QED
  BY <1>1, <1>2

\* A tick leaves a position well typed.
LEMMA RatchetType ==
  ASSUME NEW p \in Position, NEW price \in Prices
  PROVE  Ratchet(p, price) \in Position
<1> USE PositionBookAssumption DEF PositionBookAssumption
<1>1. NewStop(p, price) \in 0..(2 * MaxPrice)
  BY DEF NewStop, BreakevenStop, Position, Prices
<1>2. BestOf(p, price) \in Prices
  BY DEF BestOf, Position, Prices
<1>3. (p.breakeven \/ ArmsBreakeven(p, price)) \in BOOLEAN
  BY DEF Position
<1>4. Trails(p, price) \in BOOLEAN
  BY DEF Position, Trails
<1>5. QED
  BY <1>1, <1>2, <1>3, <1>4 DEF Ratchet, Position

\* A tick preserves the invariant of a position.
LEMMA RatchetInv ==
  ASSUME NEW p \in Position, NEW price \in Prices, PositionInv(p)
  PROVE  PositionInv(Ratchet(p, price))
<1> USE PositionBookAssumption DEF PositionBookAssumption
<1>0. /\ p.entry \in Nat /\ p.best \in Nat /\ p.stop2 \in Nat /\ price \in Nat
      /\ p.side \in {"Long", "Short"}
  BY DEF Position, Prices, Sides
<1> DEFINE q == Ratchet(p, price)
<1>1. /\ q.side = p.side /\ q.entry = p.entry
      /\ q.best = BestOf(p, price)
      /\ Checked(p) => /\ q.breakeven <=> p.breakeven \/ ArmsBreakeven(p, price)
                       /\ q.trailing <=> Trails(p, price)
                       /\ q.stop2 = NewStop(p, price)
      /\ ~Checked(p) => /\ q.breakeven <=> p.breakeven
                        /\ q.trailing <=> p.trailing
                        /\ q.stop2 = p.stop2
  BY DEF Ratchet, Position
<1> HIDE DEF q
<1>2. ASSUME ~Checked(p) PROVE PositionInv(q)
  <2>1. Risk2(p) = 0 /\ 2 * p.entry = p.stop2
    BY <1>0, <1>2 DEF Checked, Risk2
  <2>2. ~p.trailing
    BY <1>0, <2>1 DEF PositionInv, Ahead
  <2>3. Risk2(q) = 0
    BY <1>1, <1>2, <2>1 DEF Risk2
  <2>4. Ahead(q.side, q.stop2, 2 * q.entry) >= 0
    BY <1>0, <1>1, <1>2, <2>1 DEF Ahead
  <2>5. QED
    BY <1>1, <1>2, <2>2, <2>3, <2>4 DEF PositionInv
<1>3. ASSUME Checked(p) /\ Trails(p, price) PROVE PositionInv(q)
  <2>1. p.breakeven \/ ArmsBreakeven(p, price)
    BY <1>0, <1>3 DEF PositionInv, Checked, Trails, ArmsBreakeven, Gain, Risk2, Ahead
  <2>2. Ahead(p.side, BreakevenStop(p, price), 2 * p.entry) >= 0
    BY <1>0, <2>1 DEF PositionInv, BreakevenStop, Ahead
  <2>3. BreakevenStop(p, price) \in Nat
    BY <1>0 DEF BreakevenStop
  <2>4. /\ Ahead(p.side, NewStop(p, price), price + p.entry) >= 0
        /\ Ahead(p.side, NewStop(p, price), BreakevenStop(p, price)) >= 0
        /\ NewStop(p, price) \in Nat
    BY <1>0, <1>3, <2>3 DEF NewStop, Ahead
  <2>5. Ahead(p.side, NewStop(p, price), 2 * p.entry) >= 0
    BY <1>0, <2>2, <2>3, <2>4 DEF Ahead
  <2>6. /\ Ahead(p.side, BestOf(p, price), p.entry) > 0
        /\ Ahead(p.side, NewStop(p, price), BestOf(p, price) + p.entry) >= 0
    <3>1. CASE p.trailing
      <4>1. /\ Ahead(p.side, p.best, p.entry) > 0
            /\ Ahead(p.side, p.stop2, p.best + p.entry) >= 0
            /\ BreakevenStop(p, price) = p.stop2
        BY <3>1 DEF PositionInv, BreakevenStop, ArmsBreakeven
      <4>2. QED
        BY <1>0, <2>4, <4>1 DEF Ahead, BestOf
    <3>2. CASE ~p.trailing /\ p.breakeven
      BY <1>3, <3>2 DEF PositionInv, Checked
    <3>3. CASE ~p.trailing /\ ~p.breakeven
      <4>1. 2 * Ahead(p.side, p.best, p.entry) < Risk2(p)
        BY <1>3, <3>3 DEF PositionInv, Checked
      <4>2. 2 * Ahead(p.side, price, p.entry) >= Risk2(p)
        BY <1>3, <3>3 DEF Trails, Gain
      <4>3. Risk2(p) > 0 /\ Risk2(p) \in Int
        BY <1>0, <1>3 DEF Checked, Risk2
      <4>4. BestOf(p, price) = price
        BY <1>0, <4>1, <4>2, <4>3 DEF BestOf, Ahead
      <4>5. QED
        BY <1>0, <2>4, <4>2, <4>3, <4>4 DEF Ahead
    <3>4. QED
      BY <3>1, <3>2, <3>3
  <2>7. QED
    BY <1>1, <1>3, <2>1, <2>5, <2>6 DEF PositionInv
<1>4. ASSUME Checked(p) /\ ~Trails(p, price) PROVE PositionInv(q)
  <2>1. ~p.trailing /\ ~p.breakeven
    BY <1>4 DEF PositionInv, Trails, Checked
  <2>2. NewStop(p, price) = BreakevenStop(p, price)
    BY <1>4 DEF NewStop
  <2>3. CASE ArmsBreakeven(p, price)
    <3>1. q.stop2 = 2 * p.entry
      BY <1>1, <1>4, <2>2, <2>3 DEF BreakevenStop
    <3>2. Risk2(q) = 0 /\ Ahead(q.side, q.stop2, 2 * q.entry) >= 0
      BY <1>0, <1>1, <3>1 DEF Risk2, Ahead
    <3>3. QED
      BY <1>1, <1>4, <2>3, <3>2 DEF PositionInv
  <2>4. CASE ~ArmsBreakeven(p, price)
    <3>1. q.stop2 = p.stop2
      BY <1>1, <1>4, <2>2, <2>4 DEF BreakevenStop
    <3>2. Risk2(q) = Risk2(p)
      BY <1>1, <3>1 DEF Risk2
    <3>3. 2 * Ahead(p.side, p.best, p.entry) < Risk2(p)
      BY <1>4, <2>1 DEF PositionInv, Checked
    <3>4. 2 * Ahead(q.side, q.best, q.entry) < Risk2(q)
      <4>1. ~(2 * Ahead(p.side, price, p.entry) >= Risk2(p))
        BY <1>4 DEF Trails, Gain
      <4>2. Risk2(p) \in Int
        BY <1>0 DEF Risk2
      <4>3. QED
        BY <1>0, <1>1, <3>2, <3>3, <4>1, <4>2 DEF BestOf, Ahead
    <3>5. QED
      BY <1>1, <1>4, <2>1, <2>4, <3>4 DEF PositionInv
  <2>5. QED
    BY <2>3, <2>4
<1>5. QED
  BY <1>2, <1>3, <1>4 DEF q

\* The clock moves no field the invariant speaks about.
LEMMA AgeInv ==
  ASSUME NEW p \in Position, NEW a \in 0..(MaxHold + 1)
  PROVE  LET q == [p EXCEPT !.age = a]
         IN /\ q \in Position
            /\ PositionInv(p) => PositionInv(q)
            /\ q.side = p.side /\ q.stop2 = p.stop2
  BY DEF Position, PositionInv, Risk2

\* A tick moves no stop away from the price, unless the stop was on the wrong
\* side of the entry.
LEMMA RatchetTightens ==
  ASSUME NEW p \in Position, NEW price \in Prices,
         p.breakeven \/ Ahead(p.side, 2 * p.entry, p.stop2) >= 0
  PROVE  Ahead(p.side, Ratchet(p, price).stop2, p.stop2) >= 0
<1>1. /\ p.entry \in Nat /\ p.stop2 \in Nat /\ price \in Nat
      /\ p.side \in {"Long", "Short"}
  BY PositionBookAssumption DEF Position, Prices, Sides, PositionBookAssumption
<1>2. CASE Checked(p)
  <2>1. Ratchet(p, price).stop2 = NewStop(p, price)
    BY <1>2 DEF Ratchet, Position
  <2>2. Ahead(p.side, NewStop(p, price), p.stop2) >= 0
    BY <1>1 DEF NewStop, BreakevenStop, ArmsBreakeven, Ahead
  <2>3. QED
    BY <2>1, <2>2
<1>3. CASE ~Checked(p)
  <2>1. Ratchet(p, price).stop2 = p.stop2
    BY <1>3 DEF Ratchet, Position
  <2>2. QED
    BY <1>1, <2>1 DEF Ahead
<1>4. QED
  BY <1>2, <1>3

-----------------------------------------------------------------------------

\* The book is empty, or holds what the exchange reported.
LEMMA InitInv == Init => TypeOK /\ BookInv
<1> SUFFICES ASSUME Init PROVE TypeOK /\ BookInv
  OBVIOUS
<1>1. PICK recovered \in SUBSET Ids :
        book \in [recovered -> {Opened(s, d, e, 0, 0) :
                                  s \in Symbols, d \in Sides, e \in Prices}]
  BY DEF Init
<1>2. \A s \in Symbols, d \in Sides, e \in Prices :
        /\ Opened(s, d, e, 0, 0) \in Position
        /\ PositionInv(Opened(s, d, e, 0, 0))
  BY OpenedInv, PositionBookAssumption, 0 \in 0..MaxPrice DEF PositionBookAssumption
<1>3. \A id \in recovered : book[id] \in Position /\ PositionInv(book[id])
  BY <1>1, <1>2
<1>4. book \in [recovered -> Position]
  BY <1>1, <1>3
<1>5. QED
  BY <1>1, <1>3, <1>4 DEF TypeOK, BookInv

\* Every operation keeps the book well typed and keeps the invariant of every
\* position in it.
LEMMA StepInv == TypeOK /\ BookInv /\ [Next]_book => TypeOK' /\ BookInv'
<1> SUFFICES ASSUME TypeOK, BookInv, [Next]_book PROVE TypeOK' /\ BookInv'
  OBVIOUS
<1>1. PICK open \in SUBSET Ids : book \in [open -> Position]
  BY DEF TypeOK
<1>2. ASSUME NEW S \in SUBSET Ids,
             book' = [i \in S |-> book'[i]],
             \A i \in S : book'[i] \in Position /\ PositionInv(book'[i])
      PROVE  TypeOK' /\ BookInv'
  <2>1. book' \in [S -> Position]
    BY <1>2
  <2>2. QED
    BY <1>2, <2>1 DEF TypeOK, BookInv
<1>3. ASSUME NEW id \in Ids, OpenPosition(id) PROVE TypeOK' /\ BookInv'
  <2>1. PICK s \in Symbols, d \in Sides, e \in Prices, stop \in Prices, tp \in Prices :
          book' = [i \in (DOMAIN book) \union {id} |->
                     IF i = id THEN Opened(s, d, e, stop, tp) ELSE book[i]]
    BY <1>3 DEF OpenPosition
  <2>2. /\ Opened(s, d, e, stop, tp) \in Position
        /\ PositionInv(Opened(s, d, e, stop, tp))
    BY OpenedInv, PositionBookAssumption, stop \in 0..MaxPrice, tp \in 0..MaxPrice
       DEF Prices, PositionBookAssumption
  <2> DEFINE S == (DOMAIN book) \union {id}
  <2>3. S \in SUBSET Ids /\ book' = [i \in S |-> book'[i]]
    BY <1>1, <2>1
  <2>4. \A i \in S : book'[i] \in Position /\ PositionInv(book'[i])
    BY <1>1, <2>1, <2>2 DEF BookInv
  <2>5. QED
    BY <1>2, <2>3, <2>4
<1>4. ASSUME NEW id \in Ids, CloseById(id) PROVE TypeOK' /\ BookInv'
  <2> DEFINE S == (DOMAIN book) \ {id}
  <2>1. S \in SUBSET Ids /\ book' = [i \in S |-> book'[i]]
    BY <1>1, <1>4 DEF CloseById
  <2>2. \A i \in S : book'[i] \in Position /\ PositionInv(book'[i])
    BY <1>1, <1>4 DEF CloseById, BookInv
  <2>3. QED
    BY <1>2, <2>1, <2>2
<1>5. ASSUME NEW s \in Symbols, NEW price \in Prices, CheckExits(s, price)
      PROVE  TypeOK' /\ BookInv'
  <2> DEFINE stays == {i \in DOMAIN book :
                         ~(book[i].symbol = s /\ ExitReason(book[i], price) # "None")}
  <2>1. book' = [i \in stays |-> IF book[i].symbol = s THEN Ratchet(book[i], price)
                                                       ELSE book[i]]
    BY <1>5 DEF CheckExits
  <2>2. ASSUME NEW i \in stays
        PROVE  book'[i] \in Position /\ PositionInv(book'[i])
    <3>1. book[i] \in Position /\ PositionInv(book[i])
      BY <1>1 DEF BookInv
    <3>2. Ratchet(book[i], price) \in Position /\ PositionInv(Ratchet(book[i], price))
      BY <3>1, RatchetType, RatchetInv
    <3>3. QED
      BY <2>1, <3>1, <3>2
  <2>3. stays \in SUBSET Ids /\ book' = [i \in stays |-> book'[i]]
    BY <1>1, <2>1
  <2>4. QED
    BY <1>2, <2>2, <2>3
<1>6. ASSUME Elapse PROVE TypeOK' /\ BookInv'
  <2>1. ASSUME NEW i \in DOMAIN book
        PROVE  book'[i] \in Position /\ PositionInv(book'[i])
    <3>1. book[i] \in Position /\ PositionInv(book[i])
      BY <1>1 DEF BookInv
    <3>2. PICK a : a = IF book[i].age <= MaxHold THEN book[i].age + 1 ELSE book[i].age
      OBVIOUS
    <3>3. a \in 0..(MaxHold + 1)
      BY <3>1, <3>2, PositionBookAssumption DEF Position, PositionBookAssumption
    <3>4. book'[i] = [book[i] EXCEPT !.age = a]
      BY <1>6, <3>2 DEF Elapse
    <3>5. QED
      BY <3>1, <3>3, <3>4, AgeInv
  <2>2. book' = [i \in DOMAIN book |-> book'[i]]
    BY <1>6 DEF Elapse
  <2>3. QED
    BY <1>1, <1>2, <2>1, <2>2
<1>7. CASE UNCHANGED book
  BY <1>7 DEF TypeOK, BookInv
<1>8. QED
  BY <1>3, <1>4, <1>5, <1>6, <1>7 DEF Next

\* The tracker is well typed in every reachable state.
THEOREM TypeTheorem == Spec => []TypeOK
<1>1. Spec => [](TypeOK /\ BookInv)
  BY InitInv, StepInv, PTL DEF Spec
<1>2. QED
  BY <1>1, PTL

\* Once armed, a breakeven stop never stands on the losing side of the entry.
THEOREM BreakevenTheorem == Spec => []BreakevenKeepsEntry
<1>1. Spec => [](TypeOK /\ BookInv)
  BY InitInv, StepInv, PTL DEF Spec
<1>2. BookInv => BreakevenKeepsEntry
  BY DEF BookInv, PositionInv, BreakevenKeepsEntry
<1>3. QED
  BY <1>1, <1>2, PTL

\* A trailing stop holds at least half of the best profit ever checked.
THEOREM TrailTheorem == Spec => []TrailLocksHalfOfBest
<1>1. Spec => [](TypeOK /\ BookInv)
  BY InitInv, StepInv, PTL DEF Spec
<1>2. BookInv => TrailLocksHalfOfBest
  BY DEF BookInv, PositionInv, TrailLocksHalfOfBest
<1>3. QED
  BY <1>1, <1>2, PTL

\* No tick loosens a stop that was on the right side of its entry.
THEOREM TightenTheorem == Spec => StopNeverLoosens
<1> DEFINE Tightens ==
      \A s \in Symbols, price \in Prices : CheckExits(s, price) =>
        \A id \in DOMAIN book \intersect DOMAIN book' :
          (/\ book[id].stop2 > 0
           /\ \/ book[id].breakeven
              \/ Ahead(book[id].side, 2 * book[id].entry, book[id].stop2) >= 0)
          => Ahead(book[id].side, book'[id].stop2, book[id].stop2) >= 0
<1>1. TypeOK => Tightens
  <2> SUFFICES ASSUME TypeOK,
                      NEW s \in Symbols, NEW price \in Prices, CheckExits(s, price),
                      NEW id \in DOMAIN book \intersect DOMAIN book',
                      \/ book[id].breakeven
                      \/ Ahead(book[id].side, 2 * book[id].entry, book[id].stop2) >= 0
               PROVE  Ahead(book[id].side, book'[id].stop2, book[id].stop2) >= 0
    OBVIOUS
  <2>1. book[id] \in Position
    BY DEF TypeOK
  <2>2. book'[id] = IF book[id].symbol = s THEN Ratchet(book[id], price) ELSE book[id]
    BY DEF CheckExits
  <2>3. Ahead(book[id].side, book[id].stop2, book[id].stop2) >= 0
    BY <2>1 DEF Position, Ahead
  <2>4. QED
    BY <2>1, <2>2, <2>3, RatchetTightens
<1>2. TypeOK /\ [Next]_book => [Tightens]_book
  BY <1>1
<1>3. Spec => []TypeOK
  BY TypeTheorem
<1>4. QED
  BY <1>2, <1>3, PTL DEF Spec, StopNeverLoosens
=============================================================================
