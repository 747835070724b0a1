-------------------------- MODULE LearningLoopProofs --------------------------
(***************************************************************************)
(* Proofs about the way from a closed trade to a lesson, for any setups,    *)
(* pnl, thresholds, window, number of refreshes and of crashes: the model   *)
(* is well typed, a journal row with another setup's columns has an overlap *)
(* of brain outcomes behind it, Kelly statistics grow with the refreshes    *)
(* and no faster, and a pause is exactly what the trades justify.           *)
(*                                                                         *)
(* The monitor lags, so the invariants speak of the events it has not       *)
(* handled: what the journal holds now and what those will make of it.      *)
(***************************************************************************)
EXTENDS LearningLoop, FiniteSetTheorems, SequenceTheorems, TLAPS

-----------------------------------------------------------------------------
(* The inductive invariants *)

\* Events and open positions bear the client id of a filled setup.
Named(q, b, st) ==
  /\ \A id \in DOMAIN b : ClientIdOf[b[id]] = id /\ st[b[id]] = "filled"
  /\ \A i \in 1..Len(q) : q[i].type # "Brain" =>
       ClientIdOf[q[i].of] = q[i].id /\ st[q[i].of] = "filled"
  /\ \A i \in 1..Len(q) : q[i].type = "Closed" => q[i].pnl \in Pnls

TypeInv == TypeOK /\ Named(inbox, book, stage)

OutcomeOf(e, symbol) == e.type = "Brain" /\ SymbolOf[e.of] = symbol

\* When the monitor comes to position p, t is the last outcome of its symbol.
LastIs(q, lb, p, t) ==
  \/ \E i \in 1..(p - 1) :
       /\ q[i].type = "Brain" /\ q[i].of = t
       /\ \A j \in (i + 1)..(p - 1) : ~OutcomeOf(q[j], SymbolOf[t])
  \/ /\ \A j \in 1..(p - 1) : ~OutcomeOf(q[j], SymbolOf[t])
     /\ lb[SymbolOf[t]] = t

\* A setup that nothing overtook is the last of its symbol, now and when its
\* fill is handled.
LastInv(q, lb, st, over) ==
  /\ \A t \in Setups : st[t] = "judged" /\ t \notin over => LastIs(q, lb, Len(q) + 1, t)
  /\ \A i \in 1..Len(q) :
       q[i].type = "Filled" /\ q[i].of \notin over => LastIs(q, lb, i, q[i].of)

AttributionInv ==
  LastInv(inbox, lastBrain, stage, overtaken) /\ MisattributionNeedsOverlap

Pending(q) == {i \in 1..Len(q) : q[i].type = "Closed"}

\* The closes under way have their places in truth, in order, behind those
\* the journal holds.
PlacedBy(f, q, n, total) ==
  /\ f \in [Pending(q) -> Nat]
  /\ \A i \in Pending(q) : n < f[i] /\ f[i] <= total
  /\ \A i, j \in Pending(q) : i < j => f[i] < f[j]

Placed(q, n, total) == n <= total /\ \E f : PlacedBy(f, q, n, total)

CountedAtMost(w, l, trades, times) == w + l <= trades * (times + 1)

KellyInv ==
  /\ Placed(inbox, Len(closed), Len(truth))
  /\ CountedAtMost(wins, losses, Len(truth), refreshes)

\* Client ids were unique, nothing crashed, and no overtaken setup traded.
Clean == ~irregular /\ \A s \in overtaken : stage[s] # "filled"

\* The row of the id is there, or its fill is handled before position p.
Journaled(rs, q, p, id) ==
  id \in DOMAIN rs \/ \E i \in 1..(p - 1) : q[i].type = "Filled" /\ q[i].id = id

\* Every open position and every close under way will find its row.
RowsInv(rs, q, b, st) ==
  /\ \A s, t \in Setups :
       st[s] = "filled" /\ st[t] = "filled" /\ ClientIdOf[s] = ClientIdOf[t] => s = t
  /\ \A id \in DOMAIN rs : ClientIdOf[rs[id]] = id /\ st[rs[id]] = "filled"
  /\ \A id \in DOMAIN b : Journaled(rs, q, Len(q) + 1, id)
  /\ \A i \in Pending(q) : Journaled(rs, q, i, q[i].id)

\* A client id is open, about to be closed in the journal, or closed there.
OnceInv(cl, q, b) ==
  /\ \A i \in Pending(q) : q[i].id \notin DOMAIN b
  /\ \A k \in 1..Len(cl) : cl[k].id \notin DOMAIN b
  /\ \A i \in Pending(q), k \in 1..Len(cl) : cl[k].id # q[i].id
  /\ \A i, j \in Pending(q) : q[i].id = q[j].id => i = j

SameTrade(a, b) == a.of = b.of /\ a.pnl = b.pnl

\* truth is what the journal holds, and then what the closes under way say.
ToldBy(f, cl, q, tr) ==
  /\ PlacedBy(f, q, Len(cl), Len(tr))
  /\ \A k \in (Len(cl) + 1)..Len(tr) : \E i \in Pending(q) : f[i] = k
  /\ \A i \in Pending(q) : SameTrade(tr[f[i]], q[i])
  /\ \A k \in 1..Len(cl) : SameTrade(tr[k], cl[k])

Told(cl, q, tr) == Len(cl) <= Len(tr) /\ \E f : ToldBy(f, cl, q, tr)

JournalInv ==
  Clean => RowsInv(rows, inbox, book, stage) /\ OnceInv(closed, inbox, book)
           /\ Told(closed, inbox, truth)

-----------------------------------------------------------------------------
(* Operators *)

LEMMA MinOfTwo ==
  ASSUME NEW a \in Int, NEW b \in Int
  PROVE  Min({a, b}) \in {a, b} /\ Min({a, b}) <= a /\ Min({a, b}) <= b
  BY DEF Min

LEMMA MaxOfTwo ==
  ASSUME NEW a \in Int, NEW b \in Int
  PROVE  Max({a, b}) \in {a, b} /\ a <= Max({a, b}) /\ b <= Max({a, b})
  BY DEF Max

LEMMA ConstantFacts ==
  /\ OutcomeCap \in Nat \ {0} /\ WindowSize \in Nat \ {0} /\ StreakPause \in Nat \ {0}
  /\ MaxTime \in Nat /\ MaxCrashes \in Nat
  /\ Pnls \subseteq Int /\ Nobody \notin Setups
  /\ \A s \in Setups : SymbolOf[s] \in Symbols /\ ClientIdOf[s] \in Ids
  BY LearningAssumption DEF Symbols, Ids

\* How many of a list are profits, how many losses.
LEMMA Counted ==
  ASSUME NEW pnls \in Seq(Int)
  PROVE  /\ Profits(pnls) \in Nat /\ Losses(pnls) \in Nat
         /\ Profits(pnls) + Losses(pnls) <= Len(pnls)
<1> DEFINE U == {i \in 1..Len(pnls) : pnls[i] > 0}
           D == {i \in 1..Len(pnls) : pnls[i] < 0}
<1>1. Len(pnls) \in Nat /\ \A i \in 1..Len(pnls) : pnls[i] \in Int
  BY ElementOfSeq, LenProperties
<1>2. IsFiniteSet(1..Len(pnls)) /\ Cardinality(1..Len(pnls)) = Len(pnls)
  <2>1. 1 \in Int /\ Len(pnls) \in Int
    BY <1>1
  <2>2. /\ IsFiniteSet(1..Len(pnls))
        /\ Cardinality(1..Len(pnls)) = IF 1 > Len(pnls) THEN 0 ELSE Len(pnls) - 1 + 1
    BY <2>1, FS_Interval
  <2>3. QED
    BY <1>1, <2>2
<1>3. /\ U \subseteq 1..Len(pnls) /\ D \subseteq 1..Len(pnls)
      /\ U \union D \subseteq 1..Len(pnls) /\ U \intersect D = {}
  BY <1>1
<1> HIDE DEF U, D
<1>4. IsFiniteSet(U) /\ IsFiniteSet(D)
  BY <1>2, <1>3, FS_Subset
<1>5. Cardinality(U) \in Nat /\ Cardinality(D) \in Nat
  BY <1>4, FS_CardinalityType
<1>6. Cardinality(U \union D) = Cardinality(U) + Cardinality(D) - Cardinality(U \intersect D)
  BY <1>4, FS_Union
<1>7. Cardinality(U \intersect D) = 0
  BY <1>3, FS_EmptySet
<1>8. Cardinality(U \union D) <= Cardinality(1..Len(pnls))
  BY <1>2, <1>3, FS_Subset
<1>9. Cardinality(U) + Cardinality(D) <= Len(pnls)
  BY <1>2, <1>5, <1>6, <1>7, <1>8
<1>10. Profits(pnls) = Cardinality(U) /\ Losses(pnls) = Cardinality(D)
  BY DEF Profits, Losses, U, D
<1>11. QED
  BY <1>5, <1>9, <1>10

\* Record keeps both lists at their cap, and adds no more than it is given.
LEMMA RecordEffect ==
  ASSUME NEW pnls \in Seq(Int), Record(pnls),
         wins \in 0..OutcomeCap, losses \in 0..OutcomeCap
  PROVE  \E w, l \in 0..OutcomeCap : /\ wins' = w /\ losses' = l
                                    /\ w + l <= wins + losses + Len(pnls)
<1>1. /\ Profits(pnls) \in Nat /\ Losses(pnls) \in Nat
      /\ Profits(pnls) + Losses(pnls) <= Len(pnls)
  BY Counted
<1>2. Len(pnls) \in Nat /\ OutcomeCap \in Nat /\ wins \in Nat /\ losses \in Nat
  BY ConstantFacts, LenProperties
<1> DEFINE w == wins + Profits(pnls)
           l == losses + Losses(pnls)
<1>3. w \in Nat /\ l \in Nat /\ w + l <= wins + losses + Len(pnls)
  BY <1>1, <1>2
<1>4. wins' = Min({OutcomeCap, w}) /\ losses' = Min({OutcomeCap, l})
  BY DEF Record
<1> HIDE DEF w, l
<1> w \in Int /\ l \in Int /\ OutcomeCap \in Int
  BY <1>2, <1>3
<1>5. /\ Min({OutcomeCap, w}) \in {OutcomeCap, w}
      /\ Min({OutcomeCap, w}) <= OutcomeCap /\ Min({OutcomeCap, w}) <= w
      /\ Min({OutcomeCap, l}) \in {OutcomeCap, l}
      /\ Min({OutcomeCap, l}) <= OutcomeCap /\ Min({OutcomeCap, l}) <= l
  BY MinOfTwo
<1> DEFINE u == Min({OutcomeCap, w})
           v == Min({OutcomeCap, l})
<1>6. /\ u \in 0..OutcomeCap /\ v \in 0..OutcomeCap /\ wins' = u /\ losses' = v
      /\ u <= w /\ v <= l
  BY <1>2, <1>3, <1>4, <1>5
<1> HIDE DEF u, v
<1>7. u + v <= wins + losses + Len(pnls)
  BY <1>2, <1>3, <1>6
<1>8. QED
  BY <1>6, <1>7

\* The window: its last rows at the same places as in the list.
LEMMA WindowOf ==
  ASSUME NEW S, NEW trades \in Seq(S)
  PROVE  /\ LastOf(trades) \in Seq(S)
         /\ Len(LastOf(trades)) <= Len(trades)
         /\ \E first \in 1..(Len(trades) + 1) :
              /\ first = Max({1, Len(trades) - WindowSize + 1})
              /\ Len(LastOf(trades)) = Len(trades) - first + 1
              /\ \A i \in 1..Len(LastOf(trades)) : LastOf(trades)[i] = trades[first + i - 1]
<1> DEFINE first == Max({1, Len(trades) - WindowSize + 1})
<1>1. /\ Len(trades) \in Nat /\ WindowSize \in Nat \ {0}
      /\ \A i \in 1..Len(trades) : trades[i] \in S
  BY LenProperties, ConstantFacts, ElementOfSeq
<1>2. first \in 1..(Len(trades) + 1)
  <2>1. Len(trades) - WindowSize + 1 \in Int
    BY <1>1
  <2>2. first \in {1, Len(trades) - WindowSize + 1} /\ 1 <= first
    BY <2>1, MaxOfTwo, 1 \in Int DEF first
  <2>3. QED
    BY <1>1, <2>2
<1>3. LastOf(trades) = SubSeq(trades, first, Len(trades))
  BY DEF LastOf
<1> HIDE DEF first
<1>4. \A i \in first..Len(trades) : trades[i] \in S
  BY <1>1, <1>2
<1>5. /\ LastOf(trades) \in Seq(S)
      /\ Len(LastOf(trades)) = IF first <= Len(trades) THEN Len(trades) - first + 1 ELSE 0
      /\ \A i \in 1..(Len(trades) - first + 1) : LastOf(trades)[i] = trades[first + i - 1]
  BY <1>1, <1>2, <1>3, <1>4, SubSeqProperties
<1>6. Len(LastOf(trades)) = Len(trades) - first + 1
  BY <1>1, <1>2, <1>5
<1>7. first = Max({1, Len(trades) - WindowSize + 1})
  BY DEF first
<1>8. Len(LastOf(trades)) <= Len(trades)
  BY <1>1, <1>2, <1>6
<1>9. QED
  BY <1>2, <1>5, <1>6, <1>7, <1>8

LEMMA PnlsOfWindow ==
  ASSUME closed \in Seq(Row)
  PROVE  /\ PnlsOf(ClosedTrades) \in Seq(Int)
         /\ Len(PnlsOf(ClosedTrades)) <= Len(closed)
<1>1. ClosedTrades \in Seq(Row) /\ Len(ClosedTrades) <= Len(closed)
  BY WindowOf DEF ClosedTrades
<1>2. Len(ClosedTrades) \in Nat /\ \A i \in 1..Len(ClosedTrades) : ClosedTrades[i] \in Row
  BY <1>1, LenProperties, ElementOfSeq
<1>3. \A i \in 1..Len(ClosedTrades) : ClosedTrades[i].pnl \in Int
  BY <1>2, ConstantFacts DEF Row
<1>4. PnlsOf(ClosedTrades) \in [1..Len(ClosedTrades) -> Int]
  BY <1>3 DEF PnlsOf
<1>5. PnlsOf(ClosedTrades) \in Seq(Int) /\ Len(PnlsOf(ClosedTrades)) = Len(ClosedTrades)
  BY <1>2, <1>4, SeqDef
<1>6. QED
  BY <1>1, <1>5

-----------------------------------------------------------------------------
(* What an action does to the inbox *)

Appended(q, e, r) ==
  /\ Len(r) = Len(q) + 1 /\ r[Len(q) + 1] = e
  /\ \A i \in 1..Len(q) : r[i] = q[i]

Shifted(q, r) ==
  /\ Len(q) \in Nat \ {0} /\ Len(r) = Len(q) - 1
  /\ \A i \in 1..(Len(q) - 1) : r[i] = q[i + 1]

LEMMA EventFields ==
  ASSUME NEW type, NEW s, NEW id, NEW pnl
  PROVE  /\ Event(type, s, id, pnl).type = type /\ Event(type, s, id, pnl).of = s
         /\ Event(type, s, id, pnl).id = id /\ Event(type, s, id, pnl).pnl = pnl
  BY DEF Event

LEMMA InboxAppended ==
  ASSUME inbox \in Seq(Events), NEW e \in Events
  PROVE  /\ Append(inbox, e) \in Seq(Events) /\ Len(inbox) \in Nat
         /\ Appended(inbox, e, Append(inbox, e))
  BY AppendProperties, LenProperties DEF Appended

LEMMA InboxShifted ==
  ASSUME inbox \in Seq(Events), inbox # <<>>
  PROVE  /\ Tail(inbox) \in Seq(Events) /\ Head(inbox) = inbox[1] /\ inbox[1] \in Events
         /\ Shifted(inbox, Tail(inbox))
<1>1. Len(inbox) \in Nat \ {0}
  BY EmptySeq
<1>2. inbox[1] \in Events
  BY <1>1, ElementOfSeq
<1>3. Head(inbox) = inbox[1]
  OBVIOUS
<1>4. /\ Tail(inbox) \in Seq(Events) /\ Len(Tail(inbox)) = Len(inbox) - 1
      /\ \A i \in 1..Len(Tail(inbox)) : Tail(inbox)[i] = inbox[i + 1]
  BY HeadTailProperties
<1>5. QED
  BY <1>1, <1>2, <1>3, <1>4 DEF Shifted
-----------------------------------------------------------------------------
(* What a close does to the journal *)

Once(cl) == \A i, j \in 1..Len(cl) : cl[i].id = cl[j].id => i = j

\* The rows without that of the id.
LEMMA ClosedButOf ==
  ASSUME closed \in Seq(Row), Once(closed), NEW id
  PROVE  /\ ClosedBut(id) \in Seq(Row) /\ Len(ClosedBut(id)) <= Len(closed)
         /\ Once(ClosedBut(id))
         /\ \A i \in 1..Len(ClosedBut(id)) :
              /\ ClosedBut(id)[i].id # id
              /\ \E k \in 1..Len(closed) : ClosedBut(id)[i] = closed[k]
         /\ (\A k \in 1..Len(closed) : closed[k].id # id) => ClosedBut(id) = closed
<1>1. Len(closed) \in Nat /\ \A i \in 1..Len(closed) : closed[i] \in Row
  BY LenProperties, ElementOfSeq
<1>2. CASE \A k \in 1..Len(closed) : closed[k].id # id
  <2>1. ClosedBut(id) = closed
    BY <1>2 DEF ClosedBut
  <2>2. QED
    BY <1>1, <1>2, <2>1
<1>3. CASE ~(\A k \in 1..Len(closed) : closed[k].id # id)
  <2> DEFINE at == CHOOSE i \in 1..Len(closed) : closed[i].id = id
  <2>1. at \in 1..Len(closed) /\ closed[at].id = id
    BY <1>3
  <2>2. ClosedBut(id) = SubSeq(closed, 1, at - 1) \o SubSeq(closed, at + 1, Len(closed))
    BY <1>3 DEF ClosedBut, RemoveAt
  <2> HIDE DEF at
  <2> DEFINE low == SubSeq(closed, 1, at - 1)
             high == SubSeq(closed, at + 1, Len(closed))
  <2>3. /\ at \in Nat /\ 1 <= at /\ at <= Len(closed)
        /\ 1 \in Int /\ at - 1 \in Int /\ at + 1 \in Int /\ Len(closed) \in Int
    BY <1>1, <2>1
  <2>4. /\ low \in Seq(Row)
        /\ Len(low) = IF 1 <= at - 1 THEN at - 1 - 1 + 1 ELSE 0
        /\ \A i \in 1..(at - 1 - 1 + 1) : low[i] = closed[1 + i - 1]
    BY <1>1, <2>3, SubSeqProperties
  <2>5. /\ high \in Seq(Row)
        /\ Len(high) = IF at + 1 <= Len(closed) THEN Len(closed) - (at + 1) + 1 ELSE 0
        /\ \A i \in 1..(Len(closed) - (at + 1) + 1) : high[i] = closed[at + 1 + i - 1]
    BY <1>1, <2>3, SubSeqProperties
  <2> HIDE DEF low, high
  <2>6. /\ Len(low) = at - 1 /\ \A i \in 1..(at - 1) : low[i] = closed[i]
    BY <2>3, <2>4
  <2>7. /\ Len(high) = Len(closed) - at
        /\ \A i \in 1..(Len(closed) - at) : high[i] = closed[at + i]
    BY <1>1, <2>3, <2>5
  <2>8. /\ low \o high \in Seq(Row)
        /\ Len(low \o high) = Len(low) + Len(high)
        /\ \A i \in 1..(Len(low) + Len(high)) :
             (low \o high)[i] = IF i <= Len(low) THEN low[i] ELSE high[i - Len(low)]
    BY <2>4, <2>5, ConcatProperties
  <2> DEFINE from(i) == IF i < at THEN i ELSE i + 1
  <2>9. /\ Len(low \o high) = Len(closed) - 1
        /\ \A i \in 1..(Len(closed) - 1) :
             /\ from(i) \in 1..Len(closed) /\ from(i) # at
             /\ (low \o high)[i] = closed[from(i)]
        /\ \A i, j \in 1..(Len(closed) - 1) : from(i) = from(j) => i = j
    <3>1. \A i \in 1..(Len(closed) - 1) : from(i) \in 1..Len(closed) /\ from(i) # at
      BY <1>1, <2>3
    <3>2. \A i, j \in 1..(Len(closed) - 1) : from(i) = from(j) => i = j
      BY <1>1, <2>3
    <3>3. Len(low \o high) = Len(closed) - 1
      BY <1>1, <2>3, <2>6, <2>7, <2>8
    <3>4. ASSUME NEW i \in 1..(Len(closed) - 1)
          PROVE  (low \o high)[i] = closed[from(i)]
      <4>1. (low \o high)[i] = IF i <= Len(low) THEN low[i] ELSE high[i - Len(low)]
        BY <1>1, <2>3, <2>6, <2>7, <2>8
      <4>2. CASE i < at
        BY <2>3, <2>6, <4>1, <4>2
      <4>3. CASE ~(i < at)
        <5>1. i - Len(low) = i + 1 - at /\ i + 1 - at \in 1..(Len(closed) - at)
          BY <1>1, <2>3, <2>6, <4>3
        <5>2. at + (i + 1 - at) = i + 1
          BY <2>3
        <5>3. high[i + 1 - at] = closed[at + (i + 1 - at)]
          <6>1. PICK k \in 1..(Len(closed) - at) : k = i + 1 - at
            BY <5>1
          <6>2. high[k] = closed[at + k]
            BY <2>7
          <6>3. QED BY <6>1, <6>2
        <5>4. QED
          BY <2>3, <2>6, <4>1, <4>3, <5>1, <5>2, <5>3
      <4>4. QED
        BY <1>1, <2>3, <4>2, <4>3
    <3>5. QED
      BY <3>1, <3>2, <3>3, <3>4
  <2>10. ClosedBut(id) = low \o high
    BY <2>2 DEF low, high
  <2>11. \A i \in 1..Len(closed) : closed[i].id = id => i = at
    BY <2>1 DEF Once
  <2>12. /\ Len(ClosedBut(id)) = Len(closed) - 1
         /\ \A i \in 1..(Len(closed) - 1) :
              /\ from(i) \in 1..Len(closed) /\ from(i) # at
              /\ ClosedBut(id)[i] = closed[from(i)]
         /\ \A i, j \in 1..(Len(closed) - 1) : from(i) = from(j) => i = j
    BY <2>9, <2>10
  <2> HIDE DEF from
  <2>13. Once(ClosedBut(id))
    BY <2>12 DEF Once
  <2>14. \A i \in 1..Len(ClosedBut(id)) :
           /\ ClosedBut(id)[i].id # id
           /\ \E k \in 1..Len(closed) : ClosedBut(id)[i] = closed[k]
    BY <2>11, <2>12
  <2>15. ClosedBut(id) \in Seq(Row) /\ Len(ClosedBut(id)) <= Len(closed)
    BY <1>1, <2>8, <2>10, <2>12
  <2>16. QED
    BY <1>3, <2>13, <2>14, <2>15
<1>4. QED
  BY <1>2, <1>3

\* The row moves or comes to the end; every other row stays.
LEMMA CloseTradeEffect ==
  ASSUME TypeOK, NEW id, NEW pnl \in Pnls, CloseTrade(id, pnl), UNCHANGED rows
  PROVE  /\ closed' \in Seq(Row) /\ Once(closed') /\ Len(closed') <= Len(closed) + 1
         /\ \A i \in 1..Len(closed') : closed'[i].id \in DOMAIN rows'
         /\ id \in DOMAIN rows /\ (\A k \in 1..Len(closed) : closed[k].id # id) =>
              Appended(closed, [id |-> id, of |-> rows[id], pnl |-> pnl, at |-> now], closed')
<1>1. /\ closed \in Seq(Row) /\ Once(closed) /\ now \in 0..MaxTime
      /\ \A i \in 1..Len(closed) : closed[i].id \in DOMAIN rows
      /\ DOMAIN rows \subseteq Ids /\ \A c \in DOMAIN rows : rows[c] \in Setups
  BY DEF TypeOK, Once
<1>2. Len(closed) \in Nat
  BY <1>1, LenProperties
<1>3. CASE id \notin DOMAIN rows
  BY <1>1, <1>2, <1>3 DEF CloseTrade
<1>4. CASE id \in DOMAIN rows
  <2> DEFINE row == [id |-> id, of |-> rows[id], pnl |-> pnl, at |-> now]
             but == ClosedBut(id)
  <2>1. row \in Row /\ row.id = id
    BY <1>1, <1>4 DEF Row
  <2>2. /\ but \in Seq(Row) /\ Len(but) <= Len(closed) /\ Once(but)
        /\ \A i \in 1..Len(but) :
             but[i].id # id /\ \E k \in 1..Len(closed) : but[i] = closed[k]
        /\ (\A k \in 1..Len(closed) : closed[k].id # id) => but = closed
    BY <1>1, ClosedButOf
  <2>3. closed' = Append(but, row)
    BY <1>4 DEF CloseTrade
  <2> HIDE DEF row, but
  <2>4. /\ closed' \in Seq(Row) /\ Len(but) \in Nat /\ Len(closed') = Len(but) + 1
        /\ \A i \in 1..Len(but) : closed'[i] = but[i]
        /\ closed'[Len(but) + 1] = row
    BY <2>1, <2>2, <2>3, AppendProperties, LenProperties
  <2>5. \A i \in 1..Len(closed') : i \in 1..Len(but) \/ i = Len(but) + 1
    BY <2>4
  <2>6. Once(closed')
    BY <2>1, <2>2, <2>4, <2>5 DEF Once
  <2>7. \A i \in 1..Len(closed') : closed'[i].id \in DOMAIN rows'
    BY <1>1, <1>4, <2>1, <2>2, <2>4, <2>5
  <2>8. (\A k \in 1..Len(closed) : closed[k].id # id) => Appended(closed, row, closed')
    BY <2>2, <2>4 DEF Appended
  <2>9. QED
    BY <1>2, <2>2, <2>4, <2>6, <2>7, <2>8 DEF row
<1>5. QED
  BY <1>3, <1>4
-----------------------------------------------------------------------------
(* The model is well typed *)

LEMMA TypeInit == Init => TypeInv
<1> SUFFICES ASSUME Init PROVE TypeInv
  OBVIOUS
<1>1. /\ now = 0 /\ due = TRUE /\ crashes = 0 /\ book = <<>> /\ inbox = <<>>
      /\ stage = [s \in Setups |-> "new"] /\ lastBrain = [y \in Symbols |-> Nobody]
      /\ rows = <<>> /\ closed = <<>> /\ wins = 0 /\ losses = 0
      /\ truth = <<>> /\ overtaken = {} /\ irregular = FALSE /\ refreshes = 0
  BY DEF Init
<1>2. /\ 0 \in 0..MaxTime /\ 0 \in 0..MaxCrashes /\ 0 \in 0..OutcomeCap
  BY ConstantFacts
<1>3. /\ <<>> \in Seq(Events) /\ <<>> \in Seq(Row) /\ <<>> \in Seq(Trade) /\ Len(<<>>) = 0
      /\ <<>> \in [{} -> Setups]
  BY EmptySeq
<1>4. (\E open \in SUBSET Ids : book \in [open -> Setups])
      /\ (\E known \in SUBSET Ids : rows \in [known -> Setups])
  BY <1>1, <1>3
<1>5. TypeOK
  <2>1. /\ now \in 0..MaxTime /\ due \in BOOLEAN /\ crashes \in 0..MaxCrashes
        /\ wins \in 0..OutcomeCap /\ losses \in 0..OutcomeCap
        /\ overtaken \subseteq Setups /\ irregular \in BOOLEAN /\ refreshes \in Nat
    BY <1>1, <1>2
  <2>2. stage \in [Setups -> {"new", "judged", "filled"}]
    BY <1>1
  <2>3. lastBrain \in [Symbols -> Setups \union {Nobody}]
    BY <1>1
  <2>4. inbox \in Seq(Events) /\ closed \in Seq(Row) /\ truth \in Seq(Trade)
    BY <1>1, <1>3
  <2>5. /\ \A i \in 1..Len(closed) : closed[i].id \in DOMAIN rows
        /\ \A i, j \in 1..Len(closed) : closed[i].id = closed[j].id => i = j
    BY <1>1, <1>3
  <2>6. QED
    BY <1>4, <2>1, <2>2, <2>3, <2>4, <2>5 DEF TypeOK
<1>6. Named(inbox, book, stage)
  BY <1>1, <1>3 DEF Named
<1>7. QED
  BY <1>5, <1>6 DEF TypeInv

LEMMA TypeFacts ==
  ASSUME TypeOK
  PROVE  /\ now \in Nat /\ Len(inbox) \in Nat /\ Len(closed) \in Nat /\ Len(truth) \in Nat
         /\ wins \in Nat /\ losses \in Nat /\ refreshes \in Nat
         /\ inbox \in Seq(Events) /\ \A i \in 1..Len(inbox) : inbox[i] \in Events
         /\ DOMAIN book \subseteq Ids /\ \A id \in DOMAIN book : book[id] \in Setups
         /\ DOMAIN rows \subseteq Ids /\ \A id \in DOMAIN rows : rows[id] \in Setups
         /\ stage \in [Setups -> {"new", "judged", "filled"}]
         /\ closed \in Seq(Row) /\ truth \in Seq(Trade) /\ Once(closed)
<1>1. /\ inbox \in Seq(Events) /\ closed \in Seq(Row) /\ truth \in Seq(Trade)
      /\ now \in 0..MaxTime /\ wins \in 0..OutcomeCap /\ losses \in 0..OutcomeCap
      /\ stage \in [Setups -> {"new", "judged", "filled"}] /\ refreshes \in Nat
      /\ Once(closed)
      /\ \E open \in SUBSET Ids : book \in [open -> Setups]
      /\ \E known \in SUBSET Ids : rows \in [known -> Setups]
  BY DEF TypeOK, Once
<1>2. Len(inbox) \in Nat /\ Len(closed) \in Nat /\ Len(truth) \in Nat
  BY <1>1, LenProperties
<1>3. \A i \in 1..Len(inbox) : inbox[i] \in Events
  BY <1>1, ElementOfSeq
<1>4. DOMAIN book \subseteq Ids /\ \A id \in DOMAIN book : book[id] \in Setups
  BY <1>1
<1>5. DOMAIN rows \subseteq Ids /\ \A id \in DOMAIN rows : rows[id] \in Setups
  BY <1>1
<1>6. now \in Nat /\ wins \in Nat /\ losses \in Nat
  BY <1>1, ConstantFacts
<1>7. QED
  BY <1>1, <1>2, <1>3, <1>4, <1>5, <1>6

\* The fields of an event.
LEMMA EventRange ==
  ASSUME NEW e \in Events
  PROVE  /\ e.type \in {"Brain", "Filled", "Closed"} /\ e.of \in Setups
         /\ e.id \in Ids /\ e.pnl \in Pnls \union {0}
  BY DEF Events

\* Named, of an inbox one event longer, with a setup further on.
LEMMA NamedAppended ==
  ASSUME NEW q, NEW r, NEW e, NEW b, NEW st, NEW b2, NEW st2,
         Named(q, b, st), Appended(q, e, r), Len(q) \in Nat,
         \A i \in 1..Len(q) : st[q[i].of] = "filled" => st2[q[i].of] = "filled",
         \A id \in DOMAIN b2 : ClientIdOf[b2[id]] = id /\ st2[b2[id]] = "filled",
         e.type # "Brain" => ClientIdOf[e.of] = e.id /\ st2[e.of] = "filled",
         e.type = "Closed" => e.pnl \in Pnls
  PROVE  Named(r, b2, st2)
<1>1. /\ r[Len(q) + 1] = e
      /\ \A i \in 1..Len(q) : r[i] = q[i]
      /\ \A i \in 1..Len(r) : i = Len(q) + 1 \/ i \in 1..Len(q)
  BY DEF Appended
<1>2. QED
  BY <1>1 DEF Named

LEMMA NamedShifted ==
  ASSUME NEW q, NEW r, NEW b, NEW st, Named(q, b, st), Shifted(q, r)
  PROVE  Named(r, b, st)
<1>1. \A i \in 1..Len(r) : i + 1 \in 1..Len(q) /\ r[i] = q[i + 1]
  BY DEF Shifted
<1>2. QED
  BY <1>1 DEF Named
\* The events appended and handled, as every proof below needs them.
LEMMA BrainEvent ==
  ASSUME TypeInv, NEW s \in Setups, BrainOutcome(s)
  PROVE  LET e == Event("Brain", s, ClientIdOf[s], 0) IN
         /\ e.type = "Brain" /\ e.of = s
         /\ inbox' \in Seq(Events) /\ Len(inbox) \in Nat /\ Appended(inbox, e, inbox')
<1> DEFINE e == Event("Brain", s, ClientIdOf[s], 0)
<1>1. e \in Events
  BY ConstantFacts DEF Event, Events
<1>2. inbox' = Append(inbox, e) /\ inbox \in Seq(Events)
  BY DEF BrainOutcome, TypeInv, TypeOK
<1>3. QED
  BY <1>1, <1>2, InboxAppended, EventFields

LEMMA FilledEvent ==
  ASSUME TypeInv, NEW s \in Setups, OrderFilled(s)
  PROVE  LET e == Event("Filled", s, ClientIdOf[s], 0) IN
         /\ e.type = "Filled" /\ e.of = s /\ e.id = ClientIdOf[s]
         /\ inbox' \in Seq(Events) /\ Len(inbox) \in Nat /\ Appended(inbox, e, inbox')
<1> DEFINE e == Event("Filled", s, ClientIdOf[s], 0)
<1>1. e \in Events
  BY ConstantFacts DEF Event, Events
<1>2. inbox' = Append(inbox, e) /\ inbox \in Seq(Events)
  BY DEF OrderFilled, TypeInv, TypeOK
<1>3. QED
  BY <1>1, <1>2, InboxAppended, EventFields

LEMMA ClosedEvent ==
  ASSUME TypeInv, NEW id \in Ids, PositionClosed(id)
  PROVE  \E pnl \in Pnls : LET e == Event("Closed", book[id], id, pnl) IN
         /\ e.type = "Closed" /\ e.of = book[id] /\ e.id = id /\ e.pnl = pnl
         /\ inbox' \in Seq(Events) /\ Len(inbox) \in Nat /\ Appended(inbox, e, inbox')
         /\ Record(<<pnl>>)
         /\ truth' \in Seq(Trade) /\ Appended(truth, [of |-> book[id], pnl |-> pnl], truth')
<1>1. /\ inbox \in Seq(Events) /\ truth \in Seq(Trade) /\ book[id] \in Setups
  BY TypeFacts DEF PositionClosed, TypeInv
<1>2. PICK pnl \in Pnls : /\ inbox' = Append(inbox, Event("Closed", book[id], id, pnl))
                          /\ Record(<<pnl>>)
                          /\ truth' = Append(truth, [of |-> book[id], pnl |-> pnl])
  BY DEF PositionClosed
<1> DEFINE e == Event("Closed", book[id], id, pnl)
           t == [of |-> book[id], pnl |-> pnl]
<1>3. e \in Events /\ t \in Trade
  BY <1>1 DEF Event, Events, Trade
<1>4. e.type = "Closed" /\ e.of = book[id] /\ e.id = id /\ e.pnl = pnl
  BY EventFields
<1>5. inbox' \in Seq(Events) /\ Len(inbox) \in Nat /\ Appended(inbox, e, inbox')
  BY <1>1, <1>2, <1>3, InboxAppended
<1>6. truth' \in Seq(Trade) /\ Appended(truth, t, truth')
  BY <1>1, <1>2, <1>3, AppendProperties, LenProperties DEF Appended
<1>7. QED
  BY <1>2, <1>4, <1>5, <1>6

LEMMA HandledEvent ==
  ASSUME TypeInv, Monitor
  PROVE  /\ inbox[1] \in Events /\ inbox' \in Seq(Events) /\ Shifted(inbox, inbox')
         /\ 1 \in 1..Len(inbox)
         /\ \/ inbox[1].type = "Brain" /\ OnBrainOutcome(inbox[1]) /\ UNCHANGED journal
            \/ inbox[1].type = "Filled" /\ OnOrderFilled(inbox[1]) /\ UNCHANGED <<lastBrain, closed>>
            \/ inbox[1].type = "Closed" /\ OnPositionClosed(inbox[1]) /\ UNCHANGED <<lastBrain, rows>>
         /\ UNCHANGED <<stage, book, lessons, kelly, clock, crashes, history>>
<1>1. inbox # <<>> /\ inbox' = Tail(inbox) /\ inbox \in Seq(Events)
  BY DEF Monitor, TypeInv, TypeOK
<1>2. /\ inbox' \in Seq(Events) /\ Head(inbox) = inbox[1] /\ inbox[1] \in Events
      /\ Shifted(inbox, inbox')
  BY <1>1, InboxShifted
<1>3. 1 \in 1..Len(inbox)
  BY <1>2 DEF Shifted
<1>4. QED
  BY <1>2, <1>3 DEF Monitor

\* The rows are a function of client ids.
LEMMA InsertTradeEffect ==
  ASSUME TypeOK, NEW id \in Ids, NEW by \in Setups, InsertTrade(id, by)
  PROVE  /\ \E known \in SUBSET Ids : rows' \in [known -> Setups]
         /\ DOMAIN rows' = (DOMAIN rows) \union {id}
         /\ \A c \in DOMAIN rows : rows'[c] = rows[c]
         /\ id \notin DOMAIN rows => rows'[id] = by
<1>1. DOMAIN rows \subseteq Ids /\ \A c \in DOMAIN rows : rows[c] \in Setups
  BY TypeFacts
<1>2. CASE id \in DOMAIN rows
  BY <1>2 DEF InsertTrade, TypeOK
<1>3. CASE id \notin DOMAIN rows
  <2>1. rows' = [c \in (DOMAIN rows) \union {id} |-> IF c = id THEN by ELSE rows[c]]
    BY <1>3 DEF InsertTrade
  <2>2. rows' \in [(DOMAIN rows) \union {id} -> Setups]
    BY <1>1, <2>1
  <2>3. (DOMAIN rows) \union {id} \in SUBSET Ids
    BY <1>1
  <2>4. QED
    BY <1>3, <2>1, <2>2, <2>3
<1>4. QED
  BY <1>2, <1>3
\* TypeOK, as the parts that different actions touch.
JournalTyped(rs, cl) ==
  /\ \E known \in SUBSET Ids : rs \in [known -> Setups]
  /\ cl \in Seq(Row) /\ Once(cl)
  /\ \A i \in 1..Len(cl) : cl[i].id \in DOMAIN rs

OutcomesTyped(w, l) == w \in 0..OutcomeCap /\ l \in 0..OutcomeCap

OpenTyped(b) == \E open \in SUBSET Ids : b \in [open -> Setups]

RestTyped(n, d, c, st, lb, over, irr, ref) ==
  /\ n \in 0..MaxTime /\ d \in BOOLEAN /\ c \in 0..MaxCrashes
  /\ st \in [Setups -> {"new", "judged", "filled"}]
  /\ lb \in [Symbols -> Setups \union {Nobody}]
  /\ over \subseteq Setups /\ irr \in BOOLEAN /\ ref \in Nat

LEMMA TypeParts ==
  /\ TypeOK <=> /\ JournalTyped(rows, closed) /\ OutcomesTyped(wins, losses)
                /\ OpenTyped(book) /\ inbox \in Seq(Events) /\ truth \in Seq(Trade)
                /\ RestTyped(now, due, crashes, stage, lastBrain, overtaken, irregular, refreshes)
  BY DEF TypeOK, JournalTyped, OutcomesTyped, OpenTyped, RestTyped, Once

LEMMA TypePartsAfter ==
  /\ JournalTyped(rows', closed') /\ OutcomesTyped(wins', losses')
  /\ OpenTyped(book') /\ inbox' \in Seq(Events) /\ truth' \in Seq(Trade)
  /\ RestTyped(now', due', crashes', stage', lastBrain', overtaken', irregular', refreshes')
  => TypeOK'
  BY DEF TypeOK, JournalTyped, OutcomesTyped, OpenTyped, RestTyped, Once

LEMMA TypeBrain ==
  ASSUME TypeInv, NEW s \in Setups, BrainOutcome(s)
  PROVE  TypeInv'
<1> DEFINE e == Event("Brain", s, ClientIdOf[s], 0)
<1>1. /\ e.type = "Brain" /\ inbox' \in Seq(Events) /\ Len(inbox) \in Nat
      /\ Appended(inbox, e, inbox')
  BY BrainEvent
<1> HIDE DEF e
<1>2. /\ stage[s] = "new" /\ stage' = [stage EXCEPT ![s] = "judged"]
      /\ overtaken' \subseteq overtaken \union Setups
      /\ UNCHANGED <<book, lastBrain, journal, lessons, kelly, clock, crashes,
                     truth, irregular, refreshes>>
  BY DEF BrainOutcome
<1>3. TypeOK'
  BY <1>1, <1>2, TypeParts, TypePartsAfter
     DEF TypeInv, JournalTyped, OutcomesTyped, OpenTyped, RestTyped, journal, kelly, clock
<1>4. /\ stage \in [Setups -> {"new", "judged", "filled"}] /\ Named(inbox, book, stage)
      /\ \A i \in 1..Len(inbox) : inbox[i] \in Events
      /\ \A id \in DOMAIN book : book[id] \in Setups
  BY TypeFacts DEF TypeInv
<1>5. \A t \in Setups : stage[t] = "filled" => stage'[t] = "filled"
  BY <1>2, <1>4
<1>6. \A i \in 1..Len(inbox) : stage[inbox[i].of] = "filled" => stage'[inbox[i].of] = "filled"
  BY <1>4, <1>5, EventRange
<1>7. \A id \in DOMAIN book' : ClientIdOf[book'[id]] = id /\ stage'[book'[id]] = "filled"
  BY <1>2, <1>4, <1>5 DEF Named
<1>8. Named(inbox', book', stage')
  BY <1>1, <1>4, <1>6, <1>7, NamedAppended
<1>9. QED
  BY <1>3, <1>8 DEF TypeInv

LEMMA TypeFilled ==
  ASSUME TypeInv, NEW s \in Setups, OrderFilled(s)
  PROVE  TypeInv'
<1> DEFINE e == Event("Filled", s, ClientIdOf[s], 0)
<1>1. /\ e.type = "Filled" /\ e.of = s /\ e.id = ClientIdOf[s]
      /\ inbox' \in Seq(Events) /\ Len(inbox) \in Nat /\ Appended(inbox, e, inbox')
  BY FilledEvent
<1> HIDE DEF e
<1>2. /\ stage[s] = "judged" /\ stage' = [stage EXCEPT ![s] = "filled"]
      /\ book' = [c \in (DOMAIN book) \union {ClientIdOf[s]} |-> IF c = ClientIdOf[s] THEN s ELSE book[c]]
      /\ irregular' = (irregular \/ \E t \in Setups : ClientIdOf[t] = ClientIdOf[s] /\ stage[t] = "filled")
      /\ UNCHANGED <<lastBrain, journal, lessons, kelly, clock, crashes, truth,
                     overtaken, refreshes>>
  BY DEF OrderFilled
<1>3. /\ stage \in [Setups -> {"new", "judged", "filled"}] /\ Named(inbox, book, stage)
      /\ \A i \in 1..Len(inbox) : inbox[i] \in Events
      /\ DOMAIN book \subseteq Ids /\ \A id \in DOMAIN book : book[id] \in Setups
      /\ ClientIdOf[s] \in Ids
  BY TypeFacts, ConstantFacts DEF TypeInv
<1>4. OpenTyped(book')
  <2>1. (DOMAIN book) \union {ClientIdOf[s]} \in SUBSET Ids
    BY <1>3
  <2>2. book' \in [(DOMAIN book) \union {ClientIdOf[s]} -> Setups]
    BY <1>2, <1>3
  <2>3. QED
    BY <2>1, <2>2 DEF OpenTyped
<1>5. stage' \in [Setups -> {"new", "judged", "filled"}] /\ irregular' \in BOOLEAN
  BY <1>2, <1>3, TypeParts DEF TypeInv, RestTyped
<1>6. TypeOK'
  BY <1>1, <1>2, <1>4, <1>5, TypeParts, TypePartsAfter
     DEF TypeInv, JournalTyped, OutcomesTyped, RestTyped, journal, kelly, clock
<1>7. \A t \in Setups : stage[t] = "filled" => stage'[t] = "filled"
  BY <1>2, <1>3
<1>8. \A i \in 1..Len(inbox) : stage[inbox[i].of] = "filled" => stage'[inbox[i].of] = "filled"
  BY <1>3, <1>7, EventRange
<1>9. stage'[s] = "filled"
  BY <1>2, <1>3
<1>10. \A id \in DOMAIN book' : ClientIdOf[book'[id]] = id /\ stage'[book'[id]] = "filled"
  BY <1>2, <1>3, <1>7, <1>9 DEF Named
<1>11. Named(inbox', book', stage')
  BY <1>1, <1>3, <1>8, <1>9, <1>10, NamedAppended
<1>12. QED
  BY <1>6, <1>11 DEF TypeInv

LEMMA TypeClosed ==
  ASSUME TypeInv, NEW id \in Ids, PositionClosed(id)
  PROVE  TypeInv'
<1>1. PICK pnl \in Pnls : LET e == Event("Closed", book[id], id, pnl) IN
         /\ e.type = "Closed" /\ e.of = book[id] /\ e.id = id /\ e.pnl = pnl
         /\ inbox' \in Seq(Events) /\ Len(inbox) \in Nat /\ Appended(inbox, e, inbox')
         /\ Record(<<pnl>>)
         /\ truth' \in Seq(Trade) /\ Appended(truth, [of |-> book[id], pnl |-> pnl], truth')
  BY ClosedEvent
<1> DEFINE e == Event("Closed", book[id], id, pnl)
<1>2. /\ e.type = "Closed" /\ e.of = book[id] /\ e.id = id /\ e.pnl = pnl
      /\ inbox' \in Seq(Events) /\ Len(inbox) \in Nat /\ Appended(inbox, e, inbox')
  BY <1>1
<1> HIDE DEF e
<1>3. /\ id \in DOMAIN book /\ book' = [c \in (DOMAIN book) \ {id} |-> book[c]]
      /\ UNCHANGED <<stage, lastBrain, journal, lessons, clock, crashes,
                     overtaken, irregular, refreshes>>
  BY DEF PositionClosed
<1>4. /\ Named(inbox, book, stage) /\ wins \in 0..OutcomeCap /\ losses \in 0..OutcomeCap
      /\ DOMAIN book \subseteq Ids /\ \A c \in DOMAIN book : book[c] \in Setups
  BY TypeFacts DEF TypeInv, TypeOK
<1>5. OpenTyped(book')
  <2>1. (DOMAIN book) \ {id} \in SUBSET Ids
    BY <1>4
  <2>2. book' \in [(DOMAIN book) \ {id} -> Setups]
    BY <1>3, <1>4
  <2>3. QED
    BY <2>1, <2>2 DEF OpenTyped
<1>6. <<pnl>> \in Seq(Int)
  BY ConstantFacts
<1>7. OutcomesTyped(wins', losses')
  BY <1>1, <1>4, <1>6, RecordEffect DEF OutcomesTyped
<1>8. TypeOK'
  BY <1>1, <1>2, <1>3, <1>5, <1>7, TypeParts, TypePartsAfter
     DEF TypeInv, JournalTyped, RestTyped, journal, clock
<1>9. /\ \A c \in DOMAIN book' : c \in DOMAIN book /\ book'[c] = book[c]
      /\ stage' = stage
  BY <1>3
<1>10. \A c \in DOMAIN book' : ClientIdOf[book'[c]] = c /\ stage'[book'[c]] = "filled"
  BY <1>4, <1>9 DEF Named
<1>11. ClientIdOf[e.of] = e.id /\ stage'[e.of] = "filled" /\ e.pnl \in Pnls
  BY <1>2, <1>3, <1>4, <1>9 DEF Named
<1>12. Named(inbox', book', stage')
  BY <1>2, <1>4, <1>9, <1>10, <1>11, NamedAppended
<1>13. QED
  BY <1>8, <1>12 DEF TypeInv

LEMMA TypeMonitor ==
  ASSUME TypeInv, Monitor
  PROVE  TypeInv'
<1> DEFINE e == inbox[1]
<1>1. /\ e \in Events /\ inbox' \in Seq(Events) /\ Shifted(inbox, inbox')
      /\ \/ e.type = "Brain" /\ OnBrainOutcome(e) /\ UNCHANGED journal
         \/ e.type = "Filled" /\ OnOrderFilled(e) /\ UNCHANGED <<lastBrain, closed>>
         \/ e.type = "Closed" /\ OnPositionClosed(e) /\ UNCHANGED <<lastBrain, rows>>
      /\ UNCHANGED <<stage, book, lessons, kelly, clock, crashes, history>>
      /\ 1 \in 1..Len(inbox)
  BY HandledEvent
<1>2. e.type = "Closed" => e.pnl \in Pnls
  BY <1>1 DEF TypeInv, Named
<1> HIDE DEF e
<1>3. e.of \in Setups /\ e.id \in Ids /\ SymbolOf[e.of] \in Symbols
  BY <1>1, EventRange, ConstantFacts
<1>4. /\ JournalTyped(rows, closed) /\ OutcomesTyped(wins, losses) /\ OpenTyped(book)
      /\ truth \in Seq(Trade) /\ TypeOK /\ Named(inbox, book, stage)
      /\ RestTyped(now, due, crashes, stage, lastBrain, overtaken, irregular, refreshes)
  BY TypeParts DEF TypeInv
<1>5. JournalTyped(rows', closed') /\ lastBrain' \in [Symbols -> Setups \union {Nobody}]
  <2>1. CASE e.type = "Brain" /\ OnBrainOutcome(e) /\ UNCHANGED journal
    BY <1>3, <1>4, <2>1 DEF OnBrainOutcome, journal, JournalTyped, RestTyped
  <2>2. CASE e.type = "Filled" /\ OnOrderFilled(e) /\ UNCHANGED <<lastBrain, closed>>
    <3>1. ColumnsOf(e) = Nobody \/ (ColumnsOf(e) \in Setups /\ InsertTrade(e.id, ColumnsOf(e)))
      BY <1>3, <1>4, <2>2 DEF OnOrderFilled, ColumnsOf, RestTyped
    <3>2. CASE ColumnsOf(e) = Nobody
      BY <1>4, <2>2, <3>2 DEF OnOrderFilled, JournalTyped, RestTyped
    <3>3. CASE ColumnsOf(e) \in Setups /\ InsertTrade(e.id, ColumnsOf(e))
      <4>1. /\ \E known \in SUBSET Ids : rows' \in [known -> Setups]
            /\ DOMAIN rows' = (DOMAIN rows) \union {e.id}
        BY <1>3, <1>4, <3>3, InsertTradeEffect
      <4>2. QED
        BY <1>4, <2>2, <4>1 DEF JournalTyped, RestTyped
    <3>4. QED
      BY <3>1, <3>2, <3>3
  <2>3. CASE e.type = "Closed" /\ OnPositionClosed(e) /\ UNCHANGED <<lastBrain, rows>>
    <3>1. CloseTrade(e.id, e.pnl) /\ e.pnl \in Pnls /\ UNCHANGED rows
      BY <1>2, <2>3 DEF OnPositionClosed
    <3>2. /\ closed' \in Seq(Row) /\ Once(closed')
          /\ \A i \in 1..Len(closed') : closed'[i].id \in DOMAIN rows'
      BY <1>4, <3>1, CloseTradeEffect
    <3>3. QED
      BY <1>4, <2>3, <3>2 DEF JournalTyped, RestTyped
  <2>4. QED
    BY <1>1, <2>1, <2>2, <2>3
<1>6. TypeOK'
  BY <1>1, <1>4, <1>5, TypePartsAfter DEF RestTyped, kelly, clock, history
<1>7. Named(inbox', book', stage')
  BY <1>1, <1>4, NamedShifted
<1>8. QED
  BY <1>6, <1>7 DEF TypeInv

LEMMA TypeStep ==
  TypeInv /\ [Next]_vars => TypeInv'
<1> SUFFICES ASSUME TypeInv, [Next]_vars PROVE TypeInv'
  OBVIOUS
<1>1. /\ JournalTyped(rows, closed) /\ OutcomesTyped(wins, losses) /\ OpenTyped(book)
      /\ inbox \in Seq(Events) /\ truth \in Seq(Trade) /\ Named(inbox, book, stage)
      /\ RestTyped(now, due, crashes, stage, lastBrain, overtaken, irregular, refreshes)
  BY TypeParts DEF TypeInv
<1>2. CASE Refresh
  <2>1. /\ due' = FALSE
        /\ (Relearn /\ refreshes' = refreshes + 1) \/ UNCHANGED <<lessons, kelly, refreshes>>
        /\ UNCHANGED <<agents, journal, now, crashes, truth, overtaken, irregular>>
    BY <1>2 DEF Refresh
  <2>2. OutcomesTyped(wins', losses')
    <3>1. CASE UNCHANGED kelly
      BY <1>1, <3>1 DEF kelly, OutcomesTyped
    <3>2. CASE Relearn
      <4>1. PnlsOf(ClosedTrades) \in Seq(Int)
        BY <1>1, PnlsOfWindow DEF JournalTyped
      <4>2. QED
        BY <1>1, <3>2, <4>1, RecordEffect DEF Relearn, OutcomesTyped
    <3>3. QED
      BY <2>1, <3>1, <3>2
  <2>3. refreshes' \in Nat
    BY <1>1, <2>1 DEF RestTyped
  <2>4. TypeOK'
    BY <1>1, <2>1, <2>2, <2>3, TypePartsAfter DEF RestTyped, agents, journal
  <2>5. Named(inbox', book', stage')
    BY <1>1, <2>1 DEF agents
  <2>6. QED
    BY <2>4, <2>5 DEF TypeInv
<1>3. CASE Tick
  <2>1. /\ now < MaxTime /\ now' = now + 1 /\ due' = TRUE
        /\ UNCHANGED <<agents, journal, lessons, kelly, crashes, history>>
    BY <1>3 DEF Tick
  <2>2. now' \in 0..MaxTime
    BY <1>1, <2>1, ConstantFacts DEF RestTyped
  <2>3. TypeOK'
    BY <1>1, <2>1, <2>2, TypePartsAfter DEF RestTyped, agents, journal, kelly, history
  <2>4. Named(inbox', book', stage')
    BY <1>1, <2>1 DEF agents
  <2>5. QED
    BY <2>3, <2>4 DEF TypeInv
<1>4. CASE Crash
  <2>1. /\ crashes < MaxCrashes /\ crashes' = crashes + 1 /\ irregular' = TRUE
        /\ stage' = [s \in Setups |-> IF stage[s] = "new" THEN "new" ELSE "filled"]
        /\ book' = <<>> /\ inbox' = <<>> /\ lastBrain' = [y \in Symbols |-> Nobody]
        /\ wins' = 0 /\ losses' = 0 /\ due' = TRUE
        /\ UNCHANGED <<journal, now, truth, overtaken, refreshes>>
    BY <1>4 DEF Crash
  <2>2. crashes' \in 0..MaxCrashes /\ OutcomesTyped(wins', losses')
    BY <1>1, <2>1, ConstantFacts DEF RestTyped, OutcomesTyped
  <2>3. <<>> \in Seq(Events) /\ <<>> \in [{} -> Setups] /\ Len(<<>>) = 0
    BY EmptySeq
  <2>4. OpenTyped(book') /\ inbox' \in Seq(Events)
    BY <2>1, <2>3 DEF OpenTyped
  <2>5. /\ stage' \in [Setups -> {"new", "judged", "filled"}]
        /\ lastBrain' \in [Symbols -> Setups \union {Nobody}]
    BY <2>1
  <2>6. TypeOK'
    BY <1>1, <2>1, <2>2, <2>4, <2>5, TypePartsAfter DEF RestTyped, journal
  <2>7. Named(inbox', book', stage')
    BY <2>1, <2>3 DEF Named
  <2>8. QED
    BY <2>6, <2>7 DEF TypeInv
<1>5. CASE UNCHANGED vars
  BY <1>1, <1>5, TypePartsAfter
     DEF TypeInv, vars, agents, journal, kelly, clock, history
<1>6. QED
  BY <1>2, <1>3, <1>4, <1>5, TypeBrain, TypeFilled, TypeClosed, TypeMonitor DEF Next

\* The journal holds each client id once, closed rows are inserted ones, and
\* neither list of TradeOutcomes passes its cap (quant.rs:189-195), through
\* restarts, repeated ids and refreshes that record everything again.
THEOREM LearningTypeTheorem == Spec => []TypeOK
<1>1. TypeInv => TypeOK
  BY DEF TypeInv
<1>2. QED
  BY <1>1, TypeInit, TypeStep, PTL DEF Spec

-----------------------------------------------------------------------------
(* Whose columns a row gets *)

\* An event behind position p does not matter to it.
LEMMA LastIsPrefix ==
  ASSUME NEW q, NEW r, NEW lb, NEW p \in Nat, NEW t,
         \A i \in 1..(p - 1) : r[i] = q[i], LastIs(q, lb, p, t)
  PROVE  LastIs(r, lb, p, t)
<1>1. CASE \E i \in 1..(p - 1) : /\ q[i].type = "Brain" /\ q[i].of = t
                                 /\ \A j \in (i + 1)..(p - 1) : ~OutcomeOf(q[j], SymbolOf[t])
  <2>1. PICK i \in 1..(p - 1) : /\ q[i].type = "Brain" /\ q[i].of = t
                                /\ \A j \in (i + 1)..(p - 1) : ~OutcomeOf(q[j], SymbolOf[t])
    BY <1>1
  <2>2. \A j \in (i + 1)..(p - 1) : r[j] = q[j]
    OBVIOUS
  <2>3. r[i].type = "Brain" /\ r[i].of = t
        /\ \A j \in (i + 1)..(p - 1) : ~OutcomeOf(r[j], SymbolOf[t])
    BY <2>1, <2>2
  <2>4. QED
    BY <2>3 DEF LastIs
<1>2. CASE /\ \A j \in 1..(p - 1) : ~OutcomeOf(q[j], SymbolOf[t])
           /\ lb[SymbolOf[t]] = t
  BY <1>2 DEF LastIs
<1>3. QED
  BY <1>1, <1>2 DEF LastIs

\* Nor does one that is no outcome of its symbol.
LEMMA LastIsPast ==
  ASSUME NEW q, NEW lb, NEW p \in Nat \ {0}, NEW t,
         LastIs(q, lb, p, t), ~OutcomeOf(q[p], SymbolOf[t])
  PROVE  LastIs(q, lb, p + 1, t)
<1>1. (p + 1) - 1 = p /\ \A j \in 1..p : j \in 1..(p - 1) \/ j = p
  OBVIOUS
<1>2. CASE \E i \in 1..(p - 1) : /\ q[i].type = "Brain" /\ q[i].of = t
                                 /\ \A j \in (i + 1)..(p - 1) : ~OutcomeOf(q[j], SymbolOf[t])
  <2>1. PICK i \in 1..(p - 1) : /\ q[i].type = "Brain" /\ q[i].of = t
                                /\ \A j \in (i + 1)..(p - 1) : ~OutcomeOf(q[j], SymbolOf[t])
    BY <1>2
  <2>2. i \in 1..p /\ \A j \in (i + 1)..p : j \in (i + 1)..(p - 1) \/ j = p
    OBVIOUS
  <2>3. \A j \in (i + 1)..p : ~OutcomeOf(q[j], SymbolOf[t])
    BY <2>1, <2>2
  <2>4. QED
    BY <1>1, <2>1, <2>2, <2>3 DEF LastIs
<1>3. CASE /\ \A j \in 1..(p - 1) : ~OutcomeOf(q[j], SymbolOf[t])
           /\ lb[SymbolOf[t]] = t
  <2>1. \A j \in 1..p : ~OutcomeOf(q[j], SymbolOf[t])
    BY <1>1, <1>3
  <2>2. QED
    BY <1>1, <1>3, <2>1 DEF LastIs
<1>4. QED
  BY <1>2, <1>3 DEF LastIs

\* The outcome itself is the last one behind it.
LEMMA LastIsItself ==
  ASSUME NEW q, NEW lb, NEW p \in Nat \ {0}, q[p].type = "Brain"
  PROVE  LastIs(q, lb, p + 1, q[p].of)
<1>1. (p + 1) - 1 = p /\ p \in 1..p /\ (p + 1)..p = {}
  OBVIOUS
<1>2. QED
  BY <1>1 DEF LastIs

\* Once the first event is handled, everything is one position nearer.
LEMMA LastIsShifted ==
  ASSUME NEW q, NEW r, NEW lb, NEW lb2, NEW p \in Nat \ {0}, NEW t,
         Shifted(q, r), p < Len(q) + 1, LastIs(q, lb, p + 1, t),
         lb2[SymbolOf[t]] = IF OutcomeOf(q[1], SymbolOf[t]) THEN q[1].of ELSE lb[SymbolOf[t]]
  PROVE  LastIs(r, lb2, p, t)
<1>1. /\ (p + 1) - 1 = p /\ Len(q) \in Nat
      /\ \A j \in 1..(p - 1) : j + 1 \in 2..p /\ r[j] = q[j + 1]
      /\ \A j \in 2..p : j - 1 \in 1..(p - 1)
  BY DEF Shifted
<1>2. CASE \E i \in 1..p : /\ q[i].type = "Brain" /\ q[i].of = t
                           /\ \A j \in (i + 1)..p : ~OutcomeOf(q[j], SymbolOf[t])
  <2>1. PICK i \in 1..p : /\ q[i].type = "Brain" /\ q[i].of = t
                          /\ \A j \in (i + 1)..p : ~OutcomeOf(q[j], SymbolOf[t])
    BY <1>2
  <2>2. CASE i = 1
    <3>1. lb2[SymbolOf[t]] = t
      BY <2>1, <2>2 DEF OutcomeOf
    <3>2. \A j \in 1..(p - 1) : ~OutcomeOf(r[j], SymbolOf[t])
      BY <1>1, <2>1, <2>2
    <3>3. QED
      BY <3>1, <3>2 DEF LastIs
  <2>3. CASE i # 1
    <3>1. i - 1 \in 1..(p - 1) /\ (i - 1) + 1 = i
      BY <2>3
    <3>2. \A j \in ((i - 1) + 1)..(p - 1) : j \in 1..(p - 1) /\ j + 1 \in (i + 1)..p
      BY <2>3
    <3>3. r[i - 1] = q[i] /\ \A j \in ((i - 1) + 1)..(p - 1) : r[j] = q[j + 1]
      BY <1>1, <3>1, <3>2
    <3>4. QED
      BY <2>1, <3>1, <3>2, <3>3 DEF LastIs
  <2>4. QED
    BY <2>2, <2>3
<1>3. CASE /\ \A j \in 1..p : ~OutcomeOf(q[j], SymbolOf[t])
           /\ lb[SymbolOf[t]] = t
  <2>1. 1 \in 1..p /\ \A j \in 2..p : j \in 1..p
    OBVIOUS
  <2>2. lb2[SymbolOf[t]] = t /\ \A j \in 1..(p - 1) : ~OutcomeOf(r[j], SymbolOf[t])
    BY <1>1, <1>3, <2>1
  <2>3. QED
    BY <2>2 DEF LastIs
<1>4. QED
  BY <1>1, <1>2, <1>3 DEF LastIs

LEMMA LastBrain ==
  ASSUME TypeInv, LastInv(inbox, lastBrain, stage, overtaken), NEW s \in Setups, BrainOutcome(s)
  PROVE  LastInv(inbox', lastBrain', stage', overtaken')
<1> DEFINE e == Event("Brain", s, ClientIdOf[s], 0)
<1>1. /\ e.type = "Brain" /\ e.of = s /\ Len(inbox) \in Nat /\ Appended(inbox, e, inbox')
  BY BrainEvent
<1> HIDE DEF e
<1>2. /\ stage[s] = "new" /\ stage' = [stage EXCEPT ![s] = "judged"] /\ lastBrain' = lastBrain
      /\ overtaken' = overtaken \union
           {t \in Setups : stage[t] = "judged" /\ SymbolOf[t] = SymbolOf[s]}
      /\ stage \in [Setups -> {"new", "judged", "filled"}]
  BY TypeFacts DEF BrainOutcome, TypeInv
<1>3. ASSUME NEW t \in Setups, stage'[t] = "judged", t \notin overtaken'
      PROVE  LastIs(inbox', lastBrain', Len(inbox') + 1, t)
  <2>1. Len(inbox') = Len(inbox) + 1 /\ inbox'[Len(inbox) + 1] = e
        /\ Len(inbox) + 1 \in Nat \ {0}
        /\ \A i \in 1..((Len(inbox) + 1) - 1) : inbox'[i] = inbox[i]
    BY <1>1 DEF Appended
  <2>2. CASE t = s
    BY <1>1, <2>1, <2>2, LastIsItself
  <2>3. CASE t # s
    <3>1. stage[t] = "judged" /\ t \notin overtaken /\ SymbolOf[t] # SymbolOf[s]
      BY <1>2, <1>3, <2>3
    <3>2. LastIs(inbox, lastBrain, Len(inbox) + 1, t)
      BY <3>1 DEF LastInv
    <3>3. LastIs(inbox', lastBrain, Len(inbox) + 1, t)
      BY <2>1, <3>2, LastIsPrefix
    <3>4. ~OutcomeOf(inbox'[Len(inbox) + 1], SymbolOf[t])
      BY <1>1, <2>1, <3>1 DEF OutcomeOf
    <3>5. QED
      BY <1>2, <2>1, <3>3, <3>4, LastIsPast
  <2>4. QED
    BY <2>2, <2>3
<1>4. ASSUME NEW i \in 1..Len(inbox'), inbox'[i].type = "Filled", inbox'[i].of \notin overtaken'
      PROVE  LastIs(inbox', lastBrain', i, inbox'[i].of)
  <2>1. i \in 1..Len(inbox) /\ inbox'[i] = inbox[i] /\ i \in Nat
        /\ \A j \in 1..(i - 1) : inbox'[j] = inbox[j]
    BY <1>1, <1>4 DEF Appended
  <2>2. LastIs(inbox, lastBrain, i, inbox[i].of)
    BY <1>2, <1>4, <2>1 DEF LastInv
  <2>3. QED
    BY <1>2, <2>1, <2>2, LastIsPrefix
<1>5. QED
  BY <1>3, <1>4 DEF LastInv

\* An event that is neither outcome nor fill appends to LastInv.
LEMMA LastAppended ==
  ASSUME NEW q, NEW r, NEW e, NEW lb, NEW st, NEW st2, NEW over,
         LastInv(q, lb, st, over), Appended(q, e, r), Len(q) \in Nat, e.type # "Brain",
         \A t \in Setups : st2[t] = "judged" => st[t] = "judged",
         e.type = "Filled" => e.of \in Setups /\ st[e.of] = "judged"
  PROVE  LastInv(r, lb, st2, over)
<1>1. Len(r) = Len(q) + 1 /\ r[Len(q) + 1] = e /\ Len(q) + 1 \in Nat \ {0}
      /\ \A i \in 1..((Len(q) + 1) - 1) : r[i] = q[i]
  BY DEF Appended
<1>2. ASSUME NEW t \in Setups, st[t] = "judged", t \notin over
      PROVE  LastIs(r, lb, Len(q) + 1, t) /\ LastIs(r, lb, Len(r) + 1, t)
  <2>1. LastIs(q, lb, Len(q) + 1, t)
    BY <1>2 DEF LastInv
  <2>2. LastIs(r, lb, Len(q) + 1, t)
    BY <1>1, <2>1, LastIsPrefix
  <2>3. ~OutcomeOf(r[Len(q) + 1], SymbolOf[t])
    BY <1>1 DEF OutcomeOf
  <2>4. QED
    BY <1>1, <2>2, <2>3, LastIsPast
<1>3. ASSUME NEW i \in 1..Len(r), r[i].type = "Filled", r[i].of \notin over
      PROVE  LastIs(r, lb, i, r[i].of)
  <2>1. CASE i = Len(q) + 1
    BY <1>1, <1>2, <1>3, <2>1
  <2>2. CASE i # Len(q) + 1
    <3>1. i \in 1..Len(q) /\ r[i] = q[i] /\ i \in Nat /\ \A j \in 1..(i - 1) : r[j] = q[j]
      BY <1>1, <2>2
    <3>2. LastIs(q, lb, i, q[i].of)
      BY <1>3, <3>1 DEF LastInv
    <3>3. QED
      BY <3>1, <3>2, LastIsPrefix
  <2>3. QED
    BY <2>1, <2>2
<1>4. QED
  BY <1>2, <1>3 DEF LastInv

LEMMA LastMonitor ==
  ASSUME TypeInv, LastInv(inbox, lastBrain, stage, overtaken), Monitor
  PROVE  LastInv(inbox', lastBrain', stage', overtaken')
<1> DEFINE e == inbox[1]
<1>1. /\ e \in Events /\ Shifted(inbox, inbox')
      /\ \/ e.type = "Brain" /\ OnBrainOutcome(e)
         \/ e.type # "Brain" /\ lastBrain' = lastBrain
      /\ stage' = stage /\ overtaken' = overtaken
  BY HandledEvent, EventRange DEF history
<1>2. lastBrain \in [Symbols -> Setups \union {Nobody}]
  BY DEF TypeInv, TypeOK
<1>3. \A t \in Setups :
        lastBrain'[SymbolOf[t]] = IF OutcomeOf(e, SymbolOf[t]) THEN e.of ELSE lastBrain[SymbolOf[t]]
  BY <1>1, <1>2, ConstantFacts, EventRange DEF OnBrainOutcome, OutcomeOf
<1>4. /\ Len(inbox) \in Nat \ {0} /\ Len(inbox') = Len(inbox) - 1
      /\ \A i \in 1..(Len(inbox) - 1) : inbox'[i] = inbox[i + 1]
  BY <1>1 DEF Shifted
<1>5. ASSUME NEW t \in Setups, stage'[t] = "judged", t \notin overtaken'
      PROVE  LastIs(inbox', lastBrain', Len(inbox') + 1, t)
  <2>1. Len(inbox) \in Nat \ {0} /\ Len(inbox) < Len(inbox) + 1 /\ Len(inbox') + 1 = Len(inbox)
    BY <1>4
  <2>2. LastIs(inbox, lastBrain, Len(inbox) + 1, t)
    BY <1>1, <1>5 DEF LastInv
  <2>3. LastIs(inbox', lastBrain', Len(inbox), t)
    BY <1>1, <1>3, <2>1, <2>2, LastIsShifted
  <2>4. QED
    BY <2>1, <2>3
<1>6. ASSUME NEW i \in 1..Len(inbox'), inbox'[i].type = "Filled", inbox'[i].of \notin overtaken'
      PROVE  LastIs(inbox', lastBrain', i, inbox'[i].of)
  <2>1. i \in Nat \ {0} /\ i < Len(inbox) + 1 /\ i + 1 \in 1..Len(inbox) /\ inbox'[i] = inbox[i + 1]
    BY <1>4
  <2>2. LastIs(inbox, lastBrain, i + 1, inbox'[i].of)
    BY <1>1, <1>6, <2>1 DEF LastInv
  <2>3. inbox'[i].of \in Setups
    BY <2>1, TypeFacts, EventRange DEF TypeInv
  <2>4. QED
    BY <1>1, <1>3, <2>1, <2>2, <2>3, LastIsShifted
<1>7. QED
  BY <1>5, <1>6 DEF LastInv

LEMMA AttributionInit == Init => AttributionInv
<1>1. Len(<<>>) = 0
  OBVIOUS
<1>2. QED
  BY <1>1 DEF Init, AttributionInv, LastInv, MisattributionNeedsOverlap

LEMMA AttributionStep ==
  TypeInv /\ AttributionInv /\ [Next]_vars => AttributionInv'
<1> SUFFICES ASSUME TypeInv, AttributionInv, [Next]_vars PROVE AttributionInv'
  OBVIOUS
<1>1. /\ LastInv(inbox, lastBrain, stage, overtaken) /\ MisattributionNeedsOverlap
      /\ TypeOK /\ Len(inbox) \in Nat /\ stage \in [Setups -> {"new", "judged", "filled"}]
  BY TypeFacts DEF AttributionInv, TypeInv
<1>2. LastInv(inbox', lastBrain', stage', overtaken')
  <2>1. ASSUME NEW s \in Setups, BrainOutcome(s)
        PROVE  LastInv(inbox', lastBrain', stage', overtaken')
    BY <1>1, <2>1, LastBrain
  <2>2. ASSUME NEW s \in Setups, OrderFilled(s)
        PROVE  LastInv(inbox', lastBrain', stage', overtaken')
    <3> DEFINE e == Event("Filled", s, ClientIdOf[s], 0)
    <3>1. e.type = "Filled" /\ e.of = s /\ Appended(inbox, e, inbox')
      BY <2>2, FilledEvent
    <3> HIDE DEF e
    <3>2. /\ stage[s] = "judged" /\ stage' = [stage EXCEPT ![s] = "filled"]
          /\ lastBrain' = lastBrain /\ overtaken' = overtaken
      BY <2>2 DEF OrderFilled
    <3>3. \A t \in Setups : stage'[t] = "judged" => stage[t] = "judged"
      BY <1>1, <3>2
    <3>4. QED
      BY <1>1, <3>1, <3>2, <3>3, LastAppended
  <2>3. ASSUME NEW id \in Ids, PositionClosed(id)
        PROVE  LastInv(inbox', lastBrain', stage', overtaken')
    <3>1. PICK e : e.type = "Closed" /\ Appended(inbox, e, inbox')
      BY <2>3, ClosedEvent
    <3>2. stage' = stage /\ lastBrain' = lastBrain /\ overtaken' = overtaken
      BY <2>3 DEF PositionClosed
    <3>3. QED
      BY <1>1, <3>1, <3>2, LastAppended
  <2>4. CASE Monitor
    BY <1>1, <2>4, LastMonitor
  <2>5. CASE Crash
    <3>1. inbox' = <<>> /\ Len(<<>>) = 0 /\ \A t \in Setups : stage'[t] # "judged"
      BY <2>5 DEF Crash
    <3>2. QED
      BY <3>1 DEF LastInv
  <2>6. CASE Refresh \/ Tick \/ UNCHANGED vars
    <3>1. UNCHANGED agents /\ overtaken' = overtaken
      BY <2>6 DEF Refresh, Tick, vars, history
    <3>2. QED
      BY <1>1, <3>1 DEF agents
  <2>7. QED
    BY <2>1, <2>2, <2>3, <2>4, <2>5, <2>6 DEF Next
<1>3. overtaken \subseteq overtaken'
  BY DEF Next, BrainOutcome, OrderFilled, PositionClosed, Monitor, Refresh, Tick, Crash,
         vars, history
<1>4. MisattributionNeedsOverlap'
  <2>1. CASE UNCHANGED rows
    BY <1>1, <1>3, <2>1 DEF MisattributionNeedsOverlap
  <2>2. CASE Monitor /\ ~UNCHANGED rows
    <3> DEFINE e == inbox[1]
    <3>1. /\ e \in Events /\ e.type = "Filled" /\ OnOrderFilled(e) /\ 1 \in 1..Len(inbox)
      BY <2>2, HandledEvent DEF journal
    <3>2. ClientIdOf[e.of] = e.id
      BY <3>1 DEF TypeInv, Named
    <3>3. e.of \notin overtaken => lastBrain[SymbolOf[e.of]] = e.of
      <4>1. e.of \notin overtaken => LastIs(inbox, lastBrain, 1, e.of)
        BY <1>1, <3>1 DEF LastInv
      <4>2. 1..(1 - 1) = {}
        OBVIOUS
      <4>3. QED
        BY <4>1, <4>2 DEF LastIs
    <3>4. ColumnsOf(e) = lastBrain[SymbolOf[e.of]] /\ e.of \in Setups /\ e.id \in Ids
      BY <3>1, EventRange DEF ColumnsOf
    <3> HIDE DEF e
    <3>5. ColumnsOf(e) \in Setups /\ InsertTrade(e.id, ColumnsOf(e))
      BY <1>1, <2>2, <3>1, <3>4, ConstantFacts DEF OnOrderFilled, TypeOK
    <3>6. /\ DOMAIN rows' = (DOMAIN rows) \union {e.id}
          /\ \A c \in DOMAIN rows : rows'[c] = rows[c]
          /\ e.id \notin DOMAIN rows => rows'[e.id] = ColumnsOf(e)
      BY <1>1, <3>4, <3>5, InsertTradeEffect
    <3>7. QED
      BY <1>1, <1>3, <3>2, <3>3, <3>4, <3>6 DEF MisattributionNeedsOverlap
  <2>3. UNCHANGED rows \/ Monitor
    BY DEF Next, BrainOutcome, OrderFilled, PositionClosed, Refresh, Tick, Crash, vars, journal
  <2>4. QED
    BY <2>1, <2>2, <2>3
<1>5. QED
  BY <1>2, <1>4 DEF AttributionInv

\* A row with another setup's columns has an overtaken setup of its own client
\* id behind it (monitor.rs:394-461): whatever the monitor's delay, the order
\* of fills and closes, repeated ids and restarts.
THEOREM AttributionTheorem == Spec => []MisattributionNeedsOverlap
<1>1. AttributionInv => MisattributionNeedsOverlap
  BY DEF AttributionInv
<1>2. QED
  BY <1>1, AttributionInit, AttributionStep, TypeInit, TypeStep, PTL DEF Spec

-----------------------------------------------------------------------------
(* How often Kelly counts a trade *)

LEMMA PlacedAppended ==
  ASSUME NEW q, NEW r, NEW e, NEW n \in Nat, NEW total \in Nat,
         Placed(q, n, total), Appended(q, e, r), Len(q) \in Nat, e.type # "Closed"
  PROVE  Placed(r, n, total)
<1>1. /\ r[Len(q) + 1] = e /\ \A i \in 1..Len(q) : r[i] = q[i]
      /\ \A i : i \in 1..Len(r) <=> (i \in 1..Len(q) \/ i = Len(q) + 1)
  BY DEF Appended
<1>2. Pending(r) = Pending(q)
  <2>1. \A i : i \in Pending(r) <=> i \in Pending(q)
    BY <1>1 DEF Pending
  <2>2. QED
    BY <2>1
<1>3. QED
  BY <1>2 DEF Placed, PlacedBy
\* The places, once one more close is under way or one less.
Behind(f, q, k) ==
  [i \in Pending(q) \union {Len(q) + 1} |-> IF i = Len(q) + 1 THEN k ELSE f[i]]
Nearer(f, r) == [i \in Pending(r) |-> f[i + 1]]

LEMMA PendingAppended ==
  ASSUME NEW q, NEW r, NEW e, Appended(q, e, r), Len(q) \in Nat, e.type = "Closed"
  PROVE  /\ Pending(r) = Pending(q) \union {Len(q) + 1} /\ Len(q) + 1 \notin Pending(q)
         /\ \A i \in Pending(q) : r[i] = q[i] /\ i < Len(q) + 1 /\ i \in Nat
         /\ r[Len(q) + 1] = e
<1>1. /\ r[Len(q) + 1] = e /\ \A i \in 1..Len(q) : r[i] = q[i]
      /\ \A i : i \in 1..Len(r) <=> (i \in 1..Len(q) \/ i = Len(q) + 1)
      /\ Len(q) + 1 \notin 1..Len(q) /\ \A i \in 1..Len(q) : i < Len(q) + 1 /\ i \in Nat
  BY DEF Appended
<1>2. \A i : i \in Pending(r) <=> i \in Pending(q) \union {Len(q) + 1}
  BY <1>1 DEF Pending
<1>3. QED
  BY <1>1, <1>2 DEF Pending

LEMMA PendingShifted ==
  ASSUME NEW q, NEW r, Shifted(q, r)
  PROVE  /\ \A i \in Pending(r) : i \in Nat \ {0} /\ i + 1 \in Pending(q) /\ r[i] = q[i + 1]
         /\ \A i \in Pending(q) : i # 1 => i - 1 \in Pending(r)
         /\ \A i \in Pending(q) : i \in Nat \ {0} /\ (i - 1) + 1 = i
<1>1. /\ Len(q) \in Nat \ {0} /\ Len(r) = Len(q) - 1
      /\ \A i \in 1..(Len(q) - 1) : r[i] = q[i + 1]
  BY DEF Shifted
<1>2. \A i \in 1..Len(r) : i \in Nat \ {0} /\ i + 1 \in 1..Len(q) /\ r[i] = q[i + 1]
  BY <1>1
<1>3. \A i \in 1..Len(q) : /\ i # 1 => i - 1 \in 1..Len(r)
                           /\ i \in Nat \ {0} /\ (i - 1) + 1 = i
  BY <1>1
<1>4. QED
  BY <1>2, <1>3 DEF Pending

LEMMA PlacedByClose ==
  ASSUME NEW q, NEW r, NEW e, NEW f, NEW n \in Nat, NEW total \in Nat, n <= total,
         PlacedBy(f, q, n, total), Appended(q, e, r), Len(q) \in Nat, e.type = "Closed"
  PROVE  PlacedBy(Behind(f, q, total + 1), r, n, total + 1)
<1> DEFINE g == Behind(f, q, total + 1)
<1>1. /\ Pending(r) = Pending(q) \union {Len(q) + 1} /\ Len(q) + 1 \notin Pending(q)
      /\ \A i \in Pending(q) : i < Len(q) + 1 /\ i \in Nat
  BY PendingAppended
<1>2. /\ \A i \in Pending(q) : f[i] \in Nat /\ n < f[i] /\ f[i] <= total
      /\ \A i, j \in Pending(q) : i < j => f[i] < f[j]
  BY DEF PlacedBy
<1>3. /\ DOMAIN g = Pending(r) /\ g = [i \in Pending(r) |-> g[i]]
      /\ g[Len(q) + 1] = total + 1 /\ \A i \in Pending(q) : g[i] = f[i]
  BY <1>1 DEF Behind
<1> HIDE DEF g
<1>4. \A i \in Pending(r) : g[i] \in Nat /\ n < g[i] /\ g[i] <= total + 1
  BY <1>1, <1>2, <1>3
<1>5. g \in [Pending(r) -> Nat]
  BY <1>3, <1>4
<1>6. ASSUME NEW i \in Pending(r), NEW j \in Pending(r), i < j
      PROVE  g[i] < g[j]
  <2>1. i \in Pending(q)
    <3>1. i # Len(q) + 1 \/ j \notin Pending(q) \union {Len(q) + 1}
      BY <1>1, <1>6
    <3>2. QED
      BY <1>1, <3>1
  <2>2. CASE j \in Pending(q)
    BY <1>2, <1>3, <1>6, <2>1, <2>2
  <2>3. CASE j = Len(q) + 1
    <3>1. g[j] = total + 1 /\ g[i] = f[i] /\ f[i] \in Nat /\ f[i] <= total
      BY <1>2, <1>3, <2>1, <2>3
    <3>2. QED
      BY <3>1
  <2>4. QED
    BY <1>1, <2>2, <2>3
<1>7. QED
  BY <1>4, <1>5, <1>6 DEF PlacedBy, g

LEMMA PlacedByShift ==
  ASSUME NEW q, NEW r, NEW f, NEW n \in Nat, NEW m \in Nat, NEW total \in Nat,
         PlacedBy(f, q, n, total), Shifted(q, r),
         q[1].type = "Closed" => m <= f[1],
         q[1].type # "Closed" => m <= n
  PROVE  PlacedBy(Nearer(f, r), r, m, total)
<1> DEFINE g == Nearer(f, r)
<1>1. \A i \in Pending(r) : i \in Nat \ {0} /\ i + 1 \in Pending(q)
  BY PendingShifted
<1>2. /\ \A i \in Pending(q) : f[i] \in Nat /\ n < f[i] /\ f[i] <= total
      /\ \A i, j \in Pending(q) : i < j => f[i] < f[j]
  BY DEF PlacedBy
<1>3. g = [i \in Pending(r) |-> g[i]] /\ \A i \in Pending(r) : g[i] = f[i + 1]
  BY DEF Nearer
<1> HIDE DEF g
<1>4. ASSUME NEW i \in Pending(r)
      PROVE  g[i] \in Nat /\ m < g[i] /\ g[i] <= total
  <2>1. /\ i \in Nat \ {0} /\ i + 1 \in Pending(q) /\ g[i] = f[i + 1]
        /\ f[i + 1] \in Nat /\ n < f[i + 1] /\ f[i + 1] <= total
    BY <1>1, <1>2, <1>3
  <2>2. CASE q[1].type = "Closed"
    <3>1. 1 \in Pending(q) /\ 1 < i + 1
      <4>1. Len(q) \in Nat \ {0}
        BY DEF Shifted
      <4>2. QED
        BY <2>1, <2>2, <4>1 DEF Pending
    <3>2. f[1] \in Nat /\ f[1] < f[i + 1]
      BY <1>2, <2>1, <3>1
    <3>3. QED
      BY <2>1, <2>2, <3>2
  <2>3. CASE q[1].type # "Closed"
    BY <2>1, <2>3
  <2>4. QED
    BY <2>2, <2>3
<1>5. g \in [Pending(r) -> Nat]
  BY <1>3, <1>4
<1>6. \A i, j \in Pending(r) : i < j => g[i] < g[j]
  BY <1>1, <1>2, <1>3
<1>7. QED
  BY <1>4, <1>5, <1>6 DEF PlacedBy, g

\* One more trade leaves room for one more outcome, one more refresh for as
\* many as there are trades.
LEMMA CountedOnce ==
  ASSUME NEW w \in 0..OutcomeCap, NEW l \in 0..OutcomeCap, NEW w2 \in 0..OutcomeCap,
         NEW l2 \in 0..OutcomeCap, NEW trades \in Nat, NEW times \in Nat, OutcomeCap \in Nat,
         CountedAtMost(w, l, trades, times), w2 + l2 <= w + l + 1
  PROVE  CountedAtMost(w2, l2, trades + 1, times)
<1> DEFINE most == trades * (times + 1)
<1>1. most \in Nat /\ w + l <= most /\ (trades + 1) * (times + 1) = most + (times + 1)
  BY DEF CountedAtMost
<1> HIDE DEF most
<1>2. w2 + l2 <= most + (times + 1)
  BY <1>1
<1>3. QED
  BY <1>1, <1>2 DEF CountedAtMost

LEMMA CountedAgain ==
  ASSUME NEW w \in 0..OutcomeCap, NEW l \in 0..OutcomeCap, NEW w2 \in 0..OutcomeCap,
         NEW l2 \in 0..OutcomeCap, NEW trades \in Nat, NEW times \in Nat, OutcomeCap \in Nat,
         NEW n \in Nat, n <= trades,
         CountedAtMost(w, l, trades, times), w2 + l2 <= w + l + n
  PROVE  CountedAtMost(w2, l2, trades, times + 1)
<1> DEFINE most == trades * (times + 1)
<1>1. most \in Nat /\ w + l <= most /\ trades * ((times + 1) + 1) = most + trades
  BY DEF CountedAtMost
<1> HIDE DEF most
<1>2. w2 + l2 <= most + trades
  BY <1>1
<1>3. QED
  BY <1>1, <1>2 DEF CountedAtMost

LEMMA KellyMonitor ==
  ASSUME TypeInv, Placed(inbox, Len(closed), Len(truth)), Monitor
  PROVE  Placed(inbox', Len(closed'), Len(truth'))
<1>1. PICK f : PlacedBy(f, inbox, Len(closed), Len(truth))
  BY DEF Placed
<1>2. /\ Shifted(inbox, inbox') /\ truth' = truth /\ 1 \in 1..Len(inbox)
      /\ \/ inbox[1].type = "Closed" /\ OnPositionClosed(inbox[1]) /\ UNCHANGED rows
         \/ inbox[1].type # "Closed" /\ UNCHANGED closed
  BY HandledEvent DEF history, journal
<1>3. /\ Len(closed) \in Nat /\ Len(truth) \in Nat /\ Len(closed) <= Len(truth) /\ TypeOK
      /\ inbox[1].type = "Closed" => inbox[1].pnl \in Pnls
  BY <1>2, TypeFacts DEF TypeInv, Placed, Named
<1>4. CASE inbox[1].type = "Closed"
  <2>1. closed' \in Seq(Row) /\ Len(closed') <= Len(closed) + 1
    BY <1>2, <1>3, <1>4, CloseTradeEffect DEF OnPositionClosed
  <2>2. Len(closed') \in Nat
    BY <2>1, LenProperties
  <2>3. 1 \in Pending(inbox) /\ f[1] \in Nat /\ Len(closed) < f[1] /\ f[1] <= Len(truth)
    BY <1>1, <1>2, <1>4 DEF Pending, PlacedBy
  <2>4. Len(closed') <= f[1] /\ Len(closed') <= Len(truth)
    BY <1>3, <2>1, <2>2, <2>3
  <2>5. PlacedBy(Nearer(f, inbox'), inbox', Len(closed'), Len(truth))
    BY <1>1, <1>2, <1>3, <1>4, <2>2, <2>4, PlacedByShift
  <2>6. QED
    BY <1>2, <2>4, <2>5 DEF Placed
<1>5. CASE inbox[1].type # "Closed"
  <2>1. PlacedBy(Nearer(f, inbox'), inbox', Len(closed), Len(truth)) /\ closed' = closed
    BY <1>1, <1>2, <1>3, <1>5, PlacedByShift
  <2>2. QED
    BY <1>2, <1>3, <2>1 DEF Placed
<1>6. QED
  BY <1>4, <1>5

LEMMA KellyStep ==
  TypeInv /\ KellyInv /\ [Next]_vars => KellyInv'
<1> SUFFICES ASSUME TypeInv, KellyInv, [Next]_vars PROVE KellyInv'
  OBVIOUS
<1>1. /\ Placed(inbox, Len(closed), Len(truth))
      /\ CountedAtMost(wins, losses, Len(truth), refreshes)
      /\ Len(closed) \in Nat /\ Len(truth) \in Nat /\ Len(inbox) \in Nat /\ refreshes \in Nat
      /\ wins \in 0..OutcomeCap /\ losses \in 0..OutcomeCap /\ wins \in Nat /\ losses \in Nat
      /\ closed \in Seq(Row) /\ Len(closed) <= Len(truth)
  BY TypeFacts DEF KellyInv, TypeInv, TypeOK, Placed
<1>2. ASSUME NEW s \in Setups, BrainOutcome(s) \/ OrderFilled(s)
      PROVE  KellyInv'
  <2>1. PICK e : e.type # "Closed" /\ Appended(inbox, e, inbox')
    <3>1. CASE BrainOutcome(s)
      BY <3>1, BrainEvent
    <3>2. CASE OrderFilled(s)
      BY <3>2, FilledEvent
    <3>3. QED
      BY <1>2, <3>1, <3>2
  <2>2. closed' = closed /\ truth' = truth /\ refreshes' = refreshes /\ UNCHANGED kelly
    BY <1>2 DEF BrainOutcome, OrderFilled, journal
  <2>3. Placed(inbox', Len(closed), Len(truth))
    BY <1>1, <2>1, PlacedAppended
  <2>4. QED
    BY <1>1, <2>2, <2>3 DEF KellyInv, kelly
<1>3. ASSUME NEW id \in Ids, PositionClosed(id)
      PROVE  KellyInv'
  <2>0. PICK pnl \in Pnls : LET e == Event("Closed", book[id], id, pnl) IN
          /\ e.type = "Closed" /\ Appended(inbox, e, inbox')
          /\ Record(<<pnl>>) /\ Len(truth') = Len(truth) + 1
    BY <1>3, ClosedEvent DEF Appended
  <2>1. PICK e : /\ e.type = "Closed" /\ Appended(inbox, e, inbox')
                 /\ Record(<<pnl>>) /\ Len(truth') = Len(truth) + 1
    BY <2>0
  <2>2. closed' = closed /\ refreshes' = refreshes
    BY <1>3 DEF PositionClosed, journal
  <2>3. PICK f : PlacedBy(f, inbox, Len(closed), Len(truth))
    BY <1>1 DEF Placed
  <2>4. PlacedBy(Behind(f, inbox, Len(truth) + 1), inbox', Len(closed), Len(truth) + 1)
    BY <1>1, <2>1, <2>3, PlacedByClose
  <2>5. Placed(inbox', Len(closed'), Len(truth'))
    BY <1>1, <2>1, <2>2, <2>4 DEF Placed
  <2>6. <<pnl>> \in Seq(Int) /\ Len(<<pnl>>) = 1
    BY ConstantFacts
  <2>7. PICK w, l \in 0..OutcomeCap : /\ wins' = w /\ losses' = l
                                      /\ w + l <= wins + losses + 1
    BY <1>1, <2>1, <2>6, RecordEffect
  <2>8. CountedAtMost(w, l, Len(truth) + 1, refreshes)
    BY <1>1, <2>7, CountedOnce, ConstantFacts
  <2>9. QED
    BY <2>1, <2>2, <2>5, <2>7, <2>8 DEF KellyInv
<1>4. CASE Monitor
  <2>1. Placed(inbox', Len(closed'), Len(truth'))
    BY <1>1, <1>4, KellyMonitor
  <2>2. UNCHANGED <<kelly, history>>
    BY <1>4 DEF Monitor
  <2>3. QED
    BY <1>1, <2>1, <2>2 DEF KellyInv, kelly, history
<1>5. CASE Refresh
  <2>1. /\ (Relearn /\ refreshes' = refreshes + 1) \/ UNCHANGED <<kelly, refreshes>>
        /\ UNCHANGED <<inbox, closed, truth>>
    BY <1>5 DEF Refresh, agents, journal
  <2>2. CASE UNCHANGED <<kelly, refreshes>>
    BY <1>1, <2>1, <2>2 DEF KellyInv, kelly
  <2>3. CASE Relearn /\ refreshes' = refreshes + 1
    <3>1. PnlsOf(ClosedTrades) \in Seq(Int) /\ Len(PnlsOf(ClosedTrades)) <= Len(closed)
          /\ Record(PnlsOf(ClosedTrades))
      BY <1>1, <2>3, PnlsOfWindow DEF Relearn
    <3>2. PICK w, l \in 0..OutcomeCap : /\ wins' = w /\ losses' = l
                                        /\ w + l <= wins + losses + Len(PnlsOf(ClosedTrades))
      BY <1>1, <3>1, RecordEffect
    <3>3. Len(PnlsOf(ClosedTrades)) \in Nat /\ Len(PnlsOf(ClosedTrades)) <= Len(truth)
      BY <1>1, <3>1, LenProperties
    <3>4. CountedAtMost(w, l, Len(truth), refreshes + 1)
      BY <1>1, <3>2, <3>3, CountedAgain, ConstantFacts
    <3>5. QED
      BY <1>1, <2>1, <2>3, <3>2, <3>4 DEF KellyInv
  <2>4. QED
    BY <2>1, <2>2, <2>3
<1>6. CASE Crash
  <2>1. /\ inbox' = <<>> /\ wins' = 0 /\ losses' = 0
        /\ UNCHANGED <<closed, truth, refreshes>>
    BY <1>6 DEF Crash, journal
  <2>2. Pending(<<>>) = {}
    <3>1. Len(<<>>) = 0 /\ 1..0 = {}
      OBVIOUS
    <3>2. QED
      BY <3>1 DEF Pending
  <2>3. PlacedBy([i \in {} |-> 0], <<>>, Len(closed), Len(truth))
    BY <2>2 DEF PlacedBy
  <2>4. CountedAtMost(0, 0, Len(truth), refreshes)
    <3>1. Len(truth) * (refreshes + 1) \in Nat
      BY <1>1
    <3>2. QED
      BY <3>1 DEF CountedAtMost
  <2>5. QED
    BY <1>1, <2>1, <2>3, <2>4 DEF KellyInv, Placed
<1>7. CASE Tick \/ UNCHANGED vars
  <2>1. UNCHANGED <<inbox, closed, truth, refreshes, kelly>>
    BY <1>7 DEF Tick, vars, agents, journal, history
  <2>2. QED
    BY <1>1, <2>1 DEF KellyInv, kelly
<1>8. QED
  BY <1>2, <1>3, <1>4, <1>5, <1>6, <1>7 DEF Next

LEMMA KellyInit == Init => KellyInv
<1> SUFFICES ASSUME Init PROVE KellyInv
  OBVIOUS
<1>1. /\ inbox = <<>> /\ closed = <<>> /\ truth = <<>> /\ Len(<<>>) = 0
      /\ wins = 0 /\ losses = 0 /\ refreshes = 0
  BY DEF Init
<1>2. Pending(<<>>) = {}
  <2>1. Len(<<>>) = 0 /\ 1..0 = {}
    OBVIOUS
  <2>2. QED
    BY <2>1 DEF Pending
<1>3. PlacedBy([i \in {} |-> 0], <<>>, 0, 0)
  BY <1>2 DEF PlacedBy
<1>4. QED
  BY <1>1, <1>3 DEF KellyInv, Placed, CountedAtMost

\* Live once and once per refresh (learning.rs:57-83): the Kelly statistics
\* hold no more outcomes than trades times one and the number of refreshes,
\* for a journal that lags or lost events and for any restarts.
THEOREM KellyTheorem == Spec => []KellyCountsOncePerRefresh
<1>1. KellyInv => KellyCountsOncePerRefresh
  BY DEF KellyInv, CountedAtMost, KellyCountsOncePerRefresh
<1>2. QED
  BY <1>1, KellyInit, KellyStep, TypeInit, TypeStep, PTL DEF Spec

-----------------------------------------------------------------------------
(* Pauses *)

\* The streak lessons extracted name the losing pairs and last from now on.
LEMMA PausedAreLosing ==
  ASSUME NEW trades, NEW at
  PROVE  /\ Paused(Extract(trades, at)) = LosingBuckets(trades)
         /\ \A b \in LosingBuckets(trades) :
              Lesson("LoseStreak", b[1], Every, b[2], at + StreakPause) \in Extract(trades, at)
<1>1. \A l \in Extract(trades, at) : l.kind = "LoseStreak" => l \in LoseStreaks(trades, at)
  BY DEF Extract, DrawdownCooldown, Derates, Boosts, Blacklists, Calibration, SymbolDerates, Lesson
<1>2. LoseStreaks(trades, at) \subseteq Extract(trades, at)
  BY DEF Extract
<1>3. \A b \in LosingBuckets(trades) : b = <<b[1], b[2]>>
  BY DEF LosingBuckets
<1> DEFINE lesson(b) == Lesson("LoseStreak", b[1], Every, b[2], at + StreakPause)
<1>4. \A b : lesson(b).kind = "LoseStreak" /\ lesson(b).strategy = b[1] /\ lesson(b).symbol = b[2]
  BY DEF Lesson
<1>5. LoseStreaks(trades, at) = {lesson(b) : b \in LosingBuckets(trades)}
  BY DEF LoseStreaks
<1> HIDE DEF lesson
<1>6. \A x : x \in Paused(Extract(trades, at)) <=> x \in LosingBuckets(trades)
  <2>1. ASSUME NEW x \in Paused(Extract(trades, at))
        PROVE  x \in LosingBuckets(trades)
    <3>1. PICK l \in Extract(trades, at) : l.kind = "LoseStreak" /\ x = <<l.strategy, l.symbol>>
      BY DEF Paused
    <3>2. PICK b \in LosingBuckets(trades) : l = lesson(b)
      BY <1>1, <1>5, <3>1
    <3>3. QED
      BY <1>3, <1>4, <3>1, <3>2
  <2>2. ASSUME NEW x \in LosingBuckets(trades)
        PROVE  x \in Paused(Extract(trades, at))
    <3>1. lesson(x) \in Extract(trades, at) /\ lesson(x).kind = "LoseStreak"
          /\ x = <<lesson(x).strategy, lesson(x).symbol>>
      BY <1>2, <1>3, <1>4, <1>5
    <3>2. QED
      BY <3>1 DEF Paused
  <2>3. QED
    BY <2>1, <2>2
<1>7. QED
  BY <1>2, <1>5, <1>6 DEF lesson

\* Lists of the same trades justify the same pauses.
LEMMA SameBuckets ==
  ASSUME NEW a, NEW b, DOMAIN a = 1..Len(a), DOMAIN b = 1..Len(b), Len(a) = Len(b),
         \A i \in 1..Len(a) : SameTrade(a[i], b[i])
  PROVE  LosingBuckets(a) = LosingBuckets(b)
<1>1. \A i \in 1..Len(a) : /\ Strategy(a[i]) = Strategy(b[i]) /\ Symbol(a[i]) = Symbol(b[i])
                           /\ IsWin(a[i]) = IsWin(b[i])
  BY DEF SameTrade, Strategy, Symbol, IsWin
<1>2. Strategies(a) = Strategies(b) /\ SymbolsIn(a) = SymbolsIn(b)
  BY <1>1 DEF Strategies, SymbolsIn, Range
<1>3. \A st, sy : OfBucket(a, st, sy) = OfBucket(b, st, sy) /\ OfBucket(a, st, sy) \subseteq 1..Len(a)
  <2>1. ASSUME NEW st, NEW sy
        PROVE  OfBucket(a, st, sy) = OfBucket(b, st, sy) /\ OfBucket(a, st, sy) \subseteq 1..Len(a)
    <3>1. /\ OfStrategy(a, st) = {i \in 1..Len(a) : Strategy(a[i]) = st}
          /\ OfStrategy(b, st) = {i \in 1..Len(b) : Strategy(b[i]) = st}
          /\ OfSymbol(a, sy) = {i \in 1..Len(a) : Symbol(a[i]) = sy}
          /\ OfSymbol(b, sy) = {i \in 1..Len(b) : Symbol(b[i]) = sy}
      BY DEF OfStrategy, OfSymbol, Where
    <3>2. OfStrategy(a, st) = OfStrategy(b, st) /\ OfSymbol(a, sy) = OfSymbol(b, sy)
      BY <1>1, <3>1
    <3>3. QED
      BY <3>1, <3>2 DEF OfBucket
  <2>2. QED
    BY <2>1
<1>4. ASSUME NEW B, B \subseteq 1..Len(a)
      PROVE  Streak(a, B) = Streak(b, B)
  <2> DEFINE run(t) == {i \in LastFive(B) : \A j, k \in LastFive(B) :
                          j >= i /\ k >= i => IsWin(t[j]) = IsWin(t[k])}
  <2>1. LastFive(B) \subseteq 1..Len(a)
    BY <1>4 DEF LastFive
  <2>2. run(a) = run(b)
    BY <1>1, <2>1
  <2>3. Winning(a, B) = Winning(b, B)
    BY <1>1, <1>4 DEF Winning
  <2>4. \A t : Streak(t, B) = IF run(t) \subseteq Winning(t, B) THEN Count(run(t)) ELSE 0 - Count(run(t))
    BY DEF Streak
  <2> HIDE DEF run
  <2>5. QED
    BY <2>2, <2>3, <2>4
<1>5. \A st, sy : Streak(a, OfBucket(a, st, sy)) = Streak(b, OfBucket(b, st, sy))
  BY <1>3, <1>4
<1>6. QED
  BY <1>2, <1>5 DEF LosingBuckets

-----------------------------------------------------------------------------
(* The journal is told the truth *)

LEMMA JournaledPast ==
  ASSUME NEW rs, NEW q, NEW r, NEW e, NEW p \in Nat, p <= Len(q) + 1, NEW id,
         Appended(q, e, r), Len(q) \in Nat, Journaled(rs, q, p, id)
  PROVE  /\ Journaled(rs, r, p, id) /\ Journaled(rs, r, Len(r) + 1, id)
<1>1. CASE id \in DOMAIN rs
  BY <1>1 DEF Journaled
<1>2. CASE id \notin DOMAIN rs
  <2>1. PICK i \in 1..(p - 1) : q[i].type = "Filled" /\ q[i].id = id
    BY <1>2 DEF Journaled
  <2>2. Len(r) = Len(q) + 1 /\ i \in 1..Len(q) /\ i \in 1..((Len(r) + 1) - 1)
    BY DEF Appended
  <2>3. r[i] = q[i]
    BY <2>2 DEF Appended
  <2>4. QED
    BY <2>1, <2>2, <2>3 DEF Journaled
<1>3. QED
  BY <1>1, <1>2

LEMMA SamePending ==
  ASSUME NEW q, NEW r, NEW e, Appended(q, e, r), Len(q) \in Nat, e.type # "Closed"
  PROVE  /\ Pending(r) = Pending(q)
         /\ \A i \in Pending(q) : r[i] = q[i] /\ i \in 1..Len(q)
<1>1. /\ r[Len(q) + 1] = e /\ \A i \in 1..Len(q) : r[i] = q[i]
      /\ \A i : i \in 1..Len(r) <=> (i \in 1..Len(q) \/ i = Len(q) + 1)
  BY DEF Appended
<1>2. \A i : i \in Pending(r) <=> i \in Pending(q)
  BY <1>1 DEF Pending
<1>3. QED
  BY <1>1, <1>2 DEF Pending

\* An outcome or a fill joins the inbox, and with the fill a position the book.
LEMMA RowsOpen ==
  ASSUME NEW rs, NEW q, NEW r, NEW e, NEW b, NEW b2, NEW st, NEW st2,
         RowsInv(rs, q, b, st), Appended(q, e, r), Len(q) \in Nat, e.type # "Closed",
         \A id \in DOMAIN b2 : id \in DOMAIN b \/ (e.type = "Filled" /\ e.id = id),
         \A id \in DOMAIN rs : st[rs[id]] = "filled" => st2[rs[id]] = "filled",
         \A s, t \in Setups :
           st2[s] = "filled" /\ st2[t] = "filled" /\ ClientIdOf[s] = ClientIdOf[t] => s = t
  PROVE  RowsInv(rs, r, b2, st2)
<1>1. /\ Pending(r) = Pending(q) /\ \A i \in Pending(q) : r[i] = q[i] /\ i \in 1..Len(q)
  BY SamePending
<1>2. ASSUME NEW id \in DOMAIN b2
      PROVE  Journaled(rs, r, Len(r) + 1, id)
  <2>1. CASE id \in DOMAIN b
    BY <2>1, JournaledPast, Len(q) + 1 \in Nat, Len(q) + 1 <= Len(q) + 1 DEF RowsInv
  <2>2. CASE e.type = "Filled" /\ e.id = id
    <3>1. Len(q) + 1 \in 1..((Len(r) + 1) - 1) /\ r[Len(q) + 1] = e
      BY DEF Appended
    <3>2. QED
      BY <2>2, <3>1 DEF Journaled
  <2>3. QED
    BY <2>1, <2>2
<1>3. ASSUME NEW i \in Pending(r)
      PROVE  Journaled(rs, r, i, r[i].id)
  <2>1. i \in Nat /\ i <= Len(q) + 1 /\ r[i] = q[i] /\ Journaled(rs, q, i, q[i].id)
    BY <1>1 DEF RowsInv
  <2>2. QED
    BY <2>1, JournaledPast
<1>4. QED
  BY <1>2, <1>3 DEF RowsInv

\* A position leaves the book, and its close joins the inbox.
LEMMA RowsClose ==
  ASSUME NEW rs, NEW q, NEW r, NEW e, NEW b, NEW b2, NEW st,
         RowsInv(rs, q, b, st), Appended(q, e, r), Len(q) \in Nat, e.type = "Closed",
         e.id \in DOMAIN b, DOMAIN b2 \subseteq DOMAIN b
  PROVE  RowsInv(rs, r, b2, st)
<1>1. /\ Pending(r) = Pending(q) \union {Len(q) + 1}
      /\ \A i \in Pending(q) : r[i] = q[i] /\ i < Len(q) + 1 /\ i \in Nat
      /\ r[Len(q) + 1] = e
  BY PendingAppended
<1>2. Len(q) + 1 \in Nat /\ Len(q) + 1 <= Len(q) + 1
  OBVIOUS
<1>3. \A id \in DOMAIN b2 : Journaled(rs, r, Len(r) + 1, id)
  BY <1>2, JournaledPast DEF RowsInv
<1>4. ASSUME NEW i \in Pending(r)
      PROVE  Journaled(rs, r, i, r[i].id)
  <2>1. CASE i = Len(q) + 1
    BY <1>1, <1>2, <2>1, JournaledPast DEF RowsInv
  <2>2. CASE i \in Pending(q)
    BY <1>1, <2>2, JournaledPast DEF RowsInv
  <2>3. QED
    BY <1>1, <2>1, <2>2
<1>5. QED
  BY <1>3, <1>4 DEF RowsInv

\* The monitor handles an event; a fill makes its row.
LEMMA RowsHandled ==
  ASSUME NEW rs, NEW rs2, NEW q, NEW r, NEW b, NEW st,
         RowsInv(rs, q, b, st), Shifted(q, r), DOMAIN rs \subseteq DOMAIN rs2,
         q[1].type = "Filled" => q[1].id \in DOMAIN rs2,
         \A id \in DOMAIN rs2 : ClientIdOf[rs2[id]] = id /\ st[rs2[id]] = "filled"
  PROVE  RowsInv(rs2, r, b, st)
<1>1. /\ Len(q) \in Nat \ {0} /\ Len(r) = Len(q) - 1
      /\ \A i \in 1..(Len(q) - 1) : r[i] = q[i + 1]
  BY DEF Shifted
<1>2. ASSUME NEW p \in 1..Len(q), NEW id, Journaled(rs, q, p + 1, id)
      PROVE  Journaled(rs2, r, p, id)
  <2>1. CASE id \in DOMAIN rs2
    BY <2>1 DEF Journaled
  <2>2. CASE id \notin DOMAIN rs2
    <3>1. PICK i \in 1..((p + 1) - 1) : q[i].type = "Filled" /\ q[i].id = id
      BY <1>2, <2>2 DEF Journaled
    <3>2. i # 1
      BY <2>2, <3>1
    <3>3. i - 1 \in 1..(p - 1) /\ i - 1 \in 1..(Len(q) - 1) /\ (i - 1) + 1 = i
      BY <1>1, <3>2
    <3>4. r[i - 1] = q[i]
      BY <1>1, <3>3
    <3>5. QED
      BY <3>1, <3>3, <3>4 DEF Journaled
  <2>3. QED
    BY <2>1, <2>2
<1>3. \A id \in DOMAIN b : Journaled(rs2, r, Len(r) + 1, id)
  <2>1. Len(q) \in 1..Len(q) /\ Len(r) + 1 = Len(q)
    BY <1>1
  <2>2. QED
    BY <1>2, <2>1 DEF RowsInv
<1>4. ASSUME NEW i \in Pending(r)
      PROVE  Journaled(rs2, r, i, r[i].id)
  <2>1. i \in Nat \ {0} /\ i + 1 \in Pending(q) /\ r[i] = q[i + 1]
    BY PendingShifted
  <2>2. i \in 1..Len(q)
    BY <1>1, <2>1 DEF Pending
  <2>3. Journaled(rs, q, i + 1, q[i + 1].id)
    BY <2>1 DEF RowsInv
  <2>4. QED
    BY <1>2, <2>1, <2>2, <2>3
<1>5. QED
  BY <1>3, <1>4 DEF RowsInv

LEMMA OnceOpen ==
  ASSUME NEW cl, NEW q, NEW r, NEW e, NEW b, NEW b2,
         OnceInv(cl, q, b), Appended(q, e, r), Len(q) \in Nat, e.type # "Closed",
         \A id \in DOMAIN b2 : id \in DOMAIN b \/
           ((\A i \in Pending(q) : q[i].id # id) /\ (\A k \in 1..Len(cl) : cl[k].id # id))
  PROVE  OnceInv(cl, r, b2)
<1>1. /\ Pending(r) = Pending(q) /\ \A i \in Pending(q) : r[i] = q[i]
  BY SamePending
<1>2. QED
  BY <1>1 DEF OnceInv

LEMMA OnceClose ==
  ASSUME NEW cl, NEW q, NEW r, NEW e, NEW b, NEW b2,
         OnceInv(cl, q, b), Appended(q, e, r), Len(q) \in Nat, e.type = "Closed",
         e.id \in DOMAIN b, DOMAIN b2 = (DOMAIN b) \ {e.id}
  PROVE  OnceInv(cl, r, b2)
<1>1. /\ Pending(r) = Pending(q) \union {Len(q) + 1}
      /\ \A i \in Pending(q) : r[i] = q[i]
      /\ r[Len(q) + 1] = e
  BY PendingAppended
<1>2. QED
  BY <1>1 DEF OnceInv

\* A closed row is added exactly when a close is handled.
Handled(cl, q, cl2) ==
  /\ q[1].type # "Closed" => cl2 = cl
  /\ q[1].type = "Closed" =>
       \E row : row.id = q[1].id /\ SameTrade(row, q[1]) /\ Appended(cl, row, cl2)

LEMMA OnceHandled ==
  ASSUME NEW cl, NEW cl2, NEW q, NEW r, NEW b,
         OnceInv(cl, q, b), Shifted(q, r), Handled(cl, q, cl2), Len(cl) \in Nat
  PROVE  OnceInv(cl2, r, b)
<1>1. /\ \A i \in Pending(r) : i \in Nat \ {0} /\ i + 1 \in Pending(q) /\ r[i] = q[i + 1]
  BY PendingShifted
<1>2. /\ \A i \in Pending(r) : r[i].id \notin DOMAIN b
      /\ \A i, j \in Pending(r) : r[i].id = r[j].id => i = j
  <2>1. \A i \in Pending(r) : r[i].id \notin DOMAIN b
    BY <1>1 DEF OnceInv
  <2>2. ASSUME NEW i \in Pending(r), NEW j \in Pending(r), r[i].id = r[j].id
        PROVE  i = j
    <3>1. i \in Nat /\ j \in Nat /\ i + 1 = j + 1
      BY <1>1, <2>2 DEF OnceInv
    <3>2. QED
      BY <3>1
  <2>3. QED
    BY <2>1, <2>2
<1>3. CASE q[1].type # "Closed"
  BY <1>1, <1>2, <1>3 DEF OnceInv, Handled
<1>4. CASE q[1].type = "Closed"
  <2>1. PICK row : row.id = q[1].id /\ Appended(cl, row, cl2)
    BY <1>4 DEF Handled
  <2>2. 1 \in Pending(q)
    BY <1>4 DEF Shifted, Pending
  <2>3. /\ \A k \in 1..Len(cl2) : k \in 1..Len(cl) \/ k = Len(cl) + 1
        /\ \A k \in 1..Len(cl) : cl2[k] = cl[k]
        /\ cl2[Len(cl) + 1] = row
    BY <2>1 DEF Appended
  <2>4. \A k \in 1..Len(cl2) : cl2[k].id \notin DOMAIN b
    BY <2>1, <2>2, <2>3 DEF OnceInv
  <2>5. ASSUME NEW i \in Pending(r), NEW k \in 1..Len(cl2)
        PROVE  cl2[k].id # r[i].id
    <3>1. i + 1 \in Pending(q) /\ i + 1 # 1 /\ r[i] = q[i + 1]
      BY <1>1
    <3>2. QED
      BY <2>1, <2>2, <2>3, <3>1 DEF OnceInv
  <2>6. QED
    BY <1>2, <2>4, <2>5 DEF OnceInv
<1>5. QED
  BY <1>3, <1>4

LEMMA ToldOpen ==
  ASSUME NEW cl, NEW q, NEW r, NEW e, NEW tr,
         Told(cl, q, tr), Appended(q, e, r), Len(q) \in Nat, e.type # "Closed"
  PROVE  Told(cl, r, tr)
<1>1. /\ Pending(r) = Pending(q) /\ \A i \in Pending(q) : r[i] = q[i]
  BY SamePending
<1>2. PICK f : ToldBy(f, cl, q, tr)
  BY DEF Told
<1>3. ToldBy(f, cl, r, tr)
  BY <1>1, <1>2 DEF ToldBy, PlacedBy
<1>4. QED
  BY <1>3 DEF Told

LEMMA ToldClose ==
  ASSUME NEW cl, NEW q, NEW r, NEW e, NEW tr, NEW t, NEW tr2,
         Told(cl, q, tr), Appended(q, e, r), Len(q) \in Nat, e.type = "Closed",
         Len(cl) \in Nat, Len(tr) \in Nat, Appended(tr, t, tr2), SameTrade(t, e)
  PROVE  Told(cl, r, tr2)
<1>1. PICK f : ToldBy(f, cl, q, tr)
  BY DEF Told
<1>2. Len(cl) <= Len(tr) /\ PlacedBy(f, q, Len(cl), Len(tr))
  BY <1>1 DEF Told, ToldBy
<1> DEFINE g == Behind(f, q, Len(tr) + 1)
<1>3. PlacedBy(g, r, Len(cl), Len(tr) + 1)
  BY <1>2, PlacedByClose
<1>4. /\ Pending(r) = Pending(q) \union {Len(q) + 1} /\ Len(q) + 1 \notin Pending(q)
      /\ \A i \in Pending(q) : r[i] = q[i]
      /\ r[Len(q) + 1] = e
  BY PendingAppended
<1>5. g[Len(q) + 1] = Len(tr) + 1 /\ \A i \in Pending(q) : g[i] = f[i]
  BY <1>4 DEF Behind
<1> HIDE DEF g
<1>6. /\ Len(tr2) = Len(tr) + 1 /\ tr2[Len(tr) + 1] = t /\ \A k \in 1..Len(tr) : tr2[k] = tr[k]
  BY DEF Appended
<1>7. \A k \in (Len(cl) + 1)..Len(tr2) : \E i \in Pending(r) : g[i] = k
  <2>1. \A k \in (Len(cl) + 1)..Len(tr2) : k \in (Len(cl) + 1)..Len(tr) \/ k = Len(tr) + 1
    BY <1>6
  <2>2. \A k \in (Len(cl) + 1)..Len(tr) : \E i \in Pending(q) : f[i] = k
    BY <1>1 DEF ToldBy
  <2>3. QED
    BY <1>4, <1>5, <2>1, <2>2
<1>8. ASSUME NEW i \in Pending(r)
      PROVE  SameTrade(tr2[g[i]], r[i])
  <2>1. CASE i = Len(q) + 1
    BY <1>4, <1>5, <1>6, <2>1
  <2>2. CASE i \in Pending(q)
    <3>1. f[i] \in Nat /\ Len(cl) < f[i] /\ f[i] <= Len(tr) /\ SameTrade(tr[f[i]], q[i])
      BY <1>1, <1>2, <2>2 DEF PlacedBy, ToldBy
    <3>2. f[i] \in 1..Len(tr)
      BY <3>1
    <3>3. QED
      BY <1>4, <1>5, <1>6, <2>2, <3>1, <3>2
  <2>3. QED
    BY <1>4, <2>1, <2>2
<1>9. \A k \in 1..Len(cl) : SameTrade(tr2[k], cl[k])
  <2>1. \A k \in 1..Len(cl) : k \in 1..Len(tr) /\ SameTrade(tr[k], cl[k])
    BY <1>1, <1>2 DEF ToldBy
  <2>2. QED
    BY <1>6, <2>1
<1>10. ToldBy(g, cl, r, tr2)
  BY <1>3, <1>6, <1>7, <1>8, <1>9 DEF ToldBy
<1>11. QED
  BY <1>2, <1>6, <1>10 DEF Told

LEMMA ToldHandled ==
  ASSUME NEW cl, NEW cl2, NEW q, NEW r, NEW tr,
         Told(cl, q, tr), Shifted(q, r), Handled(cl, q, cl2), Len(cl) \in Nat, Len(tr) \in Nat
  PROVE  Told(cl2, r, tr)
<1>1. PICK f : ToldBy(f, cl, q, tr)
  BY DEF Told
<1>2. /\ Len(cl) <= Len(tr) /\ PlacedBy(f, q, Len(cl), Len(tr))
      /\ \A k \in (Len(cl) + 1)..Len(tr) : \E i \in Pending(q) : f[i] = k
      /\ \A i \in Pending(q) : SameTrade(tr[f[i]], q[i])
      /\ \A k \in 1..Len(cl) : SameTrade(tr[k], cl[k])
      /\ \A i \in Pending(q) : f[i] \in Nat /\ Len(cl) < f[i] /\ f[i] <= Len(tr)
      /\ \A i, j \in Pending(q) : i < j => f[i] < f[j]
  BY <1>1 DEF Told, ToldBy, PlacedBy
<1>3. /\ \A i \in Pending(r) : i \in Nat \ {0} /\ i + 1 \in Pending(q) /\ r[i] = q[i + 1]
      /\ \A i \in Pending(q) : i # 1 => i - 1 \in Pending(r)
      /\ \A i \in Pending(q) : i \in Nat \ {0} /\ (i - 1) + 1 = i
  BY PendingShifted
<1> DEFINE g == Nearer(f, r)
<1>4. \A i \in Pending(r) : g[i] = f[i + 1]
  BY DEF Nearer
<1>5. \A i \in Pending(r) : SameTrade(tr[g[i]], r[i])
  BY <1>2, <1>3, <1>4
<1>6. CASE q[1].type # "Closed"
  <2>1. cl2 = cl
    BY <1>6 DEF Handled
  <2>2. PlacedBy(g, r, Len(cl), Len(tr))
    BY <1>2, <1>6, PlacedByShift
  <2> HIDE DEF g
  <2>3. \A i \in Pending(q) : i - 1 \in Pending(r) /\ g[i - 1] = f[i]
    <3>1. 1 \notin Pending(q)
      BY <1>6 DEF Pending
    <3>2. QED
      BY <1>3, <1>4, <3>1
  <2>4. \A k \in (Len(cl) + 1)..Len(tr) : \E i \in Pending(r) : g[i] = k
    BY <1>2, <2>3
  <2>5. ToldBy(g, cl, r, tr)
    BY <1>2, <1>5, <2>2, <2>4 DEF ToldBy
  <2>6. QED
    BY <1>2, <2>1, <2>5 DEF Told
<1>7. CASE q[1].type = "Closed"
  <2>1. PICK row : SameTrade(row, q[1]) /\ Appended(cl, row, cl2)
    BY <1>7 DEF Handled
  <2>2. 1 \in Pending(q)
    BY <1>7 DEF Shifted, Pending
  <2>3. /\ Len(cl2) = Len(cl) + 1 /\ cl2[Len(cl) + 1] = row
        /\ \A k \in 1..Len(cl) : cl2[k] = cl[k]
    BY <2>1 DEF Appended
  <2>4. f[1] = Len(cl) + 1
    <3>1. f[1] \in Nat /\ Len(cl) + 1 <= f[1] /\ f[1] <= Len(tr)
      BY <1>2, <2>2
    <3>2. Len(cl) + 1 \in (Len(cl) + 1)..Len(tr)
      BY <3>1
    <3>3. PICK i \in Pending(q) : f[i] = Len(cl) + 1
      BY <1>2, <3>2
    <3>4. i # 1 => 1 < i
      BY <1>3
    <3>5. i # 1 => f[1] < f[i]
      BY <1>2, <2>2, <3>4
    <3>6. QED
      BY <3>1, <3>3, <3>5
  <2>5. Len(cl2) \in Nat /\ Len(cl2) <= f[1] /\ Len(cl2) <= Len(tr)
    BY <1>2, <2>2, <2>3, <2>4
  <2>6. PlacedBy(g, r, Len(cl2), Len(tr))
    BY <1>2, <1>7, <2>5, PlacedByShift
  <2> HIDE DEF g
  <2>7. ASSUME NEW k \in (Len(cl2) + 1)..Len(tr)
        PROVE  \E i \in Pending(r) : g[i] = k
    <3>1. k \in (Len(cl) + 1)..Len(tr) /\ k # f[1]
      BY <2>3, <2>4
    <3>2. PICK i \in Pending(q) : f[i] = k
      BY <1>2, <3>1
    <3>3. i # 1
      BY <3>1, <3>2
    <3>4. i - 1 \in Pending(r) /\ g[i - 1] = f[i]
      BY <1>3, <1>4, <3>3
    <3>5. QED
      BY <3>2, <3>4
  <2>8. SameTrade(tr[Len(cl) + 1], row)
    BY <1>2, <2>1, <2>2, <2>4 DEF SameTrade
  <2>9. \A k \in 1..Len(cl2) : SameTrade(tr[k], cl2[k])
    <3>1. \A k \in 1..Len(cl2) : k \in 1..Len(cl) \/ k = Len(cl) + 1
      BY <2>3
    <3>2. QED
      BY <1>2, <2>3, <2>8, <3>1
  <2>10. ToldBy(g, cl2, r, tr)
    BY <1>5, <2>6, <2>7, <2>9 DEF ToldBy
  <2>11. QED
    BY <2>5, <2>10 DEF Told
<1>8. QED
  BY <1>6, <1>7

\* What was unclean stays so: setups stay filled and overtaken.
LEMMA CleanBefore ==
  ASSUME TypeInv, [Next]_vars, Clean'
  PROVE  Clean /\ ~Crash
<1>1. stage \in [Setups -> {"new", "judged", "filled"}] /\ overtaken \subseteq Setups
  BY DEF TypeInv, TypeOK
<1>2. ~irregular' /\ \A s \in overtaken' : stage'[s] # "filled"
  BY DEF Clean
<1>3. ~Crash
  BY <1>2 DEF Crash
<1>4. overtaken \subseteq overtaken' /\ ~irregular
  <2>1. CASE UNCHANGED history
    BY <1>2, <2>1 DEF history
  <2>2. CASE UNCHANGED <<overtaken, irregular>>
    BY <1>2, <2>2
  <2>3. ASSUME NEW t \in Setups, BrainOutcome(t)
        PROVE  overtaken \subseteq overtaken' /\ ~irregular
    BY <1>2, <2>3 DEF BrainOutcome
  <2>4. ASSUME NEW t \in Setups, OrderFilled(t)
        PROVE  overtaken \subseteq overtaken' /\ ~irregular
    <3>1. overtaken' = overtaken /\ (irregular => irregular')
      BY <2>4 DEF OrderFilled
    <3>2. QED
      BY <1>2, <3>1
  <2>5. \/ UNCHANGED history \/ UNCHANGED <<overtaken, irregular>>
        \/ \E t \in Setups : BrainOutcome(t) \/ OrderFilled(t)
    BY <1>3 DEF Next, PositionClosed, Monitor, Refresh, Tick, vars
  <2>6. QED
    BY <2>1, <2>2, <2>3, <2>4, <2>5
<1>5. \A s \in Setups : stage[s] = "filled" => stage'[s] = "filled"
  <2>1. ASSUME NEW t \in Setups, BrainOutcome(t) \/ OrderFilled(t)
        PROVE  \A s \in Setups : stage[s] = "filled" => stage'[s] = "filled"
    BY <1>1, <2>1 DEF BrainOutcome, OrderFilled
  <2>2. UNCHANGED stage \/ \E t \in Setups : BrainOutcome(t) \/ OrderFilled(t)
    BY <1>3 DEF Next, PositionClosed, Monitor, Refresh, Tick, vars, agents
  <2>3. QED
    BY <2>1, <2>2
<1>6. QED
  BY <1>1, <1>2, <1>3, <1>4, <1>5 DEF Clean

JournalTold(rs, cl, q, b, st, tr) == RowsInv(rs, q, b, st) /\ OnceInv(cl, q, b) /\ Told(cl, q, tr)

LEMMA JournalInit == Init => JournalInv
<1> SUFFICES ASSUME Init PROVE JournalInv
  OBVIOUS
<1>1. /\ inbox = <<>> /\ closed = <<>> /\ truth = <<>> /\ rows = <<>> /\ book = <<>>
      /\ Len(<<>>) = 0 /\ DOMAIN <<>> = {} /\ 1..0 = {} /\ (0 + 1)..0 = {}
      /\ stage = [s \in Setups |-> "new"]
  BY DEF Init
<1>2. Pending(<<>>) = {}
  BY <1>1 DEF Pending
<1>3. RowsInv(<<>>, <<>>, <<>>, stage)
  BY <1>1, <1>2 DEF RowsInv
<1>4. OnceInv(<<>>, <<>>, <<>>)
  BY <1>1, <1>2 DEF OnceInv
<1>5. ToldBy([i \in {} |-> 0], <<>>, <<>>, <<>>)
  BY <1>1, <1>2 DEF ToldBy, PlacedBy
<1>6. Told(<<>>, <<>>, <<>>)
  BY <1>1, <1>5 DEF Told
<1>7. QED
  BY <1>1, <1>3, <1>4, <1>6 DEF JournalInv

LEMMA JournalFilled ==
  ASSUME TypeInv, JournalTold(rows, closed, inbox, book, stage, truth), ~irregular',
         NEW s \in Setups, OrderFilled(s)
  PROVE  JournalTold(rows', closed', inbox', book', stage', truth')
<1> DEFINE e == Event("Filled", s, ClientIdOf[s], 0)
<1>1. /\ e.type = "Filled" /\ e.of = s /\ e.id = ClientIdOf[s]
      /\ Len(inbox) \in Nat /\ Appended(inbox, e, inbox')
  BY FilledEvent
<1> HIDE DEF e
<1>2. /\ stage' = [stage EXCEPT ![s] = "filled"]
      /\ book' = [c \in (DOMAIN book) \union {ClientIdOf[s]} |-> IF c = ClientIdOf[s] THEN s ELSE book[c]]
      /\ ~\E t \in Setups : ClientIdOf[t] = ClientIdOf[s] /\ stage[t] = "filled"
      /\ rows' = rows /\ closed' = closed /\ truth' = truth
  BY DEF OrderFilled, journal
<1>3. /\ RowsInv(rows, inbox, book, stage) /\ OnceInv(closed, inbox, book)
      /\ Told(closed, inbox, truth)
      /\ stage \in [Setups -> {"new", "judged", "filled"}] /\ Named(inbox, book, stage)
      /\ \A i \in 1..Len(inbox) : inbox[i] \in Events
      /\ \A id \in DOMAIN rows : rows[id] \in Setups
      /\ \A k \in 1..Len(closed) : closed[k].id \in DOMAIN rows
  BY TypeFacts DEF JournalTold, TypeInv, TypeOK
<1>4. DOMAIN book' = (DOMAIN book) \union {ClientIdOf[s]}
  BY <1>2
<1>5. RowsInv(rows, inbox', book', stage')
  <2>1. \A t, u \in Setups :
          stage'[t] = "filled" /\ stage'[u] = "filled" /\ ClientIdOf[t] = ClientIdOf[u] => t = u
    BY <1>2, <1>3 DEF RowsInv
  <2>2. \A id \in DOMAIN book' : id \in DOMAIN book \/ (e.type = "Filled" /\ e.id = id)
    BY <1>1, <1>4
  <2>3. \A id \in DOMAIN rows : stage[rows[id]] = "filled" => stage'[rows[id]] = "filled"
    BY <1>2, <1>3
  <2>4. QED
    BY <1>1, <1>3, <2>1, <2>2, <2>3, RowsOpen
<1>6. OnceInv(closed, inbox', book')
  <2>1. \A i \in Pending(inbox) : inbox[i].id # ClientIdOf[s]
    BY <1>2, <1>3, EventRange DEF Pending, Named
  <2>2. \A k \in 1..Len(closed) : closed[k].id # ClientIdOf[s]
    BY <1>2, <1>3 DEF RowsInv
  <2>3. QED
    BY <1>1, <1>3, <1>4, <2>1, <2>2, OnceOpen
<1>7. Told(closed, inbox', truth)
  BY <1>1, <1>3, ToldOpen
<1>8. QED
  BY <1>2, <1>5, <1>6, <1>7 DEF JournalTold

LEMMA JournalBrain ==
  ASSUME TypeInv, JournalTold(rows, closed, inbox, book, stage, truth),
         NEW s \in Setups, BrainOutcome(s)
  PROVE  JournalTold(rows', closed', inbox', book', stage', truth')
<1> DEFINE e == Event("Brain", s, ClientIdOf[s], 0)
<1>1. e.type = "Brain" /\ Len(inbox) \in Nat /\ Appended(inbox, e, inbox')
  BY BrainEvent
<1> HIDE DEF e
<1>2. /\ stage[s] = "new" /\ stage' = [stage EXCEPT ![s] = "judged"]
      /\ rows' = rows /\ closed' = closed /\ truth' = truth /\ book' = book
  BY DEF BrainOutcome, journal
<1>3. /\ RowsInv(rows, inbox, book, stage) /\ OnceInv(closed, inbox, book)
      /\ Told(closed, inbox, truth)
      /\ stage \in [Setups -> {"new", "judged", "filled"}]
      /\ \A id \in DOMAIN rows : rows[id] \in Setups
  BY TypeFacts DEF JournalTold, TypeInv
<1>4. \A t \in Setups : stage'[t] = "filled" <=> stage[t] = "filled"
  BY <1>2, <1>3
<1>5. RowsInv(rows, inbox', book, stage')
  <2>1. \A t, u \in Setups :
          stage'[t] = "filled" /\ stage'[u] = "filled" /\ ClientIdOf[t] = ClientIdOf[u] => t = u
    BY <1>3, <1>4 DEF RowsInv
  <2>2. \A id \in DOMAIN rows : stage[rows[id]] = "filled" => stage'[rows[id]] = "filled"
    BY <1>3, <1>4
  <2>3. QED
    BY <1>1, <1>3, <2>1, <2>2, RowsOpen
<1>6. OnceInv(closed, inbox', book) /\ Told(closed, inbox', truth)
  BY <1>1, <1>3, OnceOpen, ToldOpen
<1>7. QED
  BY <1>2, <1>5, <1>6 DEF JournalTold

LEMMA JournalClosed ==
  ASSUME TypeInv, JournalTold(rows, closed, inbox, book, stage, truth),
         NEW id \in Ids, PositionClosed(id)
  PROVE  JournalTold(rows', closed', inbox', book', stage', truth')
<1>1. PICK pnl \in Pnls : LET e == Event("Closed", book[id], id, pnl) IN
        /\ e.type = "Closed" /\ e.of = book[id] /\ e.id = id /\ e.pnl = pnl
        /\ Len(inbox) \in Nat /\ Appended(inbox, e, inbox')
        /\ Appended(truth, [of |-> book[id], pnl |-> pnl], truth')
  BY ClosedEvent
<1> DEFINE e == Event("Closed", book[id], id, pnl)
           t == [of |-> book[id], pnl |-> pnl]
<1>2. /\ e.type = "Closed" /\ e.id = id /\ SameTrade(t, e)
      /\ Len(inbox) \in Nat /\ Appended(inbox, e, inbox') /\ Appended(truth, t, truth')
  BY <1>1 DEF SameTrade
<1> HIDE DEF e, t
<1>3. /\ id \in DOMAIN book /\ book' = [c \in (DOMAIN book) \ {id} |-> book[c]]
      /\ stage' = stage /\ rows' = rows /\ closed' = closed
  BY DEF PositionClosed, journal
<1>4. /\ RowsInv(rows, inbox, book, stage) /\ OnceInv(closed, inbox, book)
      /\ Told(closed, inbox, truth) /\ Len(closed) \in Nat /\ Len(truth) \in Nat
  BY TypeFacts DEF JournalTold, TypeInv
<1>5. DOMAIN book' = (DOMAIN book) \ {id} /\ DOMAIN book' \subseteq DOMAIN book
  BY <1>3
<1>6. RowsInv(rows, inbox', book', stage)
  BY <1>2, <1>3, <1>4, <1>5, RowsClose
<1>7. OnceInv(closed, inbox', book')
  BY <1>2, <1>3, <1>4, <1>5, OnceClose
<1>8. Told(closed, inbox', truth')
  BY <1>2, <1>4, ToldClose
<1>9. QED
  BY <1>3, <1>6, <1>7, <1>8 DEF JournalTold

LEMMA JournalMonitor ==
  ASSUME TypeInv, JournalTold(rows, closed, inbox, book, stage, truth),
         LastInv(inbox, lastBrain, stage, overtaken), Clean, Monitor
  PROVE  JournalTold(rows', closed', inbox', book', stage', truth')
<1> DEFINE e == inbox[1]
<1>1. /\ e \in Events /\ Shifted(inbox, inbox') /\ 1 \in 1..Len(inbox)
      /\ \/ e.type = "Brain" /\ rows' = rows /\ closed' = closed
         \/ e.type = "Filled" /\ OnOrderFilled(e) /\ closed' = closed
         \/ e.type = "Closed" /\ OnPositionClosed(e) /\ rows' = rows
      /\ stage' = stage /\ book' = book /\ truth' = truth
  BY HandledEvent DEF journal, history
<1>2. /\ RowsInv(rows, inbox, book, stage) /\ OnceInv(closed, inbox, book)
      /\ Told(closed, inbox, truth) /\ Len(closed) \in Nat /\ Len(truth) \in Nat
      /\ Named(inbox, book, stage) /\ TypeOK /\ \A id \in DOMAIN rows : rows[id] \in Setups
  BY TypeFacts DEF JournalTold, TypeInv
<1>3. e.of \in Setups /\ e.id \in Ids
  BY <1>1, EventRange
<1>4. e.type # "Brain" => ClientIdOf[e.of] = e.id /\ stage[e.of] = "filled"
  BY <1>1, <1>2 DEF Named
<1>5. CASE e.type = "Brain" /\ rows' = rows /\ closed' = closed
  <2>1. RowsInv(rows', inbox', book, stage)
    <3>1. \A id \in DOMAIN rows : ClientIdOf[rows[id]] = id /\ stage[rows[id]] = "filled"
      BY <1>2 DEF RowsInv
    <3>2. e.type # "Filled" /\ rows' = rows
      BY <1>5
    <3>3. QED
      BY <1>1, <1>2, <3>1, <3>2, RowsHandled
  <2>2. Handled(closed, inbox, closed')
    BY <1>5 DEF Handled
  <2>3. QED
    BY <1>1, <1>2, <2>1, <2>2, OnceHandled, ToldHandled DEF JournalTold
<1>6. CASE e.type = "Filled" /\ OnOrderFilled(e) /\ closed' = closed
  <2>1. e.of \notin overtaken
    BY <1>4, <1>6 DEF Clean
  <2>2. LastIs(inbox, lastBrain, 1, e.of)
    BY <1>1, <1>6, <2>1 DEF LastInv
  <2>3. lastBrain[SymbolOf[e.of]] = e.of
    <3>1. 1..(1 - 1) = {}
      OBVIOUS
    <3>2. QED
      BY <2>2, <3>1 DEF LastIs
  <2>4. ColumnsOf(e) = e.of /\ e.of # Nobody
    BY <1>3, <2>3, ConstantFacts DEF ColumnsOf
  <2>5. InsertTrade(e.id, e.of)
    BY <1>6, <2>4 DEF OnOrderFilled
  <2>6. /\ DOMAIN rows' = (DOMAIN rows) \union {e.id}
        /\ \A c \in DOMAIN rows : rows'[c] = rows[c]
        /\ e.id \notin DOMAIN rows => rows'[e.id] = e.of
    BY <1>2, <1>3, <2>5, InsertTradeEffect
  <2>7. \A id \in DOMAIN rows' : ClientIdOf[rows'[id]] = id /\ stage[rows'[id]] = "filled"
    BY <1>2, <1>4, <1>6, <2>6 DEF RowsInv
  <2>8. e.id \in DOMAIN rows' /\ DOMAIN rows \subseteq DOMAIN rows'
    BY <2>6
  <2>9. RowsInv(rows', inbox', book, stage)
    BY <1>1, <1>2, <2>7, <2>8, RowsHandled
  <2>10. Handled(closed, inbox, closed')
    BY <1>6 DEF Handled
  <2>11. QED
    BY <1>1, <1>2, <2>9, <2>10, OnceHandled, ToldHandled DEF JournalTold
<1>7. CASE e.type = "Closed" /\ OnPositionClosed(e) /\ rows' = rows
  <2>1. 1 \in Pending(inbox) /\ e.pnl \in Pnls
    BY <1>1, <1>2, <1>7 DEF Pending, Named
  <2>2. e.id \in DOMAIN rows
    <3>1. Journaled(rows, inbox, 1, e.id)
      BY <1>2, <2>1 DEF RowsInv
    <3>2. 1..(1 - 1) = {}
      OBVIOUS
    <3>3. QED
      BY <3>1, <3>2 DEF Journaled
  <2>3. rows[e.id] = e.of
    BY <1>2, <1>3, <1>4, <1>7, <2>2 DEF RowsInv
  <2>4. \A k \in 1..Len(closed) : closed[k].id # e.id
    BY <1>2, <2>1 DEF OnceInv
  <2> DEFINE row == [id |-> e.id, of |-> rows[e.id], pnl |-> e.pnl, at |-> now]
  <2>5. Appended(closed, row, closed')
    BY <1>2, <1>7, <2>1, <2>2, <2>4, CloseTradeEffect DEF OnPositionClosed
  <2>6. row.id = e.id /\ SameTrade(row, e)
    BY <2>3 DEF SameTrade
  <2>7. Handled(closed, inbox, closed')
    BY <1>7, <2>5, <2>6 DEF Handled
  <2>8. RowsInv(rows', inbox', book, stage)
    <3>1. \A id \in DOMAIN rows : ClientIdOf[rows[id]] = id /\ stage[rows[id]] = "filled"
      BY <1>2 DEF RowsInv
    <3>2. e.type # "Filled" /\ rows' = rows
      BY <1>7
    <3>3. QED
      BY <1>1, <1>2, <3>1, <3>2, RowsHandled
  <2>9. QED
    BY <1>1, <1>2, <2>7, <2>8, OnceHandled, ToldHandled DEF JournalTold
<1>8. QED
  BY <1>1, <1>5, <1>6, <1>7

LEMMA JournalStep ==
  TypeInv /\ AttributionInv /\ JournalInv /\ [Next]_vars => JournalInv'
<1> SUFFICES ASSUME TypeInv, AttributionInv, JournalInv, [Next]_vars, Clean'
             PROVE  JournalTold(rows', closed', inbox', book', stage', truth')
  BY DEF JournalInv, JournalTold
<1>1. Clean /\ ~Crash /\ ~irregular'
  BY CleanBefore DEF Clean
<1>2. JournalTold(rows, closed, inbox, book, stage, truth)
  BY <1>1 DEF JournalInv, JournalTold
<1>3. CASE Refresh \/ Tick \/ UNCHANGED vars
  <2>1. UNCHANGED <<rows, closed, inbox, book, stage, truth>>
    BY <1>3 DEF Refresh, Tick, vars, agents, journal, history
  <2>2. QED
    BY <1>2, <2>1
<1>4. CASE Monitor
  BY <1>1, <1>2, <1>4, JournalMonitor DEF AttributionInv
<1>5. QED
  BY <1>1, <1>2, <1>3, <1>4, JournalBrain, JournalFilled, JournalClosed DEF Next

LEMMA PauseMatches ==
  ASSUME TypeInv, JournalInv, [Next]_vars, refreshes' > refreshes, inbox = <<>>, Clean
  PROVE  Paused(lessons') = LosingBuckets(LastOf(truth))
<1>1. lessons' = Extract(ClosedTrades, now)
  <2>1. refreshes \in Nat
    BY TypeFacts DEF TypeInv
  <2>2. refreshes' # refreshes
    BY <2>1
  <2>3. Refresh /\ ~UNCHANGED refreshes
    BY <2>2 DEF Next, BrainOutcome, OrderFilled, PositionClosed, Monitor, Tick, Crash, vars, history
  <2>4. QED
    BY <2>3 DEF Refresh, Relearn
<1>2. Paused(lessons') = LosingBuckets(LastOf(closed))
  BY <1>1, PausedAreLosing DEF ClosedTrades
<1>3. PICK f : ToldBy(f, closed, inbox, truth)
  BY DEF JournalInv, Told
<1>4. /\ closed \in Seq(Row) /\ truth \in Seq(Trade) /\ Len(closed) \in Nat /\ Len(truth) \in Nat
      /\ Len(closed) <= Len(truth)
  BY TypeFacts DEF TypeInv, JournalInv, Told
<1>5. Len(closed) = Len(truth)
  <2>1. Pending(inbox) = {}
    BY DEF Pending
  <2>2. (Len(closed) + 1)..Len(truth) = {}
    BY <1>3, <2>1 DEF ToldBy
  <2>3. Len(closed) < Len(truth) => Len(closed) + 1 \in (Len(closed) + 1)..Len(truth)
    BY <1>4
  <2>4. ~(Len(closed) < Len(truth))
    BY <2>2, <2>3
  <2>5. QED
    BY <1>4, <2>4
<1>6. \A k \in 1..Len(closed) : SameTrade(truth[k], closed[k])
  BY <1>3 DEF ToldBy
<1>7. PICK first \in 1..(Len(closed) + 1) :
        /\ first = Max({1, Len(closed) - WindowSize + 1})
        /\ Len(LastOf(closed)) = Len(closed) - first + 1
        /\ \A i \in 1..Len(LastOf(closed)) : LastOf(closed)[i] = closed[first + i - 1]
  BY <1>4, WindowOf
<1>8. /\ Len(LastOf(truth)) = Len(truth) - first + 1
      /\ \A i \in 1..Len(LastOf(truth)) : LastOf(truth)[i] = truth[first + i - 1]
  <2>1. first = Max({1, Len(truth) - WindowSize + 1})
    BY <1>5, <1>7
  <2>2. QED
    BY <1>4, <2>1, WindowOf
<1>9. LastOf(closed) \in Seq(Row) /\ LastOf(truth) \in Seq(Trade)
  BY <1>4, WindowOf
<1>10. /\ DOMAIN LastOf(truth) = 1..Len(LastOf(truth)) /\ DOMAIN LastOf(closed) = 1..Len(LastOf(closed))
       /\ Len(LastOf(truth)) = Len(LastOf(closed))
  BY <1>5, <1>7, <1>8, <1>9, LenProperties
<1>11. ASSUME NEW i \in 1..Len(LastOf(truth))
       PROVE  SameTrade(LastOf(truth)[i], LastOf(closed)[i])
  <2>1. first + i - 1 \in 1..Len(closed)
    BY <1>4, <1>5, <1>7, <1>8
  <2>2. QED
    BY <1>6, <1>7, <1>8, <1>10, <2>1
<1>12. LosingBuckets(LastOf(truth)) = LosingBuckets(LastOf(closed))
  BY <1>10, <1>11, SameBuckets
<1>13. QED
  BY <1>2, <1>12

\* From PositionClosed over monitor, SQLite and memory to the lessons nothing
\* is lost, doubled, reordered or attributed to another setup: a refresh that
\* reads a journal the monitor has finished pauses exactly the pairs whose
\* trades ended in a losing run (monitor.rs:394-593, learning.rs:72-101).
THEOREM PauseTheorem == Spec => PauseMatchesOutcomes
<1>1. TypeInv /\ JournalInv /\ [Next]_vars =>
        [ refreshes' > refreshes /\ inbox = <<>> /\ ~irregular
          /\ (\A s \in overtaken : stage[s] # "filled")
          => Paused(lessons') = LosingBuckets(LastOf(truth)) ]_vars
  BY PauseMatches DEF Clean
<1>2. QED
  BY <1>1, TypeInit, TypeStep, AttributionInit, AttributionStep, JournalInit, JournalStep, PTL
     DEF Spec, PauseMatchesOutcomes

==============================================================================
