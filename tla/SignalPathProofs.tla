-------------------------- MODULE SignalPathProofs --------------------------
(***************************************************************************)
(* Proofs about the way from trades to candles, for any timeframes, session *)
(* length, dead zone, prices, lateness and numbers of trades: the model is  *)
(* well typed, no candle is fed twice or out of order, every bucket becomes *)
(* the candle of its trades, no higher timeframe is consulted before its    *)
(* end, and at most one candle survives midnight in the session VWAP.       *)
(*                                                                         *)
(* What ties these together is the front, the bucket of the forming entry   *)
(* candle: whatever was published, handled or delivered lies before it.     *)
(***************************************************************************)
EXTENDS SignalPath, FiniteSetTheorems, SequenceTheorems, TLAPS

-----------------------------------------------------------------------------
(* The inductive invariant *)

Forming == builders[Entry].bucket

ClosesEntry(e)      == e.type = "CandleClosed" /\ e.tf = Entry
ClosesHigher(e, tf) == e.type = "CandleClosed" /\ e.tf = tf

Multiple(b, tf) == \E k \in Nat : b = k * tf

\* Builders start with the first trade, all of them, and their buckets are
\* multiples of their length.
BuilderInv ==
  /\ \A tf \in All : builders[tf] = None <=> builders[Entry] = None
  /\ \A tf \in All : builders[tf] # None => Multiple(builders[tf].bucket, tf)
  /\ builders[Entry] = None =>
       /\ delivered = <<>>
       /\ \A i \in 1..Len(inbox) : inbox[i].type # "CandleClosed"

\* No clock runs ahead: not of the connection, nor of the resets.
ClockInv ==
  /\ upSince <= now
  /\ since \in Nat /\ since <= now
  /\ \A i \in 1..Len(inbox) : inbox[i].type = "ResetDaily" => inbox[i].tf <= now

TypeInv == TypeOK /\ BuilderInv /\ ClockInv

Increasing(cs) == \A i, j \in 1..Len(cs) : i < j => cs[i].bucket < cs[j].bucket

\* The candles already fed and those under way, in this order, increase.
Queued(cs, q) ==
  /\ \A i, j \in 1..Len(q) :
       i < j /\ ClosesEntry(q[i]) /\ ClosesEntry(q[j])
         => q[i].candle.bucket < q[j].candle.bucket
  /\ \A i \in 1..Len(cs), j \in 1..Len(q) :
       ClosesEntry(q[j]) => cs[i].bucket < q[j].candle.bucket

\* They are all before the front; and as long as nothing forms, the fed ones
\* have ended by now, and by the time of the connection.
BeforeForming(cs, q) ==
  /\ builders[Entry] # None =>
       /\ \A i \in 1..Len(cs) : cs[i].bucket < Forming
       /\ \A i \in 1..Len(q) : ClosesEntry(q[i]) => q[i].candle.bucket < Forming
  /\ builders[Entry] = None =>
       \A i \in 1..Len(cs) : /\ cs[i].bucket + Entry <= now
                             /\ upSince # Down => cs[i].bucket + Entry <= upSince

OrderInv == Increasing(candles) /\ Queued(candles, inbox) /\ BeforeForming(candles, inbox)

\* x lies before the front and every entry candle in q.
EndedBy(x, q, front) ==
  /\ x <= front
  /\ \A i \in 1..Len(q) : ClosesEntry(q[i]) => x <= q[i].candle.bucket

\* A higher candle has ended when the entry candles handled after it open.
HigherEnded(h, q, front) ==
  \A tf \in Higher :
    /\ h[tf] # None => EndedBy(h[tf].bucket + tf, q, front)
    /\ \A p \in 1..Len(q) : ClosesHigher(q[p], tf) =>
         /\ q[p].candle.bucket + tf <= front
         /\ \A i \in 1..Len(q) : p < i /\ ClosesEntry(q[i])
              => q[p].candle.bucket + tf <= q[i].candle.bucket

HigherInv == HigherEnded(htf, inbox, Forming) /\ HigherTimeframesEndedBefore

\* No trade is beyond the forming candle f; f is the candle of its trades,
\* and so is every other, one of K, unless it was skipped or a trade of it
\* came late.
Matches(f, ds, lt, sk, K) ==
  /\ \A i \in 1..Len(ds) : Bucket(ds[i].ts, Entry) <= f.bucket
  /\ f # None /\ f.bucket \notin lt => IsCandleOf(f, f.bucket, ds)
  /\ \A i \in 1..Len(ds) : \A b :
       b = Bucket(ds[i].ts, Entry) /\ b \notin lt /\ b # f.bucket =>
         b \in sk \/ \E c \in K : IsCandleOf(c, b, ds)

MatchInv ==
  Matches(builders[Entry], delivered, late, skipped, Range(candles) \union InFlight)

\* What was delivered before a midnight lies at or before every candle the
\* VWAP has accumulated since, or is going to.
Settled(ds, at, q, p) ==
  \A d \in 1..Len(ds), i \in 1..Len(q) :
    ds[d].at < at /\ p < i /\ ClosesEntry(q[i]) => Bucket(ds[d].ts, Entry) <= q[i].candle.bucket

VwapInv ==
  /\ \A d \in 1..Len(delivered), b \in vwap :
       delivered[d].at < since => Bucket(delivered[d].ts, Entry) <= b
  /\ Settled(delivered, since, inbox, 0)
  /\ \A p \in 1..Len(inbox) :
       inbox[p].type = "ResetDaily" => Settled(delivered, inbox[p].tf, inbox, p)

-----------------------------------------------------------------------------
(* Buckets *)

\* A bucket is the multiple of its length that a time lies in.
LEMMA BucketOf ==
  ASSUME NEW ts \in Nat, NEW tf \in Nat \ {0}
  PROVE  /\ Bucket(ts, tf) \in Nat /\ Multiple(Bucket(ts, tf), tf)
         /\ Bucket(ts, tf) <= ts /\ ts < Bucket(ts, tf) + tf
<1>1. /\ ts \div tf \in Nat
      /\ Bucket(ts, tf) = (ts \div tf) * tf
      /\ Bucket(ts, tf) \in Nat /\ Bucket(ts, tf) <= ts /\ ts < Bucket(ts, tf) + tf
  BY DEF Bucket
<1>2. QED
  BY <1>1 DEF Multiple

\* Different multiples lie a length apart.
LEMMA Apart ==
  ASSUME NEW tf \in Nat \ {0}, NEW a, NEW b, Multiple(a, tf), Multiple(b, tf), a < b
  PROVE  a + tf <= b
<1>1. PICK k \in Nat, l \in Nat : a = k * tf /\ b = l * tf
  BY DEF Multiple
<1>2. k < l
  BY <1>1, Z3
<1>3. PICK d \in Nat : l = k + 1 + d
  BY <1>2
<1>4. QED
  BY <1>1, <1>3

LEMMA MultipleOfMultiple ==
  ASSUME NEW n \in Nat \ {0}, NEW e \in Nat \ {0}, n % e = 0, NEW b, Multiple(b, n)
  PROVE  Multiple(b, e)
<1>1. PICK k \in Nat : b = k * n
  BY DEF Multiple
<1>2. n = (n \div e) * e /\ n \div e \in Nat
  OBVIOUS
<1>3. b = (k * (n \div e)) * e /\ k * (n \div e) \in Nat
  BY <1>1, <1>2
<1>4. QED
  BY <1>3 DEF Multiple

\* The entry timeframe divides all others and is none of the higher ones.
LEMMA Lengths ==
  /\ Entry \in Nat \ {0} /\ Entry \in All /\ All \subseteq Nat \ {0}
  /\ Higher \subseteq All /\ Entry \notin Higher /\ All = Higher \union {Entry}
  /\ \A tf \in All : \A b : Multiple(b, tf) => Multiple(b, Entry)
<1>1. /\ Len(Timeframes) \in Nat \ {0} /\ DOMAIN Timeframes = 1..Len(Timeframes)
      /\ \A i \in 1..Len(Timeframes) : Timeframes[i] \in Nat \ {0}
  BY SignalAssumption
<1>2. \A tf \in All : \E i \in 1..Len(Timeframes) : tf = Timeframes[i]
  BY <1>1 DEF All, Range
<1>3. /\ Entry \in Nat \ {0} /\ Entry \in All /\ All \subseteq Nat \ {0}
      /\ Higher \subseteq All /\ Entry \notin Higher /\ All = Higher \union {Entry}
  <2>1. Entry \in Nat \ {0} /\ Entry \in All
    BY <1>1 DEF Entry, All, Range
  <2>2. All \subseteq Nat \ {0}
    BY <1>1, <1>2
  <2>3. Higher \subseteq All
    BY <1>1 DEF Higher, All, Range
  <2>4. Entry \notin Higher
    BY <1>1, SignalAssumption DEF Entry, Higher
  <2>5. \A tf \in All : tf \in Higher \union {Entry}
    BY <1>1, <1>2 DEF Entry, Higher
  <2>6. QED
    BY <2>1, <2>2, <2>3, <2>4, <2>5
<1>4. ASSUME NEW tf \in All, NEW b, Multiple(b, tf)
      PROVE  Multiple(b, Entry)
  <2>1. tf \in Nat \ {0} /\ tf % Entry = 0
    BY <1>2, <1>3, SignalAssumption DEF Entry
  <2>2. QED
    BY <1>3, <1>4, <2>1, MultipleOfMultiple
<1>5. QED
  BY <1>3, <1>4

\* The bucket of a longer timeframe starts no later.
LEMMA LongerStartsFirst ==
  ASSUME NEW ts \in Nat, NEW tf \in All
  PROVE  Bucket(ts, tf) <= Bucket(ts, Entry)
<1>1. /\ Entry \in Nat \ {0} /\ tf \in Nat \ {0}
      /\ Multiple(Bucket(ts, tf), Entry) /\ Multiple(Bucket(ts, Entry), Entry)
      /\ Bucket(ts, tf) \in Nat /\ Bucket(ts, Entry) \in Nat
      /\ Bucket(ts, tf) <= ts /\ ts < Bucket(ts, Entry) + Entry
  BY Lengths, BucketOf
<1>2. Bucket(ts, Entry) < Bucket(ts, tf) => Bucket(ts, Entry) + Entry <= Bucket(ts, tf)
  BY <1>1, Apart
<1>3. QED
  BY <1>1, <1>2

LEMMA MaxMinOfTwo ==
  ASSUME NEW a \in Int, NEW b \in Int
  PROVE  /\ Max({a, b}) \in {a, b} /\ a <= Max({a, b}) /\ b <= Max({a, b})
         /\ Min({a, b}) \in {a, b} /\ Min({a, b}) <= a /\ Min({a, b}) <= b
  BY DEF Max, Min

-----------------------------------------------------------------------------
(* A builder and a trade *)

Trades == [ts : 0..MaxTime, price : Prices, at : 0..MaxTime]

LEMMA CandleFields ==
  /\ \A c \in Candle : /\ c.bucket \in 0..MaxTime /\ c # None
                       /\ {c.open, c.high, c.low, c.close} \subseteq Prices
                       /\ c.low <= c.open /\ c.open <= c.high
                       /\ c.low <= c.close /\ c.close <= c.high
  /\ None.bucket = 0 - 1 /\ None \notin Candle
  /\ \A x \in Prices : x \in Nat \ {0}
  /\ MaxTime \in Nat
<1>1. \A x \in Prices : x \in Nat \ {0}
  BY SignalAssumption
<1>2. ASSUME NEW c \in Candle
      PROVE  /\ c.bucket \in 0..MaxTime
             /\ {c.open, c.high, c.low, c.close} \subseteq Prices
             /\ c.low <= c.open /\ c.open <= c.high
             /\ c.low <= c.close /\ c.close <= c.high
  BY <1>1 DEF Candle
<1>3. None.bucket = 0 - 1
  BY DEF None
<1>4. MaxTime \in Nat
  BY SignalAssumption
<1>5. QED
  BY <1>1, <1>2, <1>3, <1>4

\* A trade of a later bucket starts a candle, any other counts for the one
\* that is forming; neither leaves the trade beyond the candle.
LEMMA IngestEffect ==
  ASSUME NEW c \in Candle \union {None}, NEW t \in Trades, NEW tf \in All,
         c # None => Multiple(c.bucket, tf)
  PROVE  LET n == Ingest(c, t, tf)
         IN /\ n \in Candle /\ Multiple(n.bucket, tf)
            /\ c # None => c.bucket <= n.bucket
            /\ Bucket(t.ts, tf) <= n.bucket
            /\ c = None \/ Crosses(c, t, tf) => n = First(t, tf) /\ n.bucket = Bucket(t.ts, tf)
            /\ c # None /\ ~Crosses(c, t, tf) => n = Merged(c, t) /\ n.bucket = c.bucket
            /\ Crosses(c, t, tf) => c.bucket + tf <= n.bucket
<1> DEFINE b == Bucket(t.ts, tf)
<1>1. /\ t.ts \in 0..MaxTime /\ t.price \in Prices /\ tf \in Nat \ {0}
      /\ b \in 0..MaxTime /\ Multiple(b, tf) /\ b <= t.ts
  <2>1. t.ts \in 0..MaxTime /\ t.ts \in Nat /\ t.price \in Prices /\ tf \in Nat \ {0}
    BY Lengths, CandleFields DEF Trades
  <2>2. b \in Nat /\ Multiple(b, tf) /\ b <= t.ts
    BY <2>1, BucketOf
  <2>3. QED
    BY <2>1, <2>2, CandleFields
<1>2. First(t, tf) \in Candle /\ First(t, tf).bucket = b
  BY <1>1, CandleFields DEF First, Candle
<1>3. ASSUME c # None, ~Crosses(c, t, tf)
      PROVE  Merged(c, t) \in Candle /\ Merged(c, t).bucket = c.bucket /\ b <= c.bucket
  <2>1. c \in Candle /\ c.bucket \in 0..MaxTime
    BY <1>3, CandleFields
  <2> DEFINE h == Max({c.high, t.price})
             l == Min({c.low, t.price})
  <2>2. /\ h \in Prices /\ c.high <= h /\ t.price <= h
        /\ l \in Prices /\ l <= c.low /\ l <= t.price
    <3>1. c.high \in Int /\ c.low \in Int /\ t.price \in Int /\ c.high \in Prices /\ c.low \in Prices
      BY <1>1, <2>1, CandleFields
    <3>2. QED
      BY <1>1, <3>1, MaxMinOfTwo
  <2> HIDE DEF h, l
  <2>3. Merged(c, t) = [c EXCEPT !.high = h, !.low = l, !.close = t.price]
    BY DEF Merged, h, l
  <2>4. c \in [bucket : 0..MaxTime, open : Prices, high : Prices, low : Prices, close : Prices]
    BY <2>1 DEF Candle
  <2>5. /\ Merged(c, t) \in [bucket : 0..MaxTime, open : Prices, high : Prices, low : Prices, close : Prices]
        /\ Merged(c, t).bucket = c.bucket /\ Merged(c, t).open = c.open
        /\ Merged(c, t).high = h /\ Merged(c, t).low = l /\ Merged(c, t).close = t.price
    BY <1>1, <2>2, <2>3, <2>4
  <2>6. l \in Nat /\ h \in Nat /\ c.open \in Nat /\ t.price \in Nat
        /\ l <= c.open /\ c.open <= h /\ l <= t.price /\ t.price <= h
    BY <1>1, <2>1, <2>2, CandleFields
  <2>7. Merged(c, t) \in Candle
    BY <2>5, <2>6 DEF Candle
  <2>8. b <= c.bucket
    BY <1>1, <1>3, <2>1 DEF Crosses
  <2>9. QED
    BY <2>5, <2>7, <2>8
<1>4. CASE c = None
  <2>1. Ingest(c, t, tf) = First(t, tf) /\ ~Crosses(c, t, tf)
    BY <1>4 DEF Ingest, Crosses
  <2>2. QED
    BY <1>1, <1>2, <1>4, <2>1
<1>5. CASE Crosses(c, t, tf)
  <2>1. Ingest(c, t, tf) = First(t, tf) /\ c # None /\ c.bucket < b
    BY <1>1, <1>5, CandleFields DEF Ingest, Crosses
  <2>2. c.bucket + tf <= b /\ c.bucket \in Nat
    BY <1>1, <2>1, Apart, CandleFields
  <2>3. QED
    BY <1>1, <1>2, <1>5, <2>1, <2>2
<1>6. CASE c # None /\ ~Crosses(c, t, tf)
  <2>1. Ingest(c, t, tf) = Merged(c, t) /\ c.bucket \in 0..MaxTime
    BY <1>6, CandleFields DEF Ingest
  <2>2. QED
    BY <1>1, <1>3, <1>6, <2>1
<1>7. QED
  BY <1>4, <1>5, <1>6

-----------------------------------------------------------------------------
(* What a trade publishes *)

LEMMA OrderHitsAll ==
  ASSUME NEW C, IsFiniteSet(C), C \subseteq Int, NEW o \in InOrder(C), NEW i \in C
  PROVE  \E n \in 1..Cardinality(C) : o[n] = i
<1> DEFINE N == 1..Cardinality(C)
<1>1. Cardinality(C) \in Nat /\ IsFiniteSet(N) /\ Cardinality(N) = Cardinality(C)
  BY FS_CardinalityType, FS_Interval
<1>2. o \in [N -> C] /\ \A m, n \in N : m < n => o[m] < o[n]
  BY DEF InOrder, PublishedBefore
<1>3. ASSUME NEW m \in N, NEW n \in N, o[m] = o[n]
      PROVE  m = n
  <2>1. m \in Int /\ n \in Int
    OBVIOUS
  <2>2. o[m] \in Int /\ o[n] \in Int
    <3>1. o[m] \in C /\ o[n] \in C
      BY <1>2
    <3>2. QED
      BY <3>1
  <2>3. m < n => o[m] < o[n]
    BY <1>2
  <2>4. n < m => o[n] < o[m]
    BY <1>2
  <2>5. QED
    BY <1>3, <2>1, <2>2, <2>3, <2>4
<1>4. o \in Injection(N, C)
  BY <1>2, <1>3 DEF Injection, IsInjective
<1>5. o \in Surjection(N, C)
  BY ONLY <1>1, <1>4, IsFiniteSet(C), FS_Injection
<1>6. QED
  BY <1>5 DEF Surjection

\* Every candle that a trade closes is published once, the entry one first.
LEMMA PublishedEffect ==
  ASSUME TypeInv, NEW t \in Trades, NEW p \in ClosedBy(t)
  PROVE  /\ p \in Seq(Event)
         /\ \A n \in 1..Len(p) :
              /\ p[n].type = "CandleClosed" /\ p[n].tf \in All
              /\ p[n].candle = builders[p[n].tf]
              /\ Crosses(builders[p[n].tf], t, p[n].tf)
              /\ p[n].tf = Entry => n = 1
         /\ Crosses(builders[Entry], t, Entry) =>
              1 \in 1..Len(p) /\ ClosesEntry(p[1]) /\ p[1].candle = builders[Entry]
<1> DEFINE C == Crossing(t)
           N == Cardinality(C)
           K == 1..Len(Timeframes)
<1>1. /\ Len(Timeframes) \in Nat \ {0} /\ DOMAIN Timeframes = K
      /\ \A i \in K : Timeframes[i] \in Nat \ {0}
      /\ \A i, j \in K : Timeframes[i] = Timeframes[j] => i = j
  BY SignalAssumption
<1>2. /\ C \subseteq K
      /\ \A i \in C : Timeframes[i] \in All /\ Crosses(builders[Timeframes[i]], t, Timeframes[i])
      /\ \A i \in C : Timeframes[i] = Entry => i = 1
      /\ Crosses(builders[Entry], t, Entry) => 1 \in C
  BY <1>1 DEF Crossing, All, Range, Entry
<1>3. IsFiniteSet(C) /\ N \in Nat /\ C \subseteq Int
  <2>1. IsFiniteSet(K)
    BY <1>1, FS_Interval
  <2>2. QED
    BY <1>1, <1>2, <2>1, FS_Subset, FS_CardinalityType
<1>4. PICK o \in InOrder(C) :
        p = [n \in DOMAIN o |-> Closed(Timeframes[o[n]], builders[Timeframes[o[n]]])]
  BY DEF ClosedBy
<1>5. /\ o \in [1..N -> C] /\ DOMAIN o = 1..N
      /\ \A m, n \in 1..N : m < n => o[m] < o[n]
  BY <1>4 DEF InOrder, PublishedBefore
<1>6. ASSUME NEW i \in C
      PROVE  Closed(Timeframes[i], builders[Timeframes[i]]) \in Event
  <2>1. Timeframes[i] \in All /\ builders[Timeframes[i]] \in Candle
    BY <1>2 DEF TypeInv, TypeOK, Crosses
  <2>2. QED
    BY <2>1 DEF Closed, Event
<1>7. p \in Seq(Event) /\ Len(p) = N
  <2>1. p \in [1..N -> Event]
    BY <1>4, <1>5, <1>6
  <2>2. QED
    BY <1>3, <2>1
<1>8. ASSUME NEW n \in 1..N
      PROVE  /\ p[n].type = "CandleClosed" /\ p[n].tf = Timeframes[o[n]]
             /\ p[n].candle = builders[Timeframes[o[n]]] /\ o[n] \in C
  BY <1>4, <1>5 DEF Closed
<1>9. ASSUME NEW n \in 1..N, p[n].tf = Entry
      PROVE  n = 1
  <2>1. o[n] = 1
    BY <1>2, <1>8, <1>9
  <2>2. 1 < n => o[1] < o[n] /\ o[1] \in K /\ 1 \in 1..N
    BY <1>2, <1>3, <1>5
  <2>3. QED
    BY <1>1, <1>3, <2>1, <2>2
<1>10. ASSUME Crosses(builders[Entry], t, Entry)
       PROVE  1 \in 1..Len(p) /\ ClosesEntry(p[1]) /\ p[1].candle = builders[Entry]
  <2>1. PICK n \in 1..N : o[n] = 1
    BY <1>2, <1>3, <1>4, <1>10, OrderHitsAll
  <2>2. p[n].tf = Entry /\ p[n].candle = builders[Entry] /\ p[n].type = "CandleClosed"
    BY <1>8, <2>1 DEF Entry
  <2>3. n = 1
    BY <1>9, <2>2
  <2>4. QED
    BY <1>7, <2>2, <2>3 DEF ClosesEntry
<1>11. QED
  BY <1>2, <1>7, <1>8, <1>9, <1>10

\* The same of the inbox of the signal agent.
LEMMA TradeEffect ==
  ASSUME TypeInv, NEW t \in Trades, Trade(t)
  PROVE  /\ inbox' \in Seq(Event) /\ Len(inbox) <= Len(inbox')
         /\ \A i \in 1..Len(inbox) : i \in 1..Len(inbox') /\ inbox'[i] = inbox[i]
         /\ \A i \in 1..Len(inbox') : i \notin 1..Len(inbox) =>
              /\ inbox'[i].type = "CandleClosed" /\ inbox'[i].tf \in All
              /\ inbox'[i].candle = builders[inbox'[i].tf]
              /\ Crosses(builders[inbox'[i].tf], t, inbox'[i].tf)
              /\ ClosesEntry(inbox'[i]) => i = Len(inbox) + 1
         /\ Crosses(builders[Entry], t, Entry) =>
              /\ Len(inbox) + 1 \in 1..Len(inbox')
              /\ ClosesEntry(inbox'[Len(inbox) + 1])
              /\ inbox'[Len(inbox) + 1].candle = builders[Entry]
<1>1. PICK p \in ClosedBy(t) : inbox' = inbox \o p
  BY DEF Trade
<1>2. inbox \in Seq(Event) /\ Len(inbox) \in Nat
  BY DEF TypeInv, TypeOK
<1>3. p \in Seq(Event) /\ Len(p) \in Nat
  BY PublishedEffect
<1>4. /\ inbox' \in Seq(Event) /\ Len(inbox') = Len(inbox) + Len(p)
      /\ \A i \in 1..Len(inbox') :
           inbox'[i] = IF i <= Len(inbox) THEN inbox[i] ELSE p[i - Len(inbox)]
  BY <1>1, <1>2, <1>3, ConcatProperties
<1>5. \A i \in 1..Len(inbox') : i \notin 1..Len(inbox) =>
        /\ i - Len(inbox) \in 1..Len(p) /\ inbox'[i] = p[i - Len(inbox)]
        /\ i - Len(inbox) = 1 => i = Len(inbox) + 1
  BY <1>2, <1>3, <1>4
<1>6. \A i \in 1..Len(inbox') : i \notin 1..Len(inbox) =>
        /\ inbox'[i].type = "CandleClosed" /\ inbox'[i].tf \in All
        /\ inbox'[i].candle = builders[inbox'[i].tf]
        /\ Crosses(builders[inbox'[i].tf], t, inbox'[i].tf)
        /\ ClosesEntry(inbox'[i]) => i = Len(inbox) + 1
  BY <1>5, PublishedEffect DEF ClosesEntry
<1>7. Crosses(builders[Entry], t, Entry) =>
        /\ Len(inbox) + 1 \in 1..Len(inbox') /\ inbox'[Len(inbox) + 1] = p[1]
        /\ ClosesEntry(p[1]) /\ p[1].candle = builders[Entry]
  <2>1. 1 \in 1..Len(p) => Len(inbox) + 1 \in 1..Len(inbox') /\ inbox'[Len(inbox) + 1] = p[1]
    BY <1>2, <1>3, <1>4
  <2>2. QED
    BY <2>1, PublishedEffect
<1>8. QED
  BY <1>2, <1>4, <1>6, <1>7

\* A trade is of the time it is up to then, and not from before the
\* connection.
LEMMA ArrivesTrade ==
  ASSUME TypeInv, Arrives
  PROVE  \E t \in Trades : /\ Trade(t) /\ t.at = now /\ t.ts <= now
                           /\ upSince \in Nat /\ upSince <= t.ts
<1>1. now \in 0..MaxTime /\ upSince \in 0..MaxTime /\ MaxLate \in Nat /\ MaxTime \in Nat
  BY SignalAssumption DEF TypeInv, TypeOK, Arrives
<1>2. PICK ts \in Max({upSince, now - MaxLate})..now, price \in Prices :
        Trade([ts |-> ts, price |-> price, at |-> now])
  BY DEF Arrives
<1>3. upSince <= Max({upSince, now - MaxLate}) /\ Max({upSince, now - MaxLate}) \in Int
  <2>1. upSince \in Int /\ now - MaxLate \in Int
    BY <1>1
  <2>2. QED
    BY <2>1, MaxMinOfTwo
<1>4. ts \in 0..MaxTime /\ upSince <= ts /\ ts <= now
  BY <1>1, <1>2, <1>3
<1> DEFINE t == [ts |-> ts, price |-> price, at |-> now]
<1>5. t \in Trades /\ t.at = now /\ t.ts = ts
  BY <1>1, <1>4 DEF Trades
<1>6. Trade(t)
  BY <1>2
<1> HIDE DEF t
<1>7. QED
  BY <1>1, <1>4, <1>5, <1>6

\* All builders take the trade; the forming entry candle never falls back.
LEMMA BuildersEffect ==
  ASSUME TypeInv, NEW t \in Trades, Trade(t)
  PROVE  /\ builders' \in [All -> Candle]
         /\ \A tf \in All : Multiple(builders'[tf].bucket, tf)
         /\ \A tf \in All : builders'[tf] = Ingest(builders[tf], t, tf)
         /\ builders[Entry] # None => Forming <= Forming'
         /\ Bucket(t.ts, Entry) <= Forming'
         /\ Forming' \in Nat /\ Forming' \in 0..MaxTime
         /\ builders[Entry] = None \/ Crosses(builders[Entry], t, Entry) =>
              /\ Forming' = Bucket(t.ts, Entry)
              /\ builders'[Entry] = First(t, Entry)
         /\ builders[Entry] # None /\ ~Crosses(builders[Entry], t, Entry) =>
              Forming' = Forming /\ builders'[Entry] = Merged(builders[Entry], t)
         /\ \A tf \in All : Crosses(builders[tf], t, tf) =>
              builders[tf].bucket + tf <= Forming'
<1>1. builders' = [tf \in All |-> Ingest(builders[tf], t, tf)]
  BY DEF Trade
<1>2. builders \in [All -> Candle \union {None}] /\ Entry \in All
  BY Lengths DEF TypeInv, TypeOK
<1>3. ASSUME NEW tf \in All
      PROVE  LET n == builders'[tf]
                 c == builders[tf]
             IN /\ n = Ingest(c, t, tf)
                /\ n \in Candle /\ Multiple(n.bucket, tf)
                /\ c # None => c.bucket <= n.bucket
                /\ Bucket(t.ts, tf) <= n.bucket
                /\ c = None \/ Crosses(c, t, tf) => n = First(t, tf) /\ n.bucket = Bucket(t.ts, tf)
                /\ c # None /\ ~Crosses(c, t, tf) => n = Merged(c, t) /\ n.bucket = c.bucket
                /\ Crosses(c, t, tf) => c.bucket + tf <= n.bucket
  <2>1. builders[tf] \in Candle \union {None} /\ builders'[tf] = Ingest(builders[tf], t, tf)
    BY <1>1, <1>2
  <2>2. builders[tf] # None => Multiple(builders[tf].bucket, tf)
    BY DEF TypeInv, BuilderInv
  <2>3. QED
    BY <2>1, <2>2, IngestEffect
<1>4. builders' \in [All -> Candle]
  BY <1>1, <1>3
<1>5. Forming' = builders'[Entry].bucket /\ Forming' \in 0..MaxTime /\ Forming' \in Nat
  <2>1. Forming' = builders'[Entry].bucket
    BY DEF Forming, Entry
  <2>2. builders'[Entry] \in Candle
    BY <1>2, <1>3
  <2>3. QED
    BY <2>1, <2>2, CandleFields
<1>6. ASSUME NEW tf \in All, Crosses(builders[tf], t, tf)
      PROVE  builders[tf].bucket + tf <= Forming'
  <2>1. builders[tf].bucket + tf <= Bucket(t.ts, tf)
    BY <1>3, <1>6
  <2>2. t.ts \in Nat
    BY CandleFields DEF Trades
  <2>3. Bucket(t.ts, tf) <= Bucket(t.ts, Entry)
    BY <2>2, LongerStartsFirst
  <2>4. /\ Bucket(t.ts, tf) \in Nat /\ Bucket(t.ts, Entry) \in Nat /\ tf \in Nat
        /\ Bucket(t.ts, Entry) <= Forming'
    BY <1>2, <1>3, <1>5, <2>2, BucketOf, Lengths
  <2>5. builders[tf].bucket \in Nat
    BY <1>2, <1>6, CandleFields DEF Crosses
  <2>6. QED
    BY <1>5, <2>1, <2>3, <2>4, <2>5
<1>7. QED
  BY <1>2, <1>3, <1>4, <1>5, <1>6 DEF Forming

\* Handling takes the oldest event away.
LEMMA HandleEffect ==
  ASSUME TypeInv, Handle
  PROVE  /\ Len(inbox) \in Nat \ {0} /\ inbox[1] \in Event /\ Head(inbox) = inbox[1]
         /\ inbox' \in Seq(Event) /\ Len(inbox') = Len(inbox) - 1
         /\ \A i \in 1..Len(inbox') : i + 1 \in 1..Len(inbox) /\ inbox'[i] = inbox[i + 1]
<1>1. inbox \in Seq(Event) /\ inbox # <<>> /\ inbox' = Tail(inbox)
  BY DEF TypeInv, TypeOK, Handle
<1>2. QED
  BY <1>1, HeadTailProperties

LEMMA PublishResetEffect ==
  ASSUME TypeInv, PublishReset
  PROVE  /\ inbox' \in Seq(Event) /\ Len(inbox') = Len(inbox) + 1 /\ Len(inbox) \in Nat
         /\ \A i \in 1..Len(inbox) : i \in 1..Len(inbox') /\ inbox'[i] = inbox[i]
         /\ inbox'[Len(inbox) + 1].type = "ResetDaily"
         /\ inbox'[Len(inbox) + 1].tf \in Nat /\ inbox'[Len(inbox) + 1].tf <= now
<1>1. now \in Nat /\ now \in 0..MaxTime /\ MaxTime \in Nat /\ Day \in Nat \ {0}
  BY SignalAssumption DEF TypeInv, TypeOK
<1>2. Midnight(now) \in 0..MaxTime /\ Midnight(now) <= now
  <2>1. Midnight(now) \in Nat /\ Midnight(now) <= now
    BY <1>1, BucketOf DEF Midnight
  <2>2. QED
    BY <1>1, <2>1
<1>3. Reset(Midnight(now)) \in Event
  BY <1>2 DEF Reset, Event
<1>4. inbox \in Seq(Event) /\ inbox' = Append(inbox, Reset(Midnight(now)))
  BY DEF TypeInv, TypeOK, PublishReset
<1>5. /\ inbox' \in Seq(Event) /\ Len(inbox') = Len(inbox) + 1 /\ Len(inbox) \in Nat
      /\ \A i \in 1..Len(inbox) : i \in 1..Len(inbox') /\ inbox'[i] = inbox[i]
      /\ inbox'[Len(inbox) + 1] = Reset(Midnight(now))
  BY <1>3, <1>4, AppendProperties
<1>6. QED
  BY <1>1, <1>2, <1>5 DEF Reset

-----------------------------------------------------------------------------
(* Types, builders, clocks *)

\* The klines a start takes over are closed and in order.
LEMMA Bootstrap ==
  ASSUME NEW at \in BootTimes, NEW n \in {0, Min({BootLimit, at \div Entry})}
  PROVE  LET cs == Bootstrapped(at, n)
         IN /\ cs \in Seq(Candle) /\ Increasing(cs)
            /\ \A i \in 1..Len(cs) : cs[i].bucket + Entry <= at
<1> DEFINE E  == Entry
           q  == at \div E
           b(i) == Bucket(at, E) - (n - i + 1) * E
           cs == Bootstrapped(at, n)
<1>1. /\ at \in 0..MaxTime /\ at \in Nat /\ MaxTime \in Nat /\ BootLimit \in Nat
      /\ BootPrice \in Prices /\ BootPrice \in Nat /\ E \in Nat \ {0}
  BY SignalAssumption, Lengths
<1>2. q \in Nat /\ Bucket(at, E) = q * E /\ q * E <= at
  BY <1>1 DEF Bucket
<1>3. n \in Nat /\ n <= q
  <2>1. Min({BootLimit, q}) \in {BootLimit, q} /\ Min({BootLimit, q}) <= q
    <3>1. BootLimit \in Int /\ q \in Int
      BY <1>1, <1>2
    <3>2. QED
      BY <3>1, MaxMinOfTwo
  <2>2. QED
    BY <1>1, <1>2, <2>1
<1> HIDE DEF E, q
<1>4. ASSUME NEW i \in 1..n
      PROVE  /\ b(i) = (q - n + i - 1) * E /\ q - n + i - 1 \in Nat
             /\ b(i) \in Nat /\ b(i) + E <= at
  <2>1. q - n + i - 1 \in Nat /\ n - i \in Nat /\ i \in Nat
    BY <1>2, <1>3
  <2>2. b(i) = (q - n + i - 1) * E
    BY <1>1, <1>2, <1>3, <2>1
  <2>3. (q - n + i - 1) * E \in Nat
    BY <1>1, <2>1
  <2>4. b(i) + E = q * E - (n - i) * E /\ (n - i) * E \in Nat
    BY <1>1, <1>2, <1>3, <2>1
  <2>5. q * E \in Nat
    BY <1>1, <1>2
  <2>6. b(i) + E <= at
    BY <1>1, <1>2, <2>4, <2>5
  <2>7. QED
    BY <2>1, <2>2, <2>3, <2>6
<1>5. ASSUME NEW i \in 1..n, NEW j \in 1..n, i < j
      PROVE  b(i) < b(j)
  <2>1. b(i) = (q - n + i - 1) * E /\ b(j) = (q - n + j - 1) * E
    BY <1>4
  <2>2. PICK d \in Nat : j = i + 1 + d
    BY <1>5
  <2>3. b(j) = b(i) + E + d * E /\ d * E \in Nat
    BY <1>1, <1>2, <1>3, <2>1, <2>2
  <2>4. b(i) \in Nat
    BY <1>4
  <2>5. QED
    BY <1>1, <2>3, <2>4
<1>6. cs = [i \in 1..n |-> Kline(b(i))]
  BY DEF Bootstrapped, E
<1> HIDE DEF b, cs
<1>7. ASSUME NEW i \in 1..n
      PROVE  Kline(b(i)) \in Candle
  <2>1. b(i) \in 0..MaxTime
    BY <1>1, <1>4
  <2>2. QED
    BY <1>1, <2>1 DEF Kline, Candle
<1>8. cs \in Seq(Candle) /\ Len(cs) = n /\ \A i \in 1..n : cs[i] = Kline(b(i))
  <2>1. cs \in [1..n -> Candle]
    BY <1>6, <1>7
  <2>2. QED
    BY <1>3, <1>6, <2>1
<1>9. \A i \in 1..n : cs[i].bucket = b(i)
  BY <1>8 DEF Kline
<1>10. QED
  BY <1>4, <1>5, <1>8, <1>9 DEF Increasing, cs, E

LEMMA InitTypes == Init => TypeInv
<1> SUFFICES ASSUME Init PROVE TypeInv
  OBVIOUS
<1>1. PICK n \in {0, Min({BootLimit, now \div Entry})} : candles = Bootstrapped(now, n)
  BY DEF Init
<1>2. candles \in Seq(Candle)
  BY <1>1, Bootstrap DEF Init
<1>3. now \in 0..MaxTime /\ Down \in {Down} \union 0..MaxTime /\ Down <= now
  BY SignalAssumption DEF Init, Down
<1>4. /\ builders = [tf \in All |-> None] /\ htf = [tf \in Higher |-> None]
      /\ inbox = <<>> /\ delivered = <<>> /\ upSince = Down /\ resetDue = FALSE /\ since = 0
      /\ vwap = {c.bucket : c \in Range(candles)}
      /\ lookback = [candle |-> None, htf |-> [tf \in Higher |-> None]]
  BY DEF Init
<1>5. TypeOK
  <2>1. /\ builders \in [All -> Candle \union {None}] /\ htf \in [Higher -> Candle \union {None}]
        /\ lookback \in [candle : Candle \union {None}, htf : [Higher -> Candle \union {None}]]
    BY <1>4
  <2>2. inbox \in Seq(Event) /\ delivered \in Seq([ts : 0..MaxTime, price : Prices, at : 0..MaxTime])
    BY <1>4
  <2>3. QED
    BY <1>2, <1>3, <1>4, <2>1, <2>2 DEF TypeOK
<1>6. BuilderInv
  BY <1>4, Lengths DEF BuilderInv
<1>7. ClockInv
  BY <1>3, <1>4 DEF ClockInv
<1>8. QED
  BY <1>5, <1>6, <1>7 DEF TypeInv

LEMMA TradeTypes ==
  ASSUME TypeInv, NEW t \in Trades, Trade(t)
  PROVE  TypeInv'
<1>1. UNCHANGED <<now, upSince, htf, candles, vwap, resetDue, skipped, since, lookback>>
  BY DEF Trade, signalVars
<1>2. /\ builders' \in [All -> Candle]
      /\ \A tf \in All : Multiple(builders'[tf].bucket, tf) /\ builders'[tf] # None
  BY BuildersEffect, CandleFields
<1>3. /\ inbox' \in Seq(Event) /\ Len(inbox) <= Len(inbox')
      /\ \A i \in 1..Len(inbox) : i \in 1..Len(inbox') /\ inbox'[i] = inbox[i]
      /\ \A i \in 1..Len(inbox') : i \notin 1..Len(inbox) => inbox'[i].type = "CandleClosed"
  BY TradeEffect
<1>4. delivered' \in Seq([ts : 0..MaxTime, price : Prices, at : 0..MaxTime])
  BY AppendProperties DEF Trade, TypeInv, TypeOK, Trades
<1>5. TypeOK'
  BY <1>1, <1>2, <1>3, <1>4 DEF TypeInv, TypeOK, All, Higher, Event
<1>6. BuilderInv'
  BY <1>2, Lengths DEF BuilderInv, All, Entry
<1>7. ClockInv'
  <2>1. \A i \in 1..Len(inbox') : inbox'[i].type = "ResetDaily" => inbox'[i].tf <= now
    BY <1>3 DEF TypeInv, ClockInv
  <2>2. QED
    BY <1>1, <2>1 DEF TypeInv, ClockInv
<1>8. QED
  BY <1>5, <1>6, <1>7 DEF TypeInv

LEMMA RangeOfAppend ==
  ASSUME NEW S, NEW s \in Seq(S), NEW e \in S
  PROVE  Range(Append(s, e)) = Range(s) \union {e}
<1>1. /\ Append(s, e) \in Seq(S) /\ Len(Append(s, e)) = Len(s) + 1 /\ Len(s) \in Nat
      /\ \A i \in 1..Len(s) : Append(s, e)[i] = s[i]
      /\ Append(s, e)[Len(s) + 1] = e
      /\ DOMAIN s = 1..Len(s) /\ DOMAIN Append(s, e) = 1..(Len(s) + 1)
  BY AppendProperties
<1>2. \A x : x \in Range(Append(s, e)) <=> x \in Range(s) \union {e}
  BY <1>1 DEF Range
<1>3. QED
  BY <1>2

\* A handled event leaves the builders alone and the clocks behind now.
LEMMA HandleTypes ==
  ASSUME TypeInv, Handle
  PROVE  TypeInv'
<1> DEFINE e == inbox[1]
<1>1. UNCHANGED <<now, upSince, builders, resetDue, delivered, late>>
  BY DEF Handle, dataVars
<1>2. /\ inbox' \in Seq(Event) /\ e \in Event /\ Head(inbox) = e
      /\ Len(inbox) \in Nat \ {0}
      /\ \A i \in 1..Len(inbox') : i + 1 \in 1..Len(inbox) /\ inbox'[i] = inbox[i + 1]
  BY HandleEffect
<1>3. \/ e.type = "CandleClosed" /\ OnCandleClosed(e)
      \/ e.type = "ResetDaily" /\ OnResetDaily(e)
  BY <1>2 DEF Handle
<1>4. TypeOK'
  <2>1. CASE e.type = "CandleClosed" /\ OnCandleClosed(e)
    <3>1. e.candle \in Candle /\ e.tf \in All
      BY <1>2, <2>1 DEF Event
    <3>2. CASE e.tf # Entry
      <4>1. HigherTimeframe(e) /\ e.tf \in Higher
        BY <2>1, <3>1, <3>2, Lengths DEF OnCandleClosed
      <4>2. htf' \in [Higher -> Candle \union {None}] /\ UNCHANGED <<candles, vwap, lookback>>
        BY <3>1, <4>1 DEF HigherTimeframe, TypeInv, TypeOK
      <4>3. QED
        BY <1>1, <1>2, <4>2 DEF TypeInv, TypeOK
    <3>3. CASE e.tf = Entry /\ InDeadZone /\ ~PaperScout
      <4>1. UNCHANGED <<htf, candles, vwap, lookback>>
        BY <2>1, <3>3 DEF OnCandleClosed, DeadZoneCandle, signalVars
      <4>2. QED
        BY <1>1, <1>2, <4>1 DEF TypeInv, TypeOK
    <3>4. CASE e.tf = Entry /\ ~(InDeadZone /\ ~PaperScout)
      <4>1. EntryCandle(e)
        BY <2>1, <3>4 DEF OnCandleClosed
      <4>2. /\ candles' = Append(candles, e.candle) /\ vwap' = vwap \union {e.candle.bucket}
            /\ lookback' = [candle |-> e.candle, htf |-> htf] /\ htf' = htf
        BY <4>1 DEF EntryCandle, OnClosed
      <4>3. candles \in Seq(Candle) /\ vwap \subseteq {c.bucket : c \in Range(candles)}
        BY DEF TypeInv, TypeOK
      <4>4. candles' \in Seq(Candle) /\ Range(candles') = Range(candles) \union {e.candle}
        BY <3>1, <4>2, <4>3, AppendProperties, RangeOfAppend
      <4>5. vwap' \subseteq {c.bucket : c \in Range(candles')}
        BY <4>2, <4>3, <4>4
      <4>6. lookback' \in [candle : Candle \union {None}, htf : [Higher -> Candle \union {None}]]
        BY <3>1, <4>2 DEF TypeInv, TypeOK
      <4>7. QED
        BY <1>1, <1>2, <4>2, <4>4, <4>5, <4>6 DEF TypeInv, TypeOK
    <3>5. QED
      BY <3>2, <3>3, <3>4
  <2>2. CASE e.type = "ResetDaily" /\ OnResetDaily(e)
    <3>1. vwap' = {} /\ UNCHANGED <<htf, candles, lookback>>
      BY <2>2 DEF OnResetDaily
    <3>2. QED
      BY <1>1, <1>2, <3>1 DEF TypeInv, TypeOK
  <2>3. QED
    BY <1>3, <2>1, <2>2
<1>5. BuilderInv'
  <2>1. builders' = builders /\ delivered' = delivered
    BY <1>1
  <2>2. QED
    BY <1>2, <2>1 DEF TypeInv, BuilderInv, Entry, All
<1>6. ClockInv'
  <2>1. since' \in Nat /\ since' <= now
    <3>1. since' = since \/ (e.type = "ResetDaily" /\ since' = e.tf)
      BY <1>3 DEF OnCandleClosed, HigherTimeframe, DeadZoneCandle, EntryCandle, OnResetDaily
    <3>2. 1 \in 1..Len(inbox)
      BY <1>2
    <3>3. e.type = "ResetDaily" => e.tf \in Nat /\ e.tf <= now
      BY <1>2, <3>2, CandleFields DEF TypeInv, ClockInv, Event
    <3>4. QED
      BY <3>1, <3>3 DEF TypeInv, ClockInv
  <2>2. \A i \in 1..Len(inbox') : inbox'[i].type = "ResetDaily" => inbox'[i].tf <= now
    BY <1>2 DEF TypeInv, ClockInv
  <2>3. QED
    BY <1>1, <2>1, <2>2 DEF TypeInv, ClockInv
<1>7. QED
  BY <1>4, <1>5, <1>6 DEF TypeInv

LEMMA OtherTypes ==
  ASSUME TypeInv, Connection \/ PublishReset \/ Tick \/ UNCHANGED vars
  PROVE  TypeInv'
<1>1. UNCHANGED <<builders, htf, candles, vwap, delivered, lookback, since>>
  BY DEF Connection, PublishReset, Tick, vars, dataVars, signalVars, history
<1>2. now' \in 0..MaxTime /\ now <= now'
  <2>1. now \in 0..MaxTime /\ MaxTime \in Nat
    BY SignalAssumption DEF TypeInv, TypeOK
  <2>2. now' = now \/ (now' = now + 1 /\ now < MaxTime)
    BY DEF Connection, PublishReset, Tick, vars
  <2>3. QED
    BY <2>1, <2>2
<1>3. upSince' \in {Down} \union 0..MaxTime /\ upSince' <= now' /\ resetDue' \in BOOLEAN
  <2>1. upSince' \in {upSince, now, Down}
    BY DEF Connection, Connect, Disconnect, PublishReset, Tick, vars, dataVars
  <2>2. /\ upSince \in {Down} \union 0..MaxTime /\ upSince <= now
        /\ now \in 0..MaxTime /\ Down \in Int /\ Down <= now /\ MaxTime \in Nat
    BY SignalAssumption DEF TypeInv, TypeOK, ClockInv, Down
  <2>3. upSince' <= now'
    BY <1>2, <2>1, <2>2
  <2>4. resetDue' \in BOOLEAN
    BY DEF Connection, PublishReset, Tick, vars, TypeInv, TypeOK
  <2>5. QED
    BY <2>1, <2>2, <2>3, <2>4
<1>4. /\ inbox' \in Seq(Event) /\ Len(inbox') \in Nat
      /\ \A i \in 1..Len(inbox') :
           \/ i \in 1..Len(inbox) /\ inbox'[i] = inbox[i]
           \/ inbox'[i].type = "ResetDaily" /\ inbox'[i].tf \in Nat /\ inbox'[i].tf <= now
  <2>1. CASE inbox' = inbox
    BY <2>1 DEF TypeInv, TypeOK
  <2>2. CASE PublishReset
    <3>1. /\ inbox' \in Seq(Event) /\ Len(inbox') = Len(inbox) + 1 /\ Len(inbox) \in Nat
          /\ \A i \in 1..Len(inbox) : inbox'[i] = inbox[i]
          /\ inbox'[Len(inbox) + 1].type = "ResetDaily"
          /\ inbox'[Len(inbox) + 1].tf \in Nat /\ inbox'[Len(inbox) + 1].tf <= now
      BY <2>2, PublishResetEffect
    <3>2. \A i \in 1..Len(inbox') : i \in 1..Len(inbox) \/ i = Len(inbox) + 1
      BY <3>1
    <3>3. QED
      BY <3>1, <3>2
  <2>3. QED
    BY <2>1, <2>2 DEF Connection, Tick, vars
<1>5. TypeOK'
  BY <1>1, <1>2, <1>3, <1>4 DEF TypeInv, TypeOK
<1>6. BuilderInv'
  <2>1. builders' = builders /\ delivered' = delivered
    BY <1>1
  <2>2. QED
    BY <1>4, <2>1 DEF TypeInv, BuilderInv, Entry, All
<1>7. ClockInv'
  <2>1. now \in Nat /\ now' \in Nat /\ since' = since
    BY <1>1, <1>2, SignalAssumption DEF TypeInv, TypeOK
  <2>2. \A i \in 1..Len(inbox) : inbox[i].type = "ResetDaily" => inbox[i].tf \in Nat
    BY CandleFields, ElementOfSeq DEF TypeInv, TypeOK, Event
  <2>3. QED
    BY <1>2, <1>3, <1>4, <2>1, <2>2 DEF TypeInv, ClockInv
<1>8. QED
  BY <1>5, <1>6, <1>7 DEF TypeInv

LEMMA NextTypes ==
  ASSUME TypeInv, [Next]_vars
  PROVE  TypeInv'
<1>1. CASE Arrives
  BY <1>1, ArrivesTrade, TradeTypes
<1>2. CASE Handle
  BY <1>2, HandleTypes
<1>3. CASE Connection \/ PublishReset \/ Tick \/ UNCHANGED vars
  BY <1>3, OtherTypes
<1>4. QED
  BY <1>1, <1>2, <1>3 DEF Next

LEMMA TypeInvariant == Spec => []TypeInv
<1>1. Init => TypeInv
  BY InitTypes
<1>2. TypeInv /\ [Next]_vars => TypeInv'
  BY NextTypes
<1>3. QED
  BY <1>1, <1>2, PTL DEF Spec

\* What the data agent, the bus and the signal agent keep of candles and
\* trades has its type, and the session VWAP has accumulated nothing but
\* candles that the indicators were fed (state.rs:142-192).
THEOREM SignalTypeTheorem == Spec => []TypeOK
<1>1. TypeInv => TypeOK
  BY DEF TypeInv
<1>2. QED
  BY <1>1, TypeInvariant, PTL

-----------------------------------------------------------------------------
(* The order of the candles *)

\* Everything the proofs below read of an event and of the clocks.
LEMMA Basics ==
  ASSUME TypeInv
  PROVE  /\ now \in Nat /\ upSince \in Int /\ Entry \in Nat \ {0} /\ Down = 0 - 1
         /\ builders[Entry] \in Candle \union {None} /\ Forming \in Int
         /\ builders[Entry] # None => Forming \in Nat
         /\ builders[Entry] = None => Forming = 0 - 1
         /\ Len(candles) \in Nat /\ Len(inbox) \in Nat /\ Len(delivered) \in Nat
         /\ \A i \in 1..Len(candles) : candles[i] \in Candle /\ candles[i].bucket \in Nat
         /\ \A i \in 1..Len(inbox) : ClosesEntry(inbox[i]) =>
              inbox[i].candle \in Candle /\ inbox[i].candle.bucket \in Nat
         /\ \A i \in 1..Len(delivered) : /\ delivered[i].ts \in Nat /\ delivered[i].at \in Nat
                                         /\ Bucket(delivered[i].ts, Entry) \in Nat
<1>1. /\ now \in Nat /\ upSince \in Int /\ Entry \in Nat \ {0} /\ Down = 0 - 1
      /\ builders[Entry] \in Candle \union {None} /\ candles \in Seq(Candle)
      /\ inbox \in Seq(Event) /\ delivered \in Seq(Trades)
  BY Lengths, CandleFields DEF TypeInv, TypeOK, Down, Trades
<1>2. /\ Len(candles) \in Nat /\ Len(inbox) \in Nat /\ Len(delivered) \in Nat
      /\ \A i \in 1..Len(candles) : candles[i] \in Candle
      /\ \A i \in 1..Len(inbox) : inbox[i] \in Event
      /\ \A i \in 1..Len(delivered) : delivered[i] \in Trades
  BY <1>1
<1>3. \A c \in Candle : c.bucket \in Nat
  BY CandleFields
<1>4. \A i \in 1..Len(delivered) : delivered[i].ts \in Nat /\ delivered[i].at \in Nat
  BY <1>2, CandleFields DEF Trades
<1>5. \A e \in Event : ClosesEntry(e) => e.candle \in Candle
  BY DEF Event, ClosesEntry
<1>6. \A i \in 1..Len(delivered) : Bucket(delivered[i].ts, Entry) \in Nat
  BY <1>1, <1>4, BucketOf
<1>7. Forming \in Int /\ (builders[Entry] # None => Forming \in Nat)
      /\ (builders[Entry] = None => Forming = 0 - 1)
  BY <1>1, <1>3, CandleFields DEF Forming
<1>8. QED
  BY <1>1, <1>2, <1>3, <1>4, <1>5, <1>6, <1>7

LEMMA InitOrder == Init => OrderInv
<1> SUFFICES ASSUME Init PROVE OrderInv
  OBVIOUS
<1>1. now \in BootTimes /\ \E n \in {0, Min({BootLimit, now \div Entry})} :
        candles = Bootstrapped(now, n)
  BY DEF Init
<1>2. Increasing(candles) /\ \A i \in 1..Len(candles) : candles[i].bucket + Entry <= now
  BY <1>1, Bootstrap
<1>3. inbox = <<>> /\ builders[Entry] = None /\ upSince = Down
  BY Lengths DEF Init
<1>4. QED
  BY <1>2, <1>3 DEF OrderInv, Queued, BeforeForming

\* A closed candle is as far behind the front as the candle that takes its
\* place is before it.
LEMMA TradeOrder ==
  ASSUME TypeInv, OrderInv, NEW t \in Trades, Trade(t), upSince \in Nat, upSince <= t.ts
  PROVE  OrderInv'
<1> DEFINE n == Len(inbox)
<1>1. candles' = candles /\ now' = now /\ upSince' = upSince
  BY DEF Trade, signalVars
<1>2. /\ Len(inbox') \in Nat /\ n \in Nat
      /\ \A i \in 1..n : i \in 1..Len(inbox') /\ inbox'[i] = inbox[i]
      /\ \A i \in 1..Len(inbox') : i \notin 1..n /\ ClosesEntry(inbox'[i]) =>
           /\ i = n + 1 /\ inbox'[i].candle = builders[Entry]
           /\ Crosses(builders[Entry], t, Entry)
  <2>1. Len(inbox') \in Nat
    BY TradeEffect
  <2>2. QED
    BY <2>1, TradeEffect, Basics DEF ClosesEntry
<1>3. /\ builders'[Entry] # None /\ Forming' \in Nat
      /\ builders[Entry] # None => Forming <= Forming'
      /\ Crosses(builders[Entry], t, Entry) => Forming + Entry <= Forming' /\ builders[Entry] # None
      /\ builders[Entry] = None => Forming' = Bucket(t.ts, Entry)
  BY BuildersEffect, Lengths, CandleFields DEF Forming, Crosses
<1>4. ASSUME NEW i \in 1..Len(candles)
      PROVE  candles[i].bucket < Forming'
  <2>1. CASE builders[Entry] # None
    BY <1>3, <2>1, Basics DEF OrderInv, BeforeForming
  <2>2. CASE builders[Entry] = None
    <3>1. candles[i].bucket + Entry <= upSince
      BY <2>2, Basics DEF OrderInv, BeforeForming
    <3>2. t.ts \in Nat /\ t.ts < Bucket(t.ts, Entry) + Entry /\ Bucket(t.ts, Entry) \in Nat
      <4>1. t.ts \in Nat /\ Entry \in Nat \ {0}
        BY CandleFields, Lengths DEF Trades
      <4>2. QED
        BY <4>1, BucketOf
    <3>3. QED
      BY <1>3, <2>2, <3>1, <3>2, Basics
  <2>3. QED
    BY <2>1, <2>2
<1>5. ASSUME NEW i \in 1..n, ClosesEntry(inbox[i])
      PROVE  inbox[i].candle.bucket < Forming /\ inbox[i].candle.bucket < Forming'
  <2>1. builders[Entry] # None
    BY <1>5 DEF TypeInv, BuilderInv, ClosesEntry
  <2>2. QED
    BY <1>3, <1>5, <2>1, Basics DEF OrderInv, BeforeForming
<1>6. Queued(candles, inbox')
  <2>1. ASSUME NEW i \in 1..Len(inbox'), NEW j \in 1..Len(inbox'), i < j,
               ClosesEntry(inbox'[i]), ClosesEntry(inbox'[j])
        PROVE  inbox'[i].candle.bucket < inbox'[j].candle.bucket
    <3>1. i \in 1..n
      BY <1>2, <2>1
    <3>2. CASE j \in 1..n
      BY <1>2, <2>1, <3>1, <3>2 DEF OrderInv, Queued
    <3>3. CASE j \notin 1..n
      BY <1>2, <1>5, <2>1, <3>1, <3>3 DEF Forming
    <3>4. QED
      BY <3>2, <3>3
  <2>2. ASSUME NEW i \in 1..Len(candles), NEW j \in 1..Len(inbox'), ClosesEntry(inbox'[j])
        PROVE  candles[i].bucket < inbox'[j].candle.bucket
    <3>1. CASE j \in 1..n
      BY <1>2, <2>2, <3>1 DEF OrderInv, Queued
    <3>2. CASE j \notin 1..n
      BY <1>2, <1>3, <2>2, <3>2 DEF OrderInv, BeforeForming, Forming
    <3>3. QED
      BY <3>1, <3>2
  <2>3. QED
    BY <2>1, <2>2 DEF Queued
<1>7. \A i \in 1..Len(inbox') : ClosesEntry(inbox'[i]) => inbox'[i].candle.bucket < Forming'
  <2>1. ASSUME NEW i \in 1..Len(inbox'), ClosesEntry(inbox'[i]), i \notin 1..n
        PROVE  inbox'[i].candle.bucket < Forming'
    <3>1. inbox'[i].candle.bucket = Forming /\ Forming + Entry <= Forming' /\ Forming \in Nat
      BY <1>2, <1>3, <2>1, Basics DEF Forming
    <3>2. QED
      BY <1>3, <3>1, Basics
  <2>2. QED
    BY <1>2, <1>5, <2>1
<1>8. QED
  BY <1>1, <1>3, <1>4, <1>6, <1>7 DEF OrderInv, BeforeForming, Increasing, Queued

LEMMA HandleOrder ==
  ASSUME TypeInv, OrderInv, Handle
  PROVE  OrderInv'
<1> DEFINE e == inbox[1]
<1>1. UNCHANGED <<now, upSince, builders>>
  BY DEF Handle, dataVars
<1>2. /\ e \in Event /\ Head(inbox) = e /\ Len(inbox) \in Nat \ {0} /\ Len(inbox') = Len(inbox) - 1
      /\ \A i \in 1..Len(inbox') : i + 1 \in 1..Len(inbox) /\ inbox'[i] = inbox[i + 1]
  BY HandleEffect
<1>3. \/ candles' = candles
      \/ ClosesEntry(e) /\ candles' = Append(candles, e.candle)
  BY <1>2 DEF Handle, OnCandleClosed, HigherTimeframe, DeadZoneCandle, EntryCandle, OnClosed,
              OnResetDaily, signalVars, ClosesEntry
<1>4. Queued(candles, inbox')
  <2>1. \A i, j \in 1..Len(inbox') : i < j => i + 1 < j + 1
    BY <1>2
  <2>2. QED
    BY <1>2, <2>1 DEF OrderInv, Queued
<1>5. Forming' = Forming
  BY <1>1 DEF Forming, Entry
<1>6. BeforeForming(candles, inbox')
  BY <1>2 DEF OrderInv, BeforeForming
<1>7. CASE candles' = candles
  <2>1. QED
    BY <1>1, <1>4, <1>5, <1>6, <1>7 DEF OrderInv, Increasing, Queued, BeforeForming, Entry
<1>8. CASE ClosesEntry(e) /\ candles' = Append(candles, e.candle)
  <2> DEFINE n == Len(candles)
  <2>1. 1 \in 1..Len(inbox) /\ e.candle \in Candle /\ builders[Entry] # None
    BY <1>2, <1>8, Basics DEF TypeInv, BuilderInv, ClosesEntry
  <2>2. /\ Len(candles') = n + 1 /\ n \in Nat
        /\ \A i \in 1..n : candles'[i] = candles[i]
        /\ candles'[n + 1] = e.candle
    BY <1>8, <2>1, AppendProperties DEF TypeInv, TypeOK
  <2>3. \A i \in 1..Len(candles') : i \in 1..n \/ i = n + 1
    BY <2>2
  <2>4. /\ \A i \in 1..n : candles[i].bucket < e.candle.bucket
        /\ e.candle.bucket < Forming
    BY <1>8, <2>1 DEF OrderInv, Queued, BeforeForming
  <2>5. \A i \in 1..Len(inbox') : ClosesEntry(inbox'[i]) => e.candle.bucket < inbox'[i].candle.bucket
    <3>1. \A i \in 1..Len(inbox') : 1 < i + 1
      BY <1>2
    <3>2. QED
      BY <1>2, <1>8, <2>1, <3>1 DEF OrderInv, Queued
  <2>6. Increasing(candles')
    <3>1. \A i, j \in 1..Len(candles') : i < j => i \in 1..n
      BY <2>2, <2>3
    <3>2. QED
      BY <2>2, <2>3, <2>4, <3>1 DEF OrderInv, Increasing
  <2>7. Queued(candles', inbox')
    BY <1>4, <2>2, <2>3, <2>5 DEF Queued
  <2>8. /\ \A i \in 1..Len(candles') : candles'[i].bucket < Forming
        /\ \A i \in 1..Len(inbox') : ClosesEntry(inbox'[i]) => inbox'[i].candle.bucket < Forming
    BY <1>6, <2>1, <2>2, <2>3, <2>4 DEF BeforeForming
  <2>9. QED
    BY <1>1, <1>5, <2>1, <2>6, <2>7, <2>8 DEF OrderInv, Increasing, Queued, BeforeForming, Entry
<1>9. QED
  BY <1>3, <1>7, <1>8

LEMMA OtherOrder ==
  ASSUME TypeInv, OrderInv, Connection \/ PublishReset \/ Tick \/ UNCHANGED vars
  PROVE  OrderInv'
<1>1. UNCHANGED <<builders, candles>> /\ now \in Nat /\ now <= now' /\ upSince' \in {upSince, now, Down}
  BY Basics DEF Connection, Connect, Disconnect, PublishReset, Tick, vars, dataVars, signalVars
<1>2. /\ Len(inbox') \in Nat
      /\ \A i \in 1..Len(inbox') : ClosesEntry(inbox'[i]) => i \in 1..Len(inbox) /\ inbox'[i] = inbox[i]
  <2>1. CASE inbox' = inbox
    BY <2>1, Basics
  <2>2. CASE PublishReset
    <3>1. /\ Len(inbox') = Len(inbox) + 1 /\ Len(inbox) \in Nat
          /\ \A i \in 1..Len(inbox) : inbox'[i] = inbox[i]
          /\ ~ClosesEntry(inbox'[Len(inbox) + 1])
      BY <2>2, PublishResetEffect DEF ClosesEntry
    <3>2. \A i \in 1..Len(inbox') : i \in 1..Len(inbox) \/ i = Len(inbox) + 1
      BY <3>1
    <3>3. QED
      BY <3>1, <3>2
  <2>3. QED
    BY <2>1, <2>2 DEF Connection, Tick, vars
<1>3. Queued(candles, inbox')
  BY <1>2 DEF OrderInv, Queued
<1>4. Forming' = Forming
  BY <1>1 DEF Forming, Entry
<1>5. builders[Entry] # None =>
       /\ \A i \in 1..Len(candles) : candles[i].bucket < Forming
       /\ \A i \in 1..Len(inbox') : ClosesEntry(inbox'[i]) => inbox'[i].candle.bucket < Forming
  BY <1>2 DEF OrderInv, BeforeForming
<1>6. builders[Entry] = None =>
       \A i \in 1..Len(candles) : /\ candles[i].bucket + Entry <= now'
                                  /\ upSince' # Down => candles[i].bucket + Entry <= upSince'
  <2>1. now' \in Int
    BY NextTypes, Basics DEF Next, TypeInv, TypeOK
  <2>2. QED
    BY <1>1, <2>1, Basics DEF OrderInv, BeforeForming
<1>7. QED
  BY <1>1, <1>3, <1>4, <1>5, <1>6 DEF OrderInv, Increasing, Queued, BeforeForming, Entry

LEMMA NextOrder ==
  ASSUME TypeInv, OrderInv, [Next]_vars
  PROVE  OrderInv'
<1>1. CASE Arrives
  BY <1>1, ArrivesTrade, TradeOrder
<1>2. CASE Handle
  BY <1>2, HandleOrder
<1>3. CASE Connection \/ PublishReset \/ Tick \/ UNCHANGED vars
  BY <1>3, OtherOrder
<1>4. QED
  BY <1>1, <1>2, <1>3 DEF Next

\* No candle is fed twice to the indicators, and none out of order: neither
\* where the bootstrap meets the first live candle (kline_bootstrap.rs:124-132),
\* nor over reconnects, nor by trades that come late.
THEOREM CandleOrderTheorem == Spec => []CandlesStrictlyOrdered
<1>1. Init => OrderInv
  BY InitOrder
<1>2. TypeInv /\ OrderInv /\ [Next]_vars => OrderInv'
  BY NextOrder
<1>3. OrderInv => CandlesStrictlyOrdered
  BY DEF OrderInv, Increasing, CandlesStrictlyOrdered
<1>4. QED
  BY <1>1, <1>2, <1>3, TypeInvariant, PTL DEF Spec

-----------------------------------------------------------------------------
(* Higher timeframes *)

LEMMA InitHigher == Init => HigherInv
BY DEF Init, HigherInv, HigherEnded, HigherTimeframesEndedBefore

\* The candle of a higher timeframe that a trade closes ends at or before the
\* front; the entry candle published with it is handled before it.
LEMMA TradeHigher ==
  ASSUME TypeInv, HigherInv, NEW t \in Trades, Trade(t)
  PROVE  HigherInv'
<1> DEFINE n == Len(inbox)
<1>1. htf' = htf /\ lookback' = lookback
  BY DEF Trade, signalVars
<1>2. /\ Len(inbox') \in Nat /\ n \in Nat
      /\ \A i \in 1..n : i \in 1..Len(inbox') /\ inbox'[i] = inbox[i]
      /\ \A i \in 1..Len(inbox') : i \notin 1..n => n < i
      /\ \A i \in 1..Len(inbox') : i \notin 1..n /\ ClosesEntry(inbox'[i]) =>
           i = n + 1 /\ inbox'[i].candle.bucket = Forming
      /\ \A i \in 1..Len(inbox') : i \notin 1..n =>
           /\ inbox'[i].tf \in All /\ inbox'[i].candle.bucket + inbox'[i].tf <= Forming'
  <2>1. Len(inbox') \in Nat /\ n \in Nat
    BY TradeEffect, Basics
  <2>2. QED
    BY <2>1, TradeEffect, BuildersEffect DEF ClosesEntry, Forming
<1>3. /\ Forming \in Int /\ Forming' \in Nat
      /\ Forming <= Forming'
  BY BuildersEffect, Basics DEF Forming
<1>4. \A tf \in Higher, x \in Int : EndedBy(x, inbox, Forming) => EndedBy(x, inbox', Forming')
  <2> SUFFICES ASSUME NEW x \in Int, EndedBy(x, inbox, Forming)
               PROVE  EndedBy(x, inbox', Forming')
    OBVIOUS
  <2>1. x <= Forming'
    BY <1>3 DEF EndedBy
  <2>2. ASSUME NEW i \in 1..Len(inbox'), ClosesEntry(inbox'[i])
        PROVE  x <= inbox'[i].candle.bucket
    BY <1>2, <2>2 DEF EndedBy
  <2>3. QED
    BY <2>1, <2>2 DEF EndedBy
<1>5. ASSUME NEW tf \in Higher, htf[tf] # None
      PROVE  EndedBy(htf[tf].bucket + tf, inbox', Forming')
  <2>1. htf[tf].bucket + tf \in Int
    BY <1>5, CandleFields, Lengths DEF TypeInv, TypeOK
  <2>2. QED
    BY <1>4, <1>5, <2>1 DEF HigherInv, HigherEnded
<1>6. ASSUME NEW tf \in Higher, NEW p \in 1..Len(inbox'), ClosesHigher(inbox'[p], tf)
      PROVE  /\ inbox'[p].candle.bucket + tf <= Forming'
             /\ \A i \in 1..Len(inbox') : p < i /\ ClosesEntry(inbox'[i])
                  => inbox'[p].candle.bucket + tf <= inbox'[i].candle.bucket
  <2>1. CASE p \in 1..n
    <3>1. ClosesHigher(inbox[p], tf) /\ inbox'[p] = inbox[p]
      BY <1>2, <1>6, <2>1
    <3>2. /\ inbox[p].candle.bucket + tf <= Forming
          /\ \A i \in 1..n : p < i /\ ClosesEntry(inbox[i])
                  => inbox[p].candle.bucket + tf <= inbox[i].candle.bucket
      BY <2>1, <3>1 DEF HigherInv, HigherEnded
    <3>3. inbox[p].candle.bucket + tf \in Int
      <4>1. inbox[p] \in Event
        BY <2>1, ElementOfSeq DEF TypeInv, TypeOK
      <4>2. inbox[p].candle \in Candle
        BY <3>1, <4>1 DEF Event, ClosesHigher
      <4>3. QED
        BY <4>2, CandleFields, Lengths
    <3>4. inbox'[p].candle.bucket + tf <= Forming'
      BY <1>3, <3>1, <3>2, <3>3
    <3>5. ASSUME NEW i \in 1..Len(inbox'), p < i, ClosesEntry(inbox'[i])
          PROVE  inbox'[p].candle.bucket + tf <= inbox'[i].candle.bucket
      <4>1. CASE i \in 1..n
        BY <1>2, <3>1, <3>2, <3>5, <4>1
      <4>2. CASE i \notin 1..n
        BY <1>2, <3>1, <3>2, <3>5, <4>2
      <4>3. QED
        BY <4>1, <4>2
    <3>6. QED
      BY <3>4, <3>5
  <2>2. CASE p \notin 1..n
    <3>1. inbox'[p].tf = tf
      BY <1>6 DEF ClosesHigher
    <3>2. \A i \in 1..Len(inbox') : p < i => ~ClosesEntry(inbox'[i])
      BY <1>2, <2>2
    <3>3. QED
      BY <1>2, <2>2, <3>1, <3>2
  <2>3. QED
    BY <2>1, <2>2
<1>7. HigherEnded(htf, inbox', Forming')
  BY <1>5, <1>6 DEF HigherEnded
<1>8. QED
  BY <1>1, <1>7 DEF HigherInv, HigherEnded, HigherTimeframesEndedBefore, Higher, EndedBy, ClosesEntry, ClosesHigher, Entry

\* Events that leave the entry candles under way alone.
LEMMA HigherKept ==
  ASSUME TypeInv, HigherInv, NEW q, Len(q) \in Nat, NEW k \in {0, 1},
         \A i \in 1..Len(q) : q[i].type = "CandleClosed" =>
            i + k \in 1..Len(inbox) /\ q[i] = inbox[i + k]
  PROVE  HigherEnded(htf, q, Forming)
<1>1. \A i \in 1..Len(q) : ClosesEntry(q[i]) => i + k \in 1..Len(inbox) /\ q[i] = inbox[i + k]
  BY DEF ClosesEntry
<1>2. \A tf : \A i \in 1..Len(q) : ClosesHigher(q[i], tf) => i + k \in 1..Len(inbox) /\ q[i] = inbox[i + k]
  BY DEF ClosesHigher
<1>3. \A p, i \in 1..Len(q) : p < i => p + k < i + k
  OBVIOUS
<1>4. ASSUME NEW tf \in Higher, htf[tf] # None
      PROVE  EndedBy(htf[tf].bucket + tf, q, Forming)
  BY <1>1, <1>4 DEF HigherInv, HigherEnded, EndedBy
<1>5. ASSUME NEW tf \in Higher, NEW p \in 1..Len(q), ClosesHigher(q[p], tf)
      PROVE  /\ q[p].candle.bucket + tf <= Forming
             /\ \A i \in 1..Len(q) : p < i /\ ClosesEntry(q[i])
                  => q[p].candle.bucket + tf <= q[i].candle.bucket
  <2>1. p + k \in 1..Len(inbox) /\ q[p] = inbox[p + k] /\ ClosesHigher(inbox[p + k], tf)
    BY <1>2, <1>5
  <2>2. /\ inbox[p + k].candle.bucket + tf <= Forming
        /\ \A i \in 1..Len(inbox) : p + k < i /\ ClosesEntry(inbox[i])
             => inbox[p + k].candle.bucket + tf <= inbox[i].candle.bucket
    BY <2>1 DEF HigherInv, HigherEnded
  <2>3. QED
    BY <1>1, <1>3, <2>1, <2>2
<1>6. QED
  BY <1>4, <1>5 DEF HigherEnded

LEMMA HandleHigher ==
  ASSUME TypeInv, HigherInv, Handle
  PROVE  HigherInv'
<1> DEFINE e == inbox[1]
<1>1. builders' = builders /\ Forming' = Forming
  BY DEF Handle, dataVars, Forming, Entry
<1>2. /\ e \in Event /\ Head(inbox) = e /\ Len(inbox) \in Nat \ {0} /\ Len(inbox') \in Nat
      /\ \A i \in 1..Len(inbox') : i + 1 \in 1..Len(inbox) /\ inbox'[i] = inbox[i + 1]
      /\ 1 \in 1..Len(inbox) /\ \A i \in 1..Len(inbox') : 1 < i + 1
  BY HandleEffect
<1>3. HigherEnded(htf, inbox', Forming)
  BY <1>2, HigherKept
<1>4. CASE htf' = htf /\ lookback' = lookback
  <2>1. HigherTimeframesEndedBefore'
    BY <1>4 DEF HigherInv, HigherTimeframesEndedBefore, Higher
  <2>2. QED
    BY <1>1, <1>3, <1>4, <2>1 DEF HigherInv, HigherEnded, EndedBy, ClosesEntry, ClosesHigher, Higher, Entry
<1>5. CASE e.type = "CandleClosed" /\ e.tf # Entry /\ HigherTimeframe(e)
  <2>1. e.tf \in Higher /\ ClosesHigher(e, e.tf)
    BY <1>2, <1>5, Lengths DEF Event, ClosesHigher
  <2>2. /\ htf' \in [Higher -> Candle \union {None}] /\ htf'[e.tf] = e.candle
        /\ \A tf \in Higher : tf # e.tf => htf'[tf] = htf[tf]
        /\ lookback' = lookback
    BY <1>2, <1>5, <2>1 DEF HigherTimeframe, TypeInv, TypeOK, Event
  <2>3. EndedBy(e.candle.bucket + e.tf, inbox', Forming)
    BY <1>2, <2>1 DEF HigherInv, HigherEnded, EndedBy
  <2>4. HigherEnded(htf', inbox', Forming)
    BY <1>3, <2>2, <2>3 DEF HigherEnded
  <2>5. HigherTimeframesEndedBefore'
    BY <2>2 DEF HigherInv, HigherTimeframesEndedBefore, Higher
  <2>6. QED
    BY <1>1, <2>4, <2>5 DEF HigherInv, HigherEnded, EndedBy, ClosesEntry, ClosesHigher, Higher, Entry
<1>6. CASE ClosesEntry(e) /\ EntryCandle(e)
  <2>1. htf' = htf /\ lookback' = [candle |-> e.candle, htf |-> htf]
    BY <1>6 DEF EntryCandle
  <2>2. \A tf \in Higher : htf[tf] # None => htf[tf].bucket + tf <= e.candle.bucket
    BY <1>2, <1>6 DEF HigherInv, HigherEnded, EndedBy
  <2>3. HigherTimeframesEndedBefore'
    BY <2>1, <2>2 DEF HigherTimeframesEndedBefore, Higher
  <2>4. QED
    BY <1>1, <1>3, <2>1, <2>3 DEF HigherInv, HigherEnded, EndedBy, ClosesEntry, ClosesHigher, Higher, Entry
<1>7. QED
  BY <1>2, <1>4, <1>5, <1>6 DEF Handle, OnCandleClosed, DeadZoneCandle, OnResetDaily, signalVars, ClosesEntry

LEMMA OtherHigher ==
  ASSUME TypeInv, HigherInv, Connection \/ PublishReset \/ Tick \/ UNCHANGED vars
  PROVE  HigherInv'
<1>1. UNCHANGED <<builders, htf, lookback>> /\ Forming' = Forming
  BY DEF Connection, PublishReset, Tick, vars, dataVars, signalVars, history, Forming, Entry
<1>2. /\ Len(inbox') \in Nat
      /\ \A i \in 1..Len(inbox') : inbox'[i].type = "CandleClosed" =>
           i + 0 \in 1..Len(inbox) /\ inbox'[i] = inbox[i + 0]
  <2>1. CASE inbox' = inbox
    BY <2>1, Basics
  <2>2. CASE PublishReset
    <3>1. /\ Len(inbox') = Len(inbox) + 1 /\ Len(inbox) \in Nat
          /\ \A i \in 1..Len(inbox) : inbox'[i] = inbox[i]
          /\ inbox'[Len(inbox) + 1].type = "ResetDaily"
      BY <2>2, PublishResetEffect
    <3>2. \A i \in 1..Len(inbox') : i \in 1..Len(inbox) \/ i = Len(inbox) + 1
      BY <3>1
    <3>3. QED
      BY <3>1, <3>2
  <2>3. QED
    BY <2>1, <2>2 DEF Connection, Tick, vars
<1>3. HigherEnded(htf, inbox', Forming)
  BY <1>2, HigherKept
<1>4. QED
  BY <1>1, <1>3 DEF HigherInv, HigherEnded, EndedBy, ClosesEntry, ClosesHigher, Higher, Entry,
                    HigherTimeframesEndedBefore

LEMMA NextHigher ==
  ASSUME TypeInv, HigherInv, [Next]_vars
  PROVE  HigherInv'
<1>1. CASE Arrives
  BY <1>1, ArrivesTrade, TradeHigher
<1>2. CASE Handle
  BY <1>2, HandleHigher
<1>3. CASE Connection \/ PublishReset \/ Tick \/ UNCHANGED vars
  BY <1>3, OtherHigher
<1>4. QED
  BY <1>1, <1>2, <1>3 DEF Next

\* A candle is evaluated (signal.rs:84-137) against higher timeframes that
\* had ended when it opened, however far the signal agent lags behind the
\* data agent: no look-ahead.
THEOREM NoLookAheadTheorem == Spec => []HigherTimeframesEndedBefore
<1>1. Init => HigherInv
  BY InitHigher
<1>2. TypeInv /\ HigherInv /\ [Next]_vars => HigherInv'
  BY NextHigher
<1>3. HigherInv => HigherTimeframesEndedBefore
  BY DEF HigherInv
<1>4. QED
  BY <1>1, <1>2, <1>3, TypeInvariant, PTL DEF Spec

-----------------------------------------------------------------------------
(* Candles and their trades *)

LEMMA TradesAppended ==
  ASSUME NEW ds \in Seq(Trades), NEW t \in Trades, NEW b
  PROVE  /\ Append(ds, t)[Len(ds) + 1] = t /\ Len(ds) \in Nat
         /\ \A i \in TradesOf(b, ds) : i \in 1..Len(ds) /\ Append(ds, t)[i] = ds[i]
         /\ \A i : i \in TradesOf(b, Append(ds, t)) <=>
              i \in TradesOf(b, ds) \/ (i = Len(ds) + 1 /\ Bucket(t.ts, Entry) = b)
<1>1. /\ Len(Append(ds, t)) = Len(ds) + 1 /\ Len(ds) \in Nat
      /\ \A i \in 1..Len(ds) : Append(ds, t)[i] = ds[i]
      /\ Append(ds, t)[Len(ds) + 1] = t
  BY AppendProperties
<1>2. \A i : i \in 1..(Len(ds) + 1) <=> i \in 1..Len(ds) \/ i = Len(ds) + 1
  BY <1>1
<1>3. QED
  BY <1>1, <1>2 DEF TradesOf

\* A trade of another bucket leaves the candle that of its trades.
LEMMA CandleKept ==
  ASSUME NEW ds \in Seq(Trades), NEW t \in Trades, NEW b, b # Bucket(t.ts, Entry),
         NEW c, IsCandleOf(c, b, ds)
  PROVE  IsCandleOf(c, b, Append(ds, t))
<1>1. /\ \A i : i \in TradesOf(b, Append(ds, t)) <=> i \in TradesOf(b, ds)
      /\ \A i \in TradesOf(b, ds) : Append(ds, t)[i] = ds[i]
  BY TradesAppended
<1>2. QED
  <2>1. TradesOf(b, Append(ds, t)) = TradesOf(b, ds)
    BY <1>1 DEF TradesOf
  <2>2. QED
    BY <1>1, <2>1 DEF IsCandleOf

\* The first trade of a bucket is its candle.
LEMMA FirstIsCandle ==
  ASSUME NEW ds \in Seq(Trades), NEW t \in Trades,
         \A i \in 1..Len(ds) : Bucket(ds[i].ts, Entry) # Bucket(t.ts, Entry)
  PROVE  IsCandleOf(First(t, Entry), Bucket(t.ts, Entry), Append(ds, t))
<1> DEFINE b == Bucket(t.ts, Entry)
           n == Len(ds) + 1
           T == TradesOf(b, Append(ds, t))
<1>1. TradesOf(b, ds) = {}
  BY DEF TradesOf
<1>2. Append(ds, t)[n] = t /\ n \in Nat /\ \A i : i \in T <=> i = n
  BY <1>1, TradesAppended
<1>3. /\ First(t, Entry).bucket = b /\ t.price \in Nat
      /\ First(t, Entry).open = t.price /\ First(t, Entry).close = t.price
      /\ First(t, Entry).high = t.price /\ First(t, Entry).low = t.price
  BY CandleFields DEF First, Trades
<1> HIDE DEF b, n, T
<1>4. t.price \in t.price..t.price /\ n <= n
  BY <1>2, <1>3
<1> DEFINE f == First(t, Entry)
           a == Append(ds, t)
<1>5. f.bucket = b /\ f.open = t.price /\ f.close = t.price /\ f.high = t.price /\ f.low = t.price
  BY <1>3
<1>6. T = {n} /\ a[n] = t
  BY <1>2
<1> HIDE DEF f, a
<1>7. T = TradesOf(b, a) => IsCandleOf(f, b, a)
  BY <1>4, <1>5, <1>6 DEF IsCandleOf
<1>8. QED
  BY <1>7 DEF T, a, f, b

\* A further trade of a bucket takes its candle along.
LEMMA MergedIsCandle ==
  ASSUME NEW ds \in Seq(Trades), NEW t \in Trades, NEW c \in Candle,
         IsCandleOf(c, Bucket(t.ts, Entry), ds)
  PROVE  IsCandleOf(Merged(c, t), Bucket(t.ts, Entry), Append(ds, t))
<1> DEFINE b == Bucket(t.ts, Entry)
           n == Len(ds) + 1
           O == TradesOf(b, ds)
           T == TradesOf(b, Append(ds, t))
           a == Append(ds, t)
           h == Max({c.high, t.price})
           l == Min({c.low, t.price})
           m == Merged(c, t)
<1>1. /\ a[n] = t /\ n \in Nat /\ Len(ds) \in Nat
      /\ \A i \in O : i \in 1..Len(ds) /\ a[i] = ds[i] /\ i <= n /\ ds[i].price \in Nat
      /\ \A i : i \in T <=> i \in O \/ i = n
  <2>1. \A i \in 1..Len(ds) : ds[i] \in Trades
    OBVIOUS
  <2>2. \A i \in 1..Len(ds) : ds[i].price \in Nat
    BY <2>1, CandleFields DEF Trades
  <2>3. QED
    BY <2>2, TradesAppended
<1>2. /\ c.bucket = b
      /\ \E i \in O : (\A j \in O : i <= j) /\ c.open = ds[i].price
      /\ \E i \in O : c.high = ds[i].price
      /\ \E i \in O : c.low = ds[i].price
      /\ \A i \in O : ds[i].price \in c.low..c.high
  BY DEF IsCandleOf
<1>3. /\ c.high \in Nat /\ c.low \in Nat /\ t.price \in Nat
      /\ c \in [bucket : 0..MaxTime, open : Prices, high : Prices, low : Prices, close : Prices]
  BY CandleFields DEF Candle, Trades
<1>4. /\ h \in {c.high, t.price} /\ c.high <= h /\ t.price <= h
      /\ l \in {c.low, t.price} /\ l <= c.low /\ l <= t.price
  <2>1. c.high \in Int /\ c.low \in Int /\ t.price \in Int
    BY <1>3
  <2>2. QED
    BY <2>1, MaxMinOfTwo
<1>5. m.bucket = b /\ m.open = c.open /\ m.high = h /\ m.low = l /\ m.close = t.price
  <2>1. m = [c EXCEPT !.high = h, !.low = l, !.close = t.price]
    BY DEF Merged
  <2> HIDE DEF h, l, m
  <2>2. QED
    BY <1>2, <1>3, <2>1
<1> HIDE DEF b, n, O, T, a, h, l, m
<1>6. \E i \in T : (\A j \in T : i <= j) /\ m.open = a[i].price
  <2>1. PICK i \in O : (\A j \in O : i <= j) /\ c.open = ds[i].price
    BY <1>2
  <2>2. i \in T /\ (\A j \in T : i <= j) /\ m.open = a[i].price
    BY <1>1, <1>5, <2>1
  <2>3. QED
    BY <2>2
<1>7. \E i \in T : (\A j \in T : j <= i) /\ m.close = a[i].price
  <2>1. n \in T /\ (\A j \in T : j <= n) /\ m.close = a[n].price
    BY <1>1, <1>5
  <2>2. QED
    BY <2>1
<1>8. \E i \in T : m.high = a[i].price
  BY <1>1, <1>2, <1>4, <1>5
<1>9. \E i \in T : m.low = a[i].price
  BY <1>1, <1>2, <1>4, <1>5
<1>10. ASSUME NEW i \in T
       PROVE  a[i].price \in m.low..m.high
  <2>1. h \in Nat /\ l \in Nat
    BY <1>3, <1>4
  <2>2. CASE i = n
    BY <1>1, <1>3, <1>4, <1>5, <2>1, <2>2
  <2>3. CASE i \in O
    <3>1. ds[i].price \in Nat /\ c.low <= ds[i].price /\ ds[i].price <= c.high /\ a[i] = ds[i]
      BY <1>1, <1>2, <2>3
    <3>2. QED
      BY <1>3, <1>4, <1>5, <2>1, <3>1
  <2>4. QED
    BY <1>1, <2>2, <2>3
<1>11. QED
  BY <1>5, <1>6, <1>7, <1>8, <1>9, <1>10 DEF IsCandleOf, T, a, b, m

LEMMA InitMatch == Init => MatchInv
<1> SUFFICES ASSUME Init PROVE MatchInv
  OBVIOUS
<1>1. delivered = <<>> /\ builders[Entry] = None
  BY Lengths DEF Init
<1>2. QED
  BY <1>1 DEF MatchInv, Matches, Forming

\* The candle that is not forming any more is under way.
LEMMA InFlightKept ==
  ASSUME TypeInv, NEW t \in Trades, Trade(t)
  PROVE  /\ InFlight \subseteq InFlight'
         /\ Crosses(builders[Entry], t, Entry) => builders[Entry] \in InFlight'
<1>1. \A i \in 1..Len(inbox) : i \in 1..Len(inbox') /\ inbox'[i] = inbox[i]
  BY TradeEffect
<1>2. InFlight \subseteq InFlight'
  BY <1>1 DEF InFlight, Entry
<1>3. Crosses(builders[Entry], t, Entry) =>
        \E i \in 1..Len(inbox') : /\ inbox'[i].type = "CandleClosed" /\ inbox'[i].tf = Entry
                                  /\ inbox'[i].candle = builders[Entry]
  BY TradeEffect DEF ClosesEntry
<1>4. QED
  BY <1>2, <1>3 DEF InFlight, Entry

LEMMA TradeMatch ==
  ASSUME TypeInv, MatchInv, NEW t \in Trades, Trade(t)
  PROVE  MatchInv'
<1> DEFINE ds == delivered
           nb == Bucket(t.ts, Entry)
           c  == builders[Entry]
<1>1. /\ ds \in Seq(Trades) /\ delivered' = Append(ds, t) /\ candles' = candles /\ skipped' = skipped
      /\ late' = IF nb < Forming THEN late \union {Forming, nb} ELSE late
      /\ late \subseteq late'
  BY DEF Trade, signalVars, TypeInv, TypeOK, Trades, Forming
<1>2. /\ Len(delivered') = Len(ds) + 1 /\ Len(ds) \in Nat /\ delivered'[Len(ds) + 1] = t
      /\ \A i \in 1..Len(ds) : delivered'[i] = ds[i]
      /\ \A i \in 1..Len(delivered') : i \in 1..Len(ds) \/ i = Len(ds) + 1
  BY <1>1, AppendProperties
<1>3. /\ c # None => Forming <= Forming' /\ Forming \in Nat
      /\ nb <= Forming' /\ Forming' \in Nat /\ nb \in Nat /\ Forming \in Int
      /\ c = None => Forming = 0 - 1
  <2>1. t.ts \in Nat
    BY CandleFields DEF Trades
  <2>2. QED
    BY <2>1, BuildersEffect, Basics, BucketOf, Lengths
<1>4. \A i \in 1..Len(ds) : Bucket(ds[i].ts, Entry) \in Nat /\ Bucket(ds[i].ts, Entry) <= Forming
  BY Basics DEF MatchInv, Matches, Forming
<1>5. \A i \in 1..Len(delivered') : Bucket(delivered'[i].ts, Entry) <= Forming'
  BY <1>2, <1>3, <1>4
<1>6. \A b : b \notin late' /\ b # Forming' => (b = nb => FALSE)
  <2>1. CASE c = None \/ Crosses(c, t, Entry)
    BY <2>1, BuildersEffect
  <2>2. CASE c # None /\ ~Crosses(c, t, Entry)
    <3>1. nb <= Forming /\ Forming' = Forming
      BY <1>3, <2>2, BuildersEffect DEF Crosses, Forming
    <3>2. nb = Forming' \/ nb \in late'
      BY <1>1, <1>3, <3>1
    <3>3. QED
      BY <3>2
  <2>3. QED
    BY <2>1, <2>2
<1>7. ASSUME Forming' \notin late'
      PROVE  IsCandleOf(builders'[Entry], Forming', delivered')
  <2>1. CASE c = None \/ Crosses(c, t, Entry)
    <3>1. builders'[Entry] = First(t, Entry) /\ Forming' = nb
      BY <2>1, BuildersEffect
    <3>2. \A i \in 1..Len(ds) : Bucket(ds[i].ts, Entry) # nb
      BY <1>3, <1>4, <2>1 DEF Crosses, Forming
    <3>3. QED
      BY <1>1, <3>1, <3>2, FirstIsCandle
  <2>2. CASE c # None /\ ~Crosses(c, t, Entry)
    <3>1. nb <= Forming /\ Forming' = Forming /\ builders'[Entry] = Merged(c, t) /\ c \in Candle
      BY <1>3, <2>2, BuildersEffect, Basics DEF Crosses, Forming
    <3>2. nb = Forming /\ Forming \notin late
      BY <1>1, <1>3, <1>7, <3>1
    <3>3. IsCandleOf(c, nb, ds)
      BY <2>2, <3>2 DEF MatchInv, Matches, Forming
    <3>4. QED
      BY <1>1, <3>1, <3>2, <3>3, MergedIsCandle
  <2>3. QED
    BY <2>1, <2>2
<1>8. ASSUME NEW i \in 1..Len(delivered'), NEW b, b = Bucket(delivered'[i].ts, Entry),
             b \notin late', b # Forming'
      PROVE  b \in skipped \/ \E k \in Range(candles) \union InFlight' : IsCandleOf(k, b, delivered')
  <2>1. b # nb /\ b \notin late
    BY <1>1, <1>6, <1>8
  <2>2. i \in 1..Len(ds) /\ b = Bucket(ds[i].ts, Entry)
    BY <1>2, <1>8, <2>1
  <2>3. CASE b = Forming
    <3>1. c # None
      BY <1>3, <1>4, <2>2, <2>3
    <3>2. IsCandleOf(c, b, ds)
      BY <2>1, <2>3, <3>1 DEF MatchInv, Matches, Forming
    <3>3. Crosses(c, t, Entry)
      BY <1>8, <2>3, <3>1, BuildersEffect
    <3>4. c \in InFlight'
      BY <3>3, InFlightKept
    <3>5. IsCandleOf(c, b, delivered')
      BY <1>1, <2>1, <3>2, CandleKept
    <3>6. QED
      BY <3>4, <3>5
  <2>4. CASE b # Forming
    <3>1. b \in skipped \/ \E k \in Range(candles) \union InFlight : IsCandleOf(k, b, ds)
      BY <2>1, <2>2, <2>4 DEF MatchInv, Matches, Forming
    <3>2. ASSUME NEW k \in Range(candles) \union InFlight, IsCandleOf(k, b, ds)
          PROVE  k \in Range(candles) \union InFlight' /\ IsCandleOf(k, b, delivered')
      BY <1>1, <2>1, <3>2, CandleKept, InFlightKept
    <3>3. QED
      BY <3>1, <3>2
  <2>5. QED
    BY <2>3, <2>4
<1>9. QED
  BY <1>1, <1>5, <1>7, <1>8 DEF MatchInv, Matches, Forming, Entry

LEMMA HandleMatch ==
  ASSUME TypeInv, MatchInv, Handle
  PROVE  MatchInv'
<1> DEFINE e == inbox[1]
<1>1. UNCHANGED <<builders, delivered, late>> /\ Forming' = Forming
  BY DEF Handle, dataVars, Forming, Entry
<1>2. /\ e \in Event /\ Head(inbox) = e /\ Len(inbox) \in Nat \ {0}
      /\ Len(inbox') = Len(inbox) - 1
      /\ \A i \in 1..Len(inbox') : i + 1 \in 1..Len(inbox) /\ inbox'[i] = inbox[i + 1]
  BY HandleEffect
<1>3. ASSUME NEW k \in InFlight
      PROVE  k \in InFlight' \/ (ClosesEntry(e) /\ k = e.candle)
  <2>1. PICK i \in 1..Len(inbox) :
          inbox[i].type = "CandleClosed" /\ inbox[i].tf = Entry /\ k = inbox[i].candle
    BY DEF InFlight
  <2>2. CASE i = 1
    BY <2>1, <2>2 DEF ClosesEntry
  <2>3. CASE i # 1
    <3>1. i - 1 \in 1..Len(inbox') /\ inbox'[i - 1] = inbox[i]
      BY <1>2, <2>3
    <3>2. QED
      BY <2>1, <3>1 DEF InFlight, Entry
  <2>4. QED
    BY <2>2, <2>3
<1>4. /\ Range(candles) \subseteq Range(candles') /\ skipped \subseteq skipped'
      /\ ClosesEntry(e) => e.candle \in Range(candles') \/ e.candle.bucket \in skipped'
  <2>1. candles \in Seq(Candle) /\ (ClosesEntry(e) => e.candle \in Candle)
    BY <1>2 DEF TypeInv, TypeOK, Event, ClosesEntry
  <2>2. \/ candles' = candles /\ ~ClosesEntry(e) /\ skipped' = skipped
        \/ candles' = candles /\ skipped' = skipped \union {e.candle.bucket}
        \/ candles' = Append(candles, e.candle) /\ ClosesEntry(e) /\ skipped' = skipped
    BY <1>2 DEF Handle, OnCandleClosed, HigherTimeframe, DeadZoneCandle, EntryCandle, OnClosed,
                OnResetDaily, signalVars, ClosesEntry
  <2>3. ClosesEntry(e) => Range(Append(candles, e.candle)) = Range(candles) \union {e.candle}
    BY <2>1, RangeOfAppend
  <2>4. QED
    BY <2>2, <2>3
<1>5. ASSUME NEW i \in 1..Len(delivered), NEW b, b = Bucket(delivered[i].ts, Entry),
             b \notin late, b # Forming
      PROVE  b \in skipped' \/ \E k \in Range(candles') \union InFlight' : IsCandleOf(k, b, delivered)
  <2>1. CASE b \in skipped
    BY <1>4, <2>1
  <2>2. CASE \E k \in Range(candles) \union InFlight : IsCandleOf(k, b, delivered)
    <3>1. PICK k \in Range(candles) \union InFlight : IsCandleOf(k, b, delivered)
      BY <2>2
    <3>2. k.bucket = b
      BY <3>1 DEF IsCandleOf
    <3>3. k \in Range(candles') \union InFlight' \/ b \in skipped'
      BY <1>3, <1>4, <3>2
    <3>4. QED
      BY <3>1, <3>3
  <2>3. QED
    BY <1>5, <2>1, <2>2 DEF MatchInv, Matches, Forming
<1>6. QED
  BY <1>1, <1>5 DEF MatchInv, Matches, Forming, Entry

LEMMA OtherMatch ==
  ASSUME TypeInv, MatchInv, Connection \/ PublishReset \/ Tick \/ UNCHANGED vars
  PROVE  MatchInv'
<1>1. UNCHANGED <<builders, candles, delivered, late, skipped>> /\ Forming' = Forming
  BY DEF Connection, PublishReset, Tick, vars, dataVars, signalVars, history, Forming, Entry
<1>2. \A i \in 1..Len(inbox) : i \in 1..Len(inbox') /\ inbox'[i] = inbox[i]
  <2>1. CASE inbox' = inbox
    BY <2>1
  <2>2. CASE PublishReset
    BY <2>2, PublishResetEffect
  <2>3. QED
    BY <2>1, <2>2 DEF Connection, Tick, vars
<1>3. InFlight \subseteq InFlight'
  BY <1>2 DEF InFlight, Entry
<1>4. QED
  BY <1>1, <1>3 DEF MatchInv, Matches, Forming, Entry

LEMMA NextMatch ==
  ASSUME TypeInv, MatchInv, [Next]_vars
  PROVE  MatchInv'
<1>1. CASE Arrives
  BY <1>1, ArrivesTrade, TradeMatch
<1>2. CASE Handle
  BY <1>2, HandleMatch
<1>3. CASE Connection \/ PublishReset \/ Tick \/ UNCHANGED vars
  BY <1>3, OtherMatch
<1>4. QED
  BY <1>1, <1>2, <1>3 DEF Next

\* Every bucket with a trade reaches the indicators as the candle of exactly
\* its trades, unless a trade came late or the dead zone dropped it: nothing
\* is lost between the builder (ohlcv_builder.rs:44-80) and on_closed.
THEOREM CandlesTheorem == Spec => []CandlesMatchTrades
<1>1. Init => MatchInv
  BY InitMatch
<1>2. TypeInv /\ MatchInv /\ [Next]_vars => MatchInv'
  BY NextMatch
<1>3. TypeInv /\ MatchInv => CandlesMatchTrades
  <2> SUFFICES ASSUME TypeInv, MatchInv, NEW t \in Range(delivered), Bucket(t.ts, Entry) \notin late
               PROVE  \/ Bucket(t.ts, Entry) \in skipped
                      \/ \E c \in Range(candles) \union InFlight \union {builders[Entry]} :
                           IsCandleOf(c, Bucket(t.ts, Entry), delivered)
    BY DEF CandlesMatchTrades
  <2>1. PICK i \in 1..Len(delivered) : t = delivered[i]
    BY DEF Range, TypeInv, TypeOK
  <2>2. CASE Bucket(t.ts, Entry) = Forming
    <3>1. builders[Entry] # None
      BY <2>1, <2>2, Basics
    <3>2. QED
      BY <2>2, <3>1 DEF MatchInv, Matches, Forming
  <2>3. CASE Bucket(t.ts, Entry) # Forming
    BY <2>1, <2>3 DEF MatchInv, Matches, Forming
  <2>4. QED
    BY <2>2, <2>3
<1>4. QED
  BY <1>1, <1>2, <1>3, TypeInvariant, PTL DEF Spec

-----------------------------------------------------------------------------
(* The session VWAP over midnight *)

LEMMA InitVwap == Init => VwapInv
<1> SUFFICES ASSUME Init PROVE VwapInv
  OBVIOUS
<1>1. delivered = <<>> /\ inbox = <<>>
  BY DEF Init
<1>2. QED
  BY <1>1 DEF VwapInv, Settled

\* A new trade is of now, which no midnight so far is later than; the candle
\* it closes is at least as late as every trade before.
LEMMA TradeVwap ==
  ASSUME TypeInv, MatchInv, VwapInv, NEW t \in Trades, Trade(t), t.at = now
  PROVE  VwapInv'
<1> DEFINE n == Len(inbox)
           m == Len(delivered)
<1>1. /\ vwap' = vwap /\ since' = since /\ delivered' = Append(delivered, t)
      /\ delivered \in Seq(Trades)
  BY DEF Trade, signalVars, TypeInv, TypeOK, Trades
<1>2. /\ Len(delivered') = m + 1 /\ m \in Nat /\ delivered'[m + 1] = t
      /\ \A i \in 1..m : delivered'[i] = delivered[i]
      /\ \A i \in 1..Len(delivered') : i \in 1..m \/ i = m + 1
  BY <1>1, AppendProperties
<1>3. /\ Len(inbox') \in Nat /\ n \in Nat
      /\ \A i \in 1..n : i \in 1..Len(inbox') /\ inbox'[i] = inbox[i]
      /\ \A i \in 1..Len(inbox') : i \notin 1..n /\ ClosesEntry(inbox'[i]) =>
           inbox'[i].candle.bucket = Forming
      /\ \A i \in 1..Len(inbox') : i \notin 1..n => inbox'[i].type # "ResetDaily"
  <2>1. Len(inbox') \in Nat /\ n \in Nat
    BY TradeEffect, Basics
  <2>2. QED
    BY <2>1, TradeEffect DEF ClosesEntry, Forming
<1>4. \A i \in 1..m : Bucket(delivered[i].ts, Entry) <= Forming
  BY DEF MatchInv, Matches, Forming
<1>5. ASSUME NEW at \in Nat, at <= now, NEW p, Settled(delivered, at, inbox, p)
      PROVE  Settled(delivered', at, inbox', p)
  <2> SUFFICES ASSUME NEW d \in 1..Len(delivered'), NEW i \in 1..Len(inbox'),
                      delivered'[d].at < at, p < i, ClosesEntry(inbox'[i])
               PROVE  Bucket(delivered'[d].ts, Entry) <= inbox'[i].candle.bucket
    BY DEF Settled
  <2>1. d \in 1..m /\ delivered'[d] = delivered[d]
    BY <1>2, <1>5, Basics
  <2>2. CASE i \in 1..n
    BY <1>3, <1>5, <2>1, <2>2 DEF Settled
  <2>3. CASE i \notin 1..n
    BY <1>3, <1>4, <2>1, <2>3
  <2>4. QED
    BY <2>2, <2>3
<1>6. since \in Nat /\ since <= now /\ now \in Nat
  BY Basics DEF TypeInv, ClockInv
<1>7. ASSUME NEW p \in 1..Len(inbox'), inbox'[p].type = "ResetDaily"
      PROVE  Settled(delivered', inbox'[p].tf, inbox', p)
  <2>1. p \in 1..n /\ inbox'[p] = inbox[p] /\ inbox[p].type = "ResetDaily"
    BY <1>3, <1>7
  <2>2. inbox[p].tf <= now /\ inbox[p].tf \in Nat
    <3>1. inbox[p] \in Event
      BY <2>1, ElementOfSeq DEF TypeInv, TypeOK
    <3>2. inbox[p].tf \in Nat
      BY <2>1, <3>1, CandleFields DEF Event
    <3>3. QED
      BY <2>1, <3>2 DEF TypeInv, ClockInv
  <2>3. QED
    BY <1>5, <2>1, <2>2 DEF VwapInv
<1>8. \A d \in 1..Len(delivered'), b \in vwap :
        delivered'[d].at < since => Bucket(delivered'[d].ts, Entry) <= b
  BY <1>2, <1>6 DEF VwapInv
<1>9. Settled(delivered', since, inbox', 0)
  BY <1>5, <1>6 DEF VwapInv
<1>10. QED
  BY <1>1, <1>7, <1>8, <1>9 DEF VwapInv, Settled, ClosesEntry, Entry

\* The reset empties the VWAP, and the candles behind it are settled.
LEMMA HandleVwap ==
  ASSUME TypeInv, VwapInv, Handle
  PROVE  VwapInv'
<1> DEFINE e == inbox[1]
<1>1. delivered' = delivered
  BY DEF Handle
<1>2. /\ e \in Event /\ Head(inbox) = e /\ Len(inbox) \in Nat \ {0} /\ Len(inbox') \in Nat
      /\ \A i \in 1..Len(inbox') : i + 1 \in 1..Len(inbox) /\ inbox'[i] = inbox[i + 1]
      /\ 1 \in 1..Len(inbox)
  BY HandleEffect
<1>4. \A p \in 1..Len(inbox') : inbox'[p].type = "ResetDaily" =>
         Settled(delivered, inbox'[p].tf, inbox', p)
  <2> SUFFICES ASSUME NEW p \in 1..Len(inbox'), inbox'[p].type = "ResetDaily"
               PROVE  Settled(delivered, inbox'[p].tf, inbox', p)
    OBVIOUS
  <2>1. p + 1 \in 1..Len(inbox) /\ inbox'[p] = inbox[p + 1] /\ p \in Nat
    BY <1>2
  <2>2. Settled(delivered, inbox[p + 1].tf, inbox, p + 1)
    BY <2>1 DEF VwapInv
  <2>3. QED
    BY <1>2, <2>1, <2>2 DEF Settled
<1>5. CASE e.type = "CandleClosed" /\ OnCandleClosed(e)
  <2>1. since' = since /\ (vwap' = vwap \/ (ClosesEntry(e) /\ vwap' = vwap \union {e.candle.bucket}))
    BY <1>5 DEF OnCandleClosed, HigherTimeframe, DeadZoneCandle, EntryCandle, OnClosed, signalVars, ClosesEntry
  <2>2. \A d \in 1..Len(delivered), b \in vwap' :
          delivered[d].at < since => Bucket(delivered[d].ts, Entry) <= b
    BY <1>2, <2>1 DEF VwapInv, Settled
  <2>3. Settled(delivered, since, inbox', 0)
    BY <1>2 DEF VwapInv, Settled
  <2>4. QED
    BY <1>1, <1>4, <2>1, <2>2, <2>3 DEF VwapInv, Settled, ClosesEntry, Entry
<1>6. CASE e.type = "ResetDaily" /\ OnResetDaily(e)
  <2>1. vwap' = {} /\ since' = e.tf
    BY <1>6 DEF OnResetDaily
  <2>2. Settled(delivered, e.tf, inbox, 1)
    BY <1>2, <1>6 DEF VwapInv
  <2>3. Settled(delivered, e.tf, inbox', 0)
    BY <1>2, <2>2 DEF Settled
  <2>4. QED
    BY <1>1, <1>4, <2>1, <2>3 DEF VwapInv, Settled, ClosesEntry, Entry
<1>7. QED
  BY <1>2, <1>5, <1>6 DEF Handle

LEMMA OtherVwap ==
  ASSUME TypeInv, VwapInv, Connection \/ PublishReset \/ Tick \/ UNCHANGED vars
  PROVE  VwapInv'
<1>1. UNCHANGED <<delivered, vwap, since>>
  BY DEF Connection, PublishReset, Tick, vars, signalVars, history
<1>2. CASE inbox' = inbox
  BY <1>1, <1>2 DEF VwapInv, Settled, ClosesEntry, Entry
<1>3. CASE PublishReset
  <2> DEFINE n == Len(inbox)
  <2>1. /\ Len(inbox') = n + 1 /\ n \in Nat
        /\ \A i \in 1..n : i \in 1..Len(inbox') /\ inbox'[i] = inbox[i]
        /\ inbox'[n + 1].type = "ResetDaily"
    BY <1>3, PublishResetEffect
  <2>2. \A i \in 1..Len(inbox') : i \in 1..n \/ (i = n + 1 /\ ~ClosesEntry(inbox'[i]))
    BY <2>1 DEF ClosesEntry
  <2>3. \A at, p : Settled(delivered, at, inbox, p) => Settled(delivered, at, inbox', p)
    BY <2>1, <2>2 DEF Settled
  <2>4. \A at : Settled(delivered, at, inbox', n + 1)
    <3>1. \A i \in 1..Len(inbox') : ~(n + 1 < i)
      BY <2>1
    <3>2. QED
      BY <3>1 DEF Settled
  <2>5. \A p \in 1..Len(inbox') : inbox'[p].type = "ResetDaily" =>
          Settled(delivered, inbox'[p].tf, inbox', p)
    BY <2>1, <2>2, <2>3, <2>4 DEF VwapInv
  <2>6. Settled(delivered, since, inbox', 0)
    BY <2>3 DEF VwapInv
  <2>7. QED
    BY <1>1, <2>5, <2>6 DEF VwapInv, Settled, ClosesEntry, Entry
<1>4. QED
  BY <1>2, <1>3 DEF Connection, Tick, vars

LEMMA NextVwap ==
  ASSUME TypeInv, MatchInv, VwapInv, [Next]_vars
  PROVE  VwapInv'
<1>1. CASE Arrives
  BY <1>1, ArrivesTrade, TradeVwap
<1>2. CASE Handle
  BY <1>2, HandleVwap
<1>3. CASE Connection \/ PublishReset \/ Tick \/ UNCHANGED vars
  BY <1>3, OtherVwap
<1>4. QED
  BY <1>1, <1>2, <1>3 DEF Next

\* However far the signal agent lags, at most one candle that was forming by
\* midnight is in the session VWAP after the reset (signal.rs:262-270,
\* main.rs:621-638): the last, since the others were published before.
THEOREM VwapTheorem == Spec => []VwapSpillsOneCandle
<1>1. Init => MatchInv /\ VwapInv
  BY InitMatch, InitVwap
<1>2. TypeInv /\ MatchInv /\ VwapInv /\ [Next]_vars => MatchInv' /\ VwapInv'
  BY NextMatch, NextVwap
<1>3. TypeInv /\ VwapInv => VwapSpillsOneCandle
  <2> SUFFICES ASSUME TypeInv, VwapInv PROVE VwapSpillsOneCandle
    OBVIOUS
  <2> DEFINE S == vwap \intersect FormingByMidnight
  <2>1. ASSUME NEW x \in S
        PROVE  /\ x \in Nat
               /\ \E d \in 1..Len(delivered) :
                    delivered[d].at < since /\ x = Bucket(delivered[d].ts, Entry)
    <3>1. PICK t \in Range(delivered) : t.at < since /\ x = Bucket(t.ts, Entry)
      BY <2>1 DEF FormingByMidnight
    <3>2. PICK d \in 1..Len(delivered) : t = delivered[d]
      BY DEF Range, TypeInv, TypeOK
    <3>3. Bucket(delivered[d].ts, Entry) \in Nat
      BY Basics
    <3>4. QED
      BY <3>1, <3>2, <3>3
  <2>2. ASSUME NEW x \in S, NEW y \in S
        PROVE  x = y
    <3>1. x <= y /\ y <= x
      BY <2>1 DEF VwapInv
    <3>2. QED
      BY <2>1, <3>1
  <2>3. CASE S = {}
    BY <2>3, FS_EmptySet DEF VwapSpillsOneCandle
  <2>4. CASE S # {}
    <3>1. PICK x : S = {x}
      BY <2>2, <2>4
    <3>2. Cardinality({x}) = 1
      BY FS_Singleton
    <3>3. QED
      BY <3>1, <3>2 DEF VwapSpillsOneCandle
  <2>5. QED
    BY <2>3, <2>4
<1>4. QED
  BY <1>1, <1>2, <1>3, TypeInvariant, PTL DEF Spec
=============================================================================
