----------------------------- MODULE LedgerProofs -----------------------------
(***************************************************************************)
(* Proofs about the risk manager under two sets of callers, for every      *)
(* value of the limits.                                                    *)
(*                                                                         *)
(* RiskBudget, the trading path: neither bound is inductive.  CountInv     *)
(* keeps counter and book apart, so that what the two recoveries found is  *)
(* accounted for once; MoneyInv adds what the agent's positions, open and  *)
(* in flight, may still lose.                                              *)
(*                                                                         *)
(* SurvivalControl, the survival and control agents: no loss counter       *)
(* outruns the closes, because CounterInv accounts for every close on its  *)
(* way from the ledger through the inbox to the counters; and the size a   *)
(* verdict sets is earned, because no penalty can hide behind another.     *)
(***************************************************************************)
EXTENDS RiskBudget, SurvivalControl, SequenceTheorems, TLAPS

\* What the cap and the pipeline allow at once.
Cap == MaxOpenPositions + MaxInFlight - 1

\* The counter exceeds Cap only by what the first recovery found, and the
\* book exceeds the counter only by what the second one found.
CountInv ==
  /\ openPositions + granted <= Larger(counted, Cap)
  /\ own + recovered <= openPositions + uncounted
  /\ own + granted <= Cap + uncounted
  /\ reconciled \/ uncounted = 0

\* What the agent's positions, open and in flight, can still lose.
AtRisk == MaxLoss * (own + granted)

\* The peak is a high-water mark, and the drawdown plus what is at risk stays
\* within the budget unless the ledger has been written down.
MoneyInv ==
  /\ peakEquity >= equity
  /\ peakEquity > 0
  /\ \/ writtenDown
     \/ (peakEquity - equity) * 100 + 100 * AtRisk <
          MaxDrawdownPct * peakEquity
            + 100 * (MaxLoss * (Cap + uncounted) + unstopped)

BudgetInv == CountInv /\ MoneyInv

-----------------------------------------------------------------------------

\* Multiplying by a natural number keeps an order.
LEMMA TimesMonotone ==
  ASSUME NEW k \in Nat, NEW a \in Int, NEW b \in Int, a <= b
  PROVE  /\ k * a \in Int
         /\ k * b \in Int
         /\ k * a <= k * b
  OBVIOUS

\* A product of positive numbers is positive.
LEMMA TimesPositive ==
  ASSUME NEW k \in Nat, k >= 1, NEW a \in Int, a > 0
  PROVE  k * a > 0
  OBVIOUS

\* One more factor adds the other factor once.
LEMMA TimesSucc ==
  ASSUME NEW k \in Nat, NEW a \in Int
  PROVE  /\ k * (a + 1) = k * a + k
         /\ k * (a - 1) = k * a - k
  OBVIOUS

\* The ledger (risk.rs:41-65) stays well typed under every action, the two
\* recoveries of main.rs among them.
THEOREM BudgetTypeInvariant == BudgetSpec => []BudgetTypeOK
<1> USE RiskLimitsAssumption, BudgetAssumption
      DEF RiskLimitsAssumption, BudgetAssumption
<1> DEFINE Numbers == /\ equity \in Int
                      /\ peakEquity \in Int
                      /\ openPositions \in Nat
                      /\ realizedPnlToday \in Int
                      /\ sizeMultiplier \in 0..200
                      /\ granted \in 0..MaxInFlight
                      /\ own \in Nat /\ recovered \in 0..MaxRecovered
                      /\ counted \in 0..MaxRecovered
                      /\ uncounted \in 0..MaxRecovered
                      /\ unstopped \in Nat
           Flags   == {tripped, frozen, writtenDown, reconciled} \subseteq BOOLEAN
<1>1. BudgetTypeOK <=> Numbers /\ Flags
  BY DEF BudgetTypeOK, RiskTypeOK
<1>2. BudgetInit => Numbers
  BY DEF BudgetInit
<1>3. BudgetInit => Flags
  BY DEF BudgetInit
<1>4. Numbers /\ [BudgetNext]_budgetVars => Numbers'
  <2> SUFFICES ASSUME Numbers, [BudgetNext]_budgetVars PROVE Numbers'
    OBVIOUS
  <2> USE DEF riskVars, bookVars, startVars, historyVars
  <2>1. CASE Recover
    <3>1. /\ own' = 0 /\ recovered' \in 0..MaxRecovered
          /\ uncounted' = Larger(recovered' - openPositions, 0)
          /\ UNCHANGED <<riskVars, granted, counted, unstopped>>
      BY <2>1 DEF Recover
    <3>2. PICK r \in 0..MaxRecovered : recovered' = r
      BY <3>1
    <3>3. Larger(r - openPositions, 0) \in 0..MaxRecovered
      BY DEF Larger
    <3>4. QED BY <3>1, <3>2, <3>3
  <2>2. CASE Grant            BY <2>2 DEF Grant
  <2>3. CASE Drop             BY <2>3 DEF Drop
  <2>4. CASE OpenGranted      BY <2>4 DEF OpenGranted, OnPositionOpened
  <2>5. CASE CloseTracked     BY <2>5 DEF CloseTracked, Books, OnPositionClosed
  <2>6. CASE CloseRecovered
    BY <2>6 DEF CloseRecovered, Books, OnPositionClosed, Larger
  <2>7. CASE MidnightReset    BY <2>7 DEF MidnightReset, ResetDaily
  <2>8. CASE ApplySurvival
    BY <2>8 DEF ApplySurvival, SetSizeMultiplier, Freeze, Unfreeze
  <2>9. CASE ReconcileBalance BY <2>9 DEF ReconcileBalance, SetEquity
  <2>10. CASE UNCHANGED budgetVars  BY <2>10 DEF budgetVars
  <2>11. QED
    BY <2>1, <2>2, <2>3, <2>4, <2>5, <2>6, <2>7, <2>8, <2>9, <2>10 DEF BudgetNext
<1>5. Flags /\ [BudgetNext]_budgetVars => Flags'
  <2> SUFFICES ASSUME Flags, [BudgetNext]_budgetVars PROVE Flags'
    OBVIOUS
  <2> USE DEF riskVars, bookVars, startVars, historyVars
  <2>1. CASE Recover          BY <2>1 DEF Recover
  <2>2. CASE Grant            BY <2>2 DEF Grant
  <2>3. CASE Drop             BY <2>3 DEF Drop
  <2>4. CASE OpenGranted      BY <2>4 DEF OpenGranted, OnPositionOpened
  <2>5. CASE CloseTracked     BY <2>5 DEF CloseTracked, Books, OnPositionClosed
  <2>6. CASE CloseRecovered   BY <2>6 DEF CloseRecovered, Books, OnPositionClosed
  <2>7. CASE MidnightReset    BY <2>7 DEF MidnightReset, ResetDaily
  <2>8. CASE ApplySurvival
    BY <2>8 DEF ApplySurvival, SetSizeMultiplier, Freeze, Unfreeze
  <2>9. CASE ReconcileBalance BY <2>9 DEF ReconcileBalance, SetEquity
  <2>10. CASE UNCHANGED budgetVars  BY <2>10 DEF budgetVars
  <2>11. QED
    BY <2>1, <2>2, <2>3, <2>4, <2>5, <2>6, <2>7, <2>8, <2>9, <2>10 DEF BudgetNext
<1>6. BudgetTypeOK /\ [BudgetNext]_budgetVars => BudgetTypeOK'
  <2>1. BudgetTypeOK' <=> Numbers' /\ Flags'
    BY DEF BudgetTypeOK, RiskTypeOK
  <2>2. QED
    BY <1>1, <1>4, <1>5, <2>1
<1>7. QED
  BY <1>1, <1>2, <1>3, <1>6, PTL DEF BudgetSpec

\* The counting half: a grant needs a free slot of the counter, a close gives
\* one back of the book and, unless the counter is at 0, of the counter.
LEMMA CountInvStep ==
  ASSUME BudgetTypeOK, CountInv, [BudgetNext]_budgetVars
  PROVE  CountInv'
<1> USE RiskLimitsAssumption, BudgetAssumption
      DEF RiskLimitsAssumption, BudgetAssumption
<1> DEFINE limit == Larger(counted, Cap)
<1>0. /\ openPositions \in Nat /\ granted \in Nat /\ own \in Nat /\ recovered \in Nat
      /\ counted \in Nat /\ uncounted \in Nat /\ Cap \in Int
      /\ limit \in Int /\ limit >= Cap
  BY DEF BudgetTypeOK, RiskTypeOK, Larger, Cap
<1>1. /\ openPositions + granted <= limit
      /\ own + recovered <= openPositions + uncounted
      /\ own + granted <= Cap + uncounted
      /\ reconciled \/ uncounted = 0
  BY DEF CountInv
<1> HIDE DEF limit
<1>2. ASSUME counted' = counted, Cap' = Cap,
             NEW o \in Nat, NEW g \in Nat, NEW w \in Nat, NEW r \in Nat, NEW u \in Nat,
             openPositions' = o, granted' = g, own' = w, recovered' = r, uncounted' = u,
             o + g <= limit, w + r <= o + u, w + g <= Cap + u, reconciled' \/ u = 0
      PROVE  CountInv'
  <2>1. limit' = limit
    BY <1>2 DEF limit, Larger
  <2>2. QED BY <1>2, <2>1 DEF CountInv, limit
<1>3. CASE Recover
  <2>1. /\ own' = 0 /\ recovered' \in Nat /\ reconciled'
        /\ openPositions' = openPositions /\ granted' = granted /\ counted' = counted
        /\ uncounted = 0
        /\ uncounted' = Larger(recovered' - openPositions, 0)
    BY <1>1, <1>3 DEF Recover, riskVars
  <2>2. PICK r \in Nat : recovered' = r
    BY <2>1
  <2>3. PICK u \in Nat : uncounted' = u /\ r <= openPositions + u
    <3>1. Larger(r - openPositions, 0) \in Nat /\ r <= openPositions + Larger(r - openPositions, 0)
      BY <1>0 DEF Larger
    <3>2. QED BY <2>1, <2>2, <3>1
  <2>4. openPositions + granted <= limit /\ 0 + r <= openPositions + u /\ 0 + granted <= Cap + u
    BY <1>0, <1>1, <2>1, <2>3
  <2>5. QED BY <1>0, <1>2, <2>1, <2>2, <2>3, <2>4 DEF Cap
<1>4. CASE Grant
  <2>1. /\ granted' = granted + 1 /\ granted + 1 <= MaxInFlight
        /\ openPositions + 1 <= MaxOpenPositions
        /\ UNCHANGED <<openPositions, own, recovered, counted, uncounted, reconciled>>
    BY <1>0, <1>4 DEF Grant, CanOpenPosition, BudgetTypeOK, riskVars, bookVars, startVars
  <2>2. /\ granted + 1 \in Nat /\ openPositions + (granted + 1) <= limit
        /\ own + (granted + 1) <= Cap + uncounted
    BY <1>0, <1>1, <2>1 DEF Cap
  <2>3. QED BY <1>0, <1>1, <1>2, <2>1, <2>2 DEF Cap
<1>5. CASE Drop
  <2>1. /\ granted' = granted - 1 /\ granted - 1 \in Nat
        /\ UNCHANGED <<openPositions, own, recovered, counted, uncounted, reconciled>>
    BY <1>0, <1>5 DEF Drop, riskVars, bookVars, startVars
  <2>2. openPositions + (granted - 1) <= limit /\ own + (granted - 1) <= Cap + uncounted
    BY <1>0, <1>1
  <2>3. QED BY <1>0, <1>1, <1>2, <2>1, <2>2 DEF Cap
<1>6. CASE OpenGranted
  <2>1. /\ granted' = granted - 1 /\ granted - 1 \in Nat
        /\ own' = own + 1 /\ openPositions' = openPositions + 1
        /\ UNCHANGED <<recovered, counted, uncounted, reconciled>>
    BY <1>0, <1>6 DEF OpenGranted, OnPositionOpened, startVars
  <2>2. /\ own + 1 \in Nat /\ openPositions + 1 \in Nat
        /\ (openPositions + 1) + (granted - 1) <= limit
        /\ (own + 1) + recovered <= (openPositions + 1) + uncounted
        /\ (own + 1) + (granted - 1) <= Cap + uncounted
    BY <1>0, <1>1
  <2>3. QED BY <1>0, <1>1, <1>2, <2>1, <2>2 DEF Cap
<1>7. ASSUME NEW pnl, OnPositionClosed(pnl), NEW w \in Nat, NEW r \in Nat,
             own' = w, recovered' = r, w <= own, w + r = own + recovered - 1,
             UNCHANGED <<granted, counted, uncounted, reconciled>>
      PROVE  CountInv'
  <2>1. PICK o \in Nat : /\ openPositions' = o /\ o <= openPositions
                         /\ o >= openPositions - 1
    BY <1>0, <1>7 DEF OnPositionClosed
  <2>2. o + granted <= limit /\ w + r <= o + uncounted /\ w + granted <= Cap + uncounted
    BY <1>0, <1>1, <1>7, <2>1
  <2>3. QED BY <1>0, <1>1, <1>2, <1>7, <2>1, <2>2 DEF Cap
<1>8. CASE CloseTracked
  <2>1. \E pnl : OnPositionClosed(pnl)
    BY <1>8 DEF CloseTracked, Books
  <2>2. /\ own' = own - 1 /\ own - 1 \in Nat
        /\ UNCHANGED <<recovered, granted, counted, uncounted, reconciled>>
    BY <1>0, <1>8 DEF CloseTracked, startVars
  <2>3. QED BY <1>0, <1>7, <2>1, <2>2
<1>9. CASE CloseRecovered
  <2>1. \E pnl : OnPositionClosed(pnl)
    BY <1>9 DEF CloseRecovered, Books
  <2>2. /\ recovered' = recovered - 1 /\ recovered - 1 \in Nat
        /\ UNCHANGED <<own, granted, counted, uncounted, reconciled>>
    BY <1>0, <1>9 DEF CloseRecovered, startVars
  <2>3. QED BY <1>0, <1>7, <2>1, <2>2
<1>10. CASE MidnightReset \/ ApplySurvival \/ ReconcileBalance \/ UNCHANGED budgetVars
  <2>1. UNCHANGED <<openPositions, granted, own, recovered, counted, uncounted, reconciled>>
    BY <1>10 DEF MidnightReset, ResetDaily, ApplySurvival, SetSizeMultiplier, Freeze,
                 Unfreeze, ReconcileBalance, SetEquity, budgetVars, riskVars, bookVars,
                 startVars
  <2>2. QED BY <1>0, <1>1, <1>2, <2>1 DEF Cap
<1>11. QED
  BY <1>3, <1>4, <1>5, <1>6, <1>8, <1>9, <1>10 DEF BudgetNext

\* Booking the profit or loss pnl, with `less` less at risk afterwards, keeps
\* the money within the budget when `less` and the growth of the allowance
\* from u to u2 cover the loss.
LEMMA MoneyKeeps ==
  ASSUME NEW dd \in Nat, dd >= 1, NEW pnl \in Int,
         NEW peak \in Int, NEW eq \in Int, NEW peak2 \in Int,
         NEW risk \in Int, NEW less \in Int, NEW room \in Int,
         NEW u \in Nat, NEW u2 \in Nat,
         peak > 0, peak >= eq,
         (peak - eq) * 100 + 100 * risk < dd * peak + 100 * (room + u),
         peak2 = IF eq + pnl > peak THEN eq + pnl ELSE peak,
         risk - less <= room,
         u2 - u + less >= 0 - pnl
  PROVE  (peak2 - (eq + pnl)) * 100 + 100 * (risk - less) < dd * peak2 + 100 * (room + u2)
<1>1. CASE peak2 = peak
  <2>1. dd * peak2 = dd * peak /\ dd * peak \in Int
    BY <1>1
  <2>2. QED BY <1>1, <2>1
<1>2. CASE peak2 = eq + pnl
  <2>1. peak2 > 0
    OBVIOUS
  <2>2. dd * peak2 > 0 /\ dd * peak2 \in Int
    BY <2>1, TimesPositive
  <2>3. QED BY <1>2, <2>2
<1>3. QED BY <1>1, <1>2

\* Granting needs a drawdown under the limit, so the budget is restored
\* whatever happened before; opening moves a setup from in flight to open; a
\* close turns at most MaxLoss of risk into drawdown, and a recovered
\* position's loss is in `unstopped`.
LEMMA MoneyInvStep ==
  ASSUME BudgetTypeOK, CountInv, CountInv', MoneyInv, [BudgetNext]_budgetVars
  PROVE  MoneyInv'
<1> USE RiskLimitsAssumption, BudgetAssumption
      DEF RiskLimitsAssumption, BudgetAssumption
<1> DEFINE held == own + granted
           room == Cap + uncounted
<1>0. /\ equity \in Int /\ peakEquity \in Int
      /\ held \in Nat /\ room \in Int /\ held <= room
      /\ uncounted \in Nat /\ unstopped \in Nat
      /\ MaxLoss \in Nat /\ MaxDrawdownPct \in Nat /\ MaxDrawdownPct >= 1
  BY DEF BudgetTypeOK, RiskTypeOK, CountInv, Cap
<1>1. /\ MaxLoss * held \in Int
      /\ MaxLoss * room \in Int
      /\ MaxDrawdownPct * peakEquity \in Int
  BY <1>0, TimesMonotone
<1>2. CASE Grant
  <2>1. /\ held' = held + 1 /\ held' <= room' /\ room' = room
        /\ unstopped' = 0
        /\ UNCHANGED <<equity, peakEquity>>
        /\ (peakEquity - equity) * 100 < MaxDrawdownPct * peakEquity
    BY <1>0, <1>1, <1>2
    DEF Grant, CanOpenPosition, DrawdownAtLimit, riskVars, bookVars, startVars,
        MoneyInv, CountInv, BudgetTypeOK, Cap
  <2>2. MaxLoss * held' <= MaxLoss * room' /\ MaxLoss * held' \in Int
    BY <1>0, <2>1, TimesMonotone
  <2>3. QED
    BY <1>0, <1>1, <2>1, <2>2 DEF MoneyInv, AtRisk
<1>3. ASSUME UNCHANGED <<equity, peakEquity, unstopped, writtenDown>>,
             held' \in Int, held' <= held, room' \in Int, room' >= room
      PROVE  MoneyInv'
  <2>1. /\ MaxLoss * held' <= MaxLoss * held /\ MaxLoss * held' \in Int
        /\ MaxLoss * room <= MaxLoss * room' /\ MaxLoss * room' \in Int
    BY <1>0, <1>3, TimesMonotone
  <2>2. QED
    BY <1>0, <1>1, <1>3, <2>1 DEF MoneyInv, AtRisk
<1>4. CASE Drop
  <2>1. /\ UNCHANGED <<equity, peakEquity, own, uncounted, unstopped, writtenDown>>
        /\ granted' = granted - 1
    BY <1>4 DEF Drop, riskVars, bookVars, startVars, historyVars
  <2>2. held' = held - 1 /\ room' = room
    BY <2>1 DEF BudgetTypeOK, Cap
  <2>3. QED BY <1>0, <1>3, <2>1, <2>2
<1>5. CASE OpenGranted
  <2>1. /\ UNCHANGED <<equity, peakEquity, uncounted, unstopped, writtenDown>>
        /\ granted' = granted - 1 /\ own' = own + 1
    BY <1>5 DEF OpenGranted, OnPositionOpened, startVars, historyVars
  <2>2. held' = held /\ room' = room
    BY <2>1 DEF BudgetTypeOK, Cap
  <2>3. QED BY <1>0, <1>3, <2>1, <2>2
<1>6. CASE Recover
  <2>1. own' = 0 /\ granted' = granted /\ UNCHANGED <<equity, peakEquity, unstopped, writtenDown>>
    BY <1>6 DEF Recover, riskVars, historyVars
  <2>2. uncounted = 0
    BY <1>6 DEF Recover, CountInv
  <2>3. PICK u \in Nat : uncounted' = u
    <3>1. recovered' \in Int /\ openPositions \in Int
          /\ uncounted' = Larger(recovered' - openPositions, 0)
      BY <1>6 DEF Recover, BudgetTypeOK, RiskTypeOK
    <3>2. PICK r \in Int : recovered' = r
      BY <3>1
    <3>3. Larger(r - openPositions, 0) \in Nat
      BY <3>1 DEF Larger
    <3>4. QED BY <3>1, <3>2, <3>3
  <2>4. held' = 0 + granted /\ room' = Cap + u
    BY <2>1, <2>3 DEF Cap
  <2>5. granted \in Nat /\ own \in Nat /\ Cap \in Int
    BY DEF BudgetTypeOK, Cap
  <2>6. held' \in Int /\ held' <= held /\ room' \in Int /\ room' >= room
    BY <2>2, <2>4, <2>5
  <2>7. QED BY <1>3, <2>1, <2>6
<1>7. ASSUME NEW pnl \in Int, NEW less \in Nat, OnPositionClosed(pnl),
             UNCHANGED <<writtenDown, uncounted>>,
             held' = held - less, held' \in Int, held' <= room,
             unstopped' \in Nat,
             unstopped' - unstopped + MaxLoss * less >= 0 - pnl
      PROVE  MoneyInv'
  <2>1. /\ equity' = equity + pnl /\ equity' \in Int
        /\ peakEquity' = IF equity + pnl > peakEquity THEN equity + pnl ELSE peakEquity
        /\ peakEquity' \in Int /\ peakEquity' >= equity' /\ peakEquity' > 0
    BY <1>0, <1>7 DEF OnPositionClosed, MoneyInv
  <2>2. /\ MaxLoss * held' = MaxLoss * held - MaxLoss * less
        /\ MaxLoss * less \in Int
    BY <1>0, <1>7
  <2>3. room' = room /\ MaxLoss * held' <= MaxLoss * room /\ MaxLoss * held' \in Int
    BY <1>0, <1>7, TimesMonotone DEF Cap
  <2>4. ASSUME ~writtenDown
        PROVE  (peakEquity' - equity') * 100 + 100 * (MaxLoss * held') <
                 MaxDrawdownPct * peakEquity' + 100 * (MaxLoss * room + unstopped')
    <3> DEFINE risk1 == MaxLoss * held
               cost  == MaxLoss * less
               room1 == MaxLoss * room
    <3>1. /\ (peakEquity - equity) * 100 + 100 * risk1 <
               MaxDrawdownPct * peakEquity + 100 * (room1 + unstopped)
          /\ peakEquity > 0 /\ peakEquity >= equity
      BY <2>4 DEF MoneyInv, AtRisk
    <3>2. MaxLoss * held' = risk1 - cost
      BY <2>2
    <3>3. /\ risk1 \in Int /\ cost \in Int /\ room1 \in Int /\ risk1 - cost <= room1
      BY <1>1, <2>2, <2>3
    <3>4. PICK u2 \in Nat : unstopped' = u2 /\ u2 - unstopped + cost >= 0 - pnl
      BY <1>7
    <3>5. PICK peak2 \in Int :
            /\ peakEquity' = peak2
            /\ peak2 = IF equity + pnl > peakEquity THEN equity + pnl ELSE peakEquity
      BY <2>1
    <3> HIDE DEF risk1, cost, room1
    <3>6. (peak2 - (equity + pnl)) * 100 + 100 * (risk1 - cost) <
             MaxDrawdownPct * peak2 + 100 * (room1 + u2)
      BY <1>0, <3>1, <3>3, <3>4, <3>5, MoneyKeeps
    <3>7. QED BY <2>1, <3>2, <3>4, <3>5, <3>6 DEF room1
  <2>5. QED
    BY <1>7, <2>1, <2>3, <2>4 DEF MoneyInv, AtRisk
<1>8. CASE CloseTracked
  <2>1. PICK pnl \in (0 - MaxLoss)..MaxEquity : OnPositionClosed(pnl)
    BY <1>8 DEF CloseTracked, Books
  <2>2. /\ pnl \in Int /\ MaxLoss >= 0 - pnl
        /\ own' = own - 1 /\ own > 0
        /\ UNCHANGED <<granted, writtenDown, uncounted, unstopped>>
    BY <1>0, <1>8 DEF CloseTracked, startVars, historyVars
  <2>3. /\ held' = held - 1 /\ held' \in Int /\ held' <= room
        /\ MaxLoss * 1 = MaxLoss
    BY <1>0, <2>2 DEF BudgetTypeOK
  <2>4. QED BY <1>0, <1>7, <2>1, <2>2, <2>3
<1>9. CASE CloseRecovered
  <2>1. PICK pnl \in (0 - MaxEquity)..MaxEquity :
          OnPositionClosed(pnl) /\ unstopped' = unstopped + Larger(0 - pnl, 0)
    BY <1>9 DEF CloseRecovered, Books
  <2>2. /\ pnl \in Int /\ unstopped' \in Nat /\ unstopped' - unstopped >= 0 - pnl
        /\ UNCHANGED <<own, granted, writtenDown, uncounted>>
    BY <1>0, <1>9, <2>1 DEF CloseRecovered, startVars, Larger
  <2>3. /\ held' = held - 0 /\ held' \in Int /\ held' <= room
        /\ MaxLoss * 0 = 0
    BY <1>0, <2>2 DEF BudgetTypeOK
  <2>4. QED BY <1>0, <1>7, <2>1, <2>2, <2>3
<1>10. CASE MidnightReset \/ ApplySurvival \/ UNCHANGED budgetVars
  <2>1. UNCHANGED <<equity, peakEquity, own, granted, uncounted, unstopped, writtenDown>>
    BY <1>10 DEF MidnightReset, ResetDaily, ApplySurvival, SetSizeMultiplier, Freeze,
                 Unfreeze, budgetVars, riskVars, bookVars, startVars, historyVars
  <2>2. QED BY <1>0, <1>3, <2>1 DEF Cap
<1>11. CASE ReconcileBalance
  <2>1. PICK e \in 1..MaxEquity : SetEquity(e)
    BY <1>11 DEF ReconcileBalance
  <2>2. /\ e \in Nat /\ e >= 1 /\ equity' = e
        /\ peakEquity' = (IF e > peakEquity THEN e ELSE peakEquity)
        /\ UNCHANGED <<own, granted, uncounted, unstopped>>
    BY <1>0, <1>11, <2>1 DEF ReconcileBalance, SetEquity, bookVars, startVars
  <2>3. writtenDown' \/ (~writtenDown /\ ~(equity' < equity))
    BY <1>11 DEF ReconcileBalance
  <2>4. CASE writtenDown'
    BY <1>0, <2>2, <2>4 DEF MoneyInv
  <2>5. CASE ~writtenDown /\ ~(equity' < equity) /\ e > peakEquity
    <3>1. peakEquity' = e /\ MaxDrawdownPct * e > 0 /\ MaxDrawdownPct * e \in Int
      BY <1>0, <2>2, <2>5, TimesPositive
    <3>2. MaxLoss * held <= MaxLoss * room
      BY <1>0, TimesMonotone
    <3>3. QED
      BY <1>0, <1>1, <2>2, <3>1, <3>2 DEF MoneyInv, AtRisk, Cap
  <2>6. CASE ~writtenDown /\ ~(equity' < equity) /\ ~(e > peakEquity)
    BY <1>0, <1>1, <2>2, <2>6 DEF MoneyInv, AtRisk, Cap
  <2>7. QED
    BY <2>3, <2>4, <2>5, <2>6
<1>12. QED
  BY <1>2, <1>4, <1>5, <1>6, <1>8, <1>9, <1>10, <1>11 DEF BudgetNext

\* Every start, whatever the first recovery finds, meets the strengthening.
LEMMA BudgetInvInit == BudgetInit => BudgetInv
<1> USE RiskLimitsAssumption, BudgetAssumption
      DEF RiskLimitsAssumption, BudgetAssumption
<1> SUFFICES ASSUME BudgetInit PROVE BudgetInv
  OBVIOUS
<1>1. CountInv
  BY DEF BudgetInit, CountInv, Larger, Cap
<1>2. /\ equity = InitialEquity /\ peakEquity = InitialEquity
      /\ own = 0 /\ granted = 0 /\ uncounted = 0 /\ unstopped = 0
  BY DEF BudgetInit
<1>3. MaxDrawdownPct * peakEquity > 0 /\ MaxDrawdownPct * peakEquity \in Int
  BY <1>2
<1>4. /\ MaxLoss * (Cap + uncounted) >= 0
      /\ MaxLoss * (Cap + uncounted) \in Int
      /\ MaxLoss * (own + granted) = 0
  BY <1>2 DEF Cap
<1>5. QED
  BY <1>1, <1>2, <1>3, <1>4 DEF BudgetInv, MoneyInv, AtRisk

\* The strengthening holds in every reachable state.
LEMMA BudgetInvariant == BudgetSpec => []BudgetInv
<1>1. BudgetTypeOK /\ BudgetInv /\ [BudgetNext]_budgetVars => BudgetInv'
  BY CountInvStep, MoneyInvStep DEF BudgetInv
<1>2. QED
  BY <1>1, BudgetInvInit, BudgetTypeInvariant, PTL DEF BudgetSpec

\* What the book holds and the pipeline may add exceeds the cap by at most
\* the setups in flight and what the recoveries found, for every cap, every
\* pipeline depth and every number of positions found at a start.
THEOREM CapOvershootTheorem == BudgetSpec => []CapOvershootBounded
<1>1. BudgetTypeOK /\ BudgetInv => CapOvershootBounded
  <2> SUFFICES ASSUME BudgetTypeOK, BudgetInv PROVE CapOvershootBounded
    OBVIOUS
  <2> DEFINE limit == Larger(counted, Cap)
  <2>1. /\ openPositions \in Nat /\ granted \in Nat /\ own \in Nat /\ recovered \in Nat
        /\ uncounted \in Nat /\ limit \in Int
    BY RiskLimitsAssumption, BudgetAssumption
    DEF BudgetTypeOK, RiskTypeOK, Larger, Cap, RiskLimitsAssumption, BudgetAssumption
  <2>2. openPositions + granted <= limit /\ own + recovered <= openPositions + uncounted
    BY DEF BudgetInv, CountInv
  <2> HIDE DEF limit
  <2>3. own + recovered + granted <= limit + uncounted
    BY <2>1, <2>2
  <2>4. QED BY <2>3 DEF CapOvershootBounded, limit, Cap
<1>2. QED
  BY <1>1, BudgetInvariant, BudgetTypeInvariant, PTL

\* The drawdown budget, for every limit, loss per trade, pipeline depth and
\* recovery.
THEOREM DrawdownBudgetTheorem == BudgetSpec => []DrawdownBudget
<1>1. BudgetTypeOK /\ BudgetInv => DrawdownBudget
  <2> USE RiskLimitsAssumption, BudgetAssumption
        DEF RiskLimitsAssumption, BudgetAssumption
  <2> SUFFICES ASSUME BudgetTypeOK, BudgetInv PROVE DrawdownBudget
    OBVIOUS
  <2>0. /\ MaxLoss \in Nat /\ own \in Nat /\ granted \in Nat
        /\ MaxDrawdownPct \in Nat /\ uncounted \in Nat /\ unstopped \in Nat
        /\ equity \in Int /\ peakEquity \in Int
    BY DEF BudgetTypeOK, RiskTypeOK
  <2>1. AtRisk >= 0 /\ AtRisk \in Int
    BY <2>0 DEF AtRisk
  <2>2. /\ MaxLoss * (MaxOpenPositions + MaxInFlight - 1 + uncounted) \in Int
        /\ MaxDrawdownPct * peakEquity \in Int
    BY <2>0
  <2>3. QED
    BY <2>0, <2>1, <2>2 DEF BudgetInv, MoneyInv, Cap, DrawdownBudget
<1>2. QED
  BY <1>1, BudgetInvariant, BudgetTypeInvariant, PTL

\* An account without equity cannot open: the peak
\* stays positive, so a drawdown of at least 100% stands against the limit.
THEOREM RuinedAccountTheorem == BudgetSpec => []RuinedAccountIsShut
<1> USE RiskLimitsAssumption DEF RiskLimitsAssumption
<1> DEFINE Positive == peakEquity \in Int /\ peakEquity > 0
<1>1. BudgetInit => Positive
  BY DEF BudgetInit
<1>2. BudgetTypeOK /\ Positive /\ [BudgetNext]_budgetVars => Positive'
  <2> SUFFICES ASSUME BudgetTypeOK, Positive, [BudgetNext]_budgetVars
               PROVE  Positive'
    OBVIOUS
  <2>0. equity \in Int
    BY DEF BudgetTypeOK, RiskTypeOK
  <2>1. CASE UNCHANGED peakEquity
    BY <2>1
  <2>2. ASSUME NEW pnl \in Int, OnPositionClosed(pnl) PROVE Positive'
    BY <2>0, <2>2 DEF OnPositionClosed
  <2>3. CASE CloseTracked \/ CloseRecovered
    BY <2>2, <2>3, BudgetAssumption
    DEF CloseTracked, CloseRecovered, Books, BudgetAssumption
  <2>4. CASE ReconcileBalance
    BY <2>0, <2>4 DEF ReconcileBalance, SetEquity
  <2>5. QED
    BY <2>1, <2>3, <2>4
    DEF BudgetNext, Recover, Grant, Drop, OpenGranted, OnPositionOpened,
        MidnightReset, ResetDaily, ApplySurvival, SetSizeMultiplier, Freeze,
        Unfreeze, riskVars, budgetVars
<1>3. BudgetTypeOK /\ Positive => RuinedAccountIsShut
  <2> SUFFICES ASSUME BudgetTypeOK, Positive, equity <= 0
               PROVE  DrawdownAtLimit(peakEquity, equity)
    BY DEF RuinedAccountIsShut, CanOpenPosition
  <2>1. equity \in Int /\ MaxDrawdownPct \in Nat /\ 100 - MaxDrawdownPct \in Nat
    BY DEF BudgetTypeOK, RiskTypeOK
  <2>2. (100 - MaxDrawdownPct) * peakEquity >= 0
    BY <2>1
  <2>3. (100 - MaxDrawdownPct) * peakEquity
          = 100 * peakEquity - MaxDrawdownPct * peakEquity
    BY <2>1
  <2>4. QED
    BY <2>1, <2>2, <2>3 DEF DrawdownAtLimit
<1>4. QED
  BY <1>1, <1>2, <1>3, BudgetTypeInvariant, PTL DEF BudgetSpec

-----------------------------------------------------------------------------
(* Survival and control on the same ledger: types *)

\* What a step of SurvivalControl may do to the ledger: at most one call.
RiskCall ==
  \/ UNCHANGED riskVars
  \/ Freeze \/ Unfreeze \/ OnPositionOpened \/ ResetDaily
  \/ \E m \in {0, 30, 60, 100} : SetSizeMultiplier(m)
  \/ \E pnl \in Int : OnPositionClosed(pnl)
  \/ \E e \in Nat : SetEquity(e)

QueueTypes ==
  survIn \in Seq(SurvMsgs) /\ ctlIn \in Seq(CtlMsgs) /\ unreported \in Seq(Pnls)

\* A close is reported once and a loss counted once, so the counters never
\* exceed the closes there were.
CounterInv ==
  /\ {streak, losses, lossesToday, events} \subseteq Nat
  /\ streak <= losses /\ lossesToday <= losses
  /\ Len(survIn) + Len(unreported) + losses <= events
  /\ events <= MaxEvents

FlagTypes ==
  /\ cooldown \in BOOLEAN /\ flatRecently \in BOOLEAN /\ standing \in BOOLEAN
  /\ news \in {"panic", "calm", "euphoria"}

TaskTypes ==
  /\ pc \in [Tasks -> Steps] /\ view \in [Tasks -> Views]
  /\ verdict \in [Tasks -> Modes] /\ published \in Modes

SurvivalInv == RiskTypeOK /\ QueueTypes /\ CounterInv /\ FlagTypes /\ TaskTypes

LEMMA SurvivalConstants ==
  /\ {StreakShort, StreakLong, DailyLosses, AutoFlatPct, InitialEquity} \subseteq Nat \ {0}
  /\ DeathPct \in 1..99 /\ RatchetPct \in Nat
  /\ McPenalties \subseteq 0..20
  /\ Pnls \subseteq Int /\ Balances \subseteq Nat \ {0} /\ MaxEvents \in Nat
BY SurvivalAssumption, RiskLimitsAssumption DEF SurvivalAssumption, RiskLimitsAssumption

LEMMA TaskStepCases ==
  ASSUME NEW t \in Tasks, TaskStep(t)
  PROVE  Snap(t) \/ Recompute(t) \/ Size(t) \/ Gate(t) \/ Publish(t)
BY DEF TaskStep

\* Next, with the two tasks in one disjunct.
LEMMA NextCases ==
  ASSUME [Next]_vars
  PROVE  \/ \E t \in Tasks : TaskStep(t)
         \/ PositionClosed \/ SurvivalReset \/ SurvivalUnfreeze
         \/ ControlFreeze \/ ControlUnfreeze \/ SendFreeze \/ SendUnfreeze
         \/ Open \/ Close \/ Report \/ Reconcile \/ Midnight \/ News \/ Expire
         \/ UNCHANGED vars
BY DEF Next, EventStep, ControlStep, Tasks

LEMMA MultiplierRange == \A mode : Multiplier(mode) \in {0, 30, 60, 100}
BY DEF Multiplier

LEMMA ModeOfType == \A v, mc : ModeOf(v, mc) \in Modes
<1> SUFFICES ASSUME NEW v, NEW mc PROVE ModeOf(v, mc) \in Modes
  OBVIOUS
<1>1. CASE AtDeathLine(v.equity)
  BY <1>1 DEF ModeOf, Modes
<1>2. CASE ~AtDeathLine(v.equity)
  BY <1>2 DEF ModeOf, Modes
<1>3. QED BY <1>1, <1>2

LEMMA OneRiskCall == [Next]_vars => RiskCall
<1> SUFFICES ASSUME [Next]_vars PROVE RiskCall
  OBVIOUS
<1> USE SurvivalConstants
<1>1. ASSUME NEW t \in Tasks, TaskStep(t) PROVE RiskCall
  BY <1>1, MultiplierRange DEF TaskStep, Snap, Recompute, Size, Gate, Publish, RiskCall
<1>2. CASE PositionClosed \/ SurvivalReset \/ SurvivalUnfreeze
  BY <1>2 DEF PositionClosed, SurvivalReset, SurvivalUnfreeze, RiskCall
<1>3. CASE ControlFreeze \/ ControlUnfreeze \/ SendFreeze \/ SendUnfreeze
  BY <1>3 DEF ControlFreeze, ControlUnfreeze, SendFreeze, SendUnfreeze, RiskCall
<1>4. CASE Open \/ Report \/ Midnight \/ News \/ Expire
  BY <1>4 DEF Open, Report, Midnight, News, Expire, RiskCall
<1>5. CASE Close
  BY <1>5 DEF Close, RiskCall
<1>6. CASE Reconcile
  BY <1>6 DEF Reconcile, RiskCall
<1>7. CASE UNCHANGED vars
  BY <1>7 DEF vars, RiskCall
<1>8. QED BY <1>1, <1>2, <1>3, <1>4, <1>5, <1>6, <1>7, NextCases

LEMMA RiskCallTypes == RiskTypeOK /\ RiskCall => RiskTypeOK'
<1> DEFINE Numbers == /\ equity \in Int /\ peakEquity \in Int /\ openPositions \in Nat
                      /\ realizedPnlToday \in Int /\ sizeMultiplier \in 0..200
           Flags   == {tripped, frozen} \subseteq BOOLEAN
<1>1. RiskTypeOK <=> Numbers /\ Flags
  BY DEF RiskTypeOK
<1>2. Numbers /\ RiskCall => Numbers'
  <2> SUFFICES ASSUME Numbers, RiskCall PROVE Numbers'
    OBVIOUS
  <2>1. CASE UNCHANGED riskVars \/ Freeze \/ Unfreeze \/ OnPositionOpened \/ ResetDaily
    BY <2>1 DEF riskVars, Freeze, Unfreeze, OnPositionOpened, ResetDaily
  <2>2. ASSUME NEW m \in {0, 30, 60, 100}, SetSizeMultiplier(m) PROVE Numbers'
    BY <2>2 DEF SetSizeMultiplier
  <2>3. ASSUME NEW pnl \in Int, OnPositionClosed(pnl) PROVE Numbers'
    BY <2>3 DEF OnPositionClosed
  <2>4. ASSUME NEW e \in Nat, SetEquity(e) PROVE Numbers'
    BY <2>4 DEF SetEquity
  <2>5. QED BY <2>1, <2>2, <2>3, <2>4 DEF RiskCall
<1>3. Flags /\ RiskCall => Flags'
  BY DEF RiskCall, riskVars, Freeze, Unfreeze, OnPositionOpened, ResetDaily,
         SetSizeMultiplier, OnPositionClosed, SetEquity
<1>4. RiskTypeOK' <=> Numbers' /\ Flags'
  BY DEF RiskTypeOK
<1>5. QED BY <1>1, <1>2, <1>3, <1>4

LEMMA SurvMsgFacts ==
  /\ [kind |-> "reset"] \in SurvMsgs /\ [kind |-> "unfreeze"] \in SurvMsgs
  /\ \A p \in Pnls : [kind |-> "closed", pnl |-> p] \in SurvMsgs
  /\ [kind |-> "freeze"] \in CtlMsgs /\ [kind |-> "unfreeze"] \in CtlMsgs
BY DEF SurvMsgs, CtlMsgs

LEMMA AppendTyped ==
  ASSUME NEW S, NEW s \in Seq(S), NEW x \in S
  PROVE  Append(s, x) \in Seq(S) /\ Len(Append(s, x)) = Len(s) + 1 /\ Len(s) \in Nat
OBVIOUS

LEMMA TailTyped ==
  ASSUME NEW S, NEW s \in Seq(S), s # <<>>
  PROVE  /\ Tail(s) \in Seq(S) /\ Len(Tail(s)) = Len(s) - 1 /\ Len(s) \in Nat
         /\ Head(s) \in S
BY HeadTailProperties

\* How the inboxes move: a task or the environment leaves them alone, appends
\* one message or takes one.
LEMMA QueueStep ==
  ASSUME QueueTypes, [Next]_vars
  PROVE  QueueTypes'
<1> USE DEF QueueTypes
<1>1. CASE UNCHANGED queueVars
  BY <1>1 DEF queueVars
<1>2. ASSUME NEW t \in Tasks, TaskStep(t) PROVE QueueTypes'
  BY <1>1, <1>2 DEF TaskStep, Snap, Recompute, Size, Gate, Publish
<1>3. CASE PositionClosed \/ SurvivalReset \/ SurvivalUnfreeze
  <2>1. survIn # <<>> /\ survIn' = Tail(survIn) /\ UNCHANGED <<ctlIn, unreported>>
    BY <1>3 DEF PositionClosed, SurvivalReset, SurvivalUnfreeze, Receives
  <2>2. QED BY <2>1, TailTyped
<1>4. CASE ControlFreeze \/ ControlUnfreeze
  <2>1. ctlIn # <<>> /\ ctlIn' = Tail(ctlIn) /\ UNCHANGED <<survIn, unreported>>
    BY <1>4 DEF ControlFreeze, ControlUnfreeze
  <2>2. QED BY <2>1, TailTyped
<1>5. CASE SendFreeze
  BY <1>5, SurvMsgFacts, AppendTyped DEF SendFreeze
<1>6. CASE SendUnfreeze
  BY <1>6, SurvMsgFacts, AppendTyped DEF SendUnfreeze
<1>7. CASE Close
  <2>1. \E pnl \in Pnls : unreported' = <<pnl>>
    BY <1>7 DEF Close
  <2>2. QED BY <1>7, <2>1 DEF Close
<1>8. CASE Report
  <2>1. Head(unreported) \in Pnls /\ Tail(unreported) \in Seq(Pnls)
    BY <1>8, TailTyped DEF Report
  <2>2. QED BY <1>8, <2>1, SurvMsgFacts, AppendTyped DEF Report
<1>9. CASE Midnight
  BY <1>9, SurvMsgFacts, AppendTyped DEF Midnight
<1>10. CASE Open \/ Reconcile \/ News \/ Expire \/ UNCHANGED vars
  BY <1>1, <1>10 DEF Open, Reconcile, News, Expire, vars
<1>11. QED
  BY <1>2, <1>3, <1>4, <1>5, <1>6, <1>7, <1>8, <1>9, <1>10, NextCases

\* A step that adds as many events as messages, and moves a loss from the
\* inbox to the counters at most once, keeps the counters in bounds.
LEMMA CounterKeeps ==
  ASSUME CounterInv, Len(survIn) \in Nat, Len(unreported) \in Nat,
         NEW s \in Nat, NEW u \in Nat, NEW l \in Nat, NEW e \in Nat,
         Len(survIn') = s, Len(unreported') = u, losses' = l, events' = e,
         s + u + l <= Len(survIn) + Len(unreported) + losses + (e - events),
         e <= MaxEvents, l >= losses,
         streak' \in Nat, streak' <= streak + (l - losses),
         lossesToday' \in Nat, lossesToday' <= lossesToday + (l - losses)
  PROVE  CounterInv'
<1> USE SurvivalConstants
<1>1. PICK st, lt \in Nat : streak' = st /\ lossesToday' = lt
  OBVIOUS
<1>2. /\ streak \in Nat /\ losses \in Nat /\ lossesToday \in Nat /\ events \in Nat
      /\ streak <= losses /\ lossesToday <= losses /\ events <= MaxEvents
      /\ Len(survIn) + Len(unreported) + losses <= events
  BY DEF CounterInv
<1>3. st <= l /\ lt <= l /\ s + u + l <= e
  BY <1>1, <1>2
<1>4. QED BY <1>1, <1>3 DEF CounterInv

LEMMA CounterStep ==
  ASSUME QueueTypes, CounterInv, [Next]_vars
  PROVE  CounterInv'
<1> USE SurvivalConstants
<1>0. /\ Len(survIn) \in Nat /\ Len(unreported) \in Nat
      /\ streak \in Nat /\ losses \in Nat /\ lossesToday \in Nat /\ events \in Nat
      /\ events <= MaxEvents
  BY DEF QueueTypes, CounterInv
<1>1. CASE UNCHANGED <<survIn, unreported, streak, losses, lossesToday, events>>
  BY <1>1 DEF CounterInv
<1>2. ASSUME NEW t \in Tasks, TaskStep(t) PROVE CounterInv'
  BY <1>1, <1>2 DEF TaskStep, Snap, Recompute, Size, Gate, Publish, queueVars, innerVars
<1>3. CASE PositionClosed
  <2>1. Len(survIn') = Len(survIn) - 1 /\ Len(survIn') \in Nat
    BY <1>3, TailTyped DEF PositionClosed, Receives, QueueTypes
  <2>2. CASE CountLoss
    <3>1. /\ losses' = losses + 1 /\ streak' = streak + 1
          /\ \E today \in {0, lossesToday} : lossesToday' = today + 1
          /\ UNCHANGED <<unreported, events>>
      BY <1>3, <2>2 DEF PositionClosed, CountLoss, SinceMidnight
    <3>a. /\ Len(survIn') \in Nat /\ Len(unreported') \in Nat
          /\ losses' \in Nat /\ events' \in Nat
      BY <1>0, <2>1, <3>1
    <3>2. PICK s, u, l, e \in Nat :
            Len(survIn') = s /\ Len(unreported') = u /\ losses' = l /\ events' = e
      BY <3>a
    <3>3. /\ s = Len(survIn) - 1 /\ u = Len(unreported) /\ l = losses + 1 /\ e = events
      BY <2>1, <3>1, <3>2
    <3>4. /\ s + u + l <= Len(survIn) + Len(unreported) + losses + (e - events)
          /\ l >= losses /\ l - losses = 1 /\ e <= MaxEvents
      BY <1>0, <3>3
    <3>5. /\ streak' \in Nat /\ streak' <= streak + (l - losses)
          /\ lossesToday' \in Nat /\ lossesToday' <= lossesToday + (l - losses)
      BY <1>0, <3>1, <3>4
    <3>6. QED BY <1>0, <3>2, <3>4, <3>5, CounterKeeps
  <2>3. CASE CountWin
    <3>1. /\ streak' = 0 /\ losses' = losses /\ lossesToday' \in {0, lossesToday}
          /\ UNCHANGED <<unreported, events>>
      BY <1>3, <2>3 DEF PositionClosed, CountWin, SinceMidnight
    <3>2. PICK s \in Nat : Len(survIn') = s /\ s = Len(survIn) - 1
      BY <2>1
    <3>3. PICK t, d \in Nat :
            streak' = t /\ lossesToday' = d /\ t <= streak /\ d <= lossesToday
      BY <1>0, <3>1
    <3>4. Len(unreported') = Len(unreported) /\ losses' = losses /\ events' = events
      BY <3>1
    <3>5. PICK q, u \in Nat : q = Len(survIn) /\ u = Len(unreported)
      BY <1>0
    <3>6. /\ s + u + losses <= q + u + losses + (events - events)
          /\ t <= streak + (losses - losses) /\ d <= lossesToday + (losses - losses)
      BY <1>0, <3>2, <3>3, <3>5
    <3>7. QED BY <1>0, <3>2, <3>3, <3>4, <3>5, <3>6, CounterKeeps
  <2>4. QED BY <1>3, <2>2, <2>3 DEF PositionClosed
<1>4. CASE SurvivalReset \/ SurvivalUnfreeze
  <2>1. Len(survIn') = Len(survIn) - 1 /\ Len(survIn') \in Nat
    BY <1>4, TailTyped DEF SurvivalReset, SurvivalUnfreeze, Receives, QueueTypes
  <2>2. /\ UNCHANGED <<unreported, streak, losses, events>>
        /\ lossesToday' = lossesToday \/ lossesToday' = 0
    BY <1>4 DEF SurvivalReset, SurvivalUnfreeze
  <2>3. PICK s \in Nat : Len(survIn') = s /\ s = Len(survIn) - 1
    BY <2>1
  <2>4. PICK l \in Nat : lossesToday' = l /\ l <= lossesToday
    <3>1. CASE lossesToday' = lossesToday
      BY <1>0, <3>1
    <3>2. CASE lossesToday' = 0
      BY <1>0, <3>2
    <3>3. QED BY <2>2, <3>1, <3>2
  <2>5. l <= lossesToday + (losses - losses)
    BY <1>0, <2>4
  <2>6. /\ Len(unreported') = Len(unreported)
        /\ streak' \in Nat /\ losses' = losses /\ events' = events
        /\ lossesToday' \in Nat /\ lossesToday' <= lossesToday + (losses - losses)
    BY <1>0, <2>2, <2>4, <2>5
  <2>7. s + Len(unreported) + losses <=
          Len(survIn) + Len(unreported) + losses + (events - events)
    BY <1>0, <2>3
  <2>8. streak' <= streak + (losses - losses) /\ losses >= losses
    BY <1>0, <2>2
  <2>9. QED BY <1>0, <2>3, <2>6, <2>7, <2>8, CounterKeeps
<1>5. CASE ControlFreeze \/ ControlUnfreeze
  BY <1>1, <1>5 DEF ControlFreeze, ControlUnfreeze, innerVars
<1>6. CASE SendFreeze \/ SendUnfreeze \/ Midnight
  <2>1. /\ Len(survIn') \in Nat /\ Len(survIn') <= Len(survIn) + 1
        /\ events' = events + 1 /\ events < MaxEvents
        /\ UNCHANGED <<unreported, streak, losses, lossesToday>>
    BY <1>0, <1>6, SurvMsgFacts, AppendTyped
       DEF SendFreeze, SendUnfreeze, Midnight, innerVars, QueueTypes
  <2>a. /\ Len(survIn') \in Nat /\ Len(unreported') \in Nat
        /\ losses' \in Nat /\ events' \in Nat
    BY <1>0, <2>1
  <2>2. PICK s, u, l, e \in Nat :
          Len(survIn') = s /\ Len(unreported') = u /\ losses' = l /\ events' = e
    BY <2>a
  <2>3. /\ s <= Len(survIn) + 1 /\ u = Len(unreported) /\ l = losses /\ e = events + 1
        /\ streak' = streak /\ lossesToday' = lossesToday /\ events < MaxEvents
    BY <2>1, <2>2
  <2>4. /\ s + u + l <= Len(survIn) + Len(unreported) + losses + (e - events)
        /\ l >= losses /\ l - losses = 0 /\ e <= MaxEvents
    BY <1>0, <2>3
  <2>5. /\ streak' \in Nat /\ streak' <= streak + (l - losses)
        /\ lossesToday' \in Nat /\ lossesToday' <= lossesToday + (l - losses)
    BY <1>0, <2>3, <2>4
  <2>6. QED BY <1>0, <2>2, <2>4, <2>5, CounterKeeps
<1>7. CASE Close
  <2>1. /\ Len(unreported) = 0 /\ Len(unreported') = 1
        /\ events' = events + 1 /\ events < MaxEvents
        /\ UNCHANGED <<survIn, streak, losses, lossesToday>>
    BY <1>7 DEF Close, innerVars
  <2>2. PICK e \in Nat : events' = e /\ e = events + 1
    BY <1>0, <2>1
  <2>3. /\ Len(survIn') = Len(survIn)
        /\ Len(survIn) + 1 + losses <=
             Len(survIn) + Len(unreported) + losses + (e - events)
        /\ e <= MaxEvents /\ losses >= losses
        /\ streak' <= streak + (losses - losses)
        /\ lossesToday' <= lossesToday + (losses - losses)
    BY <1>0, <2>1, <2>2
  <2>4. QED BY <1>0, <2>1, <2>2, <2>3, CounterKeeps
<1>8. CASE Report
  <2>1. /\ Len(survIn') = Len(survIn) + 1 /\ Len(unreported') = Len(unreported) - 1
        /\ Len(unreported') \in Nat
        /\ UNCHANGED <<streak, losses, lossesToday, events>>
    BY <1>8, SurvMsgFacts, TailTyped, AppendTyped DEF Report, innerVars, QueueTypes
  <2>a. /\ Len(survIn') \in Nat /\ Len(unreported') \in Nat
        /\ losses' \in Nat /\ events' \in Nat
    BY <1>0, <2>1
  <2>2. PICK s, u, l, e \in Nat :
          Len(survIn') = s /\ Len(unreported') = u /\ losses' = l /\ events' = e
    BY <2>a
  <2>3. /\ s = Len(survIn) + 1 /\ u = Len(unreported) - 1 /\ l = losses /\ e = events
        /\ streak' = streak /\ lossesToday' = lossesToday
    BY <2>1, <2>2
  <2>4. /\ s + u + l <= Len(survIn) + Len(unreported) + losses + (e - events)
        /\ l >= losses /\ l - losses = 0 /\ e <= MaxEvents
    BY <1>0, <2>3
  <2>5. /\ streak' \in Nat /\ streak' <= streak + (l - losses)
        /\ lossesToday' \in Nat /\ lossesToday' <= lossesToday + (l - losses)
    BY <1>0, <2>3, <2>4
  <2>6. QED BY <1>0, <2>2, <2>4, <2>5, CounterKeeps
<1>9. CASE Reconcile \/ News
  <2>1. /\ events' = events + 1 /\ events < MaxEvents
        /\ UNCHANGED <<survIn, unreported, streak, losses, lossesToday>>
    BY <1>9 DEF Reconcile, News, innerVars, queueVars
  <2>2. PICK e \in Nat : events' = e /\ e = events + 1
    BY <1>0, <2>1
  <2>3. /\ Len(survIn') = Len(survIn) /\ Len(unreported') = Len(unreported)
        /\ Len(survIn) + Len(unreported) + losses <=
             Len(survIn) + Len(unreported) + losses + (e - events)
        /\ e <= MaxEvents /\ losses >= losses
        /\ streak' <= streak + (losses - losses)
        /\ lossesToday' <= lossesToday + (losses - losses)
    BY <1>0, <2>1, <2>2
  <2>4. QED BY <1>0, <2>1, <2>2, <2>3, CounterKeeps
<1>10. CASE Open \/ Expire \/ UNCHANGED vars
  BY <1>1, <1>10 DEF Open, Expire, vars, innerVars, queueVars
<1>11. QED
  BY <1>2, <1>3, <1>4, <1>5, <1>6, <1>7, <1>8, <1>9, <1>10, NextCases

LEMMA FlagStep == FlagTypes /\ [Next]_vars => FlagTypes'
<1> SUFFICES ASSUME FlagTypes, [Next]_vars PROVE FlagTypes'
  OBVIOUS
<1> USE DEF FlagTypes
<1>1. CASE UNCHANGED <<cooldown, flatRecently, news>> /\ standing' \in BOOLEAN
  BY <1>1
<1>2. ASSUME NEW t \in Tasks, TaskStep(t) PROVE FlagTypes'
  <2>1. flatRecently' \in BOOLEAN /\ UNCHANGED <<cooldown, news>>
    BY <1>2 DEF TaskStep, Snap, Recompute, Size, Gate, Publish, innerVars
  <2>2. standing' \in BOOLEAN
    BY <1>2 DEF TaskStep, Snap, Recompute, Size, Gate, Publish
  <2>3. QED BY <2>1, <2>2
<1>3. CASE PositionClosed
  <2>1. cooldown' \in BOOLEAN /\ UNCHANGED <<flatRecently, news, standing>>
    BY <1>3 DEF PositionClosed, CountLoss, CountWin
  <2>2. QED BY <2>1
<1>4. CASE SurvivalReset \/ SurvivalUnfreeze \/ Expire
  BY <1>4 DEF SurvivalReset, SurvivalUnfreeze, Expire
<1>5. CASE News
  BY <1>5 DEF News
<1>6. CASE ControlFreeze \/ ControlUnfreeze \/ SendFreeze \/ SendUnfreeze
  BY <1>1, <1>6 DEF ControlFreeze, ControlUnfreeze, SendFreeze, SendUnfreeze, innerVars
<1>7. CASE Open \/ Close \/ Report \/ Reconcile \/ Midnight \/ UNCHANGED vars
  BY <1>1, <1>7 DEF Open, Close, Report, Reconcile, Midnight, vars, innerVars
<1>8. QED BY <1>2, <1>3, <1>4, <1>5, <1>6, <1>7, NextCases

LEMMA TaskTypesStep == RiskTypeOK /\ TaskTypes /\ [Next]_vars => TaskTypes'
<1> SUFFICES ASSUME RiskTypeOK, TaskTypes, [Next]_vars PROVE TaskTypes'
  OBVIOUS
<1> USE DEF TaskTypes
<1>1. CASE UNCHANGED taskVars
  BY <1>1 DEF taskVars
<1>2. \A t \in Tasks, step \in Steps : Goto(t, step) => pc' \in [Tasks -> Steps]
  BY DEF Goto
<1>3. ASSUME NEW t \in Tasks, TaskStep(t) PROVE TaskTypes'
  <2>1. pc' \in [Tasks -> Steps]
    BY <1>2, <1>3 DEF TaskStep, Snap, Recompute, Size, Gate, Publish, Steps
  <2>2. Snapshot \in Views /\ NoView \in Views
    BY DEF RiskTypeOK, Snapshot, NoView, Views
  <2>3. view' \in [Tasks -> Views]
    BY <1>3, <2>2 DEF TaskStep, Snap, Recompute, Size, Gate, Publish
  <2>4. "Healthy" \in Modes
    BY DEF Modes
  <2>5. verdict' \in [Tasks -> Modes] /\ published' \in Modes
    BY <1>3, <2>4, ModeOfType DEF TaskStep, Snap, Recompute, Size, Gate, Publish
  <2>6. QED BY <2>1, <2>3, <2>5
<1>4. CASE PositionClosed
  <2>1. Goto("event", "closed") /\ UNCHANGED <<view, verdict, published>>
    BY <1>4 DEF PositionClosed
  <2>2. QED BY <1>2, <2>1 DEF Tasks, Steps
<1>5. CASE SurvivalReset \/ SurvivalUnfreeze
  BY <1>1, <1>5 DEF SurvivalReset, SurvivalUnfreeze
<1>6. CASE ControlFreeze \/ ControlUnfreeze \/ SendFreeze \/ SendUnfreeze
  BY <1>1, <1>6 DEF ControlFreeze, ControlUnfreeze, SendFreeze, SendUnfreeze
<1>7. CASE Open \/ Close \/ Report \/ Reconcile \/ Midnight \/ News \/ Expire \/ UNCHANGED vars
  BY <1>1, <1>7 DEF Open, Close, Report, Reconcile, Midnight, News, Expire, vars
<1>8. QED BY <1>3, <1>4, <1>5, <1>6, <1>7, NextCases

LEMMA SurvivalInit == Init => SurvivalInv
<1> SUFFICES ASSUME Init PROVE SurvivalInv
  OBVIOUS
<1> USE SurvivalConstants
<1>1. RiskTypeOK
  <2>1. InitialEquity \in Int /\ 100 \in 0..200
    OBVIOUS
  <2>2. /\ equity = InitialEquity /\ peakEquity = InitialEquity /\ openPositions = 0
        /\ realizedPnlToday = 0 /\ ~tripped /\ tripped \in BOOLEAN
        /\ ~frozen /\ frozen \in BOOLEAN /\ sizeMultiplier = 100
    BY DEF Init, RiskInit
  <2>3. QED BY <2>1, <2>2 DEF RiskTypeOK
<1>2. QueueTypes
  BY DEF Init, QueueTypes
<1>3. Len(<<>>) = 0
  OBVIOUS
<1>4. CounterInv
  BY <1>3 DEF Init, CounterInv
<1>5. FlagTypes
  BY DEF Init, FlagTypes
<1>6. TaskTypes
  BY DEF Init, TaskTypes, Tasks, Steps, Modes, NoView, Views
<1>7. QED BY <1>1, <1>2, <1>4, <1>5, <1>6 DEF SurvivalInv

LEMMA SurvivalStep == SurvivalInv /\ [Next]_vars => SurvivalInv'
BY OneRiskCall, RiskCallTypes, QueueStep, CounterStep, FlagStep, TaskTypesStep DEF SurvivalInv

LEMMA SurvivalInvariant == Spec => []SurvivalInv
BY SurvivalInit, SurvivalStep, PTL DEF Spec

\* No close is reported twice and no loss counted twice in a counter, so none
\* exceeds the number of closes, through any races of the two survival tasks,
\* resets and commands.
THEOREM SurvivalTypeTheorem == Spec => []TypeOK
<1>1. SurvivalInv => TypeOK
  <2> SUFFICES ASSUME SurvivalInv PROVE TypeOK
    OBVIOUS
  <2>1. /\ Len(survIn) \in Nat /\ Len(unreported) \in Nat
        /\ {streak, losses, lossesToday, events} \subseteq Nat
        /\ streak <= losses /\ lossesToday <= losses /\ events <= MaxEvents
        /\ Len(survIn) + Len(unreported) + losses <= events
    BY DEF SurvivalInv, QueueTypes, CounterInv
  <2>2. {streak, losses, lossesToday} \subseteq 0..MaxEvents /\ events \in 0..MaxEvents
    BY <2>1, SurvivalConstants
  <2>3. {cooldown, flatRecently} \subseteq BOOLEAN
    BY DEF SurvivalInv, FlagTypes
  <2>4. standing \in BOOLEAN
    BY DEF SurvivalInv, FlagTypes
  <2>5. QED BY <2>2, <2>3, <2>4 DEF SurvivalInv, QueueTypes, FlagTypes, TaskTypes, TypeOK
<1>2. QED BY <1>1, SurvivalInvariant, PTL

-----------------------------------------------------------------------------
(* What a verdict of the survival agent promises *)

\* The size a verdict will set, next to the snapshot and counters it is
\* computed from (survival.rs:305-448).  The score is a sum of penalties, each
\* with a cap and a threshold of its own, in which one part could make up for
\* another; it does not.  Entries are only sized for a living account out of
\* cooldown.  A drawdown that asks for a flat-all never leaves more than the
\* defensive 30 %.  Full size needs a drawdown below 35 % of the one that
\* flattens, a loss today below 3.5 % of the equity, a streak of three at most,
\* no panic, and an equity 5 points above the death line.
VerdictFits(t) ==
  LET v == view[t]
      m == Multiplier(verdict'[t])
  IN /\ m > 0 => ~cooldown /\ ~AtDeathLine(v.equity)
     /\ WantsFlat(t) => m <= 30
     /\ m = 100 =>
          /\ streak <= 3 /\ news # "panic"
          /\ v.equity * 100 >= InitialEquity * (DeathPct + 5)
          /\ v.peak > 0 => (v.peak - v.equity) * 2000 < 7 * (v.peak * AutoFlatPct)
          /\ v.today < 0 => (0 - v.today) * 200 < 7 * v.equity

SizeIsEarned == [][\A t \in Tasks : Recompute(t) => VerdictFits(t)]_vars

\* Division and multiplication by a positive number.
LEMMA QuotientBounds ==
  ASSUME NEW n \in Int, NEW d \in Int, d > 0, NEW k \in Int
  PROVE  /\ n \div d \in Int
         /\ n >= k * d => n \div d >= k
         /\ n < k * d => n \div d < k
<1>1. /\ n \div d \in Int /\ n % d \in 0..(d - 1)
      /\ n = d * (n \div d) + (n % d)
  OBVIOUS
<1> DEFINE q == n \div d
           r == n % d
<1>2. q \in Int /\ r \in Int /\ 0 <= r /\ r < d /\ n = d * q + r
  BY <1>1
<1> HIDE DEF q, r
<1>3. ASSUME n >= k * d, q < k PROVE FALSE
  <2>1. k - q \in Int /\ k - q >= 1
    BY <1>2, <1>3
  <2>2. d * (k - q) >= d
    BY <2>1
  <2>3. d * (k - q) = k * d - d * q
    BY <1>2
  <2>4. QED BY <1>2, <1>3, <2>2, <2>3
<1>4. ASSUME n < k * d, q >= k PROVE FALSE
  <2>1. q - k \in Int /\ q - k >= 0
    BY <1>2, <1>4
  <2>2. d * (q - k) >= 0
    BY <2>1
  <2>3. d * (q - k) = d * q - k * d
    BY <1>2
  <2>4. QED BY <1>2, <1>4, <2>2, <2>3
<1>5. QED BY <1>2, <1>3, <1>4 DEF q

LEMMA DrawdownFacts ==
  ASSUME NEW v \in Views
  PROVE  LET p == DrawdownPenalty(v)
         IN /\ p \in Int /\ 0 <= p /\ p <= 60
            /\ v.peak > 0 /\ (v.peak - v.equity) * 100 >= AutoFlatPct * v.peak => p = 60
            /\ v.peak > 0 /\ p <= 20 =>
                 (v.peak - v.equity) * 2000 < 7 * (v.peak * AutoFlatPct)
<1> DEFINE dd == v.peak - v.equity
           d  == v.peak * AutoFlatPct
           q  == (dd * 6000) \div d
<1>0. /\ v.peak \in Int /\ v.equity \in Int /\ AutoFlatPct \in Int /\ AutoFlatPct > 0
      /\ dd \in Int /\ d \in Int
  BY SurvivalConstants DEF Views
<1>p. v.peak > 0 => d > 0
  <2>1. ASSUME v.peak > 0 PROVE v.peak * AutoFlatPct > 0
    BY <1>0, <2>1
  <2>2. QED BY <2>1
<1>1. CASE ~(v.peak > v.equity /\ v.peak > 0)
  <2>1. DrawdownPenalty(v) = 0
    BY <1>1 DEF DrawdownPenalty
  <2>2. v.peak > 0 => dd <= 0
    BY <1>0, <1>1
  <2>3. v.peak > 0 => dd * 100 < AutoFlatPct * v.peak /\ dd * 2000 < 7 * d
    <3>1. AutoFlatPct * v.peak = d
      BY <1>0
    <3> HIDE DEF dd, d
    <3>2. QED BY <1>0, <1>p, <2>2, <3>1
  <2>4. QED BY <1>0, <2>1, <2>3
<1>2. CASE v.peak > v.equity /\ v.peak > 0
  <2>1. DrawdownPenalty(v) = AtMost(q, 60)
    BY <1>2 DEF DrawdownPenalty
  <2>2. dd > 0 /\ d > 0
    BY <1>0, <1>2, <1>p
  <2>3. AutoFlatPct * v.peak = d
    BY <1>0
  <2> HIDE DEF dd, d
  <2>4. /\ q \in Int
        /\ dd * 6000 >= 60 * d => q >= 60
        /\ dd * 6000 >= 21 * d => q >= 21
        /\ dd * 6000 >= 0 * d => q >= 0
    BY <1>0, <2>2, QuotientBounds
  <2> HIDE DEF q
  <2>5. /\ q \in Int /\ q >= 0
        /\ dd * 100 >= d => q >= 60
        /\ dd * 2000 >= 7 * d => q >= 21
    BY <1>0, <2>2, <2>4
  <2>6. /\ AtMost(q, 60) \in Int /\ 0 <= AtMost(q, 60) /\ AtMost(q, 60) <= 60
        /\ q >= 60 => AtMost(q, 60) = 60
        /\ AtMost(q, 60) <= 20 => q <= 20
    BY <2>5 DEF AtMost
  <2>7. ~(dd * 2000 >= 7 * d) => dd * 2000 < 7 * d
    BY <1>0
  <2>8. DrawdownPenalty(v) <= 20 => dd * 2000 < 7 * d
    BY <2>1, <2>5, <2>6, <2>7
  <2>9. dd * 100 >= AutoFlatPct * v.peak => DrawdownPenalty(v) = 60
    BY <2>1, <2>3, <2>5, <2>6
  <2>10. QED BY <2>1, <2>6, <2>8, <2>9 DEF dd, d
<1>3. QED BY <1>1, <1>2

LEMMA DailyLossFacts ==
  ASSUME NEW v \in Views
  PROVE  LET p == DailyLossPenalty(v)
         IN /\ p \in Int /\ 0 <= p /\ p <= 40
            /\ v.equity > 0 /\ v.today < 0 /\ p <= 20 => (0 - v.today) * 200 < 7 * v.equity
<1> DEFINE n == 0 - v.today
           e == v.equity
           q == (n * 600) \div e
<1>0. e \in Int /\ v.today \in Int /\ n \in Int
  BY DEF Views
<1>1. CASE ~(v.equity > 0 /\ v.today < 0)
  BY <1>1 DEF DailyLossPenalty
<1>2. CASE v.equity > 0 /\ v.today < 0
  <2>1. DailyLossPenalty(v) = AtMost(q, 40)
    BY <1>2 DEF DailyLossPenalty
  <2>2. n > 0 /\ e > 0
    BY <1>0, <1>2
  <2> HIDE DEF n, e
  <2>3. q \in Int /\ (n * 600 >= 21 * e => q >= 21) /\ (n * 600 >= 0 * e => q >= 0)
    BY <1>0, <2>2, QuotientBounds
  <2> HIDE DEF q
  <2>4. q \in Int /\ q >= 0 /\ (q <= 20 => n * 200 < 7 * e)
    BY <1>0, <2>2, <2>3
  <2>5. /\ AtMost(q, 40) \in Int /\ 0 <= AtMost(q, 40) /\ AtMost(q, 40) <= 40
        /\ AtMost(q, 40) <= 20 => q <= 20
    BY <2>4 DEF AtMost
  <2>6. QED BY <2>1, <2>4, <2>5 DEF n, e
<1>3. QED BY <1>1, <1>2

LEMMA SmallPenalties ==
  ASSUME CounterInv
  PROVE  /\ StreakPenalty \in Int /\ 0 <= StreakPenalty
         /\ StreakPenalty <= 20 => streak <= 3
         /\ NewsPenalty \in Int /\ 0 <= NewsPenalty
         /\ NewsPenalty <= 20 => news # "panic"
<1>1. streak \in Nat
  BY DEF CounterInv
<1>2. QED BY <1>1 DEF StreakPenalty, NewsPenalty, AtMost

LEMMA FloorFacts ==
  ASSUME NEW eq \in Int
  PROVE  /\ FloorPenalty(eq) \in Int /\ 0 <= FloorPenalty(eq)
         /\ FloorPenalty(eq) <= 20 =>
              eq > 0 /\ eq * 100 >= InitialEquity * (DeathPct + 5)
<1>0. InitialEquity \in Int /\ InitialEquity > 0 /\ DeathPct \in Int
  BY SurvivalConstants
<1>1. /\ InitialEquity * DeathPct \in Int
      /\ InitialEquity * (DeathPct + 5) = InitialEquity * DeathPct + 5 * InitialEquity
  BY <1>0
<1> DEFINE line == InitialEquity * DeathPct
<1> HIDE DEF line
<1>2. line \in Int
  BY <1>1 DEF line
<1>3. /\ FloorPenalty(eq) \in {30, 15, 0}
      /\ FloorPenalty(eq) # 30 => eq > 0 /\ AtLeast(eq * 100 - line, 0) >= 5 * InitialEquity
  BY <1>0, <1>2 DEF FloorPenalty, AtLeast, line
<1>4. AtLeast(eq * 100 - line, 0) >= 5 * InitialEquity => eq * 100 >= line + 5 * InitialEquity
  BY <1>0, <1>2 DEF AtLeast
<1>5. QED BY <1>1, <1>3, <1>4 DEF line

\* One survival check's score, bounded part by part: no penalty exceeds what
\* the score leaves, since the cooldown's cap only lowers it.
LEMMA ScoreParts ==
  ASSUME CounterInv, FlagTypes, NEW v \in Views, NEW mc \in McPenalties,
         ~AtDeathLine(v.equity)
  PROVE  LET s == Score(v, mc)
         IN /\ s \in Int
            /\ \A n \in Nat \ {0} : s >= n =>
                 DrawdownPenalty(v) + DailyLossPenalty(v) + StreakPenalty
                   + NewsPenalty + FloorPenalty(v.equity) <= 100 - n
<1>1. mc \in Int /\ mc >= 0
  BY SurvivalConstants
<1>2. PICK a, b, c, d, f \in Int :
        /\ a = DrawdownPenalty(v) /\ b = DailyLossPenalty(v) /\ c = StreakPenalty
        /\ d = NewsPenalty /\ f = FloorPenalty(v.equity)
  <2>1. v.equity \in Int
    BY DEF Views
  <2>2. /\ DrawdownPenalty(v) \in Int /\ DailyLossPenalty(v) \in Int /\ StreakPenalty \in Int
        /\ NewsPenalty \in Int /\ FloorPenalty(v.equity) \in Int
    BY <2>1, DrawdownFacts, DailyLossFacts, SmallPenalties, FloorFacts
  <2>3. QED BY <2>2
<1> DEFINE base == 100 - a - b - c
           held == IF cooldown THEN AtMost(base, 20) ELSE base
<1>3. Score(v, mc) = AtMost(AtLeast(held - d - f - mc, 0), 100)
  BY <1>2 DEF Score
<1>4. base \in Int /\ held \in Int /\ held <= base
  BY <1>2 DEF AtMost
<1> HIDE DEF base, held
<1>5. /\ Score(v, mc) \in Int
      /\ \A n \in Nat \ {0} : Score(v, mc) >= n => held - d - f - mc >= n
  BY <1>1, <1>2, <1>3, <1>4 DEF AtMost, AtLeast
<1>6. \A n \in Nat \ {0} : Score(v, mc) >= n => a + b + c + d + f <= 100 - n
  BY <1>1, <1>2, <1>4, <1>5 DEF base
<1>7. QED BY <1>2, <1>5, <1>6

\* Each penalty counts on its own: full size needs every one at most 20, and
\* more than the defensive size a sum of at most 50.
LEMMA VerdictParts ==
  ASSUME CounterInv, FlagTypes, NEW v \in Views, NEW mc \in McPenalties
  PROVE  LET m == Multiplier(ModeOf(v, mc))
         IN /\ m \in {0, 30, 60, 100}
            /\ m > 0 => ~cooldown /\ ~AtDeathLine(v.equity)
            /\ m > 30 => DrawdownPenalty(v) <= 50
            /\ m = 100 =>
                 /\ DrawdownPenalty(v) <= 20 /\ DailyLossPenalty(v) <= 20
                 /\ StreakPenalty <= 20 /\ NewsPenalty <= 20
                 /\ FloorPenalty(v.equity) <= 20
<1> DEFINE m == Multiplier(ModeOf(v, mc))
<1>1. CASE AtDeathLine(v.equity)
  BY <1>1 DEF ModeOf, Multiplier
<1>2. CASE ~AtDeathLine(v.equity) /\ cooldown
  BY <1>2 DEF ModeOf, Multiplier
<1>3. CASE ~AtDeathLine(v.equity) /\ ~cooldown
  <2>1. PICK s \in Int : s = Score(v, mc)
    BY <1>3, ScoreParts
  <2>2. /\ m \in {0, 30, 60, 100}
        /\ m > 30 => s >= 50
        /\ m = 100 => s >= 80
    BY <1>3, <2>1 DEF ModeOf, Multiplier
  <2>3. PICK a, b, c, d, f \in Int :
          /\ a = DrawdownPenalty(v) /\ b = DailyLossPenalty(v) /\ c = StreakPenalty
          /\ d = NewsPenalty /\ f = FloorPenalty(v.equity)
          /\ a >= 0 /\ b >= 0 /\ c >= 0 /\ d >= 0 /\ f >= 0
    <3>1. v.equity \in Int
      BY DEF Views
    <3>2. /\ DrawdownPenalty(v) \in Int /\ DailyLossPenalty(v) \in Int /\ StreakPenalty \in Int
          /\ NewsPenalty \in Int /\ FloorPenalty(v.equity) \in Int
          /\ DrawdownPenalty(v) >= 0 /\ DailyLossPenalty(v) >= 0 /\ StreakPenalty >= 0
          /\ NewsPenalty >= 0 /\ FloorPenalty(v.equity) >= 0
      BY <3>1, DrawdownFacts, DailyLossFacts, SmallPenalties, FloorFacts
    <3>3. QED BY <3>2
  <2>4. /\ s >= 50 => a + b + c + d + f <= 100 - 50
        /\ s >= 80 => a + b + c + d + f <= 100 - 80
    BY <1>3, <2>1, <2>3, ScoreParts
  <2>5. /\ s >= 50 => a <= 50
        /\ s >= 80 => a <= 20 /\ b <= 20 /\ c <= 20 /\ d <= 20 /\ f <= 20
    BY <2>1, <2>3, <2>4
  <2> HIDE DEF m
  <2>6. /\ m > 30 => a <= 50
        /\ m = 100 => a <= 20 /\ b <= 20 /\ c <= 20 /\ d <= 20 /\ f <= 20
    BY <2>2, <2>5
  <2>7. QED BY <1>3, <2>2, <2>3, <2>6 DEF m
<1>4. QED BY <1>1, <1>2, <1>3

LEMMA RecomputeFits ==
  ASSUME SurvivalInv, NEW t \in Tasks, Recompute(t)
  PROVE  VerdictFits(t)
<1>1. CounterInv /\ FlagTypes /\ view[t] \in Views /\ verdict \in [Tasks -> Modes]
  BY DEF SurvivalInv, TaskTypes
<1>2. PICK mc \in McPenalties : verdict' = [verdict EXCEPT ![t] = ModeOf(view[t], mc)]
  BY DEF Recompute
<1>3. verdict'[t] = ModeOf(view[t], mc)
  BY <1>1, <1>2
<1> DEFINE v == view[t]
           m == Multiplier(verdict'[t])
<1>4. m = Multiplier(ModeOf(v, mc))
  BY <1>3
<1>5. v \in Views /\ v.equity \in Int
  BY <1>1 DEF Views
<1> HIDE DEF v, m
<1>6. /\ m \in {0, 30, 60, 100}
      /\ m > 0 => ~cooldown /\ ~AtDeathLine(v.equity)
      /\ m > 30 => DrawdownPenalty(v) <= 50
      /\ m = 100 =>
           /\ DrawdownPenalty(v) <= 20 /\ DailyLossPenalty(v) <= 20
           /\ StreakPenalty <= 20 /\ NewsPenalty <= 20
           /\ FloorPenalty(v.equity) <= 20
  BY <1>1, <1>4, <1>5, VerdictParts
<1>7. WantsFlat(t) => m <= 30
  <2>1. CASE AtDeathLine(v.equity)
    <3>1. ~(m > 0)
      BY <1>6, <2>1
    <3>2. QED BY <1>6, <3>1
  <2>2. CASE v.peak > 0 /\ (v.peak - v.equity) * 100 >= AutoFlatPct * v.peak
    <3>1. DrawdownPenalty(v) = 60
      BY <1>5, <2>2, DrawdownFacts
    <3>2. QED BY <1>6, <3>1
  <2>3. QED BY <2>1, <2>2 DEF WantsFlat, v
<1>8. m = 100 =>
        /\ streak <= 3 /\ news # "panic"
        /\ v.equity * 100 >= InitialEquity * (DeathPct + 5)
        /\ v.peak > 0 => (v.peak - v.equity) * 2000 < 7 * (v.peak * AutoFlatPct)
        /\ v.today < 0 => (0 - v.today) * 200 < 7 * v.equity
  <2> SUFFICES ASSUME m = 100
               PROVE  /\ streak <= 3 /\ news # "panic"
                      /\ v.equity * 100 >= InitialEquity * (DeathPct + 5)
                      /\ v.peak > 0 => (v.peak - v.equity) * 2000 < 7 * (v.peak * AutoFlatPct)
                      /\ v.today < 0 => (0 - v.today) * 200 < 7 * v.equity
    OBVIOUS
  <2>1. streak <= 3 /\ news # "panic"
    BY <1>1, <1>6, SmallPenalties
  <2>2. v.equity > 0 /\ v.equity * 100 >= InitialEquity * (DeathPct + 5)
    BY <1>5, <1>6, FloorFacts
  <2>3. v.peak > 0 => (v.peak - v.equity) * 2000 < 7 * (v.peak * AutoFlatPct)
    BY <1>5, <1>6, DrawdownFacts
  <2>4. v.today < 0 => (0 - v.today) * 200 < 7 * v.equity
    BY <1>5, <1>6, <2>2, DailyLossFacts
  <2>5. QED BY <2>1, <2>2, <2>3, <2>4
<1>9. QED BY <1>6, <1>7, <1>8 DEF VerdictFits, v, m

\* Whatever the two survival tasks, closes, commands, midnights and
\* reconciliations do to the counters and the ledger between a snapshot and
\* the verdict computed from it, the size a verdict sets is earned.
THEOREM EarnedSizeTheorem == Spec => SizeIsEarned
<1>1. SurvivalInv /\ [Next]_vars => [\A t \in Tasks : Recompute(t) => VerdictFits(t)]_vars
  BY RecomputeFits
<1>2. QED BY <1>1, SurvivalInvariant, PTL DEF Spec, SizeIsEarned

\* The daily ratchet (survival.rs:412-422) is meant to freeze the account once
\* half of a good day's profit is given back.  It asks whether today's profit
\* is below half of itself, which no profit is: for no ledger and no threshold
\* does it ever freeze anything.
THEOREM RatchetTheorem == \A v \in Views : ~RatchetLocked(v)
<1> SUFFICES ASSUME NEW v \in Views, RatchetLocked(v) PROVE FALSE
  OBVIOUS
<1>1. v.today \in Int /\ RatchetPct \in Nat /\ InitialEquity \in Nat
  BY SurvivalConstants DEF Views
<1>2. RatchetPct * InitialEquity >= 0
  BY <1>1
<1>3. PICK target \in Int : target = RatchetPct * InitialEquity
  BY <1>1
<1>4. QED BY <1>1, <1>2, <1>3 DEF RatchetLocked
=============================================================================
