--------------------------- MODULE PipelineProofs ---------------------------
(***************************************************************************)
(* Proofs about the pipeline, for any number of setups, symbols, positions *)
(* and messages.  In three parts:                                          *)
(*   - it is well typed, every setup is in one place at a time, and, when  *)
(*     client ids are distinct, the risk manager's counter agrees with the *)
(*     position book;                                                      *)
(*   - a verdict published after survival announced a frozen mode never    *)
(*     becomes an order: read in the order of the bus, the mode the        *)
(*     execution agent will have when it reaches such a verdict is Frozen; *)
(*   - with distinct client ids the pipeline implements the abstract life  *)
(*     of a setup (TradeLifecycle): every step of an agent moves at most   *)
(*     one setup to its next stage, because every setup is in one place.   *)
(***************************************************************************)
EXTENDS PipelineProperties, FiniteSetTheorems, SequenceTheorems, TLAPS

-----------------------------------------------------------------------------
(* Inboxes *)

InboxMsgs == SetupMsgs \union ModeMsgs

\* No setup is twice in an inbox.
NoRepeat(q) ==
  \A i, j \in DOMAIN q : \A s \in Setups : q[i] = Setup(s) /\ q[j] = Setup(s) => i = j

\* The messages of a kind are what that kind says.
LEMMA MessageKinds ==
  ASSUME NEW m \in ExecMsgs
  PROVE  /\ m.kind = "setup" => m \in SetupMsgs /\ m.setup \in Setups /\ m = Setup(m.setup)
         /\ m.kind = "mode" => m.mode \in Modes
         /\ m.kind # "setup" => \A s \in Setups : m # Setup(s)
  BY DEF ExecMsgs, SetupMsgs, ModeMsgs, Setup, Mode, Tick, FlatAll

\* Risk and manager inboxes hold no other messages than the execution inbox.
LEMMA InboxSubset ==
  /\ SetupMsgs \subseteq InboxMsgs
  /\ ModeMsgs \subseteq InboxMsgs
  /\ InboxMsgs \subseteq ExecMsgs
  BY DEF InboxMsgs, ExecMsgs

\* Different setups make different messages.
LEMMA SetupInjective ==
  ASSUME NEW s, NEW t, Setup(s) = Setup(t)
  PROVE  s = t
<1>1. Setup(s).setup = s /\ Setup(t).setup = t
  BY DEF Setup
<1>2. QED
  BY <1>1

\* Taking the head of an inbox: what is queued behind it, and that the head
\* is not queued again.
LEMMA TakeHead ==
  ASSUME NEW M, NEW q \in Seq(M), q # <<>>
  PROVE  /\ Head(q) \in M
         /\ Tail(q) \in Seq(M)
         /\ \A s \in Setups : Queued(s, Tail(q)) => Queued(s, q)
         /\ \A s \in Setups : Head(q) = Setup(s) => Queued(s, q)
         /\ NoRepeat(q) => /\ NoRepeat(Tail(q))
                           /\ \A s \in Setups : Head(q) = Setup(s) => ~Queued(s, Tail(q))
<1>1. /\ Head(q) \in M /\ Tail(q) \in Seq(M)
      /\ Len(Tail(q)) = Len(q) - 1
      /\ \A i \in 1..Len(Tail(q)) : Tail(q)[i] = q[i + 1]
  BY HeadTailProperties
<1>2. Len(q) \in Nat /\ Len(q) > 0 /\ DOMAIN q = 1..Len(q) /\ Head(q) = q[1]
      /\ DOMAIN Tail(q) = 1..(Len(q) - 1)
  BY <1>1, LenProperties, EmptySeq
<1>3. ASSUME NEW i \in DOMAIN Tail(q)
      PROVE  i + 1 \in DOMAIN q /\ Tail(q)[i] = q[i + 1] /\ i + 1 # 1 /\ i \in Int
  BY <1>1, <1>2
<1>4. \A s \in Setups : Queued(s, Tail(q)) => Queued(s, q)
  BY <1>3 DEF Queued
<1>5. \A s \in Setups : Head(q) = Setup(s) => Queued(s, q)
  BY <1>2 DEF Queued
<1>6. ASSUME NoRepeat(q)
      PROVE  /\ NoRepeat(Tail(q))
             /\ \A s \in Setups : Head(q) = Setup(s) => ~Queued(s, Tail(q))
  <2>1. NoRepeat(Tail(q))
    <3> SUFFICES ASSUME NEW i \in DOMAIN Tail(q), NEW j \in DOMAIN Tail(q),
                        NEW s \in Setups,
                        Tail(q)[i] = Setup(s), Tail(q)[j] = Setup(s)
                 PROVE  i = j
      BY DEF NoRepeat
    <3>1. i + 1 = j + 1
      BY <1>3, <1>6 DEF NoRepeat
    <3>2. QED
      BY <1>3, <3>1
  <2>2. ASSUME NEW s \in Setups, Head(q) = Setup(s), Queued(s, Tail(q))
        PROVE  FALSE
    <3>1. PICK i \in DOMAIN Tail(q) : Tail(q)[i] = Setup(s)
      BY <2>2 DEF Queued
    <3>2. i + 1 = 1
      BY <1>2, <1>3, <1>6, <2>2, <3>1 DEF NoRepeat
    <3>3. QED
      BY <1>3, <3>2
  <2>3. QED
    BY <2>1, <2>2
<1>7. QED
  BY <1>1, <1>4, <1>5, <1>6

\* Appending a message to an inbox.
LEMMA AppendOne ==
  ASSUME NEW M, NEW q \in Seq(M), NEW m \in M
  PROVE  /\ Append(q, m) \in Seq(M)
         /\ \A s \in Setups : Queued(s, Append(q, m)) <=> Queued(s, q) \/ m = Setup(s)
         /\ NoRepeat(q) /\ (\A s \in Setups : m = Setup(s) => ~Queued(s, q))
              => NoRepeat(Append(q, m))
<1> DEFINE r == Append(q, m)
<1>1. /\ r \in Seq(M) /\ Len(q) \in Nat
      /\ DOMAIN q = 1..Len(q) /\ DOMAIN r = 1..(Len(q) + 1)
      /\ \A i \in 1..Len(q) : r[i] = q[i]
      /\ r[Len(q) + 1] = m
  OBVIOUS
<1> HIDE DEF r
<1>2. \A s \in Setups : Queued(s, r) <=> Queued(s, q) \/ m = Setup(s)
  <2> SUFFICES ASSUME NEW s \in Setups
               PROVE  Queued(s, r) <=> Queued(s, q) \/ m = Setup(s)
    OBVIOUS
  <2>1. Queued(s, r) => Queued(s, q) \/ m = Setup(s)
    BY <1>1 DEF Queued
  <2>2. Queued(s, q) => Queued(s, r)
    BY <1>1 DEF Queued
  <2>3. m = Setup(s) => Queued(s, r)
    BY <1>1 DEF Queued
  <2>4. QED
    BY <2>1, <2>2, <2>3
<1>3. ASSUME NoRepeat(q), \A s \in Setups : m = Setup(s) => ~Queued(s, q)
      PROVE  NoRepeat(r)
  <2> SUFFICES ASSUME NEW i \in DOMAIN r, NEW j \in DOMAIN r, NEW s \in Setups,
                      r[i] = Setup(s), r[j] = Setup(s)
               PROVE  i = j
    BY DEF NoRepeat
  <2>1. CASE i \in DOMAIN q /\ j \in DOMAIN q
    BY <1>1, <1>3, <2>1 DEF NoRepeat
  <2>2. CASE i \notin DOMAIN q /\ j \notin DOMAIN q
    BY <1>1, <2>2
  <2>3. CASE i \in DOMAIN q /\ j \notin DOMAIN q
    BY <1>1, <1>3, <2>3 DEF Queued
  <2>4. CASE i \notin DOMAIN q /\ j \in DOMAIN q
    BY <1>1, <1>3, <2>4 DEF Queued
  <2>5. QED
    BY <2>1, <2>2, <2>3, <2>4
<1>4. QED
  BY <1>1, <1>2, <1>3 DEF r

-----------------------------------------------------------------------------
(* Type correctness *)

\* What a step of the pipeline may do to the risk manager.
RiskMoves ==
  \/ OnPositionOpened
  \/ \E pnl \in Pnls : OnPositionClosed(pnl)
  \/ Freeze \/ Unfreeze \/ ResetDaily
  \/ UNCHANGED riskVars

\* A step of the pipeline does to the ledger what one RiskManager call does, or nothing.
LEMMA StepRiskMoves == [PipelineNext]_pipelineVars => RiskMoves
<1> SUFFICES ASSUME [PipelineNext]_pipelineVars PROVE RiskMoves
  OBVIOUS
<1>1. CASE UNCHANGED pipelineVars
  BY <1>1 DEF pipelineVars, RiskMoves
<1>2. CASE \E s \in Setups : Emit(s)
  BY <1>2 DEF Emit, RiskMoves
<1>3. CASE RiskAgent \/ BrainOutcome \/ ManagerAgent
  BY <1>3 DEF RiskAgent, RiskSurvival, RiskVerdict, BrainOutcome, ManagerAgent,
              ManagerSurvival, ManagerVerdict, RiskMoves
<1>4. CASE ExecAgent
  BY <1>4 DEF ExecAgent, ExecSurvival, ExecGate, EntryFilled, EntryFailed, ExecTick,
              ExecFlatAll, BookExit, FlattenOne, RiskMoves
<1>5. CASE Environment
  BY <1>5 DEF Environment, Interfere, PublishMode, PublishToExec, RiskMoves
<1>6. QED
  BY <1>1, <1>2, <1>3, <1>4, <1>5 DEF PipelineNext

\* The ledger stays well typed.
LEMMA RiskTypeStep == RiskTypeOK /\ RiskMoves => RiskTypeOK'
<1> USE RiskLimitsAssumption, PipelineAssumption
      DEF RiskLimitsAssumption, PipelineAssumption
<1> SUFFICES ASSUME RiskTypeOK, RiskMoves PROVE RiskTypeOK'
  OBVIOUS
<1> DEFINE Numbers == /\ equity \in Int /\ peakEquity \in Int
                      /\ openPositions \in Nat /\ realizedPnlToday \in Int
                      /\ sizeMultiplier \in 0..200
           Flags   == tripped \in BOOLEAN /\ frozen \in BOOLEAN
<1>1. Numbers /\ Flags
  BY DEF RiskTypeOK
<1>2. Numbers'
  <2>1. CASE OnPositionOpened
    BY <1>1, <2>1 DEF OnPositionOpened
  <2>2. CASE \E pnl \in Pnls : OnPositionClosed(pnl)
    BY <1>1, <2>2 DEF OnPositionClosed
  <2>3. CASE Freeze \/ Unfreeze \/ ResetDaily \/ UNCHANGED riskVars
    BY <1>1, <2>3 DEF Freeze, Unfreeze, ResetDaily, riskVars
  <2>4. QED
    BY <2>1, <2>2, <2>3 DEF RiskMoves
<1>3. Flags'
  <2>1. CASE OnPositionOpened
    BY <1>1, <2>1 DEF OnPositionOpened
  <2>2. CASE \E pnl \in Pnls : OnPositionClosed(pnl)
    BY <1>1, <2>2 DEF OnPositionClosed
  <2>3. CASE Freeze \/ Unfreeze \/ ResetDaily \/ UNCHANGED riskVars
    BY <1>1, <2>3 DEF Freeze, Unfreeze, ResetDaily, riskVars
  <2>4. QED
    BY <2>1, <2>2, <2>3 DEF RiskMoves
<1>4. QED
  BY <1>2, <1>3 DEF RiskTypeOK

\* The inboxes hold messages their agents know.
InboxesOK ==
  /\ riskIn \in Seq(InboxMsgs)
  /\ brainIn \in Seq(SetupMsgs)
  /\ managerIn \in Seq(InboxMsgs)
  /\ execIn \in Seq(ExecMsgs)

\* The other variables of the agents.
AgentsOK ==
  /\ waiting \in SUBSET Setups
  /\ riskMode \in Modes /\ managerMode \in Modes /\ execMode \in Modes
  /\ inFlight \in Setups \union {NoSetup}
  /\ \E open \in SUBSET ClientIds : book \in [open -> Setups]
  /\ exits \in SUBSET Setups
  /\ flattening \in SUBSET ClientIds
  /\ events \in 0..MaxEvents

\* The type invariant, split into ledger, inboxes and agents.
LEMMA TypeParts == PipelineTypeOK <=> RiskTypeOK /\ InboxesOK /\ AgentsOK
  BY DEF PipelineTypeOK, InboxesOK, AgentsOK, InboxMsgs

\* A received message goes on to the next inbox, or a published one is new:
\* every inbox stays well typed.
LEMMA InboxesStep == InboxesOK /\ [PipelineNext]_pipelineVars => InboxesOK'
<1> USE InboxSubset
<1> SUFFICES ASSUME InboxesOK, [PipelineNext]_pipelineVars PROVE InboxesOK'
  OBVIOUS
<1>1. CASE UNCHANGED pipelineVars
  BY <1>1 DEF pipelineVars, agentVars, InboxesOK
<1>2. ASSUME NEW s \in Setups, Emit(s) PROVE InboxesOK'
  <2>1. Setup(s) \in InboxMsgs
    BY DEF SetupMsgs, InboxMsgs
  <2>2. QED
    BY <1>2, <2>1, AppendOne DEF Emit, InboxesOK
<1>3. CASE RiskSurvival
  BY <1>3, TakeHead DEF RiskSurvival, InboxesOK
<1>4. CASE RiskVerdict
  <2>1. Head(riskIn) \in SetupMsgs /\ Tail(riskIn) \in Seq(InboxMsgs)
    BY <1>4, TakeHead, MessageKinds DEF RiskVerdict, InboxesOK
  <2>2. Append(brainIn, Head(riskIn)) \in Seq(SetupMsgs)
    BY <2>1, AppendOne DEF InboxesOK
  <2>3. QED
    BY <1>4, <2>1, <2>2 DEF RiskVerdict, InboxesOK
<1>5. CASE BrainOutcome
  <2>1. Head(brainIn) \in InboxMsgs /\ Tail(brainIn) \in Seq(SetupMsgs)
    BY <1>5, TakeHead DEF BrainOutcome, InboxesOK
  <2>2. Append(managerIn, Head(brainIn)) \in Seq(InboxMsgs)
    BY <2>1, AppendOne DEF InboxesOK
  <2>3. QED
    BY <1>5, <2>1, <2>2 DEF BrainOutcome, InboxesOK
<1>6. CASE ManagerSurvival
  BY <1>6, TakeHead DEF ManagerSurvival, InboxesOK
<1>7. CASE ManagerVerdict
  <2>1. Head(managerIn) \in ExecMsgs /\ Tail(managerIn) \in Seq(InboxMsgs)
    BY <1>7, TakeHead DEF ManagerVerdict, InboxesOK
  <2>2. Append(execIn, Head(managerIn)) \in Seq(ExecMsgs)
    BY <2>1, AppendOne DEF InboxesOK
  <2>3. QED
    BY <1>7, <2>1, <2>2 DEF ManagerVerdict, InboxesOK
<1>8. CASE ExecSurvival \/ ExecGate \/ ExecTick \/ ExecFlatAll
  <2>1. execIn # <<>> /\ execIn' = Tail(execIn) /\ UNCHANGED <<riskIn, brainIn, managerIn>>
    BY <1>8 DEF ExecSurvival, ExecGate, ExecTick, ExecFlatAll, Receives
  <2>2. QED
    BY <2>1, TakeHead DEF InboxesOK
<1>9. CASE \/ EntryFilled \/ EntryFailed
           \/ \E s \in Setups : BookExit(s)
           \/ \E id \in ClientIds : FlattenOne(id)
           \/ Interfere
  BY <1>9 DEF EntryFilled, EntryFailed, BookExit, FlattenOne, Interfere, agentVars, InboxesOK
<1>10. ASSUME NEW m \in Modes, PublishMode(m) PROVE InboxesOK'
  <2>1. Mode(m) \in InboxMsgs /\ Mode(m) \in ExecMsgs
    BY DEF ModeMsgs, InboxMsgs, ExecMsgs
  <2>2. QED
    BY <1>10, <2>1, AppendOne DEF PublishMode, InboxesOK
<1>11. ASSUME NEW msg \in {Tick(sym) : sym \in Symbols} \union {FlatAll},
              PublishToExec(msg)
       PROVE  InboxesOK'
  <2>1. msg \in ExecMsgs
    BY DEF ExecMsgs
  <2>2. QED
    BY <1>11, <2>1, AppendOne DEF PublishToExec, InboxesOK
<1>12. QED
  BY <1>1, <1>2, <1>3, <1>4, <1>5, <1>6, <1>7, <1>8, <1>9, <1>10, <1>11
     DEF PipelineNext, RiskAgent, ManagerAgent, ExecAgent, Environment

\* Modes, book and the execution agent's work stay well typed.
LEMMA AgentsStep ==
  InboxesOK /\ AgentsOK /\ [PipelineNext]_pipelineVars => AgentsOK'
<1> USE InboxSubset, PipelineAssumption DEF PipelineAssumption
<1> SUFFICES ASSUME InboxesOK, AgentsOK, [PipelineNext]_pipelineVars PROVE AgentsOK'
  OBVIOUS
<1>1. CASE UNCHANGED pipelineVars
  BY <1>1 DEF pipelineVars, agentVars, AgentsOK
<1>2. CASE \E s \in Setups : Emit(s)
  BY <1>2 DEF Emit, AgentsOK
<1>3. CASE RiskSurvival
  <2>1. Head(riskIn).mode \in Modes
    BY <1>3, TakeHead, MessageKinds DEF RiskSurvival, InboxesOK
  <2>2. QED
    BY <1>3, <2>1 DEF RiskSurvival, AgentsOK
<1>4. CASE RiskVerdict \/ BrainOutcome \/ ManagerVerdict
  BY <1>4 DEF RiskVerdict, BrainOutcome, ManagerVerdict, AgentsOK
<1>5. CASE ManagerSurvival
  <2>1. Head(managerIn).mode \in Modes
    BY <1>5, TakeHead, MessageKinds DEF ManagerSurvival, InboxesOK
  <2>2. QED
    BY <1>5, <2>1 DEF ManagerSurvival, AgentsOK
<1>6. CASE ExecSurvival
  <2>1. Head(execIn).mode \in Modes
    BY <1>6, TakeHead, MessageKinds DEF ExecSurvival, Receives, InboxesOK
  <2>2. QED
    BY <1>6, <2>1 DEF ExecSurvival, AgentsOK
<1>7. CASE ExecGate
  <2>1. Head(execIn).setup \in Setups
    BY <1>7, TakeHead, MessageKinds DEF ExecGate, Receives, InboxesOK
  <2>2. QED
    BY <1>7, <2>1 DEF ExecGate, AgentsOK
<1>8. CASE EntryFilled
  <2>1. PICK open \in SUBSET ClientIds : book \in [open -> Setups]
    BY DEF AgentsOK
  <2>2. inFlight \in Setups /\ ClientIdOf[inFlight] \in ClientIds
    BY <1>8 DEF EntryFilled, AgentsOK
  <2> DEFINE id == ClientIdOf[inFlight]
  <2>3. book' \in [open \union {id} -> Setups]
    BY <1>8, <2>1, <2>2 DEF EntryFilled
  <2>4. open \union {id} \in SUBSET ClientIds
    BY <2>1, <2>2
  <2>5. \E o \in SUBSET ClientIds : book' \in [o -> Setups]
    BY <2>3, <2>4
  <2>6. inFlight' = NoSetup
        /\ UNCHANGED <<waiting, riskMode, managerMode, execMode, exits, flattening, events>>
    BY <1>8 DEF EntryFilled
  <2>7. QED
    BY <2>5, <2>6 DEF AgentsOK
<1>9. CASE EntryFailed
  BY <1>9 DEF EntryFailed, AgentsOK
<1>10. CASE ExecTick
  <2>1. PICK open \in SUBSET ClientIds : book \in [open -> Setups]
    BY DEF AgentsOK
  <2>2. PICK due \in SUBSET (DOMAIN book) :
               /\ book' = [i \in (DOMAIN book) \ due |-> book[i]]
               /\ exits' = {book[i] : i \in due}
    BY <1>10 DEF ExecTick
  <2>3. book' \in [open \ due -> Setups] /\ exits' \in SUBSET Setups
    BY <2>1, <2>2
  <2>4. \E o \in SUBSET ClientIds : book' \in [o -> Setups]
    BY <2>1, <2>3
  <2>5. UNCHANGED <<waiting, riskMode, managerMode, execMode, inFlight, flattening, events>>
    BY <1>10 DEF ExecTick
  <2>6. QED
    BY <2>3, <2>4, <2>5 DEF AgentsOK
<1>11. CASE ExecFlatAll
  BY <1>11 DEF ExecFlatAll, AgentsOK
<1>12. CASE \E s \in Setups : BookExit(s)
  BY <1>12 DEF BookExit, AgentsOK
<1>13. ASSUME NEW id \in ClientIds, FlattenOne(id) PROVE AgentsOK'
  <2>1. PICK open \in SUBSET ClientIds : book \in [open -> Setups]
    BY DEF AgentsOK
  <2>2. book' \in [open \ {id} -> Setups]
    BY <1>13, <2>1 DEF FlattenOne
  <2>3. \E o \in SUBSET ClientIds : book' \in [o -> Setups]
    BY <2>1, <2>2
  <2>4. /\ flattening' = flattening \ {id}
        /\ UNCHANGED <<waiting, riskMode, managerMode, execMode, inFlight, exits, events>>
    BY <1>13 DEF FlattenOne
  <2>5. QED
    BY <2>3, <2>4 DEF AgentsOK
<1>14. CASE Environment
  BY <1>14 DEF Environment, Interfere, PublishMode, PublishToExec, agentVars, AgentsOK
<1>15. QED
  BY <1>1, <1>2, <1>3, <1>4, <1>5, <1>6, <1>7, <1>8, <1>9, <1>10, <1>11, <1>12, <1>13, <1>14
     DEF PipelineNext, RiskAgent, ManagerAgent, ExecAgent

\* The pipeline is well typed in every reachable state.
THEOREM PipelineTypeInvariant == PipelineSpec => []PipelineTypeOK
<1>1. PipelineInit => PipelineTypeOK
  <2> SUFFICES ASSUME PipelineInit PROVE PipelineTypeOK
    OBVIOUS
  <2>1. RiskTypeOK
    <3>1. /\ equity \in Int /\ peakEquity \in Int /\ openPositions \in Nat
          /\ realizedPnlToday \in Int /\ sizeMultiplier \in 0..200
      BY RiskLimitsAssumption DEF PipelineInit, RiskInit, RiskLimitsAssumption
    <3>2. tripped \in BOOLEAN /\ frozen \in BOOLEAN
      BY DEF PipelineInit, RiskInit
    <3>3. QED
      BY <3>1, <3>2 DEF RiskTypeOK
  <2>2. InboxesOK
    BY DEF PipelineInit, InboxesOK
  <2>3. AgentsOK
    <3>1. book \in [{} -> Setups] /\ {} \in SUBSET ClientIds
      BY DEF PipelineInit
    <3>2. \E open \in SUBSET ClientIds : book \in [open -> Setups]
      BY <3>1
    <3>3. QED
      BY <3>2, PipelineAssumption DEF PipelineInit, AgentsOK, Modes, PipelineAssumption
  <2>4. QED
    BY <2>1, <2>2, <2>3, TypeParts
<1>2. PipelineTypeOK /\ [PipelineNext]_pipelineVars => PipelineTypeOK'
  <2> SUFFICES ASSUME PipelineTypeOK, [PipelineNext]_pipelineVars PROVE PipelineTypeOK'
    OBVIOUS
  <2>1. RiskTypeOK /\ InboxesOK /\ AgentsOK
    BY TypeParts
  <2>2. RiskTypeOK' /\ InboxesOK' /\ AgentsOK'
    BY <2>1, StepRiskMoves, RiskTypeStep, InboxesStep, AgentsStep
  <2>3. PipelineTypeOK' <=> RiskTypeOK' /\ InboxesOK' /\ AgentsOK'
    BY DEF PipelineTypeOK, InboxesOK, AgentsOK, InboxMsgs
  <2>4. QED
    BY <2>2, <2>3
<1>3. QED
  BY <1>1, <1>2, PTL DEF PipelineSpec

-----------------------------------------------------------------------------
(* One place at a time *)

InBook(s) == \E id \in DOMAIN book : book[id] = s

NoRepeats == NoRepeat(riskIn) /\ NoRepeat(brainIn) /\ NoRepeat(managerIn) /\ NoRepeat(execIn)

\* A setup that is somewhere on its way is nowhere further on.
OnePlace(s) ==
  LET held   == s \in exits \/ InBook(s)
      sent   == held \/ inFlight = s
      atExec == sent \/ Queued(s, execIn)
      atMan  == atExec \/ Queued(s, managerIn)
      atBr   == atMan \/ Queued(s, brainIn)
      atRisk == atBr \/ Queued(s, riskIn)
  IN /\ s \in waiting => ~atRisk
     /\ Queued(s, riskIn) => ~atBr
     /\ Queued(s, brainIn) => ~atMan
     /\ Queued(s, managerIn) => ~atExec
     /\ Queued(s, execIn) => ~sent
     /\ inFlight = s => ~held
     /\ s \in exits => ~InBook(s)

\* A position is filed under its own client id.
FiledById == \A id \in DOMAIN book : ClientIdOf[book[id]] = id

PlacesInv == NoRepeats /\ FiledById /\ \A s \in Setups : OnePlace(s)

\* The head of one inbox handed on to the next.
LEMMA HandOn ==
  ASSUME NEW M, NEW N, NEW q \in Seq(M), NEW r \in Seq(N), q # <<>>, Head(q) \in N,
         NoRepeat(q), NoRepeat(r),
         \A s \in Setups : Queued(s, q) => ~Queued(s, r)
  PROVE  /\ NoRepeat(Tail(q))
         /\ NoRepeat(Append(r, Head(q)))
         /\ \A s \in Setups : Queued(s, Tail(q)) => Queued(s, q)
         /\ \A s \in Setups : Queued(s, Append(r, Head(q))) =>
              Queued(s, r) \/ (Queued(s, q) /\ ~Queued(s, Tail(q)))
<1>1. /\ NoRepeat(Tail(q))
      /\ \A s \in Setups : Queued(s, Tail(q)) => Queued(s, q)
      /\ \A s \in Setups : Head(q) = Setup(s) => Queued(s, q) /\ ~Queued(s, Tail(q))
  BY TakeHead
<1>2. NoRepeat(Append(r, Head(q)))
  BY <1>1, AppendOne
<1>3. \A s \in Setups : Queued(s, Append(r, Head(q))) <=> Queued(s, r) \/ Head(q) = Setup(s)
  BY AppendOne
<1>4. QED
  BY <1>1, <1>2, <1>3

\* Every setup stays in one place.
LEMMA PlacesStep ==
  InboxesOK /\ AgentsOK /\ PlacesInv /\ [PipelineNext]_pipelineVars => PlacesInv'
<1> USE InboxSubset, PipelineAssumption DEF PipelineAssumption
<1> SUFFICES ASSUME InboxesOK, AgentsOK, PlacesInv, [PipelineNext]_pipelineVars
             PROVE  PlacesInv'
  OBVIOUS
<1>0. /\ NoRepeats /\ FiledById /\ \A s \in Setups : OnePlace(s)
      /\ riskIn \in Seq(InboxMsgs) /\ brainIn \in Seq(SetupMsgs)
      /\ managerIn \in Seq(InboxMsgs) /\ execIn \in Seq(ExecMsgs)
  BY DEF PlacesInv, InboxesOK
\* A step that leaves book, exits and inFlight alone, forgets no place rule.
<1>1. CASE UNCHANGED agentVars
  BY <1>1 DEF agentVars, PlacesInv, NoRepeats, FiledById, OnePlace, InBook
<1>2. ASSUME NEW s \in Setups, Emit(s) PROVE PlacesInv'
  <2>1. Setup(s) \in InboxMsgs
    BY DEF SetupMsgs, InboxMsgs
  <2>2. s \in waiting /\ waiting' = waiting \ {s} /\ riskIn' = Append(riskIn, Setup(s))
        /\ UNCHANGED <<brainIn, managerIn, execIn, inFlight, book, exits>>
    BY <1>2 DEF Emit
  <2>3. \A t \in Setups : Setup(s) = Setup(t) => t = s
    BY SetupInjective
  <2>4. ~Queued(s, riskIn)
    BY <1>0, <2>2 DEF OnePlace
  <2>5. NoRepeat(riskIn') /\ \A t \in Setups : Queued(t, riskIn') => Queued(t, riskIn) \/ t = s
    BY <1>0, <2>1, <2>2, <2>3, <2>4, AppendOne DEF NoRepeats
  <2>6. \A t \in Setups : OnePlace(t)'
    BY <1>0, <2>2, <2>5 DEF OnePlace, InBook
  <2>7. QED
    BY <1>0, <2>2, <2>5, <2>6 DEF PlacesInv, NoRepeats, FiledById
<1>3. CASE RiskSurvival
  <2>1. riskIn # <<>> /\ riskIn' = Tail(riskIn)
        /\ UNCHANGED <<waiting, brainIn, managerIn, execIn, inFlight, book, exits>>
    BY <1>3 DEF RiskSurvival
  <2>2. NoRepeat(riskIn') /\ \A t \in Setups : Queued(t, riskIn') => Queued(t, riskIn)
    BY <1>0, <2>1, TakeHead DEF NoRepeats
  <2>3. QED
    BY <1>0, <2>1, <2>2 DEF PlacesInv, NoRepeats, FiledById, OnePlace, InBook
<1>4. CASE RiskVerdict
  <2>1. /\ riskIn # <<>> /\ Head(riskIn) \in SetupMsgs /\ riskIn' = Tail(riskIn)
        /\ brainIn' = Append(brainIn, Head(riskIn)) \/ brainIn' = brainIn
        /\ UNCHANGED <<waiting, managerIn, execIn, inFlight, book, exits>>
    BY <1>0, <1>4, TakeHead, MessageKinds DEF RiskVerdict
  <2>2. \A t \in Setups : Queued(t, riskIn) => ~Queued(t, brainIn)
    BY <1>0 DEF OnePlace
  <2>3. /\ NoRepeat(riskIn') /\ NoRepeat(brainIn')
        /\ \A t \in Setups :
             /\ Queued(t, riskIn') => Queued(t, riskIn)
             /\ Queued(t, brainIn') =>
                  Queued(t, brainIn) \/ (Queued(t, riskIn) /\ ~Queued(t, riskIn'))
    <3>1. /\ NoRepeat(Tail(riskIn))
          /\ NoRepeat(Append(brainIn, Head(riskIn)))
          /\ \A t \in Setups : Queued(t, Tail(riskIn)) => Queued(t, riskIn)
          /\ \A t \in Setups : Queued(t, Append(brainIn, Head(riskIn))) =>
               Queued(t, brainIn) \/ (Queued(t, riskIn) /\ ~Queued(t, Tail(riskIn)))
      BY <1>0, <2>1, <2>2, HandOn DEF NoRepeats
    <3>2. QED
      BY <1>0, <2>1, <3>1 DEF NoRepeats
  <2>4. QED
    BY <1>0, <2>1, <2>3 DEF PlacesInv, NoRepeats, FiledById, OnePlace, InBook
<1>5. CASE BrainOutcome
  <2>1. /\ brainIn # <<>> /\ Head(brainIn) \in InboxMsgs /\ brainIn' = Tail(brainIn)
        /\ managerIn' = Append(managerIn, Head(brainIn)) \/ managerIn' = managerIn
        /\ UNCHANGED <<waiting, riskIn, execIn, inFlight, book, exits>>
    BY <1>0, <1>5, TakeHead DEF BrainOutcome
  <2>2. \A t \in Setups : Queued(t, brainIn) => ~Queued(t, managerIn)
    BY <1>0 DEF OnePlace
  <2>3. /\ NoRepeat(brainIn') /\ NoRepeat(managerIn')
        /\ \A t \in Setups :
             /\ Queued(t, brainIn') => Queued(t, brainIn)
             /\ Queued(t, managerIn') =>
                  Queued(t, managerIn) \/ (Queued(t, brainIn) /\ ~Queued(t, brainIn'))
    <3>1. /\ NoRepeat(Tail(brainIn))
          /\ NoRepeat(Append(managerIn, Head(brainIn)))
          /\ \A t \in Setups : Queued(t, Tail(brainIn)) => Queued(t, brainIn)
          /\ \A t \in Setups : Queued(t, Append(managerIn, Head(brainIn))) =>
               Queued(t, managerIn) \/ (Queued(t, brainIn) /\ ~Queued(t, Tail(brainIn)))
      BY <1>0, <2>1, <2>2, HandOn DEF NoRepeats
    <3>2. QED
      BY <1>0, <2>1, <3>1 DEF NoRepeats
  <2>4. QED
    BY <1>0, <2>1, <2>3 DEF PlacesInv, NoRepeats, FiledById, OnePlace, InBook
<1>6. CASE ManagerSurvival
  <2>1. managerIn # <<>> /\ managerIn' = Tail(managerIn)
        /\ UNCHANGED <<waiting, riskIn, brainIn, execIn, inFlight, book, exits>>
    BY <1>6 DEF ManagerSurvival
  <2>2. NoRepeat(managerIn') /\ \A t \in Setups : Queued(t, managerIn') => Queued(t, managerIn)
    BY <1>0, <2>1, TakeHead DEF NoRepeats
  <2>3. QED
    BY <1>0, <2>1, <2>2 DEF PlacesInv, NoRepeats, FiledById, OnePlace, InBook
<1>7. CASE ManagerVerdict
  <2>1. /\ managerIn # <<>> /\ Head(managerIn) \in ExecMsgs /\ managerIn' = Tail(managerIn)
        /\ execIn' = Append(execIn, Head(managerIn)) \/ execIn' = execIn
        /\ UNCHANGED <<waiting, riskIn, brainIn, inFlight, book, exits>>
    BY <1>0, <1>7, TakeHead DEF ManagerVerdict
  <2>2. \A t \in Setups : Queued(t, managerIn) => ~Queued(t, execIn)
    BY <1>0 DEF OnePlace
  <2>3. /\ NoRepeat(managerIn') /\ NoRepeat(execIn')
        /\ \A t \in Setups :
             /\ Queued(t, managerIn') => Queued(t, managerIn)
             /\ Queued(t, execIn') =>
                  Queued(t, execIn) \/ (Queued(t, managerIn) /\ ~Queued(t, managerIn'))
    <3>1. /\ NoRepeat(Tail(managerIn))
          /\ NoRepeat(Append(execIn, Head(managerIn)))
          /\ \A t \in Setups : Queued(t, Tail(managerIn)) => Queued(t, managerIn)
          /\ \A t \in Setups : Queued(t, Append(execIn, Head(managerIn))) =>
               Queued(t, execIn) \/ (Queued(t, managerIn) /\ ~Queued(t, Tail(managerIn)))
      BY <1>0, <2>1, <2>2, HandOn DEF NoRepeats
    <3>2. QED
      BY <1>0, <2>1, <3>1 DEF NoRepeats
  <2>4. QED
    BY <1>0, <2>1, <2>3 DEF PlacesInv, NoRepeats, FiledById, OnePlace, InBook
<1>8. CASE ExecSurvival \/ ExecFlatAll
  <2>1. execIn # <<>> /\ execIn' = Tail(execIn)
        /\ UNCHANGED <<waiting, riskIn, brainIn, managerIn, inFlight, book, exits>>
    BY <1>8 DEF ExecSurvival, ExecFlatAll, Receives
  <2>2. NoRepeat(execIn') /\ \A t \in Setups : Queued(t, execIn') => Queued(t, execIn)
    BY <1>0, <2>1, TakeHead DEF NoRepeats
  <2>3. QED
    BY <1>0, <2>1, <2>2 DEF PlacesInv, NoRepeats, FiledById, OnePlace, InBook
<1>9. CASE ExecGate
  <2>1. /\ execIn # <<>> /\ execIn' = Tail(execIn)
        /\ Head(execIn) \in SetupMsgs /\ Head(execIn) = Setup(Head(execIn).setup)
        /\ inFlight' \in {Head(execIn).setup, NoSetup}
        /\ UNCHANGED <<waiting, riskIn, brainIn, managerIn, book, exits>>
    BY <1>0, <1>9, TakeHead, MessageKinds DEF ExecGate, Receives
  <2>2. /\ NoRepeat(execIn')
        /\ \A t \in Setups : Queued(t, execIn') => Queued(t, execIn)
        /\ \A t \in Setups : Head(execIn) = Setup(t) =>
                             Queued(t, execIn) /\ ~Queued(t, execIn')
    BY <1>0, <2>1, TakeHead DEF NoRepeats
  <2>3. \A t \in Setups : inFlight' = t => Queued(t, execIn) /\ ~Queued(t, execIn')
    BY <2>1, <2>2
  <2>4. QED
    BY <1>0, <2>1, <2>2, <2>3 DEF PlacesInv, NoRepeats, FiledById, OnePlace, InBook
<1>10. CASE EntryFilled
  <2> DEFINE id == ClientIdOf[inFlight]
  <2>1. /\ inFlight \in Setups /\ inFlight' = NoSetup
        /\ book' = [i \in (DOMAIN book) \union {id} |-> IF i = id THEN inFlight ELSE book[i]]
        /\ UNCHANGED <<waiting, riskIn, brainIn, managerIn, execIn, exits>>
    BY <1>10 DEF EntryFilled, AgentsOK
  <2>2. \A t \in Setups : InBook(t)' => InBook(t) \/ t = inFlight
    BY <2>1 DEF InBook
  <2>3. \A t \in Setups : inFlight' # t
    BY <2>1
  <2>4. FiledById'
    BY <1>0, <2>1 DEF FiledById
  <2>5. \A t \in Setups : OnePlace(t)'
    BY <1>0, <2>1, <2>2, <2>3 DEF OnePlace
  <2>6. QED
    BY <1>0, <2>1, <2>4, <2>5 DEF PlacesInv, NoRepeats
<1>11. CASE EntryFailed
  <2>1. /\ \A t \in Setups : inFlight' # t
        /\ UNCHANGED <<waiting, riskIn, brainIn, managerIn, execIn, exits, book>>
    BY <1>11 DEF EntryFailed
  <2>2. QED
    BY <1>0, <2>1 DEF PlacesInv, NoRepeats, FiledById, OnePlace, InBook
<1>12. CASE ExecTick
  <2>1. PICK due \in SUBSET (DOMAIN book) :
               /\ book' = [i \in (DOMAIN book) \ due |-> book[i]]
               /\ exits' = {book[i] : i \in due}
    BY <1>12 DEF ExecTick
  <2>2. execIn # <<>> /\ execIn' = Tail(execIn) /\ exits = {} /\ inFlight = NoSetup
        /\ UNCHANGED <<waiting, riskIn, brainIn, managerIn, inFlight>>
    BY <1>12 DEF ExecTick, Receives, ExecIdle
  <2>3. NoRepeat(execIn') /\ \A t \in Setups : Queued(t, execIn') => Queued(t, execIn)
    BY <1>0, <2>2, TakeHead DEF NoRepeats
  <2>4. \A t \in Setups : /\ InBook(t)' => InBook(t)
                          /\ t \in exits' => InBook(t) /\ ~InBook(t)'
    BY <1>0, <2>1 DEF InBook, FiledById
  <2>5. FiledById'
    BY <1>0, <2>1 DEF FiledById
  <2>6. \A t \in Setups : OnePlace(t)'
    BY <1>0, <2>2, <2>3, <2>4 DEF OnePlace
  <2>7. QED
    BY <1>0, <2>2, <2>3, <2>5, <2>6 DEF PlacesInv, NoRepeats
<1>13. CASE \E s \in Setups : BookExit(s)
  <2>1. /\ exits' \subseteq exits
        /\ UNCHANGED <<waiting, riskIn, brainIn, managerIn, execIn, inFlight, book>>
    BY <1>13 DEF BookExit
  <2>2. QED
    BY <1>0, <2>1 DEF PlacesInv, NoRepeats, FiledById, OnePlace, InBook
<1>14. ASSUME NEW id \in ClientIds, FlattenOne(id) PROVE PlacesInv'
  <2>1. /\ book' = [i \in (DOMAIN book) \ {id} |-> book[i]]
        /\ UNCHANGED <<waiting, riskIn, brainIn, managerIn, execIn, inFlight, exits>>
    BY <1>14 DEF FlattenOne
  <2>2. FiledById' /\ \A t \in Setups : InBook(t)' => InBook(t)
    BY <1>0, <2>1 DEF FiledById, InBook
  <2>3. \A t \in Setups : OnePlace(t)'
    BY <1>0, <2>1, <2>2 DEF OnePlace
  <2>4. QED
    BY <1>0, <2>1, <2>2, <2>3 DEF PlacesInv, NoRepeats
<1>15. ASSUME NEW m \in Modes, PublishMode(m) PROVE PlacesInv'
  <2>1. Mode(m) \in InboxMsgs /\ Mode(m) \in ExecMsgs /\ \A t \in Setups : Mode(m) # Setup(t)
    BY DEF ModeMsgs, InboxMsgs, ExecMsgs, Mode, Setup
  <2>2. /\ riskIn' = Append(riskIn, Mode(m)) /\ managerIn' = Append(managerIn, Mode(m))
        /\ execIn' = Append(execIn, Mode(m))
        /\ UNCHANGED <<waiting, brainIn, inFlight, book, exits>>
    BY <1>15 DEF PublishMode
  <2>3. /\ NoRepeat(riskIn') /\ NoRepeat(managerIn') /\ NoRepeat(execIn')
        /\ \A t \in Setups : /\ Queued(t, riskIn') => Queued(t, riskIn)
                             /\ Queued(t, managerIn') => Queued(t, managerIn)
                             /\ Queued(t, execIn') => Queued(t, execIn)
    BY <1>0, <2>1, <2>2, AppendOne DEF NoRepeats
  <2>4. QED
    BY <1>0, <2>2, <2>3 DEF PlacesInv, NoRepeats, FiledById, OnePlace, InBook
<1>16. ASSUME NEW msg \in {Tick(sym) : sym \in Symbols} \union {FlatAll},
              PublishToExec(msg)
       PROVE  PlacesInv'
  <2>1. msg \in ExecMsgs /\ \A t \in Setups : msg # Setup(t)
    <3>1. msg \in ExecMsgs /\ msg.kind # "setup"
      BY DEF ExecMsgs, Tick, FlatAll
    <3>2. QED
      BY <3>1, MessageKinds
  <2>2. execIn' = Append(execIn, msg)
        /\ UNCHANGED <<waiting, riskIn, brainIn, managerIn, inFlight, book, exits>>
    BY <1>16 DEF PublishToExec
  <2>3. NoRepeat(execIn') /\ \A t \in Setups : Queued(t, execIn') => Queued(t, execIn)
    BY <1>0, <2>1, <2>2, AppendOne DEF NoRepeats
  <2>4. QED
    BY <1>0, <2>2, <2>3 DEF PlacesInv, NoRepeats, FiledById, OnePlace, InBook
<1>17. QED
  <2>1. CASE UNCHANGED pipelineVars
    BY <1>1, <2>1 DEF pipelineVars
  <2>2. CASE Interfere
    BY <1>1, <2>2 DEF Interfere
  <2>3. QED
    BY <1>2, <1>3, <1>4, <1>5, <1>6, <1>7, <1>8, <1>9, <1>10, <1>11, <1>12, <1>13,
       <1>14, <1>15, <1>16, <2>1, <2>2
       DEF PipelineNext, RiskAgent, ManagerAgent, ExecAgent, Environment

-----------------------------------------------------------------------------
(* The counter and the book *)

\* Different setups have different client ids.
DistinctIds ==
  \A s, t \in Setups : ClientIdOf[s] = ClientIdOf[t] => s = t

\* A flat-all closes only positions that are still on the book: the snapshot
\* it works through stays valid.
CounterInv ==
  /\ IsFiniteSet(DOMAIN book)
  /\ IsFiniteSet(exits)
  /\ flattening \subseteq DOMAIN book
  /\ CounterMatchesBook

\* A tick moves positions from the book to the exits, none is lost.
LEMMA SplitBook ==
  ASSUME FiledById, IsFiniteSet(DOMAIN book), NEW due \in SUBSET (DOMAIN book)
  PROVE  /\ IsFiniteSet({book[i] : i \in due}) /\ IsFiniteSet((DOMAIN book) \ due)
         /\ Cardinality((DOMAIN book) \ due) + Cardinality({book[i] : i \in due})
              = Cardinality(DOMAIN book)
<1> DEFINE gone == {book[i] : i \in due}
           rest == (DOMAIN book) \ due
           f    == [i \in due |-> book[i]]
<1>1. IsFiniteSet(due)
  BY FS_Subset
<1>2. f \in Bijection(due, gone)
  <2>1. f \in [due -> gone]
    OBVIOUS
  <2>2. \A i, j \in due : f[i] = f[j] => i = j
    BY DEF FiledById
  <2>3. \A t \in gone : \E i \in due : f[i] = t
    OBVIOUS
  <2>4. QED
    BY <2>1, <2>2, <2>3 DEF Bijection, Injection, Surjection, IsInjective
<1>3. ExistsBijection(due, gone)
  BY <1>2 DEF ExistsBijection
<1>4. IsFiniteSet(gone) /\ Cardinality(gone) = Cardinality(due)
  BY <1>1, <1>3, FS_Bijection
<1>5. IsFiniteSet(rest)
      /\ Cardinality(rest) = Cardinality(DOMAIN book) - Cardinality((DOMAIN book) \cap due)
  BY FS_Difference
<1>6. (DOMAIN book) \cap due = due
  OBVIOUS
<1>7. Cardinality(due) \in Nat /\ Cardinality(DOMAIN book) \in Nat
  BY <1>1, FS_CardinalityType
<1> HIDE DEF gone, rest, f
<1>8. Cardinality(rest) = Cardinality(DOMAIN book) - Cardinality(due)
  BY <1>5, <1>6
<1>9. Cardinality(rest) + Cardinality(gone) = Cardinality(DOMAIN book)
  BY <1>4, <1>7, <1>8
<1>10. QED
  BY <1>4, <1>5, <1>9 DEF gone, rest

\* Opening and closing change counter and book together.
LEMMA CounterStep ==
  ASSUME DistinctIds
  PROVE  RiskTypeOK /\ AgentsOK /\ PlacesInv /\ CounterInv /\ [PipelineNext]_pipelineVars
           => CounterInv'
<1> USE PipelineAssumption DEF PipelineAssumption
<1> SUFFICES ASSUME RiskTypeOK, AgentsOK, PlacesInv, CounterInv,
                    [PipelineNext]_pipelineVars
             PROVE  CounterInv'
  OBVIOUS
<1> DEFINE held == DOMAIN book
<1>0. /\ IsFiniteSet(held) /\ IsFiniteSet(exits) /\ flattening \subseteq held
      /\ openPositions = Cardinality(held) + Cardinality(exits)
      /\ Cardinality(held) \in Nat /\ Cardinality(exits) \in Nat
      /\ openPositions \in Nat
  BY FS_CardinalityType DEF CounterInv, CounterMatchesBook, RiskTypeOK
<1>1. CASE UNCHANGED <<openPositions, book, exits, flattening>>
  BY <1>0, <1>1 DEF CounterInv, CounterMatchesBook
<1>2. CASE EntryFilled
  <2> DEFINE id == ClientIdOf[inFlight]
  <2>1. /\ inFlight \in Setups /\ openPositions' = openPositions + 1
        /\ DOMAIN book' = held \union {id}
        /\ UNCHANGED <<exits, flattening>>
    BY <1>2 DEF EntryFilled, AgentsOK, OnPositionOpened
  <2>2. id \notin held
    <3>1. SUFFICES ASSUME id \in held PROVE FALSE
      OBVIOUS
    <3>2. book[id] \in Setups /\ ClientIdOf[book[id]] = id
      BY <3>1 DEF PlacesInv, FiledById, AgentsOK
    <3>3. book[id] = inFlight
      BY <2>1, <3>2 DEF DistinctIds
    <3>4. InBook(inFlight)
      BY <3>1, <3>3 DEF InBook
    <3>5. QED
      BY <2>1, <3>4 DEF PlacesInv, OnePlace
  <2>3. IsFiniteSet(held \union {id}) /\ Cardinality(held \union {id}) = Cardinality(held) + 1
    BY <1>0, <2>2, FS_AddElement
  <2>4. QED
    BY <1>0, <2>1, <2>3 DEF CounterInv, CounterMatchesBook
<1>3. CASE ExecTick
  <2>1. PICK due \in SUBSET (DOMAIN book) :
               /\ book' = [i \in (DOMAIN book) \ due |-> book[i]]
               /\ exits' = {book[i] : i \in due}
    BY <1>3 DEF ExecTick
  <2>2. exits = {} /\ flattening = {} /\ flattening' = {} /\ openPositions' = openPositions
    BY <1>3 DEF ExecTick, Receives, ExecIdle, riskVars
  <2>3. FiledById
    BY DEF PlacesInv
  <2>4. /\ IsFiniteSet(exits') /\ IsFiniteSet(DOMAIN book')
        /\ Cardinality(DOMAIN book') + Cardinality(exits') = Cardinality(held)
    BY <1>0, <2>1, <2>3, SplitBook
  <2>5. openPositions = Cardinality(held)
    BY <1>0, <2>2, FS_EmptySet
  <2>6. openPositions' = Cardinality(DOMAIN book') + Cardinality(exits')
    BY <2>2, <2>4, <2>5
  <2>7. QED
    BY <2>2, <2>4, <2>6 DEF CounterInv, CounterMatchesBook
<1>4. ASSUME NEW s \in Setups, BookExit(s) PROVE CounterInv'
  <2>1. /\ s \in exits /\ exits' = exits \ {s} /\ UNCHANGED <<book, flattening>>
        /\ \E pnl \in Pnls : OnPositionClosed(pnl)
    BY <1>4 DEF BookExit
  <2>2. IsFiniteSet(exits \ {s}) /\ Cardinality(exits \ {s}) = Cardinality(exits) - 1
    BY <1>0, <2>1, FS_RemoveElement
  <2>3. Cardinality(exits \ {s}) \in Nat
    BY <2>2, FS_CardinalityType
  <2>4. openPositions' = openPositions - 1
    BY <1>0, <2>1, <2>2, <2>3 DEF OnPositionClosed
  <2>5. QED
    BY <1>0, <2>1, <2>2, <2>4 DEF CounterInv, CounterMatchesBook
<1>5. ASSUME NEW id \in ClientIds, FlattenOne(id) PROVE CounterInv'
  <2>1. /\ id \in flattening /\ flattening' = flattening \ {id}
        /\ DOMAIN book' = held \ {id} /\ exits' = exits
        /\ \E pnl \in Pnls : OnPositionClosed(pnl)
    BY <1>5 DEF FlattenOne
  <2>2. IsFiniteSet(held \ {id}) /\ Cardinality(held \ {id}) = Cardinality(held) - 1
    BY <1>0, <2>1, FS_RemoveElement
  <2>3. Cardinality(held \ {id}) \in Nat
    BY <2>2, FS_CardinalityType
  <2>4. openPositions' = openPositions - 1
    BY <1>0, <2>1, <2>2, <2>3 DEF OnPositionClosed
  <2>5. QED
    BY <1>0, <2>1, <2>2, <2>4 DEF CounterInv, CounterMatchesBook
<1>6. CASE ExecFlatAll
  <2>1. flattening' = held /\ UNCHANGED <<openPositions, book, exits>>
    BY <1>6 DEF ExecFlatAll, riskVars
  <2>2. QED
    BY <1>0, <2>1 DEF CounterInv, CounterMatchesBook
<1>7. QED
  <2>1. CASE UNCHANGED pipelineVars
    BY <1>1, <2>1 DEF pipelineVars, agentVars, riskVars
  <2>2. CASE \E s \in Setups : Emit(s)
    BY <1>1, <2>2 DEF Emit, riskVars
  <2>3. CASE RiskAgent \/ BrainOutcome \/ ManagerAgent
    BY <1>1, <2>3 DEF RiskAgent, RiskSurvival, RiskVerdict, BrainOutcome, ManagerAgent,
                      ManagerSurvival, ManagerVerdict, riskVars
  <2>4. CASE ExecSurvival \/ ExecGate \/ EntryFailed
    BY <1>1, <2>4 DEF ExecSurvival, ExecGate, EntryFailed, riskVars
  <2>5. CASE Environment
    BY <1>1, <2>5 DEF Environment, Interfere, Freeze, Unfreeze, ResetDaily, PublishMode,
                      PublishToExec, agentVars, riskVars
  <2>6. QED
    BY <1>2, <1>3, <1>4, <1>5, <1>6, <2>1, <2>2, <2>3, <2>4, <2>5
       DEF PipelineNext, ExecAgent

\* Everything the theorems below rest on, as one invariant.
PipelineInv == RiskTypeOK /\ InboxesOK /\ AgentsOK /\ PlacesInv

\* Before the first message nothing is queued, in flight or open.
LEMMA InitPlaces == PipelineInit => PlacesInv /\ CounterInv
<1> SUFFICES ASSUME PipelineInit PROVE PlacesInv /\ CounterInv
  OBVIOUS
<1>1. /\ DOMAIN riskIn = {} /\ DOMAIN brainIn = {} /\ DOMAIN managerIn = {}
      /\ DOMAIN execIn = {} /\ DOMAIN book = {}
      /\ exits = {} /\ flattening = {} /\ inFlight = NoSetup /\ openPositions = 0
  BY DEF PipelineInit, RiskInit
<1>2. NoRepeats /\ FiledById
  BY <1>1 DEF NoRepeats, NoRepeat, FiledById
<1>3. \A s \in Setups : OnePlace(s)
  BY <1>1, PipelineAssumption DEF OnePlace, InBook, Queued, PipelineAssumption
<1>4. CounterInv
  BY <1>1, FS_EmptySet DEF CounterInv, CounterMatchesBook
<1>5. QED
  BY <1>2, <1>3, <1>4 DEF PlacesInv

\* Types and places hold in every reachable state.
LEMMA PipelineInvariant == PipelineSpec => []PipelineInv
<1>1. PipelineSpec => []PipelineTypeOK
  BY PipelineTypeInvariant
<1>2. PipelineTypeOK /\ PlacesInv /\ [PipelineNext]_pipelineVars => PlacesInv'
  BY TypeParts, PlacesStep
<1>3. PipelineTypeOK /\ PlacesInv => PipelineInv
  BY TypeParts DEF PipelineInv
<1>4. QED
  BY <1>1, <1>2, <1>3, InitPlaces, PTL DEF PipelineSpec

\* A behaviour with history is a behaviour of the pipeline.
LEMMA HistoryIsPipeline == Spec => PipelineSpec
<1>1. Init => PipelineInit
  BY DEF Init
<1>2. [Next]_checkVars => [PipelineNext]_pipelineVars
  BY DEF Next, checkVars
<1>3. QED
  BY <1>1, <1>2, PTL DEF Spec, PipelineSpec

\* The risk manager's counter and the position book agree in every reachable
\* state, up to the exits under way, if no two setups share a client id.
THEOREM CounterTheorem ==
  ASSUME DistinctIds
  PROVE  Spec => []CounterMatchesBook
<1>1. PipelineInv /\ CounterInv /\ [PipelineNext]_pipelineVars => CounterInv'
  BY CounterStep DEF PipelineInv
<1>2. PipelineSpec => []CounterInv
  BY <1>1, PipelineInvariant, InitPlaces, PTL DEF PipelineSpec
<1>3. CounterInv => CounterMatchesBook
  BY DEF CounterInv
<1>4. QED
  BY <1>2, <1>3, HistoryIsPipeline, PTL

-----------------------------------------------------------------------------
(* The mode the execution agent will have *)

NoModeIn(q, from, to) == \A k \in from..to : q[k].kind # "mode"

\* With the mode em and the inbox q, the agent is in the frozen mode once it
\* has handled the first n messages.
FrozenAfter(q, em, n) ==
  \/ em = "Frozen" /\ NoModeIn(q, 1, n)
  \/ \E j \in 1..n : q[j] = Mode("Frozen") /\ NoModeIn(q, j + 1, n)

\* The mode after handling one message.
ModeAfter(em, msg) == IF msg.kind = "mode" THEN msg.mode ELSE em

\* A message behind the first n says nothing about them.
LEMMA FrozenPrefix ==
  ASSUME NEW M, NEW q \in Seq(M), NEW m \in M, NEW em, NEW n \in 0..Len(q),
         FrozenAfter(q, em, n)
  PROVE  FrozenAfter(Append(q, m), em, n)
<1>1. /\ Len(q) \in Nat
      /\ \A k \in 1..n : Append(q, m)[k] = q[k]
  OBVIOUS
<1>2. CASE em = "Frozen" /\ NoModeIn(q, 1, n)
  BY <1>1, <1>2 DEF FrozenAfter, NoModeIn
<1>3. ASSUME NEW j \in 1..n, q[j] = Mode("Frozen"), NoModeIn(q, j + 1, n)
      PROVE  FrozenAfter(Append(q, m), em, n)
  <2>1. Append(q, m)[j] = Mode("Frozen")
    BY <1>1, <1>3
  <2>2. NoModeIn(Append(q, m), j + 1, n)
    <3>1. \A k \in (j + 1)..n : k \in 1..n
      OBVIOUS
    <3>2. QED
      BY <1>1, <1>3, <3>1 DEF NoModeIn
  <2>3. QED
    BY <2>1, <2>2 DEF FrozenAfter
<1>4. QED
  BY <1>2, <1>3 DEF FrozenAfter

\* One more message: it is the frozen mode, or no mode and the inbox before
\* it ended frozen.
LEMMA FrozenAppend ==
  ASSUME NEW M, NEW q \in Seq(M), NEW m \in M, NEW em,
         \/ m = Mode("Frozen")
         \/ m.kind # "mode" /\ FrozenAfter(q, em, Len(q))
  PROVE  FrozenAfter(Append(q, m), em, Len(Append(q, m)))
<1> DEFINE r == Append(q, m)
           n == Len(q)
<1>1. /\ n \in Nat /\ Len(r) = n + 1 /\ r[n + 1] = m
      /\ \A k \in 1..n : r[k] = q[k]
  OBVIOUS
<1> HIDE DEF r, n
<1>2. CASE m = Mode("Frozen")
  <2>1. n + 1 \in 1..(n + 1) /\ NoModeIn(r, n + 1 + 1, n + 1)
    BY <1>1 DEF NoModeIn
  <2>2. QED
    BY <1>1, <1>2, <2>1 DEF FrozenAfter, r
<1>3. CASE m.kind # "mode" /\ FrozenAfter(q, em, n)
  <2>1. CASE em = "Frozen" /\ NoModeIn(q, 1, n)
    <3>1. NoModeIn(r, 1, n + 1)
      <4> SUFFICES ASSUME NEW k \in 1..(n + 1) PROVE r[k].kind # "mode"
        BY DEF NoModeIn
      <4>1. k \in 1..n \/ k = n + 1
        BY <1>1
      <4>2. QED
        BY <1>1, <1>3, <2>1, <4>1 DEF NoModeIn
    <3>2. QED
      BY <1>1, <2>1, <3>1 DEF FrozenAfter, r
  <2>2. ASSUME NEW j \in 1..n, q[j] = Mode("Frozen"), NoModeIn(q, j + 1, n)
        PROVE  FrozenAfter(r, em, n + 1)
    <3>1. j \in 1..(n + 1) /\ r[j] = Mode("Frozen")
      BY <1>1, <2>2
    <3>2. NoModeIn(r, j + 1, n + 1)
      <4> SUFFICES ASSUME NEW k \in (j + 1)..(n + 1) PROVE r[k].kind # "mode"
        BY DEF NoModeIn
      <4>1. (k \in 1..n /\ k \in (j + 1)..n) \/ k = n + 1
        BY <1>1
      <4>2. QED
        BY <1>1, <1>3, <2>2, <4>1 DEF NoModeIn
    <3>3. QED
      BY <3>1, <3>2 DEF FrozenAfter
  <2>3. QED
    BY <1>1, <1>3, <2>1, <2>2 DEF FrozenAfter, r
<1>4. QED
  BY <1>2, <1>3 DEF n, r

\* Handling the first message leaves the same mode at the end.
LEMMA FrozenTail ==
  ASSUME NEW M, NEW q \in Seq(M), NEW em, q # <<>>, NEW n \in 1..Len(q),
         FrozenAfter(q, em, n)
  PROVE  FrozenAfter(Tail(q), ModeAfter(em, Head(q)), n - 1)
<1> DEFINE t == Tail(q)
<1>1. /\ Len(q) \in Nat /\ Len(q) # 0 /\ Head(q) = q[1]
      /\ \A k \in 1..(Len(q) - 1) : t[k] = q[k + 1]
  BY HeadTailProperties, EmptySeq, LenProperties
<1> HIDE DEF t
<1>2. \A a \in 1..n : NoModeIn(q, a + 1, n) => NoModeIn(t, a, n - 1)
  <2> SUFFICES ASSUME NEW a \in 1..n, NoModeIn(q, a + 1, n), NEW k \in a..(n - 1)
               PROVE  t[k].kind # "mode"
    BY DEF NoModeIn
  <2>1. k \in 1..(Len(q) - 1) /\ k + 1 \in (a + 1)..n
    BY <1>1
  <2>2. QED
    BY <1>1, <2>1 DEF NoModeIn
<1>3. CASE em = "Frozen" /\ NoModeIn(q, 1, n)
  <2>1. NoModeIn(q, 1 + 1, n) /\ 1 \in 1..n
    BY <1>3 DEF NoModeIn
  <2>2. NoModeIn(t, 1, n - 1)
    BY <1>2, <2>1
  <2>3. ModeAfter(em, Head(q)) = "Frozen"
    BY <1>1, <1>3, <2>1 DEF NoModeIn, ModeAfter
  <2>4. QED
    BY <2>2, <2>3 DEF FrozenAfter, t
<1>4. ASSUME NEW j \in 1..n, q[j] = Mode("Frozen"), NoModeIn(q, j + 1, n)
      PROVE  FrozenAfter(t, ModeAfter(em, Head(q)), n - 1)
  <2>1. NoModeIn(t, j, n - 1)
    BY <1>2, <1>4
  <2>2. CASE j = 1
    <3>1. ModeAfter(em, Head(q)) = "Frozen"
      BY <1>1, <1>4, <2>2 DEF ModeAfter, Mode
    <3>2. QED
      BY <2>1, <2>2, <3>1 DEF FrozenAfter
  <2>3. CASE j # 1
    <3>1. j - 1 \in 1..(n - 1) /\ j - 1 \in 1..(Len(q) - 1) /\ (j - 1) + 1 = j
      BY <1>1, <2>3
    <3>2. t[j - 1] = Mode("Frozen")
      BY <1>1, <1>4, <3>1
    <3>3. QED
      BY <2>1, <3>1, <3>2 DEF FrozenAfter
  <2>4. QED
    BY <2>2, <2>3
<1>5. QED
  BY <1>3, <1>4 DEF FrozenAfter, t

-----------------------------------------------------------------------------
(* One step, seen from the execution agent's inbox *)

Upstream(s) == \/ s \in waiting
               \/ Queued(s, riskIn) \/ Queued(s, brainIn) \/ Queued(s, managerIn)

Sent(s) == inFlight = s \/ s \in exits \/ InBook(s)

\* The manager hands on the setup at the head of its inbox.
HandsOver(s) ==
  /\ managerIn # <<>> /\ Head(managerIn) = Setup(s)
  /\ managerIn' = Tail(managerIn)
  /\ execIn' = Append(execIn, Setup(s))
  /\ execMode' = execMode
  /\ UNCHANGED <<waiting, riskIn, brainIn, inFlight, exits, book>>

ExecTakes ==
  /\ execIn # <<>> /\ execIn' = Tail(execIn)
  /\ execMode' = ModeAfter(execMode, Head(execIn))

Announces(msg) == execIn' = Append(execIn, msg) /\ execMode' = execMode

\* The inbox gains a verdict or a message of the environment, loses its head,
\* or stays, and the agent's mode follows the head only.
LEMMA ExecInboxStep ==
  ASSUME PipelineInv, [PipelineNext]_pipelineVars
  PROVE  \/ UNCHANGED <<execIn, execMode>>
         \/ ExecTakes
         \/ \E s \in Setups : HandsOver(s)
         \/ \E m \in Modes : Announces(Mode(m))
         \/ \E msg \in {Tick(sym) : sym \in Symbols} \union {FlatAll} : Announces(msg)
<1>1. CASE UNCHANGED pipelineVars
  BY <1>1 DEF pipelineVars, agentVars
<1>2. CASE \E s \in Setups : Emit(s)
  BY <1>2 DEF Emit
<1>3. CASE RiskAgent \/ BrainOutcome \/ ManagerSurvival
  BY <1>3 DEF RiskAgent, RiskSurvival, RiskVerdict, BrainOutcome, ManagerSurvival
<1>4. CASE ManagerVerdict
  <2>1. managerIn \in Seq(InboxMsgs) /\ managerIn # <<>> /\ Head(managerIn).kind = "setup"
    BY <1>4 DEF ManagerVerdict, PipelineInv, InboxesOK
  <2>2. Head(managerIn) \in ExecMsgs
    BY <2>1, TakeHead, InboxSubset
  <2>3. Head(managerIn).setup \in Setups /\ Head(managerIn) = Setup(Head(managerIn).setup)
    BY <2>1, <2>2, MessageKinds
  <2>4. execIn' = execIn \/ HandsOver(Head(managerIn).setup)
    BY <1>4, <2>1, <2>3 DEF ManagerVerdict, HandsOver
  <2>5. execMode' = execMode
    BY <1>4 DEF ManagerVerdict
  <2>6. QED
    BY <2>3, <2>4, <2>5
<1>5. CASE ExecSurvival
  BY <1>5 DEF ExecSurvival, Receives, ExecTakes, ModeAfter
<1>6. CASE ExecGate \/ ExecTick \/ ExecFlatAll
  BY <1>6 DEF ExecGate, ExecTick, ExecFlatAll, Receives, ExecTakes, ModeAfter
<1>7. CASE \/ EntryFilled \/ EntryFailed
           \/ \E s \in Setups : BookExit(s)
           \/ \E id \in ClientIds : FlattenOne(id)
           \/ Interfere
  BY <1>7 DEF EntryFilled, EntryFailed, BookExit, FlattenOne, Interfere, agentVars
<1>8. CASE \E m \in Modes : PublishMode(m)
  BY <1>8 DEF PublishMode, Announces
<1>9. ASSUME NEW msg \in {Tick(sym) : sym \in Symbols} \union {FlatAll}, PublishToExec(msg)
      PROVE  Announces(msg)
  BY <1>9 DEF PublishToExec, Announces
<1>10. QED
  BY <1>1, <1>2, <1>3, <1>4, <1>5, <1>6, <1>7, <1>8, <1>9
     DEF PipelineNext, ManagerAgent, ExecAgent, Environment

\* Nothing goes back upstream.
LEMMA UpstreamStep ==
  ASSUME PipelineInv, [PipelineNext]_pipelineVars, NEW t \in Setups, Upstream(t)'
  PROVE  Upstream(t)
<1> USE InboxSubset
<1>0. /\ riskIn \in Seq(InboxMsgs) /\ brainIn \in Seq(SetupMsgs)
      /\ managerIn \in Seq(InboxMsgs)
  BY DEF PipelineInv, InboxesOK
<1>1. CASE UNCHANGED <<waiting, riskIn, brainIn, managerIn>>
  BY <1>1 DEF Upstream
<1>2. ASSUME NEW s \in Setups, Emit(s) PROVE Upstream(t)
  <2>1. Setup(s) \in InboxMsgs
    BY DEF SetupMsgs, InboxMsgs
  <2>2. Queued(t, riskIn') => Queued(t, riskIn) \/ t = s
    BY <1>0, <1>2, <2>1, AppendOne, SetupInjective DEF Emit
  <2>3. QED
    BY <1>2, <2>2 DEF Emit, Upstream
<1>3. CASE RiskSurvival
  BY <1>0, <1>3, TakeHead DEF RiskSurvival, Upstream
<1>4. CASE RiskVerdict
  <2>1. /\ riskIn # <<>> /\ Head(riskIn) \in SetupMsgs /\ riskIn' = Tail(riskIn)
        /\ brainIn' = Append(brainIn, Head(riskIn)) \/ brainIn' = brainIn
        /\ UNCHANGED <<waiting, managerIn>>
    BY <1>0, <1>4, TakeHead, MessageKinds DEF RiskVerdict
  <2>2. /\ Queued(t, Tail(riskIn)) => Queued(t, riskIn)
        /\ Head(riskIn) = Setup(t) => Queued(t, riskIn)
    BY <1>0, <2>1, TakeHead
  <2>3. Queued(t, Append(brainIn, Head(riskIn))) <=>
          Queued(t, brainIn) \/ Head(riskIn) = Setup(t)
    BY <1>0, <2>1, AppendOne
  <2>4. QED
    BY <2>1, <2>2, <2>3 DEF Upstream
<1>5. CASE BrainOutcome
  <2>1. /\ brainIn # <<>> /\ Head(brainIn) \in InboxMsgs /\ brainIn' = Tail(brainIn)
        /\ managerIn' = Append(managerIn, Head(brainIn)) \/ managerIn' = managerIn
        /\ UNCHANGED <<waiting, riskIn>>
    BY <1>0, <1>5, TakeHead DEF BrainOutcome
  <2>2. /\ Queued(t, Tail(brainIn)) => Queued(t, brainIn)
        /\ Head(brainIn) = Setup(t) => Queued(t, brainIn)
    BY <1>0, <2>1, TakeHead
  <2>3. Queued(t, Append(managerIn, Head(brainIn))) <=>
          Queued(t, managerIn) \/ Head(brainIn) = Setup(t)
    BY <1>0, <2>1, AppendOne
  <2>4. QED
    BY <2>1, <2>2, <2>3 DEF Upstream
<1>6. CASE ManagerSurvival \/ ManagerVerdict
  <2>1. managerIn # <<>> /\ managerIn' = Tail(managerIn) /\ UNCHANGED <<waiting, riskIn, brainIn>>
    BY <1>6 DEF ManagerSurvival, ManagerVerdict
  <2>2. QED
    BY <1>0, <2>1, TakeHead DEF Upstream
<1>7. ASSUME NEW m \in Modes, PublishMode(m) PROVE Upstream(t)
  <2>1. Mode(m) \in InboxMsgs /\ Mode(m) # Setup(t)
    BY DEF ModeMsgs, InboxMsgs, Mode, Setup
  <2>2. QED
    BY <1>0, <1>7, <2>1, AppendOne DEF PublishMode, Upstream
<1>8. CASE ExecAgent \/ Interfere
  BY <1>1, <1>8 DEF ExecAgent, ExecSurvival, ExecGate, EntryFilled, EntryFailed, ExecTick,
                    ExecFlatAll, BookExit, FlattenOne, Interfere, agentVars
<1>9. CASE \E msg \in {Tick(sym) : sym \in Symbols} \union {FlatAll} : PublishToExec(msg)
  BY <1>1, <1>9 DEF PublishToExec
<1>10. CASE UNCHANGED pipelineVars
  BY <1>1, <1>10 DEF pipelineVars, agentVars
<1>11. QED
  BY <1>2, <1>3, <1>4, <1>5, <1>6, <1>7, <1>8, <1>9, <1>10
     DEF PipelineNext, RiskAgent, ManagerAgent, Environment

\* Only a verdict that the agent takes while its mode is not frozen is sent.
LEMMA SentStep ==
  ASSUME PipelineInv, [PipelineNext]_pipelineVars, NEW t \in Setups, Sent(t)'
  PROVE  \/ Sent(t)
         \/ /\ execIn # <<>> /\ Head(execIn) = Setup(t)
            /\ HonorSurvival => execMode # "Frozen"
<1> USE PipelineAssumption DEF PipelineAssumption
<1>1. CASE UNCHANGED <<inFlight, exits, book>>
  BY <1>1 DEF Sent, InBook
<1>2. CASE ExecGate
  <2>1. execIn # <<>> /\ Head(execIn) \in ExecMsgs /\ Head(execIn).kind = "setup"
    BY <1>2, TakeHead DEF ExecGate, Receives, PipelineInv, InboxesOK
  <2>2. Head(execIn) = Setup(Head(execIn).setup)
    BY <2>1, MessageKinds
  <2>3. /\ inFlight' = t => Head(execIn).setup = t /\ (HonorSurvival => execMode # "Frozen")
        /\ UNCHANGED <<exits, book>>
    BY <1>2 DEF ExecGate
  <2>4. QED
    BY <2>1, <2>2, <2>3 DEF Sent, InBook
<1>3. CASE EntryFilled
  <2> DEFINE id == ClientIdOf[inFlight]
  <2>1. /\ inFlight' = NoSetup /\ exits' = exits
        /\ book' = [i \in (DOMAIN book) \union {id} |-> IF i = id THEN inFlight ELSE book[i]]
    BY <1>3 DEF EntryFilled
  <2>2. InBook(t)' => InBook(t) \/ t = inFlight
    BY <2>1 DEF InBook
  <2>3. QED
    BY <2>1, <2>2 DEF Sent
<1>4. CASE EntryFailed
  BY <1>4 DEF EntryFailed, Sent, InBook
<1>5. CASE ExecTick
  <2>1. PICK due \in SUBSET (DOMAIN book) :
               /\ book' = [i \in (DOMAIN book) \ due |-> book[i]]
               /\ exits' = {book[i] : i \in due}
    BY <1>5 DEF ExecTick
  <2>2. (InBook(t)' => InBook(t)) /\ (t \in exits' => InBook(t)) /\ inFlight' = inFlight
    BY <1>5, <2>1 DEF InBook, ExecTick
  <2>3. QED
    BY <2>2 DEF Sent
<1>6. CASE \E s \in Setups : BookExit(s)
  BY <1>6 DEF BookExit, Sent, InBook
<1>7. CASE \E id \in ClientIds : FlattenOne(id)
  BY <1>7 DEF FlattenOne, Sent, InBook
<1>8. CASE ExecSurvival \/ ExecFlatAll
  BY <1>1, <1>8 DEF ExecSurvival, ExecFlatAll
<1>9. CASE \/ UNCHANGED pipelineVars \/ RiskAgent \/ BrainOutcome \/ ManagerAgent
           \/ Environment \/ \E s \in Setups : Emit(s)
  BY <1>1, <1>9 DEF pipelineVars, agentVars, RiskAgent, RiskSurvival, RiskVerdict, BrainOutcome,
                    ManagerAgent, ManagerSurvival, ManagerVerdict, Environment, Interfere,
                    PublishMode, PublishToExec, Emit
<1>10. QED
  BY <1>2, <1>3, <1>4, <1>5, <1>6, <1>7, <1>8, <1>9 DEF PipelineNext, ExecAgent

-----------------------------------------------------------------------------
(* The history variables *)

\* Two messages appended to the same inbox with the same result are one.
LEMMA SameAppended ==
  ASSUME NEW M, NEW q \in Seq(M), NEW a \in M, NEW b \in M, Append(q, a) = Append(q, b)
  PROVE  a = b
<1>1. Append(q, a)[Len(q) + 1] = a /\ Append(q, b)[Len(q) + 1] = b
  OBVIOUS
<1>2. QED
  BY <1>1

\* An inbox with one more message is neither the old one nor its tail.
LEMMA AppendIsNew ==
  ASSUME NEW M, NEW q \in Seq(M), NEW a \in M
  PROVE  Append(q, a) # q /\ (q # <<>> => Append(q, a) # Tail(q))
<1>1. Len(q) \in Nat /\ Len(Append(q, a)) = Len(q) + 1
  OBVIOUS
<1>2. q # <<>> => Len(Tail(q)) = Len(q) - 1
  BY HeadTailProperties
<1>3. QED
  BY <1>1, <1>2

\* The history sees a mode or a verdict only when one reaches the inbox.
LEMMA HistoryOfQuietStep ==
  ASSUME InboxesOK, Records, UNCHANGED <<execIn, execMode>> \/ ExecTakes
  PROVE  lastMode' = lastMode /\ sealed' = sealed
<1>1. \A m \in ExecMsgs : execIn' # Append(execIn, m)
  BY AppendIsNew DEF InboxesOK, ExecTakes
<1>2. PublishedMode = {} /\ ForwardedSetup = {}
  BY <1>1 DEF PublishedMode, ForwardedSetup, ExecMsgs, ModeMsgs, SetupMsgs
<1>3. QED
  BY <1>2 DEF Records

LEMMA HistoryOfHandOver ==
  ASSUME InboxesOK, Records, NEW s \in Setups, HandsOver(s)
  PROVE  /\ lastMode' = lastMode
         /\ sealed' = IF lastMode = "Frozen" THEN sealed \union {s} ELSE sealed
<1>1. Setup(s) \in ExecMsgs /\ \A m \in ExecMsgs : execIn' = Append(execIn, m) => m = Setup(s)
  <2>1. Setup(s) \in ExecMsgs
    BY DEF ExecMsgs, SetupMsgs
  <2>2. QED
    BY <2>1, SameAppended DEF InboxesOK, HandsOver
<1>2. PublishedMode = {}
  BY <1>1 DEF PublishedMode, ExecMsgs, ModeMsgs, Mode, Setup
<1>3. ForwardedSetup = {s}
  <2>1. \A t \in Setups : execIn' = Append(execIn, Setup(t)) => t = s
    BY <1>1, SetupInjective DEF ExecMsgs, SetupMsgs
  <2>2. execIn' = Append(execIn, Setup(s))
    BY DEF HandsOver
  <2>3. QED
    BY <2>1, <2>2 DEF ForwardedSetup
<1>4. QED
  BY <1>2, <1>3 DEF Records

LEMMA HistoryOfMode ==
  ASSUME InboxesOK, Records, NEW m \in Modes, Announces(Mode(m))
  PROVE  lastMode' = m /\ sealed' = sealed
<1>1. Mode(m) \in ExecMsgs /\ \A n \in ExecMsgs : execIn' = Append(execIn, n) => n = Mode(m)
  <2>1. Mode(m) \in ExecMsgs
    BY DEF ExecMsgs, ModeMsgs
  <2>2. QED
    BY <2>1, SameAppended DEF InboxesOK, Announces
<1>2. PublishedMode = {m}
  <2>1. \A n \in Modes : Mode(n).mode = n /\ Mode(n) \in ExecMsgs
    BY DEF ExecMsgs, ModeMsgs, Mode
  <2>2. \A n \in Modes : execIn' = Append(execIn, Mode(n)) => n = m
    BY <1>1, <2>1
  <2>3. execIn' = Append(execIn, Mode(m))
    BY DEF Announces
  <2>4. QED
    BY <2>2, <2>3 DEF PublishedMode
<1>3. ForwardedSetup = {}
  BY <1>1 DEF ForwardedSetup, ExecMsgs, SetupMsgs, Mode, Setup
<1>4. (CHOOSE n \in {m} : TRUE) = m
  OBVIOUS
<1>5. QED
  BY <1>2, <1>3, <1>4 DEF Records

LEMMA HistoryOfOther ==
  ASSUME InboxesOK, Records,
         NEW msg \in {Tick(sym) : sym \in Symbols} \union {FlatAll}, Announces(msg)
  PROVE  lastMode' = lastMode /\ sealed' = sealed
<1>1. msg \in ExecMsgs /\ msg.kind # "mode" /\ msg.kind # "setup"
  BY DEF ExecMsgs, Tick, FlatAll
<1>2. ASSUME NEW n \in ExecMsgs, execIn' = Append(execIn, n) PROVE n = msg
  <2>1. execIn \in Seq(ExecMsgs) /\ Append(execIn, msg) = Append(execIn, n)
    BY <1>2 DEF InboxesOK, Announces
  <2>2. QED
    BY <1>1, <2>1, SameAppended
<1>3. PublishedMode = {} /\ ForwardedSetup = {}
  BY <1>1, <1>2 DEF PublishedMode, ForwardedSetup, ExecMsgs, ModeMsgs, SetupMsgs, Mode, Setup
<1>4. QED
  BY <1>3 DEF Records

-----------------------------------------------------------------------------
(* The invariant *)

\* The agent reaches the verdict on s in the frozen mode.
ReachedFrozen(s) ==
  \A i \in DOMAIN execIn : execIn[i] = Setup(s) => FrozenAfter(execIn, execMode, i - 1)

SealedInv ==
  /\ sealed \subseteq Setups
  /\ lastMode = "Frozen" => FrozenAfter(execIn, execMode, Len(execIn))
  /\ \A s \in sealed : ~Upstream(s) /\ (HonorSurvival => ~Sent(s)) /\ ReachedFrozen(s)

\* The inbox and the modes: what the last announcement and the order of the
\* messages promise is kept.
LEMMA FrozenInboxStep ==
  ASSUME PipelineInv, SealedInv, [PipelineNext]_pipelineVars, Records
  PROVE  /\ sealed' \subseteq Setups
         /\ lastMode' = "Frozen" => FrozenAfter(execIn', execMode', Len(execIn'))
         /\ \A s \in sealed' : ReachedFrozen(s)'
<1> DEFINE Goal == /\ sealed' \subseteq Setups
                   /\ lastMode' = "Frozen" => FrozenAfter(execIn', execMode', Len(execIn'))
                   /\ \A s \in sealed' : ReachedFrozen(s)'
<1>0. /\ InboxesOK /\ execIn \in Seq(ExecMsgs) /\ Len(execIn) \in Nat
      /\ DOMAIN execIn = 1..Len(execIn)
  BY DEF PipelineInv, InboxesOK
<1>1. CASE UNCHANGED <<execIn, execMode>>
  <2>1. lastMode' = lastMode /\ sealed' = sealed
    BY <1>0, <1>1, HistoryOfQuietStep
  <2>2. QED
    BY <1>1, <2>1 DEF SealedInv, ReachedFrozen
<1>2. CASE ExecTakes
  <2>1. lastMode' = lastMode /\ sealed' = sealed
    BY <1>0, <1>2, HistoryOfQuietStep
  <2>2. /\ execIn # <<>> /\ execIn' = Tail(execIn)
        /\ execMode' = ModeAfter(execMode, Head(execIn))
    BY <1>2 DEF ExecTakes
  <2>3. /\ Len(execIn) >= 1 /\ Len(execIn') = Len(execIn) - 1
        /\ DOMAIN execIn' = 1..(Len(execIn) - 1)
        /\ \A i \in 1..(Len(execIn) - 1) : execIn'[i] = execIn[i + 1]
    BY <1>0, <2>2, HeadTailProperties, EmptySeq, LenProperties
  <2>4. \A n \in 1..Len(execIn) :
          FrozenAfter(execIn, execMode, n) => FrozenAfter(execIn', execMode', n - 1)
    BY <1>0, <2>2, FrozenTail
  <2>5. lastMode' = "Frozen" => FrozenAfter(execIn', execMode', Len(execIn'))
    <3>1. Len(execIn) \in 1..Len(execIn)
      BY <1>0, <2>3
    <3>2. QED
      BY <2>1, <2>3, <2>4, <3>1 DEF SealedInv
  <2>6. ASSUME NEW s \in sealed, NEW i \in DOMAIN execIn', execIn'[i] = Setup(s)
        PROVE  FrozenAfter(execIn', execMode', i - 1)
    <3>1. i \in 1..Len(execIn) /\ i + 1 \in DOMAIN execIn /\ execIn[i + 1] = Setup(s)
          /\ (i + 1) - 1 = i
      BY <1>0, <2>3, <2>6
    <3>2. FrozenAfter(execIn, execMode, (i + 1) - 1)
      BY <3>1 DEF SealedInv, ReachedFrozen
    <3>3. QED
      BY <2>4, <3>1, <3>2
  <2>7. QED
    BY <2>1, <2>5, <2>6 DEF SealedInv, ReachedFrozen
\* A message more: earlier positions keep their prefix.
<1>3. ASSUME NEW m \in ExecMsgs, Announces(m)
      PROVE  /\ Len(execIn') = Len(execIn) + 1 /\ execIn'[Len(execIn) + 1] = m
             /\ \A n \in 0..Len(execIn) : FrozenAfter(execIn, execMode, n) =>
                                          FrozenAfter(execIn', execMode', n)
             /\ \A s \in sealed : m # Setup(s) => ReachedFrozen(s)'
             /\ m = Mode("Frozen") \/ (m.kind # "mode" /\ lastMode = "Frozen")
                  => FrozenAfter(execIn', execMode', Len(execIn'))
  <2>1. execIn' = Append(execIn, m) /\ execMode' = execMode
    BY <1>3 DEF Announces
  <2>2. /\ Len(execIn') = Len(execIn) + 1 /\ execIn'[Len(execIn) + 1] = m
        /\ DOMAIN execIn' = 1..(Len(execIn) + 1)
        /\ \A i \in 1..Len(execIn) : execIn'[i] = execIn[i]
    BY <1>0, <2>1
  <2>3. \A n \in 0..Len(execIn) : FrozenAfter(execIn, execMode, n) =>
                                  FrozenAfter(execIn', execMode', n)
    BY <1>0, <2>1, FrozenPrefix
  <2>4. ASSUME NEW s \in sealed, m # Setup(s) PROVE ReachedFrozen(s)'
    <3> SUFFICES ASSUME NEW i \in DOMAIN execIn', execIn'[i] = Setup(s)
                 PROVE  FrozenAfter(execIn', execMode', i - 1)
      BY DEF ReachedFrozen
    <3>1. i \in 1..Len(execIn) /\ i \in DOMAIN execIn /\ execIn[i] = Setup(s)
          /\ i - 1 \in 0..Len(execIn)
      BY <1>0, <2>2, <2>4
    <3>2. FrozenAfter(execIn, execMode, i - 1)
      BY <3>1 DEF SealedInv, ReachedFrozen
    <3>3. QED
      BY <2>3, <3>1, <3>2
  <2>5. m = Mode("Frozen") \/ (m.kind # "mode" /\ lastMode = "Frozen")
          => FrozenAfter(execIn', execMode', Len(execIn'))
    BY <1>0, <2>1, FrozenAppend DEF SealedInv
  <2>6. QED
    BY <2>2, <2>3, <2>4, <2>5
<1>4. ASSUME NEW s \in Setups, HandsOver(s) PROVE Goal
  <2>1. Setup(s) \in ExecMsgs /\ Announces(Setup(s)) /\ Setup(s).kind = "setup"
    BY <1>4 DEF ExecMsgs, SetupMsgs, HandsOver, Announces, Setup
  <2>2. /\ lastMode' = lastMode
        /\ sealed' = IF lastMode = "Frozen" THEN sealed \union {s} ELSE sealed
    BY <1>0, <1>4, HistoryOfHandOver
  <2>3. Queued(s, managerIn) /\ ~Queued(s, execIn) /\ s \notin sealed
    <3>1. Queued(s, managerIn)
      BY <1>0, <1>4, TakeHead DEF HandsOver, InboxesOK
    <3>2. QED
      BY <3>1 DEF PipelineInv, PlacesInv, OnePlace, SealedInv, Upstream
  <2>4. lastMode' = "Frozen" => FrozenAfter(execIn', execMode', Len(execIn'))
    BY <1>3, <2>1, <2>2
  <2>5. \A t \in sealed : ReachedFrozen(t)'
    <3>1. \A t \in sealed : Setup(s) # Setup(t)
      BY <2>3, SetupInjective
    <3>2. QED
      BY <1>3, <2>1, <3>1
  <2>6. ASSUME lastMode = "Frozen" PROVE ReachedFrozen(s)'
    <3> SUFFICES ASSUME NEW i \in DOMAIN execIn', execIn'[i] = Setup(s)
                 PROVE  FrozenAfter(execIn', execMode', i - 1)
      BY DEF ReachedFrozen
    <3>1. execIn' = Append(execIn, Setup(s))
      BY <1>4 DEF HandsOver
    <3>2. i \notin DOMAIN execIn
      <4>1. i \in DOMAIN execIn => execIn'[i] = execIn[i]
        BY <1>0, <2>1, <3>1
      <4>2. QED
        BY <2>3, <4>1 DEF Queued
    <3>3. i - 1 = Len(execIn) /\ Len(execIn) \in 0..Len(execIn)
      BY <1>0, <2>1, <3>1, <3>2
    <3>4. QED
      BY <1>3, <2>1, <2>6, <3>3 DEF SealedInv
  <2>7. QED
    BY <2>2, <2>4, <2>5, <2>6 DEF SealedInv
<1>5. ASSUME NEW m \in Modes, Announces(Mode(m)) PROVE Goal
  <2>1. Mode(m) \in ExecMsgs /\ \A s \in Setups : Mode(m) # Setup(s)
    BY DEF ExecMsgs, ModeMsgs, Mode, Setup
  <2>2. lastMode' = m /\ sealed' = sealed
    BY <1>0, <1>5, HistoryOfMode
  <2>3. QED
    BY <1>3, <1>5, <2>1, <2>2 DEF SealedInv
<1>6. ASSUME NEW msg \in {Tick(sym) : sym \in Symbols} \union {FlatAll}, Announces(msg)
      PROVE  Goal
  <2>1. msg \in ExecMsgs /\ msg.kind # "mode" /\ msg.kind # "setup"
    BY DEF ExecMsgs, Tick, FlatAll
  <2>2. \A s \in Setups : msg # Setup(s)
    BY <2>1, MessageKinds
  <2>3. lastMode' = lastMode /\ sealed' = sealed
    BY <1>0, <1>6, HistoryOfOther
  <2>4. QED
    BY <1>3, <1>6, <2>1, <2>2, <2>3 DEF SealedInv
<1>7. QED
  BY <1>1, <1>2, <1>4, <1>5, <1>6, ExecInboxStep

\* A sealed verdict is nowhere else, and is not sent: the agent meets it in
\* the frozen mode.
LEMMA SealedPlacesStep ==
  ASSUME PipelineInv, SealedInv, [PipelineNext]_pipelineVars, Records, NEW t \in sealed'
  PROVE  ~Upstream(t)' /\ (HonorSurvival => ~Sent(t)')
<1>0. /\ InboxesOK /\ execIn \in Seq(ExecMsgs) /\ managerIn \in Seq(InboxMsgs)
      /\ sealed \subseteq Setups
  BY DEF PipelineInv, InboxesOK, SealedInv
<1>1. CASE t \in sealed
  <2>1. ~Upstream(t) /\ (HonorSurvival => ~Sent(t)) /\ ReachedFrozen(t) /\ t \in Setups
    BY <1>1 DEF SealedInv
  <2>2. ~Upstream(t)'
    BY <2>1, UpstreamStep
  <2>3. execIn # <<>> /\ Head(execIn) = Setup(t) => execMode = "Frozen"
    <3> SUFFICES ASSUME execIn # <<>>, Head(execIn) = Setup(t) PROVE execMode = "Frozen"
      OBVIOUS
    <3>1. 1 \in DOMAIN execIn /\ execIn[1] = Setup(t)
      BY <1>0, LenProperties, EmptySeq
    <3>2. FrozenAfter(execIn, execMode, 1 - 1)
      BY <2>1, <3>1 DEF ReachedFrozen
    <3>3. QED
      BY <3>2 DEF FrozenAfter
  <2>4. HonorSurvival => ~Sent(t)'
    BY <2>1, <2>3, SentStep
  <2>5. QED
    BY <2>2, <2>4
<1>2. CASE t \notin sealed
  <2>1. HandsOver(t) /\ t \in Setups
    BY <1>0, <1>2, ExecInboxStep, HistoryOfQuietStep, HistoryOfHandOver, HistoryOfMode,
       HistoryOfOther
  <2>2. /\ managerIn # <<>> /\ Head(managerIn) = Setup(t) /\ managerIn' = Tail(managerIn)
        /\ UNCHANGED <<waiting, riskIn, brainIn, inFlight, exits, book>>
    BY <2>1 DEF HandsOver
  <2>3. Queued(t, managerIn) /\ ~Queued(t, managerIn')
    BY <1>0, <2>1, <2>2, TakeHead DEF PipelineInv, PlacesInv, NoRepeats
  <2>4. t \notin waiting /\ ~Queued(t, riskIn) /\ ~Queued(t, brainIn) /\ ~Sent(t)
    BY <2>1, <2>3 DEF PipelineInv, PlacesInv, OnePlace, Sent
  <2>5. QED
    BY <2>2, <2>3, <2>4 DEF Upstream, Sent, InBook
<1>3. QED
  BY <1>1, <1>2

\* With survival switched on, a verdict published while the last announced
\* mode is frozen is never in flight, on the book or among the exits, however
\* late the agents are: the order of the bus makes the agent's own copy of
\* the mode (execution.rs:215-226) fresh enough.
THEOREM FrozenModeTheorem == Spec => []FrozenModeStopsLaterVerdicts
<1>1. Init => SealedInv
  BY DEF Init, SealedInv
<1>2. PipelineInv /\ SealedInv /\ [Next]_checkVars => SealedInv'
  <2> SUFFICES ASSUME PipelineInv, SealedInv, [Next]_checkVars PROVE SealedInv'
    OBVIOUS
  <2>1. CASE UNCHANGED checkVars
    <3>1. UNCHANGED <<execIn, execMode, waiting, riskIn, brainIn, managerIn, inFlight, exits,
                      book, lastMode, sealed>>
      BY <2>1 DEF checkVars, pipelineVars, agentVars, historyVars
    <3>2. QED
      BY <3>1 DEF SealedInv, ReachedFrozen, Upstream, Sent, InBook
  <2>2. CASE Next
    <3>1. [PipelineNext]_pipelineVars /\ Records
      BY <2>2 DEF Next
    <3>2. QED
      BY <3>1, FrozenInboxStep, SealedPlacesStep DEF SealedInv
  <2>3. QED
    BY <2>1, <2>2
<1>3. SealedInv => FrozenModeStopsLaterVerdicts
  BY DEF SealedInv, FrozenModeStopsLaterVerdicts, Sent, InBook
<1>4. QED
  BY <1>1, <1>2, <1>3, HistoryIsPipeline, PipelineInvariant, PTL DEF Spec

-----------------------------------------------------------------------------
(* Stages and places *)

Pending(s) == \/ Queued(s, riskIn) \/ Queued(s, brainIn)
              \/ Queued(s, managerIn) \/ Queued(s, execIn)

Held(s) == s \in exits \/ InBook(s)

\* The stage of a setup that is in one place is the one of that place.
LEMMA StageOfPlace ==
  ASSUME NEW s, OnePlace(s)
  PROVE  /\ s \in waiting => StageOf(s) = "idle"
         /\ Pending(s) => StageOf(s) = "pending"
         /\ inFlight = s => StageOf(s) = "committed"
         /\ Held(s) => StageOf(s) = "open"
         /\ s \notin waiting /\ ~Pending(s) /\ inFlight # s /\ ~Held(s)
              => StageOf(s) = "finished"
<1> DEFINE queued == \E inbox \in {riskIn, brainIn, managerIn, execIn} : Queued(s, inbox)
           held   == s \in exits \/ \E id \in DOMAIN book : book[id] = s
<1>1. (queued <=> Pending(s)) /\ (held <=> Held(s))
  BY DEF Pending, Held, InBook
<1>2. /\ s \in waiting => ~Pending(s) /\ inFlight # s /\ ~Held(s)
      /\ Pending(s) => inFlight # s /\ ~Held(s)
      /\ inFlight = s => ~Held(s)
  BY DEF OnePlace, Pending, Held
<1>3. StageOf(s) = CASE s \in waiting -> "idle"
                     [] queued -> "pending"
                     [] inFlight = s -> "committed"
                     [] held -> "open"
                     [] OTHER -> "finished"
  BY DEF StageOf
<1> HIDE DEF queued, held
<1>4. QED
  BY <1>1, <1>2, <1>3

\* The same after a step.
LEMMA NextStageOfPlace ==
  ASSUME NEW s, OnePlace(s)'
  PROVE  /\ s \in waiting' => StageOf(s)' = "idle"
         /\ Pending(s)' => StageOf(s)' = "pending"
         /\ inFlight' = s => StageOf(s)' = "committed"
         /\ Held(s)' => StageOf(s)' = "open"
         /\ s \notin waiting' /\ ~Pending(s)' /\ inFlight' # s /\ ~Held(s)'
              => StageOf(s)' = "finished"
<1> DEFINE queued == \E inbox \in {riskIn', brainIn', managerIn', execIn'} : Queued(s, inbox)
           held   == s \in exits' \/ \E id \in DOMAIN book' : book'[id] = s
<1>1. (queued <=> Pending(s)') /\ (held <=> Held(s)')
  BY DEF Pending, Held, InBook
<1>2. /\ s \in waiting' => ~Pending(s)' /\ inFlight' # s /\ ~Held(s)'
      /\ Pending(s)' => inFlight' # s /\ ~Held(s)'
      /\ inFlight' = s => ~Held(s)'
  BY DEF OnePlace, Pending, Held
<1>3. StageOf(s)' = CASE s \in waiting' -> "idle"
                      [] queued -> "pending"
                      [] inFlight' = s -> "committed"
                      [] held -> "open"
                      [] OTHER -> "finished"
  BY DEF StageOf
<1> HIDE DEF queued, held
<1>4. QED
  BY <1>1, <1>2, <1>3

\* A setup in no other place than before is in no other stage.
SamePlace(s) ==
  /\ s \in waiting' <=> s \in waiting
  /\ Pending(s)' <=> Pending(s)
  /\ inFlight' = s <=> inFlight = s
  /\ Held(s)' <=> Held(s)

LEMMA SameStage ==
  ASSUME NEW s, OnePlace(s), OnePlace(s)', SamePlace(s)
  PROVE  StageOf(s)' = StageOf(s)
  BY StageOfPlace, NextStageOfPlace DEF SamePlace

\* No stage changes; or exactly the one of s, from one stage to another.
Still == \A t \in Setups : StageOf(t)' = StageOf(t)

Moves(s, from, to) ==
  /\ StageOf(s) = from /\ StageOf(s)' = to
  /\ \A t \in Setups \ {s} : StageOf(t)' = StageOf(t)

LEMMA StillStage ==
  ASSUME Still
  PROVE  [s \in Setups |-> StageOf(s)]' = [s \in Setups |-> StageOf(s)]
  BY DEF Still

LEMMA MovesStage ==
  ASSUME NEW s \in Setups, NEW from, NEW to, Moves(s, from, to)
  PROVE  Lifecycle!Move(s, from, to)
  BY DEF Moves, Lifecycle!Move

\* What becomes of the messages behind the head.
LEMMA HeadOrTail ==
  ASSUME NEW M, NEW q \in Seq(M), q # <<>>, NEW s \in Setups
  PROVE  Queued(s, q) <=> Queued(s, Tail(q)) \/ Head(q) = Setup(s)
<1>1. Queued(s, Tail(q)) \/ Head(q) = Setup(s) => Queued(s, q)
  BY TakeHead
<1>2. ASSUME NEW i \in DOMAIN q, q[i] = Setup(s), Head(q) # Setup(s)
      PROVE  Queued(s, Tail(q))
  <2>1. /\ Len(q) \in Nat /\ DOMAIN q = 1..Len(q) /\ Head(q) = q[1]
        /\ DOMAIN Tail(q) = 1..(Len(q) - 1)
        /\ \A k \in 1..(Len(q) - 1) : Tail(q)[k] = q[k + 1]
    BY HeadTailProperties, EmptySeq, LenProperties
  <2>2. i - 1 \in 1..(Len(q) - 1) /\ (i - 1) + 1 = i
    BY <1>2, <2>1
  <2>3. i - 1 \in DOMAIN Tail(q) /\ Tail(q)[i - 1] = Setup(s)
    BY <1>2, <2>1, <2>2
  <2>4. QED
    BY <2>3 DEF Queued
<1>3. QED
  BY <1>1, <1>2 DEF Queued

-----------------------------------------------------------------------------
(* Steps of the agents before the execution agent *)

EveryOnePlace == \A s \in Setups : OnePlace(s)

\* Only inboxes change, and no setup enters or leaves them.
LEMMA StillInPipe ==
  ASSUME EveryOnePlace, EveryOnePlace', UNCHANGED <<waiting, inFlight, exits, book>>,
         \A t \in Setups : Pending(t)' <=> Pending(t)
  PROVE  Still
  BY SameStage DEF EveryOnePlace, Still, SamePlace, Held, InBook

\* Only inboxes change, and s alone leaves them.
LEMMA DroppedFromPipe ==
  ASSUME EveryOnePlace, EveryOnePlace', UNCHANGED <<waiting, inFlight, exits, book>>,
         NEW s \in Setups, Pending(s), ~Pending(s)',
         \A t \in Setups \ {s} : Pending(t)' <=> Pending(t)
  PROVE  Moves(s, "pending", "finished")
<1>1. OnePlace(s) /\ OnePlace(s)'
  BY DEF EveryOnePlace
<1>2. s \notin waiting /\ inFlight # s /\ ~Held(s)
  BY <1>1 DEF OnePlace, Pending, Held
<1>3. s \notin waiting' /\ inFlight' # s /\ ~Held(s)'
  BY <1>2 DEF Held, InBook
<1>4. StageOf(s) = "pending" /\ StageOf(s)' = "finished"
  BY <1>1, <1>3, StageOfPlace, NextStageOfPlace
<1>5. \A t \in Setups \ {s} : StageOf(t)' = StageOf(t)
  BY SameStage DEF EveryOnePlace, SamePlace, Held, InBook
<1>6. QED
  BY <1>4, <1>5 DEF Moves

\* The signal agent's pre-signal makes the setup pending.
LEMMA EmitMoves ==
  ASSUME PipelineInv, PipelineInv', NEW s \in Setups, Emit(s)
  PROVE  Moves(s, "idle", "pending")
<1>1. EveryOnePlace /\ EveryOnePlace' /\ riskIn \in Seq(InboxMsgs) /\ Setup(s) \in InboxMsgs
  BY DEF PipelineInv, PlacesInv, EveryOnePlace, InboxesOK, SetupMsgs, InboxMsgs
<1>2. \A t \in Setups : Queued(t, riskIn') <=> Queued(t, riskIn) \/ t = s
  <2>1. \A t \in Setups : Queued(t, riskIn') <=> Queued(t, riskIn) \/ Setup(s) = Setup(t)
    BY <1>1, AppendOne DEF Emit
  <2>2. QED
    BY <2>1, SetupInjective
<1>3. /\ s \in waiting /\ waiting' = waiting \ {s}
      /\ UNCHANGED <<brainIn, managerIn, execIn, inFlight, exits, book>>
  BY DEF Emit
<1>4. StageOf(s) = "idle" /\ StageOf(s)' = "pending"
  BY <1>1, <1>2, <1>3, StageOfPlace, NextStageOfPlace DEF EveryOnePlace, Pending
<1>5. \A t \in Setups \ {s} : StageOf(t)' = StageOf(t)
  BY <1>1, <1>2, <1>3, SameStage DEF EveryOnePlace, SamePlace, Pending, Held, InBook
<1>6. QED
  BY <1>4, <1>5 DEF Moves

\* A setup handed from one inbox to the next stays pending, one that is not
\* handed on is finished.
LEMMA RiskMovesOne ==
  ASSUME PipelineInv, PipelineInv', RiskVerdict
  PROVE  Still \/ \E s \in Setups : Moves(s, "pending", "finished")
<1>1. /\ EveryOnePlace /\ EveryOnePlace' /\ riskIn \in Seq(InboxMsgs)
      /\ brainIn \in Seq(SetupMsgs) /\ NoRepeat(riskIn) /\ riskIn # <<>>
      /\ riskIn' = Tail(riskIn)
      /\ UNCHANGED <<waiting, managerIn, execIn, inFlight, exits, book>>
  BY DEF PipelineInv, PlacesInv, NoRepeats, EveryOnePlace, InboxesOK, RiskVerdict
<1>2. Head(riskIn) \in InboxMsgs
  BY <1>1, TakeHead
<1>3. PICK s \in Setups : Head(riskIn) = Setup(s)
  BY <1>2, MessageKinds, InboxSubset DEF RiskVerdict
<1>4. \A t \in Setups : Queued(t, riskIn) <=> Queued(t, riskIn') \/ Setup(s) = Setup(t)
  BY <1>1, <1>3, HeadOrTail
<1>5. CASE brainIn' = Append(brainIn, Head(riskIn))
  <2>1. \A t \in Setups : Queued(t, brainIn') <=> Queued(t, brainIn) \/ Setup(s) = Setup(t)
    BY <1>1, <1>3, <1>5, AppendOne DEF SetupMsgs
  <2>2. Still
    BY <1>1, <1>4, <2>1, StillInPipe DEF Pending
  <2>3. QED
    BY <2>2
<1>6. CASE brainIn' = brainIn
  <2>1. Queued(s, riskIn) /\ ~Queued(s, riskIn')
    BY <1>1, <1>3, TakeHead
  <2>2. ~Queued(s, brainIn) /\ ~Queued(s, managerIn) /\ ~Queued(s, execIn)
    BY <1>1, <2>1 DEF EveryOnePlace, OnePlace
  <2>3. Pending(s) /\ ~Pending(s)'
    BY <1>1, <1>6, <2>1, <2>2 DEF Pending
  <2>4. \A t \in Setups \ {s} : Pending(t)' <=> Pending(t)
    BY <1>1, <1>4, <1>6, SetupInjective DEF Pending
  <2>5. QED
    BY <1>1, <2>3, <2>4, DroppedFromPipe
<1>7. QED
  BY <1>5, <1>6 DEF RiskVerdict

LEMMA BrainMovesOne ==
  ASSUME PipelineInv, PipelineInv', BrainOutcome
  PROVE  Still \/ \E s \in Setups : Moves(s, "pending", "finished")
<1>1. /\ EveryOnePlace /\ EveryOnePlace' /\ brainIn \in Seq(SetupMsgs)
      /\ managerIn \in Seq(InboxMsgs) /\ NoRepeat(brainIn) /\ brainIn # <<>>
      /\ brainIn' = Tail(brainIn)
      /\ UNCHANGED <<waiting, riskIn, execIn, inFlight, exits, book>>
  BY DEF PipelineInv, PlacesInv, NoRepeats, EveryOnePlace, InboxesOK, BrainOutcome
<1>2. Head(brainIn) \in SetupMsgs
  BY <1>1, TakeHead
<1>3. PICK s \in Setups : Head(brainIn) = Setup(s)
  BY <1>2 DEF SetupMsgs
<1>4. \A t \in Setups : Queued(t, brainIn) <=> Queued(t, brainIn') \/ Setup(s) = Setup(t)
  BY <1>1, <1>3, HeadOrTail
<1>5. CASE managerIn' = Append(managerIn, Head(brainIn))
  <2>1. \A t \in Setups : Queued(t, managerIn') <=> Queued(t, managerIn) \/ Setup(s) = Setup(t)
    BY <1>1, <1>2, <1>3, <1>5, AppendOne, InboxSubset
  <2>2. Still
    BY <1>1, <1>4, <2>1, StillInPipe DEF Pending
  <2>3. QED
    BY <2>2
<1>6. CASE managerIn' = managerIn
  <2>1. Queued(s, brainIn) /\ ~Queued(s, brainIn')
    BY <1>1, <1>3, TakeHead
  <2>2. ~Queued(s, riskIn) /\ ~Queued(s, managerIn) /\ ~Queued(s, execIn)
    BY <1>1, <2>1 DEF EveryOnePlace, OnePlace
  <2>3. Pending(s) /\ ~Pending(s)'
    BY <1>1, <1>6, <2>1, <2>2 DEF Pending
  <2>4. \A t \in Setups \ {s} : Pending(t)' <=> Pending(t)
    BY <1>1, <1>4, <1>6, SetupInjective DEF Pending
  <2>5. QED
    BY <1>1, <2>3, <2>4, DroppedFromPipe
<1>7. QED
  BY <1>5, <1>6 DEF BrainOutcome

LEMMA ManagerMovesOne ==
  ASSUME PipelineInv, PipelineInv', ManagerVerdict
  PROVE  Still \/ \E s \in Setups : Moves(s, "pending", "finished")
<1>1. /\ EveryOnePlace /\ EveryOnePlace' /\ managerIn \in Seq(InboxMsgs)
      /\ execIn \in Seq(ExecMsgs) /\ NoRepeat(managerIn) /\ managerIn # <<>>
      /\ managerIn' = Tail(managerIn)
      /\ UNCHANGED <<waiting, riskIn, brainIn, inFlight, exits, book>>
  BY DEF PipelineInv, PlacesInv, NoRepeats, EveryOnePlace, InboxesOK, ManagerVerdict
<1>2. Head(managerIn) \in InboxMsgs
  BY <1>1, TakeHead
<1>3. PICK s \in Setups : Head(managerIn) = Setup(s)
  BY <1>2, MessageKinds, InboxSubset DEF ManagerVerdict
<1>4. \A t \in Setups : Queued(t, managerIn) <=> Queued(t, managerIn') \/ Setup(s) = Setup(t)
  BY <1>1, <1>3, HeadOrTail
<1>5. CASE execIn' = Append(execIn, Head(managerIn))
  <2>1. \A t \in Setups : Queued(t, execIn') <=> Queued(t, execIn) \/ Setup(s) = Setup(t)
    BY <1>1, <1>2, <1>3, <1>5, AppendOne, InboxSubset
  <2>2. Still
    BY <1>1, <1>4, <2>1, StillInPipe DEF Pending
  <2>3. QED
    BY <2>2
<1>6. CASE execIn' = execIn
  <2>1. Queued(s, managerIn) /\ ~Queued(s, managerIn')
    BY <1>1, <1>3, TakeHead
  <2>2. ~Queued(s, riskIn) /\ ~Queued(s, brainIn) /\ ~Queued(s, execIn)
    BY <1>1, <2>1 DEF EveryOnePlace, OnePlace
  <2>3. Pending(s) /\ ~Pending(s)'
    BY <1>1, <1>6, <2>1, <2>2 DEF Pending
  <2>4. \A t \in Setups \ {s} : Pending(t)' <=> Pending(t)
    BY <1>1, <1>4, <1>6, SetupInjective DEF Pending
  <2>5. QED
    BY <1>1, <2>3, <2>4, DroppedFromPipe
<1>7. QED
  BY <1>5, <1>6 DEF ManagerVerdict

-----------------------------------------------------------------------------
(* Messages that are no setups *)

\* A mode, tick or flat-all may come and go without moving a setup.
LEMMA ForeignTail ==
  ASSUME NEW M \in SUBSET ExecMsgs, NEW q \in Seq(M), q # <<>>, Head(q).kind # "setup"
  PROVE  \A t \in Setups : Queued(t, Tail(q)) <=> Queued(t, q)
<1>1. \A t \in Setups : Head(q) # Setup(t)
  BY TakeHead, MessageKinds
<1>2. QED
  BY <1>1, HeadOrTail

LEMMA ForeignAppend ==
  ASSUME NEW M \in SUBSET ExecMsgs, NEW q \in Seq(M), NEW m \in M, m.kind # "setup"
  PROVE  \A t \in Setups : Queued(t, Append(q, m)) <=> Queued(t, q)
<1>1. \A t \in Setups : m # Setup(t)
  BY MessageKinds
<1>2. QED
  BY <1>1, AppendOne

LEMMA ModeMessagesStill ==
  ASSUME PipelineInv, PipelineInv', RiskSurvival \/ ManagerSurvival \/ ExecSurvival \/ ExecFlatAll
  PROVE  Still
<1> USE InboxSubset
<1>1. /\ EveryOnePlace /\ EveryOnePlace' /\ riskIn \in Seq(InboxMsgs)
      /\ managerIn \in Seq(InboxMsgs) /\ execIn \in Seq(ExecMsgs)
  BY DEF PipelineInv, PlacesInv, EveryOnePlace, InboxesOK
<1>2. UNCHANGED <<waiting, brainIn, inFlight, exits, book>>
  BY DEF RiskSurvival, ManagerSurvival, ExecSurvival, ExecFlatAll
<1>3. CASE RiskSurvival
  <2>1. /\ riskIn # <<>> /\ Head(riskIn).kind # "setup" /\ riskIn' = Tail(riskIn)
        /\ UNCHANGED <<managerIn, execIn>>
    BY <1>3 DEF RiskSurvival
  <2>2. \A t \in Setups : Queued(t, riskIn') <=> Queued(t, riskIn)
    BY <1>1, <2>1, ForeignTail
  <2>3. QED
    BY <1>1, <1>2, <2>1, <2>2, StillInPipe DEF Pending
<1>4. CASE ManagerSurvival
  <2>1. /\ managerIn # <<>> /\ Head(managerIn).kind # "setup" /\ managerIn' = Tail(managerIn)
        /\ UNCHANGED <<riskIn, execIn>>
    BY <1>4 DEF ManagerSurvival
  <2>2. \A t \in Setups : Queued(t, managerIn') <=> Queued(t, managerIn)
    BY <1>1, <2>1, ForeignTail
  <2>3. QED
    BY <1>1, <1>2, <2>1, <2>2, StillInPipe DEF Pending
<1>5. CASE ExecSurvival \/ ExecFlatAll
  <2>1. /\ execIn # <<>> /\ Head(execIn).kind # "setup" /\ execIn' = Tail(execIn)
        /\ UNCHANGED <<riskIn, managerIn>>
    BY <1>5 DEF ExecSurvival, ExecFlatAll, Receives
  <2>2. \A t \in Setups : Queued(t, execIn') <=> Queued(t, execIn)
    BY <1>1, <2>1, ForeignTail
  <2>3. QED
    BY <1>1, <1>2, <2>1, <2>2, StillInPipe DEF Pending
<1>6. QED
  BY <1>3, <1>4, <1>5

LEMMA PublishingStill ==
  ASSUME PipelineInv, PipelineInv',
         \/ \E m \in Modes : PublishMode(m)
         \/ \E msg \in {Tick(sym) : sym \in Symbols} \union {FlatAll} : PublishToExec(msg)
  PROVE  Still
<1> USE InboxSubset
<1>1. /\ EveryOnePlace /\ EveryOnePlace' /\ riskIn \in Seq(InboxMsgs)
      /\ managerIn \in Seq(InboxMsgs) /\ execIn \in Seq(ExecMsgs)
  BY DEF PipelineInv, PlacesInv, EveryOnePlace, InboxesOK
<1>2. ASSUME NEW m \in Modes, PublishMode(m) PROVE Still
  <2>1. Mode(m) \in InboxMsgs /\ Mode(m) \in ExecMsgs /\ Mode(m).kind # "setup"
    BY DEF ModeMsgs, InboxMsgs, ExecMsgs, Mode
  <2>2. \A t \in Setups : /\ Queued(t, riskIn') <=> Queued(t, riskIn)
                          /\ Queued(t, managerIn') <=> Queued(t, managerIn)
                          /\ Queued(t, execIn') <=> Queued(t, execIn)
    BY <1>1, <1>2, <2>1, ForeignAppend DEF PublishMode
  <2>3. QED
    BY <1>1, <1>2, <2>2, StillInPipe DEF Pending, PublishMode
<1>3. ASSUME NEW msg \in {Tick(sym) : sym \in Symbols} \union {FlatAll}, PublishToExec(msg)
      PROVE  Still
  <2>1. msg \in ExecMsgs /\ msg.kind # "setup"
    BY DEF ExecMsgs, Tick, FlatAll
  <2>2. \A t \in Setups : Queued(t, execIn') <=> Queued(t, execIn)
    BY <1>1, <1>3, <2>1, ForeignAppend DEF PublishToExec
  <2>3. QED
    BY <1>1, <1>3, <2>2, StillInPipe DEF Pending, PublishToExec
<1>4. QED
  BY <1>2, <1>3

-----------------------------------------------------------------------------
(* Steps of the execution agent *)

\* Nothing is queued or taken off an inbox, and nothing is emitted.
InboxesStay == UNCHANGED <<waiting, riskIn, brainIn, managerIn, execIn>>

LEMMA QuietInboxes ==
  ASSUME InboxesStay, NEW t
  PROVE  (t \in waiting' <=> t \in waiting) /\ (Pending(t)' <=> Pending(t))
  BY DEF InboxesStay, Pending

\* The gate commits the verdict, if nothing blocks and nothing is in flight,
\* or finishes it.
LEMMA GateMoves ==
  ASSUME PipelineInv, PipelineInv', ExecGate
  PROVE  \E s \in Setups :
           \/ Moves(s, "pending", "finished")
           \/ /\ ~IsBlocked
              /\ \A t \in Setups : StageOf(t) # "committed"
              /\ Moves(s, "pending", "committed")
<1> USE PipelineAssumption DEF PipelineAssumption
<1>1. /\ EveryOnePlace /\ EveryOnePlace' /\ execIn \in Seq(ExecMsgs)
      /\ NoRepeat(execIn) /\ execIn # <<>> /\ execIn' = Tail(execIn)
      /\ inFlight = NoSetup /\ exits = {}
      /\ UNCHANGED <<waiting, riskIn, brainIn, managerIn, exits, book>>
  BY DEF PipelineInv, PlacesInv, NoRepeats, EveryOnePlace, InboxesOK, ExecGate, Receives, ExecIdle
<1>2. Head(execIn) \in ExecMsgs /\ Head(execIn).kind = "setup"
  BY <1>1, TakeHead DEF ExecGate, Receives
<1>3. PICK s \in Setups : Head(execIn).setup = s /\ Head(execIn) = Setup(s)
  BY <1>2, MessageKinds
<1>4. \A t \in Setups : Queued(t, execIn) <=> Queued(t, execIn') \/ Setup(s) = Setup(t)
  BY <1>1, <1>3, HeadOrTail
<1>5. Queued(s, execIn) /\ ~Queued(s, execIn')
  BY <1>1, <1>3, TakeHead
<1>6. ~Queued(s, riskIn) /\ ~Queued(s, brainIn) /\ ~Queued(s, managerIn)
      /\ s \notin waiting /\ ~Held(s)
  BY <1>1, <1>3, <1>5 DEF EveryOnePlace, OnePlace, Held
<1>7. Pending(s) /\ ~Pending(s)'
  BY <1>1, <1>5, <1>6 DEF Pending
<1>8. \A t \in Setups \ {s} : Pending(t)' <=> Pending(t)
  BY <1>1, <1>4, SetupInjective DEF Pending
<1>9. CASE inFlight' = NoSetup
  <2>1. UNCHANGED <<waiting, inFlight, exits, book>>
    BY <1>1, <1>9
  <2>2. Moves(s, "pending", "finished")
    BY <1>1, <1>3, <1>7, <1>8, <2>1, DroppedFromPipe
  <2>3. QED
    BY <1>3, <2>2
<1>10. CASE inFlight' = s /\ ~IsBlocked
  <2>1. StageOf(s) = "pending" /\ StageOf(s)' = "committed"
    BY <1>1, <1>3, <1>7, <1>10, StageOfPlace, NextStageOfPlace DEF EveryOnePlace
  <2>2. \A t \in Setups \ {s} : StageOf(t)' = StageOf(t)
    <3>1. \A t \in Setups \ {s} : inFlight' # t /\ inFlight # t
      BY <1>1, <1>10
    <3>2. QED
      BY <1>1, <1>8, <3>1, SameStage DEF EveryOnePlace, SamePlace, Held, InBook
  <2>3. ASSUME NEW t \in Setups PROVE StageOf(t) # "committed"
    <3>1. OnePlace(t) /\ inFlight # t
      BY <1>1 DEF EveryOnePlace
    <3>2. QED
      BY <3>1, StageOfPlace
  <2>4. QED
    BY <1>3, <1>10, <2>1, <2>2, <2>3 DEF Moves
<1>11. QED
  BY <1>3, <1>9, <1>10 DEF ExecGate

\* The acknowledged order opens its setup, and no position is overwritten,
\* since its client id is not on the book.
LEMMA FillMoves ==
  ASSUME DistinctIds, PipelineInv, PipelineInv', EntryFilled
  PROVE  \E s \in Setups : Moves(s, "committed", "open")
<1> USE PipelineAssumption DEF PipelineAssumption
<1>0. PICK s \in Setups : s = inFlight
  BY DEF PipelineInv, AgentsOK, EntryFilled
<1> DEFINE id == ClientIdOf[s]
<1>1. /\ EveryOnePlace /\ EveryOnePlace' /\ s = inFlight /\ inFlight' = NoSetup
      /\ book' = [i \in (DOMAIN book) \union {id} |-> IF i = id THEN s ELSE book[i]]
      /\ exits' = exits /\ InboxesStay
  BY <1>0 DEF PipelineInv, PlacesInv, EveryOnePlace, EntryFilled, InboxesStay
<1>2. id \notin DOMAIN book
  <2>1. SUFFICES ASSUME id \in DOMAIN book PROVE FALSE
    OBVIOUS
  <2>2. book[id] \in Setups /\ ClientIdOf[book[id]] = id
    BY <2>1 DEF PipelineInv, PlacesInv, FiledById, AgentsOK
  <2>3. book[id] = s
    BY <1>1, <2>2 DEF DistinctIds
  <2>4. InBook(s)
    BY <2>1, <2>3 DEF InBook
  <2>5. QED
    BY <1>1, <2>4 DEF EveryOnePlace, OnePlace
<1>3. \A t \in Setups : InBook(t)' <=> InBook(t) \/ t = s
  BY <1>1, <1>2 DEF InBook
<1>4. StageOf(s) = "committed" /\ StageOf(s)' = "open"
  <2>1. OnePlace(s) /\ OnePlace(s)' /\ Held(s)'
    BY <1>1, <1>3 DEF EveryOnePlace, Held
  <2>2. QED
    BY <1>1, <2>1, StageOfPlace, NextStageOfPlace
<1>5. ASSUME NEW t \in Setups \ {s} PROVE StageOf(t)' = StageOf(t)
  <2>1. (inFlight' = t <=> inFlight = t) /\ (Held(t)' <=> Held(t))
    BY <1>1, <1>3 DEF Held
  <2>2. OnePlace(t) /\ OnePlace(t)' /\ SamePlace(t)
    BY <1>1, <2>1, QuietInboxes DEF EveryOnePlace, SamePlace
  <2>3. QED
    BY <2>2, SameStage
<1>6. QED
  BY <1>1, <1>4, <1>5 DEF Moves

LEMMA RejectMoves ==
  ASSUME PipelineInv, PipelineInv', EntryFailed
  PROVE  \E s \in Setups : Moves(s, "committed", "finished")
<1> USE PipelineAssumption DEF PipelineAssumption
<1>0. PICK s \in Setups : s = inFlight
  BY DEF PipelineInv, AgentsOK, EntryFailed
<1>1. /\ EveryOnePlace /\ EveryOnePlace' /\ s = inFlight /\ inFlight' = NoSetup
      /\ UNCHANGED <<book, exits>> /\ InboxesStay
  BY <1>0 DEF PipelineInv, PlacesInv, EveryOnePlace, EntryFailed, InboxesStay
<1>2. \A t \in Setups : Held(t)' <=> Held(t)
  BY <1>1 DEF Held, InBook
<1>3. StageOf(s) = "committed" /\ StageOf(s)' = "finished"
  <2>1. OnePlace(s) /\ OnePlace(s)'
    BY <1>1 DEF EveryOnePlace
  <2>2. s \notin waiting /\ ~Pending(s) /\ ~Held(s)
    BY <1>1, <2>1 DEF OnePlace, Pending, Held
  <2>3. s \notin waiting' /\ ~Pending(s)' /\ ~Held(s)' /\ inFlight' # s
    BY <1>1, <1>2, <2>2, QuietInboxes
  <2>4. QED
    BY <1>1, <2>1, <2>3, StageOfPlace, NextStageOfPlace
<1>4. ASSUME NEW t \in Setups \ {s} PROVE StageOf(t)' = StageOf(t)
  <2>1. inFlight' = t <=> inFlight = t
    BY <1>1
  <2>2. OnePlace(t) /\ OnePlace(t)' /\ SamePlace(t)
    BY <1>1, <1>2, <2>1, QuietInboxes DEF EveryOnePlace, SamePlace
  <2>3. QED
    BY <2>2, SameStage
<1>5. QED
  BY <1>1, <1>3, <1>4 DEF Moves

\* A tick moves positions from the book to the exits: they stay open.
LEMMA TickStill ==
  ASSUME PipelineInv, PipelineInv', ExecTick
  PROVE  Still
<1>1. /\ EveryOnePlace /\ EveryOnePlace' /\ execIn \in Seq(ExecMsgs) /\ execIn # <<>>
      /\ Head(execIn).kind # "setup" /\ execIn' = Tail(execIn) /\ exits = {}
      /\ UNCHANGED <<waiting, riskIn, brainIn, managerIn, inFlight>>
  BY DEF PipelineInv, PlacesInv, EveryOnePlace, InboxesOK, ExecTick, Receives, ExecIdle
<1>2. PICK due \in SUBSET (DOMAIN book) :
             /\ book' = [i \in (DOMAIN book) \ due |-> book[i]]
             /\ exits' = {book[i] : i \in due}
  BY DEF ExecTick
<1>3. \A t \in Setups : Queued(t, execIn') <=> Queued(t, execIn)
  BY <1>1, ForeignTail
<1>4. \A t \in Setups : Held(t)' <=> Held(t)
  BY <1>1, <1>2 DEF Held, InBook
<1>5. \A t \in Setups : OnePlace(t) /\ OnePlace(t)' /\ SamePlace(t)
  BY <1>1, <1>3, <1>4 DEF EveryOnePlace, SamePlace, Pending
<1>6. QED
  BY <1>5, SameStage DEF Still

\* s alone is no longer held.
LEMMA ClosedOne ==
  ASSUME EveryOnePlace, EveryOnePlace', InboxesStay, inFlight' = inFlight,
         NEW s \in Setups, Held(s), ~Held(s)',
         \A t \in Setups \ {s} : Held(t)' <=> Held(t)
  PROVE  Moves(s, "open", "finished")
<1>1. StageOf(s) = "open" /\ StageOf(s)' = "finished"
  <2>1. OnePlace(s) /\ OnePlace(s)'
    BY DEF EveryOnePlace
  <2>2. s \notin waiting /\ ~Pending(s) /\ inFlight # s
    BY <2>1 DEF OnePlace, Pending, Held
  <2>3. s \notin waiting' /\ ~Pending(s)' /\ inFlight' # s
    BY <2>2, QuietInboxes
  <2>4. QED
    BY <2>1, <2>3, StageOfPlace, NextStageOfPlace
<1>2. ASSUME NEW t \in Setups \ {s} PROVE StageOf(t)' = StageOf(t)
  <2>1. OnePlace(t) /\ OnePlace(t)' /\ SamePlace(t)
    BY QuietInboxes DEF EveryOnePlace, SamePlace
  <2>2. QED
    BY <2>1, SameStage
<1>3. QED
  BY <1>1, <1>2 DEF Moves

LEMMA ExitMoves ==
  ASSUME PipelineInv, PipelineInv', NEW s \in Setups, BookExit(s)
  PROVE  Moves(s, "open", "finished")
<1>1. /\ EveryOnePlace /\ EveryOnePlace' /\ s \in exits /\ exits' = exits \ {s}
      /\ InboxesStay /\ inFlight' = inFlight /\ book' = book
  BY DEF PipelineInv, PlacesInv, EveryOnePlace, BookExit, InboxesStay
<1>2. ~InBook(s)
  BY <1>1 DEF EveryOnePlace, OnePlace
<1>3. /\ Held(s) /\ ~Held(s)'
      /\ \A t \in Setups \ {s} : Held(t)' <=> Held(t)
  BY <1>1, <1>2 DEF Held, InBook
<1>4. QED
  BY <1>1, <1>3, ClosedOne

LEMMA FlattenMoves ==
  ASSUME DistinctIds, PipelineInv, PipelineInv', CounterInv, NEW id \in ClientIds, FlattenOne(id)
  PROVE  \E s \in Setups : Moves(s, "open", "finished")
<1>1. /\ EveryOnePlace /\ EveryOnePlace' /\ id \in DOMAIN book
      /\ book' = [i \in (DOMAIN book) \ {id} |-> book[i]] /\ FiledById
      /\ InboxesStay /\ inFlight' = inFlight /\ exits' = exits
  BY DEF PipelineInv, PlacesInv, EveryOnePlace, FlattenOne, InboxesStay, CounterInv
<1>2. PICK s \in Setups : s = book[id]
  BY <1>1 DEF PipelineInv, AgentsOK
<1>3. \A i \in DOMAIN book : book[i] = s => i = id
  BY <1>1, <1>2 DEF FiledById
<1>4. \A t : InBook(t)' <=> InBook(t) /\ t # s
  BY <1>1, <1>2, <1>3 DEF InBook
<1>5. s \notin exits
  BY <1>1, <1>2 DEF EveryOnePlace, OnePlace, InBook
<1>6. Held(s) /\ ~Held(s)' /\ \A t \in Setups \ {s} : Held(t)' <=> Held(t)
  <2>1. InBook(s)
    BY <1>1, <1>2 DEF InBook
  <2>2. QED
    BY <1>1, <1>4, <1>5, <2>1 DEF Held
<1>7. QED
  BY <1>1, <1>6, ClosedOne

-----------------------------------------------------------------------------
(* Refinement *)

\* A step that leaves trip and freeze alone leaves the block alone, and a
\* close only ever adds to it.
LEMMA BlockStep ==
  ASSUME RiskTypeOK
  PROVE  /\ IsBlocked \in BOOLEAN
         /\ UNCHANGED riskVars \/ OnPositionOpened => IsBlocked' = IsBlocked
         /\ (\E pnl \in Pnls : OnPositionClosed(pnl)) => (IsBlocked => IsBlocked')
<1>1. tripped \in BOOLEAN /\ frozen \in BOOLEAN
  BY DEF RiskTypeOK
<1>2. IsBlocked \in BOOLEAN
  BY <1>1 DEF IsBlocked
<1>3. UNCHANGED riskVars \/ OnPositionOpened => IsBlocked' = IsBlocked
  BY DEF IsBlocked, riskVars, OnPositionOpened
<1>4. (\E pnl \in Pnls : OnPositionClosed(pnl)) => (IsBlocked => IsBlocked')
  BY DEF IsBlocked, OnPositionClosed
<1>5. QED
  BY <1>2, <1>3, <1>4

LEMMA MappedInit == PipelineInit => Lifecycle!LifecycleInit
<1> SUFFICES ASSUME PipelineInit PROVE Lifecycle!LifecycleInit
  OBVIOUS
<1>1. PlacesInv
  BY InitPlaces
<1>2. \A s \in Setups : s \in waiting /\ OnePlace(s)
  BY <1>1 DEF PipelineInit, PlacesInv
<1>3. \A s \in Setups : StageOf(s) = "idle"
  BY <1>2, StageOfPlace
<1>4. IsBlocked = FALSE
  BY DEF PipelineInit, RiskInit, IsBlocked
<1>5. QED
  BY <1>3, <1>4 DEF Lifecycle!LifecycleInit

\* Every step of the pipeline is a step of the lifecycle, or none.
LEMMA MappedStep ==
  ASSUME DistinctIds, PipelineInv, PipelineInv', CounterInv, [PipelineNext]_pipelineVars
  PROVE  [Lifecycle!LifecycleNext]_(Lifecycle!lifecycleVars)
<1> DEFINE Goal == [Lifecycle!LifecycleNext]_(Lifecycle!lifecycleVars)
<1>1. /\ IsBlocked' \in BOOLEAN
      /\ UNCHANGED riskVars \/ OnPositionOpened => IsBlocked' = IsBlocked
      /\ (\E pnl \in Pnls : OnPositionClosed(pnl)) => (IsBlocked => IsBlocked')
  BY BlockStep DEF PipelineInv, RiskTypeOK, IsBlocked
\* The two ways to stutter or to stay in every stage.
<1>2. ASSUME Still, IsBlocked' = IsBlocked PROVE Goal
  BY <1>2, StillStage DEF Lifecycle!lifecycleVars
<1>3. ASSUME Still PROVE Goal
  <2>1. Lifecycle!Block
    BY <1>1, <1>3, StillStage DEF Lifecycle!Block
  <2>2. QED
    BY <2>1 DEF Lifecycle!LifecycleNext
<1>4. ASSUME NEW s \in Setups, Moves(s, "pending", "finished"), IsBlocked' = IsBlocked
      PROVE  Goal
  <2>1. Lifecycle!Drop(s)
    BY <1>4, MovesStage DEF Lifecycle!Drop
  <2>2. QED
    BY <2>1 DEF Lifecycle!LifecycleNext
<1>5. ASSUME NEW s \in Setups, Moves(s, "open", "finished"), IsBlocked => IsBlocked'
      PROVE  Goal
  <2>1. Lifecycle!Close(s)
    BY <1>1, <1>5, MovesStage DEF Lifecycle!Close
  <2>2. QED
    BY <2>1 DEF Lifecycle!LifecycleNext
<1>6. CASE UNCHANGED pipelineVars \/ Interfere
  <2>1. UNCHANGED agentVars
    BY <1>6 DEF pipelineVars, Interfere
  <2>2. Still
    BY <2>1 DEF Still, StageOf, agentVars
  <2>3. QED
    BY <1>3, <2>2
<1>7. ASSUME NEW s \in Setups, Emit(s) PROVE Goal
  <2>1. Moves(s, "idle", "pending") /\ IsBlocked' = IsBlocked
    BY <1>1, <1>7, EmitMoves DEF Emit
  <2>2. Lifecycle!Emit(s)
    BY <2>1, MovesStage DEF Lifecycle!Emit
  <2>3. QED
    BY <2>2 DEF Lifecycle!LifecycleNext
<1>8. CASE RiskVerdict \/ BrainOutcome \/ ManagerVerdict
  <2>1. IsBlocked' = IsBlocked
    BY <1>1, <1>8 DEF RiskVerdict, BrainOutcome, ManagerVerdict
  <2>2. QED
    BY <1>2, <1>4, <1>8, <2>1, RiskMovesOne, BrainMovesOne, ManagerMovesOne
<1>9. CASE RiskSurvival \/ ManagerSurvival \/ ExecSurvival \/ ExecFlatAll
  BY <1>3, <1>9, ModeMessagesStill
<1>10. CASE \/ \E m \in Modes : PublishMode(m)
            \/ \E msg \in {Tick(sym) : sym \in Symbols} \union {FlatAll} : PublishToExec(msg)
  BY <1>3, <1>10, PublishingStill
<1>11. CASE ExecGate
  <2>1. IsBlocked' = IsBlocked
    BY <1>1, <1>11 DEF ExecGate
  <2>2. PICK s \in Setups :
          \/ Moves(s, "pending", "finished")
          \/ /\ ~IsBlocked
             /\ \A t \in Setups : StageOf(t) # "committed"
             /\ Moves(s, "pending", "committed")
    BY <1>11, GateMoves
  <2>3. CASE Moves(s, "pending", "finished")
    BY <1>4, <2>1, <2>3
  <2>4. CASE /\ ~IsBlocked
             /\ \A t \in Setups : StageOf(t) # "committed"
             /\ Moves(s, "pending", "committed")
    <3>1. Lifecycle!Commit(s)
      BY <2>1, <2>4, MovesStage DEF Lifecycle!Commit
    <3>2. QED
      BY <3>1 DEF Lifecycle!LifecycleNext
  <2>5. QED
    BY <2>2, <2>3, <2>4
<1>12. CASE EntryFilled
  <2>1. IsBlocked' = IsBlocked
    BY <1>1, <1>12 DEF EntryFilled
  <2>2. PICK s \in Setups : Moves(s, "committed", "open")
    BY <1>12, FillMoves
  <2>3. Lifecycle!Fill(s)
    BY <2>1, <2>2, MovesStage DEF Lifecycle!Fill
  <2>4. QED
    BY <2>3 DEF Lifecycle!LifecycleNext
<1>13. CASE EntryFailed
  <2>1. IsBlocked' = IsBlocked
    BY <1>1, <1>13 DEF EntryFailed
  <2>2. PICK s \in Setups : Moves(s, "committed", "finished")
    BY <1>13, RejectMoves
  <2>3. Lifecycle!Reject(s)
    BY <2>1, <2>2, MovesStage DEF Lifecycle!Reject
  <2>4. QED
    BY <2>3 DEF Lifecycle!LifecycleNext
<1>14. CASE ExecTick
  BY <1>3, <1>14, TickStill
<1>15. ASSUME NEW s \in Setups, BookExit(s) PROVE Goal
  <2>1. IsBlocked => IsBlocked'
    BY <1>1, <1>15 DEF BookExit
  <2>2. QED
    BY <1>5, <1>15, <2>1, ExitMoves
<1>16. ASSUME NEW id \in ClientIds, FlattenOne(id) PROVE Goal
  <2>1. IsBlocked => IsBlocked'
    BY <1>1, <1>16 DEF FlattenOne
  <2>2. QED
    BY <1>5, <1>16, <2>1, FlattenMoves
<1>17. QED
  BY <1>6, <1>7, <1>8, <1>9, <1>10, <1>11, <1>12, <1>13, <1>14, <1>15, <1>16
     DEF PipelineNext, RiskAgent, ManagerAgent, ExecAgent, Environment

\* With distinct client ids the pipeline implements the lifecycle: a setup is
\* decided once, its order goes out one at a time and only while the risk
\* manager does not block, and it is opened and closed at most once, whatever
\* the delays of the agents and however freezes, trips, ticks and flat-alls
\* fall between their steps.
THEOREM LifecycleTheorem ==
  ASSUME DistinctIds
  PROVE  Spec => ImplementsLifecycle
<1>1. PipelineSpec => [](PipelineInv /\ CounterInv)
  <2>1. PipelineInv /\ CounterInv /\ [PipelineNext]_pipelineVars => CounterInv'
    BY CounterStep DEF PipelineInv
  <2>2. QED
    BY <2>1, PipelineInvariant, InitPlaces, PTL DEF PipelineSpec
<1>2. /\ PipelineInv /\ CounterInv /\ PipelineInv' /\ [PipelineNext]_pipelineVars
           => [Lifecycle!LifecycleNext]_(Lifecycle!lifecycleVars)
  BY MappedStep
<1>3. QED
  BY <1>1, <1>2, MappedInit, HistoryIsPipeline, PTL
     DEF PipelineSpec, ImplementsLifecycle, Lifecycle!LifecycleSpec
=============================================================================
