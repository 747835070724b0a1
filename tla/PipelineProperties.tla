------------------------- MODULE PipelineProperties -------------------------
(***************************************************************************)
(* What the pipeline has to guarantee.  Two history variables record what  *)
(* the bus has said so far; they constrain nothing.                        *)
(***************************************************************************)
EXTENDS TradingPipeline

VARIABLES
  lastMode,          \* the survival mode published last
  sealed             \* setups whose verdict was published while it was Frozen

historyVars == <<lastMode, sealed>>

PublishedMode == {m \in Modes : execIn' = Append(execIn, Mode(m))}

ForwardedSetup == {s \in Setups : execIn' = Append(execIn, Setup(s))}

Records ==
  /\ lastMode' = IF PublishedMode = {} THEN lastMode
                 ELSE CHOOSE m \in PublishedMode : TRUE
  /\ sealed' = IF lastMode = "Frozen" THEN sealed \union ForwardedSetup ELSE sealed

Init == PipelineInit /\ lastMode = "Healthy" /\ sealed = {}

Next == PipelineNext /\ Records

checkVars == <<pipelineVars, historyVars>>

Spec == Init /\ [][Next]_checkVars

FairSpec ==
  /\ Spec
  /\ WF_checkVars(RiskAgent /\ Records)
  /\ WF_checkVars(BrainOutcome /\ Records)
  /\ WF_checkVars(ManagerAgent /\ Records)
  /\ WF_checkVars(ExecAgent /\ Records)

-----------------------------------------------------------------------------
(* The abstract lifecycle *)

Queued(s, inbox) == \E i \in DOMAIN inbox : inbox[i] = Setup(s)

\* Where a setup is, read off the inboxes, the order in flight and the book.
StageOf(s) ==
  CASE s \in waiting -> "idle"
    [] \E inbox \in {riskIn, brainIn, managerIn, execIn} : Queued(s, inbox) -> "pending"
    [] inFlight = s -> "committed"
    [] s \in exits \/ \E id \in DOMAIN book : book[id] = s -> "open"
    [] OTHER -> "finished"

Lifecycle == INSTANCE TradeLifecycle
  WITH stage <- [s \in Setups |-> StageOf(s)], blocked <- IsBlocked

\* The pipeline implements the lifecycle: every setup is decided once, goes
\* to the exchange one at a time and only while the risk manager does not
\* block at that moment, and is closed at most once.  So after a freeze at
\* most the one order already in flight can still open.
ImplementsLifecycle == Lifecycle!LifecycleSpec

-----------------------------------------------------------------------------
(* Properties *)

\* The risk manager's counter (risk.rs:284-289) and the position book
\* (position.rs) are two records of the same thing, updated by different
\* calls with awaits between them.  They agree up to the exits a tick has
\* taken off the book and not booked yet, provided client ids are distinct.
CounterMatchesBook ==
  openPositions = Cardinality(DOMAIN book) + Cardinality(exits)

\* With survival switched on, a verdict published after it announced a frozen
\* mode never becomes an order, although the execution agent looks only at its own copy of the
\* mode (execution.rs:215-226) and messages are in transit: the bus order is
\* what makes the copy fresh enough.
FrozenModeStopsLaterVerdicts ==
  HonorSurvival => \A s \in sealed :
    /\ inFlight # s
    /\ s \notin exits
    /\ \A id \in DOMAIN book : book[id] # s

\* Every setup that enters the pipeline is dropped, refused or opened: no
\* verdict, veto or rejected order leaves one waiting in an inbox, and a tick
\* or flat-all in between does not stop the execution agent.
EverySetupIsDecided ==
  \A s \in Setups :
    StageOf(s) \in {"pending", "committed"} ~> StageOf(s) \in {"open", "finished"}
=============================================================================
