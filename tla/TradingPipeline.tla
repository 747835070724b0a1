-------------------------- MODULE TradingPipeline --------------------------
(***************************************************************************)
(* The decision pipeline of the multi-agent runtime (src/src/agents): a    *)
(* setup travels from the signal agent over risk, brain and manager to the *)
(* execution agent, which opens and closes positions.  Every agent runs in *)
(* its own task, handles one message at a time from its own inbox, and     *)
(* keeps its own copy of the survival mode; publishing on the bus appends  *)
(* to every interested inbox at once, so each inbox sees the bus order.    *)
(*                                                                         *)
(* Abstractions.  A handler that neither awaits between reading and        *)
(* writing, nor reads what others write, is one action; a handler with an  *)
(* await in between (the entry order, a list of exits, a flat-all) is cut  *)
(* there.  A message its receiver ignores is not queued: a blocked risk    *)
(* verdict, a brain outcome that is not Go, a vetoed manager verdict.  Of  *)
(* the survival modes only "may open" (Healthy) and "may not" (Frozen) are *)
(* told apart.  Survival, control, watchdog and the market are the         *)
(* environment: they freeze and unfreeze the risk manager and publish      *)
(* modes, ticks and flat-all as they like, at most MaxEvents of them.      *)
(***************************************************************************)
EXTENDS RiskManager, Sequences, FiniteSets

CONSTANTS
  Setups,            \* pre-signals
  Symbols,
  SymbolOf,          \* the symbol of a setup
  ClientIds,
  ClientIdOf,        \* idempotent_client_id of a setup
  Pnls,              \* profit or loss of one position
  HonorSurvival,     \* survival.enabled: the execution agent asks for the mode
  MaxEvents,         \* bound on the messages of the environment
  NoSetup

ASSUME PipelineAssumption ==
  /\ SymbolOf \in [Setups -> Symbols]
  /\ ClientIdOf \in [Setups -> ClientIds]
  /\ Pnls \subseteq Int
  /\ HonorSurvival \in BOOLEAN
  /\ MaxEvents \in Nat
  /\ NoSetup \notin Setups

VARIABLES
  waiting,           \* setups the signal agent has not emitted yet
  riskIn, brainIn, managerIn, execIn,      \* inboxes
  riskMode, managerMode, execMode,         \* local copies of the survival mode
  inFlight,          \* setup whose entry order is with the exchange, or NoSetup
  book,              \* PositionBook: client id -> setup
  exits,             \* taken off the book by a tick, not yet booked
  flattening,        \* client ids a flat-all still has to close
  events             \* messages of the environment so far

agentVars == <<waiting, riskIn, brainIn, managerIn, execIn, riskMode,
               managerMode, execMode, inFlight, book, exits, flattening, events>>

Modes == {"Healthy", "Frozen"}

Setup(s)   == [kind |-> "setup", setup |-> s]
Mode(m)    == [kind |-> "mode", mode |-> m]
Tick(sym)  == [kind |-> "tick", symbol |-> sym]
FlatAll    == [kind |-> "flat"]

SetupMsgs == {Setup(s) : s \in Setups}
ModeMsgs  == {Mode(m) : m \in Modes}
ExecMsgs  == SetupMsgs \union ModeMsgs \union {Tick(sym) : sym \in Symbols}
               \union {FlatAll}

PipelineTypeOK ==
  /\ RiskTypeOK
  /\ waiting \in SUBSET Setups
  /\ riskIn \in Seq(SetupMsgs \union ModeMsgs)
  /\ brainIn \in Seq(SetupMsgs)
  /\ managerIn \in Seq(SetupMsgs \union ModeMsgs)
  /\ execIn \in Seq(ExecMsgs)
  /\ {riskMode, managerMode, execMode} \subseteq Modes
  /\ inFlight \in Setups \union {NoSetup}
  /\ \E open \in SUBSET ClientIds : book \in [open -> Setups]
  /\ exits \in SUBSET Setups
  /\ flattening \in SUBSET ClientIds
  /\ events \in 0..MaxEvents

PipelineInit ==
  /\ RiskInit
  /\ waiting = Setups
  /\ riskIn = <<>> /\ brainIn = <<>> /\ managerIn = <<>> /\ execIn = <<>>
  /\ riskMode = "Healthy" /\ managerMode = "Healthy" /\ execMode = "Healthy"
  /\ inFlight = NoSetup
  /\ book = <<>>
  /\ exits = {}
  /\ flattening = {}
  /\ events = 0

-----------------------------------------------------------------------------
(* Signal, risk, brain and manager agents *)

\* The signal agent publishes a pre-signal.
Emit(s) ==
  /\ s \in waiting
  /\ waiting' = waiting \ {s}
  /\ riskIn' = Append(riskIn, Setup(s))
  /\ UNCHANGED <<riskVars, brainIn, managerIn, execIn, riskMode, managerMode,
                 execMode, inFlight, book, exits, flattening, events>>

\* Mutant of RiskSurvival: the mode is handed on like a setup.
RiskSurvivalForwards ==
  /\ riskIn # <<>> /\ Head(riskIn).kind = "mode"
  /\ riskMode' = Head(riskIn).mode
  /\ riskIn' = Tail(riskIn)
  /\ brainIn' = Append(brainIn, Head(riskIn))
  /\ UNCHANGED <<riskVars, waiting, managerIn, execIn, managerMode,
                 execMode, inFlight, book, exits, flattening, events>>

RiskSurvival ==
  /\ riskIn # <<>> /\ Head(riskIn).kind = "mode"
  /\ riskMode' = Head(riskIn).mode
  /\ riskIn' = Tail(riskIn)
  /\ UNCHANGED <<riskVars, waiting, brainIn, managerIn, execIn, managerMode,
                 execMode, inFlight, book, exits, flattening, events>>

\* The gates of the risk agent.  Policy, TA threshold, reward/risk, funding,
\* VaR and size may block any setup; the survival mode and can_open_position
\* must let it through.
RiskVerdict ==
  /\ riskIn # <<>> /\ Head(riskIn).kind = "setup"
  /\ riskIn' = Tail(riskIn)
  /\ \/ /\ riskMode # "Frozen"
        /\ CanOpenPosition
        /\ brainIn' = Append(brainIn, Head(riskIn))
     \/ UNCHANGED brainIn
  /\ UNCHANGED <<riskVars, waiting, managerIn, execIn, riskMode, managerMode,
                 execMode, inFlight, book, exits, flattening, events>>

\* The LLM says go; or it says no, fails, or the symbol has no state.
BrainOutcome ==
  /\ brainIn # <<>>
  /\ brainIn' = Tail(brainIn)
  /\ \/ managerIn' = Append(managerIn, Head(brainIn))
     \/ UNCHANGED managerIn
  /\ UNCHANGED <<riskVars, waiting, riskIn, execIn, riskMode, managerMode,
                 execMode, inFlight, book, exits, flattening, events>>

ManagerSurvival ==
  /\ managerIn # <<>> /\ Head(managerIn).kind = "mode"
  /\ managerMode' = Head(managerIn).mode
  /\ managerIn' = Tail(managerIn)
  /\ UNCHANGED <<riskVars, waiting, riskIn, brainIn, execIn, riskMode,
                 execMode, inFlight, book, exits, flattening, events>>

\* Mutant of ManagerVerdict: in a frozen mode the setup is kept for later.
ManagerVerdictWaits ==
  /\ managerMode # "Frozen"
  /\ managerIn # <<>> /\ Head(managerIn).kind = "setup"
  /\ managerIn' = Tail(managerIn)
  /\ \/ execIn' = Append(execIn, Head(managerIn))
     \/ UNCHANGED execIn
  /\ UNCHANGED <<riskVars, waiting, riskIn, brainIn, riskMode, managerMode,
                 execMode, inFlight, book, exits, flattening, events>>

\* Hard veto in a frozen mode; otherwise approve, adjust or veto, by the LLM
\* or, when it is off or fails, by the configuration.
ManagerVerdict ==
  /\ managerIn # <<>> /\ Head(managerIn).kind = "setup"
  /\ managerIn' = Tail(managerIn)
  /\ \/ /\ managerMode # "Frozen"
        /\ execIn' = Append(execIn, Head(managerIn))
     \/ UNCHANGED execIn
  /\ UNCHANGED <<riskVars, waiting, riskIn, brainIn, riskMode, managerMode,
                 execMode, inFlight, book, exits, flattening, events>>

-----------------------------------------------------------------------------
(* Execution agent *)

ExecIdle == inFlight = NoSetup /\ exits = {} /\ flattening = {}

\* Mutant of Receives: handlers run concurrently.
ReceivesAnytime(kind) ==
  /\ execIn # <<>> /\ Head(execIn).kind = kind
  /\ execIn' = Tail(execIn)

\* Taking the next message off the inbox, between two handlers.
Receives(kind) ==
  /\ ExecIdle
  /\ execIn # <<>> /\ Head(execIn).kind = kind
  /\ execIn' = Tail(execIn)

ExecSurvival ==
  /\ Receives("mode")
  /\ execMode' = Head(execIn).mode
  /\ UNCHANGED <<riskVars, waiting, riskIn, brainIn, managerIn, riskMode,
                 managerMode, inFlight, book, exits, flattening, events>>

\* Mutant of ExecGate: the survival mode is left to the manager.
ExecGateIgnoresMode ==
  /\ Receives("setup")
  /\ inFlight' = IF ~IsBlocked THEN Head(execIn).setup ELSE NoSetup
  /\ UNCHANGED <<riskVars, waiting, riskIn, brainIn, managerIn, riskMode,
                 managerMode, execMode, book, exits, flattening, events>>

\* Mutant of ExecGate: the risk manager is not asked again.
ExecGateIgnoresFreeze ==
  /\ Receives("setup")
  /\ inFlight' = IF HonorSurvival => execMode # "Frozen"
                 THEN Head(execIn).setup ELSE NoSetup
  /\ UNCHANGED <<riskVars, waiting, riskIn, brainIn, managerIn, riskMode,
                 managerMode, execMode, book, exits, flattening, events>>

\* The last gates, then the entry order goes to the exchange.  With survival
\* switched off its mode is published all the same, and not asked for here.
ExecGate ==
  /\ Receives("setup")
  /\ inFlight' = IF (HonorSurvival => execMode # "Frozen") /\ ~IsBlocked
                 THEN Head(execIn).setup ELSE NoSetup
  /\ UNCHANGED <<riskVars, waiting, riskIn, brainIn, managerIn, riskMode,
                 managerMode, execMode, book, exits, flattening, events>>

\* The exchange acknowledges the entry: the counter, then the book, keyed by
\* the client id.
EntryFilled ==
  /\ inFlight # NoSetup
  /\ OnPositionOpened
  /\ LET id == ClientIdOf[inFlight]
     IN book' = [i \in (DOMAIN book) \union {id} |->
                   IF i = id THEN inFlight ELSE book[i]]
  /\ inFlight' = NoSetup
  /\ UNCHANGED <<waiting, riskIn, brainIn, managerIn, execIn, riskMode,
                 managerMode, execMode, exits, flattening, events>>

EntryFailed ==
  /\ inFlight # NoSetup
  /\ inFlight' = NoSetup
  /\ UNCHANGED <<riskVars, waiting, riskIn, brainIn, managerIn, execIn, riskMode,
                 managerMode, execMode, book, exits, flattening, events>>

\* check_exits takes any of the symbol's positions off the book.
ExecTick ==
  /\ Receives("tick")
  /\ \E due \in SUBSET {i \in DOMAIN book :
                          SymbolOf[book[i]] = Head(execIn).symbol} :
       /\ book' = [i \in (DOMAIN book) \ due |-> book[i]]
       /\ exits' = {book[i] : i \in due}
  /\ UNCHANGED <<riskVars, waiting, riskIn, brainIn, managerIn, riskMode,
                 managerMode, execMode, inFlight, flattening, events>>

\* One exit: the loss or profit is booked, then the symbol's orders are
\* cancelled and PositionClosed goes out, an await before the next one.
BookExit(s) ==
  /\ s \in exits
  /\ exits' = exits \ {s}
  /\ \E pnl \in Pnls : OnPositionClosed(pnl)
  /\ UNCHANGED <<waiting, riskIn, brainIn, managerIn, execIn, riskMode,
                 managerMode, execMode, inFlight, book, flattening, events>>

\* A flat-all works through a snapshot of the book.
ExecFlatAll ==
  /\ Receives("flat")
  /\ flattening' = DOMAIN book
  /\ UNCHANGED <<riskVars, waiting, riskIn, brainIn, managerIn, riskMode,
                 managerMode, execMode, inFlight, book, exits, events>>

\* After cancelling and sending the closing order, whatever became of it.
FlattenOne(id) ==
  /\ id \in flattening
  /\ flattening' = flattening \ {id}
  /\ \E pnl \in Pnls : OnPositionClosed(pnl)
  /\ book' = [i \in (DOMAIN book) \ {id} |-> book[i]]
  /\ UNCHANGED <<waiting, riskIn, brainIn, managerIn, execIn, riskMode,
                 managerMode, execMode, inFlight, exits, events>>

-----------------------------------------------------------------------------
(* Environment *)

\* Survival, control and watchdog on the shared risk manager, and midnight.
Interfere ==
  /\ Freeze \/ Unfreeze \/ ResetDaily
  /\ UNCHANGED agentVars

\* SurvivalUpdated on the bus.
PublishMode(m) ==
  /\ events < MaxEvents
  /\ events' = events + 1
  /\ riskIn' = Append(riskIn, Mode(m))
  /\ managerIn' = Append(managerIn, Mode(m))
  /\ execIn' = Append(execIn, Mode(m))
  /\ UNCHANGED <<riskVars, waiting, brainIn, riskMode, managerMode, execMode,
                 inFlight, book, exits, flattening>>

\* A tick or a flat-all command on the bus.
PublishToExec(msg) ==
  /\ events < MaxEvents
  /\ events' = events + 1
  /\ execIn' = Append(execIn, msg)
  /\ UNCHANGED <<riskVars, waiting, riskIn, brainIn, managerIn, riskMode,
                 managerMode, execMode, inFlight, book, exits, flattening>>

-----------------------------------------------------------------------------

RiskAgent    == RiskSurvival \/ RiskVerdict
ManagerAgent == ManagerSurvival \/ ManagerVerdict
ExecAgent ==
  \/ ExecSurvival \/ ExecGate \/ EntryFilled \/ EntryFailed \/ ExecTick \/ ExecFlatAll
  \/ \E s \in Setups : BookExit(s)
  \/ \E id \in ClientIds : FlattenOne(id)

Environment ==
  \/ Interfere
  \/ \E m \in Modes : PublishMode(m)
  \/ \E sym \in Symbols : PublishToExec(Tick(sym))
  \/ PublishToExec(FlatAll)

PipelineNext ==
  \/ \E s \in Setups : Emit(s)
  \/ RiskAgent \/ BrainOutcome \/ ManagerAgent \/ ExecAgent
  \/ Environment

pipelineVars == <<riskVars, agentVars>>

PipelineSpec == PipelineInit /\ [][PipelineNext]_pipelineVars

\* Every agent that can handle a message eventually does: the calls it waits
\* for (LLM, exchange) have timeouts.
FairPipelineSpec ==
  /\ PipelineSpec
  /\ WF_pipelineVars(RiskAgent)
  /\ WF_pipelineVars(BrainOutcome)
  /\ WF_pipelineVars(ManagerAgent)
  /\ WF_pipelineVars(ExecAgent)
=============================================================================
