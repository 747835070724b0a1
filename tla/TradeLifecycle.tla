--------------------------- MODULE TradeLifecycle ---------------------------
(***************************************************************************)
(* What the pipeline promises about one setup, without agents or queues:   *)
(* it is decided once, it is committed to the exchange only while the risk *)
(* manager is not blocking and one at a time, and it is opened and closed  *)
(* at most once.  TradingPipeline implements this specification.           *)
(***************************************************************************)
CONSTANT Setups

VARIABLES
  stage,             \* per setup
  blocked            \* RiskManager::is_blocked

lifecycleVars == <<stage, blocked>>

Stages == {"idle", "pending", "committed", "open", "finished"}

LifecycleTypeOK ==
  /\ stage \in [Setups -> Stages]
  /\ blocked \in BOOLEAN

LifecycleInit ==
  /\ stage = [s \in Setups |-> "idle"]
  /\ blocked = FALSE

Move(s, from, to) ==
  /\ stage[s] = from
  /\ stage' = [stage EXCEPT ![s] = to]

Emit(s) == Move(s, "idle", "pending") /\ UNCHANGED blocked

Drop(s) == Move(s, "pending", "finished") /\ UNCHANGED blocked

\* The order goes out: not while blocked, and not while another one is out.
Commit(s) ==
  /\ ~blocked
  /\ \A t \in Setups : stage[t] # "committed"
  /\ Move(s, "pending", "committed")
  /\ UNCHANGED blocked

Reject(s) == Move(s, "committed", "finished") /\ UNCHANGED blocked

Fill(s) == Move(s, "committed", "open") /\ UNCHANGED blocked

\* A close may trip the circuit breaker, and never releases it.
Close(s) ==
  /\ Move(s, "open", "finished")
  /\ blocked => blocked'
  /\ blocked' \in BOOLEAN

\* Freeze, unfreeze, daily reset.
Block == blocked' \in BOOLEAN /\ UNCHANGED stage

LifecycleNext ==
  \/ \E s \in Setups : Emit(s) \/ Drop(s) \/ Commit(s) \/ Reject(s) \/ Fill(s) \/ Close(s)
  \/ Block

LifecycleSpec == LifecycleInit /\ [][LifecycleNext]_lifecycleVars
=============================================================================
