--------------------------- MODULE AgentLiveness ---------------------------
(***************************************************************************)
(* The watchdog (src/src/agents/watchdog.rs) over the message bus: agents  *)
(* send heartbeats, the watchdog's event loop notes them, its check task   *)
(* publishes Freeze when one is overdue and Unfreeze when none is, and the *)
(* control agent's event loop carries these out on the risk manager.  It   *)
(* is not alone: an operator's commands come over the same bus, and the    *)
(* survival agent writes the same flag, from two tasks and, on Unfreeze,   *)
(* from its own event loop.                                                *)
(*                                                                         *)
(* An agent's work can hang and come back.  The feeds agent sends its      *)
(* heartbeat from the loop that does the work; data, learning and survival *)
(* send it from a timer task (data.rs:49-63, learning.rs:36-48,            *)
(* survival.rs:117-135), which keeps beating when the work does not.       *)
(*                                                                         *)
(* Time is counted in periods.  A heartbeat timer beats once a period, and *)
(* a period is long enough for the watchdog's loop to read what is in its  *)
(* inbox.  Other agents and the operator publish up to MaxBurst messages   *)
(* in a period.  What survival thinks of the account is left to            *)
(* SurvivalControl: here it may freeze or release it at any time, and the  *)
(* Unfreeze its event loop gets to late is one of these times.             *)
(*                                                                         *)
(* `overridden` is history: the flag was written last on behalf of         *)
(* survival or the operator, not of the watchdog.                          *)
(***************************************************************************)
EXTENDS MessageBus

CONSTANTS
  Workers,           \* agents whose heartbeat comes from their work loop
  Timers,            \* agents whose heartbeat comes from a timer task
  Timeout,           \* cfg.liveness_timeout_secs, in periods
  MaxBurst           \* bound on the other messages of one period

Watched == Workers \union Timers

ASSUME LivenessAssumption ==
  /\ Timeout \in Nat \ {0} /\ MaxBurst \in Nat
  /\ Loops = {"watchdog", "control"}
  /\ Messages = Watched \union {"freeze", "unfreeze", "op_freeze", "op_unfreeze", "other"}

VARIABLES
  working,           \* per watched agent, its work makes progress
  beaten,            \* it has sent its heartbeat of this period
  age,               \* periods since the last heartbeat the watchdog noted
  tripped,           \* the watchdog's own `frozen`
  frozen,            \* RiskManager's
  overridden,
  burst

checkVars == <<working, beaten, age, tripped, frozen, overridden, burst>>
vars == <<busVars, checkVars>>

TypeOK ==
  /\ BusTypeOK
  /\ working \in [Watched -> BOOLEAN] /\ beaten \in [Watched -> BOOLEAN]
  /\ age \in [Watched -> 0..(Timeout + 1)]
  /\ tripped \in BOOLEAN /\ frozen \in BOOLEAN
  /\ overridden \in BOOLEAN
  /\ burst \in 0..MaxBurst

Init ==
  /\ BusInit
  /\ working = [a \in Watched |-> TRUE] /\ beaten = [a \in Watched |-> FALSE]
  /\ age = [a \in Watched |-> 0]
  /\ tripped = FALSE /\ frozen = FALSE /\ overridden = FALSE /\ burst = 0

\* The control agent does not look at whose command it is.
FreezeCommands   == {"freeze", "op_freeze"}
UnfreezeCommands == {"unfreeze", "op_unfreeze"}

\* A message only the watchdog's, or only the control agent's, loop heeds.
ForWatchdog(m) == [l \in Loops |-> IF l = "watchdog" THEN m ELSE "other"]
ForControl(m)  == [l \in Loops |-> IF l = "control" THEN m ELSE "other"]

-----------------------------------------------------------------------------
(* Watched agents *)

Hang(a) ==
  /\ working[a]
  /\ working' = [working EXCEPT ![a] = FALSE]
  /\ UNCHANGED <<busVars, beaten, age, tripped, frozen, overridden, burst>>

Recover(a) ==
  /\ ~working[a]
  /\ working' = [working EXCEPT ![a] = TRUE]
  /\ UNCHANGED <<busVars, beaten, age, tripped, frozen, overridden, burst>>

Beating(a) == a \in Timers \/ working[a]

Beat(a) ==
  /\ Beating(a) /\ ~beaten[a]
  /\ beaten' = [beaten EXCEPT ![a] = TRUE]
  /\ Publish(ForWatchdog(a))
  /\ UNCHANGED <<working, age, tripped, frozen, overridden, burst>>

\* Ticks, candles, signals: nothing to either loop but a place in the ring.
Other ==
  /\ burst < MaxBurst
  /\ burst' = burst + 1
  /\ Publish(ForWatchdog("other"))
  /\ UNCHANGED <<working, beaten, age, tripped, frozen, overridden>>

-----------------------------------------------------------------------------
(* Watchdog and control agent *)

Note(m) ==
  /\ Receive("watchdog", m)
  /\ age' = IF m \in Watched THEN [age EXCEPT ![m] = 0] ELSE age
  /\ UNCHANGED <<working, beaten, tripped, frozen, overridden, burst>>

Stale == {a \in Watched : age[a] > Timeout}

\* Mutant of Check: it takes every agent to be stale.
CheckAll ==
  /\ tripped' = (Stale = Watched)
  /\ tripped # tripped'
  /\ Publish(ForControl(IF tripped' THEN "freeze" ELSE "unfreeze"))
  /\ UNCHANGED <<working, beaten, age, frozen, overridden, burst>>

\* Mutant of Check: it runs in the watchdog's event loop.
CheckInLoop ==
  /\ running["watchdog"]
  /\ tripped' = (Stale # {})
  /\ tripped # tripped'
  /\ Publish(ForControl(IF tripped' THEN "freeze" ELSE "unfreeze"))
  /\ UNCHANGED <<working, beaten, age, frozen, overridden, burst>>

\* Mutant of Check: a freeze is published and never taken back.
CheckNeverReleases ==
  /\ tripped' = (tripped \/ Stale # {})
  /\ tripped # tripped'
  /\ Publish(ForControl("freeze"))
  /\ UNCHANGED <<working, beaten, age, frozen, overridden, burst>>

\* The periodic check: one Freeze when something is stale, one Unfreeze when
\* nothing is any more.
Check ==
  /\ tripped' = (Stale # {})
  /\ tripped # tripped'
  /\ Publish(ForControl(IF tripped' THEN "freeze" ELSE "unfreeze"))
  /\ UNCHANGED <<working, beaten, age, frozen, overridden, burst>>

Control(m) ==
  /\ Receive("control", m)
  /\ frozen' = (m \in FreezeCommands \/ (frozen /\ m \notin UnfreezeCommands))
  /\ overridden' = (m \in {"op_freeze", "op_unfreeze"}
                     \/ (overridden /\ m \notin {"freeze", "unfreeze"}))
  /\ UNCHANGED <<working, beaten, age, tripped, burst>>

Ends(l) == EndOfLoop(l) /\ UNCHANGED checkVars

-----------------------------------------------------------------------------
(* Those who write the same flag *)

\* handle_command or file_loop publishes /freeze or /unfreeze.
Operator ==
  /\ burst < MaxBurst
  /\ burst' = burst + 1
  /\ \E m \in {"op_freeze", "op_unfreeze"} : Publish(ForControl(m))
  /\ UNCHANGED <<working, beaten, age, tripped, frozen, overridden>>

\* apply_state, after a close or on the refresh timer: a mode that may not
\* trade freezes, any other lifts whatever freeze there is; survival's event
\* loop lifts it too when it gets to an Unfreeze.
ApplyState ==
  /\ frozen' \in BOOLEAN
  /\ overridden' = TRUE
  /\ UNCHANGED <<busVars, working, beaten, age, tripped, burst>>

-----------------------------------------------------------------------------

Tick ==
  /\ \A a \in Watched : Beating(a) => beaten[a]
  /\ unread["watchdog"] = <<>>
  /\ age' = [a \in Watched |-> IF age[a] > Timeout THEN age[a] ELSE age[a] + 1]
  /\ beaten' = [a \in Watched |-> FALSE]
  /\ burst' = 0
  /\ UNCHANGED <<busVars, working, tripped, frozen, overridden>>

WatchdogLoop == Ends("watchdog") \/ \E m \in Messages : Note(m)
ControlLoop  == Ends("control") \/ \E m \in Messages : Control(m)

Next ==
  \/ \E a \in Watched : Hang(a) \/ Recover(a) \/ Beat(a)
  \/ Other \/ WatchdogLoop \/ ControlLoop \/ Check \/ Tick
  \/ Operator \/ ApplyState

Spec == Init /\ [][Next]_vars

\* Loops and timers run, the check task too, and time passes.  A loop may
\* still be slow enough to lag.  Nothing is assumed of survival and operator.
FairSpec ==
  /\ Spec
  /\ WF_vars(WatchdogLoop) /\ WF_vars(ControlLoop)
  /\ WF_vars(Check) /\ SF_vars(Tick)
  /\ \A a \in Watched : WF_vars(Beat(a))

-----------------------------------------------------------------------------
(* Properties *)

\* The watchdog says each change of its mind once and never repeats it
\* (watchdog.rs:95-113), and its commands wait among the operator's behind
\* whatever else is on the bus.  As long as the control agent has missed
\* nothing, the watchdog's last decision is still on its way, or it is what
\* the account shows, or survival or the operator have written the flag since.
Commands == {"freeze", "unfreeze"}
Ordered  == IF tripped THEN "freeze" ELSE "unfreeze"

LastCommandIs(inbox, m) ==
  \E i \in 1..Len(inbox) :
    inbox[i] = m /\ \A j \in 1..Len(inbox) : j > i => inbox[j] \notin Commands

NoCommandIn(inbox) == \A i \in 1..Len(inbox) : inbox[i] \notin Commands

CommandsFollowTrip ==
  running["control"] /\ ~lagged["control"] =>
    \/ LastCommandIs(unread["control"], Ordered)
    \/ NoCommandIn(unread["control"]) /\ (frozen = tripped \/ overridden)

\* A work loop that hangs for good ends up freezing the account, and so does
\* a watchdog that no longer hears anything, whatever is lost on the way,
\* provided the control agent's loop is still there to carry the freeze out:
\* an account that trades on is one that survival or the operator released
\* (survival's next refresh does, survival.rs:482-500).
\* A burst may end the watchdog's own loop: then every agent looks stale.
LostLivenessFreezes ==
  /\ \A a \in Workers :
       <>[](~working[a]) => <>[](frozen \/ ~running["control"] \/ overridden)
  /\ <>[](~running["watchdog"])
       => <>[](frozen \/ ~running["control"] \/ overridden)

\* The watchdog's freeze does not outlive its cause: once all work for good
\* and the watchdog hears them, an account that is frozen was frozen by
\* survival or the operator.
AllWorking == \A a \in Watched : working[a]

RecoveryReleases ==
  <>[](AllWorking /\ running["watchdog"])
    => <>[](~frozen \/ ~running["control"] \/ overridden)
=============================================================================
