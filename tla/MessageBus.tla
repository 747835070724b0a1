----------------------------- MODULE MessageBus -----------------------------
(***************************************************************************)
(* The message bus (src/src/agents/bus.rs), a tokio broadcast channel: a   *)
(* ring of Capacity messages and one read position per subscriber, kept    *)
(* here as the window of messages the subscriber has not read yet.         *)
(* Publishing never waits.  It overwrites the oldest message, and a        *)
(* subscriber that had not read it has lagged: its next recv() returns     *)
(* Err(Lagged).  Every agent loops `while let Ok(ev) = rx.recv().await`,   *)
(* so that error ends the loop, without a word, and nobody restarts it.    *)
(*                                                                         *)
(* The module defines the operations; who publishes what, and what a loop  *)
(* does with a message, is defined by the modules that extend it.          *)
(***************************************************************************)
EXTENDS Naturals, Sequences

CONSTANTS
  Loops,             \* the event loops subscribed to the bus
  Capacity,          \* 4096 in the code
  Messages

ASSUME BusAssumption == Capacity \in Nat \ {0}

VARIABLES
  unread,            \* per loop, the messages still in the ring
  lagged,            \* per loop, a message was overwritten before it was read
  running            \* per loop, it has not ended

busVars == <<unread, lagged, running>>

BusTypeOK ==
  /\ unread \in [Loops -> Seq(Messages)]
  /\ \A l \in Loops : Len(unread[l]) <= Capacity
  /\ lagged \in [Loops -> BOOLEAN]
  /\ running \in [Loops -> BOOLEAN]

BusInit ==
  /\ unread = [l \in Loops |-> <<>>]
  /\ lagged = [l \in Loops |-> FALSE]
  /\ running = [l \in Loops |-> TRUE]

Full(l) == Len(unread[l]) >= Capacity

\* Mutant of Pushed: the bus grows instead of overwriting.
PushedUnbounded(l, m) == IF running[l] THEN Append(unread[l], m) ELSE unread[l]

\* The ring after one more message, m as this loop sees it.
Pushed(l, m) ==
  IF ~running[l] THEN unread[l]
  ELSE IF Full(l) THEN Append(Tail(unread[l]), m) ELSE Append(unread[l], m)

\* Mutant of Publish: a full channel drops the message instead.
PublishDropsNewest(sees) ==
  /\ unread' = [l \in Loops |-> IF running[l] /\ ~Full(l) THEN Append(unread[l], sees[l])
                                ELSE unread[l]]
  /\ UNCHANGED <<lagged, running>>

\* MessageBus::publish; sees[l] is what the message means to loop l.
Publish(sees) ==
  /\ unread' = [l \in Loops |-> Pushed(l, sees[l])]
  /\ lagged' = [l \in Loops |-> lagged[l] \/ (running[l] /\ Full(l))]
  /\ UNCHANGED running

\* recv() hands loop l the message m.
Receive(l, m) ==
  /\ running[l] /\ ~lagged[l]
  /\ unread[l] # <<>> /\ m = Head(unread[l])
  /\ unread' = [unread EXCEPT ![l] = Tail(@)]
  /\ UNCHANGED <<lagged, running>>

\* recv() returns Err(Lagged): the loop is over and its receiver dropped.
EndOfLoop(l) ==
  /\ running[l] /\ lagged[l]
  /\ running' = [running EXCEPT ![l] = FALSE]
  /\ unread' = [unread EXCEPT ![l] = <<>>]
  /\ lagged' = [lagged EXCEPT ![l] = FALSE]
=============================================================================
