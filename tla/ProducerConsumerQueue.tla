------------------------ MODULE ProducerConsumerQueue ------------------------
(***************************************************************************)
(* ProducerConsumerQueue.h: a queue with a lock, a condition variable and  *)
(* a cancellation.  A call holds _queueLock from its first statement to    *)
(* its last or to its wait, and is one action up to there.  WaitAndPop     *)
(* returns nothing that tells its caller whether it has a value.  The      *)
(* values themselves do not matter here, only how many there are.          *)
(***************************************************************************)
EXTENDS Naturals, FiniteSets

CONSTANTS
  Getters,   \* threads that call Pop and WaitAndPop
  Capacity   \* bound on the values in the queue

VARIABLES
  size,      \* the number of values in _queue
  shutdown,  \* _shutdown
  getter     \* "idle", "call" (WaitAndPop wants the lock), "wait", "woken"

pcqVars == <<size, shutdown, getter>>

PCQInit ==
  /\ size = 0 /\ shutdown = FALSE
  /\ getter = [g \in Getters |-> "idle"]

Sleeping == {g \in Getters : getter[g] = "wait"}
(* Wakes a set of threads that wait, besides a change of one thread. *)
Woken(gs) == [g \in Getters |-> IF g \in gs THEN "woken" ELSE getter[g]]

\* Fault: a notification only for the first value of a queue.
PushNotifiesFirst ==
  /\ size < Capacity /\ size' = size + 1
  /\ IF Sleeping = {} \/ size > 0 THEN UNCHANGED getter
                                  ELSE \E g \in Sleeping : getter' = Woken({g})
  /\ UNCHANGED shutdown

Push == \* both overloads; also after Cancel
  /\ size < Capacity /\ size' = size + 1
  /\ IF Sleeping = {} THEN UNCHANGED getter ELSE \E g \in Sleeping : getter' = Woken({g})
  /\ UNCHANGED shutdown

Pop(g) ==
  /\ getter[g] = "idle" /\ size > 0 /\ ~shutdown
  /\ size' = size - 1
  /\ UNCHANGED <<shutdown, getter>>

CallWaitAndPop(g) ==
  /\ getter[g] = "idle" /\ getter' = [getter EXCEPT ![g] = "call"]
  /\ UNCHANGED <<size, shutdown>>

Waits(g) ==
  /\ getter[g] \in {"call", "woken"} /\ size = 0 /\ ~shutdown
  /\ getter' = [getter EXCEPT ![g] = "wait"]
  /\ UNCHANGED <<size, shutdown>>

Gets(g) ==
  /\ getter[g] \in {"call", "woken"} /\ size > 0 /\ ~shutdown
  /\ size' = size - 1 /\ getter' = [getter EXCEPT ![g] = "idle"]
  /\ UNCHANGED shutdown

ReturnsNothing(g) ==
  /\ getter[g] \in {"call", "woken"} /\ shutdown
  /\ getter' = [getter EXCEPT ![g] = "idle"]
  /\ UNCHANGED <<size, shutdown>>

SpuriousWakeup(g) ==
  /\ g \in Sleeping /\ getter' = Woken({g})
  /\ UNCHANGED <<size, shutdown>>

\* Fault: notify_one.
CancelNotifiesOne ==
  /\ size' = 0 /\ shutdown' = TRUE
  /\ IF Sleeping = {} THEN UNCHANGED getter ELSE \E g \in Sleeping : getter' = Woken({g})

Cancel == \* deletes what is in the queue, also a second time
  size' = 0 /\ shutdown' = TRUE /\ getter' = Woken(Sleeping)

WaitAndPop(g) == Waits(g) \/ Gets(g) \/ ReturnsNothing(g)

PCQNext ==
  \/ Push \/ Cancel
  \/ \E g \in Getters : Pop(g) \/ CallWaitAndPop(g) \/ WaitAndPop(g) \/ SpuriousWakeup(g)

-----------------------------------------------------------------------------
PCQTypeOK ==
  /\ size \in 0..Capacity /\ shutdown \in BOOLEAN
  /\ getter \in [Getters -> {"idle", "call", "wait", "woken"}]

(***************************************************************************)
(* Nobody sleeps on a value: while a thread waits, every value in the      *)
(* queue has a thread that is on its way to it, and nobody waits in a      *)
(* cancelled queue (lines 24-38, 74-75, 101).                              *)
(***************************************************************************)
NobodySleepsOnValue ==
  Sleeping # {} =>
    /\ ~shutdown
    /\ size <= Cardinality({g \in Getters : getter[g] \in {"call", "woken"}})

(***************************************************************************)
(* Cancel ends every WaitAndPop that sleeps or has begun (lines 68-78, 99- *)
(* 101).                                                                   *)
(***************************************************************************)
CancelReleases == \A g \in Getters : shutdown ~> getter[g] = "idle"

=============================================================================
