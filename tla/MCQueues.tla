------------------------------ MODULE MCQueues ------------------------------
(***************************************************************************)
(* The three queues of Threading/ in one instance for TLC: which of them a *)
(* behaviour is about is chosen at the beginning.                          *)
(***************************************************************************)
EXTENDS MPSCQueue, ProducerConsumerQueue, LockedQueue

VARIABLE which

vars == <<which, mpscVars, pcqVars, lqVars>>

Init == which \in {"mpsc", "pc", "locked"} /\ MPSCInit /\ PCQInit /\ LQInit

Next ==
  /\ UNCHANGED which
  /\ \/ which = "mpsc" /\ MPSCNext /\ UNCHANGED <<pcqVars, lqVars>>
     \/ which = "pc" /\ PCQNext /\ UNCHANGED <<mpscVars, lqVars>>
     \/ which = "locked" /\ LQNext /\ UNCHANGED <<mpscVars, pcqVars>>

(* The calls of all queues that have begun go on. *)
Spec ==
  /\ Init /\ [][Next]_vars
  /\ WF_vars(which = "mpsc" /\ Dequeues /\ UNCHANGED <<which, pcqVars, lqVars>>)
  /\ \A p \in Producers :
       WF_vars(which = "mpsc" /\ Enqueues(p) /\ UNCHANGED <<which, pcqVars, lqVars>>)
  /\ \A g \in Getters :
       WF_vars(which = "pc" /\ WaitAndPop(g) /\ UNCHANGED <<which, mpscVars, lqVars>>)

-----------------------------------------------------------------------------
\* The calls return: those of the lock-free queue whatever other threads do
\* (MPSCQueue.h 95-136), those of WaitAndPop once the queue is cancelled
\* (ProducerConsumerQueue.h 68-78, 99-101).
CallsEnd == CallsReturn /\ CancelReleases

=============================================================================
