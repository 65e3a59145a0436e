------------------------------ MODULE MCDemos ------------------------------
(***************************************************************************)
(* The two demonstrations main.cpp has of code of its own, in one instance *)
(* for TLC: the quicksort on the thread pool, with three different items,  *)
(* and the server of test_iocp.cpp.  Which of them a behaviour is about is *)
(* chosen at the beginning; the other one stays where it begins.           *)
(***************************************************************************)
EXTENDS PoolSort, IocpDemo, TLC

CONSTANTS a, b, c

MCItems == {a, b, c}
MCTasks == MCItems \union {Root}
MCKey == (a :> 1) @@ (b :> 2) @@ (c :> 3)

VARIABLE which

MCInit ==
  /\ which \in {"sort", "iocp"} /\ Init /\ DemoInit
  /\ which = "sort" => listening
  /\ which = "iocp" => at[Main] = "call" /\ Cardinality(workers) = 2

MCNext ==
  /\ UNCHANGED which
  /\ \/ which = "sort" /\ Next /\ UNCHANGED demoVars
     \/ which = "iocp" /\ DemoNext /\ UNCHANGED vars

(* The fairness of PoolSort and of IocpDemo. *)
MCSpec ==
  /\ MCInit /\ [][MCNext]_<<which, vars, demoVars>>
  /\ WF_vars(which = "sort" /\ Program /\ UNCHANGED <<which, demoVars>>)
  /\ \A w \in Workers :
       WF_demoVars(which = "iocp" /\ Worker(w) /\ UNCHANGED <<which, vars>>)

-----------------------------------------------------------------------------
\* The sort ends and stop() returns, but for the three hangs StopReturns
\* names, in every behaviour that is about the sort (ThreadPool.h 100-109,
\* main.cpp 27).
SortStops == which = "sort" => StopReturns

=============================================================================
