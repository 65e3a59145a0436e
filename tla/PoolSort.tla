------------------------------ MODULE PoolSort ------------------------------
(***************************************************************************)
(* pool_thread_quick_sort() of main.cpp on the pool: a call takes the      *)
(* first item as pivot, commits the sort of the smaller items as a task,   *)
(* sorts the others itself, and waits for the task.  A task calls the same *)
(* function, and then a worker waits for a task that a worker must run.    *)
(*                                                                         *)
(* A list is the set of its items: std::partition leaves the order of      *)
(* either part open, so that any item may come first.  Every item is the   *)
(* pivot of exactly one call, and the task that call commits is named by   *)
(* it.  Main either sorts (as TestThreadPoolSort) or commits the sort as a *)
(* task, drops the future, and stops the pool.                             *)
(***************************************************************************)
EXTENDS ThreadPool

CONSTANTS
  Items,   \* the list to sort
  Key,     \* the value of an item
  Root     \* the task Main commits

ASSUME PoolSortAssumption ==
  /\ Key \in [Items -> Nat] /\ Root \notin Items /\ Tasks = Items \union {Root}

VARIABLES
  input,    \* what the current call of a thread has still to sort
  stack,    \* the pivots of the calls a thread is in
  at,       \* where a thread is in the innermost call
  result,   \* what the call that has just returned returns
  bound,    \* the list bound to a task
  value,    \* the value in the future of a task
  missed    \* history: workers that were about to wait when stop() notified

sortVars == <<input, stack, at, result, bound, value, missed>>
vars == <<poolVars, sortVars>>

Lower(S, p) == IF p = Root THEN S ELSE {x \in S \ {p} : Key[x] < Key[p]}
Higher(S, p) == (S \ {p}) \ Lower(S, p)
Pivot(th) == stack[th][Len(stack[th])]
Set(f, th, v) == [f EXCEPT ![th] = v]

Init ==
  /\ PoolInit
  /\ input = [th \in Threads |-> IF th = Main THEN Items ELSE {}]
  /\ stack = [th \in Threads |-> <<>>]
  /\ at \in [Threads -> {"idle", "call"}] /\ \A w \in workers : at[w] = "idle"
  /\ result = [th \in Threads |-> <<>>]
  /\ bound = [t \in Tasks |-> {}] /\ value = [t \in Tasks |-> <<>>] /\ missed = {}

-----------------------------------------------------------------------------
(* A worker calls the function with the list bound to its task. *)
Run(w) ==
  /\ Starts(w)
  /\ input' = Set(input, w, bound[running[w]]) /\ at' = Set(at, w, "call")
  /\ UNCHANGED <<stack, result, bound, value, missed>>

CallEmpty(th) ==
  /\ at[th] = "call" /\ input[th] = {}
  /\ result' = Set(result, th, <<>>) /\ at' = Set(at, th, "return")
  /\ UNCHANGED <<poolVars, input, stack, bound, value, missed>>

(* The call is split at its commit(), which may find the pool stopped. *)
CallRefused(th) ==
  /\ at[th] = "call"
  /\ \E p \in input[th] :
       /\ CommitRefused(th, p)
       /\ stack' = Set(stack, th, Append(stack[th], p))
       /\ input' = Set(input, th, Higher(input[th], p))
  /\ UNCHANGED <<at, result, bound, value, missed>>

CallCommits(th) ==
  /\ at[th] = "call"
  /\ \E p \in input[th] :
       /\ CommitTest(th, p)
       /\ stack' = Set(stack, th, Append(stack[th], p))
       /\ bound' = Set(bound, p, Lower(input[th], p))
  /\ at' = Set(at, th, "commit")
  /\ UNCHANGED <<input, result, value, missed>>

CallHigher(th) == \* commit() returns, the function calls itself
  /\ at[th] = "commit" /\ NotifyOne(th)
  /\ input' = Set(input, th, Higher(input[th], Pivot(th)))
  /\ at' = Set(at, th, "call")
  /\ UNCHANGED <<stack, result, bound, value, missed>>

\* Fault: the lower part is put behind the higher one.
GetAppends(th) ==
  /\ at[th] = "return" /\ stack[th] # <<>> /\ future[Pivot(th)] = "ready"
  /\ result' = Set(result, th, <<Pivot(th)>> \o result[th] \o value[Pivot(th)])
  /\ stack' = Set(stack, th, SubSeq(stack[th], 1, Len(stack[th]) - 1))
  /\ UNCHANGED <<poolVars, input, at, bound, value, missed>>

Get(th) == \* both splices
  /\ at[th] = "return" /\ stack[th] # <<>> /\ future[Pivot(th)] = "ready"
  /\ result' = Set(result, th, value[Pivot(th)] \o <<Pivot(th)>> \o result[th])
  /\ stack' = Set(stack, th, SubSeq(stack[th], 1, Len(stack[th]) - 1))
  /\ UNCHANGED <<poolVars, input, at, bound, value, missed>>

GetThrows(th) == \* an invalid future, or the exception of the task: all calls unwind
  /\ at[th] = "return" /\ stack[th] # <<>>
  /\ future[Pivot(th)] \in {"invalid", "error", "broken"}
  /\ stack' = Set(stack, th, <<>>) /\ at' = Set(at, th, "thrown")
  /\ UNCHANGED <<poolVars, input, result, bound, value, missed>>

TaskEnds(w) ==
  /\ at[w] \in {"return", "thrown"} /\ stack[w] = <<>>
  /\ Finish(w, IF at[w] = "return" THEN "ready" ELSE "error")
  /\ value' = Set(value, running[w], result[w])
  /\ at' = Set(at, w, "idle") /\ result' = Set(result, w, <<>>)
  /\ UNCHANGED <<input, stack, bound, missed>>

-----------------------------------------------------------------------------
MainCommits ==
  /\ at[Main] = "idle" /\ owner = "client" /\ CommitTest(Main, Root)
  /\ bound' = Set(bound, Root, Items) /\ at' = Set(at, Main, "commit root")
  /\ UNCHANGED <<input, stack, result, value, missed>>

MainLeaves == \* the future is dropped
  /\ at[Main] = "commit root" /\ NotifyOne(Main)
  /\ at' = Set(at, Main, "over")
  /\ UNCHANGED <<input, stack, result, bound, value, missed>>

MainSorted ==
  /\ at[Main] = "return" /\ stack[Main] = <<>>
  /\ at' = Set(at, Main, "over")
  /\ UNCHANGED <<poolVars, input, stack, result, bound, value, missed>>

Stop ==
  \/ at[Main] = "over" /\ StopStore /\ UNCHANGED sortVars
  \/ /\ StopNotify /\ missed' = {w \in workers : pc[w] = "block"}
     /\ UNCHANGED <<input, stack, at, result, bound, value>>
  \/ StopJoined /\ UNCHANGED sortVars

SortStep(th) ==
  \/ Emplace(th) /\ UNCHANGED sortVars
  \/ CallEmpty(th) \/ CallRefused(th) \/ CallCommits(th) \/ CallHigher(th)
  \/ Get(th) \/ GetThrows(th)

Loop(w) ==
  \/ Test(w) /\ UNCHANGED sortVars
  \/ Lock(w) /\ UNCHANGED sortVars
  \/ FindsNothing(w) /\ UNCHANGED sortVars
  \/ Block(w) /\ UNCHANGED sortVars
  \/ Leaves(w) /\ UNCHANGED sortVars
  \/ Takes(w) /\ UNCHANGED sortVars
  \/ Run(w) \/ TaskEnds(w)
  \/ Returns(w) /\ UNCHANGED sortVars

Program ==
  \/ \E th \in Threads : SortStep(th)
  \/ \E w \in workers : Loop(w)
  \/ MainCommits \/ MainLeaves \/ MainSorted \/ Stop

Next == Program \/ \E w \in workers : SpuriousWake(w) /\ UNCHANGED sortVars

(***************************************************************************)
(* Threads that can run do run.  One fairness condition is enough for all: *)
(* nothing here is repeated without end, so that a thread with a step to   *)
(* take can only wait for a number of steps of the others.  Nothing makes  *)
(* a spurious wakeup happen.                                               *)
(***************************************************************************)
Spec == Init /\ [][Next]_vars /\ WF_vars(Program)

-----------------------------------------------------------------------------
Sorted(s) == \A i, j \in DOMAIN s : i < j => Key[s[i]] <= Key[s[j]]

(***************************************************************************)
(* What Main gets is its list, sorted, whichever threads ran the tasks and *)
(* in whatever order they ended (lines 14-28), and by then every task has  *)
(* been run: stop() drops none.                                            *)
(***************************************************************************)
MainGetsSorted ==
  at[Main] = "over" /\ future[Root] = "none" =>
    /\ Sorted(result[Main]) /\ Len(result[Main]) = Cardinality(Items)
    /\ {result[Main][i] : i \in DOMAIN result[Main]} = Items
    /\ tasks = <<>> /\ \A t \in Items : future[t] = "ready"

Waits(th) == at[th] = "return" /\ stack[th] # <<>> /\ future[Pivot(th)] = "pending"
Queued(t) == \E i \in DOMAIN tasks : tasks[i] = t

(* Every worker waits for a task.  It takes a list with a pivot for each of  *)
(* them, and one for Main if it sorts, too.                                  *)
Starved ==
  /\ \A w \in workers : Waits(w)
  /\ Cardinality(workers) + (IF future[Root] = "none" THEN 1 ELSE 0) <= Cardinality(Items)
(* Workers that were between the test and the wait sleep on.                 *)
LostWakeup == owner = "join" /\ waiting # {} /\ waiting \subseteq missed
(* The task a worker waits for is queued, and the other workers have left.   *)
Abandoned ==
  /\ stop /\ \E w \in workers : Waits(w) /\ Queued(Pivot(w))
  /\ \A w \in workers : Waits(w) \/ pc[w] = "exited" \/ w \in waiting \intersect missed

(***************************************************************************)
(* The sort ends and stop() returns (ThreadPool.h 100-109), unless all     *)
(* workers wait for tasks (main.cpp 27), or a worker misses the            *)
(* notification of stop(), or stop() leaves a task in the queue that       *)
(* another task waits for.                                                 *)
(***************************************************************************)
StopReturns == <>[](owner = "done" \/ Starved \/ LostWakeup \/ Abandoned)

=============================================================================
