----------------------------- MODULE ThreadPool -----------------------------
(***************************************************************************)
(* The pool of ThreadPool.h: commit(), the loop of a worker with its       *)
(* condition variable, and stop() as the destructor calls it.  A task is   *)
(* an identity here; while its worker is at "run" it may commit tasks.     *)
(* PoolSort says what the tasks of main.cpp do.                            *)
(*                                                                         *)
(* stop_ is atomic and is not guarded by the mutex: the predicate of the   *)
(* wait reads it under the mutex (FindsNothing), the worker blocks later   *)
(* (Block), and stop() may store and notify in between.                    *)
(***************************************************************************)
EXTENDS Naturals, Sequences, FiniteSets

CONSTANTS
  Main,         \* the thread that owns the pool
  NoTask,       \* no task
  Tasks,        \* identities of tasks
  Cores,        \* the values hardware_concurrency() may have
  MaxSpurious   \* bound on wakeups without a notification

PoolSize(num) == IF num <= 1 THEN 2 ELSE num

ASSUME ThreadPoolAssumption ==
  /\ Cores \subseteq Nat /\ MaxSpurious \in Nat
  /\ NoTask \notin Tasks /\ Main \notin Nat

VARIABLES
  workers,    \* pool_: the workers are 1..n
  stop,       \* stop_
  idle,       \* thread_num_
  mutex,      \* who has cv_mt_, 0 for nobody
  waiting,    \* the workers blocked in cv_lock_.wait()
  tasks,      \* tasks_
  pc,         \* what a worker is about to do
  running,    \* the task a worker has taken
  commit,     \* what a thread inside commit() is about to do, and for which task
  future,     \* the shared state of the future of every task
  owner,      \* what Main is about to do with the pool
  spurious    \* wakeups without a notification so far

lockVars == <<mutex, waiting, pc, spurious>>
taskVars == <<tasks, running, commit, future>>
poolVars == <<workers, stop, idle, owner, lockVars, taskVars>>

Threads == workers \union {Main}
NoCommit == [at |-> "no", task |-> NoTask]

PoolInit ==
  /\ \E num \in Cores : workers = 1..PoolSize(num)
  /\ stop = FALSE /\ idle = Cardinality(workers)
  /\ mutex = 0 /\ waiting = {} /\ spurious = 0
  /\ pc = [w \in workers |-> "test"]
  /\ running = [w \in workers |-> NoTask]
  /\ tasks = <<>> /\ future = [t \in Tasks |-> "none"]
  /\ commit = [th \in Threads |-> NoCommit]
  /\ owner = "client"

-----------------------------------------------------------------------------
(* commit(): the test of stop_, the push under the mutex, the notification. *)

MayCall(th) ==
  /\ commit[th] = NoCommit
  /\ IF th = Main THEN owner = "client" ELSE pc[th] = "run"

CommitRefused(th, t) == \* a default-constructed future
  /\ MayCall(th) /\ future[t] = "none" /\ stop
  /\ future' = [future EXCEPT ![t] = "invalid"]
  /\ UNCHANGED <<workers, stop, idle, owner, lockVars, tasks, running, commit>>

CommitTest(th, t) ==
  /\ MayCall(th) /\ future[t] = "none" /\ ~stop
  /\ future' = [future EXCEPT ![t] = "pending"]
  /\ commit' = [commit EXCEPT ![th] = [at |-> "emplace", task |-> t]]
  /\ UNCHANGED <<workers, stop, idle, owner, lockVars, tasks, running>>

Emplace(th) ==
  /\ commit[th].at = "emplace" /\ mutex = 0
  /\ tasks' = Append(tasks, commit[th].task)
  /\ commit' = [commit EXCEPT ![th].at = "notify"]
  /\ UNCHANGED <<workers, stop, idle, owner, lockVars, running, future>>

Wake(woken) == 
  /\ waiting' = waiting \ woken
  /\ pc' = [w \in workers |-> IF w \in woken THEN "lock" ELSE pc[w]]

\* Fault: a notification only for the first task of a queue.
NotifyIfFirst(th) ==
  /\ commit[th].at = "notify"
  /\ commit' = [commit EXCEPT ![th] = NoCommit]
  /\ IF waiting = {} \/ Len(tasks) > 1 THEN Wake({}) ELSE \E w \in waiting : Wake({w})
  /\ UNCHANGED <<workers, stop, idle, owner, mutex, spurious, tasks, running, future>>

NotifyOne(th) ==
  /\ commit[th].at = "notify"
  /\ commit' = [commit EXCEPT ![th] = NoCommit]
  /\ IF waiting = {} THEN Wake({}) ELSE \E w \in waiting : Wake({w})
  /\ UNCHANGED <<workers, stop, idle, owner, mutex, spurious, tasks, running, future>>

-----------------------------------------------------------------------------
(* The loop of a worker. *)

Goto(w, at) == pc' = [pc EXCEPT ![w] = at]

Test(w) ==
  /\ pc[w] = "test"
  /\ Goto(w, IF stop THEN "exited" ELSE "lock")
  /\ UNCHANGED <<workers, stop, idle, owner, mutex, waiting, spurious, taskVars>>

Lock(w) ==
  /\ pc[w] = "lock" /\ mutex = 0
  /\ mutex' = w /\ Goto(w, "predicate")
  /\ UNCHANGED <<workers, stop, idle, owner, waiting, spurious, taskVars>>

FindsNothing(w) == \* the predicate is false, the wait is about to block
  /\ pc[w] = "predicate" /\ ~stop /\ tasks = <<>>
  /\ Goto(w, "block")
  /\ UNCHANGED <<workers, stop, idle, owner, mutex, waiting, spurious, taskVars>>

Block(w) ==
  /\ pc[w] = "block"
  /\ mutex' = 0 /\ waiting' = waiting \union {w} /\ Goto(w, "waiting")
  /\ UNCHANGED <<workers, stop, idle, owner, spurious, taskVars>>

Leaves(w) ==
  /\ pc[w] = "predicate" /\ stop /\ tasks = <<>>
  /\ mutex' = 0 /\ Goto(w, "exited")
  /\ UNCHANGED <<workers, stop, idle, owner, waiting, spurious, taskVars>>

Takes(w) ==
  /\ pc[w] = "predicate" /\ tasks # <<>>
  /\ running' = [running EXCEPT ![w] = Head(tasks)] /\ tasks' = Tail(tasks)
  /\ mutex' = 0 /\ Goto(w, "taken")
  /\ UNCHANGED <<workers, stop, idle, owner, waiting, spurious, commit, future>>

Starts(w) ==
  /\ pc[w] = "taken"
  /\ idle' = idle - 1 /\ Goto(w, "run")
  /\ UNCHANGED <<workers, stop, owner, mutex, waiting, spurious, taskVars>>

Finish(w, outcome) == \* the packaged_task stores a value or an exception
  /\ pc[w] = "run" /\ commit[w] = NoCommit
  /\ future' = [future EXCEPT ![running[w]] = outcome]
  /\ Goto(w, "finished")
  /\ UNCHANGED <<workers, stop, idle, owner, mutex, waiting, spurious, tasks, running, commit>>

Returns(w) ==
  /\ pc[w] = "finished"
  /\ idle' = idle + 1 /\ running' = [running EXCEPT ![w] = NoTask] /\ Goto(w, "test")
  /\ UNCHANGED <<workers, stop, owner, mutex, waiting, spurious, tasks, commit, future>>

SpuriousWake(w) ==
  /\ w \in waiting /\ spurious < MaxSpurious
  /\ spurious' = spurious + 1 /\ Wake({w})
  /\ UNCHANGED <<workers, stop, idle, owner, mutex, taskVars>>

-----------------------------------------------------------------------------
(* stop(), called by the destructor. *)

StopStore ==
  /\ owner = "client" /\ commit[Main] = NoCommit
  /\ stop' = TRUE /\ owner' = "notify"
  /\ UNCHANGED <<workers, idle, lockVars, taskVars>>

\* Fault: notify_one.
StopNotifyOne ==
  /\ owner = "notify"
  /\ IF waiting = {} THEN Wake({}) ELSE \E w \in waiting : Wake({w})
  /\ owner' = "join"
  /\ UNCHANGED <<workers, stop, idle, mutex, spurious, taskVars>>

StopNotify ==
  /\ owner = "notify"
  /\ Wake(waiting) /\ owner' = "join"
  /\ UNCHANGED <<workers, stop, idle, mutex, spurious, taskVars>>

StopJoined == \* tasks_ is destroyed with the tasks nobody ran
  /\ owner = "join" /\ \A w \in workers : pc[w] = "exited"
  /\ owner' = "done" /\ tasks' = <<>>
  /\ future' = [t \in Tasks |-> IF \E i \in DOMAIN tasks : tasks[i] = t
                                THEN "broken" ELSE future[t]]
  /\ UNCHANGED <<workers, stop, idle, lockVars, running, commit>>

-----------------------------------------------------------------------------
WorkerStep(w) ==
  \/ Test(w) \/ Lock(w) \/ FindsNothing(w) \/ Block(w) \/ Leaves(w)
  \/ Takes(w) \/ Starts(w) \/ Returns(w) \/ SpuriousWake(w)

PoolNext == \* for whatever the tasks do
  \/ \E th \in Threads : \/ \E t \in Tasks : CommitRefused(th, t) \/ CommitTest(th, t)
                         \/ Emplace(th) \/ NotifyOne(th)
  \/ \E w \in workers : WorkerStep(w) \/ \E o \in {"ready", "error"} : Finish(w, o)
  \/ StopStore \/ StopNotify \/ StopJoined

PoolSpec == PoolInit /\ [][PoolNext]_poolVars

-----------------------------------------------------------------------------
PoolTypeOK ==
  /\ workers \subseteq Nat \ {0} /\ IsFiniteSet(workers)
  /\ stop \in BOOLEAN /\ idle \in 0..Cardinality(workers)
  /\ mutex \in workers \union {0} /\ waiting \subseteq workers /\ spurious \in Nat
  /\ pc \in [workers -> {"test", "lock", "predicate", "block", "waiting", "taken",
                         "run", "finished", "exited"}]
  /\ running \in [workers -> Tasks \union {NoTask}]
  /\ tasks \in Seq(Tasks)
  /\ commit \in [Threads -> [at : {"no", "emplace", "notify"}, task : Tasks \union {NoTask}]]
  /\ future \in [Tasks -> {"none", "invalid", "pending", "ready", "error", "broken"}]
  /\ owner \in {"client", "notify", "join", "done"}

Awake == {w \in workers : pc[w] \in {"test", "lock", "predicate"}}
Notifying == {th \in Threads : commit[th].at = "notify"}

(***************************************************************************)
(* commit() pushes under the mutex and notifies after it: while a worker   *)
(* sleeps, there is for every task in the queue a worker that is about to  *)
(* look at the queue or a notification still to come (until stop_).        *)
(***************************************************************************)
NoTaskForgotten ==
  ~stop /\ waiting # {} => Len(tasks) <= Cardinality(Awake) + Cardinality(Notifying)

=============================================================================
