-------------------------- MODULE ThreadPoolProofs --------------------------
(***************************************************************************)
(* Proofs about ThreadPool and about PoolSort on it, for any number of     *)
(* cores, tasks, items and wakeups.                                        *)
(*                                                                         *)
(* NoTaskForgotten is not inductive by itself: that a worker goes to sleep *)
(* on an empty queue only (Guarded) holds because it has had the mutex     *)
(* since it looked, and Emplace needs the mutex.                           *)
(*                                                                         *)
(* MainGetsSorted needs two invariants.  Once: a task is in one place only *)
(* (a commit(), the queue, a worker) until its future is set, so that      *)
(* nobody sets it twice.  SortInv: the calls a thread is in sort lists     *)
(* that are parts of one another (Frames), what a call or a future has is  *)
(* the sorted list it was asked for, and nothing below it is still to be   *)
(* run (Settled).                                                          *)
(***************************************************************************)
EXTENDS PoolSort, FiniteSetTheorems, SequenceTheorems, TLAPS

Idle == {w \in workers : pc[w] \notin {"run", "finished"}}

\* Who has the mutex while he looks at the queue, and what he has seen.
Guarded ==
  /\ waiting = {w \in workers : pc[w] = "waiting"}
  /\ \A w \in workers : pc[w] \in {"predicate", "block"} => mutex = w
  /\ \A w \in workers : pc[w] = "block" => tasks = <<>>
  /\ \A th \in Threads : commit[th].at = "emplace" => commit[th].task \in Tasks

Counted == idle = Cardinality(Idle)

PoolInv == PoolTypeOK /\ Guarded /\ Counted /\ NoTaskForgotten

-----------------------------------------------------------------------------
\* The sets that are counted are finite.
LEMMA Finite ==
  ASSUME PoolTypeOK
  PROVE  /\ IsFiniteSet(Idle) /\ Cardinality(Idle) \in 0..Cardinality(workers)
         /\ IsFiniteSet(Awake) /\ Cardinality(Awake) \in Nat
         /\ IsFiniteSet(Notifying) /\ Cardinality(Notifying) \in Nat
<1>1. IsFiniteSet(workers) /\ IsFiniteSet(Threads)
  BY FS_AddElement DEF PoolTypeOK, Threads
<1>2. /\ IsFiniteSet(Idle) /\ IsFiniteSet(Awake) /\ IsFiniteSet(Notifying)
      /\ Cardinality(Idle) <= Cardinality(workers)
  BY <1>1, FS_Subset DEF Idle, Awake, Notifying
<1>3. QED
  BY <1>1, <1>2, FS_CardinalityType

\* One element more, one less.
LEMMA CountOne ==
  ASSUME NEW S, IsFiniteSet(S), NEW x
  PROVE  /\ Cardinality(S) \in Nat
         /\ x \notin S => Cardinality(S \union {x}) = Cardinality(S) + 1
         /\ x \in S => Cardinality(S \ {x}) = Cardinality(S) - 1
BY FS_AddElement, FS_RemoveElement, FS_CardinalityType

\* The pool starts with an empty queue, and all workers before their loops.
LEMMA PoolInitInv == PoolInit => PoolInv
<1> SUFFICES ASSUME PoolInit PROVE PoolInv
  OBVIOUS
<1> USE ThreadPoolAssumption
<1>1. PICK num \in Cores : workers = 1..PoolSize(num)
  BY DEF PoolInit
<1>2. PoolSize(num) \in Nat
  BY DEF PoolSize
<1>3. /\ IsFiniteSet(workers) /\ workers \subseteq Nat \ {0}
      /\ Cardinality(workers) \in Nat
  <2>1. 1 \in Int /\ PoolSize(num) \in Int
    BY <1>2
  <2>2. IsFiniteSet(workers)
    BY <1>1, <2>1, FS_Interval
  <2>3. QED
    BY <1>1, <1>2, <2>2, FS_CardinalityType
<1>4. Idle = workers
  BY DEF PoolInit, Idle
<1>5. idle = Cardinality(workers) /\ idle \in 0..Cardinality(workers)
  BY <1>3 DEF PoolInit
<1>6. Guarded
  BY DEF PoolInit, Guarded, NoCommit
<1>7. commit \in [Threads -> [at : {"no", "emplace", "notify"}, task : Tasks \union {NoTask}]]
  BY DEF PoolInit, NoCommit
<1>8. stop = FALSE /\ waiting = {}
  BY DEF PoolInit
<1>9. PoolTypeOK
  <2>1. stop \in BOOLEAN
    BY <1>8
  <2>2. QED
    BY <1>3, <1>5, <1>7, <2>1 DEF PoolInit, PoolTypeOK
<1>10. QED
  BY <1>4, <1>5, <1>6, <1>8, <1>9 DEF PoolInv, Counted, NoTaskForgotten

-----------------------------------------------------------------------------
(* commit() *)

\* A call that has not come to the queue yet changes nothing the workers see.
LEMMA CommitBegins ==
  ASSUME PoolInv, NEW th \in Threads, NEW t \in Tasks, CommitRefused(th, t) \/ CommitTest(th, t)
  PROVE  PoolInv'
<1> USE DEF PoolInv
<1>1. /\ workers' = workers /\ waiting' = waiting /\ pc' = pc /\ tasks' = tasks
      /\ stop' = stop /\ idle' = idle /\ mutex' = mutex
  BY DEF CommitRefused, CommitTest, lockVars
<1>2. Idle' = Idle /\ Awake' = Awake
  BY <1>1 DEF Idle, Awake
<1>3. /\ commit' \in [Threads -> [at : {"no", "emplace", "notify"}, task : Tasks \union {NoTask}]]
      /\ \A h \in Threads : /\ commit'[h].at = "notify" <=> commit[h].at = "notify"
                            /\ commit'[h].at = "emplace" => commit'[h].task \in Tasks
  BY DEF CommitRefused, CommitTest, MayCall, NoCommit, PoolTypeOK, Guarded
<1>4. Threads' = Threads /\ Notifying' = Notifying
  BY <1>1, <1>3 DEF Threads, Notifying
<1>5. PoolTypeOK'
  BY <1>1, <1>3, <1>4 DEF CommitRefused, CommitTest, lockVars, PoolTypeOK
<1>6. Guarded' /\ Counted' /\ NoTaskForgotten'
  BY <1>1, <1>2, <1>3, <1>4 DEF Guarded, Counted, NoTaskForgotten
<1>7. QED
  BY <1>5, <1>6

\* A task in the queue has its notification still to come.
LEMMA EmplaceInv ==
  ASSUME PoolInv, NEW th \in Threads, Emplace(th)
  PROVE  PoolInv'
<1> USE DEF PoolInv
<1>1. /\ workers' = workers /\ waiting' = waiting /\ pc' = pc /\ running' = running
      /\ stop' = stop /\ idle' = idle /\ mutex' = mutex /\ spurious' = spurious
      /\ owner' = owner /\ future' = future
  BY DEF Emplace, lockVars
<1>2. Idle' = Idle /\ Awake' = Awake /\ Threads' = Threads
  BY <1>1 DEF Idle, Awake, Threads
<1>3. commit[th].task \in Tasks
  BY DEF Emplace, Guarded
<1>4. tasks' \in Seq(Tasks) /\ Len(tasks') = Len(tasks) + 1
  BY <1>3 DEF Emplace, PoolTypeOK
<1>5. /\ commit' \in [Threads -> [at : {"no", "emplace", "notify"}, task : Tasks \union {NoTask}]]
      /\ \A h \in Threads : /\ commit'[h].at = "notify" <=> commit[h].at = "notify" \/ h = th
                            /\ commit'[h].at = "emplace" => commit'[h].task \in Tasks
  BY DEF Emplace, PoolTypeOK, Guarded
<1>6. th \notin Notifying /\ Notifying' = Notifying \union {th}
  BY <1>2, <1>5 DEF Notifying, Emplace
<1>7. Cardinality(Notifying') = Cardinality(Notifying) + 1
  BY <1>6, Finite, CountOne
<1>8. PoolTypeOK'
  BY <1>1, <1>2, <1>4, <1>5 DEF PoolTypeOK
<1>9. \A w \in workers : pc[w] \notin {"predicate", "block"}
  BY DEF Emplace, Guarded, PoolTypeOK
<1>10. Guarded' /\ Counted'
  BY <1>1, <1>2, <1>5, <1>9 DEF Guarded, Counted
<1>11. Len(tasks) \in Nat
  BY DEF PoolTypeOK
<1>12. NoTaskForgotten'
  BY <1>1, <1>2, <1>4, <1>7, <1>11, Finite DEF NoTaskForgotten
<1>13. QED
  BY <1>8, <1>10, <1>12

-----------------------------------------------------------------------------
(* Wakeups *)

\* Whoever is woken is about to look at the queue.
LEMMA WakeOne ==
  ASSUME PoolTypeOK, Guarded, NEW w \in waiting, Wake({w}), workers' = workers
  PROVE  /\ waiting' \subseteq workers /\ waiting' = {v \in workers : pc'[v] = "waiting"}
         /\ pc' \in [workers -> {"test", "lock", "predicate", "block", "waiting", "taken",
                                 "run", "finished", "exited"}]
         /\ \A v \in workers : pc'[v] \in {"predicate", "block"} => pc'[v] = pc[v]
         /\ Idle' = Idle
         /\ Cardinality(Awake') = Cardinality(Awake) + 1
<1>1. \A v \in workers : pc'[v] = IF v = w THEN "lock" ELSE pc[v]
  BY DEF Wake
<1>2. w \in workers /\ pc[w] = "waiting"
  BY DEF Guarded, PoolTypeOK
<1>3. w \notin Awake /\ Awake' = Awake \union {w}
  BY <1>1, <1>2 DEF Awake
<1>4. Cardinality(Awake') = Cardinality(Awake) + 1
  BY <1>3, Finite, CountOne
<1>5. Idle' = Idle
  BY <1>1, <1>2 DEF Idle
<1>6. waiting' = {v \in workers : pc'[v] = "waiting"}
  BY <1>1, <1>2 DEF Wake, Guarded
<1>7. pc' \in [workers -> {"test", "lock", "predicate", "block", "waiting", "taken",
                           "run", "finished", "exited"}]
  BY DEF Wake, PoolTypeOK
<1>8. QED
  BY <1>1, <1>4, <1>5, <1>6, <1>7

\* Nobody is woken.
LEMMA WakeNone ==
  ASSUME PoolTypeOK, Wake({})
  PROVE  waiting' = waiting /\ pc' = pc
BY DEF Wake, PoolTypeOK

\* A notification is spent on a worker that sleeps, if there is one.
LEMMA NotifyOneInv ==
  ASSUME PoolInv, NEW th \in Threads, NotifyOne(th)
  PROVE  PoolInv'
<1> USE DEF PoolInv
<1>1. /\ workers' = workers /\ stop' = stop /\ idle' = idle /\ owner' = owner /\ mutex' = mutex
      /\ spurious' = spurious /\ tasks' = tasks /\ running' = running /\ future' = future
  BY DEF NotifyOne
<1>2. /\ commit' \in [Threads -> [at : {"no", "emplace", "notify"}, task : Tasks \union {NoTask}]]
      /\ \A h \in Threads : /\ commit'[h].at = "notify" <=> commit[h].at = "notify" /\ h # th
                            /\ commit'[h].at = "emplace" => commit'[h].task \in Tasks
  BY DEF NotifyOne, NoCommit, PoolTypeOK, Guarded
<1>3. Threads' = Threads
  BY <1>1 DEF Threads
<1>4. th \in Notifying /\ Notifying' = Notifying \ {th}
  BY <1>2, <1>3 DEF Notifying, NotifyOne
<1>5. Cardinality(Notifying') = Cardinality(Notifying) - 1
  BY <1>4, Finite, CountOne
<1>6. CASE waiting = {}
  <2>1. waiting' = {} /\ pc' = pc
    BY <1>6, WakeNone DEF NotifyOne
  <2>2. Idle' = Idle
    BY <1>1, <2>1 DEF Idle
  <2>3. PoolTypeOK'
    BY <1>1, <1>2, <1>3, <2>1 DEF PoolTypeOK
  <2>4. Guarded' /\ Counted' /\ NoTaskForgotten'
    BY <1>1, <1>2, <1>3, <1>6, <2>1, <2>2 DEF Guarded, Counted, NoTaskForgotten
  <2>5. QED
    BY <2>3, <2>4
<1>7. CASE waiting # {}
  <2>1. PICK w \in waiting : Wake({w})
    BY <1>7 DEF NotifyOne
  <2>2. /\ waiting' \subseteq workers /\ waiting' = {v \in workers : pc'[v] = "waiting"}
        /\ pc' \in [workers -> {"test", "lock", "predicate", "block", "waiting", "taken",
                                "run", "finished", "exited"}]
        /\ \A v \in workers : pc'[v] \in {"predicate", "block"} => pc'[v] = pc[v]
        /\ Idle' = Idle /\ Cardinality(Awake') = Cardinality(Awake) + 1
    BY <1>1, <2>1, WakeOne
  <2>3. PoolTypeOK'
    BY <1>1, <1>2, <1>3, <2>2 DEF PoolTypeOK
  <2>4. Guarded' /\ Counted'
    BY <1>1, <1>2, <1>3, <2>2 DEF Guarded, Counted
  <2>5. Len(tasks) \in Nat
    BY DEF PoolTypeOK
  <2>6. NoTaskForgotten'
    BY <1>1, <1>5, <1>7, <2>2, <2>5, Finite DEF NoTaskForgotten
  <2>7. QED
    BY <2>3, <2>4, <2>6
<1>8. QED
  BY <1>6, <1>7

-----------------------------------------------------------------------------
(* The loop of a worker *)

\* A step that changes neither the queue nor who notifies keeps the invariant
\* if it keeps what is counted.
LEMMA Quiet ==
  ASSUME PoolInv,
         workers' = workers, commit' = commit, tasks' = tasks,
         stop' = stop, waiting' = waiting, Guarded', PoolTypeOK', Counted',
         Cardinality(Awake') >= Cardinality(Awake)
  PROVE  PoolInv'
<1>1. Notifying' = Notifying
  BY DEF Notifying, Threads
<1>2. Cardinality(Awake') \in Nat /\ IsFiniteSet(Awake')
  <2>1. Awake' \subseteq workers'
    BY DEF Awake
  <2>2. QED
    BY <2>1, FS_Subset, FS_CardinalityType DEF PoolTypeOK
<1>3. Len(tasks) \in Nat
  BY DEF PoolInv, PoolTypeOK
<1>4. NoTaskForgotten'
  BY <1>1, <1>2, <1>3, Finite DEF PoolInv, NoTaskForgotten
<1>5. QED
  BY <1>4 DEF PoolInv

\* Nothing can be forgotten of an empty queue.
LEMMA EmptyQueue ==
  ASSUME PoolTypeOK', tasks' = <<>>
  PROVE  NoTaskForgotten'
<1>1. IsFiniteSet(workers') /\ IsFiniteSet(Threads')
  BY FS_AddElement DEF PoolTypeOK, Threads
<1>2. Awake' \subseteq workers' /\ Notifying' \subseteq Threads'
  BY DEF Awake, Notifying
<1>3. Cardinality(Awake') \in Nat /\ Cardinality(Notifying') \in Nat
  BY <1>1, <1>2, FS_Subset, FS_CardinalityType
<1>4. QED
  BY <1>3 DEF NoTaskForgotten

\* while (!stop_)
LEMMA TestInv ==
  ASSUME PoolInv, NEW w \in workers, Test(w)
  PROVE  PoolInv'
<1> USE DEF PoolInv
<1>1. /\ workers' = workers /\ waiting' = waiting /\ tasks' = tasks /\ commit' = commit
      /\ stop' = stop /\ idle' = idle /\ mutex' = mutex /\ spurious' = spurious
      /\ owner' = owner /\ future' = future /\ running' = running
  BY DEF Test, taskVars
<1>2. pc' \in [workers -> {"test", "lock", "predicate", "block", "waiting", "taken",
                           "run", "finished", "exited"}]
  BY DEF Test, Goto, PoolTypeOK
<1>3. \A v \in workers : pc'[v] = IF v = w THEN (IF stop THEN "exited" ELSE "lock") ELSE pc[v]
  BY DEF Test, Goto, PoolTypeOK
<1>4. Idle' = Idle /\ (~stop => Awake' = Awake)
  BY <1>1, <1>3 DEF Idle, Awake, Test
<1>5. PoolTypeOK'
  BY <1>1, <1>2 DEF PoolTypeOK, Threads
<1>6. Guarded'
  BY <1>1, <1>3 DEF Guarded, Threads, Test
<1>7. Notifying' = Notifying
  BY <1>1 DEF Notifying, Threads
<1>8. QED
  BY <1>1, <1>4, <1>5, <1>6, <1>7 DEF Counted, NoTaskForgotten

\* std::unique_lock, or the wait that wakes up
LEMMA LockInv ==
  ASSUME PoolInv, NEW w \in workers, Lock(w)
  PROVE  PoolInv'
<1> USE DEF PoolInv
<1>1. /\ workers' = workers /\ waiting' = waiting /\ tasks' = tasks /\ commit' = commit
      /\ stop' = stop /\ idle' = idle /\ mutex' = w /\ spurious' = spurious
      /\ owner' = owner /\ future' = future /\ running' = running
  BY DEF Lock, taskVars
<1>2. pc' \in [workers -> {"test", "lock", "predicate", "block", "waiting", "taken",
                           "run", "finished", "exited"}]
  BY DEF Lock, Goto, PoolTypeOK
<1>3. \A v \in workers : pc'[v] = IF v = w THEN "predicate" ELSE pc[v]
  BY DEF Lock, Goto, PoolTypeOK
<1>4. Idle' = Idle /\ Awake' = Awake
  BY <1>1, <1>3 DEF Idle, Awake, Lock
<1>5. PoolTypeOK'
  BY <1>1, <1>2 DEF PoolTypeOK, Threads
<1>6. \A v \in workers : pc[v] \notin {"predicate", "block"}
  BY DEF Lock, Guarded, PoolTypeOK
<1>7. Guarded'
  BY <1>1, <1>3, <1>6 DEF Guarded, Threads, Lock
<1>8. QED
  BY <1>1, <1>4, <1>5, <1>7, Finite, Quiet DEF Counted

\* The predicate of the wait is false.
LEMMA FindsNothingInv ==
  ASSUME PoolInv, NEW w \in workers, FindsNothing(w)
  PROVE  PoolInv'
<1> USE DEF PoolInv
<1>1. /\ workers' = workers /\ waiting' = waiting /\ tasks' = tasks /\ commit' = commit
      /\ stop' = stop /\ idle' = idle /\ mutex' = mutex /\ spurious' = spurious
      /\ owner' = owner /\ future' = future /\ running' = running
  BY DEF FindsNothing, taskVars
<1>2. pc' \in [workers -> {"test", "lock", "predicate", "block", "waiting", "taken",
                           "run", "finished", "exited"}]
  BY DEF FindsNothing, Goto, PoolTypeOK
<1>3. \A v \in workers : pc'[v] = IF v = w THEN "block" ELSE pc[v]
  BY DEF FindsNothing, Goto, PoolTypeOK
<1>4. Idle' = Idle
  BY <1>1, <1>3 DEF Idle, FindsNothing
<1>5. PoolTypeOK'
  BY <1>1, <1>2 DEF PoolTypeOK, Threads
<1>6. Guarded'
  BY <1>1, <1>3 DEF Guarded, Threads, FindsNothing
<1>7. NoTaskForgotten'
  BY <1>1, <1>5, EmptyQueue DEF FindsNothing
<1>8. QED
  BY <1>1, <1>4, <1>5, <1>6, <1>7 DEF Counted

\* The wait blocks and gives up the mutex.
LEMMA BlockInv ==
  ASSUME PoolInv, NEW w \in workers, Block(w)
  PROVE  PoolInv'
<1> USE DEF PoolInv
<1>1. /\ workers' = workers /\ waiting' = waiting \union {w} /\ tasks' = tasks
      /\ commit' = commit /\ stop' = stop /\ idle' = idle /\ mutex' = 0
      /\ spurious' = spurious /\ owner' = owner /\ future' = future /\ running' = running
  BY DEF Block, taskVars
<1>2. pc' \in [workers -> {"test", "lock", "predicate", "block", "waiting", "taken",
                           "run", "finished", "exited"}]
  BY DEF Block, Goto, PoolTypeOK
<1>3. \A v \in workers : pc'[v] = IF v = w THEN "waiting" ELSE pc[v]
  BY DEF Block, Goto, PoolTypeOK
<1>4. Idle' = Idle
  BY <1>1, <1>3 DEF Idle, Block
<1>5. PoolTypeOK'
  BY <1>1, <1>2 DEF PoolTypeOK, Threads
<1>6. mutex = w /\ tasks = <<>>
  BY DEF Guarded, Block
<1>7. Guarded'
  BY <1>1, <1>3, <1>6 DEF Guarded, Threads
<1>8. NoTaskForgotten'
  BY <1>1, <1>5, <1>6, EmptyQueue
<1>9. QED
  BY <1>1, <1>4, <1>5, <1>7, <1>8 DEF Counted

\* return, with a queue that is empty and stop_
LEMMA LeavesInv ==
  ASSUME PoolInv, NEW w \in workers, Leaves(w)
  PROVE  PoolInv'
<1> USE DEF PoolInv
<1>1. /\ workers' = workers /\ waiting' = waiting /\ tasks' = tasks /\ commit' = commit
      /\ stop' = stop /\ stop = TRUE /\ idle' = idle /\ mutex' = 0 /\ spurious' = spurious
      /\ owner' = owner /\ future' = future /\ running' = running
  BY DEF Leaves, taskVars, PoolTypeOK
<1>2. pc' \in [workers -> {"test", "lock", "predicate", "block", "waiting", "taken",
                           "run", "finished", "exited"}]
  BY DEF Leaves, Goto, PoolTypeOK
<1>3. \A v \in workers : pc'[v] = IF v = w THEN "exited" ELSE pc[v]
  BY DEF Leaves, Goto, PoolTypeOK
<1>4. Idle' = Idle
  BY <1>1, <1>3 DEF Idle, Leaves
<1>5. PoolTypeOK'
  BY <1>1, <1>2 DEF PoolTypeOK, Threads
<1>6. \A v \in workers : v # w => pc[v] \notin {"predicate", "block"}
  BY DEF Guarded, Leaves
<1>7. Guarded'
  BY <1>1, <1>3, <1>6 DEF Guarded, Threads, Leaves
<1>8. NoTaskForgotten'
  BY <1>1 DEF NoTaskForgotten
<1>9. QED
  BY <1>1, <1>4, <1>5, <1>7, <1>8 DEF Counted

\* A task less, and a worker less that looks at the queue.
LEMMA TakesInv ==
  ASSUME PoolInv, NEW w \in workers, Takes(w)
  PROVE  PoolInv'
<1> USE DEF PoolInv
<1>1. /\ workers' = workers /\ waiting' = waiting /\ commit' = commit /\ stop' = stop
      /\ idle' = idle /\ mutex' = 0 /\ spurious' = spurious /\ owner' = owner
      /\ future' = future
  BY DEF Takes
<1>2. pc' \in [workers -> {"test", "lock", "predicate", "block", "waiting", "taken",
                           "run", "finished", "exited"}]
  BY DEF Takes, Goto, PoolTypeOK
<1>3. \A v \in workers : pc'[v] = IF v = w THEN "taken" ELSE pc[v]
  BY DEF Takes, Goto, PoolTypeOK
<1>4. /\ tasks' \in Seq(Tasks) /\ Len(tasks') = Len(tasks) - 1 /\ Len(tasks) \in Nat
      /\ Head(tasks) \in Tasks
  BY DEF Takes, PoolTypeOK
<1>5. running' \in [workers -> Tasks \union {NoTask}]
  BY <1>4 DEF Takes, PoolTypeOK
<1>6. Idle' = Idle /\ w \in Awake /\ Awake' = Awake \ {w}
  BY <1>1, <1>3 DEF Idle, Awake, Takes
<1>7. Cardinality(Awake') = Cardinality(Awake) - 1
  BY <1>6, Finite, CountOne
<1>8. Notifying' = Notifying
  BY <1>1 DEF Notifying, Threads
<1>9. PoolTypeOK'
  BY <1>1, <1>2, <1>4, <1>5 DEF PoolTypeOK, Threads
<1>10. \A v \in workers : v # w => pc[v] \notin {"predicate", "block"}
  BY DEF Guarded, Takes
<1>11. Guarded'
  BY <1>1, <1>3, <1>10 DEF Guarded, Threads, Takes
<1>12. NoTaskForgotten'
  BY <1>1, <1>4, <1>7, <1>8, Finite DEF NoTaskForgotten
<1>13. QED
  BY <1>1, <1>6, <1>9, <1>11, <1>12 DEF Counted

\* thread_num_--
LEMMA StartsInv ==
  ASSUME PoolInv, NEW w \in workers, Starts(w)
  PROVE  PoolInv'
<1> USE DEF PoolInv
<1>1. /\ workers' = workers /\ waiting' = waiting /\ tasks' = tasks /\ commit' = commit
      /\ stop' = stop /\ idle' = idle - 1 /\ mutex' = mutex /\ spurious' = spurious
      /\ owner' = owner /\ future' = future /\ running' = running
  BY DEF Starts, taskVars
<1>2. pc' \in [workers -> {"test", "lock", "predicate", "block", "waiting", "taken",
                           "run", "finished", "exited"}]
  BY DEF Starts, Goto, PoolTypeOK
<1>3. \A v \in workers : pc'[v] = IF v = w THEN "run" ELSE pc[v]
  BY DEF Starts, Goto, PoolTypeOK
<1>4. w \in Idle /\ Idle' = Idle \ {w} /\ Awake' = Awake
  BY <1>1, <1>3 DEF Idle, Awake, Starts
<1>5. Cardinality(Idle') = Cardinality(Idle) - 1
  BY <1>4, Finite, CountOne
<1>6. Counted'
  BY <1>1, <1>5 DEF Counted
<1>7. Cardinality(Idle') \in Nat /\ Cardinality(workers) \in Nat
  BY <1>4, Finite, FS_Subset, FS_CardinalityType DEF PoolTypeOK
<1>8. idle' \in 0..Cardinality(workers)
  BY <1>5, <1>6, <1>7, Finite DEF Counted
<1>9. PoolTypeOK'
  BY <1>1, <1>2, <1>8 DEF PoolTypeOK, Threads
<1>10. Guarded'
  BY <1>1, <1>3 DEF Guarded, Threads, Starts
<1>11. QED
  BY <1>1, <1>4, <1>6, <1>9, <1>10, Finite, Quiet

\* The packaged_task stores what the task returns or throws.
LEMMA FinishInv ==
  ASSUME PoolInv, NEW w \in workers, NEW o \in {"ready", "error"}, Finish(w, o)
  PROVE  PoolInv'
<1> USE DEF PoolInv
<1>1. /\ workers' = workers /\ waiting' = waiting /\ tasks' = tasks /\ commit' = commit
      /\ stop' = stop /\ idle' = idle /\ mutex' = mutex /\ spurious' = spurious
      /\ owner' = owner /\ running' = running
  BY DEF Finish
<1>2. pc' \in [workers -> {"test", "lock", "predicate", "block", "waiting", "taken",
                           "run", "finished", "exited"}]
  BY DEF Finish, Goto, PoolTypeOK
<1>3. \A v \in workers : pc'[v] = IF v = w THEN "finished" ELSE pc[v]
  BY DEF Finish, Goto, PoolTypeOK
<1>4. Idle' = Idle /\ Awake' = Awake
  BY <1>1, <1>3 DEF Idle, Awake, Finish
<1>5. future' \in [Tasks -> {"none", "invalid", "pending", "ready", "error", "broken"}]
  BY DEF Finish, PoolTypeOK
<1>6. PoolTypeOK'
  BY <1>1, <1>2, <1>5 DEF PoolTypeOK, Threads
<1>7. Guarded'
  BY <1>1, <1>3 DEF Guarded, Threads, Finish
<1>8. QED
  BY <1>1, <1>4, <1>6, <1>7, Finite, Quiet DEF Counted

\* thread_num_++
LEMMA ReturnsInv ==
  ASSUME PoolInv, NEW w \in workers, Returns(w)
  PROVE  PoolInv'
<1> USE DEF PoolInv
<1>1. /\ workers' = workers /\ waiting' = waiting /\ tasks' = tasks /\ commit' = commit
      /\ stop' = stop /\ idle' = idle + 1 /\ mutex' = mutex /\ spurious' = spurious
      /\ owner' = owner /\ future' = future
  BY DEF Returns
<1>2. pc' \in [workers -> {"test", "lock", "predicate", "block", "waiting", "taken",
                           "run", "finished", "exited"}]
  BY DEF Returns, Goto, PoolTypeOK
<1>3. \A v \in workers : pc'[v] = IF v = w THEN "test" ELSE pc[v]
  BY DEF Returns, Goto, PoolTypeOK
<1>4. /\ w \notin Idle /\ Idle' = Idle \union {w}
      /\ w \notin Awake /\ Awake' = Awake \union {w}
  BY <1>1, <1>3 DEF Idle, Awake, Returns
<1>5. /\ Cardinality(Idle') = Cardinality(Idle) + 1
      /\ Cardinality(Awake') = Cardinality(Awake) + 1
  BY <1>4, Finite, CountOne
<1>6. Counted'
  BY <1>1, <1>5 DEF Counted
<1>7. Cardinality(Idle') <= Cardinality(workers) /\ Cardinality(workers) \in Nat
  BY <1>4, FS_Subset, FS_CardinalityType DEF Idle, PoolTypeOK
<1>8. idle' \in 0..Cardinality(workers)
  BY <1>5, <1>6, <1>7, Finite DEF Counted
<1>9. running' \in [workers -> Tasks \union {NoTask}]
  BY DEF Returns, PoolTypeOK
<1>10. PoolTypeOK'
  BY <1>1, <1>2, <1>8, <1>9 DEF PoolTypeOK, Threads
<1>11. Guarded'
  BY <1>1, <1>3 DEF Guarded, Threads, Returns
<1>12. QED
  BY <1>1, <1>5, <1>6, <1>10, <1>11, Finite, Quiet

\* A wakeup without a notification.
LEMMA SpuriousWakeInv ==
  ASSUME PoolInv, NEW w \in workers, SpuriousWake(w)
  PROVE  PoolInv'
<1> USE DEF PoolInv
<1>1. /\ workers' = workers /\ tasks' = tasks /\ commit' = commit /\ stop' = stop
      /\ idle' = idle /\ mutex' = mutex /\ owner' = owner /\ future' = future
      /\ running' = running /\ spurious' \in Nat
  BY DEF SpuriousWake, taskVars, PoolTypeOK
<1>2. w \in waiting /\ Wake({w})
  BY DEF SpuriousWake
<1>3. /\ waiting' \subseteq workers /\ waiting' = {v \in workers : pc'[v] = "waiting"}
      /\ pc' \in [workers -> {"test", "lock", "predicate", "block", "waiting", "taken",
                              "run", "finished", "exited"}]
      /\ \A v \in workers : pc'[v] \in {"predicate", "block"} => pc'[v] = pc[v]
      /\ Idle' = Idle /\ Cardinality(Awake') = Cardinality(Awake) + 1
  BY <1>1, <1>2, WakeOne
<1>4. PoolTypeOK'
  BY <1>1, <1>3 DEF PoolTypeOK, Threads
<1>5. Guarded' /\ Counted'
  BY <1>1, <1>3 DEF Guarded, Counted, Threads
<1>6. Notifying' = Notifying
  BY <1>1 DEF Notifying, Threads
<1>7. Len(tasks) \in Nat
  BY DEF PoolTypeOK
<1>8. NoTaskForgotten'
  BY <1>1, <1>2, <1>3, <1>6, <1>7, Finite DEF NoTaskForgotten
<1>9. QED
  BY <1>4, <1>5, <1>8

-----------------------------------------------------------------------------
(* stop() *)

\* After stop() nothing is promised for the tasks in the queue.
LEMMA StopInv ==
  ASSUME PoolInv, StopStore \/ StopNotify \/ StopJoined
  PROVE  PoolInv'
<1> USE DEF PoolInv
<1>1. workers' = workers /\ idle' = idle /\ mutex' = mutex /\ spurious' = spurious
      /\ running' = running /\ commit' = commit /\ Threads' = Threads
  BY DEF StopStore, StopNotify, StopJoined, lockVars, taskVars, Threads
<1>2. CASE StopStore
  <2>1. /\ stop' = TRUE /\ waiting' = waiting /\ pc' = pc /\ tasks' = tasks /\ future' = future
        /\ owner' = "notify"
    BY <1>2 DEF StopStore, lockVars, taskVars
  <2>2. stop' \in BOOLEAN
    BY <2>1
  <2>3. PoolTypeOK'
    BY <1>1, <2>1, <2>2 DEF PoolTypeOK
  <2>4. Idle' = Idle
    BY <1>1, <2>1 DEF Idle
  <2>5. Guarded' /\ Counted' /\ NoTaskForgotten'
    BY <1>1, <2>1, <2>4 DEF Guarded, Counted, NoTaskForgotten
  <2>6. QED
    BY <2>3, <2>5
<1>3. CASE StopNotify
  <2>1. /\ stop' = stop /\ waiting' = {} /\ tasks' = tasks /\ future' = future
        /\ owner' = "join"
    BY <1>3 DEF StopNotify, Wake, taskVars
  <2>2. \A v \in workers : pc'[v] = IF v \in waiting THEN "lock" ELSE pc[v]
    BY <1>3 DEF StopNotify, Wake
  <2>3. pc' \in [workers -> {"test", "lock", "predicate", "block", "waiting", "taken",
                             "run", "finished", "exited"}]
    BY <1>3 DEF StopNotify, Wake, PoolTypeOK
  <2>4. PoolTypeOK'
    BY <1>1, <2>1, <2>3 DEF PoolTypeOK
  <2>5. Idle' = Idle
    BY <1>1, <2>2 DEF Idle, Guarded
  <2>6. Guarded'
    BY <1>1, <2>1, <2>2 DEF Guarded
  <2>7. QED
    BY <1>1, <2>1, <2>4, <2>5, <2>6 DEF Counted, NoTaskForgotten
<1>4. CASE StopJoined
  <2>1. /\ stop' = stop /\ waiting' = waiting /\ pc' = pc /\ tasks' = <<>> /\ owner' = "done"
    BY <1>4 DEF StopJoined, lockVars
  <2>2. future' \in [Tasks -> {"none", "invalid", "pending", "ready", "error", "broken"}]
    BY <1>4 DEF StopJoined, PoolTypeOK
  <2>3. PoolTypeOK'
    BY <1>1, <2>1, <2>2 DEF PoolTypeOK
  <2>4. Idle' = Idle
    BY <1>1, <2>1 DEF Idle
  <2>5. Guarded' /\ Counted'
    BY <1>1, <2>1, <2>4 DEF Guarded, Counted
  <2>6. NoTaskForgotten'
    BY <2>1, <2>3, EmptyQueue
  <2>7. QED
    BY <2>3, <2>5, <2>6
<1>5. QED
  BY <1>2, <1>3, <1>4

-----------------------------------------------------------------------------
\* The invariant is inductive.
LEMMA PoolNextInv ==
  ASSUME PoolInv, [PoolNext]_poolVars
  PROVE  PoolInv'
<1>1. ASSUME NEW th \in Threads,
             (\E t \in Tasks : CommitRefused(th, t) \/ CommitTest(th, t))
               \/ Emplace(th) \/ NotifyOne(th)
      PROVE  PoolInv'
  BY <1>1, CommitBegins, EmplaceInv, NotifyOneInv
<1>2. ASSUME NEW w \in workers, WorkerStep(w)
      PROVE  PoolInv'
  BY <1>2, TestInv, LockInv, FindsNothingInv, BlockInv, LeavesInv, TakesInv, StartsInv,
     ReturnsInv, SpuriousWakeInv DEF WorkerStep
<1>3. ASSUME NEW w \in workers, NEW o \in {"ready", "error"}, Finish(w, o)
      PROVE  PoolInv'
  BY <1>3, FinishInv
<1>4. CASE UNCHANGED poolVars
  BY <1>4 DEF poolVars, lockVars, taskVars, PoolInv, PoolTypeOK, Guarded, Counted, Idle,
              NoTaskForgotten, Awake, Notifying, Threads
<1>5. QED
  BY <1>1, <1>2, <1>3, <1>4, StopInv DEF PoolNext

(***************************************************************************)
(* Types: thread_num_ stays between 0 and the number of workers, whatever  *)
(* the tasks, the number of cores and the wakeups (ThreadPool.h 31, 70-96).*)
(***************************************************************************)
THEOREM PoolTypes == PoolSpec => []PoolTypeOK
<1>1. PoolSpec => []PoolInv
  BY PoolInitInv, PoolNextInv, PTL DEF PoolSpec
<1>2. PoolInv => PoolTypeOK
  BY DEF PoolInv
<1>3. QED
  BY <1>1, <1>2, PTL

(***************************************************************************)
(* The notification of commit() is never lost while the pool runs: no      *)
(* worker sleeps on a task that nobody else is about to take or announce   *)
(* (ThreadPool.h 43-60, 70-90).                                            *)
(***************************************************************************)
THEOREM NoTaskForgottenHolds == PoolSpec => []NoTaskForgotten
<1>1. PoolSpec => []PoolInv
  BY PoolInitInv, PoolNextInv, PTL DEF PoolSpec
<1>2. PoolInv => NoTaskForgotten
  BY DEF PoolInv
<1>3. QED
  BY <1>1, <1>2, PTL

-----------------------------------------------------------------------------
(* Tasks: each is in one place until it is run.                            *)

Runs(w, t) == pc[w] \in {"taken", "run"} /\ running[w] = t
Emplaces(th, t) == commit[th].at = "emplace" /\ commit[th].task = t

Carried(t) ==
  \/ Queued(t) \/ (\E th \in Threads : Emplaces(th, t)) \/ (\E w \in workers : Runs(w, t))

Once ==
  /\ \A t \in Tasks : Carried(t) => future[t] = "pending"
  /\ \A w \in workers : pc[w] \in {"taken", "run"} => running[w] \in Tasks
  /\ \A i, j \in DOMAIN tasks : tasks[i] = tasks[j] => i = j
  /\ \A t \in Tasks : \A g, h \in Threads : Emplaces(g, t) /\ Emplaces(h, t) => g = h
  /\ \A t \in Tasks : \A v, w \in workers : Runs(v, t) /\ Runs(w, t) => v = w
  /\ \A t \in Tasks : Queued(t) => /\ \A th \in Threads : ~Emplaces(th, t)
                                   /\ \A w \in workers : ~Runs(w, t)
  /\ \A t \in Tasks, w \in workers, th \in Threads : Runs(w, t) => ~Emplaces(th, t)

-----------------------------------------------------------------------------
(* Calls.                                                                  *)

\* s has the items of S, each once, in order.
SortOf(s, S) ==
  /\ s \in Seq(Items) /\ Sorted(s)
  /\ {s[i] : i \in DOMAIN s} = S
  /\ \A i, j \in DOMAIN s : s[i] = s[j] => i = j

Settled(S) == \A t \in S : future[t] = "ready"

Active(th) == at[th] \in {"call", "commit", "return"}

Job(th) == IF th = Main THEN Items ELSE bound[running[th]]

\* S[i] is the list of the i-th of the nested calls with the pivots s.
Nested(s, S) ==
  \A i \in 1..Len(s) :
    /\ s[i] \in S[i - 1] /\ S[i] = Higher(S[i - 1], s[i])
    /\ future[s[i]] # "none"
    /\ future[s[i]] # "invalid" => bound[s[i]] = Lower(S[i - 1], s[i])

Frames(th, S) ==
  /\ S[0] = Job(th) /\ Nested(stack[th], S)
  /\ at[th] = "call" => input[th] = S[Len(stack[th])]
  /\ at[th] = "commit" => stack[th] # <<>> /\ input[th] = S[Len(stack[th]) - 1]
  /\ at[th] = "return" =>
       SortOf(result[th], S[Len(stack[th])]) /\ Settled(S[Len(stack[th])])

Lists(th) == [0..Len(stack[th]) -> SUBSET Items]

SortTypes ==
  /\ input \in [Threads -> SUBSET Items] /\ stack \in [Threads -> Seq(Items)]
  /\ at \in [Threads -> {"idle", "call", "commit", "return", "thrown", "commit root", "over"}]
  /\ result \in [Threads -> Seq(Items)]
  /\ bound \in [Tasks -> SUBSET Items] /\ value \in [Tasks -> Seq(Items)]

SortInv ==
  /\ \A th \in Threads : IF Active(th) THEN \E S \in Lists(th) : Frames(th, S) ELSE stack[th] = <<>>
  /\ \A w \in workers : pc[w] = "run" <=> at[w] # "idle"
  /\ \A t \in Tasks : future[t] = "ready" => SortOf(value[t], bound[t]) /\ Settled(bound[t])
  /\ at[Main] = "over" /\ future[Root] = "none" => SortOf(result[Main], Items) /\ Settled(Items)
  /\ at[Main] = "commit root" => future[Root] # "none"

-----------------------------------------------------------------------------
(* Lists.                                                                  *)

\* The two parts of a list, and its pivot.
LEMMA Parts ==
  ASSUME NEW T \in SUBSET Items, NEW p \in T
  PROVE  /\ Lower(T, p) \in SUBSET Items /\ Higher(T, p) \in SUBSET Items
         /\ T = Lower(T, p) \union {p} \union Higher(T, p)
         /\ p \notin Lower(T, p) /\ p \notin Higher(T, p)
         /\ \A x \in Lower(T, p) : x \notin Higher(T, p)
         /\ \A x \in Lower(T, p) : Key[x] <= Key[p]
         /\ \A x \in Higher(T, p) : Key[p] <= Key[x]
<1>1. p # Root
  BY PoolSortAssumption
<1>2. Lower(T, p) = {x \in T \ {p} : Key[x] < Key[p]}
  BY <1>1 DEF Lower
<1>3. \A x \in T : Key[x] \in Nat
  BY PoolSortAssumption
<1>4. QED
  BY <1>2, <1>3 DEF Higher

\* Two sorted parts around the pivot are a sorted list.
LEMMA Spliced ==
  ASSUME NEW T \in SUBSET Items, NEW p \in T, NEW u, NEW v,
         SortOf(u, Lower(T, p)), SortOf(v, Higher(T, p))
  PROVE  SortOf(u \o <<p>> \o v, T)
<1> DEFINE A == Lower(T, p)
           B == Higher(T, p)
           s == u \o <<p>> \o v
<1>1. /\ A \subseteq Items /\ B \subseteq Items /\ T = A \union {p} \union B
      /\ p \notin A /\ p \notin B /\ \A x \in A : x \notin B
      /\ \A x \in A : Key[x] <= Key[p]
      /\ \A x \in B : Key[p] <= Key[x]
  BY Parts
<1>2. /\ u \in Seq(Items) /\ v \in Seq(Items) /\ Len(u) \in Nat /\ Len(v) \in Nat
      /\ DOMAIN u = 1..Len(u) /\ DOMAIN v = 1..Len(v)
  BY LenProperties DEF SortOf
<1>3. /\ \A i \in 1..Len(u) : u[i] \in A
      /\ \A i \in 1..Len(v) : v[i] \in B
      /\ \A x \in A : \E i \in 1..Len(u) : u[i] = x
      /\ \A x \in B : \E i \in 1..Len(v) : v[i] = x
      /\ \A i, j \in 1..Len(u) : (i < j => Key[u[i]] <= Key[u[j]]) /\ (u[i] = u[j] => i = j)
      /\ \A i, j \in 1..Len(v) : (i < j => Key[v[i]] <= Key[v[j]]) /\ (v[i] = v[j] => i = j)
  <2>1. {u[i] : i \in 1..Len(u)} = A /\ {v[i] : i \in 1..Len(v)} = B
    BY <1>2 DEF SortOf
  <2>2. /\ \A i, j \in 1..Len(u) : (i < j => Key[u[i]] <= Key[u[j]]) /\ (u[i] = u[j] => i = j)
        /\ \A i, j \in 1..Len(v) : (i < j => Key[v[i]] <= Key[v[j]]) /\ (v[i] = v[j] => i = j)
    BY <1>2 DEF SortOf, Sorted
  <2> HIDE DEF A, B
  <2>3. QED
    BY <2>1, <2>2
<1> HIDE DEF A, B
<1>4. /\ s \in Seq(Items) /\ Len(s) = Len(u) + 1 + Len(v)
      /\ \A i \in 1..Len(u) : s[i] = u[i]
      /\ s[Len(u) + 1] = p
      /\ \A i \in 1..Len(v) : s[Len(u) + 1 + i] = v[i]
  <2>1. <<p>> \in Seq(Items) /\ Len(<<p>>) = 1 /\ <<p>>[1] = p
    OBVIOUS
  <2> DEFINE l == u \o <<p>>
  <2>2. /\ l \in Seq(Items) /\ Len(l) = Len(u) + 1
        /\ \A i \in 1..(Len(u) + 1) : l[i] = IF i <= Len(u) THEN u[i] ELSE <<p>>[i - Len(u)]
    BY <1>2, <2>1, ConcatProperties
  <2> HIDE DEF l
  <2>3. /\ l \o v \in Seq(Items) /\ Len(l \o v) = Len(u) + 1 + Len(v)
        /\ \A i \in 1..(Len(u) + 1 + Len(v)) :
             (l \o v)[i] = IF i <= Len(u) + 1 THEN l[i] ELSE v[i - (Len(u) + 1)]
    <3>1. /\ l \o v \in Seq(Items) /\ Len(l \o v) = Len(l) + Len(v)
          /\ \A i \in 1..(Len(l) + Len(v)) : (l \o v)[i] = IF i <= Len(l) THEN l[i] ELSE v[i - Len(l)]
      <4>1. l \in Seq(Items) /\ v \in Seq(Items)
        BY <1>2, <2>2
      <4>2. QED
        BY <4>1, ConcatProperties
    <3>2. QED
      BY <2>2, <3>1
  <2>4. s = l \o v
    BY DEF l
  <2>5. ASSUME NEW i \in 1..Len(u)
        PROVE  s[i] = u[i]
    <3>1. i \in 1..(Len(u) + 1 + Len(v)) /\ i <= Len(u) + 1 /\ i \in 1..(Len(u) + 1) /\ i <= Len(u)
      BY <1>2
    <3>2. QED
      BY <2>2, <2>3, <2>4, <3>1
  <2>6. s[Len(u) + 1] = p
    <3>1. /\ Len(u) + 1 \in 1..(Len(u) + 1 + Len(v)) /\ Len(u) + 1 <= Len(u) + 1
          /\ Len(u) + 1 \in 1..(Len(u) + 1) /\ ~(Len(u) + 1 <= Len(u)) /\ (Len(u) + 1) - Len(u) = 1
      BY <1>2
    <3>2. QED
      BY <2>1, <2>2, <2>3, <2>4, <3>1
  <2>7. ASSUME NEW i \in 1..Len(v)
        PROVE  s[Len(u) + 1 + i] = v[i]
    <3>1. /\ Len(u) + 1 + i \in 1..(Len(u) + 1 + Len(v)) /\ ~(Len(u) + 1 + i <= Len(u) + 1)
          /\ (Len(u) + 1 + i) - (Len(u) + 1) = i
      BY <1>2
    <3>2. QED
      BY <2>3, <2>4, <3>1
  <2> HIDE DEF s
  <2>8. QED
    BY <2>3, <2>4, <2>5, <2>6, <2>7
<1> HIDE DEF s
<1>5. /\ DOMAIN s = 1..Len(s) /\ Len(s) \in Nat
  BY <1>4, LenProperties
<1>6. ASSUME NEW i \in 1..Len(s)
      PROVE  \/ i \in 1..Len(u) /\ s[i] = u[i] /\ s[i] \in A
             \/ i = Len(u) + 1 /\ s[i] = p
             \/ \E k \in 1..Len(v) : i = Len(u) + 1 + k /\ s[i] = v[k] /\ s[i] \in B
  <2>1. CASE i <= Len(u)
    BY <1>2, <1>3, <1>4, <2>1
  <2>2. CASE i = Len(u) + 1
    BY <1>4, <2>2
  <2>3. CASE i > Len(u) + 1
    <3>1. PICK k \in 1..Len(v) : i = Len(u) + 1 + k
      <4>1. i - (Len(u) + 1) \in 1..Len(v) /\ i = Len(u) + 1 + (i - (Len(u) + 1))
        BY <1>2, <1>4, <2>3
      <4>2. QED
        BY <4>1
    <3>2. QED
      BY <1>3, <1>4, <3>1
  <2>4. QED
    BY <1>2, <2>1, <2>2, <2>3
<1>7. {s[i] : i \in 1..Len(s)} = T
  <2>1. \A i \in 1..Len(s) : s[i] \in T
    BY <1>1, <1>6
  <2>2. ASSUME NEW x \in T
        PROVE  \E i \in 1..Len(s) : s[i] = x
    <3>1. CASE x \in A
      <4>1. PICK i \in 1..Len(u) : u[i] = x
        BY <1>3, <3>1
      <4>2. i \in 1..Len(s)
        BY <1>2, <1>4
      <4>3. QED
        BY <1>4, <4>1, <4>2
    <3>2. CASE x = p
      <4>1. Len(u) + 1 \in 1..Len(s)
        BY <1>2, <1>4
      <4>2. QED
        BY <1>4, <3>2, <4>1
    <3>3. CASE x \in B
      <4>1. PICK i \in 1..Len(v) : v[i] = x
        BY <1>3, <3>3
      <4>2. Len(u) + 1 + i \in 1..Len(s)
        BY <1>2, <1>4
      <4>3. QED
        BY <1>4, <4>1, <4>2
    <3>4. QED
      BY <1>1, <3>1, <3>2, <3>3
  <2>3. QED
    BY <2>1, <2>2
<1>8. \A x \in T : Key[x] \in Nat
  BY PoolSortAssumption
<1>9. ASSUME NEW i \in 1..Len(s), NEW j \in 1..Len(s)
      PROVE  (i < j => Key[s[i]] <= Key[s[j]]) /\ (s[i] = s[j] => i = j)
  <2>1. s[i] \in T /\ s[j] \in T /\ Key[s[i]] \in Nat /\ Key[s[j]] \in Nat /\ Key[p] \in Nat
    BY <1>7, <1>8
  <2>2. CASE i \in 1..Len(u) /\ s[i] = u[i] /\ s[i] \in A
    <3>1. CASE j \in 1..Len(u) /\ s[j] = u[j] /\ s[j] \in A
      BY <1>3, <2>2, <3>1
    <3>2. CASE j = Len(u) + 1 /\ s[j] = p
      BY <1>1, <2>2, <3>2
    <3>3. CASE \E k \in 1..Len(v) : j = Len(u) + 1 + k /\ s[j] = v[k] /\ s[j] \in B
      <4>1. Key[s[i]] <= Key[p] /\ Key[p] <= Key[s[j]] /\ s[i] # s[j]
        BY <1>1, <2>2, <3>3
      <4>2. QED
        BY <2>1, <4>1
    <3>4. QED
      BY <1>6, <3>1, <3>2, <3>3
  <2>3. CASE i = Len(u) + 1 /\ s[i] = p
    <3>1. CASE j \in 1..Len(u) /\ s[j] = u[j] /\ s[j] \in A
      BY <1>1, <1>2, <2>3, <3>1
    <3>2. CASE j = Len(u) + 1 /\ s[j] = p
      BY <1>2, <2>3, <3>2
    <3>3. CASE \E k \in 1..Len(v) : j = Len(u) + 1 + k /\ s[j] = v[k] /\ s[j] \in B
      BY <1>1, <2>3, <3>3
    <3>4. QED
      BY <1>6, <3>1, <3>2, <3>3
  <2>4. CASE \E k \in 1..Len(v) : i = Len(u) + 1 + k /\ s[i] = v[k] /\ s[i] \in B
    <3>0. PICK k \in 1..Len(v) : i = Len(u) + 1 + k /\ s[i] = v[k] /\ s[i] \in B
      BY <2>4
    <3>1. CASE j \in 1..Len(u) /\ s[j] = u[j] /\ s[j] \in A
      <4>1. ~(i < j) /\ s[i] # s[j]
        BY <1>1, <1>2, <3>0, <3>1
      <4>2. QED
        BY <4>1
    <3>2. CASE j = Len(u) + 1 /\ s[j] = p
      <4>1. ~(i < j) /\ s[i] # s[j]
        BY <1>1, <1>2, <3>0, <3>2
      <4>2. QED
        BY <4>1
    <3>3. CASE \E n \in 1..Len(v) : j = Len(u) + 1 + n /\ s[j] = v[n] /\ s[j] \in B
      <4>1. PICK n \in 1..Len(v) : j = Len(u) + 1 + n /\ s[j] = v[n] /\ s[j] \in B
        BY <3>3
      <4>2. i < j => k < n
        BY <1>2, <3>0, <4>1
      <4>3. QED
        BY <1>3, <3>0, <4>1, <4>2
    <3>4. QED
      BY <1>6, <3>1, <3>2, <3>3
  <2>5. QED
    BY <1>6, <2>2, <2>3, <2>4
<1>10. SortOf(s, T)
  BY <1>4, <1>5, <1>7, <1>9 DEF SortOf, Sorted
<1>11. QED
  BY <1>10 DEF s

\* The empty list.
LEMMA SortOfNone == SortOf(<<>>, {})
BY EmptySeq DEF SortOf, Sorted

\* A sorted list is as long as it should be.
LEMMA SortLength ==
  ASSUME NEW s, NEW S, SortOf(s, S)
  PROVE  Len(s) = Cardinality(S)
<1>1. s \in Seq(Items) /\ Len(s) \in Nat /\ DOMAIN s = 1..Len(s)
  BY LenProperties DEF SortOf
<1>2. s \in [1..Len(s) -> S] /\ {s[i] : i \in 1..Len(s)} = S /\ \A i, j \in 1..Len(s) : s[i] = s[j] => i = j
  BY <1>1, LenProperties DEF SortOf
<1>3. s \in Bijection(1..Len(s), S)
  BY <1>2 DEF Bijection, Injection, Surjection, IsInjective
<1>4. ExistsBijection(1..Len(s), S)
  BY <1>3 DEF ExistsBijection
<1>5. QED
  BY <1>1, <1>4, FS_CountingElements

-----------------------------------------------------------------------------
(* The pool keeps the tasks apart.                                         *)

\* What is settled about a future stays so.
Forward ==
  \A t \in Tasks : /\ future[t] # "none" => future'[t] # "none"
                   /\ future[t] = "invalid" => future'[t] = "invalid"
                   /\ future[t] = "ready" => future'[t] = "ready"

\* Nothing gets a task.
LEMMA OnceShrinks ==
  ASSUME Once, workers' = workers, tasks' = tasks \/ tasks' = <<>>,
         \A w \in workers : pc'[w] \in {"taken", "run"} =>
           pc[w] \in {"taken", "run"} /\ running'[w] = running[w],
         \A th \in Threads : commit'[th].at = "emplace" => commit'[th] = commit[th],
         \A t \in Tasks : Carried(t)' /\ future[t] = "pending" => future'[t] = "pending"
  PROVE  Once'
<1>1. Threads' = Threads
  BY DEF Threads
<1>2. /\ \A t : \A w \in workers : Runs(w, t)' => Runs(w, t)
      /\ \A t : \A th \in Threads : Emplaces(th, t)' => Emplaces(th, t)
      /\ \A t : Queued(t)' => Queued(t)
      /\ \A i, j \in DOMAIN tasks' : tasks'[i] = tasks'[j] => i = j
  <2>1. \A t : \A w \in workers : Runs(w, t)' => Runs(w, t)
    BY DEF Runs
  <2>2. \A t : \A th \in Threads : Emplaces(th, t)' => Emplaces(th, t)
    BY DEF Emplaces
  <2>3. DOMAIN <<>> = {}
    BY EmptySeq, LenProperties
  <2>4. \A t : Queued(t)' => Queued(t)
    BY <2>3 DEF Queued
  <2>5. \A i, j \in DOMAIN tasks' : tasks'[i] = tasks'[j] => i = j
    BY <2>3 DEF Once
  <2>6. QED
    BY <2>1, <2>2, <2>4, <2>5
<1>3. \A t : Carried(t)' => Carried(t)
  BY <1>1, <1>2 DEF Carried
<1>4. \A t \in Tasks : Carried(t)' => future'[t] = "pending"
  BY <1>3 DEF Once
<1>5. \A w \in workers : pc'[w] \in {"taken", "run"} => running'[w] \in Tasks
  BY DEF Once
<1>6. QED
  BY <1>1, <1>2, <1>4, <1>5 DEF Once

LEMMA OnceInit == PoolInit => Once
<1> SUFFICES ASSUME PoolInit PROVE Once
  OBVIOUS
<1>1. /\ tasks = <<>> /\ \A w \in workers : pc[w] = "test"
      /\ \A th \in Threads : commit[th] = NoCommit
  BY DEF PoolInit
<1>2. DOMAIN tasks = {}
  BY <1>1, EmptySeq, LenProperties
<1>3. \A t : \A th \in Threads : ~Emplaces(th, t)
  BY <1>1 DEF Emplaces, NoCommit
<1>4. \A t : \A w \in workers : ~Runs(w, t)
  BY <1>1 DEF Runs
<1>5. QED
  BY <1>1, <1>2, <1>3, <1>4 DEF Once, Carried, Queued

\* commit() begins.
LEMMA CommitOnce ==
  ASSUME PoolInv, Once, NEW th \in Threads, NEW t \in Tasks, CommitRefused(th, t) \/ CommitTest(th, t)
  PROVE  Once' /\ Forward
<1>1. /\ workers' = workers /\ tasks' = tasks /\ pc' = pc /\ running' = running
      /\ Threads' = Threads /\ future[t] = "none" /\ commit[th] = NoCommit
      /\ future \in [Tasks -> {"none", "invalid", "pending", "ready", "error", "broken"}]
  BY DEF CommitRefused, CommitTest, MayCall, lockVars, PoolInv, PoolTypeOK, Threads
<1>2. Forward
  BY <1>1 DEF Forward, CommitRefused, CommitTest
<1>3. ~Carried(t)
  BY <1>1 DEF Once
<1>4. CASE CommitRefused(th, t)
  <2>1. commit' = commit /\ future' = [future EXCEPT ![t] = "invalid"]
    BY <1>4 DEF CommitRefused
  <2>2. \A u \in Tasks : Carried(u)' => Carried(u)
    BY <1>1, <2>1 DEF Carried, Queued, Emplaces, Runs
  <2>3. \A u \in Tasks : Carried(u)' /\ future[u] = "pending" => future'[u] = "pending"
    BY <1>1, <1>3, <2>1, <2>2
  <2>4. QED
    BY <1>1, <1>2, <2>1, <2>3, OnceShrinks
<1>5. CASE CommitTest(th, t)
  <2>1. /\ commit' = [commit EXCEPT ![th] = [at |-> "emplace", task |-> t]]
        /\ future' = [future EXCEPT ![t] = "pending"]
    BY <1>5 DEF CommitTest
  <2>2. commit = [h \in Threads |-> commit[h]]
    BY DEF PoolInv, PoolTypeOK
  <2>3. /\ \A u : Emplaces(th, u)' <=> u = t
        /\ \A u : \A h \in Threads : h # th => (Emplaces(h, u)' <=> Emplaces(h, u))
    BY <1>1, <2>1, <2>2 DEF Emplaces
  <2>4. /\ \A u : Queued(u)' <=> Queued(u)
        /\ \A u : \A w \in workers : Runs(w, u)' <=> Runs(w, u)
    BY <1>1 DEF Queued, Runs
  <2>5. \A u \in Tasks : Carried(u)' => Carried(u) \/ u = t
    BY <1>1, <2>3, <2>4 DEF Carried
  <2>6. \A u \in Tasks : Carried(u)' => future'[u] = "pending"
    BY <1>1, <2>1, <2>5 DEF Once
  <2>7. ~Queued(t) /\ (\A h \in Threads : ~Emplaces(h, t)) /\ \A w \in workers : ~Runs(w, t)
    BY <1>3 DEF Carried
  <2>8. \A u \in Tasks, w \in workers, h \in Threads : Runs(w, u)' => ~Emplaces(h, u)'
    BY <2>3, <2>4, <2>7 DEF Once
  <2>9. \A u \in Tasks : \A g, h \in Threads : Emplaces(g, u)' /\ Emplaces(h, u)' => g = h
    BY <2>3, <2>7 DEF Once
  <2>10. \A u \in Tasks : Queued(u)' => /\ \A h \in Threads : ~Emplaces(h, u)'
                                        /\ \A w \in workers : ~Runs(w, u)'
    BY <2>3, <2>4, <2>7 DEF Once
  <2>11. QED
    BY <1>1, <1>2, <2>4, <2>6, <2>8, <2>9, <2>10 DEF Once
<1>6. QED
  BY <1>4, <1>5

\* The task comes to the queue.
LEMMA EmplaceOnce ==
  ASSUME PoolInv, Once, NEW th \in Threads, Emplace(th)
  PROVE  Once' /\ Forward
<1>1. PICK t : t = commit[th].task
  OBVIOUS
<1>2. /\ workers' = workers /\ tasks' = Append(tasks, t) /\ pc' = pc /\ running' = running
      /\ Threads' = Threads /\ future' = future /\ commit[th].at = "emplace" /\ t \in Tasks
      /\ commit' = [commit EXCEPT ![th].at = "notify"] /\ tasks \in Seq(Tasks)
      /\ commit \in [Threads -> [at : {"no", "emplace", "notify"}, task : Tasks \union {NoTask}]]
  BY <1>1 DEF Emplace, lockVars, PoolInv, PoolTypeOK, Guarded, Threads
<1>3. /\ tasks' \in Seq(Tasks) /\ Len(tasks') = Len(tasks) + 1 /\ Len(tasks) \in Nat
      /\ \A i \in 1..Len(tasks) : tasks'[i] = tasks[i]
      /\ tasks'[Len(tasks) + 1] = t
      /\ DOMAIN tasks = 1..Len(tasks) /\ DOMAIN tasks' = 1..(Len(tasks) + 1)
  BY <1>2, AppendProperties, LenProperties
<1>4. \A i \in 1..(Len(tasks) + 1) : i \in 1..Len(tasks) \/ i = Len(tasks) + 1
  BY <1>3
<1>5. \A u : Queued(u)' => Queued(u) \/ u = t
  BY <1>3, <1>4 DEF Queued
<1>6. /\ \A u : ~Emplaces(th, u)'
      /\ \A u : \A h \in Threads : h # th => (Emplaces(h, u)' <=> Emplaces(h, u))
  BY <1>2 DEF Emplaces
<1>7. \A u : \A w \in workers : Runs(w, u)' <=> Runs(w, u)
  BY <1>2 DEF Runs
<1>8. Emplaces(th, t)
  BY <1>1, <1>2 DEF Emplaces
<1>9. \A u \in Tasks : Carried(u)' => Carried(u)
  BY <1>2, <1>5, <1>6, <1>7, <1>8 DEF Carried
<1>10. ~Queued(t) /\ (\A h \in Threads : h # th => ~Emplaces(h, t)) /\ \A w \in workers : ~Runs(w, t)
  BY <1>2, <1>8 DEF Once
<1>11. \A i, j \in DOMAIN tasks' : tasks'[i] = tasks'[j] => i = j
  BY <1>3, <1>4, <1>10 DEF Once, Queued
<1>12. \A u \in Tasks : Queued(u)' => /\ \A h \in Threads : ~Emplaces(h, u)'
                                      /\ \A w \in workers : ~Runs(w, u)'
  BY <1>5, <1>6, <1>7, <1>10 DEF Once
<1>13. Forward
  BY <1>2 DEF Forward
<1>14. \A u \in Tasks : \A g, h \in Threads : Emplaces(g, u)' /\ Emplaces(h, u)' => g = h
  BY <1>6 DEF Once
<1>15. \A u \in Tasks, w \in workers, h \in Threads : Runs(w, u)' => ~Emplaces(h, u)'
  BY <1>6, <1>7 DEF Once
<1>16. QED
  BY <1>2, <1>7, <1>9, <1>11, <1>12, <1>13, <1>14, <1>15 DEF Once

\* A worker takes the first task.
LEMMA TakesOnce ==
  ASSUME PoolInv, Once, NEW w \in workers, Takes(w)
  PROVE  Once' /\ Forward
<1>1. /\ workers' = workers /\ commit' = commit /\ future' = future /\ Threads' = Threads
      /\ tasks # <<>> /\ tasks' = Tail(tasks) /\ tasks \in Seq(Tasks)
      /\ running' = [running EXCEPT ![w] = Head(tasks)] /\ running = [v \in workers |-> running[v]]
      /\ pc' = [pc EXCEPT ![w] = "taken"] /\ pc = [v \in workers |-> pc[v]]
      /\ pc[w] = "predicate"
  BY DEF Takes, Goto, PoolInv, PoolTypeOK, Threads
<1>2. PICK t : t = Head(tasks)
  OBVIOUS
<1>3. /\ Len(tasks) \in Nat \ {0} /\ t = tasks[1] /\ t \in Tasks
      /\ tasks' \in Seq(Tasks) /\ Len(tasks') = Len(tasks) - 1
      /\ \A i \in 1..Len(tasks') : tasks'[i] = tasks[i + 1]
      /\ DOMAIN tasks = 1..Len(tasks) /\ DOMAIN tasks' = 1..Len(tasks')
  BY <1>1, <1>2, HeadTailProperties, EmptySeq, LenProperties
<1>4. 1 \in DOMAIN tasks /\ \A i \in DOMAIN tasks' : i + 1 \in DOMAIN tasks /\ i + 1 # 1
  BY <1>3
<1>5. Queued(t)
  BY <1>3, <1>4 DEF Queued
<1>6. \A u : Queued(u)' => Queued(u) /\ u # t
  BY <1>3, <1>4 DEF Queued, Once
<1>7. /\ \A u : Runs(w, u)' <=> u = t
      /\ \A u : \A v \in workers : v # w => (Runs(v, u)' <=> Runs(v, u))
  BY <1>1, <1>2 DEF Runs
<1>8. \A u : \A h \in Threads : Emplaces(h, u)' <=> Emplaces(h, u)
  BY <1>1 DEF Emplaces
<1>9. \A u \in Tasks : Carried(u)' => Carried(u)
  BY <1>1, <1>5, <1>6, <1>7, <1>8 DEF Carried
<1>10. (\A h \in Threads : ~Emplaces(h, t)) /\ \A v \in workers : ~Runs(v, t)
  BY <1>3, <1>5 DEF Once
<1>11. \A i, j \in DOMAIN tasks' : tasks'[i] = tasks'[j] => i = j
  <2>1. ASSUME NEW i \in DOMAIN tasks', NEW j \in DOMAIN tasks', tasks'[i] = tasks'[j]
        PROVE  i + 1 = j + 1 /\ i \in Nat /\ j \in Nat
    BY <1>3, <1>4, <2>1 DEF Once
  <2>2. QED
    BY <2>1
<1>12. \A u \in Tasks : Queued(u)' => /\ \A h \in Threads : ~Emplaces(h, u)'
                                      /\ \A v \in workers : ~Runs(v, u)'
  BY <1>6, <1>7, <1>8 DEF Once
<1>13. \A v \in workers : pc'[v] \in {"taken", "run"} => running'[v] \in Tasks
  BY <1>1, <1>2, <1>3 DEF Once
<1>14. \A u \in Tasks : \A x, v \in workers : Runs(x, u)' /\ Runs(v, u)' => x = v
  BY <1>7, <1>10 DEF Once
<1>15. Forward
  BY <1>1 DEF Forward
<1>16. \A u \in Tasks, v \in workers, h \in Threads : Runs(v, u)' => ~Emplaces(h, u)'
  BY <1>7, <1>8, <1>10 DEF Once
<1>17. \A u \in Tasks : \A g, h \in Threads : Emplaces(g, u)' /\ Emplaces(h, u)' => g = h
  BY <1>8 DEF Once
<1>18. QED
  BY <1>1, <1>9, <1>11, <1>12, <1>13, <1>14, <1>15, <1>16, <1>17 DEF Once

\* A task ends.
LEMMA FinishOnce ==
  ASSUME PoolInv, Once, NEW w \in workers, NEW o \in {"ready", "error"}, Finish(w, o)
  PROVE  /\ Once' /\ Forward /\ running[w] \in Tasks /\ future[running[w]] = "pending"
<1>1. /\ workers' = workers /\ commit' = commit /\ tasks' = tasks /\ running' = running
      /\ Threads' = Threads
      /\ pc' = [pc EXCEPT ![w] = "finished"] /\ pc = [v \in workers |-> pc[v]] /\ pc[w] = "run"
      /\ future \in [Tasks -> {"none", "invalid", "pending", "ready", "error", "broken"}]
      /\ future' = [future EXCEPT ![running[w]] = o]
  BY DEF Finish, Goto, PoolInv, PoolTypeOK, Threads
<1>2. PICK t : t = running[w]
  OBVIOUS
<1>3. t \in Tasks /\ Runs(w, t) /\ Carried(t) /\ future[t] = "pending"
  BY <1>1, <1>2 DEF Once, Runs, Carried
<1>4. \A u \in Tasks : Carried(u)' => u # t
  <2>1. ~Queued(t)' /\ \A h \in Threads : ~Emplaces(h, t)'
    BY <1>1, <1>3 DEF Once, Queued, Emplaces
  <2>2. \A v \in workers : ~Runs(v, t)'
    BY <1>1, <1>3 DEF Once, Runs
  <2>3. QED
    BY <1>1, <2>1, <2>2 DEF Carried
<1>5. Forward
  BY <1>1, <1>2, <1>3 DEF Forward
<1>6. Once'
  BY <1>1, <1>2, <1>4, OnceShrinks
<1>7. QED
  BY <1>2, <1>3, <1>5, <1>6

\* stop() destroys what is left in the queue.
LEMMA JoinedOnce ==
  ASSUME PoolInv, Once, StopJoined
  PROVE  Once' /\ Forward
<1>1. /\ workers' = workers /\ commit' = commit /\ tasks' = <<>> /\ running' = running /\ pc' = pc
      /\ Threads' = Threads
      /\ future' = [t \in Tasks |-> IF Queued(t) THEN "broken" ELSE future[t]]
      /\ \A w \in workers : pc[w] = "exited"
  BY DEF StopJoined, lockVars, Threads, Queued
<1>2. \A t \in Tasks : Queued(t) => future[t] = "pending"
  BY DEF Once, Carried
<1>3. Forward
  BY <1>1, <1>2 DEF Forward
<1>4. \A t \in Tasks : Carried(t)' => ~Queued(t)
  <2>1. ASSUME NEW t \in Tasks, Carried(t)'
        PROVE  ~Queued(t)
    <3>1. ~Queued(t)'
      BY <1>1, EmptySeq, LenProperties DEF Queued
    <3>2. \A w \in workers : ~Runs(w, t)'
      BY <1>1 DEF Runs
    <3>3. PICK th \in Threads : Emplaces(th, t)
      BY <1>1, <2>1, <3>1, <3>2 DEF Carried, Emplaces
    <3>4. QED
      BY <3>3 DEF Once
  <2>2. QED
    BY <2>1
<1>5. Once'
  BY <1>1, <1>4, OnceShrinks
<1>6. QED
  BY <1>3, <1>5

\* The other steps give no worker and no queue a task.
LEMMA QuietOnce ==
  ASSUME PoolInv, Once,
         \/ \E th \in Threads : NotifyOne(th)
         \/ \E w \in workers : \/ Test(w) \/ Lock(w) \/ FindsNothing(w) \/ Block(w) \/ Leaves(w)
                               \/ Starts(w) \/ Returns(w) \/ SpuriousWake(w)
         \/ StopStore \/ StopNotify \/ UNCHANGED poolVars
  PROVE  Once' /\ Forward
<1>1. /\ workers' = workers /\ tasks' = tasks /\ future' = future
  BY DEF NotifyOne, Test, Lock, FindsNothing, Block, Leaves, Starts, Returns, SpuriousWake,
     StopStore, StopNotify, poolVars, taskVars, lockVars
<1>2. /\ pc = [w \in workers |-> pc[w]] /\ running = [w \in workers |-> running[w]]
      /\ commit = [th \in Threads |-> commit[th]] /\ waiting = {w \in workers : pc[w] = "waiting"}
  BY DEF PoolInv, PoolTypeOK, Guarded
<1>3. \A th \in Threads : commit'[th].at = "emplace" => commit'[th] = commit[th]
  <2>1. commit' = commit \/ \E th : commit' = [commit EXCEPT ![th] = NoCommit]
    BY DEF NotifyOne, Test, Lock, FindsNothing, Block, Leaves, Starts, Returns, SpuriousWake,
       StopStore, StopNotify, poolVars, taskVars, lockVars
  <2>2. QED
    BY <1>2, <2>1 DEF NoCommit
<1>4. \A w \in workers : pc'[w] \in {"taken", "run"} =>
        pc[w] \in {"taken", "run"} /\ running'[w] = running[w]
  <2>1. CASE \/ \E th \in Threads : NotifyOne(th)
             \/ \E w \in workers : SpuriousWake(w)
             \/ StopStore \/ StopNotify \/ UNCHANGED poolVars
    <3>1. running' = running /\ (pc' = pc \/ \E woken : Wake(woken))
      BY <2>1 DEF NotifyOne, SpuriousWake, StopStore, StopNotify, poolVars, taskVars, lockVars
    <3>2. QED
      BY <3>1 DEF Wake
  <2>2. CASE \E w \in workers : Test(w) \/ Lock(w) \/ FindsNothing(w) \/ Block(w) \/ Leaves(w)
    BY <1>2, <2>2 DEF Test, Lock, FindsNothing, Block, Leaves, Goto, taskVars
  <2>3. CASE \E w \in workers : Starts(w)
    BY <1>2, <2>3 DEF Starts, Goto, taskVars
  <2>4. CASE \E w \in workers : Returns(w)
    BY <1>2, <2>4 DEF Returns, Goto
  <2>5. QED
    BY <2>1, <2>2, <2>3, <2>4
<1>5. Once'
  BY <1>1, <1>3, <1>4, OnceShrinks
<1>6. QED
  BY <1>1, <1>5 DEF Forward

\* A step of the pool.
LEMMA OnceNext ==
  ASSUME PoolInv, Once, [PoolNext]_poolVars
  PROVE  Once' /\ Forward
<1>1. CASE \/ \E th \in Threads : NotifyOne(th)
           \/ \E w \in workers : \/ Test(w) \/ Lock(w) \/ FindsNothing(w) \/ Block(w) \/ Leaves(w)
                                 \/ Starts(w) \/ Returns(w) \/ SpuriousWake(w)
           \/ StopStore \/ StopNotify \/ UNCHANGED poolVars
  BY <1>1, QuietOnce
<1>2. QED
  BY <1>1, CommitOnce, EmplaceOnce, TakesOnce, FinishOnce, JoinedOnce DEF PoolNext, WorkerStep

-----------------------------------------------------------------------------
(* Calls that do not move.                                                 *)

LEMMA Changed ==
  ASSUME NEW A, NEW B, NEW f \in [A -> B], NEW a \in A, NEW v \in B
  PROVE  /\ Set(f, a, v) \in [A -> B] /\ Set(f, a, v)[a] = v
         /\ \A b \in A \ {a} : Set(f, a, v)[b] = f[b]
BY DEF Set

LEMMA Names ==
  ASSUME PoolInv
  PROVE  /\ Main \in Threads /\ Main \notin workers /\ workers \subseteq Threads
         /\ \A h \in Threads : h = Main \/ h \in workers
         /\ Items \subseteq Tasks /\ Root \in Tasks /\ Root \notin Items
BY ThreadPoolAssumption, PoolSortAssumption DEF PoolInv, PoolTypeOK, Threads

\* Nothing about a thread's calls changes.
Steady(h) ==
  /\ stack'[h] = stack[h] /\ at'[h] = at[h] /\ input'[h] = input[h] /\ result'[h] = result[h]
  /\ h \in workers => /\ pc'[h] = "run" <=> pc[h] = "run"
                      /\ pc[h] = "run" => running'[h] = running[h]

\* The list bound to a task is not changed any more.
BoundStays == \A t \in Tasks : future[t] # "none" => bound'[t] = bound[t]

\* Neither is the task of a thread that is in a call.
LEMMA JobStays ==
  ASSUME PoolInv, Once, SortInv, BoundStays, NEW h \in Threads, Active(h),
         h \in workers /\ pc[h] = "run" => running'[h] = running[h]
  PROVE  Job(h)' = Job(h)
<1>1. CASE h = Main
  BY <1>1 DEF Job
<1>2. CASE h # Main
  <2>1. h \in workers /\ pc[h] = "run" /\ running'[h] = running[h]
    BY <1>2, Names DEF SortInv, Active
  <2>2. running[h] \in Tasks /\ Runs(h, running[h])
    BY <2>1 DEF Once, Runs
  <2>3. future[running[h]] = "pending"
    BY <2>1, <2>2 DEF Once, Carried
  <2>4. QED
    BY <1>2, <2>1, <2>2, <2>3 DEF Job, BoundStays
<1>3. QED
  BY <1>1, <1>2

LEMMA SettledStays ==
  ASSUME PoolInv, Forward, NEW T \in SUBSET Tasks, Settled(T)
  PROVE  Settled(T)'
BY DEF Settled, Forward

\* What the calls on the stack have done stays done.
LEMMA NestedStays ==
  ASSUME PoolInv, Forward, BoundStays, NEW s \in Seq(Items), NEW S, Nested(s, S)
  PROVE  Nested(s, S)'
<1>1. \A i \in 1..Len(s) : s[i] \in Tasks
  BY ElementOfSeq, Names
<1>2. \A p \in Tasks : /\ future[p] # "none" => future'[p] # "none" /\ bound'[p] = bound[p]
                       /\ future[p] = "invalid" => future'[p] = "invalid"
  BY DEF Forward, BoundStays
<1>3. QED
  BY <1>1, <1>2 DEF Nested

LEMMA FramesStay ==
  ASSUME PoolInv, Once, SortTypes, SortInv, Forward, BoundStays, NEW h \in Threads, Active(h), Steady(h)
  PROVE  Active(h)' /\ \E S \in Lists(h)' : Frames(h, S)'
<1>1. PICK S \in Lists(h) : Frames(h, S)
  BY DEF SortInv
<1>2. Job(h)' = Job(h)
  BY JobStays DEF Steady
<1>3. /\ stack'[h] = stack[h] /\ at'[h] = at[h] /\ input'[h] = input[h] /\ result'[h] = result[h]
      /\ stack[h] \in Seq(Items)
  BY DEF Steady, SortTypes
<1>4. S \in Lists(h)' /\ Len(stack[h]) \in Nat
  BY <1>3, LenProperties DEF Lists
<1>5. S[0] = Job(h)'
  BY <1>1, <1>2 DEF Frames
<1>6. Nested(stack[h], S)'
  <2>1. PICK s \in Seq(Items) : s = stack[h]
    BY <1>3
  <2>2. Nested(s, S)'
    BY <1>1, <2>1, NestedStays DEF Frames
  <2>3. QED
    BY <1>3, <2>1, <2>2 DEF Nested
<1>7. /\ at'[h] = "call" => input'[h] = S[Len(stack'[h])]
      /\ at'[h] = "commit" => stack'[h] # <<>> /\ input'[h] = S[Len(stack'[h]) - 1]
      /\ at'[h] = "return" => SortOf(result'[h], S[Len(stack'[h])])
  BY <1>1, <1>3 DEF Frames
<1>8. ASSUME at'[h] = "return"
      PROVE  \A t \in S[Len(stack'[h])] : future'[t] = "ready"
  <2>1. Settled(S[Len(stack[h])])
    BY <1>1, <1>3, <1>8 DEF Frames
  <2>2. S[Len(stack[h])] \in SUBSET Tasks
    BY <1>4, Names DEF Lists
  <2>3. PICK T : T = S[Len(stack[h])]
    OBVIOUS
  <2>4. Settled(T)'
    BY <2>1, <2>2, <2>3, SettledStays
  <2>5. QED
    BY <1>3, <2>3, <2>4 DEF Settled
<1>9. Frames(h, S)'
  <2>1. (at[h] = "return")' => (SortOf(result[h], S[Len(stack[h])]) /\ Settled(S[Len(stack[h])]))'
    BY <1>7, <1>8 DEF SortOf, Sorted, Settled
  <2>2. QED
    BY <1>5, <1>6, <1>7, <2>1 DEF Frames
<1>10. QED
  BY <1>3, <1>4, <1>9 DEF Active

\* A step of one thread.
LEMMA OneMoves ==
  ASSUME PoolInv, Once, SortTypes, SortInv, Forward, BoundStays, workers' = workers,
         NEW th \in Threads, \A h \in Threads : h # th => Steady(h),
         IF Active(th)' THEN \E S \in Lists(th)' : Frames(th, S)' ELSE stack'[th] = <<>>,
         th \in workers => (pc'[th] = "run" <=> at'[th] # "idle"),
         \A t \in Tasks : future'[t] = "ready" =>
           \/ future[t] = "ready" /\ value'[t] = value[t]
           \/ SortOf(value'[t], bound'[t]) /\ \A u \in bound'[t] : future'[u] = "ready",
         at'[Main] = "over" /\ future'[Root] = "none" =>
           \/ at[Main] = "over" /\ result'[Main] = result[Main]
           \/ SortOf(result'[Main], Items) /\ Settled(Items)',
         at'[Main] = "commit root" => at[Main] = "commit root" \/ future'[Root] # "none"
  PROVE  SortInv'
<1>1. Threads' = Threads
  BY DEF Threads
<1>2. ASSUME NEW h \in Threads, h # th
      PROVE  IF Active(h)' THEN \E S \in Lists(h)' : Frames(h, S)' ELSE stack'[h] = <<>>
  <2>1. Steady(h)
    BY <1>2
  <2>2. CASE Active(h)
    BY <2>1, <2>2, FramesStay
  <2>3. CASE ~Active(h)
    BY <2>1, <2>3 DEF Active, Steady, SortInv
  <2>4. QED
    BY <2>2, <2>3
<1>3. ASSUME NEW w \in workers
      PROVE  pc'[w] = "run" <=> at'[w] # "idle"
  <2>1. CASE w = th
    BY <2>1
  <2>2. CASE w # th
    BY <2>2, Names DEF Steady, SortInv
  <2>3. QED
    BY <2>1, <2>2
<1>4. ASSUME NEW t \in Tasks, future'[t] = "ready"
      PROVE  SortOf(value'[t], bound'[t]) /\ \A u \in bound'[t] : future'[u] = "ready"
  <2>1. CASE future[t] = "ready" /\ value'[t] = value[t]
    <3>1. SortOf(value[t], bound[t]) /\ Settled(bound[t]) /\ bound'[t] = bound[t]
      BY <2>1 DEF SortInv, BoundStays
    <3>2. bound[t] \in SUBSET Tasks
      BY Names DEF SortTypes
    <3>3. PICK T \in SUBSET Tasks : T = bound[t]
      BY <3>2
    <3>4. Settled(T)'
      BY <3>1, <3>3, SettledStays
    <3>5. QED
      BY <2>1, <3>1, <3>3, <3>4 DEF Settled
  <2>2. QED
    BY <1>4, <2>1
<1>5. ASSUME at'[Main] = "over", future'[Root] = "none"
      PROVE  SortOf(result'[Main], Items) /\ Settled(Items)'
  <2>1. future[Root] = "none"
    BY <1>5, Names DEF Forward
  <2>2. CASE at[Main] = "over" /\ result'[Main] = result[Main]
    <3>1. SortOf(result[Main], Items) /\ Settled(Items)
      BY <2>1, <2>2 DEF SortInv
    <3>2. QED
      BY <2>2, <3>1, SettledStays, Names
  <2>3. QED
    BY <1>5, <2>2
<1>6. at'[Main] = "commit root" => future'[Root] # "none"
  BY Names DEF SortInv, Forward
<1>7. ASSUME NEW h \in Threads
      PROVE  IF Active(h)' THEN \E S \in Lists(h)' : Frames(h, S)' ELSE stack'[h] = <<>>
  BY <1>2
<1>8. /\ (\A t \in Tasks : future[t] = "ready" => SortOf(value[t], bound[t]) /\ Settled(bound[t]))'
      /\ (at[Main] = "over" /\ future[Root] = "none" => SortOf(result[Main], Items) /\ Settled(Items))'
  BY <1>4, <1>5 DEF SortOf, Sorted, Settled
<1>9. QED
  BY <1>1, <1>3, <1>6, <1>7, <1>8 DEF SortInv

listVars == <<input, stack, at, result, bound, value>>

\* A step of the pool alone.
LEMMA PoolMoves ==
  ASSUME PoolInv, Once, SortTypes, SortInv, Forward, workers' = workers, UNCHANGED listVars,
         \A w \in workers : /\ pc'[w] = "run" <=> pc[w] = "run"
                            /\ pc[w] = "run" => running'[w] = running[w],
         \A t \in Tasks : future'[t] = "ready" => future[t] = "ready"
  PROVE  SortInv'
<1>1. /\ stack' = stack /\ at' = at /\ input' = input /\ result' = result /\ bound' = bound
      /\ value' = value
  BY DEF listVars
<1>2. BoundStays /\ \A h \in Threads : Steady(h)
  BY <1>1 DEF BoundStays, Steady
<1>3. IF Active(Main)' THEN \E S \in Lists(Main)' : Frames(Main, S)' ELSE stack'[Main] = <<>>
  <2>1. CASE Active(Main)
    BY <1>2, <2>1, FramesStay, Names
  <2>2. CASE ~Active(Main)
    BY <1>1, <2>2, Names DEF Active, SortInv
  <2>3. QED
    BY <2>1, <2>2
<1>4. QED
  BY <1>1, <1>2, <1>3, Names, OneMoves

\* One call more.
LEMMA Push ==
  ASSUME NEW s \in Seq(Items), NEW S \in [0..Len(s) -> SUBSET Items], NEW p \in S[Len(s)],
         Nested(s, S)', future'[p] # "none",
         future'[p] # "invalid" => bound'[p] = Lower(S[Len(s)], p)
  PROVE  \E T \in [0..Len(Append(s, p)) -> SUBSET Items] :
           /\ T[0] = S[0] /\ Nested(Append(s, p), T)' /\ Append(s, p) \in Seq(Items)
           /\ Len(Append(s, p)) = Len(s) + 1 /\ Append(s, p) # <<>>
           /\ T[Len(s)] = S[Len(s)] /\ T[Len(s) + 1] = Higher(S[Len(s)], p)
<1>1. PICK n \in Nat : n = Len(s)
  BY LenProperties
<1>2. S[n] \in SUBSET Items /\ p \in Items /\ Higher(S[n], p) \in SUBSET Items
  <2>1. S[n] \in SUBSET Items /\ p \in S[n]
    BY <1>1
  <2>2. QED
    BY <2>1, Parts
<1>3. PICK r : r = Append(s, p)
  OBVIOUS
<1>4. r \in Seq(Items) /\ Len(r) = n + 1 /\ r[n + 1] = p /\ \A i \in 1..n : r[i] = s[i]
  BY <1>1, <1>2, <1>3, AppendProperties
<1>5. PICK T : T = [i \in 0..(n + 1) |-> IF i = n + 1 THEN Higher(S[n], p) ELSE S[i]]
  OBVIOUS
<1>6. /\ T \in [0..(n + 1) -> SUBSET Items] /\ T[n + 1] = Higher(S[n], p)
      /\ \A i \in 0..n : T[i] = S[i]
  BY <1>1, <1>2, <1>5
<1>7. ASSUME NEW i \in 1..Len(r)
      PROVE  /\ r[i] \in T[i - 1] /\ T[i] = Higher(T[i - 1], r[i])
             /\ future'[r[i]] # "none"
             /\ future'[r[i]] # "invalid" => bound'[r[i]] = Lower(T[i - 1], r[i])
  <2>1. CASE i \in 1..n
    <3>1. r[i] = s[i] /\ T[i - 1] = S[i - 1] /\ T[i] = S[i]
      BY <1>4, <1>6, <2>1
    <3>2. QED
      BY <1>1, <2>1, <3>1 DEF Nested
  <2>2. CASE i = n + 1
    <3>1. r[i] = p /\ T[i - 1] = S[n] /\ T[i] = Higher(S[n], p)
      BY <1>4, <1>6, <2>2
    <3>2. QED
      BY <1>1, <3>1
  <2>3. QED
    BY <1>4, <2>1, <2>2
<1>8. Nested(r, T)'
  BY <1>7 DEF Nested
<1>9. T[0] = S[0] /\ T[n] = S[n] /\ r # <<>>
  BY <1>4, <1>6, EmptySeq
<1>10. QED
  BY <1>1, <1>3, <1>4, <1>6, <1>8, <1>9

\* One call less.
LEMMA Pop ==
  ASSUME NEW s \in Seq(Items), s # <<>>, NEW S \in [0..Len(s) -> SUBSET Items], Nested(s, S)'
  PROVE  \E r \in Seq(Items) : \E T \in [0..Len(r) -> SUBSET Items] :
           /\ r = SubSeq(s, 1, Len(s) - 1) /\ Len(r) = Len(s) - 1
           /\ T[0] = S[0] /\ Nested(r, T)' /\ T[Len(r)] = S[Len(s) - 1]
<1>1. PICK n \in Nat \ {0} : n = Len(s)
  BY LenProperties, EmptySeq
<1>2. PICK r : r = SubSeq(s, 1, n - 1)
  OBVIOUS
<1>3. r \in Seq(Items) /\ Len(r) = n - 1 /\ \A i \in 1..(n - 1) : r[i] = s[i]
  <2>1. \A i \in 1..(n - 1) : s[i] \in Items
    BY <1>1, ElementOfSeq
  <2>2. QED
    BY <1>1, <1>2, <2>1, SubSeqProperties
<1>4. PICK T : T = [i \in 0..(n - 1) |-> S[i]]
  OBVIOUS
<1>5. T \in [0..(n - 1) -> SUBSET Items] /\ \A i \in 0..(n - 1) : T[i] = S[i]
  BY <1>1, <1>4
<1>6. ASSUME NEW i \in 1..Len(r)
      PROVE  /\ r[i] \in T[i - 1] /\ T[i] = Higher(T[i - 1], r[i])
             /\ future'[r[i]] # "none"
             /\ future'[r[i]] # "invalid" => bound'[r[i]] = Lower(T[i - 1], r[i])
  <2>1. i \in 1..n /\ r[i] = s[i] /\ T[i - 1] = S[i - 1] /\ T[i] = S[i]
    BY <1>3, <1>5
  <2>2. QED
    BY <1>1, <2>1 DEF Nested
<1>7. Nested(r, T)'
  BY <1>6 DEF Nested
<1>8. T[0] = S[0] /\ T[n - 1] = S[n - 1]
  BY <1>5
<1>9. /\ r = SubSeq(s, 1, Len(s) - 1) /\ Len(r) = Len(s) - 1
      /\ T[0] = S[0] /\ Nested(r, T)' /\ T[Len(r)] = S[Len(s) - 1]
  BY <1>1, <1>2, <1>3, <1>7, <1>8
<1>10. r \in Seq(Items) /\ T \in [0..Len(r) -> SUBSET Items]
  BY <1>3, <1>5
<1>11. QED
  BY <1>9, <1>10, Zenon

\* What is known of a thread in a call, before and after a step.
LEMMA Calls ==
  ASSUME PoolInv, Once, SortTypes, SortInv, Forward, BoundStays, NEW th \in Threads, Active(th),
         th \in workers => running'[th] = running[th], NEW s, s = stack[th]
  PROVE  /\ s \in Seq(Items) /\ Len(s) \in Nat
         /\ \E S \in [0..Len(s) -> SUBSET Items] :
              Frames(th, S) /\ Nested(s, S)' /\ S[0] = Job(th)' /\ S[Len(s)] \in SUBSET Items
<1>1. PICK S \in Lists(th) : Frames(th, S)
  BY DEF SortInv
<1>2. s \in Seq(Items)
  BY DEF SortTypes
<1>3. Len(s) \in Nat /\ S \in [0..Len(s) -> SUBSET Items]
  BY <1>2, LenProperties DEF Lists
<1>4. S[Len(s)] \in SUBSET Items
  BY <1>3
<1>5. Nested(s, S)'
  BY <1>1, <1>2, NestedStays DEF Frames
<1>6. S[0] = Job(th)'
  BY <1>1, JobStays DEF Frames
<1>7. QED
  BY <1>1, <1>2, <1>3, <1>4, <1>5, <1>6

\* The steps of the pool inside a call move no worker out of its task.
LEMMA CallSteady ==
  ASSUME PoolInv, NEW th \in Threads,
         \/ \E t \in Tasks : CommitRefused(th, t) \/ CommitTest(th, t)
         \/ NotifyOne(th) \/ UNCHANGED poolVars
  PROVE  /\ workers' = workers /\ running' = running
         /\ \A w \in workers : pc'[w] = "run" <=> pc[w] = "run"
         /\ \A t \in Tasks : future'[t] = "ready" => future[t] = "ready"
<1>1. CASE \E t \in Tasks : CommitRefused(th, t) \/ CommitTest(th, t)
  <2>1. PICK t \in Tasks : CommitRefused(th, t) \/ CommitTest(th, t)
    BY <1>1
  <2>2. /\ workers' = workers /\ running' = running /\ pc' = pc
        /\ future' = [future EXCEPT ![t] = "invalid"] \/ future' = [future EXCEPT ![t] = "pending"]
    BY <2>1 DEF CommitRefused, CommitTest, lockVars
  <2>3. future \in [Tasks -> {"none", "invalid", "pending", "ready", "error", "broken"}]
    BY DEF PoolInv, PoolTypeOK
  <2>4. QED
    BY <2>2, <2>3
<1>2. CASE NotifyOne(th)
  <2>1. workers' = workers /\ running' = running /\ future' = future /\ \E woken \in SUBSET waiting : Wake(woken)
    BY <1>2 DEF NotifyOne
  <2>2. waiting = {w \in workers : pc[w] = "waiting"}
    BY DEF PoolInv, Guarded
  <2>3. QED
    BY <2>1, <2>2 DEF Wake
<1>3. CASE UNCHANGED poolVars
  BY <1>3 DEF poolVars, lockVars, taskVars
<1>4. QED
  BY <1>1, <1>2, <1>3

\* Nothing about the calls of the other threads changes.
Only(th) ==
  \A h \in Threads \ {th} :
    stack'[h] = stack[h] /\ at'[h] = at[h] /\ input'[h] = input[h] /\ result'[h] = result[h]

\* A step inside a call, or of Main around its calls.
LEMMA CallMoves ==
  ASSUME PoolInv, Once, SortTypes, SortInv, Forward, BoundStays, NEW th \in Threads,
         \/ \E t \in Tasks : CommitRefused(th, t) \/ CommitTest(th, t)
         \/ NotifyOne(th) \/ UNCHANGED poolVars,
         Only(th), value' = value, th \in workers => at[th] # "idle" /\ at'[th] # "idle",
         IF Active(th)' THEN \E S \in Lists(th)' : Frames(th, S)' ELSE stack'[th] = <<>>,
         at'[Main] = "over" /\ future'[Root] = "none" =>
           \/ at[Main] = "over" /\ result'[Main] = result[Main]
           \/ SortOf(result'[Main], Items) /\ Settled(Items)',
         at'[Main] = "commit root" => at[Main] = "commit root" \/ future'[Root] # "none"
  PROVE  SortInv'
<1>1. /\ workers' = workers /\ running' = running
      /\ \A w \in workers : pc'[w] = "run" <=> pc[w] = "run"
      /\ \A t \in Tasks : future'[t] = "ready" => future[t] = "ready"
  BY CallSteady
<1>2. \A h \in Threads : h # th => Steady(h)
  BY <1>1 DEF Only, Steady
<1>3. th \in workers => (pc'[th] = "run" <=> at'[th] # "idle")
  BY <1>1 DEF SortInv
<1>4. QED
  BY <1>1, <1>2, <1>3, OneMoves

\* What is written of one thread.
LEMMA OnlyOne ==
  ASSUME SortTypes, NEW th \in Threads,
         stack' = stack \/ \E v : stack' = Set(stack, th, v),
         at' = at \/ \E v : at' = Set(at, th, v),
         input' = input \/ \E v : input' = Set(input, th, v),
         result' = result \/ \E v : result' = Set(result, th, v)
  PROVE  Only(th)
<1>1. \A h \in Threads \ {th} : stack'[h] = stack[h]
  BY DEF Set, SortTypes
<1>2. \A h \in Threads \ {th} : at'[h] = at[h]
  BY DEF Set, SortTypes
<1>3. \A h \in Threads \ {th} : input'[h] = input[h]
  BY DEF Set, SortTypes
<1>4. \A h \in Threads \ {th} : result'[h] = result[h]
  BY DEF Set, SortTypes
<1>5. QED
  BY <1>1, <1>2, <1>3, <1>4 DEF Only

\* The function is called with an empty list.
LEMMA CallEmptyInv ==
  ASSUME PoolInv, Once, SortTypes, SortInv, Forward, NEW th \in Threads, CallEmpty(th)
  PROVE  SortInv'
<1>1. /\ at[th] = "call" /\ input[th] = {} /\ result'[th] = <<>> /\ at'[th] = "return"
      /\ UNCHANGED poolVars /\ stack' = stack /\ bound' = bound /\ value' = value
      /\ future' = future /\ running' = running
  BY DEF CallEmpty, Set, SortTypes, poolVars, taskVars
<1>2. BoundStays /\ Only(th) /\ Active(th) /\ Active(th)'
  BY <1>1, OnlyOne DEF BoundStays, CallEmpty, Active
<1>3. PICK s : s = stack[th]
  OBVIOUS
<1>4. s \in Seq(Items) /\ Len(s) \in Nat
  BY <1>1, <1>2, <1>3, Calls
<1>5. PICK S \in [0..Len(s) -> SUBSET Items] :
        Frames(th, S) /\ Nested(s, S)' /\ S[0] = Job(th)' /\ S[Len(s)] \in SUBSET Items
  BY <1>1, <1>2, <1>3, Calls
<1>6. S[Len(s)] = {}
  BY <1>1, <1>3, <1>4, <1>5 DEF Frames
<1>7. (at[th] = "return" => SortOf(result[th], S[Len(stack[th])]) /\ Settled(S[Len(stack[th])]))'
  BY <1>1, <1>3, <1>4, <1>5, <1>6, SortOfNone DEF SortOf, Sorted, Settled
<1>8. Frames(th, S)' /\ S \in Lists(th)'
  BY <1>1, <1>3, <1>4, <1>5, <1>7 DEF Frames, Lists, Nested
<1>9. th = Main => at'[Main] # "over" /\ at'[Main] # "commit root"
  BY <1>1
<1>10. th # Main => at'[Main] = at[Main] /\ result'[Main] = result[Main]
  BY <1>2, Names DEF Only
<1>11. QED
  BY <1>1, <1>2, <1>8, <1>9, <1>10, CallMoves

\* commit() is called, and refuses the task or makes a future for it.
LEMMA CallRefusedInv ==
  ASSUME PoolInv, Once, SortTypes, SortInv, Forward, NEW th \in Threads, CallRefused(th)
  PROVE  SortInv'
<1>1. PICK p \in input[th] :
        /\ CommitRefused(th, p)
        /\ stack' = Set(stack, th, Append(stack[th], p))
        /\ input' = Set(input, th, Higher(input[th], p))
  BY DEF CallRefused
<1>2. /\ at[th] = "call" /\ at' = at /\ result' = result /\ bound' = bound /\ value' = value
      /\ stack'[th] = Append(stack[th], p) /\ input'[th] = Higher(input[th], p)
  BY <1>1 DEF CallRefused, Set, SortTypes
<1>3. p \in Items /\ p \in Tasks
  BY Names DEF SortTypes
<1>4. future'[p] = "invalid" /\ running' = running
  BY <1>1, <1>3 DEF CommitRefused, PoolInv, PoolTypeOK
<1>5. BoundStays /\ Only(th) /\ Active(th) /\ Active(th)'
  BY <1>1, <1>2, OnlyOne DEF BoundStays, Active
<1>6. PICK s : s = stack[th]
  OBVIOUS
<1>7. s \in Seq(Items) /\ Len(s) \in Nat
  BY <1>4, <1>5, <1>6, Calls
<1>8. PICK S \in [0..Len(s) -> SUBSET Items] :
        Frames(th, S) /\ Nested(s, S)' /\ S[0] = Job(th)' /\ S[Len(s)] \in SUBSET Items
  BY <1>4, <1>5, <1>6, Calls
<1>9. input[th] = S[Len(s)]
  BY <1>2, <1>6, <1>7, <1>8 DEF Frames
<1>10. PICK r : r = Append(s, p)
  OBVIOUS
<1>11. PICK T \in [0..Len(r) -> SUBSET Items] :
        /\ T[0] = S[0] /\ Nested(r, T)' /\ Len(r) = Len(s) + 1
        /\ T[Len(s) + 1] = Higher(S[Len(s)], p)
  BY <1>4, <1>6, <1>7, <1>8, <1>9, <1>10, Push
<1>12. stack'[th] = r /\ input'[th] = T[Len(r)] /\ at'[th] = "call"
  BY <1>2, <1>6, <1>7, <1>8, <1>9, <1>10, <1>11
<1>13. Frames(th, T)' /\ T \in Lists(th)'
  BY <1>6, <1>7, <1>8, <1>11, <1>12 DEF Frames, Lists, Nested
<1>14. at'[Main] = at[Main] /\ result'[Main] = result[Main]
  BY <1>2
<1>15. QED
  BY <1>1, <1>2, <1>3, <1>5, <1>12, <1>13, <1>14, CallMoves

LEMMA CallCommitsInv ==
  ASSUME PoolInv, Once, SortTypes, SortInv, Forward, NEW th \in Threads, CallCommits(th)
  PROVE  SortInv'
<1>1. PICK p \in input[th] :
        /\ CommitTest(th, p)
        /\ stack' = Set(stack, th, Append(stack[th], p))
        /\ bound' = Set(bound, p, Lower(input[th], p))
  BY DEF CallCommits
<1>2. /\ at[th] = "call" /\ at' = Set(at, th, "commit") /\ at'[th] = "commit"
      /\ result' = result /\ input' = input /\ value' = value
      /\ stack'[th] = Append(stack[th], p)
  BY <1>1 DEF CallCommits, Set, SortTypes
<1>3. p \in Items /\ p \in Tasks
  BY Names DEF SortTypes
<1>4. /\ future[p] = "none" /\ future'[p] = "pending" /\ running' = running
      /\ bound'[p] = Lower(input[th], p) /\ \A t \in Tasks \ {p} : bound'[t] = bound[t]
  BY <1>1, <1>3 DEF CommitTest, PoolInv, PoolTypeOK, Set, SortTypes
<1>5. BoundStays /\ Only(th) /\ Active(th) /\ Active(th)'
  BY <1>1, <1>2, <1>4, OnlyOne DEF BoundStays, Active
<1>6. PICK s : s = stack[th]
  OBVIOUS
<1>7. s \in Seq(Items) /\ Len(s) \in Nat
  BY <1>4, <1>5, <1>6, Calls
<1>8. PICK S \in [0..Len(s) -> SUBSET Items] :
        Frames(th, S) /\ Nested(s, S)' /\ S[0] = Job(th)' /\ S[Len(s)] \in SUBSET Items
  BY <1>4, <1>5, <1>6, Calls
<1>9. input[th] = S[Len(s)]
  BY <1>2, <1>6, <1>7, <1>8 DEF Frames
<1>10. PICK r : r = Append(s, p)
  OBVIOUS
<1>11. PICK T \in [0..Len(r) -> SUBSET Items] :
        /\ T[0] = S[0] /\ Nested(r, T)' /\ Len(r) = Len(s) + 1 /\ r # <<>>
        /\ T[Len(s)] = S[Len(s)]
  BY <1>4, <1>6, <1>7, <1>8, <1>9, <1>10, Push
<1>12. stack'[th] = r /\ input'[th] = T[Len(r) - 1] /\ at'[th] = "commit"
  BY <1>2, <1>6, <1>7, <1>8, <1>9, <1>10, <1>11
<1>13. Frames(th, T)' /\ T \in Lists(th)'
  BY <1>6, <1>7, <1>8, <1>11, <1>12 DEF Frames, Lists, Nested
<1>14. th = Main => at'[Main] # "over" /\ at'[Main] # "commit root"
  BY <1>2
<1>15. th # Main => at'[Main] = at[Main] /\ result'[Main] = result[Main]
  BY <1>2, <1>5, Names DEF Only
<1>16. QED
  BY <1>1, <1>2, <1>3, <1>5, <1>12, <1>13, <1>14, <1>15, CallMoves

\* commit() has returned: the call goes on with the higher items.
LEMMA CallHigherInv ==
  ASSUME PoolInv, Once, SortTypes, SortInv, Forward, NEW th \in Threads, CallHigher(th)
  PROVE  SortInv'
<1>1. /\ at[th] = "commit" /\ at' = Set(at, th, "call") /\ at'[th] = "call" /\ NotifyOne(th)
      /\ result' = result /\ stack' = stack /\ bound' = bound /\ value' = value
      /\ input' = Set(input, th, Higher(input[th], Pivot(th)))
      /\ input'[th] = Higher(input[th], Pivot(th)) /\ running' = running
  BY DEF CallHigher, Set, SortTypes, NotifyOne
<1>2. BoundStays /\ Only(th) /\ Active(th) /\ Active(th)'
  BY <1>1, OnlyOne DEF BoundStays, Active
<1>3. PICK s : s = stack[th]
  OBVIOUS
<1>4. s \in Seq(Items) /\ Len(s) \in Nat
  BY <1>1, <1>2, <1>3, Calls
<1>5. PICK S \in [0..Len(s) -> SUBSET Items] :
        Frames(th, S) /\ Nested(s, S)' /\ S[0] = Job(th)' /\ S[Len(s)] \in SUBSET Items
  BY <1>1, <1>2, <1>3, Calls
<1>6. s # <<>> /\ input[th] = S[Len(s) - 1] /\ Len(s) \in 1..Len(s)
  BY <1>1, <1>3, <1>4, <1>5, EmptySeq, LenProperties DEF Frames
<1>7. input'[th] = S[Len(s)]
  BY <1>1, <1>3, <1>4, <1>5, <1>6 DEF Frames, Nested, Pivot
<1>8. Frames(th, S)' /\ S \in Lists(th)'
  BY <1>1, <1>3, <1>4, <1>5, <1>7 DEF Frames, Lists, Nested
<1>9. th = Main => at'[Main] # "over" /\ at'[Main] # "commit root"
  BY <1>1
<1>10. th # Main => at'[Main] = at[Main] /\ result'[Main] = result[Main]
  BY <1>2, Names DEF Only
<1>11. QED
  BY <1>1, <1>2, <1>8, <1>9, <1>10, CallMoves

\* get(): the lower part is there, the two splices.
LEMMA GetInv ==
  ASSUME PoolInv, Once, SortTypes, SortInv, Forward, NEW th \in Threads, Get(th)
  PROVE  SortInv'
<1>1. /\ at[th] = "return" /\ stack[th] # <<>> /\ future[Pivot(th)] = "ready"
      /\ UNCHANGED poolVars /\ future' = future /\ running' = running
      /\ at' = at /\ input' = input /\ bound' = bound /\ value' = value
      /\ result' = Set(result, th, value[Pivot(th)] \o <<Pivot(th)>> \o result[th])
      /\ stack' = Set(stack, th, SubSeq(stack[th], 1, Len(stack[th]) - 1))
  BY DEF Get, poolVars, taskVars
<1>2. /\ result'[th] = value[Pivot(th)] \o <<Pivot(th)>> \o result[th]
      /\ stack'[th] = SubSeq(stack[th], 1, Len(stack[th]) - 1)
  BY <1>1 DEF Set, SortTypes
<1>3. BoundStays /\ Only(th) /\ Active(th) /\ Active(th)'
  BY <1>1, OnlyOne DEF BoundStays, Active
<1>4. PICK s : s = stack[th]
  OBVIOUS
<1>5. s \in Seq(Items) /\ Len(s) \in Nat
  BY <1>1, <1>3, <1>4, Calls
<1>6. PICK S \in [0..Len(s) -> SUBSET Items] :
        Frames(th, S) /\ Nested(s, S)' /\ S[0] = Job(th)' /\ S[Len(s)] \in SUBSET Items
  BY <1>1, <1>3, <1>4, Calls
<1>7. Len(s) \in 1..Len(s) /\ Len(s) - 1 \in 0..Len(s)
  BY <1>1, <1>4, <1>5, EmptySeq, LenProperties
<1>8. PICK p : p = s[Len(s)]
  OBVIOUS
<1>9. PICK U : U = S[Len(s) - 1]
  OBVIOUS
<1>10. /\ p = Pivot(th) /\ p \in U /\ U \in SUBSET Items
       /\ S[Len(s)] = Higher(U, p) /\ (future[p] # "invalid" => bound[p] = Lower(U, p))
  BY <1>4, <1>6, <1>7, <1>8, <1>9 DEF Pivot, Frames, Nested
<1>11. bound[p] = Lower(U, p) /\ SortOf(value[p], Lower(U, p)) /\ Settled(Lower(U, p))
  BY <1>1, <1>10, Names DEF SortInv
<1>12. SortOf(result[th], Higher(U, p)) /\ Settled(Higher(U, p))
  BY <1>1, <1>4, <1>6, <1>10 DEF Frames
<1>13. PICK u, v : u = value[p] /\ v = result[th]
  OBVIOUS
<1>14. PICK z : z = u \o <<p>> \o v
  OBVIOUS
<1>15. SortOf(z, U)
  BY <1>10, <1>11, <1>12, <1>13, <1>14, Spliced
<1>16. Settled(U)
  BY <1>1, <1>10, <1>11, <1>12, Parts DEF Settled
<1>17. PICK r \in Seq(Items) : \E T \in [0..Len(r) -> SUBSET Items] :
         /\ r = SubSeq(s, 1, Len(s) - 1) /\ Len(r) = Len(s) - 1
         /\ T[0] = S[0] /\ Nested(r, T)' /\ T[Len(r)] = S[Len(s) - 1]
  BY <1>1, <1>4, <1>5, <1>6, Pop
<1>18. PICK T \in [0..Len(r) -> SUBSET Items] :
         /\ r = SubSeq(s, 1, Len(s) - 1)
         /\ T[0] = S[0] /\ Nested(r, T)' /\ T[Len(r)] = U
  BY <1>9, <1>17
<1>19. stack'[th] = r /\ result'[th] = z /\ at'[th] = "return"
  BY <1>1, <1>2, <1>4, <1>10, <1>13, <1>14, <1>18
<1>20. (at[th] = "return" => SortOf(result[th], T[Len(stack[th])]) /\ Settled(T[Len(stack[th])]))'
  BY <1>1, <1>15, <1>16, <1>18, <1>19 DEF SortOf, Sorted, Settled
<1>21. Frames(th, T)' /\ T \in Lists(th)'
  BY <1>6, <1>18, <1>19, <1>20 DEF Frames, Lists, Nested
<1>22. th = Main => at'[Main] # "over" /\ at'[Main] # "commit root"
  BY <1>19
<1>23. th # Main => at'[Main] = at[Main] /\ result'[Main] = result[Main]
  BY <1>3, Names DEF Only
<1>24. QED
  BY <1>1, <1>3, <1>19, <1>21, <1>22, <1>23, CallMoves

\* get() throws through all calls.
LEMMA GetThrowsInv ==
  ASSUME PoolInv, Once, SortTypes, SortInv, Forward, NEW th \in Threads, GetThrows(th)
  PROVE  SortInv'
<1>1. /\ at[th] = "return" /\ UNCHANGED poolVars
      /\ input' = input /\ bound' = bound /\ value' = value /\ result' = result
      /\ stack' = Set(stack, th, <<>>) /\ at' = Set(at, th, "thrown")
  BY DEF GetThrows
<1>2. stack'[th] = <<>> /\ at'[th] = "thrown"
  BY <1>1 DEF Set, SortTypes
<1>3. BoundStays /\ Only(th) /\ ~Active(th)'
  BY <1>1, <1>2, OnlyOne DEF BoundStays, Active
<1>4. th = Main => at'[Main] # "over" /\ at'[Main] # "commit root"
  BY <1>2
<1>5. th # Main => at'[Main] = at[Main] /\ result'[Main] = result[Main]
  BY <1>3, Names DEF Only
<1>6. QED
  BY <1>1, <1>2, <1>3, <1>4, <1>5, CallMoves

\* A worker begins the task it has taken.
LEMMA RunInv ==
  ASSUME PoolInv, Once, SortTypes, SortInv, Forward, NEW w \in workers, Run(w)
  PROVE  SortInv'
<1>1. /\ pc[w] = "taken" /\ pc' = [pc EXCEPT ![w] = "run"] /\ running' = running
      /\ workers' = workers /\ future' = future
      /\ input' = Set(input, w, bound[running[w]]) /\ at' = Set(at, w, "call")
      /\ stack' = stack /\ result' = result /\ bound' = bound /\ value' = value
  BY DEF Run, Starts, Goto, taskVars
<1>2. w \in Threads /\ w # Main /\ running[w] \in Tasks
  BY <1>1, Names DEF Once
<1>3. pc'[w] = "run" /\ \A v \in workers : v # w => pc'[v] = pc[v]
  BY <1>1 DEF PoolInv, PoolTypeOK
<1>4. input'[w] = bound[running[w]] /\ at'[w] = "call"
  BY <1>1, <1>2 DEF Set, SortTypes
<1>5. Only(w) /\ BoundStays
  BY <1>1, <1>2, OnlyOne DEF BoundStays
<1>6. \A h \in Threads : h # w => Steady(h)
  BY <1>1, <1>3, <1>5 DEF Only, Steady
<1>7. stack'[w] = <<>>
  BY <1>1, <1>2 DEF SortInv, Active
<1>8. PICK B \in SUBSET Items : B = bound[running[w]]
  BY <1>2 DEF SortTypes
<1>9. PICK S : S = [i \in 0..0 |-> B]
  OBVIOUS
<1>10. S \in [0..0 -> SUBSET Items] /\ S[0] = B
  BY <1>9
<1>11. Len(<<>>) = 0 /\ 1..0 = {}
  OBVIOUS
<1>12. S[0] = Job(w)'
  BY <1>1, <1>2, <1>8, <1>10 DEF Job
<1>13. Frames(w, S)' /\ S \in Lists(w)' /\ Active(w)'
  BY <1>4, <1>7, <1>8, <1>10, <1>11, <1>12 DEF Frames, Nested, Lists, Active
<1>14. at'[Main] = at[Main] /\ result'[Main] = result[Main]
  BY <1>2, <1>5, Names DEF Only
<1>15. QED
  BY <1>1, <1>2, <1>3, <1>4, <1>5, <1>6, <1>13, <1>14, OneMoves

\* The task has returned or thrown.
LEMMA TaskEndsInv ==
  ASSUME PoolInv, Once, SortTypes, SortInv, Forward, NEW w \in workers, TaskEnds(w)
  PROVE  SortInv'
<1>1. PICK t : t = running[w]
  OBVIOUS
<1>2. PICK o \in {"ready", "error"} :
        /\ Finish(w, o) /\ (o = "ready" => at[w] = "return")
        /\ at[w] \in {"return", "thrown"} /\ stack[w] = <<>>
  BY DEF TaskEnds
<1>3. /\ at' = Set(at, w, "idle") /\ result' = Set(result, w, <<>>)
      /\ value' = Set(value, t, result[w]) /\ input' = input /\ stack' = stack /\ bound' = bound
  BY <1>1 DEF TaskEnds
<1>4. t \in Tasks /\ future[t] = "pending" /\ w \in Threads /\ w # Main
  BY <1>1, <1>2, FinishOnce, Names
<1>5. /\ pc[w] = "run" /\ pc' = [pc EXCEPT ![w] = "finished"] /\ running' = running
      /\ workers' = workers /\ future' = [future EXCEPT ![t] = o]
  BY <1>1, <1>2 DEF Finish, Goto
<1>6. /\ pc'[w] = "finished" /\ \A v \in workers : v # w => pc'[v] = pc[v]
      /\ future'[t] = o /\ \A u \in Tasks : u # t => future'[u] = future[u]
  BY <1>4, <1>5 DEF PoolInv, PoolTypeOK
<1>7. at'[w] = "idle" /\ stack'[w] = <<>> /\ value'[t] = result[w] /\ \A u \in Tasks : u # t => value'[u] = value[u]
  BY <1>2, <1>3, <1>4 DEF Set, SortTypes
<1>8. Only(w) /\ BoundStays
  BY <1>3, <1>4, OnlyOne DEF BoundStays
<1>9. \A h \in Threads : h # w => Steady(h)
  BY <1>5, <1>6, <1>8 DEF Only, Steady
<1>10. ASSUME o = "ready"
       PROVE  SortOf(value'[t], bound'[t]) /\ \A u \in bound'[t] : future'[u] = "ready"
  <2>1. at[w] = "return"
    BY <1>2, <1>10
  <2>2. PICK S \in Lists(w) : Frames(w, S)
    BY <1>4, <2>1 DEF SortInv, Active
  <2>3. Len(<<>>) = 0
    OBVIOUS
  <2>4. SortOf(result[w], S[0]) /\ Settled(S[0]) /\ S[0] = bound[t]
    BY <1>1, <1>2, <1>4, <2>1, <2>2, <2>3 DEF Frames, Job
  <2>5. bound[t] \in SUBSET Tasks
    BY <1>4, Names DEF SortTypes
  <2>6. \A u \in bound[t] : future'[u] = "ready"
    BY <2>4, <2>5 DEF Settled, Forward
  <2>7. QED
    BY <1>3, <1>7, <2>4, <2>6
<1>11. ASSUME NEW u \in Tasks, future'[u] = "ready"
       PROVE  \/ future[u] = "ready" /\ value'[u] = value[u]
              \/ SortOf(value'[u], bound'[u]) /\ \A x \in bound'[u] : future'[x] = "ready"
  <2>1. CASE u = t
    BY <1>6, <1>10, <1>11, <2>1
  <2>2. CASE u # t
    BY <1>6, <1>7, <1>11, <2>2
  <2>3. QED
    BY <2>1, <2>2
<1>12. at'[Main] = at[Main] /\ result'[Main] = result[Main]
  BY <1>4, <1>8, Names DEF Only
<1>13. ~Active(w)'
  BY <1>7 DEF Active
<1>14. QED
  BY <1>4, <1>5, <1>6, <1>7, <1>8, <1>9, <1>11, <1>12, <1>13, OneMoves

\* Main commits the sort, drops the future, or has sorted itself.
LEMMA MainInv ==
  ASSUME PoolInv, Once, SortTypes, SortInv, Forward, MainCommits \/ MainLeaves \/ MainSorted
  PROVE  SortInv'
<1>1. Main \in Threads /\ Main \notin workers /\ Root \in Tasks
  BY Names
<1>2. CASE MainCommits
  <2>1. /\ at[Main] = "idle" /\ CommitTest(Main, Root) /\ at' = Set(at, Main, "commit root")
        /\ input' = input /\ stack' = stack /\ result' = result /\ value' = value
        /\ bound' = Set(bound, Root, Items)
    BY <1>2 DEF MainCommits
  <2>2. at'[Main] = "commit root" /\ stack'[Main] = <<>>
    BY <1>1, <2>1 DEF Set, SortTypes, SortInv, Active
  <2>3. future[Root] = "none" /\ future'[Root] = "pending"
    BY <1>1, <2>1 DEF CommitTest, PoolInv, PoolTypeOK
  <2>4. BoundStays /\ Only(Main) /\ ~Active(Main)'
    BY <1>1, <2>1, <2>2, <2>3, OnlyOne DEF BoundStays, Set, SortTypes, Active
  <2>5. QED
    BY <1>1, <2>1, <2>2, <2>3, <2>4, CallMoves
<1>3. CASE MainLeaves
  <2>1. /\ at[Main] = "commit root" /\ NotifyOne(Main) /\ at' = Set(at, Main, "over")
        /\ input' = input /\ stack' = stack /\ result' = result /\ value' = value /\ bound' = bound
    BY <1>3 DEF MainLeaves
  <2>2. at'[Main] = "over" /\ stack'[Main] = <<>>
    BY <1>1, <2>1 DEF Set, SortTypes, SortInv, Active
  <2>3. future'[Root] # "none"
    BY <1>1, <2>1 DEF SortInv, Forward
  <2>4. BoundStays /\ Only(Main) /\ ~Active(Main)'
    BY <1>1, <2>1, <2>2, OnlyOne DEF BoundStays, Active
  <2>5. QED
    BY <1>1, <2>1, <2>2, <2>3, <2>4, CallMoves
<1>4. CASE MainSorted
  <2>1. /\ at[Main] = "return" /\ stack[Main] = <<>> /\ UNCHANGED poolVars /\ at' = Set(at, Main, "over")
        /\ input' = input /\ stack' = stack /\ result' = result /\ value' = value /\ bound' = bound
    BY <1>4 DEF MainSorted
  <2>2. at'[Main] = "over" /\ stack'[Main] = <<>>
    BY <1>1, <2>1 DEF Set, SortTypes
  <2>3. PICK S \in Lists(Main) : Frames(Main, S)
    BY <1>1, <2>1 DEF SortInv, Active
  <2>4. Len(<<>>) = 0
    OBVIOUS
  <2>5. SortOf(result[Main], Items) /\ Settled(Items)
    BY <2>1, <2>3, <2>4 DEF Frames, Job
  <2>6. SortOf(result'[Main], Items) /\ Settled(Items)'
    BY <2>1, <2>5, SettledStays, Names
  <2>7. BoundStays /\ Only(Main) /\ ~Active(Main)'
    BY <1>1, <2>1, <2>2, OnlyOne DEF BoundStays, Active
  <2>8. QED
    BY <1>1, <2>1, <2>2, <2>6, <2>7, CallMoves
<1>5. QED
  BY <1>2, <1>3, <1>4

\* What the pool does by itself.
PoolStep ==
  \/ \E th \in Threads : Emplace(th)
  \/ \E w \in workers : \/ Test(w) \/ Lock(w) \/ FindsNothing(w) \/ Block(w) \/ Leaves(w)
                        \/ Takes(w) \/ Returns(w) \/ SpuriousWake(w)
  \/ StopStore \/ StopNotify \/ StopJoined \/ UNCHANGED poolVars

LEMMA PoolStepInv ==
  ASSUME PoolInv, Once, SortTypes, SortInv, Forward, PoolStep, UNCHANGED listVars
  PROVE  SortInv'
<1>1. workers' = workers
  BY DEF PoolStep, Emplace, Test, Lock, FindsNothing, Block, Leaves, Takes, Returns, SpuriousWake,
     StopStore, StopNotify, StopJoined, poolVars
<1>2. \A t \in Tasks : future'[t] = "ready" => future[t] = "ready"
  BY DEF PoolStep, Emplace, Test, Lock, FindsNothing, Block, Leaves, Takes, Returns, SpuriousWake,
     StopStore, StopNotify, StopJoined, poolVars, taskVars
<1>3. /\ pc = [w \in workers |-> pc[w]] /\ running = [w \in workers |-> running[w]]
      /\ waiting = {w \in workers : pc[w] = "waiting"}
  BY DEF PoolInv, PoolTypeOK, Guarded
<1>4. \A w \in workers : /\ pc'[w] = "run" <=> pc[w] = "run"
                         /\ pc[w] = "run" => running'[w] = running[w]
  <2>1. CASE \/ \E th \in Threads : Emplace(th)
             \/ StopStore \/ StopJoined \/ UNCHANGED poolVars
    BY <2>1 DEF Emplace, StopStore, StopJoined, poolVars, taskVars, lockVars
  <2>2. CASE StopNotify \/ \E w \in workers : SpuriousWake(w)
    <3>1. running' = running /\ \E woken \in SUBSET waiting : Wake(woken)
      BY <2>2 DEF StopNotify, SpuriousWake, taskVars
    <3>2. QED
      BY <1>3, <3>1 DEF Wake
  <2>3. CASE \E w \in workers : Test(w) \/ Lock(w) \/ FindsNothing(w) \/ Block(w) \/ Leaves(w)
    BY <1>3, <2>3 DEF Test, Lock, FindsNothing, Block, Leaves, Goto, taskVars
  <2>4. CASE \E w \in workers : Takes(w)
    BY <1>3, <2>4 DEF Takes, Goto
  <2>5. CASE \E w \in workers : Returns(w)
    BY <1>3, <2>5 DEF Returns, Goto
  <2>6. QED
    BY <2>1, <2>2, <2>3, <2>4, <2>5 DEF PoolStep
<1>5. QED
  BY <1>1, <1>2, <1>4, PoolMoves

\* Every field has its type, and the lists are lists of items.
LEMMA CallTypes ==
  ASSUME PoolInv, Once, SortTypes, SortInv, NEW th \in Threads,
         \/ CallEmpty(th) \/ CallRefused(th) \/ CallCommits(th) \/ CallHigher(th)
         \/ Get(th) \/ GetThrows(th)
  PROVE  SortTypes' /\ [PoolNext]_poolVars
<1>1. \A p \in input[th] : p \in Items /\ p \in Tasks
  BY Names DEF SortTypes
<1>2. \A p \in Items : p # Root
  BY PoolSortAssumption
<1>3. /\ \A p \in input[th] : Higher(input[th], p) \in SUBSET Items /\ Lower(input[th], p) \in SUBSET Items
      /\ <<>> \in Seq(Items)
  <2>1. input[th] \in SUBSET Items
    BY DEF SortTypes
  <2>2. QED
    BY <2>1, Parts
<1>4. CASE CallEmpty(th)
  <2>1. UNCHANGED poolVars /\ Threads' = Threads
    BY <1>4 DEF CallEmpty, poolVars, Threads
  <2>2. QED
    BY <1>3, <1>4, <2>1, Changed DEF CallEmpty, SortTypes
<1>5. CASE CallRefused(th)
  <2>1. PICK p \in input[th] :
          /\ CommitRefused(th, p) /\ stack' = Set(stack, th, Append(stack[th], p))
          /\ input' = Set(input, th, Higher(input[th], p))
    BY <1>5 DEF CallRefused
  <2>2. Threads' = Threads /\ Append(stack[th], p) \in Seq(Items)
    BY <1>1, <2>1, AppendProperties DEF CommitRefused, Threads, SortTypes
  <2>3. /\ input' \in [Threads -> SUBSET Items] /\ stack' \in [Threads -> Seq(Items)]
        /\ UNCHANGED <<at, result, bound, value>>
    BY <1>3, <1>5, <2>1, <2>2, Changed DEF CallRefused, SortTypes
  <2>4. PoolNext
    BY <1>1, <2>1 DEF PoolNext
  <2>5. QED
    BY <2>2, <2>3, <2>4 DEF SortTypes
<1>6. CASE CallCommits(th)
  <2>1. PICK p \in input[th] :
          /\ CommitTest(th, p) /\ stack' = Set(stack, th, Append(stack[th], p))
          /\ bound' = Set(bound, p, Lower(input[th], p))
    BY <1>6 DEF CallCommits
  <2>2. Threads' = Threads /\ Append(stack[th], p) \in Seq(Items)
    BY <1>1, <2>1, AppendProperties DEF CommitTest, Threads, SortTypes
  <2>3. /\ bound' \in [Tasks -> SUBSET Items] /\ stack' \in [Threads -> Seq(Items)]
        /\ at' = Set(at, th, "commit") /\ UNCHANGED <<input, result, value>>
    BY <1>1, <1>3, <1>6, <2>1, <2>2, Changed DEF CallCommits, SortTypes
  <2>4. PoolNext
    BY <1>1, <2>1 DEF PoolNext
  <2>5. QED
    BY <2>2, <2>3, <2>4, Changed DEF SortTypes
<1>7. CASE CallHigher(th)
  <2>1. Threads' = Threads /\ PoolNext
    BY <1>7 DEF CallHigher, NotifyOne, Threads, PoolNext
  <2>2. Higher(input[th], Pivot(th)) \in SUBSET Items
    BY DEF Higher, SortTypes
  <2>3. QED
    BY <1>7, <2>1, <2>2, Changed DEF CallHigher, SortTypes
<1>8. CASE Get(th)
  <2>1. /\ UNCHANGED poolVars /\ Threads' = Threads /\ stack[th] \in Seq(Items) /\ stack[th] # <<>>
        /\ result' = Set(result, th, value[Pivot(th)] \o <<Pivot(th)>> \o result[th])
        /\ stack' = Set(stack, th, SubSeq(stack[th], 1, Len(stack[th]) - 1))
        /\ UNCHANGED <<input, at, bound, value>>
    BY <1>8 DEF Get, poolVars, Threads, SortTypes
  <2>2. PICK s \in Seq(Items) : s = stack[th]
    BY <2>1
  <2>3. Len(s) \in Nat \ {0}
    BY <2>1, <2>2, LenProperties, EmptySeq
  <2>4. Pivot(th) \in Items /\ SubSeq(s, 1, Len(s) - 1) \in Seq(Items)
    <3>1. s[Len(s)] \in Items /\ \A i \in 1..(Len(s) - 1) : s[i] \in Items
      BY <2>3, ElementOfSeq
    <3>2. QED
      BY <2>2, <2>3, <3>1, SubSeqProperties DEF Pivot
  <2>5. PICK u, p, v : u = value[Pivot(th)] /\ p = Pivot(th) /\ v = result[th]
    OBVIOUS
  <2>6. u \in Seq(Items) /\ v \in Seq(Items) /\ p \in Items
    BY <2>4, <2>5, Names DEF SortTypes
  <2>7. u \o <<p>> \o v \in Seq(Items)
    <3>1. <<p>> \in Seq(Items)
      BY <2>6
    <3>2. u \o <<p>> \in Seq(Items)
      BY <2>6, <3>1, ConcatProperties
    <3>3. QED
      BY <2>6, <3>2, ConcatProperties
  <2>8. result' \in [Threads -> Seq(Items)]
    <3>1. PICK z \in Seq(Items) : z = u \o <<p>> \o v
      BY <2>7
    <3>2. result' = Set(result, th, z)
      BY <2>1, <2>5, <3>1
    <3>3. QED
      BY <3>1, <3>2, Changed DEF SortTypes
  <2>9. stack' \in [Threads -> Seq(Items)]
    <3>1. PICK r \in Seq(Items) : r = SubSeq(s, 1, Len(s) - 1)
      BY <2>4
    <3>2. stack' = Set(stack, th, r)
      BY <2>1, <2>2, <3>1
    <3>3. QED
      BY <3>1, <3>2, Changed DEF SortTypes
  <2>10. QED
    BY <2>1, <2>8, <2>9 DEF SortTypes
<1>9. CASE GetThrows(th)
  <2>1. UNCHANGED poolVars /\ Threads' = Threads
    BY <1>9 DEF GetThrows, poolVars, Threads
  <2>2. QED
    BY <1>3, <1>9, <2>1, Changed DEF GetThrows, SortTypes
<1>10. QED
  BY <1>4, <1>5, <1>6, <1>7, <1>8, <1>9

LEMMA WorkerTypes ==
  ASSUME PoolInv, Once, SortTypes, SortInv, NEW w \in workers, Run(w) \/ TaskEnds(w)
  PROVE  SortTypes' /\ [PoolNext]_poolVars
<1>1. w \in Threads
  BY Names
<1>2. CASE Run(w)
  <2>1. Starts(w) /\ running[w] \in Tasks /\ Threads' = Threads
    BY <1>2 DEF Run, Starts, Once, Threads
  <2>2. bound[running[w]] \in SUBSET Items
    BY <2>1 DEF SortTypes
  <2>3. PoolNext
    BY <2>1 DEF PoolNext, WorkerStep
  <2>4. QED
    BY <1>1, <1>2, <2>1, <2>2, <2>3, Changed DEF Run, SortTypes
<1>3. CASE TaskEnds(w)
  <2>1. PICK o \in {"ready", "error"} : Finish(w, o)
    BY <1>3 DEF TaskEnds
  <2>2. running[w] \in Tasks /\ Threads' = Threads
    BY <2>1, FinishOnce DEF Finish, Threads
  <2>3. result[w] \in Seq(Items) /\ <<>> \in Seq(Items)
    <3>1. <<>> \in Seq(Items)
      OBVIOUS
    <3>2. QED
      BY <1>1, <3>1 DEF SortTypes
  <2>4. PoolNext
    BY <2>1 DEF PoolNext
  <2>5. QED
    BY <1>1, <1>3, <2>2, <2>3, <2>4, Changed DEF TaskEnds, SortTypes
<1>4. QED
  BY <1>2, <1>3

LEMMA MainTypes ==
  ASSUME PoolInv, SortTypes, MainCommits \/ MainLeaves \/ MainSorted
  PROVE  SortTypes' /\ [PoolNext]_poolVars
<1>1. Main \in Threads /\ Root \in Tasks /\ Items \in SUBSET Items
  BY Names
<1>2. Threads' = Threads
  BY DEF MainCommits, MainLeaves, MainSorted, CommitTest, NotifyOne, poolVars, Threads
<1>3. [PoolNext]_poolVars
  BY <1>1 DEF MainCommits, MainLeaves, MainSorted, PoolNext
<1>4. SortTypes'
  <2>1. /\ at' = Set(at, Main, "commit root") \/ at' = Set(at, Main, "over")
        /\ bound' = bound \/ bound' = Set(bound, Root, Items)
        /\ UNCHANGED <<input, stack, result, value>>
    BY DEF MainCommits, MainLeaves, MainSorted
  <2>2. at' \in [Threads -> {"idle", "call", "commit", "return", "thrown", "commit root", "over"}]
    <3>1. PICK v \in {"commit root", "over"} : at' = Set(at, Main, v)
      BY <2>1
    <3>2. QED
      BY <1>1, <3>1, Changed DEF SortTypes
  <2>3. bound' \in [Tasks -> SUBSET Items]
    <3>1. bound \in [Tasks -> SUBSET Items]
      BY DEF SortTypes
    <3>2. CASE bound' = Set(bound, Root, Items)
      BY <1>1, <3>1, <3>2, Changed
    <3>3. QED
      BY <2>1, <3>1, <3>2
  <2>4. QED
    BY <1>2, <2>1, <2>2, <2>3 DEF SortTypes
<1>5. QED
  BY <1>3, <1>4

LEMMA PoolStepTypes ==
  ASSUME PoolInv, SortTypes, PoolStep, UNCHANGED listVars
  PROVE  SortTypes' /\ [PoolNext]_poolVars
<1>1. Threads' = Threads
  BY DEF PoolStep, Emplace, Test, Lock, FindsNothing, Block, Leaves, Takes, Returns, SpuriousWake,
     StopStore, StopNotify, StopJoined, poolVars, Threads
<1>2. [PoolNext]_poolVars
  BY DEF PoolStep, PoolNext, WorkerStep
<1>3. QED
  BY <1>1, <1>2 DEF SortTypes, listVars

LEMMA SortNextInv ==
  ASSUME PoolInv, Once, SortTypes, SortInv, [Next]_vars
  PROVE  PoolInv' /\ Once' /\ SortTypes' /\ SortInv' /\ [PoolNext]_poolVars
<1>1. \/ PoolStep /\ UNCHANGED listVars
      \/ \E th \in Threads : \/ CallEmpty(th) \/ CallRefused(th) \/ CallCommits(th)
                             \/ CallHigher(th) \/ Get(th) \/ GetThrows(th)
      \/ \E w \in workers : Run(w) \/ TaskEnds(w)
      \/ MainCommits \/ MainLeaves \/ MainSorted
  BY DEF Next, Program, SortStep, Loop, Stop, PoolStep, vars, sortVars, listVars
<1>2. SortTypes' /\ [PoolNext]_poolVars
  BY <1>1, PoolStepTypes, CallTypes, WorkerTypes, MainTypes
<1>3. PoolInv' /\ Once' /\ Forward
  BY <1>2, PoolNextInv, OnceNext
<1>4. SortInv'
  <2>1. CASE PoolStep /\ UNCHANGED listVars
    BY <1>3, <2>1, PoolStepInv
  <2>2. CASE \E th \in Threads : \/ CallEmpty(th) \/ CallRefused(th) \/ CallCommits(th)
                                 \/ CallHigher(th) \/ Get(th) \/ GetThrows(th)
    BY <1>3, <2>2, CallEmptyInv, CallRefusedInv, CallCommitsInv, CallHigherInv, GetInv, GetThrowsInv
  <2>3. CASE \E w \in workers : Run(w) \/ TaskEnds(w)
    BY <1>3, <2>3, RunInv, TaskEndsInv
  <2>4. CASE MainCommits \/ MainLeaves \/ MainSorted
    BY <1>3, <2>4, MainInv
  <2>5. QED
    BY <1>1, <2>1, <2>2, <2>3, <2>4
<1>5. QED
  BY <1>2, <1>3, <1>4

\* Main is before its call, or idle, and the workers have no task.
LEMMA SortInitInv == Init => PoolInit /\ SortTypes /\ SortInv
<1> SUFFICES ASSUME Init PROVE PoolInit /\ SortTypes /\ SortInv
  OBVIOUS
<1>1. /\ PoolInit /\ PoolInv
      /\ input = [th \in Threads |-> IF th = Main THEN Items ELSE {}]
      /\ stack = [th \in Threads |-> <<>>]
      /\ at \in [Threads -> {"idle", "call"}] /\ \A w \in workers : at[w] = "idle"
      /\ result = [th \in Threads |-> <<>>]
      /\ bound = [t \in Tasks |-> {}] /\ value = [t \in Tasks |-> <<>>]
  BY PoolInitInv DEF Init
<1>2. <<>> \in Seq(Items)
  OBVIOUS
<1>3. SortTypes
  BY <1>1, <1>2 DEF SortTypes
<1>4. /\ \A t \in Tasks : future[t] = "none"
      /\ \A w \in workers : pc[w] = "test"
      /\ Main \in Threads
  BY <1>1, Names DEF PoolInit
<1>5. ASSUME NEW th \in Threads
      PROVE  IF Active(th) THEN \E S \in Lists(th) : Frames(th, S) ELSE stack[th] = <<>>
  <2>1. stack[th] = <<>>
    BY <1>1
  <2>2. CASE Active(th)
    <3>1. th = Main /\ at[th] = "call"
      BY <1>1, <2>2, Names DEF Active
    <3>2. PICK S : S = [i \in 0..0 |-> Items]
      OBVIOUS
    <3>3. S \in [0..0 -> SUBSET Items] /\ S[0] = Items /\ Len(<<>>) = 0 /\ 1..0 = {}
      BY <3>2
    <3>4. input[th] = Items
      BY <1>1, <3>1
    <3>5. Frames(th, S) /\ S \in Lists(th)
      BY <2>1, <3>1, <3>3, <3>4 DEF Frames, Nested, Lists, Job
    <3>6. QED
      BY <2>2, <3>5
  <2>3. QED
    BY <2>1, <2>2
<1>6. ASSUME NEW w \in workers
      PROVE  pc[w] = "run" <=> at[w] # "idle"
  <2>1. pc[w] = "test"
    BY <1>4
  <2>2. at[w] = "idle"
    BY <1>1
  <2>3. QED
    BY <2>1, <2>2
<1>7. \A t \in Tasks : future[t] # "ready"
  BY <1>4
<1>8. at[Main] # "over" /\ at[Main] # "commit root"
  BY <1>1, <1>4
<1>9. SortInv
  BY <1>5, <1>6, <1>7, <1>8 DEF SortInv
<1>10. QED
  BY <1>1, <1>3, <1>9

\* The queue is empty then: what is queued is pending.
LEMMA SortedIsMore ==
  ASSUME PoolInv, Once, SortTypes, SortInv
  PROVE  MainGetsSorted
<1> SUFFICES ASSUME at[Main] = "over", future[Root] = "none"
             PROVE  /\ Sorted(result[Main]) /\ Len(result[Main]) = Cardinality(Items)
                    /\ {result[Main][i] : i \in DOMAIN result[Main]} = Items
                    /\ tasks = <<>> /\ \A t \in Items : future[t] = "ready"
  BY DEF MainGetsSorted
<1>1. SortOf(result[Main], Items) /\ Settled(Items)
  BY DEF SortInv
<1>2. Len(result[Main]) = Cardinality(Items)
  <2>1. PICK s : s = result[Main]
    OBVIOUS
  <2>2. QED
    BY <1>1, <2>1, SortLength
<1>3. tasks = <<>>
  <2>1. SUFFICES ASSUME tasks # <<>> PROVE FALSE
    OBVIOUS
  <2>2. PICK q \in Seq(Tasks) : q = tasks
    BY DEF PoolInv, PoolTypeOK
  <2>3. Len(q) \in Nat \ {0} /\ DOMAIN q = 1..Len(q)
    BY <2>1, <2>2, LenProperties, EmptySeq
  <2>4. 1 \in DOMAIN q /\ q[1] \in Tasks
    BY <2>3, ElementOfSeq
  <2>5. future[q[1]] = "pending"
    BY <2>2, <2>4 DEF Once, Carried, Queued
  <2>6. q[1] \in Items \/ q[1] = Root
    BY <2>4, PoolSortAssumption
  <2>7. QED
    BY <1>1, <2>5, <2>6 DEF Settled
<1>4. QED
  BY <1>1, <1>2, <1>3 DEF SortOf, Settled

(***************************************************************************)
(* Whichever threads run the tasks, and in whatever order they end, what   *)
(* pool_thread_quick_sort() (main.cpp 6-30) returns to Main is its list,   *)
(* sorted, and every task has been run by then.                            *)
(***************************************************************************)
THEOREM MainGetsSortedHolds == Spec => []MainGetsSorted
<1>1. Init => PoolInv /\ Once /\ SortTypes /\ SortInv
  BY SortInitInv, PoolInitInv, OnceInit
<1>2. PoolInv /\ Once /\ SortTypes /\ SortInv /\ [Next]_vars
      => (PoolInv /\ Once /\ SortTypes /\ SortInv)'
  BY SortNextInv
<1>3. PoolInv /\ Once /\ SortTypes /\ SortInv => MainGetsSorted
  BY SortedIsMore
<1>4. QED
  BY <1>1, <1>2, <1>3, PTL DEF Spec

\* The sort uses the pool as a client of ThreadPool.h may.
THEOREM SortUsesPool == Spec => PoolSpec
<1>1. Init => PoolInit /\ PoolInv /\ Once /\ SortTypes /\ SortInv
  BY SortInitInv, PoolInitInv, OnceInit
<1>2. PoolInv /\ Once /\ SortTypes /\ SortInv /\ [Next]_vars
      => (PoolInv /\ Once /\ SortTypes /\ SortInv)' /\ [PoolNext]_poolVars
  BY SortNextInv
<1>3. QED
  BY <1>1, <1>2, PTL DEF Spec, PoolSpec

(***************************************************************************)
(* The same of the pool with the tasks of main.cpp: commit() notifies      *)
(* after the push, and no queued task is forgotten while a worker sleeps.  *)
(***************************************************************************)
THEOREM SortForgetsNoTask == Spec => []NoTaskForgotten
BY SortUsesPool, NoTaskForgottenHolds, PTL

=============================================================================
