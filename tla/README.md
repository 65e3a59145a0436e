# Self-Study: specifications

TLA+ specifications of the concurrent programs in `src/Self-Study/`: an echo server
over an I/O completion port, a thread pool and the quicksort on it, three thread-safe queues,
and a second, smaller server over a completion port; and of the core of `src/fmt`, the
formatting library that is kept in the repository. This file lists the parts of the
repository, says which module models which part, what TLC checks, what TLAPS proves, and
what is left.

The specifications are read with the code beside them. `PROJECT.json` gives the lines of
the source for every definition ("map"), the runs, the faults that every property was
tried against ("mutants"), the disagreements found ("findings") and the hazards that the
properties are for.

## Inventory

| Part | Source | State | Operations | Interacts with |
|---|---|---|---|---|
| Client context list | `IocpServerex.cpp` 813-1110 | `g_pCtxtList`, the links and blocks of `PER_SOCKET_CONTEXT`, `g_CriticalSection` | `CtxtAllocate`, `CtxtListAddTo`, `CtxtListDeleteFrom`, `CtxtListFree`, `CloseClient`, `UpdateCompletionPort` | called by the workers and by `main()`; heap |
| Echo server | `IocpServerex.cpp` 477-893 | contexts (operation, counts, buffer, socket), packets in the port, `lpPerSocketContext` of every worker | `WorkerThread`, `CreateAcceptSocket(FALSE)` | kernel through overlapped operations and the port; the list |
| Server lifecycle | `IocpServerex.cpp` 75-250, 293-318 | `g_bRestart`, `g_bEndServer`, `g_hCleanupEvent`, `g_hIOCP`, `g_ThreadHandles` | `main()` loop, startup, `finally` block, `CtrlHandler` | shared flags and event between two threads; quit packets to the workers |
| ThreadPool | `ThreadPool.h` | queue of tasks, mutex, condition variable, `stop_`, idle count | `commit`, worker loop, `stop` | futures to the callers |
| Parallel quicksort | `main.cpp` 8-38 | recursion of tasks | `pool_thread_quick_sort` | commits tasks to the pool, from inside tasks, and waits |
| MPSCQueue | `Threading/MPSCQueue.h` | linked nodes, `_head`, `_tail` | `Enqueue`, `Dequeue`, two variants | lock-free, many producers, one consumer |
| ProducerConsumerQueue | `Threading/ProducerConsumerQueue.h` | queue, mutex, condition variable, `_shutdown` | `Push`, `Pop`, `WaitAndPop`, `Cancel` | producer and consumer threads |
| LockedQueue | `Threading/LockedQueue.h` | deque, mutex, `_canceled` | `add`, `readd`, `next` (two forms), `peek`, `pop_front`, `cancel`, `lock`/`unlock` | callers that hold the lock across calls |
| IOCP demo | `test_iocp.cpp` | one overlapped record per operation, the port, four workers | `PostAcceptEx`, `workerThread`, `initServer`, `test_iocp_demo` | kernel; `main()` of `main.cpp` |
| ProcessPriority | `Threading/ProcessPriority.cpp` | none | `SetProcessPriority` | operating system |
| Demo program, options, output | `main.cpp`, `IocpServerex.cpp` 255-287, 324-445, 1112-1134 | none | one call of a demonstration, option parsing, socket setup, formatting | |
| fmt: buffers and files | `base.h` 829-1089, `format.h` `basic_memory_buffer`, `os.h`, `os.cc` | pointer, size and capacity of a buffer; the descriptors objects own | `append`, `push_back`, `reserve`, `grow`, `flush`, moves; `open`, `close`, `dup`, `pipe`, moves and destructors of `file` and `buffered_file` | every writer appends to a buffer; system calls |
| fmt: arguments and format strings | `base.h`, `args.h`, `format.h`, `compile.h` | descriptor and arguments of a store; `next_arg_id_` of a parser | `push_back`, `get`, `get_id`; `parse_format_string`, `parse_format_specs`, the checks at compile time, `vformat_to` | a format string's fields name arguments |
| fmt: integers and text | `format.h`, `format-inl.h` | none between calls | `write_int`, `format_int`, `write_char`; `utf8_decode`, `write_escaped_string`, width and precision, `to_utf8`, `utf8_to_utf16` | append to buffers |
| fmt: floating-point numbers | `format.h`, `format-inl.h` | the bigits of a `bigint` | Dragonbox, `format_dragon`, `format_float`, `do_write_float`, `format_hexfloat` | append to buffers |
| fmt: dates and durations | `chrono.h` | a parser's and a writer's progress | `parse_chrono_format`, `tm_writer`, `chrono_formatter`, the checked conversions | append to buffers |
| fmt: the rest | `printf.h`, `ranges.h`, `color.h`, `std.h`, `ostream.h`, `xchar.h`, build files | none | adapters | hand parts to the formatters above |

The programs in `src/Self-Study` have no automated tests; the demonstrations in `main.cpp` are
run by hand.

What is hard about this code, part by part, and what makes each part correct:

* **List.** Contexts are linked, unlinked and freed by several threads in any order.
  Correct: head and links are those of the contexts added and not removed, no freed block
  is accessed, none is lost, the cleanup reaches all.
* **Echo server.** A context has no lock of its own: it is safe only if exactly one party
  (kernel, port, or one worker) has it at any time. Receives and sends complete with any
  size; calls fail in the middle of a handler; shutdown runs against all of it. Correct:
  one owner, nothing used after it is freed, nothing freed under the kernel, echo in order,
  always an `AcceptEx` outstanding, shutdown completes.
* **Lifecycle.** Handler and `main()` share three flags without a lock; `main()` waits one
  second for its workers and goes on. Correct: a control event takes effect, workers of one
  life do not reach into the next, nobody waits for ever.
* **ThreadPool, quicksort.** A lost wakeup in `stop()`, tasks left in the queue, tasks that
  wait for tasks. Correct: every committed task runs once while the pool lives, `stop()`
  returns, the sort returns.
* **Queues.** Correct: first in first out, nothing lost or repeated, a waiter is woken; an
  empty answer means empty, or says when it does not.
* **IOCP demo.** Correct: every record has one owner; places for new clients are not lost but to
  failures; memory given to the kernel lives until the operation completes.
* **fmt, buffers and files.** A buffer is flushed, grown or moved in the middle of a text; `close`
  fails in the middle of an assignment. Correct: the text arrives once and in order; a
  descriptor has one owner and is closed once.
* **fmt, arguments and format strings.** Three parsers of one notation, two kinds of stores, two
  ways to count arguments. Correct: the parsers agree; what passes the checks formats; an
  argument is found where it was put.
* **fmt, numbers, text, dates.** Computed sizes, 32-bit carries, digit generation by three
  algorithms, remainders of negative numbers. Correct: what is written reads back as what was
  given, in the width and the precision that were asked for.

## Modules

| Module | What it is |
|---|---|
| `CtxtList`, `MCCtxtList` | the list, the heap and the critical section; its instance for TLC |
| `EchoServer`, `MCEchoServer` | one life of the server, instantiates `CtxtList` as `L`; streams and bounds |
| `ServerLifecycle` | restart loop, control handler, and the workers of every life |
| `ThreadPool` | the pool: `commit`, the worker loop, `stop` |
| `PoolSort` | extends `ThreadPool`: what the tasks of the quicksort do |
| `FifoQueue` | the abstract queue for many producers and one consumer |
| `MPSCQueue` | both lock-free queues; instantiates `FifoQueue` as `F` and implements it |
| `ProducerConsumerQueue`, `LockedQueue` | the two queues with a lock |
| `MCQueues` | the three queues in one instance, `which` chooses |
| `IocpDemo` | the second server |
| `MCDemos` | `PoolSort` with three items, and `IocpDemo`, in one instance, `which` chooses |
| `FmtBuffer`, `FmtFile` | buffers; files, buffered files and pipes |
| `FmtArgs`, `FmtParse` | argument stores; the parsers and the two handlers |
| `FmtNumber`, `FmtText`, `FmtBigint`, `FmtFloat`, `FmtChrono` | the writers |
| `MCFmt` | the nine machines of fmt in one instance, `which` chooses |
| `CtxtListProofs`, `EchoServerProofs`, `ServerLifecycleProofs`, `MPSCQueueProofs`, `IocpDemoProofs` | the theorems about the module of that name |
| `ThreadPoolProofs` | the theorems about `ThreadPool` and `PoolSort` |
| `MonitorQueueProofs` | the theorems about `ProducerConsumerQueue` and `LockedQueue` |
| `FmtProofs` | the theorems about `FmtFile`, `FmtArgs` and `FmtBuffer` |

### CtxtList

Everything an operation does between `EnterCriticalSection` and `LeaveCriticalSection` is one
action; `CtxtListFree` holds the section over its loop and is one action per iteration.
`cs` has owner and depth because the section is recursive and because `CtxtAllocate` returns
inside it when its first `xmalloc` fails. `order` is a history variable: the contexts added
and not yet removed, oldest first. The correctness of the pointers is stated against it
(`Linked`, `Intact`).

`CtxtListDeleteFrom` classifies a context without an older neighbour as the start of the
list, although `CtxtListAddTo` inserts new contexts at `g_pCtxtList`. `Benign(c)` says when
this is harmless: `c` is alone, or has two neighbours, or is the older of two. `RemovalExact`
says that it is harmless in exactly these cases. After any other removal the variable
`tainted` is TRUE, and the safety invariants claim nothing more. The run `ctxt_list_cleanup`
shows what then happens.

### EchoServer

A *key* is a client context or the context of the listening socket. `io[key]` tells who has its
only overlapped operation: the kernel (`pending`), the port (`done`), a worker (`held`), or
nobody (`none`; `refused` for an `AcceptEx` that failed). A worker takes one packet and goes
through the handler with `pc`; a step ends where the code makes a call that another thread
or the kernel can see. Data are sequences of 16-bit units, because the copy of the first
block in the accept handler is made in such units. `StringCopy` is what the wide
`StringCbCopyN` leaves in a zeroed buffer.

Things the code does that the module has:

* `AcceptEx` returns `FALSE` and not `SOCKET_ERROR` when it fails, so that the test at line
  533 never sees it (`RearmRefused`; a server without `AcceptEx`).
* a failed `CreateIoCompletionPort` replaces `g_hIOCP` by NULL, and `main()` then posts no
  quit packets (`AcceptAssociateFails`, `MainWakes`).
* after a failed call in the accept handler the worker sets the cleanup event and returns.
* `main()` gives up its wait after one second (`MainTimesOut`); late workers then run beside
  the cleanup. `Prompt` restricts this to workers that cannot go on.

What a worker does to the list is what `CtxtListAddTo`, `CtxtListDeleteFrom` and `xfree` do to their argument
(`L!Add`, `L!Delete`, `L!Free`), which ask nothing of it; the only thing a worker waits for is the section
(`L!CanEnter`). `CtxtList` itself has these steps under conditions: a thread adds and frees what it has allocated,
and closes what is listed. `UsesCtxtList` (`L!Spec`) states that the server keeps to them, which is a
matter of the order of packets, posts and failures: were `WSA_IO_PENDING` taken for an error, two workers would close one
context, and TLC shows that step. One restriction is left: once `main()` has gone on without its workers, a late one may
be about to close a context that `main()` has freed; the model has no step for it there (`Reaches`), as for
any access to freed memory that ends the process.

`AllocatedWhileUsed` says that no worker uses what was freed, and that the cleanup leaves neither a context nor a socket.
A worker *owns* a context from its packet to the next operation it posts (`Owns`); in the messages of a server
with `g_bVerbose` it uses one context it no longer owns (`Uses` at `Log`): the property names this
read of possibly freed memory (lines 741-744, 773-776, 797-800) as its exception.

### ServerLifecycle

`main` names the next statement of `main()`; the handler's three writes (`g_bRestart`,
`g_bEndServer`, the event) are separate actions, as are `main()`'s three resets at the top of
its loop, so that they interleave in every way. Workers are abstract: a packet makes one
`busy`, and it comes back or gives up (sets the event and returns, perhaps without
`g_hIOCP`, perhaps still in the section). `number` is the handle value a worker keeps for its
port: the system may give the value of a closed port to the next one, and a worker that is
late then finds a different port. `list` is what a worker's adding and closing may leave the list of contexts in (`Relists`; `CtxtList`
says after which removals): `CtxtListFree`, or a worker before it, may then follow a pointer to a freed
context (`FollowDangling`), where the behaviour ends. `CleanupCompletes` and `WorkersEnd` name that as an exception.

### ThreadPool and PoolSort

`pc[th]` is the next statement of a thread in the pool's code, and a step ends where another
thread can see it: `commit()` at its test of `stop_` (`CommitTest`), its push under the mutex
(`Emplace`) and its notification (`NotifyOne`); the worker at the loop's test, the mutex, the
predicate of the wait (`FindsNothing`) and the moment it sleeps (`Block`). `stop_` is not guarded
by the mutex, so that `StopStore` may come between the last two. A sleeping worker may wake without a
notification (`SpuriousWake`).

`PoolSort` gives tasks their meaning. A call of `pool_thread_quick_sort` is an entry of a thread's
`stack`; its list is the set of its items, since `std::partition` leaves the order of both parts
open. A task calls the same function, and then a worker waits for a worker. `Main` sorts, as
the demonstration does, or stands for a client that commits a sort, drops the future, and destroys the pool.

`StopReturns` says that the pool's destructor returns, with three exceptions it names, each
reached by TLC: `Starved` (every worker waits for a task), `LostWakeup` (a worker was between
predicate and sleep when `stop()` notified) and `Abandoned` (the workers have left a task in the
queue for which a task waits). The run `demos`, whose behaviours are about the sort or about `IocpDemo`, checks it
of the first as `SortStops`.

### FifoQueue and MPSCQueue

One action per access to memory that two threads use: the exchange of `_head`, the store of a
link, each load of one. Nodes are addresses that may be used again as soon as they are
freed or handed out. `intrusive` chooses the variant at the beginning. `order` is a history variable:
the nodes from `_tail` to `_head` in the order of the exchanges; `ChainIntact` states the links
against it.

`FifoQueue` says what both promise. A put takes effect at once, and returns later. The consumer takes the
oldest item, or answers that there is none; it may do so only if the queue was empty at some
moment of the call, or a put had taken effect and not returned: `call` becomes `excused`. Its
`Safety` says what steps there may be, its `Liveness` that a call which has begun returns. The
refinement mapping takes `Contents` for the queue and `Linking` for the puts in progress:
`ImplementsFifo` is `F!Safety` under it, `CallsReturn` is `F!Liveness`. The run checks the latter together
with the liveness of the other two queues (`CallsEnd`).

### ProducerConsumerQueue and LockedQueue

A call of `ProducerConsumerQueue` holds the lock from its first statement to its last or to its wait, and is
one action up to there. `LockedQueue` hands its mutex to its callers: `peek()` without `autoUnlock`
returns with it taken. The users are those the comment at line 82 describes. `rivals` records
whether others have changed the front; the property says that without rivals, or with the lock kept, what
`pop_front` removes is what `peek` returned.

### IocpDemo

`record[r]` says where the one record of a connection is: in the kernel, in the port, with a worker,
or lost. `main`'s calls run beside the workers' as in the code; so `closesocket` of the
listening socket finds workers in the loop around `AcceptEx`, which then does not end.
`CapacityKept` counts the places for new clients, `RecordsOwned` the owners of records and
the stacks that sends are from.

### fmt

`FmtBuffer` has a character as its number in the text, so that order, loss and repetition show.
Every kind of buffer has its own `grow`; a step of a formatting call appends, reserves, flushes or moves, and
allocations and writes may fail. `FmtFile` has the objects that own descriptors; when a call
throws, the temporaries die in their destructors (`unwinding`).

`FmtArgs` builds static and dynamic stores, packed or not, and looks arguments up by id and
by name. `FmtParse` has `parse_format_string` twice (its loops for short and for long strings), the
parser of `compile.h`, `parse_format_specs` with dynamic width and precision, the checker of
compile-time strings and the handler of `vformat_to`; each is a recursion over positions.

The writers are operators from a value and specifications to the text and the size they reserved.
A machine of one step chooses the inputs, so that TLC evaluates a writer for each of them, and the properties read the text
back by a definition of their own. Widths are parameters: integers have 16 bits,
bigits 4, significands 5, durations 24. `FmtBigint` works on bigits with carries; `FmtFloat` uses
exact numbers where the code has bigints or products with cached powers.

Where the code does not do what the property says, the property names the case, with its line:

| Property | Its exceptions |
|---|---|
| `TextKept` | what a file refused |
| `LookupExact` | the id behind the last one in a dynamic store with names (`args.h` 115), what a failed allocation leaves (131-143) |
| `ParsersAgree` | `compile.h` 330 and 396, and automatic fields behind a named one |
| `CheckedRuns` | a dynamic width out of range, of type `bool` or `char` (`base.h` 815) or with a name (777); automatic fields behind a named one |
| `WrittenReadsBack` | a `char` in debug format (`format.h` 1932), zeros before the sign of a localized number (1739) |
| `TextReadsBack` | code points that UTF-16 has two units for, in the way from UTF-16 (`Utf16ReadsBack` is about them) |
| `FloatsReadBack` | `format.h` 2643, 2655, 3065, 3540 and 3581 |
| `CalendarReadsBack` | weeks of years below 0 (`chrono.h` 1264), `local_time` before the epoch (2197) |
| `DurationsWritten` | seconds of a floating-point count (`chrono.h` 1978), and its `%I` in the hour after midnight and noon (1857) |

The properties hold with these exceptions and no others; a change of the code that adds one shows in the
run `fmt`.

## Runs

| Run | Instance | Shows |
|---|---|---|
| `ctxt_list` | 5 addresses, 3 threads, 1 failing `xmalloc` | `IntactUnlessTainted`, `NoneLost`, `SweepOnTrack`, `RemovalExact` |
| `ctxt_list_cleanup` | 3 addresses, no failure, no worker beside the cleanup, no dangling head | **violated**: `CleanupClosesAll` |
| `echo_server` | 2 workers, 2 clients, 2 contexts, blocks of 2 units, 1 failing `xmalloc`, 1 failing call, timeouts | `OneOwner`, `AllocatedWhileUsed`, `AcceptChain`, `EchoInOrder`, `FreesOnlyCompleted`, `UsesCtxtList` |
| `echo_liveness` | 1 worker, 2 clients, blocks of 1 unit, 1 failing call | `EchoCompletes`, `ShutdownCompletes` |
| `echo_identity` | as `echo_server`, no failure | **violated**: `EchoIdentity` |
| `echo_operator` | the same | **violated**: `OnlyOperatorStops` |
| `lifecycle` | 2 lives, 2 workers, 2 control events, 1 failing call | `OnlyEarlyEventsLost`, `WorkersOfThisLife`, `WorkersJoined`, `CleanupCompletes`, `WorkersEnd` |
| `ctrl_lost` | 2 lives, no failure | **violated**: `CtrlInitiatesShutdown` |
| `demos` | 3 items, pools for 1 and for 3 cores, 1 spurious wakeup; 2 workers, 2 `AcceptEx`, 2 clients, 2 failures | `NoTaskForgotten`, `MainGetsSorted`, `SortStops`; `CapacityKept`, `RecordsOwned`, `PacketsTaken` |
| `queues` | 2 producers, 4 nodes, 2 values; 3 getters, 3 values at most; 2 users, 3 entries | `ChainIntact`, `NobodySleepsOnValue`, `FrontIsWhatWasPeeked`, `ImplementsFifo`, `CallsEnd` |
| `fmt` | 4 descriptors, 2 errors; 4 arguments; texts of 6 characters; format strings of 5 pieces; texts of 4 pieces or units; numbers at their edges | `DescriptorsOwned`, `LookupExact`, `TextKept`, `ParsersAgree`, `CheckedRuns`, `WrittenReadsBack`, `TextReadsBack`, `BigintsAreIntegers`, `FloatsReadBack`, `CalendarReadsBack`, `DurationsWritten` |
| `utf16_pairs` | as `fmt`, texts only | **violated**: `Utf16ReadsBack` |

Why the bounds are enough. The list needs a context with two neighbours on both sides of a
removal, hence five; the proofs cover every other size. `ctxt_list_cleanup` leaves out (`Quiet`) a head that dangles and
threads that allocate or add beside the sweep: two more ways to lose a context, but not the one the run is for. Two workers and two contexts give
every pair of owners; two clients give a connection waiting behind another; a stream of two
units over blocks of up to two gives receives in one or two pieces, partial sends, and a
zero with something behind it. One worker in `echo_liveness` says nothing of packets that overtake one another, nor of threads that want
the section while the cleanup has it: for these there are only the safety properties of `echo_server`. The constraint `Bounded` keeps streams short once a shutdown
or a failure has begun, when data no longer matters. Two lives are one restart. One failing
call at a time: the error paths end the server, so that a second failure meets a server in its cleanup.

Three items are enough for a task that commits a task, for both workers of the smaller pool to
wait at once, and for a task left behind in the queue. Four nodes let the lock-free queue use each of them again while two
producers are between their exchange and their store; three getters let one sleep, one come, and
one take the value of another. Two failures of `IocpDemo` end both workers. The buffers of `fmt` have room for two
characters, five at most, so that a text of six fills each more than once, and a piece
of three never fits. Format strings have five of thirteen pieces: braces, a colon, a field without an id, the beginning of a field with a
number, a name or a colon, and specifiers; so a dynamic width or precision by order, by number and by name is among them, and
a field behind one (`{:{a}}{}`, `{0:{}}`, `{:{0}}`, `{:.{}}`, `{0:+f}`). A text has four pieces of bytes, or four 16- or 32-bit units;
two make a character beyond U+FFFF or a surrogate pair, and text stands before and behind it. The
numbers are the powers of ten and of the base with their neighbours, the least and the
greatest; the dates the turns of years, the end of February and the centuries; the
durations the greatest and the least a type can hold, in periods longer and shorter than a second.

Deadlock is not checked: the server, its clients and `main()` all come to a stop where
nothing is left to do, and a process that has accessed freed memory has no next step here.

Fairness. Threads that can run do run (`WF`). A packet in the port or a quit packet is not
passed over for ever by workers that keep coming back (`SF`), because the port is a queue. The
kernel completes a send to a client that reads, and aborts operations on closed sockets.
Nothing is assumed of clients beyond that (no fairness for `Connect`, `RecvCompletes`,
`Reset`), nor of failures and control events. `CtrlEvent` is fair, since a handler that
has set the flag goes on to set the event. The threads of the pool run, spurious wakeups need not
come (`Program`); one condition for all is enough, because nothing in it repeats without end. A call
on a queue that has begun goes on (`Enqueues`, `Dequeues`, `WaitAndPop`); nobody needs to begin
one. The workers of `IocpDemo` run; its operator, clients and network need not.

The liveness properties name their exceptions, and each is a real one: a freed context was accessed,
the list led to one, or a thread returned inside the section; the three ways `stop()` hangs; the loop around `AcceptEx`.

## Disagreements

* `CleanupClosesAll` (line 1027): with three connections, when the oldest closes first, the head
  moves to the second, and `CtxtListFree` never closes the newest, contrary to the comment at 66-69. This is the behaviour
  TLC prints: three contexts added, the oldest closed, and a sweep that closes the second only.
* `EchoIdentity` (664): a first block with a 16-bit zero comes back with zeros behind it.
* `OnlyOperatorStops` (641): a client that resets before its connection is accepted ends the
  server; the comments at 595-597 and 638 say otherwise.
* `CtrlInitiatesShutdown` (134): a control event handled while `main()` is between the `finally`
  block of one life and `WSAResetEvent` of the next is lost, contrary to 289-290.
* `Utf16ReadsBack` (`format.h` 1427): `to_utf8` computes the code point of a surrogate pair and writes nothing for it: all
  that writes is in the `else` branches of the test for surrogates. The comments at 1383 and 1419 say
  that the class converts UTF-16 and that this branch handles a pair.

## Proofs

Every safety property of `src/Self-Study` that a run checks is a theorem, for every value of the constants that the
module's named assumption admits; of fmt, the properties of its three machines that keep state.

| Module | Theorems | Besides the module's assumption |
|---|---|---|
| `CtxtListProofs` | `TypeCorrect`, `ListIntact`, `ListComplete`, `SweepReachesAll`, `BenignIsExact` | |
| `EchoServerProofs` | `OneOwnerHolds`, `AllocatedWhileUsedHolds`, `FreesOnlyCompletedHolds`, `AcceptChainHolds`, `EchoInOrderHolds`, `UsesCtxtListHolds`, `ServerListHolds` | |
| `ServerLifecycleProofs` | `OnlyEarlyEventsLostHolds`, `WorkersOfThisLifeHolds`, `WorkersJoinedHolds` | the last: `Prompt` |
| `ThreadPoolProofs` | `PoolTypes`, `NoTaskForgottenHolds`; `MainGetsSortedHolds`, `SortUsesPool`, `SortForgetsNoTask` | |
| `MPSCQueueProofs` | `ChainIntactHolds`, `ImplementsFifoHolds` | |
| `MonitorQueueProofs` | `NobodySleepsOnValueHolds`, `FrontIsWhatWasPeekedHolds` | the getters are finite, `Capacity` is a number; `Nobody` is no user |
| `IocpDemoProofs` | `CapacityKeptHolds`, `RecordsOwnedHolds` | |
| `FmtProofs` | `DescriptorsOwnedHolds`, `LookupExactHolds`, `TextKeptHolds` | |

The assumptions on the constants say what kind of thing each is: numbers are numbers, names for "none" are not
names of something, a set of threads that the code creates one by one is finite where it is counted
(`IocpDemo`'s `Workers`, the getters of `ProducerConsumerQueue`), a client's stream is a sequence of units, a buffer has
room for one character at least. Two say more: `g_ThreadHandles` is large enough (`ServerLifecycleAssumption`, below),
and `Prompt`, under which `WorkersJoined` is proved and checked, that a worker which can run is done within the
1000 ms `main()` waits; the code cannot guarantee that, and no other theorem needs it.

**The list.** `TInv` is `TypeOK` with the fact that a sweep owns the section. `IInv` adds what is needed
to push the three invariants through a step together: `Linked`, that `order` holds every
listed context once, that what is allocated is `fresh` or listed, and where `head` and `cursor`
are in each phase. None of the three is inductive alone: that an insertion keeps the links
needs that a fresh context is not listed (`NoneLost`), that a sweep frees only allocated
contexts needs the links, and that the list is complete again after a sweep needs where the
cursor is. Once `tainted` holds, it stays, and nothing is left to prove. The lemmas `Drop*` say what
removing one element does to a sequence without duplicates; `Neighbours` that links to and
from a listed context agree; `UnlinkLinked` that the four cases of `CtxtListDeleteFrom` keep
the links whatever they do to the head; `UnlinkExact` when the head is right, too.

**The echo server.** `OwnerInv` says that a worker is the only one to use what it uses (`Hold`), that a context with an
operation under way is allocated (`BusyAllocated`), and what is left of that once `main()` cleans up beside workers that
are late: a context the cleanup has closed stays without an operation (`Dead`, `Swept`), and unless the wait timed
out the workers are gone (`AllGone`). A step hands one context from one owner to the next (`Handed`) or touches none
(`Untouched`). `FreesOnlyCompleted` is an action property and follows from `OwnerInv` step by step.
`AcceptChain` is inductive with the fact that only the accept handler has the listening context (`ClientsOnly`).
`UsesCtxtListHolds` is a refinement: every step of the server is one of `CtxtList`'s or leaves the list alone. What `CtxtList`
asks of a caller is proved, not assumed: that what is added or freed is fresh and its worker's own (`FreshHeld`), since
one worker at a time has the listening context (`OneAccepts`); and that what is closed is listed, since a context
with an operation is listed, or allocated by the one worker in the accept handler (`BusyPlaced`, `Placed`), until
`main()` has stopped waiting; from then on `Reaches` says so. `ListInv` is these three and `ListOfContexts`, which has
the types of the list; `Plain` are the steps that do nothing to it.
With it the theorems of `CtxtListProofs` hold of the list inside the server (`ServerListHolds`), for an instance of that module
whose threads are the workers and `main()`. The second half of `AllocatedWhileUsed` rests on that: `CleanInv` says that a context
in no list is with a worker about to add it (`AtHand`), that what is freed has no socket (`FreedClosed`), and that the list is
empty at the end (`SweptEmpty`, from `SweepOnTrack`); then `NoneLost` says that nothing is allocated. `tainted` is its
exception because a misjudged removal makes the sweep miss contexts, as the run `ctxt_list_cleanup` shows.
`LogInv` says that only a server with `g_bVerbose` gets to the messages the property excepts.

`EchoInOrder` needs an account of every unit that is on its way. `DataInv` says of each context, of the
listening one and of each worker's hands what they owe to their client (`CtxOwes`, `ListenOwes`, `HandOwes`,
`NewOwes`), that a client has one of them at most (`OneEach`), and that a client who still waits has not been
touched (`WaitingUntouched`). A receive, a partial send and `StringCbCopyN` of the first block then each keep the
sum of what was echoed and what is owed. Only the step that moves data has to be looked at, since by `OwnerInv` nobody
else holds the context.

**The lifecycle.** `HeedInv` follows the three writes of the handler against the three resets of `main()`: while a life
serves, an event that was not heeded has set `g_hCleanupEvent` or is about to. `LifeInv` has the places of threads and handles
(`Where`, `Ports`, `Tables`) and `Joined`: as long as every wait has met all its workers, a worker that
lives is of this life, its port is open and its handle in the table, and the table is empty outside of a life. `CleanInv`
counts quit packets against workers (`TheQuits`) as long as no call has failed: there is a packet for each that has not left.

**The pool and the sort.** `PoolInv` adds to `NoTaskForgotten` the types, that a worker about to sleep still has
the mutex it looked with, and looked at an empty queue (`Guarded`), and what the idle count counts (`Counted`); the
cardinalities are handled with the library's theorems about finite sets. `SortUsesPool` shows that
`PoolSort` makes no step the pool does not allow, so that the theorem holds of the program as it runs.
For `MainGetsSorted`, `Once` says that a task is in one place until its future is set: nobody sets it twice. `SortInv` says
that the calls a thread is in sort lists that are parts of one another (`Frames`), that what a call returns or a
future holds is the sorted list it was asked for, and that no task below it is still to be run (`Settled`). A
worker that waits for a task needs no hypothesis on who runs it.

**The lock-free queues.** `MPSCInv` says that a node has one place: it is free, or with the thread that prepares
it, or in `order`, once; that a link is stored at most once, by the thread that exchanged `_head` with its
successor (`Unlinked`); and that the dummy is put back only when it is out of the order (`Consuming`). `AdvanceInv` is the
step both variants share, in which `_tail` moves on. For the refinement, `Answering` says in which states of
`Dequeue` an answer is already settled. The lemmas `Without*` and `DataOf*` say what the abstract queue is after
the order has got or lost a node; `Linked` and `Alone` that a null link means that a producer has still to store it or that
the node is the only one. Each action then maps to `Put`, `Take`, a return, or nothing (`*Refines`).

**The queues with a lock.** `NobodySleepsOnValue` is inductive with the types. For `FrontIsWhatWasPeeked`, `LQInv` says
that the lock keeps rivals out (`Locked`) and that a user knows the front from `empty()` on (`Known`).

**The demo server.** `IInv` has the types, one worker to a record in hand (`Owned`), the type of an operation under way (`Typed`),
and the counts (`Counts`): places for `AcceptEx` in the kernel, with workers and still to be posted are never more than
there were, and never fewer by more than the resets and failures.

**fmt.** `FileInv` splits `DescriptorsOwned` in parts (`OneEach`, `DistinctFds`, `Apart`, `Complete`), of which each action
moves one or two descriptors. `ArgsInv` says what a store looks like: the arguments in the order given behind the header that
names need (`InPlace`), and the ids of the names, ascending and complete (`NamesRight`); so that the search of `get_id`, which
ends at the first hit, ends at the first argument of that name. `BufInv` says for every kind of buffer where its text is
(`Contents`), on which storage (`Storage`), and how much room there is (`Fits`): after `try_reserve` there is
room for one character more, and a container is exactly as long as what will be in it. `FlushKeeps` is what every way to
empty a buffer has in common, `CopiesInv` every way to put characters in; `TextJoin` and `TextCut` say what joining and
cutting does to a piece of the text.

TLC only:

* liveness, since the prover has neither fairness arguments nor `ENABLED`: `CleanupCompletes`, `WorkersEnd`,
  `EchoCompletes`, `ShutdownCompletes`, `SortStops`, `CallsEnd`, `PacketsTaken`;
* the properties of fmt's parsers and writers (`ParsersAgree`, `CheckedRuns`, `WrittenReadsBack`,
  `TextReadsBack`, `BigintsAreIntegers`, `FloatsReadBack`, `CalendarReadsBack`, `DurationsWritten`): they are about what
  recursive definitions compute for every input, which takes inductions over data that the prover cannot instantiate. Their
  definitions are evaluated by TLC on the inputs named under "Runs".

## Not modelled

* The value of what is read from freed memory. A later access of a freed context meets its
  old contents or ends the behaviour; `fault` in `CtxtList` records it, `crashed` and `lost` in
  `ServerLifecycle`.
* `CtxtAllocate`'s second failure inside `EchoServer` and `ServerLifecycle`: the handler goes on to
  dereference a null `pIOContext` at once. `CtxtList` has it.
* What the messages behind `g_bVerbose` print when the context they read has been freed: the use is modelled (`Uses`), its
  value is not.
* More than eight processors: `g_ThreadHandles` has 16 entries and is filled without a test.
  `ServerLifecycleAssumption` states it as an assumption.
* `OVERLAPPED` internals, address structures, socket options, output, option parsing; the
  code of `main()` before and after its loop; `ProcessPriority`; the demonstrations.
* Weaker memory than sequential consistency in `MPSCQueue`: the code orders its accesses with acquire
  and release. Its destructors run alone and only repeat `Dequeue`.
* Workers of `IocpDemo` that start so late that the parameters they were given are gone.
* The table of powers of ten of Dragonbox and the 128-bit arithmetic on it: `FmtFloat` uses the exact
  quotients. `weekday`, and what locales other than the classic one write.
* Formatters that users write, and with them the specifiers of nested formatters.
* The adapters of fmt (`printf.h`, `ranges.h`, `color.h`, `std.h`, `ostream.h`, `xchar.h`): they take apart a value or a
  format of another notation and hand the parts to the formatters modelled here.

## Plan

1. Proofs: types of `EchoServer` and `ServerLifecycle` as theorems of their own; lemmas about the operators of
   `FmtNumber` and `FmtText` that are not recursive, which the runs of `MCFmt` only check over bounded inputs.
2. Modelling: the loops of `printf.h` against `FmtParse`'s specifications, and the state `ranges.h` and `color.h` keep
   while they write.
