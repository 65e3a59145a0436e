--------------------------- MODULE ServerLifecycle ---------------------------
(***************************************************************************)
(* The lives of the server of IocpServerex.cpp: main()'s restart loop with *)
(* its startup, its waits and its finally block, the console control       *)
(* handler that runs beside it on a thread of its own, and the worker      *)
(* threads of every life, which main() may leave behind.  What a worker    *)
(* does with a packet is "busy" here (EchoServer has it in full).          *)
(*                                                                         *)
(* The three variables the handler and main() share are written without a  *)
(* lock, one at a time and in the order of the source.  The system runs    *)
(* one handler at a time.                                                  *)
(*                                                                         *)
(* A worker keeps the handle of its port as a number.  Once main() has     *)
(* closed the port, the system may give the number to a later one, and a   *)
(* worker that was late for its GetQueuedCompletionStatus waits there.     *)
(*                                                                         *)
(* A worker that reads a freed context main() has left a packet of is      *)
(* "crashed": what happens from there on is undefined, and the model       *)
(* leaves that worker alone.  The list of contexts may dangle, too, after  *)
(* a worker's work on it (CtxtList says when): whoever follows it then,    *)
(* CtxtListFree or a worker, may meet the old contents and go on, or not,  *)
(* and where not, the behaviour ends.                                      *)
(***************************************************************************)
EXTENDS Naturals, FiniteSets

CONSTANTS
  ThreadCount,     \* dwThreadCount, two for each processor
  MaxWorkerThread, \* MAX_WORKER_THREAD, the size of g_ThreadHandles
  Prompt,          \* workers that can run finish within main()'s 1000 ms
  MaxLives,        \* bound on the rounds of the restart loop
  MaxEvents,       \* bound on console control events
  MaxFailures      \* bound on system calls that fail

ASSUME ServerLifecycleAssumption ==
  /\ ThreadCount \in Nat \ {0} /\ MaxWorkerThread \in Nat
  /\ ThreadCount <= MaxWorkerThread \* nothing in the code sees to it
  /\ Prompt \in BOOLEAN
  /\ MaxLives \in Nat \ {0} /\ MaxEvents \in Nat /\ MaxFailures \in Nat

Lives == 1..MaxLives
Slots == 1..ThreadCount

VARIABLES
  bRestart,   \* g_bRestart
  bEnd,       \* g_bEndServer
  event,      \* g_hCleanupEvent is set
  handler,    \* what the control handler is about to do, or "idle"
  events,     \* control events so far
  main,       \* what main() is about to do
  life,       \* rounds of the restart loop so far
  slot,       \* dwCPU of the loop that creates the workers
  hIOCP,      \* g_hIOCP: the life whose port it is, or 0 for NULL
  open,       \* the lives whose port is open
  number,     \* the handle of the port of every life
  quits,      \* quit packets in the port of every life
  handles,    \* g_ThreadHandles: the life of the thread, or 0
  thread,     \* the workers of every life
  listening,  \* g_pCtxtListenSocket is set and AcceptEx was posted
  stale,      \* lives whose port holds packets of contexts main() has freed
  orphaned,   \* a worker has returned from inside g_CriticalSection
  list,       \* the list of contexts: "sound", "dangling", or followed so, "lost"
  failures,   \* calls that have failed
  unjoined,   \* history: main() went on without the workers of a life
  unheeded,   \* history: a control event since the last cleanup began
  early       \* history: ... and its handler ran before the reset of the event

flagVars == <<bRestart, bEnd, event>>
ctrlVars == <<handler, events, unheeded, early>>
portVars == <<hIOCP, open, number, quits, listening, stale, orphaned, list>>
threadVars == <<handles, thread>>
vars == <<flagVars, ctrlVars, main, life, slot, portVars, threadVars, failures, unjoined>>

Init ==
  /\ bRestart = TRUE /\ bEnd = FALSE /\ event = FALSE
  /\ handler = "idle" /\ events = 0 /\ unheeded = FALSE /\ early = FALSE
  /\ main = "test" /\ life = 0 /\ slot = 1
  /\ hIOCP = 0 /\ open = {} /\ listening = FALSE /\ stale = {}
  /\ orphaned = FALSE /\ list = "sound"
  /\ number = [l \in Lives |-> l] /\ quits = [l \in Lives |-> 0]
  /\ handles = [i \in Slots |-> 0]
  /\ thread = [l \in Lives |-> [i \in Slots |-> "none"]]
  /\ failures = 0 /\ unjoined = FALSE

Fails == failures < MaxFailures /\ failures' = failures + 1

-----------------------------------------------------------------------------
(* CtrlHandler.                                                            *)

Intercept(label) ==
  /\ handler = "idle" /\ events < MaxEvents
  /\ handler' = label
  /\ events' = events + 1
  /\ UNCHANGED <<flagVars, unheeded, early, main, life, slot, portVars, threadVars, failures,
                 unjoined>>

\* case CTRL_BREAK_EVENT, which falls through.
SetRestart ==
  /\ handler = "restart"
  /\ handler' = "end"
  /\ bRestart' = TRUE
  /\ UNCHANGED <<bEnd, event, events, unheeded, early, main, life, slot, portVars, threadVars,
                 failures, unjoined>>

\* Fault: nobody wakes main().
SetEndOnly ==
  /\ handler = "end"
  /\ handler' = "idle"
  /\ bEnd' = TRUE
  /\ UNCHANGED <<bRestart, event, events, unheeded, early, main, life, slot, portVars,
                 threadVars, failures, unjoined>>

SetEnd ==
  /\ handler = "end"
  /\ handler' = "event"
  /\ bEnd' = TRUE
  /\ UNCHANGED <<bRestart, event, events, unheeded, early, main, life, slot, portVars,
                 threadVars, failures, unjoined>>

SetEvent ==
  /\ handler = "event"
  /\ handler' = "idle"
  /\ event' = TRUE
  /\ unheeded' = TRUE
  /\ early' = (early \/ main \notin {"port", "threads", "listen", "accept", "wait"})
  /\ UNCHANGED <<bRestart, bEnd, events, main, life, slot, portVars, threadVars, failures,
                 unjoined>>

-----------------------------------------------------------------------------
(* main(): the top of the loop and the __try block.                        *)

\* A step of main() that leaves all else alone.
MainAlone == UNCHANGED <<ctrlVars, life, slot, portVars, threadVars, failures, unjoined>>

TestRestart ==
  /\ main = "test"
  /\ IF bRestart THEN life < MaxLives /\ main' = "clearRestart" /\ life' = life + 1
                 ELSE main' = "exit" /\ UNCHANGED life
  /\ UNCHANGED <<flagVars, ctrlVars, slot, portVars, threadVars, failures, unjoined>>

ClearRestart ==
  /\ main = "clearRestart" /\ main' = "clearEnd" /\ bRestart' = FALSE
  /\ UNCHANGED <<bEnd, event>> /\ MainAlone

ClearEnd ==
  /\ main = "clearEnd" /\ main' = "reset" /\ bEnd' = FALSE
  /\ UNCHANGED <<bRestart, event>> /\ MainAlone

ResetEvent ==
  /\ main = "reset" /\ main' = "port" /\ event' = FALSE
  /\ UNCHANGED <<bRestart, bEnd>> /\ MainAlone

CreatePort ==
  /\ main = "port"
  /\ \/ /\ hIOCP' = life /\ open' = open \cup {life} /\ main' = "threads" /\ UNCHANGED failures
        /\ \E l \in 1..life : /\ \A o \in open : number[o] # number[l]
                              /\ number' = [number EXCEPT ![life] = number[l]]
     \/ Fails /\ hIOCP' = 0 /\ main' = "finally" /\ UNCHANGED <<open, number>>
  /\ slot' = 1
  /\ UNCHANGED <<flagVars, ctrlVars, life, quits, listening, stale, orphaned, list,
                 threadVars, unjoined>>

CreateThread ==
  /\ main = "threads"
  /\ \/ /\ thread' = [thread EXCEPT ![life][slot] = "new"]
        /\ handles' = [handles EXCEPT ![slot] = life]
        /\ IF slot = ThreadCount THEN main' = "listen" /\ UNCHANGED slot
                                 ELSE slot' = slot + 1 /\ UNCHANGED main
        /\ UNCHANGED failures
     \/ Fails /\ main' = "finally" /\ UNCHANGED <<threadVars, slot>>
  /\ UNCHANGED <<flagVars, ctrlVars, life, portVars, unjoined>>

CreateListenSocket ==
  /\ main = "listen"
  /\ \/ main' = "accept" /\ UNCHANGED failures
     \/ Fails /\ main' = "finally"
  /\ UNCHANGED <<flagVars, ctrlVars, life, slot, portVars, threadVars, unjoined>>

\* CreateAcceptSocket(TRUE); UpdateCompletionPort is one of its calls.
CreateAcceptSocket ==
  /\ main = "accept"
  /\ \/ listening' = TRUE /\ main' = "wait" /\ UNCHANGED <<hIOCP, failures>>
     \/ Fails /\ main' = "finally" /\ hIOCP' \in {hIOCP, 0} /\ UNCHANGED listening
     \/ Fails /\ main' = "wait" /\ UNCHANGED <<hIOCP, listening>> \* AcceptEx, unnoticed
  /\ UNCHANGED <<flagVars, ctrlVars, life, slot, open, number, quits, stale, orphaned, list,
                 threadVars, unjoined>>

WaitEvent ==
  /\ main = "wait" /\ event
  /\ main' = "finally"
  /\ UNCHANGED flagVars /\ MainAlone

-----------------------------------------------------------------------------
(* main(): the __finally block.                                            *)

Finally ==
  /\ main = "finally"
  /\ main' = "quits"
  /\ bEnd' = TRUE
  /\ unheeded' = FALSE /\ early' = FALSE
  /\ UNCHANGED <<bRestart, event, handler, events, life, slot, portVars, threadVars, failures,
                 unjoined>>

\* Fault: no quit packet for the last worker.
PostQuitsTooFew ==
  /\ main = "quits"
  /\ main' = "join"
  /\ quits' = IF hIOCP = 0 THEN quits ELSE [quits EXCEPT ![hIOCP] = @ + ThreadCount - 1]
  /\ UNCHANGED <<flagVars, ctrlVars, life, slot, hIOCP, open, number, listening, stale, orphaned,
                 list, threadVars, failures, unjoined>>

PostQuits ==
  /\ main = "quits"
  /\ main' = "join"
  /\ quits' = IF hIOCP = 0 THEN quits ELSE [quits EXCEPT ![hIOCP] = @ + ThreadCount]
  /\ UNCHANGED <<flagVars, ctrlVars, life, slot, hIOCP, open, number, listening, stale, orphaned,
                 list, threadVars, failures, unjoined>>

\* The port a worker of life l finds behind its handle, if any.
Port(l) == {p \in open : number[p] = number[l]}

Valid == \A i \in Slots : handles[i] # 0
Alive(l, i) == thread[l][i] \notin {"none", "exited", "crashed"}
Signalled == \A i \in Slots : ~Alive(handles[i], i)

\* Fault: bWaitAll is FALSE.
JoinAny ==
  /\ main = "join" /\ Valid /\ \E i \in Slots : ~Alive(handles[i], i)
  /\ main' = "sweep"
  /\ handles' = [i \in Slots |-> 0]
  /\ UNCHANGED <<flagVars, ctrlVars, life, slot, portVars, thread, failures, unjoined>>

\* WaitForMultipleObjects returns WAIT_OBJECT_0, and the handles are closed.
Join ==
  /\ main = "join" /\ Valid /\ Signalled
  /\ main' = "sweep"
  /\ handles' = [i \in Slots |-> 0]
  /\ UNCHANGED <<flagVars, ctrlVars, life, slot, portVars, thread, failures, unjoined>>

\* A worker that does not come to its end by itself.
Stuck(l, i) ==
  \/ thread[l][i] \in {"new", "wait"} /\ \E p \in Port(l) : quits[p] = 0
  \/ thread[l][i] = "busy" /\ orphaned

\* Fault: the wait is INFINITE.
JoinForever ==
  /\ main = "join" /\ ~Valid
  /\ main' = "sweep"
  /\ unjoined' = TRUE
  /\ UNCHANGED <<flagVars, ctrlVars, life, slot, portVars, threadVars, failures>>

\* It fails, for want of a handle, or after 1000 ms.
JoinFails ==
  /\ main = "join"
  /\ \/ ~Valid
     \/ Valid /\ ~Signalled
        /\ (Prompt => \E i \in Slots : Stuck(handles[i], i))
  /\ main' = "sweep"
  /\ unjoined' = TRUE
  /\ UNCHANGED <<flagVars, ctrlVars, life, slot, portVars, threadVars, failures>>

\* The listening socket and its context, then CtxtListFree in the section.
\* The operations it aborts leave packets in the port.
Sweep ==
  /\ main = "sweep" /\ ~orphaned
  /\ main' = "close"
  /\ list' \in {"sound", list}
  /\ listening' = FALSE
  /\ stale' \in {stale} \cup IF listening THEN {stale \cup {life}} ELSE {}
  /\ UNCHANGED <<flagVars, ctrlVars, life, slot, hIOCP, open, number, quits, orphaned, threadVars,
                 failures, unjoined>>

\* CtxtListFree, or CtxtListAddTo and CtxtListDeleteFrom of a worker, go by a
\* pointer to a freed context.
FollowDangling ==
  /\ list = "dangling" /\ ~orphaned
  /\ main = "sweep" \/ \E l \in Lives, i \in Slots : thread[l][i] = "busy"
  /\ list' = "lost"
  /\ UNCHANGED <<flagVars, ctrlVars, main, life, slot, hIOCP, open, number, quits, listening, stale,
                 orphaned, threadVars, failures, unjoined>>

ClosePort ==
  /\ main = "close"
  /\ main' = "test"
  /\ open' = open \ {hIOCP}
  /\ hIOCP' = 0
  /\ UNCHANGED <<flagVars, ctrlVars, life, slot, number, quits, listening, stale, orphaned, list,
                 threadVars, failures, unjoined>>

-----------------------------------------------------------------------------
(* WorkerThread.  "new": in its first GetQueuedCompletionStatus, the key   *)
(* still NULL; "wait": in a later one, the key left from the last packet.  *)

WorkerAlone == UNCHANGED <<bRestart, bEnd, ctrlVars, main, life, slot, handles, unjoined>>

Becomes(l, i, state) == thread' = [thread EXCEPT ![l][i] = state]

TakePacket(l, i) ==
  /\ thread[l][i] \in {"new", "wait"} /\ life \in Port(l) /\ listening
  /\ Becomes(l, i, IF bEnd THEN "exited" ELSE "busy")
  /\ WorkerAlone /\ UNCHANGED <<event, portVars, failures>>

\* A packet whose context main() has freed.
TakeStale(l, i) ==
  /\ thread[l][i] \in {"new", "wait"} /\ Port(l) \cap stale # {}
  /\ Becomes(l, i, IF bEnd THEN "exited" ELSE "crashed")
  /\ WorkerAlone /\ UNCHANGED <<event, portVars, failures>>

TakeQuit(l, i) ==
  /\ thread[l][i] \in {"new", "wait"}
  /\ \E p \in Port(l) : quits[p] > 0 /\ quits' = [quits EXCEPT ![p] = @ - 1]
  /\ Becomes(l, i, "exited")
  /\ WorkerAlone
  /\ UNCHANGED <<event, hIOCP, open, number, listening, stale, orphaned, list, failures>>

\* Fault: a failed call is tried again.
PortClosedRetries(l, i) ==
  /\ thread[l][i] \in {"new", "wait"} /\ l \notin open
  /\ Becomes(l, i, thread[l][i])
  /\ WorkerAlone /\ UNCHANGED <<event, portVars, failures>>

\* The port is closed: the call fails, and what the thread does depends on
\* the old key and on g_bEndServer; without an overlapped it cannot go on.
PortClosed(l, i) ==
  /\ thread[l][i] \in {"new", "wait"} /\ l \notin open
  /\ Becomes(l, i, IF thread[l][i] = "new" \/ bEnd THEN "exited" ELSE "crashed")
  /\ WorkerAlone /\ UNCHANGED <<event, portVars, failures>>

\* What a worker adds and closes leaves the list one way or the other.
Relists == list' \in {"sound", "dangling"}

Finish(l, i) ==
  /\ thread[l][i] = "busy" /\ ~orphaned
  /\ Becomes(l, i, "wait")
  /\ Relists
  /\ WorkerAlone
  /\ UNCHANGED <<event, hIOCP, open, number, quits, listening, stale, orphaned, failures>>

\* A call of the accept handler fails: the event is set, the thread returns,
\* possibly without a g_hIOCP, or still inside the section.
GiveUp(l, i) ==
  /\ thread[l][i] = "busy" /\ ~orphaned
  /\ Fails
  /\ Becomes(l, i, "exited")
  /\ event' = TRUE
  /\ \/ UNCHANGED <<hIOCP, orphaned>>
     \/ hIOCP' = 0 /\ UNCHANGED orphaned
     \/ orphaned' = TRUE /\ UNCHANGED hIOCP
  /\ Relists
  /\ WorkerAlone /\ UNCHANGED <<open, number, quits, listening, stale>>

-----------------------------------------------------------------------------
Handler == SetRestart \/ SetEnd \/ SetEvent

MainNext ==
  \/ TestRestart \/ ClearRestart \/ ClearEnd \/ ResetEvent
  \/ CreatePort \/ CreateThread \/ CreateListenSocket \/ CreateAcceptSocket \/ WaitEvent
  \/ Finally \/ PostQuits \/ Join \/ JoinFails \/ Sweep \/ ClosePort

Worker(l, i) ==
  \/ TakePacket(l, i) \/ TakeStale(l, i) \/ TakeQuit(l, i)
  \/ PortClosed(l, i) \/ Finish(l, i) \/ GiveUp(l, i)

\* The process has ended, or who knows.
Over == main = "exit" \/ list = "lost"

Next ==
  /\ ~Over
  /\ \/ \E label \in {"restart", "end"} : Intercept(label)
     \/ Handler
     \/ MainNext
     \/ FollowDangling
     \/ \E l \in Lives, i \in Slots : Worker(l, i)

Spec == Init /\ [][Next]_vars

(***************************************************************************)
(* Threads that can run run.  A worker that keeps getting packets takes    *)
(* the quit packet in its turn, since the port is first in, first out.     *)
(***************************************************************************)
Fairness ==
  /\ WF_vars(~Over /\ Handler) /\ WF_vars(~Over /\ MainNext)
  /\ \A l \in Lives, i \in Slots :
       /\ WF_vars(~Over /\ Port(l) = {} /\ PortClosed(l, i))
       /\ WF_vars(~Over /\ Finish(l, i)) /\ SF_vars(~Over /\ TakeQuit(l, i))

FairSpec == Spec /\ Fairness

-----------------------------------------------------------------------------
(***************************************************************************)
(* A control event takes effect whatever startup step it meets, except     *)
(* when its handler ran between the finally block of one life and the      *)
(* WSAResetEvent of the next; and while main() waits, workers are told to  *)
(* end only if main() is told, too.                                        *)
(***************************************************************************)
OnlyEarlyEventsLost ==
  main = "wait" /\ ~early => /\ unheeded => event
                             /\ bEnd => event \/ handler = "event"

(***************************************************************************)
(* Contexts and the port go, and the next life starts, when every worker   *)
(* has exited, unless WaitForMultipleObjects did not wait for them all.    *)
(***************************************************************************)
WorkersOfThisLife ==
  ~unjoined => \A l \in Lives, i \in Slots :
    /\ thread[l][i] # "crashed"
    /\ Alive(l, i) => /\ l = life
                      /\ main \in {"threads", "listen", "accept", "wait", "finally", "quits",
                                   "join"}

(***************************************************************************)
(* The quit packets are enough: with no call failing and workers that run  *)
(* in time, the wait never ends without every worker.                      *)
(***************************************************************************)
WorkersJoined == unjoined => failures > 0

(***************************************************************************)
(* IocpServerex.cpp:289-290: the handler is there to "Intercept CTRL-C or  *)
(* CTRL-BRK events and cause the server to initiate shutdown".             *)
(***************************************************************************)
CtrlInitiatesShutdown == main = "wait" /\ unheeded => event

(***************************************************************************)
(* A server told to stop gets through its cleanup, unless a worker has     *)
(* returned from inside g_CriticalSection, or the list of contexts led     *)
(* CtxtListFree, or a worker before it, to one that was freed.             *)
(***************************************************************************)
CleanupCompletes == main = "wait" /\ event ~> main = "test" \/ orphaned \/ list = "lost"

(***************************************************************************)
(* A worker left behind by a life ends all the same, unless there is still *)
(* a port behind its handle: its own, when g_hIOCP was lost and main()     *)
(* could not close it, or one of a later life.                             *)
(***************************************************************************)
WorkersEnd ==
  \A l \in Lives, i \in Slots :
    l < life /\ Alive(l, i) ~> ~Alive(l, i) \/ Port(l) # {} \/ orphaned \/ Over

=============================================================================
