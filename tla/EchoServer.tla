----------------------------- MODULE EchoServer -----------------------------
(***************************************************************************)
(* One life of the echo server of IocpServerex.cpp, from the first         *)
(* AcceptEx to the end of the cleanup: the worker threads around the       *)
(* completion port, the contexts and their single overlapped operation,    *)
(* the list of contexts (CtxtList), the console control handler, and       *)
(* main()'s shutdown.  Clients, TCP and the port itself are the            *)
(* environment.                                                            *)
(*                                                                         *)
(* A key is a client context or the context of the listening socket. Its   *)
(* overlapped operation is posted ("pending"), its packet waits in the     *)
(* port ("done"), a worker has the packet in hand ("held"), or there is    *)
(* none ("refused" when AcceptEx failed unnoticed). Packets are taken from *)
(* the port in any order, which includes the order of the real one.        *)
(*                                                                         *)
(* A block of data is a sequence of 16-bit units, the grain of the copy    *)
(* the accept handler makes.  An access to a freed context ends the        *)
(* process, or meets its old contents (see CtxtList).  CtxtAllocate's      *)
(* inner failure is no action here: the handler goes on to a null          *)
(* pIOContext at once, and the behaviour ends.  It also ends, for a worker *)
(* main() has not waited for, where that worker would close a context that *)
(* main() has freed under it (Reaches).                                    *)
(***************************************************************************)
EXTENDS Integers, Sequences, FiniteSets

CONSTANTS
  Workers,        \* the worker threads
  Main,           \* the thread of main()
  Ctx,            \* addresses of client contexts
  Listen,         \* the context of the listening socket
  Clients,        \* connections clients make; also names their sockets
  Stream,         \* what every client would send, in units
  NUL,            \* the 16-bit unit 0
  NULL,           \* the null pointer, INVALID_SOCKET, and "no owner"
  MaxBlock,       \* units that fit a Buffer
  Verbose,        \* g_bVerbose
  Prompt,         \* workers able to run finish within the 1000 ms of main()
  MaxFailures,    \* bound on xmalloc calls that fail
  MaxApiFailures  \* bound on socket and port calls that fail for no cause here

\* What buffers are made of.
Units == {NUL} \cup UNION {{Stream[k][i] : i \in 1..Len(Stream[k])} : k \in Clients}

ASSUME EchoServerAssumption ==
  /\ Main \notin Workers /\ NULL \notin Workers \cup {Main}
  /\ Listen \notin Ctx \cup {NULL}
  /\ NULL \notin Ctx \cup Clients
  /\ MaxBlock \in Nat \ {0}
  /\ Verbose \in BOOLEAN /\ Prompt \in BOOLEAN
  /\ MaxFailures \in Nat /\ MaxApiFailures \in Nat
  /\ Stream \in [Clients -> Seq(Units)]

Keys == Ctx \cup {Listen}

VARIABLES
  \* the heap, the list and the section: see CtxtList
  alive, back, fwd, head, cs, fresh, phase, cursor, failures, order, fault, tainted,
  io,          \* the overlapped operation of every key
  res,         \* the packet of a key that is done or held: success, units
  sock,        \* Socket of a context; SocketAccept of Listen
  ctx,         \* IOOperation, nTotalBytes, nSentBytes and Buffer of a key
  pc,          \* what every worker is about to do
  cur,         \* lpPerSocketContext of every worker
  acc,         \* lpAcceptSocketContext of every worker
  backlog,     \* connections AcceptEx has not returned, oldest first
  taken,       \* units of every client's stream delivered to the server
  rcvd,        \* units every client has got back
  peer,        \* clients: not yet connected, "open", or they have reset
  bEnd,        \* g_bEndServer
  event,       \* g_hCleanupEvent is set
  ctrl,        \* how far the control handler has got
  quits,       \* quit packets in the port
  port,        \* g_hIOCP is not NULL
  main,        \* what main() is about to do
  timedOut,    \* main() went on before every worker had exited
  apiFailures  \* calls counted against MaxApiFailures

listVars == <<alive, back, fwd, head, cs, fresh, phase, cursor, failures,
              order, fault, tainted>>
workVars == <<pc, cur, acc>>
ioVars == <<io, res, sock, ctx>>
netVars == <<backlog, taken, rcvd, peer>>
endVars == <<bEnd, event, ctrl, quits, port, main, timedOut>>
vars == <<listVars, workVars, ioVars, netVars, endVars, apiFailures>>

L == INSTANCE CtxtList WITH Threads <- Workers \cup {Main}

Zeroed == [op |-> "Accept", total |-> 0, sent |-> 0, buf |-> <<>>]
NoResult == [ok |-> TRUE, n |-> 0]

\* The server after CreateAcceptSocket(TRUE): AcceptEx is outstanding.
Init ==
  /\ L!Init
  /\ io = [k \in Keys |-> IF k = Listen THEN "pending" ELSE "none"]
  /\ res = [k \in Keys |-> NoResult]
  /\ sock = [k \in Keys |-> NULL]
  /\ ctx = [k \in Keys |-> Zeroed]
  /\ pc = [w \in Workers |-> "wait"]
  /\ cur = [w \in Workers |-> NULL]
  /\ acc = [w \in Workers |-> NULL]
  /\ backlog = <<>>
  /\ taken = [k \in Clients |-> 0]
  /\ rcvd = [k \in Clients |-> <<>>]
  /\ peer = [k \in Clients |-> "new"]
  /\ bEnd = FALSE
  /\ event = FALSE
  /\ ctrl = "idle"
  /\ quits = 0
  /\ port = TRUE
  /\ main = "serve"
  /\ timedOut = FALSE
  /\ apiFailures = 0

-----------------------------------------------------------------------------
(* Clients and TCP.                                                        *)

reset == {k \in Clients : peer[k] = "reset"}

Connected(k) ==
  \/ \E i \in 1..Len(backlog) : backlog[i] = k
  \/ \E c \in Keys : sock[c] = k

Connect(k) ==
  /\ peer[k] = "new"
  /\ main \in {"serve", "join"} /\ Len(backlog) < 5
  /\ peer' = [peer EXCEPT ![k] = "open"]
  /\ backlog' = Append(backlog, k)
  /\ UNCHANGED <<listVars, workVars, ioVars, taken, rcvd, endVars, apiFailures>>

Reset(k) ==
  /\ peer[k] = "open" /\ Connected(k)
  /\ peer' = [peer EXCEPT ![k] = "reset"]
  /\ UNCHANGED <<listVars, workVars, ioVars, backlog, taken, rcvd, endVars, apiFailures>>

Complete(key, ok, n) ==
  /\ io' = [io EXCEPT ![key] = "done"]
  /\ res' = [res EXCEPT ![key] = [ok |-> ok, n |-> n]]

\* The next n units of k's stream arrive in a buffer; none at the end of the
\* stream, which may come early.
Deliver(key, k, n) ==
  /\ taken' = [taken EXCEPT ![k] = @ + n]
  /\ ctx' = [ctx EXCEPT ![key].buf = SubSeq(Stream[k], taken[k] + 1, taken[k] + n)]

Deliverable(k) == {n \in 0..MaxBlock : taken[k] + n <= Len(Stream[k])}

\* AcceptEx takes the oldest connection and returns with its first block.
AcceptCompletes ==
  /\ io[Listen] = "pending" /\ backlog # <<>>
  /\ LET k == Head(backlog) IN
       /\ \/ \E n \in Deliverable(k) : Complete(Listen, TRUE, n) /\ Deliver(Listen, k, n)
          \/ k \in reset /\ Complete(Listen, FALSE, 0) /\ UNCHANGED <<taken, ctx>>
       /\ sock' = [sock EXCEPT ![Listen] = k]
  /\ backlog' = Tail(backlog)
  /\ UNCHANGED <<listVars, workVars, rcvd, peer, endVars, apiFailures>>

RecvCompletes(c) ==
  /\ io[c] = "pending" /\ ctx[c].op = "Read" /\ sock[c] # NULL
  /\ \/ /\ sock[c] \notin reset
        /\ \E n \in Deliverable(sock[c]) : Complete(c, TRUE, n) /\ Deliver(c, sock[c], n)
     \/ sock[c] \in reset /\ Complete(c, FALSE, 0) /\ UNCHANGED <<taken, ctx>>
  /\ UNCHANGED <<listVars, workVars, sock, backlog, rcvd, peer, endVars, apiFailures>>

\* A send may complete with less than it was given.
SendCompletes(c) ==
  /\ io[c] = "pending" /\ ctx[c].op = "Write" /\ sock[c] # NULL
  /\ \/ /\ sock[c] \notin reset
        /\ \E n \in 1..(ctx[c].total - ctx[c].sent) :
             /\ Complete(c, TRUE, n)
             /\ rcvd' = [rcvd EXCEPT ![sock[c]] =
                           @ \o SubSeq(ctx[c].buf, ctx[c].sent + 1, ctx[c].sent + n)]
     \/ sock[c] \in reset /\ Complete(c, FALSE, 0) /\ UNCHANGED rcvd
  /\ UNCHANGED <<listVars, workVars, sock, ctx, backlog, taken, peer, endVars, apiFailures>>

\* The operation on a socket that is closed fails.
Aborts(key) ==
  /\ io[key] = "pending"
  /\ IF key = Listen THEN main = "drain" ELSE sock[key] = NULL
  /\ Complete(key, FALSE, 0)
  /\ UNCHANGED <<listVars, workVars, sock, ctx, netVars, endVars, apiFailures>>

-----------------------------------------------------------------------------
(* WorkerThread.                                                           *)

\* A call that may fail for reasons of its own does.
ApiFails == apiFailures < MaxApiFailures /\ apiFailures' = apiFailures + 1

Goto(w, label) == pc' = [pc EXCEPT ![w] = label]

\* Back to GetQueuedCompletionStatus; the pointers are not read again.
Loop(w) ==
  /\ Goto(w, "wait")
  /\ cur' = [cur EXCEPT ![w] = NULL]
  /\ acc' = [acc EXCEPT ![w] = NULL]

\* WSASetEvent and return(0).
GiveUp(w) ==
  /\ event' = TRUE
  /\ Goto(w, "exited")
  /\ UNCHANGED <<bEnd, ctrl, quits, main, timedOut>>

\* main() has closed the port; a g_hIOCP of NULL it cannot close.
Closed == main = "done" /\ port

\* GetQueuedCompletionStatus returns a packet ...
Dequeue(w, key) ==
  /\ pc[w] = "wait" /\ io[key] = "done" /\ ~Closed
  /\ io' = [io EXCEPT ![key] = "held"]
  /\ cur' = [cur EXCEPT ![w] = key]
  /\ Goto(w, "check")
  /\ UNCHANGED <<listVars, res, sock, ctx, acc, netVars, endVars, apiFailures>>

\* ... or one that main() posted, with a null key.
DequeueQuit(w) ==
  /\ pc[w] = "wait" /\ quits > 0 /\ ~Closed
  /\ quits' = quits - 1
  /\ Goto(w, "exited")
  /\ UNCHANGED <<listVars, cur, acc, ioVars, netVars, bEnd, event, ctrl, port, main,
                 timedOut, apiFailures>>

\* ... or fails, leaving lpPerSocketContext as it was, once the port is closed.
PortGone(w) ==
  /\ pc[w] = "wait" /\ Closed
  /\ Goto(w, "exited")
  /\ UNCHANGED <<listVars, cur, acc, ioVars, netVars, endVars, apiFailures>>

\* The tests before the switch, and the switch.
Check(w) ==
  /\ pc[w] = "check"
  /\ LET k == cur[w] IN
       IF bEnd
       THEN Goto(w, "exited") /\ io' = [io EXCEPT ![k] = "none"]
       ELSE /\ Goto(w, IF k = Listen THEN "accept"
                       ELSE IF ~res[k].ok \/ res[k].n = 0 THEN "close"
                       ELSE ctx[k].op)
            /\ UNCHANGED io
  /\ UNCHANGED <<listVars, cur, acc, res, sock, ctx, netVars, endVars, apiFailures>>

\* Fault: WSA_IO_PENDING is taken for a failure.
PostPendingIsError(w, c, s, posted, refused) ==
  /\ s # NULL
  /\ io' = [io EXCEPT ![c] = "pending"]
  /\ res' = [res EXCEPT ![c] = NoResult]
  /\ Goto(w, refused)
  /\ UNCHANGED <<cur, acc, apiFailures>>

\* WSASend or WSARecv on c's socket: posted, or refused, as it is on a socket
\* that was closed or reset, and then the context is closed.
Post(w, c, s, posted, refused) ==
  \/ /\ s # NULL
     /\ io' = [io EXCEPT ![c] = "pending"]
     /\ res' = [res EXCEPT ![c] = NoResult]
     /\ IF posted = "wait" THEN Loop(w) ELSE Goto(w, posted) /\ UNCHANGED <<cur, acc>>
     /\ UNCHANGED apiFailures
  \/ /\ \/ (s = NULL \/ s \in reset) /\ UNCHANGED apiFailures
        \/ ApiFails
     /\ Goto(w, refused)
     /\ UNCHANGED <<io, res, cur, acc>>

AfterPost == IF Verbose THEN "log" ELSE "wait"

\* Fault: the block that was read is not sent.
ReadDoneDropped(w) ==
  /\ pc[w] = "Read"
  /\ Loop(w)
  /\ UNCHANGED <<listVars, ioVars, netVars, endVars, apiFailures>>

\* case ClientIoRead: send back what was read.
ReadDone(w) ==
  LET c == cur[w] IN
  /\ pc[w] = "Read"
  /\ ctx' = [ctx EXCEPT ![c].op = "Write", ![c].total = res[c].n, ![c].sent = 0]
  /\ Post(w, c, sock[c], AfterPost, "close")
  /\ UNCHANGED <<listVars, sock, netVars, endVars>>

\* Fault: nSentBytes is set, not added to.
WriteDoneRestarts(w) ==
  LET c == cur[w] IN
  /\ pc[w] = "Write"
  /\ ctx' = [ctx EXCEPT ![c].sent = res[c].n,
                        ![c].op = IF res[c].n < ctx[c].total THEN "Write" ELSE "Read"]
  /\ Post(w, c, sock[c], AfterPost, "close")
  /\ UNCHANGED <<listVars, sock, netVars, endVars>>

\* case ClientIoWrite: send the rest, or read again.
WriteDone(w) ==
  LET c == cur[w]
      sent == ctx[c].sent + res[c].n
  IN  /\ pc[w] = "Write"
      /\ ctx' = [ctx EXCEPT ![c].sent = sent,
                            ![c].op = IF sent < ctx[c].total THEN "Write" ELSE "Read"]
      /\ Post(w, c, sock[c], AfterPost, "close")
      /\ UNCHANGED <<listVars, sock, netVars, endVars>>

\* The messages behind g_bVerbose read lpPerSocketContext->Socket, when the
\* operation posted may have been completed, and closed, by another worker:
\* w uses a context it no longer owns.
Log(w) ==
  /\ pc[w] = "log"
  /\ Loop(w)
  /\ UNCHANGED <<listVars, ioVars, netVars, endVars, apiFailures>>

\* Whether c is still there to be closed: without it, the behaviour ends.
Reaches(c) == timedOut => c \in L!Listed

\* CloseClient.
Close(w) ==
  /\ pc[w] = "close"
  /\ L!CanEnter(w) /\ Reaches(cur[w])
  /\ L!Delete(cur[w])
  /\ sock' = [sock EXCEPT ![cur[w]] = NULL]
  /\ io' = [io EXCEPT ![cur[w]] = "none"]
  /\ Loop(w)
  /\ UNCHANGED <<res, ctx, netVars, endVars, apiFailures>>

-----------------------------------------------------------------------------
(* WorkerThread, case ClientIoAccept.                                      *)

Listening == main \in {"serve", "join"}

\* setsockopt(SO_UPDATE_ACCEPT_CONTEXT) fails on a connection that was reset,
\* and once main() has closed the listening socket.
AcceptUpdate(w) ==
  /\ pc[w] = "accept"
  /\ \/ Listening /\ Goto(w, "allocate") /\ UNCHANGED <<io, endVars>>
     \/ /\ sock[Listen] \in reset \/ ~Listening
        /\ GiveUp(w)
        /\ io' = [io EXCEPT ![Listen] = "none"]
        /\ UNCHANGED port
  /\ UNCHANGED <<listVars, cur, acc, res, sock, ctx, netVars, apiFailures>>

\* UpdateCompletionPort: CtxtAllocate.
AcceptAllocate(w, c) ==
  /\ pc[w] = "allocate"
  /\ L!Allocate(w, c)
  /\ acc' = [acc EXCEPT ![w] = c]
  /\ sock' = [sock EXCEPT ![c] = sock[Listen]]
  /\ ctx' = [ctx EXCEPT ![c] = Zeroed]
  /\ io' = [io EXCEPT ![c] = "held"]
  /\ res' = [res EXCEPT ![c] = NoResult]
  /\ Goto(w, "associate")
  /\ UNCHANGED <<cur, netVars, endVars, apiFailures>>

AcceptAllocateFails(w) ==
  /\ pc[w] = "allocate"
  /\ L!AllocateOuterFails(w)
  /\ GiveUp(w)
  /\ io' = [io EXCEPT ![Listen] = "none"]
  /\ UNCHANGED <<cur, acc, res, sock, ctx, netVars, port, apiFailures>>

\* UpdateCompletionPort: CreateIoCompletionPort and CtxtListAddTo.
AcceptAssociate(w) ==
  /\ pc[w] = "associate"
  /\ L!CanEnter(w)
  /\ L!Add(acc[w])
  /\ Goto(w, "post")
  /\ UNCHANGED <<cur, acc, ioVars, netVars, endVars, apiFailures>>

\* ... whose result, NULL, replaces g_hIOCP.
AcceptAssociateFails(w) ==
  /\ pc[w] = "associate"
  /\ ApiFails
  /\ L!Free(acc[w])
  /\ port' = FALSE
  /\ GiveUp(w)
  /\ sock' = [sock EXCEPT ![acc[w]] = NULL]
  /\ io' = [io EXCEPT ![Listen] = "none", ![acc[w]] = "none"]
  /\ UNCHANGED <<cur, acc, res, ctx, netVars>>

\* StringCbCopyN stops at the first 16-bit zero of the block, and the buffer
\* it copies to was zeroed.
StringCopy(b) ==
  [i \in 1..Len(b) |-> IF \E j \in 1..i : b[j] = NUL THEN NUL ELSE b[i]]

\* Echo the first block, or wait for one.
AcceptPost(w) ==
  LET c == acc[w]
      n == res[Listen].n
  IN  /\ pc[w] = "post"
      /\ ctx' = [ctx EXCEPT ![c] =
                   IF n > 0
                   THEN [op |-> "Write", total |-> n, sent |-> 0,
                         buf |-> StringCopy(ctx[Listen].buf)]
                   ELSE [@ EXCEPT !.op = "Read"]]
      /\ Post(w, c, sock[c], "rearm", "acceptclose")
      /\ UNCHANGED <<listVars, sock, netVars, endVars>>

\* Fault: the loop goes round without another AcceptEx.
AcceptCloseContinues(w) ==
  /\ pc[w] = "acceptclose"
  /\ L!CanEnter(w) /\ Reaches(acc[w])
  /\ L!Delete(acc[w])
  /\ sock' = [sock EXCEPT ![acc[w]] = NULL]
  /\ io' = [io EXCEPT ![acc[w]] = "none"]
  /\ Loop(w)
  /\ UNCHANGED <<res, ctx, netVars, endVars, apiFailures>>

\* WSASend or WSARecv was refused.
AcceptClose(w) ==
  /\ pc[w] = "acceptclose"
  /\ L!CanEnter(w) /\ Reaches(acc[w])
  /\ L!Delete(acc[w])
  /\ sock' = [sock EXCEPT ![acc[w]] = NULL]
  /\ io' = [io EXCEPT ![acc[w]] = "none"]
  /\ Goto(w, "rearm")
  /\ UNCHANGED <<cur, acc, res, ctx, netVars, endVars, apiFailures>>

\* CreateAcceptSocket(FALSE): a new socket, and AcceptEx.
Rearm(w) ==
  /\ pc[w] = "rearm"
  /\ Listening
  /\ io' = [io EXCEPT ![Listen] = "pending"]
  /\ res' = [res EXCEPT ![Listen] = NoResult]
  /\ sock' = [sock EXCEPT ![Listen] = NULL]
  /\ ctx' = [ctx EXCEPT ![Listen] = Zeroed]
  /\ Loop(w)
  /\ UNCHANGED <<listVars, netVars, endVars, apiFailures>>

\* AcceptEx fails.  It returns FALSE and not SOCKET_ERROR, so that nobody sees.
RearmRefused(w) ==
  /\ pc[w] = "rearm"
  /\ \/ Listening /\ ApiFails
     \/ main = "drain" /\ UNCHANGED apiFailures
  /\ io' = [io EXCEPT ![Listen] = "refused"]
  /\ sock' = [sock EXCEPT ![Listen] = NULL]
  /\ Loop(w)
  /\ UNCHANGED <<listVars, res, ctx, netVars, endVars>>

\* There is no new socket.
RearmFails(w) ==
  /\ pc[w] = "rearm"
  /\ main \in {"serve", "join", "drain"}
  /\ ApiFails
  /\ GiveUp(w)
  /\ io' = [io EXCEPT ![Listen] = "none"]
  /\ sock' = [sock EXCEPT ![Listen] = NULL]
  /\ UNCHANGED <<listVars, cur, acc, res, ctx, netVars, port>>

-----------------------------------------------------------------------------
(* CtrlHandler, on a thread of its own.                                    *)

CtrlEnd ==
  /\ ctrl = "idle"
  /\ ctrl' = "set"
  /\ bEnd' = TRUE
  /\ UNCHANGED <<listVars, workVars, ioVars, netVars, event, quits, port, main, timedOut,
                 apiFailures>>

CtrlEvent ==
  /\ ctrl = "set"
  /\ ctrl' = "returned"
  /\ event' = TRUE
  /\ UNCHANGED <<listVars, workVars, ioVars, netVars, bEnd, quits, port, main, timedOut,
                 apiFailures>>

-----------------------------------------------------------------------------
(* main(), from WSAWaitForMultipleEvents through the finally block.        *)

Exited == {w \in Workers : pc[w] = "exited"}

\* A worker that cannot go on by itself.
Blocked(w) ==
  \/ pc[w] = "wait" /\ quits = 0 /\ \A k \in Keys : io[k] # "done"
  \/ pc[w] \in {"allocate", "associate", "close", "acceptclose"} /\ ~L!CanEnter(w)

\* The event wakes main(), which posts a quit packet for every worker.
MainWakes ==
  /\ main = "serve" /\ event
  /\ main' = "join"
  /\ bEnd' = TRUE
  /\ quits' = IF port THEN Cardinality(Workers) ELSE 0
  /\ UNCHANGED <<listVars, workVars, ioVars, netVars, event, ctrl, port, timedOut, apiFailures>>

\* Fault: the wait is for any worker, not for all.
MainJoinsAny ==
  /\ main = "join" /\ Exited # {}
  /\ main' = "drain"
  /\ UNCHANGED <<listVars, workVars, ioVars, netVars, bEnd, event, ctrl, quits, port,
                 timedOut, apiFailures>>

\* WaitForMultipleObjects returns, and the listening socket is closed.
MainJoins ==
  /\ main = "join" /\ Exited = Workers
  /\ main' = "drain"
  /\ UNCHANGED <<listVars, workVars, ioVars, netVars, bEnd, event, ctrl, quits, port,
                 timedOut, apiFailures>>

\* The same after 1000 ms.
MainTimesOut ==
  /\ main = "join" /\ Exited # Workers
  /\ Prompt => \A w \in Workers \ Exited : Blocked(w)
  /\ main' = "drain"
  /\ timedOut' = TRUE
  /\ UNCHANGED <<listVars, workVars, ioVars, netVars, bEnd, event, ctrl, quits, port, apiFailures>>

\* Once AcceptEx has completed, free the listening context and go for the list.
MainSweeps ==
  /\ main = "drain" /\ io[Listen] # "pending"
  /\ L!SweepBegin
  /\ main' = "sweep"
  /\ sock' = [sock EXCEPT ![Listen] = NULL]
  /\ UNCHANGED <<workVars, io, res, ctx, netVars, bEnd, event, ctrl, quits, port, timedOut,
                 apiFailures>>

\* Faults: the socket is closed only after the wait for its operation; there
\* is no wait.
SweepClosesLate ==
  /\ main = "sweep" /\ cursor # NULL
  /\ sock[cursor] # NULL /\ io[cursor] # "pending"
  /\ sock' = [sock EXCEPT ![cursor] = NULL]
  /\ UNCHANGED <<listVars, workVars, io, res, ctx, netVars, endVars, apiFailures>>

SweepFreesAtOnce ==
  /\ main = "sweep" /\ cursor # NULL
  /\ sock[cursor] = NULL
  /\ L!SweepStep
  /\ UNCHANGED <<workVars, ioVars, netVars, endVars, apiFailures>>

\* CloseClient closes the socket, which makes a pending operation fail ...
SweepCloses ==
  /\ main = "sweep" /\ cursor # NULL
  /\ sock[cursor] # NULL
  /\ sock' = [sock EXCEPT ![cursor] = NULL]
  /\ UNCHANGED <<listVars, workVars, io, res, ctx, netVars, endVars, apiFailures>>

\* ... and CtxtListDeleteFrom waits for that before it frees.
SweepFrees ==
  /\ main = "sweep" /\ cursor # NULL
  /\ sock[cursor] = NULL /\ io[cursor] # "pending"
  /\ L!SweepStep
  /\ UNCHANGED <<workVars, ioVars, netVars, endVars, apiFailures>>

MainDone ==
  /\ main = "sweep"
  /\ L!SweepEnd
  /\ main' = "done"
  /\ UNCHANGED <<workVars, ioVars, netVars, bEnd, event, ctrl, quits, port, timedOut, apiFailures>>

-----------------------------------------------------------------------------
Accepting(w) ==
  \/ AcceptUpdate(w)
  \/ \E c \in Ctx : AcceptAllocate(w, c)
  \/ AcceptAllocateFails(w)
  \/ AcceptAssociate(w)
  \/ AcceptAssociateFails(w)
  \/ AcceptPost(w)
  \/ AcceptClose(w)
  \/ Rearm(w)
  \/ RearmRefused(w)
  \/ RearmFails(w)

\* What a worker does with the packet it has in hand.
Works(w) == Check(w) \/ ReadDone(w) \/ WriteDone(w) \/ Log(w) \/ Close(w) \/ Accepting(w)

Network ==
  \/ \E k \in Clients : Connect(k) \/ Reset(k)
  \/ AcceptCompletes
  \/ \E c \in Ctx : RecvCompletes(c) \/ SendCompletes(c)
  \/ \E key \in Keys : Aborts(key)

MainNext == MainWakes \/ MainJoins \/ MainTimesOut \/ MainSweeps \/ SweepCloses
              \/ SweepFrees \/ MainDone

Next ==
  \/ Network
  \/ \E w \in Workers : DequeueQuit(w) \/ PortGone(w) \/ Works(w) \/ \E key \in Keys : Dequeue(w, key)
  \/ CtrlEnd \/ CtrlEvent
  \/ MainNext

Spec == Init /\ [][Next]_vars

(***************************************************************************)
(* A thread that can run runs, and the kernel completes what it can.  The  *)
(* port hands its packets out first in, first out, so a packet does not    *)
(* wait for ever while workers keep coming back.  A client is only assumed *)
(* to go on reading: it may connect, send, close or reset, or not.         *)
(***************************************************************************)
Fairness ==
  /\ \A w \in Workers : WF_vars(Works(w)) /\ SF_vars(DequeueQuit(w)) /\ WF_vars(PortGone(w))
  /\ \A key \in Keys : SF_vars(\E w \in Workers : Dequeue(w, key)) /\ WF_vars(Aborts(key))
  /\ \A c \in Ctx : WF_vars(SendCompletes(c))
  /\ WF_vars(MainNext) /\ WF_vars(CtrlEvent)

FairSpec == Spec /\ Fairness

-----------------------------------------------------------------------------
\* The contexts that are a worker's ...
Owns(w) ==
  CASE pc[w] \in {"check", "Read", "Write", "close"} -> {cur[w]}
    [] pc[w] \in {"accept", "allocate", "rearm"}     -> {Listen}
    [] pc[w] \in {"associate", "post", "acceptclose"} -> {Listen, acc[w]}
    [] OTHER -> {}

\* ... and those it may still access.
Uses(w) == Owns(w) \cup (IF pc[w] = "log" THEN {cur[w]} ELSE {})

(***************************************************************************)
(* A context has one overlapped operation and one owner: it is posted, or  *)
(* its packet is in the port, or exactly one worker works on it.  Two      *)
(* workers never use a Buffer or a list node at once although no lock      *)
(* covers them.  Once main() has stopped waiting for the workers, a freed  *)
(* address may be handed out again under one that still uses it.           *)
(***************************************************************************)
OneOwner ==
  ~timedOut =>
    /\ \A w \in Workers : \A k \in Owns(w) : io[k] = "held"
    /\ \A v, w \in Workers : v # w => Owns(v) \cap Owns(w) = {}

(***************************************************************************)
(* As long as main() did not give up waiting for the workers, none of them *)
(* touches a context that CloseClient or main() has freed, save in the     *)
(* message of a server started with g_bVerbose (lines 741-744, 773-776 and *)
(* 797-800), which names the socket of a context another worker may have   *)
(* closed since; and at the end of the cleanup every context is freed and  *)
(* every socket closed, those of workers that failed half-way included,    *)
(* unless CtxtListDeleteFrom has misjudged the place of one, which         *)
(* CtxtListFree then may not find.                                         *)
(***************************************************************************)
AllocatedWhileUsed ==
  ~timedOut =>
    /\ \A w \in Workers :
         /\ Uses(w) \ {Listen} \subseteq alive \/ (Verbose /\ pc[w] = "log")
         /\ Uses(w) # {} => main \in {"serve", "join"}
    /\ main = "done" /\ ~tainted => alive = {} /\ \A k \in Keys : sock[k] = NULL

(***************************************************************************)
(* IocpServerex.cpp:1060-1064: an overlapped structure is freed only when  *)
(* its operation has completed, by a worker or by main(), on time or not.  *)
(***************************************************************************)
FreesOnlyCompleted ==
  [][\A c \in alive \ alive' : io[c] # "pending" /\ sock'[c] = NULL]_vars

(***************************************************************************)
(* The server can take the next connection at any time before the cleanup  *)
(* was set off: AcceptEx is outstanding, or a worker will post it again,   *)
(* unless AcceptEx itself has failed, which the code does not notice.      *)
(***************************************************************************)
AcceptChain ==
  ~event => \/ bEnd
            \/ io[Listen] \in {"pending", "done", "refused"}
            \/ \E w \in Workers : Listen \in Owns(w)

(***************************************************************************)
(* Whatever the sizes receives and sends complete with: a client gets back *)
(* its stream in order, nothing twice and nothing left out, save that the  *)
(* units after a 16-bit zero in a first block may come back as zero.       *)
(***************************************************************************)
EchoInOrder ==
  \A k \in Clients :
    /\ Len(rcvd[k]) <= taken[k]
    /\ \A i \in 1..Len(rcvd[k]) :
         \/ rcvd[k][i] = Stream[k][i]
         \/ rcvd[k][i] = NUL /\ \E j \in 1..i : Stream[k][j] = NUL

(***************************************************************************)
(* The server performs only steps of CtxtList on the list.  Nothing in     *)
(* CtxtListAddTo, CtxtListDeleteFrom or xfree looks at what they are       *)
(* called for: it is by the order of packets, posts and failures that a    *)
(* worker adds or frees only what it has allocated, and closes only what   *)
(* is listed, and once; when main() has not waited for it, see Reaches.    *)
(***************************************************************************)
UsesCtxtList == L!Spec

(***************************************************************************)
(* IocpServerex.cpp:723-724: what was read is "echo[ed] back to the        *)
(* client".                                                                *)
(***************************************************************************)
EchoIdentity == \A k \in Clients : rcvd[k] = SubSeq(Stream[k], 1, Len(rcvd[k]))

(***************************************************************************)
(* IocpServerex.cpp:595-597: "We should never skip the loop and not post   *)
(* another AcceptEx if the current completion packet is for previous       *)
(* AcceptEx".  Short of a failing call, only the operator ends the server. *)
(***************************************************************************)
OnlyOperatorStops == event => ctrl # "idle" \/ failures + apiFailures > 0

(***************************************************************************)
(* What the server has taken from a client that stays it gives back,       *)
(* unless it closes the connection when a call fails on it.                *)
(***************************************************************************)
EchoCompletes ==
  \A k \in Clients : \A n \in 1..Len(Stream[k]) :
    taken[k] >= n ~> \/ Len(rcvd[k]) >= n
                     \/ peer[k] = "reset" \/ bEnd
                     \/ apiFailures > 0 /\ ~Connected(k)

(***************************************************************************)
(* Once asked to, the server cleans up and is done, unless the list led    *)
(* it to a freed context, or a failed xmalloc left the section taken.      *)
(***************************************************************************)
ShutdownCompletes == event ~> main = "done" \/ fault \/ failures > 0

=============================================================================
