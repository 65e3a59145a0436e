------------------------------ MODULE IocpDemo ------------------------------
(***************************************************************************)
(* The server of test_iocp.cpp: main posts START_POST_ACCEPTEX AcceptEx    *)
(* calls, THREAD_COUNT workers take completions from a port, and one       *)
(* record (OverlappedPerIo) goes with a connection through AcceptEx,       *)
(* WSARecv and WSASend.  Nobody has a list of the records: a record is in  *)
(* the kernel, in the port, with a thread, or lost with its socket.        *)
(*                                                                         *)
(* A completion has an outcome: "ok" with bytes, "zero" bytes, "reset"     *)
(* (ERROR_NETNAME_DELETED), or "error" (anything else).  A send of 22      *)
(* bytes never completes with zero of them.  operator new does not return  *)
(* null, so that lines 12-15 do nothing.  Records are interchangeable: a   *)
(* new one gets the least free number.                                     *)
(***************************************************************************)
EXTENDS Naturals, FiniteSets

CONSTANTS
  Workers,       \* THREAD_COUNT threads
  StartAccepts,  \* START_POST_ACCEPTEX
  MaxClients,    \* bound on clients that connect
  MaxFailures,   \* bound on calls and operations that fail
  None           \* no record, no thread

ASSUME IocpDemoAssumption ==
  /\ IsFiniteSet(Workers) /\ None \notin Nat
  /\ StartAccepts \in Nat /\ MaxClients \in Nat /\ MaxFailures \in Nat

Records == 1..StartAccepts + MaxClients

VARIABLES
  main,      \* what main is about to do
  posts,     \* calls of PostAcceptEx main has still to make
  listening, \* listenSocket is open
  port,      \* completionPort is open
  record,    \* where every record is
  type,      \* its type
  outcome,   \* the outcome of its operation, once it is queued
  sender,    \* the thread whose stack holds the bytes of a send
  doing,     \* what a worker is about to do
  overlp,    \* the record a worker has
  clients,   \* clients that have connected
  resets,    \* clients that connected and reset before they were accepted
  failures   \* calls and operations that have failed

serverVars == <<main, posts, listening, port>>
recordVars == <<record, type, outcome, sender>>
workerVars == <<doing, overlp>>
demoVars == <<serverVars, recordVars, workerVars, clients, resets, failures>>

InKernel == {"accepting", "receiving", "sending"}

-----------------------------------------------------------------------------
(* initServer() returns 0 also after WSASocket or CreateIoCompletionPort     *)
(* failed (line 178 compares), and main goes on without a server.            *)
DemoInit ==
  /\ main = "post" /\ posts = StartAccepts
  /\ \/ listening = TRUE /\ port = TRUE /\ failures = 0
     \/ listening = FALSE /\ port = FALSE /\ failures = 1 /\ MaxFailures > 0
  /\ record = [r \in Records |-> "free"] /\ type = [r \in Records |-> None]
  /\ outcome = [r \in Records |-> None] /\ sender = [r \in Records |-> None]
  /\ doing = [w \in Workers |-> "wait"] /\ overlp = [w \in Workers |-> None]
  /\ clients = 0 /\ resets = 0

Fails == failures < MaxFailures /\ failures' = failures + 1
Becomes(r, where) == record' = [record EXCEPT ![r] = where]
Forget(f, r) == [f EXCEPT ![r] = None]
Does(w, at) == doing' = [doing EXCEPT ![w] = at]
Continue(w) == Does(w, "wait") /\ overlp' = [overlp EXCEPT ![w] = None]

(* PostAcceptEx: a socket and a record, and AcceptEx until it is pending. *)
CallAcceptEx(r) ==
  /\ record[r] = "free" /\ listening /\ \A q \in 1..r - 1 : record[q] # "free"
  /\ Becomes(r, "accepting") /\ type' = [type EXCEPT ![r] = "accept"]
  /\ UNCHANGED <<outcome, sender>>

-----------------------------------------------------------------------------
MainPosts ==
  /\ main = "post" /\ posts > 0 /\ posts' = posts - 1
  /\ \/ (\E r \in Records : CallAcceptEx(r)) /\ UNCHANGED failures
     \/ listening /\ Fails /\ UNCHANGED recordVars        \* WSASocket fails
     \/ ~listening /\ UNCHANGED <<recordVars, failures>>  \* and does so without WSAStartup
  /\ UNCHANGED <<main, listening, port, workerVars, clients, resets>>

MainReads == \* std::cin.get()
  /\ main = "post" /\ posts = 0 /\ main' = "close listener"
  /\ UNCHANGED <<posts, listening, port, recordVars, workerVars, clients, resets, failures>>

CloseListener == \* aborts what AcceptEx has pending
  /\ main = "close listener" /\ main' = "close port" /\ listening' = FALSE
  /\ record' = [r \in Records |-> IF record[r] = "accepting" THEN "queued" ELSE record[r]]
  /\ outcome' = [r \in Records |-> IF record[r] = "accepting" THEN "error" ELSE outcome[r]]
  /\ UNCHANGED <<posts, port, type, sender, workerVars, clients, resets, failures>>

ClosePort == \* packets in the port are gone
  /\ main = "close port" /\ main' = "exit" /\ port' = FALSE
  /\ record' = [r \in Records |-> IF record[r] = "queued" THEN "lost" ELSE record[r]]
  /\ UNCHANGED <<posts, listening, type, outcome, sender, workerVars, clients, resets, failures>>

-----------------------------------------------------------------------------
(* Clients and the kernel. *)

Completes(r, result) ==
  /\ record' = [record EXCEPT ![r] = IF port THEN "queued" ELSE "lost"]
  /\ outcome' = [outcome EXCEPT ![r] = result]
  /\ sender' = Forget(sender, r)
  /\ UNCHANGED <<serverVars, type, workerVars>>

Connects(r) ==
  /\ record[r] = "accepting" /\ clients < MaxClients /\ clients' = clients + 1
  /\ \/ Completes(r, "ok") /\ UNCHANGED resets
     \/ Completes(r, "reset") /\ resets' = resets + 1
  /\ UNCHANGED failures

Talks(r) == \* sends, closes or resets
  /\ record[r] = "receiving"
  /\ \E result \in {"ok", "zero", "reset"} : Completes(r, result)
  /\ UNCHANGED <<clients, resets, failures>>

SendEnds(r) ==
  /\ record[r] = "sending"
  /\ \E result \in {"ok", "reset"} : Completes(r, result)
  /\ UNCHANGED <<clients, resets, failures>>

OperationFails(r) == \* a timeout, a network that is gone
  /\ record[r] \in InKernel /\ Fails
  /\ Completes(r, "error")
  /\ UNCHANGED <<clients, resets>>

-----------------------------------------------------------------------------
(* workerThread. *)

Gets(w, r) ==
  /\ doing[w] = "wait" /\ port /\ record[r] = "queued"
  /\ outcome' = Forget(outcome, r)
  /\ UNCHANGED <<serverVars, sender, clients, resets, failures>>

Has(w, r) == overlp' = [overlp EXCEPT ![w] = r] /\ UNCHANGED type

Closes(w, r) == \* closesocket and delete
  Becomes(r, "free") /\ type' = Forget(type, r) /\ Continue(w)

\* Fault: a reset ends the thread.
GetsResetAsError(w, r) ==
  /\ Gets(w, r) /\ outcome[r] = "reset"
  /\ Becomes(r, "lost") /\ Does(w, "ended") /\ UNCHANGED <<type, overlp>>

GetsReset(w, r) == Gets(w, r) /\ outcome[r] = "reset" /\ Closes(w, r)

GetsError(w, r) == \* the thread returns
  /\ Gets(w, r) /\ outcome[r] = "error"
  /\ Becomes(r, "lost") /\ Does(w, "ended") /\ UNCHANGED <<type, overlp>>

GetsAccept(w, r) ==
  /\ Gets(w, r) /\ outcome[r] = "ok" /\ type[r] = "accept"
  /\ Becomes(r, "held") /\ Does(w, "post") /\ Has(w, r)

GetsBytes(w, r) ==
  /\ Gets(w, r) /\ outcome[r] = "ok" /\ type[r] = "recv"
  /\ Becomes(r, "held") /\ Does(w, "send") /\ Has(w, r)

GetsClosed(w, r) == Gets(w, r) /\ outcome[r] = "zero" /\ Closes(w, r)

GetsSent(w, r) == \* nothing is posted any more, nothing is closed
  /\ Gets(w, r) /\ outcome[r] = "ok" /\ type[r] = "send"
  /\ Becomes(r, "answered") /\ Continue(w) /\ UNCHANGED type

GetsNothing(w) == \* the port is closed
  /\ doing[w] = "wait" /\ ~port /\ Does(w, "ended")
  /\ UNCHANGED <<serverVars, recordVars, overlp, clients, resets, failures>>

\* Fault: AcceptEx is called again and again on a socket that is closed.
RepostsInVain(w) ==
  /\ doing[w] = "post"
  /\ \/ (\E r \in Records : CallAcceptEx(r)) /\ Does(w, "recv") /\ UNCHANGED failures
     \/ Fails /\ Does(w, "recv") /\ UNCHANGED recordVars
     \/ listening /\ Fails /\ Does(w, "retry") /\ UNCHANGED recordVars
     \/ ~listening /\ Does(w, "retry") /\ UNCHANGED <<recordVars, failures>>
  /\ UNCHANGED <<serverVars, overlp, clients, resets>>

Reposts(w) == \* PostAcceptEx, before anything else
  /\ doing[w] \in {"post", "retry"}
  /\ \/ (\E r \in Records : CallAcceptEx(r)) /\ Does(w, "recv") /\ UNCHANGED failures
     \/ doing[w] = "post" /\ Fails /\ Does(w, "recv") /\ UNCHANGED recordVars   \* WSASocket
     \/ doing[w] = "post" /\ listening /\ Fails /\ Does(w, "retry") /\ UNCHANGED recordVars
     \/ doing[w] = "post" /\ ~listening /\ Does(w, "retry") /\ UNCHANGED <<recordVars, failures>>
  /\ UNCHANGED <<serverVars, overlp, clients, resets>>

Receives(w) == \* CreateIoCompletionPort, unchecked, and WSARecv, whose failure is logged
  /\ doing[w] = "recv" /\ Continue(w)
  /\ type' = [type EXCEPT ![overlp[w]] = "recv"]
  /\ \/ port /\ Becomes(overlp[w], "receiving") /\ UNCHANGED failures
     \/ Fails /\ Becomes(overlp[w], "lost")
     \/ ~port /\ Becomes(overlp[w], "lost") /\ UNCHANGED failures
  /\ UNCHANGED <<serverVars, outcome, sender, clients, resets>>

\* Fault: the thread keeps the record of the send.
SendsAndKeeps(w) ==
  /\ doing[w] = "send" /\ UNCHANGED <<doing, overlp>>
  /\ type' = [type EXCEPT ![overlp[w]] = "send"]
  /\ sender' = [sender EXCEPT ![overlp[w]] = w]
  /\ Becomes(overlp[w], "sending") /\ UNCHANGED failures
  /\ UNCHANGED <<serverVars, outcome, clients, resets>>

Sends(w) == \* WSASend of an array in this block of the function
  /\ doing[w] = "send" /\ Continue(w)
  /\ type' = [type EXCEPT ![overlp[w]] = "send"]
  /\ sender' = [sender EXCEPT ![overlp[w]] = w]
  /\ \/ Becomes(overlp[w], "sending") /\ UNCHANGED failures
     \/ Fails /\ Becomes(overlp[w], "lost")
  /\ UNCHANGED <<serverVars, outcome, clients, resets>>

Worker(w) ==
  \/ GetsNothing(w) \/ Reposts(w) \/ Receives(w) \/ Sends(w)
  \/ \E r \in Records : \/ GetsReset(w, r) \/ GetsError(w, r) \/ GetsAccept(w, r)
                        \/ GetsBytes(w, r) \/ GetsClosed(w, r) \/ GetsSent(w, r)

DemoNext ==
  \/ MainPosts \/ MainReads \/ CloseListener \/ ClosePort
  \/ \E r \in Records : Connects(r) \/ Talks(r) \/ SendEnds(r) \/ OperationFails(r)
  \/ \E w \in Workers : Worker(w)

(* Workers run; nothing is assumed of the operator, the clients, the network. *)
DemoSpec == DemoInit /\ [][DemoNext]_demoVars /\ \A w \in Workers : WF_demoVars(Worker(w))

-----------------------------------------------------------------------------
Ended == {w \in Workers : doing[w] = "ended"}
Having == {w \in Workers : doing[w] \in {"post", "retry", "recv", "send"}}
(* What keeps a place for the next client: an AcceptEx, its packet, or a   *)
(* worker that has still to post one.                                      *)
Places ==
  Cardinality({r \in Records : type[r] = "accept" /\ record[r] \in {"accepting", "queued"}})
  + Cardinality({w \in Workers : doing[w] \in {"post", "retry"}}) + posts

(***************************************************************************)
(* While the server runs, places for new clients get lost only to clients  *)
(* that reset before they are accepted and to failures, one to each, and   *)
(* workers only to failures; there are never more places than at the       *)
(* beginning (lines 68-77, 80, 198-200).                                   *)
(***************************************************************************)
CapacityKept ==
  main \in {"post", "close listener"} =>
    /\ Places <= StartAccepts
    /\ listening => Places + resets + failures >= StartAccepts
    /\ port => Cardinality(Ended) <= failures

(***************************************************************************)
(* A record has one owner, and is freed by it alone: what a worker has is  *)
(* neither in the kernel nor in the port nor another worker's.  A record   *)
(* is lost for a failure (until the server is closed).  The array a send   *)
(* is from is the stack of a thread that lives, unless failures have       *)
(* ended threads (lines 70-77, 105-134).                                   *)
(***************************************************************************)
RecordsOwned ==
  /\ \A w \in Having : record[overlp[w]] = "held"
  /\ \A v, w \in Having : v # w => overlp[v] # overlp[w]
  /\ \A r \in Records : record[r] = "held" => \E w \in Having : overlp[w] = r
  /\ main \in {"post", "close listener"} /\ port =>
       Cardinality({r \in Records : record[r] = "lost"}) <= failures
  /\ \A r \in Records : record[r] = "sending" /\ sender[r] \in Ended => failures > 0 \/ ~listening

(***************************************************************************)
(* No packet stays in the port: it is taken, or the port is closed, unless *)
(* every worker has ended, or is caught in the loop around AcceptEx, which *)
(* does not end once the listening socket is closed (lines 33-46).         *)
(***************************************************************************)
PacketsTaken ==
  \A r \in Records :
    []<>(\/ record[r] # "queued"
         \/ \A w \in Workers : doing[w] = "ended" \/ (doing[w] = "retry" /\ ~listening))

=============================================================================
