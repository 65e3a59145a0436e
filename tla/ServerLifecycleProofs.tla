------------------------ MODULE ServerLifecycleProofs ------------------------
(***************************************************************************)
(* Proofs about ServerLifecycle, for any number of threads, lives, control *)
(* events and failures.                                                    *)
(*                                                                         *)
(* HeedInv follows a control event through the resets at the top of the    *)
(* loop.  LifeInv says where a life's workers, handles and port are while  *)
(* main() has waited for all before it; CleanInv counts the quit packets   *)
(* against the workers that are left while no call has failed.             *)
(***************************************************************************)
EXTENDS ServerLifecycle, FiniteSetTheorems, TLAPS

Serving == {"port", "threads", "listen", "accept", "wait"}
Fresh == {"clearRestart", "clearEnd", "reset", "port"}
Running == {"threads", "listen", "accept", "wait", "finally", "quits", "join"}
Labels == Fresh \cup Running \cup {"sweep", "close", "test", "exit"}
States == {"none", "new", "wait", "busy", "exited", "crashed"}

\* What becomes of a control event, and of g_bEndServer with it.
HeedInv ==
  /\ main \in Serving /\ ~early =>
       (unheeded => event) /\ (bEnd => event \/ handler = "event")
  /\ main = "reset" /\ bEnd => early \/ handler = "event"
  /\ main \notin Serving \cup {"finally"} /\ unheeded => early

Where ==
  /\ main \in Labels /\ life \in Nat /\ life <= MaxLives /\ slot \in Slots
  /\ main \notin {"test", "exit"} => life \in Lives

Ports ==
  /\ open \subseteq Lives /\ stale \subseteq Lives
  /\ \A l \in open \cup stale : l <= life
  /\ main \in Fresh => life \notin open
  /\ main = "threads" => life \in open
  /\ main \notin {"close", "test", "exit"} => life \notin stale
  /\ number \in [Lives -> Lives]
  /\ \A p, q \in open : number[p] = number[q] => p = q

Tables ==
  /\ quits \in [Lives -> Nat] /\ failures \in Nat
  /\ handles \in [Slots -> Lives \cup {0}]
  /\ thread \in [Lives -> [Slots -> States]]

LifeTypes == Where /\ Ports /\ Tables

\* While main() has waited for all the workers before.
Joined ==
  ~unjoined =>
    /\ \A l \in Lives, i \in Slots :
         /\ thread[l][i] # "crashed"
         /\ Alive(l, i) => l = life /\ main \in Running /\ life \in open /\ handles[i] = life
    /\ main \notin Running => \A i \in Slots : handles[i] = 0
    /\ \A i \in Slots : handles[i] \in {0, life}

LifeInv == LifeTypes /\ Joined

Left == {i \in Slots : Alive(life, i)}

\* While no call has failed.
ThePort ==
  /\ main \in Running \cup {"sweep", "close"} => open = {life} /\ hIOCP = life
  /\ main \in Fresh \cup {"test", "exit"} => open = {}

TheHandles ==
  /\ main = "threads" => \A i \in 1..slot - 1 : handles[i] = life
  /\ main \in Running \ {"threads"} => Valid

TheQuits ==
  /\ \A l \in Lives :
       l > life \/ (l = life /\ main \in (Fresh \cup Running) \ {"join"}) => quits[l] = 0
  /\ main = "join" => Cardinality(Left) <= quits[life]

Clean == ~unjoined /\ ~orphaned /\ ThePort /\ TheHandles /\ TheQuits

CleanInv == failures = 0 => Clean

-----------------------------------------------------------------------------
\* What a step of a worker leaves alone.
LEMMA WorkerQuiet ==
  ASSUME NEW l \in Lives, NEW i \in Slots, Worker(l, i)
  PROVE  /\ UNCHANGED <<bRestart, bEnd, ctrlVars, main, life, slot, handles, unjoined>>
         /\ UNCHANGED <<open, number, stale, listening>>
         /\ event' = event \/ event' = TRUE
         /\ \/ UNCHANGED <<hIOCP, orphaned, failures>>
            \/ failures' = failures + 1
         /\ thread[l][i] \in {"new", "wait", "busy"}
         /\ \E s \in {"wait", "busy", "exited", "crashed"} : Becomes(l, i, s)
<1> USE DEF WorkerAlone, portVars, ctrlVars
<1>1. CASE TakePacket(l, i)
  BY <1>1 DEF TakePacket
<1>2. CASE TakeStale(l, i)
  BY <1>2 DEF TakeStale
<1>3. CASE TakeQuit(l, i)
  BY <1>3 DEF TakeQuit
<1>4. CASE PortClosed(l, i)
  BY <1>4 DEF PortClosed
<1>5. CASE Finish(l, i)
  BY <1>5 DEF Finish
<1>6. CASE GiveUp(l, i)
  BY <1>6 DEF GiveUp, Fails
<1>7. QED
  BY <1>1, <1>2, <1>3, <1>4, <1>5, <1>6 DEF Worker

\* Control events are followed from the handler to main().
LEMMA HeedInitInv == Init => HeedInv
BY DEF Init, HeedInv, Serving

LEMMA HeedNextInv ==
  ASSUME HeedInv, [Next]_vars
  PROVE  HeedInv'
<1> USE DEF HeedInv, Serving, flagVars, ctrlVars
<1>1. ASSUME NEW label, Intercept(label)
      PROVE  HeedInv'
  BY <1>1 DEF Intercept
<1>2. CASE SetRestart
  BY <1>2 DEF SetRestart
<1>3. CASE SetEnd
  BY <1>3 DEF SetEnd
<1>4. CASE SetEvent
  BY <1>4 DEF SetEvent
<1>5. CASE TestRestart
  BY <1>5 DEF TestRestart
<1>6. CASE ClearRestart
  BY <1>6 DEF ClearRestart, MainAlone
<1>7. CASE ClearEnd
  BY <1>7 DEF ClearEnd, MainAlone
<1>8. CASE ResetEvent
  BY <1>8 DEF ResetEvent, MainAlone
<1>9. CASE CreatePort \/ CreateThread \/ CreateListenSocket \/ CreateAcceptSocket
  BY <1>9 DEF CreatePort, CreateThread, CreateListenSocket, CreateAcceptSocket
<1>10. CASE WaitEvent \/ Finally
  BY <1>10 DEF WaitEvent, MainAlone, Finally
<1>11. CASE PostQuits \/ Join \/ JoinFails \/ Sweep \/ FollowDangling \/ ClosePort
  BY <1>11 DEF PostQuits, Join, JoinFails, Sweep, FollowDangling, ClosePort
<1>12. ASSUME NEW l \in Lives, NEW i \in Slots, Worker(l, i)
       PROVE  HeedInv'
  BY <1>12, WorkerQuiet
<1>13. CASE UNCHANGED vars
  BY <1>13 DEF vars
<1>14. QED
  BY <1>1, <1>2, <1>3, <1>4, <1>5, <1>6, <1>7, <1>8, <1>9, <1>10, <1>11, <1>12, <1>13
     DEF Next, Handler, MainNext

(***************************************************************************)
(* A control event takes effect unless its handler ran between the finally *)
(* block of one life and WSAResetEvent of the next (IocpServerex.cpp       *)
(* 129-134, 293-318), for any number of events, lives and threads.         *)
(***************************************************************************)
THEOREM OnlyEarlyEventsLostHolds == Spec => []OnlyEarlyEventsLost
<1>1. HeedInv => OnlyEarlyEventsLost
  BY DEF HeedInv, OnlyEarlyEventsLost, Serving
<1>2. QED
  BY <1>1, HeedInitInv, HeedNextInv, PTL DEF Spec

-----------------------------------------------------------------------------
\* A worker's step, on the table of the workers.
LEMMA OneWorker ==
  ASSUME LifeTypes, NEW l \in Lives, NEW i \in Slots, NEW s \in States, Becomes(l, i, s)
  PROVE  /\ thread' \in [Lives -> [Slots -> States]]
         /\ thread'[l][i] = s
         /\ \A k \in Lives, j \in Slots : k # l \/ j # i => thread'[k][j] = thread[k][j]
BY DEF LifeTypes, Tables, Becomes

LEMMA LifeTypesInit == Init => LifeTypes
<1> USE ServerLifecycleAssumption
<1>1. 1 \in Slots
  BY DEF Slots
<1>2. Init => Where
  BY <1>1 DEF Init, Where, Labels, Fresh, Running
<1>3. Init => Ports
  BY DEF Init, Ports, Fresh
<1>4. Init => Tables
  BY DEF Init, Tables, States
<1>5. QED
  BY <1>2, <1>3, <1>4 DEF LifeTypes

LEMMA WhereNext ==
  ASSUME LifeTypes, [Next]_vars
  PROVE  Where'
<1> USE ServerLifecycleAssumption DEF LifeTypes, Where, Labels, Fresh, Running
<1>1. ASSUME NEW label, Intercept(label)
      PROVE  Where'
  BY <1>1 DEF Intercept
<1>2. CASE Handler
  BY <1>2 DEF Handler, SetRestart, SetEnd, SetEvent
<1>3. CASE TestRestart
  <2>1. CASE bRestart
    <3>1. life < MaxLives /\ main' = "clearRestart" /\ life' = life + 1 /\ slot' = slot
      BY <1>3, <2>1 DEF TestRestart
    <3>2. life' \in Nat /\ life' <= MaxLives /\ life' \in Lives
      BY <3>1 DEF Lives
    <3>3. QED
      BY <3>1, <3>2
  <2>2. CASE ~bRestart
    BY <1>3, <2>2 DEF TestRestart
  <2>3. QED
    BY <2>1, <2>2
<1>4. CASE ClearRestart \/ ClearEnd \/ ResetEvent \/ WaitEvent
  BY <1>4 DEF ClearRestart, ClearEnd, ResetEvent, WaitEvent, MainAlone
<1>5. CASE CreatePort
  <2>1. 1 \in Slots
    BY DEF Slots
  <2>2. QED
    BY <1>5, <2>1 DEF CreatePort
<1>6. CASE CreateThread
  <2>1. slot # ThreadCount => slot + 1 \in Slots
    BY DEF Slots
  <2>2. QED
    BY <1>6, <2>1 DEF CreateThread
<1>7. CASE CreateListenSocket \/ CreateAcceptSocket
  BY <1>7 DEF CreateListenSocket, CreateAcceptSocket
<1>8. CASE Finally \/ PostQuits \/ Join \/ JoinFails \/ Sweep \/ FollowDangling \/ ClosePort
  BY <1>8 DEF Finally, PostQuits, Join, JoinFails, Sweep, FollowDangling, ClosePort
<1>9. ASSUME NEW l \in Lives, NEW i \in Slots, Worker(l, i)
      PROVE  Where'
  BY <1>9, WorkerQuiet
<1>10. CASE UNCHANGED vars
  BY <1>10 DEF vars
<1>11. QED
  BY <1>1, <1>2, <1>3, <1>4, <1>5, <1>6, <1>7, <1>8, <1>9, <1>10 DEF Next, MainNext

LEMMA PortsNext ==
  ASSUME LifeTypes, [Next]_vars
  PROVE  Ports'
<1> USE DEF LifeTypes, Ports, Fresh, portVars
<1>1. ASSUME NEW label, Intercept(label)
      PROVE  Ports'
  BY <1>1 DEF Intercept
<1>2. CASE Handler
  BY <1>2 DEF Handler, SetRestart, SetEnd, SetEvent
<1>3. CASE TestRestart
  <2>1. /\ UNCHANGED <<open, stale, number>>
        /\ main = "test" /\ main' \in {"clearRestart", "exit"}
    BY <1>3 DEF TestRestart
  <2>2. CASE life' = life + 1
    <3>1. life \in Nat
      BY DEF Where
    <3>2. \A l \in open \cup stale : l \in Nat /\ l <= life
      BY DEF Lives
    <3>3. \A l \in open \cup stale : l <= life' /\ l # life'
      BY <2>2, <3>1, <3>2
    <3>4. QED
      BY <2>1, <3>3
  <2>3. CASE main' = "exit" /\ life' = life
    BY <2>1, <2>3
  <2>4. QED
    BY <1>3, <2>2, <2>3 DEF TestRestart
<1>4. CASE ClearRestart \/ ClearEnd \/ ResetEvent \/ WaitEvent
  BY <1>4 DEF ClearRestart, ClearEnd, ResetEvent, WaitEvent, MainAlone
<1>5. CASE CreatePort
  <2>1. /\ main = "port" /\ main' \in {"threads", "finally"}
        /\ UNCHANGED <<life, stale>> /\ life \in Lives /\ life \in Nat /\ life \notin stale
    BY <1>5 DEF CreatePort, Where
  <2>2. CASE main' = "finally" /\ UNCHANGED <<open, number>>
    BY <2>1, <2>2
  <2>3. CASE /\ open' = open \cup {life} /\ main' = "threads"
             /\ \E l \in 1..life : /\ \A o \in open : number[o] # number[l]
                                   /\ number' = [number EXCEPT ![life] = number[l]]
    <3>1. 1..life \subseteq Lives
      BY <2>1, ServerLifecycleAssumption DEF Lives
    <3>2. PICK n \in Lives : /\ \A o \in open : number[o] # n
                             /\ number' = [number EXCEPT ![life] = n]
      BY <2>3, <3>1
    <3>3. /\ number' \in [Lives -> Lives] /\ number'[life] = n
          /\ \A l \in Lives \ {life} : number'[l] = number[l]
      BY <2>1, <3>2
    <3>4. \A p, q \in open' : number'[p] = number'[q] => p = q
      BY <2>1, <2>3, <3>2, <3>3
    <3>5. \A l \in open' \cup stale' : l <= life'
      <4>1. life <= life
        BY <2>1
      <4>2. QED
        BY <2>1, <2>3, <4>1
    <3>6. open' \subseteq Lives
      BY <2>1, <2>3
    <3>7. QED
      BY <2>1, <2>3, <3>3, <3>4, <3>5, <3>6
  <2>4. QED
    BY <1>5, <2>2, <2>3 DEF CreatePort
<1>6. CASE CreateThread \/ CreateListenSocket \/ CreateAcceptSocket
  BY <1>6 DEF CreateThread, CreateListenSocket, CreateAcceptSocket
<1>7. CASE Finally \/ PostQuits \/ Join \/ JoinFails \/ FollowDangling
  BY <1>7 DEF Finally, PostQuits, Join, JoinFails, FollowDangling
<1>8. CASE Sweep
  <2>1. /\ main = "sweep" /\ main' = "close" /\ UNCHANGED <<open, number, life>>
        /\ stale' \in {stale, stale \cup {life}} /\ life \in Lives /\ life \in Nat
    BY <1>8 DEF Sweep, Where
  <2>2. stale' \subseteq Lives /\ \A l \in stale' : l <= life
    BY <2>1
  <2>3. QED
    BY <2>1, <2>2
<1>9. CASE ClosePort
  BY <1>9 DEF ClosePort
<1>10. ASSUME NEW l \in Lives, NEW i \in Slots, Worker(l, i)
       PROVE  Ports'
  <2>1. UNCHANGED <<main, life, open, stale, number>>
    BY <1>10, WorkerQuiet
  <2>2. QED
    BY <2>1
<1>11. CASE UNCHANGED vars
  BY <1>11 DEF vars
<1>12. QED
  BY <1>1, <1>2, <1>3, <1>4, <1>5, <1>6, <1>7, <1>8, <1>9, <1>10, <1>11 DEF Next, MainNext

LEMMA TablesNext ==
  ASSUME LifeTypes, [Next]_vars
  PROVE  Tables'
<1> USE DEF LifeTypes, Tables, portVars, threadVars
<1>1. ASSUME NEW label, Intercept(label)
      PROVE  Tables'
  BY <1>1 DEF Intercept
<1>2. CASE Handler
  BY <1>2 DEF Handler, SetRestart, SetEnd, SetEvent
<1>3. CASE TestRestart
  BY <1>3 DEF TestRestart
<1>4. CASE ClearRestart \/ ClearEnd \/ ResetEvent \/ WaitEvent
  BY <1>4 DEF ClearRestart, ClearEnd, ResetEvent, WaitEvent, MainAlone
<1>5. CASE CreatePort
  BY <1>5 DEF CreatePort, Fails
<1>6. CASE CreateThread
  <2>1. slot \in Slots /\ life \in Lives /\ quits' \in [Lives -> Nat]
    BY <1>6 DEF CreateThread, Where
  <2>2. handles' \in [Slots -> Lives \cup {0}] /\ failures' \in Nat
    BY <1>6, <2>1 DEF CreateThread, Fails
  <2>3. "new" \in States
    BY DEF States
  <2>4. thread' \in [Lives -> [Slots -> States]]
    BY <1>6, <2>1, <2>3 DEF CreateThread
  <2>5. QED
    BY <2>1, <2>2, <2>4
<1>7. CASE CreateListenSocket \/ CreateAcceptSocket
  BY <1>7 DEF CreateListenSocket, CreateAcceptSocket, Fails
<1>8. CASE Finally \/ JoinFails \/ Sweep \/ FollowDangling \/ ClosePort
  BY <1>8 DEF Finally, JoinFails, Sweep, FollowDangling, ClosePort
<1>9. CASE PostQuits
  <2>1. quits' = quits \/ quits' = [quits EXCEPT ![hIOCP] = @ + ThreadCount]
    BY <1>9 DEF PostQuits
  <2>2. ThreadCount \in Nat
    BY ServerLifecycleAssumption
  <2>3. quits' \in [Lives -> Nat]
    BY <2>1, <2>2
  <2>4. UNCHANGED <<failures, handles, thread>>
    BY <1>9 DEF PostQuits
  <2>5. QED
    BY <2>3, <2>4
<1>10. CASE Join
  BY <1>10 DEF Join
<1>11. ASSUME NEW l \in Lives, NEW i \in Slots, Worker(l, i)
       PROVE  Tables'
  <2>1. PICK s \in {"wait", "busy", "exited", "crashed"} : Becomes(l, i, s)
    BY <1>11, WorkerQuiet
  <2>2. s \in States
    BY DEF States
  <2>3. thread' \in [Lives -> [Slots -> States]]
    BY <2>1, <2>2, OneWorker
  <2>4. quits' = quits \/ \E p \in Port(l) : quits[p] > 0 /\ quits' = [quits EXCEPT ![p] = @ - 1]
    BY <1>11 DEF Worker, TakePacket, TakeStale, TakeQuit, PortClosed, Finish, GiveUp
  <2>5. Port(l) \subseteq Lives
    BY DEF Port, Ports
  <2>6. quits' \in [Lives -> Nat]
    BY <2>4, <2>5
  <2>7. failures' = failures \/ failures' = failures + 1
    BY <1>11, WorkerQuiet
  <2>8. handles' = handles
    BY <1>11, WorkerQuiet
  <2>9. failures' \in Nat
    BY <2>7
  <2>10. QED
    BY <2>3, <2>6, <2>8, <2>9
<1>12. CASE UNCHANGED vars
  BY <1>12 DEF vars
<1>13. QED
  BY <1>1, <1>2, <1>3, <1>4, <1>5, <1>6, <1>7, <1>8, <1>9, <1>10, <1>11, <1>12 DEF Next, MainNext

-----------------------------------------------------------------------------
LEMMA JoinedInit == Init => Joined
BY DEF Init, Joined, Alive, Running

LEMMA JoinedNext ==
  ASSUME LifeInv, [Next]_vars
  PROVE  Joined'
<1> USE ServerLifecycleAssumption
<1> USE DEF LifeInv, Joined, Running, Alive, portVars, threadVars
<1>1. ASSUME NEW label, Intercept(label)
      PROVE  Joined'
  BY <1>1 DEF Intercept
<1>2. CASE Handler
  BY <1>2 DEF Handler, SetRestart, SetEnd, SetEvent
<1>3. CASE TestRestart
  BY <1>3 DEF TestRestart
<1>4. CASE ClearRestart \/ ClearEnd \/ ResetEvent \/ WaitEvent
  BY <1>4 DEF ClearRestart, ClearEnd, ResetEvent, WaitEvent, MainAlone
<1>5. CASE CreatePort
  BY <1>5 DEF CreatePort
<1>6. CASE CreateThread
  <2>1. main = "threads" /\ slot \in Slots /\ life \in Lives /\ UNCHANGED <<life, open, unjoined>>
    BY <1>6 DEF CreateThread, LifeTypes, Where
  <2>2. CASE Fails /\ main' = "finally" /\ UNCHANGED threadVars
    BY <2>1, <2>2
  <2>3. CASE /\ thread' = [thread EXCEPT ![life][slot] = "new"]
             /\ handles' = [handles EXCEPT ![slot] = life]
             /\ main' \in {"threads", "listen"}
    <3>1. Becomes(life, slot, "new") /\ "new" \in States
      BY <2>3 DEF Becomes, States
    <3>2. /\ thread'[life][slot] = "new"
          /\ \A k \in Lives, j \in Slots : k # life \/ j # slot => thread'[k][j] = thread[k][j]
      BY <2>1, <3>1, OneWorker
    <3>3. handles'[slot] = life /\ \A j \in Slots \ {slot} : handles'[j] = handles[j]
      BY <2>1, <2>3 DEF LifeTypes, Tables
    <3>4. life \in open
      BY <2>1 DEF LifeTypes, Ports
    <3>5. QED
      BY <2>1, <2>3, <3>2, <3>3, <3>4
  <2>4. QED
    BY <1>6, <2>2, <2>3 DEF CreateThread
<1>7. CASE CreateListenSocket \/ CreateAcceptSocket
  BY <1>7 DEF CreateListenSocket, CreateAcceptSocket
<1>8. CASE Finally \/ PostQuits
  BY <1>8 DEF Finally, PostQuits
<1>9. CASE Join
  BY <1>9 DEF Join, Valid, Signalled, LifeTypes
<1>10. CASE JoinFails
  BY <1>10 DEF JoinFails
<1>11. CASE Sweep \/ FollowDangling \/ ClosePort
  BY <1>11 DEF Sweep, FollowDangling, ClosePort
<1>12. ASSUME NEW l \in Lives, NEW i \in Slots, Worker(l, i)
       PROVE  Joined'
  <2>1. /\ UNCHANGED <<main, life, handles, unjoined, open>>
        /\ thread[l][i] \in {"new", "wait", "busy"}
        /\ \E s \in {"wait", "busy", "exited", "crashed"} : Becomes(l, i, s)
    BY <1>12, WorkerQuiet DEF ctrlVars
  <2>2. PICK s \in {"wait", "busy", "exited", "crashed"} : Becomes(l, i, s)
    BY <2>1
  <2>3. /\ thread'[l][i] = s
        /\ \A k \in Lives, j \in Slots : k # l \/ j # i => thread'[k][j] = thread[k][j]
    BY <2>2, OneWorker DEF States
  <2>4. ~unjoined => l = life /\ life \in open /\ main \in Running /\ life \notin stale
    BY <2>1 DEF LifeTypes, Ports
  <2>5. ~unjoined => Port(l) \cap stale = {}
    BY <2>4 DEF Port, LifeTypes, Ports
  <2>6. ~unjoined => ~TakeStale(l, i) /\ ~PortClosed(l, i)
    BY <2>4, <2>5 DEF TakeStale, PortClosed
  <2>7. TakePacket(l, i) \/ TakeQuit(l, i) \/ Finish(l, i) \/ GiveUp(l, i) => thread'[l][i] # "crashed"
    <3>1. \A t \in States : Becomes(l, i, t) => thread'[l][i] = t
      BY OneWorker
    <3>2. QED
      BY <3>1 DEF TakePacket, TakeQuit, Finish, GiveUp, States
  <2>8. ~unjoined => thread'[l][i] # "crashed"
    BY <1>12, <2>6, <2>7 DEF Worker
  <2>9. QED
    BY <2>1, <2>3, <2>8
<1>13. CASE UNCHANGED vars
  BY <1>13 DEF vars
<1>14. QED
  BY <1>1, <1>2, <1>3, <1>4, <1>5, <1>6, <1>7, <1>8, <1>9, <1>10, <1>11, <1>12, <1>13
     DEF Next, MainNext

LEMMA LifeInvariant == Spec => []LifeInv
<1>1. Init => LifeInv
  BY LifeTypesInit, JoinedInit DEF LifeInv
<1>2. LifeInv /\ [Next]_vars => LifeInv'
  BY WhereNext, PortsNext, TablesNext, JoinedNext DEF LifeInv, LifeTypes
<1>3. QED
  BY <1>1, <1>2, PTL DEF Spec

(***************************************************************************)
(* The cleanup and the next life begin when every worker of this one has   *)
(* exited, unless the wait of main() did not wait for them all             *)
(* (IocpServerex.cpp 186-247); no worker takes a packet of freed contexts  *)
(* before that.                                                            *)
(***************************************************************************)
THEOREM WorkersOfThisLifeHolds == Spec => []WorkersOfThisLife
<1>1. LifeInv => WorkersOfThisLife
  BY DEF LifeInv, Joined, WorkersOfThisLife, Running
<1>2. QED
  BY <1>1, LifeInvariant, PTL

-----------------------------------------------------------------------------
LEMMA LeftFinite ==
  /\ IsFiniteSet(Slots) /\ Cardinality(Slots) = ThreadCount
  /\ \A S \in SUBSET Slots : IsFiniteSet(S) /\ Cardinality(S) \in Nat
                             /\ Cardinality(S) <= ThreadCount
<1>1. IsFiniteSet(Slots) /\ Cardinality(Slots) = ThreadCount
  <2>1. ThreadCount \in Nat /\ 1 \in Int /\ ThreadCount \in Int /\ 1 <= ThreadCount
    BY ServerLifecycleAssumption
  <2>2. Cardinality(1..ThreadCount) = ThreadCount - 1 + 1 /\ IsFiniteSet(1..ThreadCount)
    BY <2>1, FS_Interval
  <2>3. QED
    BY <2>1, <2>2 DEF Slots
<1>2. ASSUME NEW S \in SUBSET Slots
      PROVE  IsFiniteSet(S) /\ Cardinality(S) \in Nat /\ Cardinality(S) <= ThreadCount
  BY <1>1, FS_Subset, FS_CardinalityType
<1>3. QED
  BY <1>1, <1>2

LEMMA NoFailure ==
  ASSUME LifeTypes, [Next]_vars, failures' = 0
  PROVE  failures = 0 /\ ~Fails
<1>1. failures' = failures \/ Fails
  <2>1. ASSUME NEW label, Intercept(label)
        PROVE  failures' = failures
    BY <2>1 DEF Intercept
  <2>2. CASE Handler
    BY <2>2 DEF Handler, SetRestart, SetEnd, SetEvent
  <2>3. CASE TestRestart \/ ClearRestart \/ ClearEnd \/ ResetEvent \/ WaitEvent
    BY <2>3 DEF TestRestart, ClearRestart, ClearEnd, ResetEvent, WaitEvent, MainAlone
  <2>4. CASE CreatePort \/ CreateThread \/ CreateListenSocket \/ CreateAcceptSocket
    BY <2>4 DEF CreatePort, CreateThread, CreateListenSocket, CreateAcceptSocket
  <2>5. CASE Finally \/ PostQuits \/ Join \/ JoinFails \/ Sweep \/ FollowDangling \/ ClosePort
    BY <2>5 DEF Finally, PostQuits, Join, JoinFails, Sweep, FollowDangling, ClosePort
  <2>6. ASSUME NEW l \in Lives, NEW i \in Slots, Worker(l, i)
        PROVE  failures' = failures \/ Fails
    BY <2>6 DEF Worker, TakePacket, TakeStale, TakeQuit, PortClosed, Finish, GiveUp
  <2>7. CASE UNCHANGED vars
    BY <2>7 DEF vars
  <2>8. QED
    BY <2>1, <2>2, <2>3, <2>4, <2>5, <2>6, <2>7 DEF Next, MainNext
<1>2. failures \in Nat
  BY DEF LifeTypes, Tables
<1>3. ~Fails
  BY <1>2 DEF Fails
<1>4. QED
  BY <1>1, <1>3

\* A quit packet goes with the worker that takes it.
LEMMA CleanWorker ==
  ASSUME LifeInv, Clean, NEW l \in Lives, NEW i \in Slots, Worker(l, i), ~Fails
  PROVE  Clean'
<1>1. /\ UNCHANGED <<main, life, slot, handles, unjoined, open, number>>
      /\ UNCHANGED <<hIOCP, orphaned>>
  <2>1. ~GiveUp(l, i)
    BY DEF GiveUp
  <2>2. UNCHANGED <<hIOCP, orphaned>>
    BY <2>1 DEF Worker, TakePacket, TakeStale, TakeQuit, PortClosed, Finish, portVars
  <2>3. QED
    BY <2>2, WorkerQuiet
<1>2. /\ l = life /\ life \in open /\ main \in Running /\ Alive(life, i)
  <2>1. thread[l][i] \in {"new", "wait", "busy"}
    BY WorkerQuiet
  <2>2. Alive(l, i)
    BY <2>1 DEF Alive
  <2>3. QED
    BY <2>2 DEF Clean, LifeInv, Joined
<1>3. open = {life} /\ Port(life) = {life}
  BY <1>2 DEF Clean, ThePort, Port
<1>4. PICK s \in {"wait", "busy", "exited", "crashed"} : Becomes(l, i, s)
  BY WorkerQuiet
<1>5. /\ thread'[life][i] = s
      /\ \A j \in Slots \ {i} : thread'[life][j] = thread[life][j]
  <2>1. s \in States
    BY DEF States
  <2>2. QED
    BY <1>2, <1>4, <2>1, OneWorker DEF LifeInv
<1>6. Left' \subseteq Left
  BY <1>1, <1>2, <1>5 DEF Left, Alive
<1>7. Left \in SUBSET Slots /\ i \in Left
  BY <1>2 DEF Left
<1>8. Cardinality(Left') <= Cardinality(Left) /\ Cardinality(Left') \in Nat /\ Cardinality(Left) \in Nat
  BY <1>6, <1>7, LeftFinite, FS_Subset
<1>9. CASE quits' = quits
  <2>1. main = "join" => Cardinality(Left') <= quits'[life]
    <3>1. quits[life] \in Nat
      BY <1>2 DEF LifeInv, LifeTypes, Tables
    <3>2. main = "join" => Cardinality(Left) <= quits[life]
      BY DEF Clean, TheQuits
    <3>3. QED
      BY <1>8, <1>9, <3>1, <3>2
  <2>2. TheQuits'
    BY <1>1, <1>9, <2>1 DEF Clean, TheQuits
  <2>3. QED
    BY <1>1, <2>2 DEF Clean, ThePort, TheHandles, Valid
<1>10. CASE TakeQuit(l, i)
  <2>1. quits[life] > 0 /\ quits' = [quits EXCEPT ![life] = @ - 1]
    BY <1>2, <1>3, <1>10 DEF TakeQuit
  <2>2. quits \in [Lives -> Nat] /\ life \in Lives
    BY <1>2 DEF LifeInv, LifeTypes, Tables
  <2>3. main = "join"
    BY <1>2, <2>1, <2>2 DEF Clean, TheQuits
  <2>4. thread'[life][i] = "exited"
    <3>1. Becomes(l, i, "exited") /\ "exited" \in States
      BY <1>10 DEF TakeQuit, States
    <3>2. QED
      BY <1>2, <3>1, OneWorker DEF LifeInv
  <2>5. Left' = Left \ {i}
    BY <1>1, <1>5, <2>4 DEF Left, Alive
  <2>6. Cardinality(Left') = Cardinality(Left) - 1
    BY <1>7, <2>5, LeftFinite, FS_RemoveElement
  <2>7. Cardinality(Left) <= quits[life] /\ quits[life] \in Nat /\ quits'[life] = quits[life] - 1
    BY <2>1, <2>2, <2>3 DEF Clean, TheQuits
  <2>8. Cardinality(Left') <= quits'[life]
    BY <1>8, <2>6, <2>7
  <2>9. \A k \in Lives : k > life => quits'[k] = 0
    <3>1. life \in Nat
      BY DEF LifeInv, LifeTypes, Where
    <3>2. \A k \in Lives : k > life => quits[k] = 0 /\ k # life
      BY <3>1 DEF Clean, TheQuits
    <3>3. QED
      BY <2>1, <2>2, <3>2
  <2>10. TheQuits'
    BY <1>1, <2>3, <2>8, <2>9 DEF TheQuits
  <2>11. QED
    BY <1>1, <2>10 DEF Clean, ThePort, TheHandles, Valid
<1>11. QED
  <2>1. quits' = quits \/ TakeQuit(l, i)
    BY DEF Worker, TakePacket, TakeStale, PortClosed, Finish, GiveUp, portVars
  <2>2. QED
    BY <1>9, <1>10, <2>1

\* As long as a worker is left, there is a quit packet for it.
LEMMA NoJoinFails ==
  ASSUME Prompt, LifeInv, Clean
  PROVE  ~JoinFails
<1>1. SUFFICES ASSUME JoinFails
               PROVE  FALSE
  OBVIOUS
<1>2. main = "join" /\ Valid
  BY <1>1 DEF JoinFails, Clean, TheHandles, Running
<1>3. PICK i \in Slots : Stuck(handles[i], i)
  BY <1>1, <1>2 DEF JoinFails
<1>4. handles[i] = life
  BY <1>2 DEF Valid, LifeInv, Joined, Clean
<1>5. Port(life) = {life}
  BY <1>2 DEF Clean, ThePort, Port, Running
<1>6. thread[life][i] \in {"new", "wait"} /\ quits[life] = 0
  BY <1>3, <1>4, <1>5 DEF Stuck, Clean
<1>7. i \in Left /\ Left \in SUBSET Slots
  BY <1>6 DEF Left, Alive
<1>8. Cardinality(Left) <= 0
  BY <1>2, <1>6 DEF Clean, TheQuits
<1>9. Left = {}
  <2>1. Cardinality(Left) \in Nat /\ IsFiniteSet(Left)
    BY <1>7, LeftFinite
  <2>2. Cardinality(Left) = 0
    BY <1>8, <2>1
  <2>3. QED
    BY <2>1, <2>2, FS_EmptySet
<1>10. QED
  BY <1>7, <1>9

LEMMA CleanInitInv == Init => CleanInv
BY DEF Init, CleanInv, Clean, ThePort, TheHandles, TheQuits, Running, Fresh

LEMMA CleanNextInv ==
  ASSUME Prompt, LifeInv, CleanInv, [Next]_vars
  PROVE  CleanInv'
<1>1. SUFFICES ASSUME failures' = 0
               PROVE  Clean'
  BY DEF CleanInv
<1>2. Clean /\ ~Fails
  BY <1>1, NoFailure DEF CleanInv, LifeInv
<1> USE DEF Clean, ThePort, TheHandles, TheQuits, Left, Alive, Valid, Running, Fresh
<1>3. ASSUME NEW label, Intercept(label)
      PROVE  Clean'
  BY <1>2, <1>3 DEF Intercept, portVars, threadVars
<1>4. CASE Handler
  <2>1. UNCHANGED <<unjoined, orphaned, main, life, slot, hIOCP, open, quits, handles, thread>>
    BY <1>4 DEF Handler, SetRestart, SetEnd, SetEvent, portVars, threadVars
  <2>2. QED
    BY <1>2, <2>1
<1>5. CASE TestRestart
  <2>1. /\ main = "test" /\ UNCHANGED <<unjoined, orphaned, open, hIOCP, handles, quits>>
        /\ \/ main' = "clearRestart" /\ life' = life + 1
           \/ main' = "exit" /\ life' = life
    BY <1>5 DEF TestRestart, portVars, threadVars
  <2>2. life \in Nat
    BY DEF LifeInv, LifeTypes, Where
  <2>3. \A l \in Lives : l > life' \/ (l = life' /\ main' # "exit") => l > life
    BY <2>1, <2>2 DEF Lives
  <2>4. \A l \in Lives : l > life' \/ (l = life' /\ main' # "exit") => quits'[l] = 0
    BY <1>2, <2>1, <2>3
  <2>5. QED
    BY <1>2, <2>1, <2>4
<1>6. CASE ClearRestart \/ ClearEnd \/ ResetEvent \/ WaitEvent
  BY <1>2, <1>6 DEF ClearRestart, ClearEnd, ResetEvent, WaitEvent, MainAlone, portVars, threadVars
<1>7. CASE CreatePort
  <2>1. /\ main = "port" /\ main' = "threads" /\ hIOCP' = life /\ open' = open \cup {life}
        /\ slot' = 1 /\ UNCHANGED <<unjoined, orphaned, life, quits, handles, thread>>
    BY <1>2, <1>7 DEF CreatePort, threadVars
  <2>2. 1..slot' - 1 = {}
    BY <2>1
  <2>3. QED
    BY <1>2, <2>1, <2>2
<1>8. CASE CreateThread
  <2>1. /\ main = "threads" /\ UNCHANGED <<unjoined, orphaned, life, quits, hIOCP, open>>
        /\ handles' = [handles EXCEPT ![slot] = life]
        /\ \/ slot = ThreadCount /\ main' = "listen"
           \/ slot' = slot + 1 /\ main' = "threads"
    BY <1>2, <1>8 DEF CreateThread, portVars
  <2>2. slot \in Slots /\ slot \in Nat /\ life \in Lives /\ life # 0
    BY <2>1 DEF LifeInv, LifeTypes, Where, Slots, Lives
  <2>3. \A i \in Slots : i \in 1..slot => handles'[i] = life
    <3>1. \A i \in Slots : i \in 1..slot => i \in 1..slot - 1 \/ i = slot
      BY <2>2 DEF Slots
    <3>2. \A i \in 1..slot - 1 : handles[i] = life
      BY <1>2, <2>1
    <3>3. handles'[slot] = life /\ \A i \in Slots \ {slot} : handles'[i] = handles[i]
      BY <2>1, <2>2 DEF LifeInv, LifeTypes, Tables
    <3>4. QED
      BY <3>1, <3>2, <3>3
  <2>4. TheHandles'
    <3>1. CASE slot = ThreadCount /\ main' = "listen"
      BY <2>1, <2>2, <2>3, <3>1 DEF Slots
    <3>2. CASE slot' = slot + 1 /\ main' = "threads"
      <4>1. slot' - 1 = slot /\ 1..slot \subseteq Slots
        BY <2>2, <3>2, ServerLifecycleAssumption DEF Slots
      <4>2. \A i \in 1..slot' - 1 : handles'[i] = life'
        BY <2>1, <2>3, <4>1
      <4>3. QED
        BY <3>2, <4>2
    <3>3. QED
      BY <2>1, <3>1, <3>2
  <2>5. QED
    BY <1>2, <2>1, <2>4
<1>9. CASE CreateListenSocket \/ CreateAcceptSocket
  BY <1>2, <1>9 DEF CreateListenSocket, CreateAcceptSocket, portVars, threadVars
<1>10. CASE Finally
  BY <1>2, <1>10 DEF Finally, portVars, threadVars
<1>11. CASE PostQuits
  <2>1. /\ main = "quits" /\ main' = "join"
        /\ UNCHANGED <<unjoined, orphaned, life, hIOCP, open, handles, thread>>
        /\ hIOCP = life /\ life \in Lives /\ quits[life] = 0
    BY <1>2, <1>11 DEF PostQuits, threadVars, LifeInv, LifeTypes, Where
  <2>2. quits' = [quits EXCEPT ![life] = @ + ThreadCount] /\ life # 0
    BY <1>11, <2>1 DEF PostQuits, Lives
  <2>3. quits \in [Lives -> Nat] /\ ThreadCount \in Nat /\ life \in Nat
    BY ServerLifecycleAssumption DEF LifeInv, LifeTypes, Tables, Where
  <2>4. quits'[life] = ThreadCount /\ \A l \in Lives : l > life => quits'[l] = 0
    <3>1. \A l \in Lives : l > life => l # life /\ quits[l] = 0
      BY <1>2, <2>3
    <3>2. QED
      BY <2>1, <2>2, <2>3, <3>1
  <2>5. Cardinality(Left') <= ThreadCount
    <3>1. Left \in SUBSET Slots /\ Left' = Left
      BY <2>1
    <3>2. QED
      BY <3>1, LeftFinite
  <2>6. TheQuits'
    BY <2>1, <2>4, <2>5 DEF Clean
  <2>7. QED
    BY <1>2, <2>1, <2>6
<1>12. CASE Join
  BY <1>2, <1>12 DEF Join, portVars
<1>13. ~JoinFails
  BY <1>2, NoJoinFails
<1>14. CASE Sweep \/ FollowDangling \/ ClosePort
  <2>1. CASE Sweep
    BY <1>2, <2>1 DEF Sweep, threadVars
  <2>2. CASE FollowDangling
    BY <1>2, <2>2 DEF FollowDangling, threadVars
  <2>3. CASE ClosePort
    BY <1>2, <2>3 DEF ClosePort, threadVars
  <2>4. QED
    BY <1>14, <2>1, <2>2, <2>3
<1>15. ASSUME NEW l \in Lives, NEW i \in Slots, Worker(l, i)
       PROVE  Clean'
  BY <1>2, <1>15, CleanWorker
<1>16. CASE UNCHANGED vars
  BY <1>2, <1>16 DEF vars, portVars, threadVars
<1>17. QED
  BY <1>3, <1>4, <1>5, <1>6, <1>7, <1>8, <1>9, <1>10, <1>11, <1>12, <1>13, <1>14, <1>15, <1>16
     DEF Next, MainNext

(***************************************************************************)
(* The quit packets main() posts are enough: when no call has failed, and  *)
(* a worker that can run is done within the 1000 ms main() waits           *)
(* (IocpServerex.cpp 194-216), the wait has never ended without every      *)
(* worker.  Prompt is the machine's share: a slower one breaks the         *)
(* property whatever the code does.                                        *)
(***************************************************************************)
THEOREM WorkersJoinedHolds ==
  ASSUME Prompt
  PROVE  Spec => []WorkersJoined
<1>1. Init => LifeInv /\ CleanInv
  BY LifeTypesInit, JoinedInit, CleanInitInv DEF LifeInv
<1>2. LifeInv /\ CleanInv /\ [Next]_vars => (LifeInv /\ CleanInv)'
  BY WhereNext, PortsNext, TablesNext, JoinedNext, CleanNextInv DEF LifeInv, LifeTypes
<1>3. LifeInv /\ CleanInv => WorkersJoined
  <2>1. failures \in Nat /\ failures # 0 => failures > 0
    OBVIOUS
  <2>2. QED
    BY <2>1 DEF LifeInv, LifeTypes, Tables, CleanInv, Clean, WorkersJoined
<1>4. QED
  BY <1>1, <1>2, <1>3, PTL DEF Spec

=============================================================================
