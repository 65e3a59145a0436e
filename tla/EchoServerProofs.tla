-------------------------- MODULE EchoServerProofs --------------------------
(***************************************************************************)
(* Proofs about EchoServer, for any number of workers, contexts, clients   *)
(* and failures.  A context has one user at a time, which is allocated     *)
(* while it has one, and is freed only when its operation has completed.   *)
(* That holds until main() gives up waiting for the workers; after that it *)
(* holds of every context the cleanup has not closed yet, and one it has   *)
(* closed stays without an operation, whoever still uses it.               *)
(* From ownership it follows that no two steps mix up the data: what the   *)
(* server has taken from a client and not given back is in one buffer.     *)
(***************************************************************************)
EXTENDS EchoServer, SequenceTheorems, TLAPS

Ops == {"Accept", "Read", "Write"}
Busy == {"pending", "done", "held"}

Shapes ==
  /\ io = [k \in Keys |-> io[k]] /\ sock = [k \in Keys |-> sock[k]] /\ alive \subseteq Ctx
  /\ pc = [w \in Workers |-> pc[w]] /\ cur = [w \in Workers |-> cur[w]]
  /\ acc = [w \in Workers |-> acc[w]] /\ \A w \in Workers : acc[w] # Listen
  /\ ctx = [k \in Keys |-> ctx[k]]
  /\ \A k \in Keys : "op" \in DOMAIN ctx[k] /\ ctx[k].op \in Ops

\* A context that the cleanup has closed, or that got its socket afterwards.
Dead(k) == main \in {"sweep", "done"} /\ sock[k] = NULL /\ io[k] # "pending"

Allocated(k) == k = Listen \/ k \in alive

\* A worker is the only one to use what it uses ...
Hold ==
  \A w \in Workers : \A k \in Owns(w) :
    /\ k \in Keys
    /\ \/ Dead(k)
       \/ io[k] = "held" /\ Allocated(k) /\ \A v \in Workers : v # w => k \notin Owns(v)

\* ... and what has an operation is allocated ...
BusyAllocated == \A k \in Keys : io[k] \in Busy => Allocated(k) \/ Dead(k)

\* ... except in the cleanup, which begins with the listening socket ...
Swept == main \in {"sweep", "done"} => Dead(Listen)

\* ... and, unless the wait timed out, when the workers have gone.
AllGone == ~timedOut /\ main \notin {"serve", "join"} => \A w \in Workers : pc[w] = "exited"

OwnerInv == Shapes /\ Hold /\ BusyAllocated /\ Swept /\ AllGone

-----------------------------------------------------------------------------
\* What a worker uses is allocated, and no worker is left for the cleanup.
InUseAllocated ==
  ~timedOut => \A w \in Workers : /\ Owns(w) \ {Listen} \subseteq alive
                                  /\ Owns(w) # {} => main \in {"serve", "join"}

\* OwnerInv contains both invariants.
LEMMA OwnerInvUsed ==
  ASSUME OwnerInv
  PROVE  OneOwner /\ InUseAllocated
<1>1. \A w \in Workers : pc[w] = "exited" => Owns(w) = {}
  BY DEF Owns
<1>2. ASSUME ~timedOut, NEW w \in Workers, NEW k \in Owns(w)
      PROVE  main \in {"serve", "join"} /\ ~Dead(k)
  BY <1>1, <1>2 DEF OwnerInv, AllGone, Dead
<1>3. OneOwner
  BY <1>2 DEF OwnerInv, Hold, OneOwner
<1>4. InUseAllocated
  BY <1>2 DEF OwnerInv, Hold, Allocated, InUseAllocated
<1>5. QED
  BY <1>3, <1>4

\* No worker has anything when the server starts.
LEMMA OwnerInit == Init => OwnerInv
<1> SUFFICES ASSUME Init PROVE OwnerInv
  OBVIOUS
<1>1. /\ io = [k \in Keys |-> IF k = Listen THEN "pending" ELSE "none"]
      /\ sock = [k \in Keys |-> NULL]
      /\ pc = [w \in Workers |-> "wait"] /\ cur = [w \in Workers |-> NULL]
      /\ acc = [w \in Workers |-> NULL] /\ ctx = [k \in Keys |-> Zeroed]
      /\ alive = {} /\ main = "serve"
  BY DEF Init, L!Init
<1>2. "op" \in DOMAIN Zeroed /\ Zeroed.op \in Ops
  BY DEF Zeroed, Ops
<1>3. Shapes
  BY <1>1, <1>2, EchoServerAssumption DEF Shapes
<1>4. \A w \in Workers : Owns(w) = {}
  BY <1>1 DEF Owns
<1>5. \A k \in Keys : k # Listen => io[k] = "none"
  BY <1>1
<1>6. QED
  BY <1>1, <1>3, <1>4, <1>5 DEF OwnerInv, Hold, BusyAllocated, Swept, AllGone, Allocated, Busy

-----------------------------------------------------------------------------
\* What the operations on the list do to the heap.
LEMMA HeapEffects ==
  ASSUME NEW w \in Workers, NEW c
  PROVE  /\ L!Allocate(w, c) => c \notin alive /\ alive' = alive \union {c}
         /\ L!AllocateOuterFails(w) => alive' = alive
         /\ L!Add(c) => alive' = alive
         /\ L!Free(c) => alive' = alive \ {c}
         /\ L!Delete(c) => alive' = alive \ {c}
<1>1. L!Allocate(w, c) => c \notin alive /\ alive' = alive \union {c}
  BY DEF L!Allocate
<1>2. L!AllocateOuterFails(w) => alive' = alive
  BY DEF L!AllocateOuterFails, L!listVars
<1>3. L!Add(c) => alive' = alive
  BY DEF L!Add
<1>4. L!Free(c) => alive' = alive \ {c}
  BY DEF L!Free
<1>5. L!Delete(c) => alive' = alive \ {c}
  BY DEF L!Delete, L!Unlink
<1>6. QED
  BY <1>1, <1>2, <1>3, <1>4, <1>5

\* A step of one worker.
Moves(w) ==
  /\ \A v \in Workers \ {w} : pc'[v] = pc[v] /\ cur'[v] = cur[v] /\ acc'[v] = acc[v]
  /\ UNCHANGED <<main, timedOut>>

\* It may get the contexts of new, which nobody has, and change and free what
\* it has, and nothing else.
Hands(w, new) ==
  /\ \A k \in new : k \in Keys /\ (io[k] = "held" => Dead(k))
  /\ Owns(w)' \subseteq Owns(w) \union new
  /\ \A k \in Keys : k \notin Owns(w) \union new => io'[k] = io[k]
  /\ \A k \in Keys : Dead(k) => Dead(k)'
  /\ \A k \in alive : k \notin Owns(w) => k \in alive'
  /\ \A k \in Owns(w)' : Dead(k)' \/ (io'[k] = "held" /\ Allocated(k)')
  /\ \A k \in Owns(w) \union new : io'[k] \in Busy => Allocated(k)' \/ Dead(k)'

\* Ownership through such a step.
LEMMA Handed ==
  ASSUME OwnerInv, NEW w \in Workers, NEW new, pc[w] # "exited",
         Moves(w), Shapes', Hands(w, new)
  PROVE  OwnerInv'
<1> USE DEF Hands
<1>1. \A v \in Workers \ {w} : Owns(v)' = Owns(v)
  BY DEF Owns, Moves
<1>2. timedOut' = timedOut /\ main' = main
  BY DEF Moves
<1>3. ASSUME NEW v \in Workers \ {w}, NEW k \in Owns(v)
      PROVE  /\ k \in Keys
             /\ \/ Dead(k)'
                \/ /\ io'[k] = "held" /\ Allocated(k)'
                   /\ k \notin Owns(w)'
                   /\ \A u \in Workers : u # v => k \notin Owns(u)
  <2>1. k \in Keys
    BY <1>3 DEF OwnerInv, Hold
  <2>2. CASE Dead(k)
    BY <2>1, <2>2
  <2>3. CASE ~Dead(k)
    <3>1. io[k] = "held" /\ Allocated(k) /\ \A u \in Workers : u # v => k \notin Owns(u)
      BY <1>3, <2>3 DEF OwnerInv, Hold
    <3>2. k \notin Owns(w) \union new
      BY <2>3, <3>1
    <3>3. Allocated(k)'
      BY <3>1, <3>2 DEF Allocated
    <3>4. QED
      BY <2>1, <3>1, <3>2, <3>3
  <2>4. QED
    BY <2>2, <2>3, <2>1
<1>4. Hold'
  <2>1. ASSUME NEW v \in Workers \ {w}, NEW k \in Owns(v)'
        PROVE  /\ k \in Keys
               /\ \/ Dead(k)'
                  \/ /\ io'[k] = "held" /\ Allocated(k)'
                     /\ \A u \in Workers : u # v => k \notin Owns(u)'
    <3>1. k \in Owns(v)
      BY <1>1, <2>1
    <3>2. QED
      BY <1>1, <1>3, <3>1
  <2>2. ASSUME NEW k \in Owns(w)'
        PROVE  /\ k \in Keys
               /\ \/ Dead(k)'
                  \/ /\ io'[k] = "held" /\ Allocated(k)'
                     /\ \A u \in Workers : u # w => k \notin Owns(u)'
    <3>1. k \in Keys
      BY <2>2 DEF OwnerInv, Hold
    <3>2. ASSUME NEW u \in Workers \ {w}, k \in Owns(u)'
          PROVE  Dead(k)'
      BY <1>1, <1>3, <2>2, <3>2
    <3>3. QED
      BY <2>2, <3>1, <3>2
  <2>3. QED
    BY <2>1, <2>2 DEF Hold, Keys
<1>5. BusyAllocated'
  <2>1. ASSUME NEW k \in Keys, io'[k] \in Busy, k \notin Owns(w) \union new
        PROVE  Allocated(k)' \/ Dead(k)'
    BY <2>1 DEF OwnerInv, BusyAllocated, Allocated
  <2>2. QED
    BY <2>1 DEF BusyAllocated, Keys
<1>6. Swept'
  <2>1. Listen \in Keys
    BY DEF Keys
  <2>2. QED
    BY <1>2, <2>1 DEF OwnerInv, Swept
<1>7. AllGone'
  BY <1>2 DEF OwnerInv, AllGone
<1>8. QED
  BY <1>4, <1>5, <1>6, <1>7 DEF OwnerInv

\* A worker keeps what it has, or lets go of some of it, which it may free.
LEMMA Keeps ==
  ASSUME OwnerInv, NEW w \in Workers, pc[w] # "exited",
         Moves(w), Shapes', Owns(w)' \subseteq Owns(w),
         \A k \in Keys : k \notin Owns(w) \/ k \in Owns(w)' => io'[k] = io[k],
         \A k \in Keys : sock'[k] \in {sock[k], NULL},
         \A k \in alive \ alive' : k \in Owns(w) /\ k \notin Owns(w)' /\ io'[k] \notin Busy,
         \A k \in Owns(w) : io'[k] = "pending" => ~Dead(k)
  PROVE  OwnerInv'
<1>1. ASSUME NEW k \in Keys, Dead(k)
      PROVE  Dead(k)'
  BY <1>1 DEF Dead, Moves
<1>2. ASSUME NEW k \in Owns(w)
      PROVE  /\ k \in Keys /\ (Dead(k) \/ (io[k] = "held" /\ Allocated(k)))
             /\ Allocated(k) => Allocated(k)' \/ (k \notin Owns(w)' /\ io'[k] \notin Busy)
  BY <1>2 DEF OwnerInv, Hold, Allocated
<1>3. ASSUME NEW k \in Owns(w)'
      PROVE  Dead(k)' \/ (io'[k] = "held" /\ Allocated(k)')
  BY <1>1, <1>2, <1>3
<1>4. ASSUME NEW k \in Owns(w), io'[k] \in Busy
      PROVE  Allocated(k)' \/ Dead(k)'
  BY <1>1, <1>2, <1>4
<1>5. Hands(w, {})
  BY <1>1, <1>3, <1>4 DEF Hands
<1>6. QED
  BY <1>5, Handed

\* Ownership through a step in which no worker moves and nothing that is held
\* changes hands.
LEMMA Untouched ==
  ASSUME OwnerInv, Shapes', UNCHANGED workVars, Swept', AllGone',
         \A k \in Keys : /\ io[k] = "held" => io'[k] = "held"
                         /\ io'[k] \in Busy => io[k] \in Busy
                         /\ Dead(k) => Dead(k)'
                         /\ Allocated(k) => Allocated(k)' \/ Dead(k)'
  PROVE  OwnerInv'
<1>1. \A w \in Workers : Owns(w)' = Owns(w)
  BY DEF workVars, Owns
<1>2. Hold'
  <2>1. ASSUME NEW w \in Workers, NEW k \in Owns(w)
        PROVE  /\ k \in Keys
               /\ \/ Dead(k)'
                  \/ /\ io'[k] = "held" /\ Allocated(k)'
                     /\ \A v \in Workers : v # w => k \notin Owns(v)
    BY <2>1 DEF OwnerInv, Hold
  <2>2. QED
    BY <1>1, <2>1 DEF Hold, Keys
<1>3. BusyAllocated'
  BY DEF OwnerInv, BusyAllocated, Keys
<1>4. QED
  BY <1>2, <1>3 DEF OwnerInv

-----------------------------------------------------------------------------
\* A worker goes back to the port, where it has nothing, or to a statement.
LEMMA WorkerStep ==
  ASSUME Shapes, NEW w \in Workers, NEW l, UNCHANGED <<main, timedOut>>,
         Loop(w) \/ (Goto(w, l) /\ UNCHANGED <<cur, acc>>)
  PROVE  /\ Moves(w)
         /\ pc' = [v \in Workers |-> pc'[v]] /\ cur' = [v \in Workers |-> cur'[v]]
         /\ acc' = [v \in Workers |-> acc'[v]] /\ \A v \in Workers : acc'[v] # Listen
         /\ Loop(w) => Owns(w)' = {}
         /\ Goto(w, l) => pc'[w] = l
<1>1. CASE Loop(w)
  <2>1. /\ pc' = [pc EXCEPT ![w] = "wait"] /\ cur' = [cur EXCEPT ![w] = NULL]
        /\ acc' = [acc EXCEPT ![w] = NULL]
    BY <1>1 DEF Loop, Goto
  <2>2. pc'[w] = "wait"
    BY <2>1 DEF Shapes
  <2>3. Owns(w)' = {}
    BY <2>2 DEF Owns
  <2>4. QED
    BY <2>1, <2>3, EchoServerAssumption DEF Shapes, Moves, Goto
<1>2. CASE Goto(w, l) /\ UNCHANGED <<cur, acc>>
  <2>1. pc' = [pc EXCEPT ![w] = l]
    BY <1>2 DEF Goto
  <2>2. pc'[w] = l
    BY <2>1 DEF Shapes
  <2>3. Loop(w) => l = "wait"
    BY <2>2 DEF Loop, Goto, Shapes
  <2>4. Loop(w) => Owns(w)' = {}
    BY <2>2, <2>3 DEF Owns
  <2>5. QED
    BY <1>2, <2>1, <2>2, <2>4 DEF Shapes, Moves
<1>3. QED
  BY <1>1, <1>2

\* The operation of one key changes.
LEMMA IoShape ==
  ASSUME Shapes, NEW k \in Keys, NEW x, io' = [io EXCEPT ![k] = x]
  PROVE  io' = [j \in Keys |-> io'[j]] /\ io'[k] = x /\ \A j \in Keys \ {k} : io'[j] = io[j]
BY DEF Shapes

\* The socket of a key is closed, or stays.
LEMMA SockShape ==
  ASSUME Shapes, NEW k, sock' = sock \/ sock' = [sock EXCEPT ![k] = NULL]
  PROVE  sock' = [j \in Keys |-> sock'[j]] /\ \A j \in Keys : sock'[j] \in {sock[j], NULL}
BY DEF Shapes

\* What the handlers write to a context leaves it an operation.
LEMMA CtxShape ==
  ASSUME Shapes, NEW c, NEW n, NEW s, NEW b,
         \/ ctx' = ctx
         \/ ctx' = [ctx EXCEPT ![c] = Zeroed]
         \/ ctx' = [ctx EXCEPT ![c].buf = b]
         \/ ctx' = [ctx EXCEPT ![c].op = "Write", ![c].total = n, ![c].sent = 0]
         \/ ctx' = [ctx EXCEPT ![c].sent = s, ![c].op = IF s < ctx[c].total THEN "Write" ELSE "Read"]
         \/ ctx' = [ctx EXCEPT ![c] = [op |-> "Write", total |-> n, sent |-> 0, buf |-> b]]
         \/ ctx' = [ctx EXCEPT ![c] = [@ EXCEPT !.op = "Read"]]
  PROVE  /\ ctx' = [k \in Keys |-> ctx'[k]]
         /\ \A k \in Keys : "op" \in DOMAIN ctx'[k] /\ ctx'[k].op \in Ops
<1>1. "op" \in DOMAIN Zeroed /\ Zeroed.op \in Ops
  BY DEF Zeroed, Ops
<1>2. CASE ctx' = [ctx EXCEPT ![c] = Zeroed]
  BY <1>1, <1>2 DEF Shapes
<1>3. CASE ctx' = [ctx EXCEPT ![c].buf = b]
  BY <1>3 DEF Shapes
<1>4. CASE ctx' = [ctx EXCEPT ![c].op = "Write", ![c].total = n, ![c].sent = 0]
  <2>1. ctx' = [k \in Keys |-> IF k = c THEN [ctx[k] EXCEPT !.op = "Write", !.total = n, !.sent = 0]
                               ELSE ctx[k]]
    BY <1>4 DEF Shapes
  <2>2. ASSUME NEW x, "op" \in DOMAIN x
        PROVE  LET y == [x EXCEPT !.op = "Write", !.total = n, !.sent = 0]
               IN  "op" \in DOMAIN y /\ y.op = "Write"
    BY <2>2
  <2>3. "Write" \in Ops
    BY DEF Ops
  <2>4. QED
    BY <2>1, <2>2, <2>3 DEF Shapes
<1>5. CASE ctx' = [ctx EXCEPT ![c].sent = s, ![c].op = IF s < ctx[c].total THEN "Write" ELSE "Read"]
  <2>1. PICK o \in Ops : o = IF s < ctx[c].total THEN "Write" ELSE "Read"
    BY DEF Ops
  <2>2. ctx' = [k \in Keys |-> IF k = c THEN [ctx[k] EXCEPT !.sent = s, !.op = o] ELSE ctx[k]]
    BY <1>5, <2>1 DEF Shapes
  <2>3. ASSUME NEW x, "op" \in DOMAIN x
        PROVE  LET y == [x EXCEPT !.sent = s, !.op = o]
               IN  "op" \in DOMAIN y /\ y.op = o
    BY <2>3
  <2>4. QED
    BY <2>1, <2>2, <2>3 DEF Shapes
<1>6. CASE ctx' = [ctx EXCEPT ![c] = [op |-> "Write", total |-> n, sent |-> 0, buf |-> b]]
  BY <1>6 DEF Shapes, Ops
<1>7. CASE ctx' = [ctx EXCEPT ![c] = [@ EXCEPT !.op = "Read"]]
  BY <1>7 DEF Shapes, Ops
<1>8. CASE ctx' = ctx
  BY <1>8 DEF Shapes
<1>9. QED
  BY <1>2, <1>3, <1>4, <1>5, <1>6, <1>7, <1>8

-----------------------------------------------------------------------------
\* GetQueuedCompletionStatus hands a packet to one worker.
LEMMA DequeueOwner ==
  ASSUME OwnerInv, NEW w \in Workers, NEW key \in Keys, Dequeue(w, key)
  PROVE  OwnerInv'
<1>1. /\ pc[w] = "wait" /\ io[key] = "done" /\ io' = [io EXCEPT ![key] = "held"]
      /\ cur' = [cur EXCEPT ![w] = key] /\ Goto(w, "check")
      /\ UNCHANGED <<alive, ctx, acc, sock, main, timedOut>>
  BY DEF Dequeue, listVars, endVars
<1>2. Shapes
  BY DEF OwnerInv
<1>3. /\ pc' = [v \in Workers |-> pc'[v]] /\ pc'[w] = "check"
      /\ \A v \in Workers \ {w} : pc'[v] = pc[v]
  BY <1>1, <1>2 DEF Goto, Shapes
<1>4. io' = [j \in Keys |-> io'[j]] /\ io'[key] = "held" /\ \A j \in Keys \ {key} : io'[j] = io[j]
  BY <1>1, <1>2, IoShape
<1>5. /\ cur' = [v \in Workers |-> cur'[v]] /\ cur'[w] = key
      /\ \A v \in Workers \ {w} : cur'[v] = cur[v]
  BY <1>1, <1>2 DEF Shapes
<1>6. Shapes'
  BY <1>1, <1>2, <1>3, <1>4, <1>5 DEF Shapes
<1>7. Moves(w)
  BY <1>1, <1>3, <1>5 DEF Moves
<1>8. Owns(w) = {} /\ Owns(w)' = {key}
  BY <1>1, <1>3, <1>5 DEF Owns
<1>9. \A k \in Keys : Dead(k) => Dead(k)'
  BY <1>1, <1>4 DEF Dead
<1>10. Allocated(key)' \/ Dead(key)'
  BY <1>1, <1>9 DEF OwnerInv, BusyAllocated, Busy, Allocated
<1>11. Hands(w, {key})
  BY <1>1, <1>4, <1>8, <1>9, <1>10 DEF Hands
<1>12. QED
  BY <1>1, <1>6, <1>7, <1>11, Handed

\* The tests before the switch.
LEMMA CheckOwner ==
  ASSUME OwnerInv, NEW w \in Workers, Check(w)
  PROVE  OwnerInv'
<1>1. Shapes
  BY DEF OwnerInv
<1>2. /\ pc[w] = "check" /\ Owns(w) = {cur[w]} /\ cur[w] \in Keys
      /\ UNCHANGED <<alive, cur, acc, ctx, sock, main, timedOut>>
  BY DEF Check, listVars, endVars, Owns, OwnerInv, Hold
<1>3. CASE bEnd
  <2>1. Goto(w, "exited") /\ io' = [io EXCEPT ![cur[w]] = "none"]
    BY <1>3 DEF Check
  <2>2. /\ Moves(w) /\ pc' = [v \in Workers |-> pc'[v]] /\ pc'[w] = "exited"
    BY <1>1, <1>2, <2>1, WorkerStep
  <2>3. Owns(w)' = {}
    BY <2>2 DEF Owns
  <2>4. io' = [k \in Keys |-> io'[k]] /\ io'[cur[w]] = "none" /\ \A k \in Keys \ {cur[w]} : io'[k] = io[k]
    BY <1>1, <1>2, <2>1, IoShape
  <2>5. Shapes'
    BY <1>1, <1>2, <2>2, <2>4 DEF Shapes
  <2>6. QED
    BY <1>2, <2>2, <2>3, <2>4, <2>5, Keeps
<1>4. CASE ~bEnd
  <2> DEFINE l == IF cur[w] = Listen THEN "accept"
                  ELSE IF ~res[cur[w]].ok \/ res[cur[w]].n = 0 THEN "close" ELSE ctx[cur[w]].op
  <2>1. Goto(w, l) /\ io' = io
    BY <1>4 DEF Check
  <2>2. /\ Moves(w) /\ pc' = [v \in Workers |-> pc'[v]] /\ pc'[w] = l
    BY <1>1, <1>2, <2>1, WorkerStep
  <2>3. Owns(w)' \subseteq {cur[w]}
    <3>1. CASE cur[w] = Listen
      BY <1>2, <2>2, <3>1 DEF Owns
    <3>2. CASE cur[w] # Listen /\ l = "close"
      BY <1>2, <2>2, <3>2 DEF Owns
    <3>3. CASE cur[w] # Listen /\ l # "close"
      <4>1. pc'[w] \in Ops
        BY <1>1, <1>2, <2>2, <3>3 DEF Shapes
      <4>2. QED
        BY <1>2, <4>1 DEF Owns, Ops
    <3>4. QED
      BY <3>1, <3>2, <3>3
  <2>4. Shapes'
    BY <1>1, <1>2, <2>1, <2>2 DEF Shapes
  <2>5. \A k \in Owns(w) : io'[k] = "pending" => ~Dead(k)
    BY <2>1 DEF Dead
  <2>6. QED
    BY <1>2, <2>1, <2>2, <2>3, <2>4, <2>5, Keeps
<1>5. QED
  BY <1>3, <1>4

\* WSASend and WSARecv, once they are posted, take the context away.
LEMMA SentOwner ==
  ASSUME OwnerInv, NEW w \in Workers, ReadDone(w) \/ WriteDone(w)
  PROVE  OwnerInv'
<1> DEFINE c == cur[w]
<1>1. Shapes
  BY DEF OwnerInv
<1>2. /\ pc[w] \in {"Read", "Write"} /\ Owns(w) = {c} /\ c \in Keys
      /\ UNCHANGED <<alive, sock, main, timedOut>>
      /\ Post(w, c, sock[c], AfterPost, "close")
  BY DEF ReadDone, WriteDone, listVars, endVars, Owns, OwnerInv, Hold
<1>3. /\ ctx' = [k \in Keys |-> ctx'[k]]
      /\ \A k \in Keys : "op" \in DOMAIN ctx'[k] /\ ctx'[k].op \in Ops
  <2>1. CASE ReadDone(w)
    <3>1. ctx' = [ctx EXCEPT ![c].op = "Write", ![c].total = res[c].n, ![c].sent = 0]
      BY <2>1 DEF ReadDone
    <3>2. QED
      BY <1>1, <3>1, CtxShape
  <2>2. CASE WriteDone(w)
    <3> DEFINE sent == ctx[c].sent + res[c].n
    <3>1. ctx' = [ctx EXCEPT ![c].sent = sent, ![c].op = IF sent < ctx[c].total THEN "Write" ELSE "Read"]
      BY <2>2 DEF WriteDone
    <3> HIDE DEF sent
    <3>2. QED
      BY <1>1, <3>1, CtxShape
  <2>3. QED
    BY <2>1, <2>2
<1>4. CASE /\ sock[c] # NULL /\ io' = [io EXCEPT ![c] = "pending"]
           /\ Loop(w) \/ (Goto(w, "log") /\ UNCHANGED <<cur, acc>>)
  <2>1. /\ Moves(w) /\ pc' = [v \in Workers |-> pc'[v]] /\ cur' = [v \in Workers |-> cur'[v]]
        /\ acc' = [v \in Workers |-> acc'[v]] /\ \A v \in Workers : acc'[v] # Listen
        /\ Loop(w) => Owns(w)' = {}
        /\ Goto(w, "log") => pc'[w] = "log"
    BY <1>1, <1>2, <1>4, WorkerStep
  <2>2. Owns(w)' = {}
    BY <1>4, <2>1 DEF Owns
  <2>3. io' = [k \in Keys |-> io'[k]] /\ \A k \in Keys \ {c} : io'[k] = io[k]
    BY <1>1, <1>2, <1>4, IoShape
  <2>4. Shapes'
    BY <1>1, <1>2, <1>3, <2>1, <2>3 DEF Shapes
  <2>5. ~Dead(c)
    BY <1>4 DEF Dead
  <2>6. QED
    BY <1>2, <2>1, <2>2, <2>3, <2>4, <2>5, Keeps
<1>5. CASE Goto(w, "close") /\ UNCHANGED <<io, cur, acc>>
  <2>1. /\ Moves(w) /\ pc' = [v \in Workers |-> pc'[v]] /\ pc'[w] = "close"
    BY <1>1, <1>2, <1>5, WorkerStep
  <2>2. Owns(w)' = {c}
    BY <1>5, <2>1 DEF Owns
  <2>3. Shapes'
    BY <1>1, <1>2, <1>3, <1>5, <2>1 DEF Shapes
  <2>4. io'[c] = "pending" => ~Dead(c)
    BY <1>5 DEF Dead
  <2>5. QED
    BY <1>2, <1>5, <2>1, <2>2, <2>3, <2>4, Keeps
<1>6. QED
  BY <1>2, <1>4, <1>5 DEF Post, AfterPost

\* A worker frees the client context it has: CloseClient, and the accept
\* handler after a failure, which keeps the listening context or drops it too.
LEMMA FreesOwner ==
  ASSUME OwnerInv, NEW w \in Workers, NEW l, NEW c, pc[w] # "exited", c \in Owns(w),
         UNCHANGED <<ctx, main, timedOut>>,
         Loop(w) \/ (Goto(w, l) /\ UNCHANGED <<cur, acc>>),
         Owns(w)' \subseteq Owns(w) \ {c}, alive' = alive \ {c},
         sock' = [sock EXCEPT ![c] = NULL],
         \/ io' = [io EXCEPT ![c] = "none"]
         \/ Owns(w)' = {} /\ io' = [io EXCEPT ![Listen] = "none", ![c] = "none"] /\ Listen \in Owns(w)
  PROVE  OwnerInv'
<1>1. Shapes /\ c \in Keys /\ Listen \in Keys
  BY DEF OwnerInv, Hold, Keys
<1>2. /\ Moves(w) /\ pc' = [v \in Workers |-> pc'[v]] /\ cur' = [v \in Workers |-> cur'[v]]
      /\ acc' = [v \in Workers |-> acc'[v]] /\ \A v \in Workers : acc'[v] # Listen
  BY <1>1, WorkerStep
<1>3. /\ io' = [k \in Keys |-> io'[k]] /\ io'[c] = "none"
      /\ \A k \in Keys \ {c} : io'[k] = io[k] \/ (k \in Owns(w) /\ Owns(w)' = {} /\ io'[k] = "none")
  BY <1>1 DEF Shapes
<1>4. sock' = [k \in Keys |-> sock'[k]] /\ \A k \in Keys : sock'[k] \in {sock[k], NULL}
  BY <1>1, SockShape
<1>5. Shapes'
  BY <1>1, <1>2, <1>3, <1>4 DEF Shapes
<1>6. \A k \in Owns(w) : io'[k] = "pending" => ~Dead(k)
  BY <1>3 DEF Dead, OwnerInv, Hold
<1>7. QED
  BY <1>2, <1>3, <1>4, <1>5, <1>6, Keeps DEF Busy

LEMMA CloseOwner ==
  ASSUME OwnerInv, NEW w \in Workers, Close(w) \/ AcceptClose(w) \/ AcceptAssociateFails(w)
  PROVE  OwnerInv'
<1>1. Shapes
  BY DEF OwnerInv
<1>2. CASE Close(w)
  <2>1. /\ pc[w] = "close" /\ Owns(w) = {cur[w]} /\ alive' = alive \ {cur[w]}
        /\ sock' = [sock EXCEPT ![cur[w]] = NULL]
        /\ io' = [io EXCEPT ![cur[w]] = "none"] /\ Loop(w)
        /\ UNCHANGED <<ctx, main, timedOut>>
    BY <1>2, HeapEffects DEF Close, Owns, endVars
  <2>2. Owns(w)' = {}
    BY <1>1, <2>1, WorkerStep
  <2>3. QED
    BY <2>1, <2>2, FreesOwner
<1>3. CASE AcceptClose(w)
  <2>1. /\ pc[w] = "acceptclose" /\ Owns(w) = {Listen, acc[w]} /\ alive' = alive \ {acc[w]}
        /\ sock' = [sock EXCEPT ![acc[w]] = NULL] /\ acc[w] # Listen
        /\ io' = [io EXCEPT ![acc[w]] = "none"] /\ Goto(w, "rearm")
        /\ UNCHANGED <<ctx, cur, acc, main, timedOut>>
    BY <1>1, <1>3, HeapEffects DEF AcceptClose, Owns, endVars, Shapes
  <2>2. pc'[w] = "rearm"
    BY <1>1, <2>1, WorkerStep
  <2>3. Owns(w)' = {Listen}
    BY <2>2 DEF Owns
  <2>4. QED
    BY <2>1, <2>3, FreesOwner
<1>4. CASE AcceptAssociateFails(w)
  <2>1. /\ pc[w] = "associate" /\ Owns(w) = {Listen, acc[w]} /\ alive' = alive \ {acc[w]}
        /\ sock' = [sock EXCEPT ![acc[w]] = NULL] /\ acc[w] # Listen
        /\ io' = [io EXCEPT ![Listen] = "none", ![acc[w]] = "none"] /\ Goto(w, "exited")
        /\ UNCHANGED <<ctx, cur, acc, main, timedOut>>
    BY <1>1, <1>4, HeapEffects DEF AcceptAssociateFails, GiveUp, Owns, Shapes
  <2>2. pc'[w] = "exited"
    BY <1>1, <2>1, WorkerStep
  <2>3. Owns(w)' = {}
    BY <2>2 DEF Owns
  <2>4. QED
    BY <2>1, <2>3, FreesOwner
<1>5. QED
  BY <1>2, <1>3, <1>4

\* A worker gives up after a failure, and drops the listening context.
LEMMA GiveUpOwner ==
  ASSUME OwnerInv, NEW w \in Workers, pc[w] # "exited", Goto(w, "exited"), Owns(w) = {Listen},
         UNCHANGED <<alive, cur, acc, ctx, main, timedOut>>,
         io' = [io EXCEPT ![Listen] = "none"],
         sock' = sock \/ sock' = [sock EXCEPT ![Listen] = NULL]
  PROVE  OwnerInv'
<1>1. Shapes /\ Listen \in Keys
  BY DEF OwnerInv, Keys
<1>2. Moves(w) /\ pc' = [v \in Workers |-> pc'[v]] /\ pc'[w] = "exited"
  BY <1>1, WorkerStep
<1>3. Owns(w)' = {}
  BY <1>2 DEF Owns
<1>4. io' = [k \in Keys |-> io'[k]] /\ io'[Listen] = "none" /\ \A k \in Keys \ {Listen} : io'[k] = io[k]
  BY <1>1, IoShape
<1>5. sock' = [k \in Keys |-> sock'[k]] /\ \A k \in Keys : sock'[k] \in {sock[k], NULL}
  BY <1>1, SockShape
<1>6. Shapes'
  BY <1>1, <1>2, <1>4, <1>5 DEF Shapes
<1>7. QED
  BY <1>2, <1>3, <1>4, <1>5, <1>6, Keeps

LEMMA GivesUpOwner ==
  ASSUME OwnerInv, NEW w \in Workers, AcceptAllocateFails(w) \/ RearmFails(w)
  PROVE  OwnerInv'
<1>1. /\ pc[w] \in {"allocate", "rearm"} /\ Goto(w, "exited") /\ Owns(w) = {Listen}
      /\ UNCHANGED <<alive, cur, acc, ctx, main, timedOut>>
      /\ io' = [io EXCEPT ![Listen] = "none"]
      /\ sock' = sock \/ sock' = [sock EXCEPT ![Listen] = NULL]
  BY HeapEffects DEF AcceptAllocateFails, RearmFails, GiveUp, listVars, Owns
<1>2. QED
  BY <1>1, GiveUpOwner

\* A worker leaves, or goes back to the port, and has had nothing.
LEMMA LeavesOwner ==
  ASSUME OwnerInv, NEW w \in Workers, DequeueQuit(w) \/ PortGone(w) \/ Log(w)
  PROVE  OwnerInv'
<1>1. Shapes
  BY DEF OwnerInv
<1>2. /\ pc[w] \in {"wait", "log"} /\ Owns(w) = {} /\ UNCHANGED <<alive, io, sock, ctx, main, timedOut>>
      /\ Loop(w) \/ (Goto(w, "exited") /\ UNCHANGED <<cur, acc>>)
  BY DEF DequeueQuit, PortGone, Log, listVars, ioVars, endVars, Owns
<1>3. /\ Moves(w) /\ pc' = [v \in Workers |-> pc'[v]] /\ cur' = [v \in Workers |-> cur'[v]]
      /\ acc' = [v \in Workers |-> acc'[v]] /\ \A v \in Workers : acc'[v] # Listen
      /\ Loop(w) => Owns(w)' = {}
      /\ Goto(w, "exited") => pc'[w] = "exited"
  BY <1>1, <1>2, WorkerStep
<1>4. Owns(w)' = {}
  BY <1>2, <1>3 DEF Owns
<1>5. Shapes'
  BY <1>1, <1>2, <1>3 DEF Shapes
<1>6. QED
  BY <1>2, <1>3, <1>4, <1>5, Keeps

\* The worker that takes a connection, as far as the new context.
LEMMA AcceptUpdateOwner ==
  ASSUME OwnerInv, NEW w \in Workers, AcceptUpdate(w)
  PROVE  OwnerInv'
<1>1. Shapes
  BY DEF OwnerInv
<1>2. /\ pc[w] = "accept" /\ Owns(w) = {Listen}
      /\ UNCHANGED <<alive, cur, acc, ctx, sock, main, timedOut>>
  BY DEF AcceptUpdate, listVars, endVars, GiveUp, Owns
<1>3. CASE Goto(w, "allocate") /\ io' = io
  <2>1. /\ Moves(w) /\ pc' = [v \in Workers |-> pc'[v]] /\ pc'[w] = "allocate"
    BY <1>1, <1>2, <1>3, WorkerStep
  <2>2. Owns(w)' = {Listen}
    BY <2>1 DEF Owns
  <2>3. Shapes'
    BY <1>1, <1>2, <1>3, <2>1 DEF Shapes
  <2>4. \A k \in Owns(w) : io'[k] = "pending" => ~Dead(k)
    BY <1>3 DEF Dead
  <2>5. QED
    BY <1>2, <1>3, <2>1, <2>2, <2>3, <2>4, Keeps
<1>4. CASE Goto(w, "exited") /\ io' = [io EXCEPT ![Listen] = "none"]
  BY <1>2, <1>4, GiveUpOwner
<1>5. QED
  BY <1>3, <1>4 DEF AcceptUpdate, GiveUp, endVars

\* After a timeout, an address that was freed in the cleanup may be handed out
\* to one worker while another still uses it; it gets no socket then.
LEMMA AcceptAllocateOwner ==
  ASSUME OwnerInv, NEW w \in Workers, NEW c \in Ctx, AcceptAllocate(w, c)
  PROVE  OwnerInv'
<1>1. Shapes
  BY DEF OwnerInv
<1>2. /\ pc[w] = "allocate" /\ Owns(w) = {Listen} /\ Listen \in Keys /\ c \in Keys /\ c # Listen
      /\ c \notin alive /\ alive' = alive \union {c}
      /\ acc' = [acc EXCEPT ![w] = c] /\ ctx' = [ctx EXCEPT ![c] = Zeroed]
      /\ io' = [io EXCEPT ![c] = "held"] /\ Goto(w, "associate")
      /\ sock' = [sock EXCEPT ![c] = sock[Listen]]
      /\ UNCHANGED <<cur, main, timedOut>>
  BY HeapEffects, EchoServerAssumption DEF AcceptAllocate, endVars, Owns, Keys
<1>3. /\ pc' = [v \in Workers |-> pc'[v]] /\ pc'[w] = "associate"
      /\ \A v \in Workers \ {w} : pc'[v] = pc[v]
  BY <1>1, <1>2 DEF Goto, Shapes
<1>4. /\ acc' = [v \in Workers |-> acc'[v]] /\ acc'[w] = c
      /\ \A v \in Workers \ {w} : acc'[v] = acc[v]
  BY <1>1, <1>2 DEF Shapes
<1>5. io' = [k \in Keys |-> io'[k]] /\ io'[c] = "held" /\ \A k \in Keys \ {c} : io'[k] = io[k]
  BY <1>1, <1>2, IoShape
<1>6. /\ ctx' = [k \in Keys |-> ctx'[k]]
      /\ \A k \in Keys : "op" \in DOMAIN ctx'[k] /\ ctx'[k].op \in Ops
  BY <1>1, <1>2, CtxShape
<1>7. \A v \in Workers : acc'[v] # Listen
  BY <1>1, <1>2, <1>4 DEF Shapes
<1>8. /\ sock' = [k \in Keys |-> sock'[k]] /\ sock'[c] = sock[Listen]
      /\ \A k \in Keys \ {c} : sock'[k] = sock[k]
  BY <1>1, <1>2 DEF Shapes
<1>9. Shapes'
  BY <1>1, <1>2, <1>3, <1>4, <1>5, <1>6, <1>7, <1>8 DEF Shapes
<1>10. Moves(w)
  BY <1>2, <1>3, <1>4 DEF Moves
<1>11. Owns(w)' = {Listen, c}
  BY <1>3, <1>4 DEF Owns
<1>12. \A k \in Keys : Dead(k) => Dead(k)'
  BY <1>2, <1>5, <1>8 DEF Dead, OwnerInv, Swept
<1>13. io[c] = "held" => Dead(c)
  BY <1>2 DEF OwnerInv, BusyAllocated, Allocated, Busy
<1>14. Dead(Listen)' \/ io'[Listen] = "held"
  BY <1>2, <1>5, <1>12 DEF OwnerInv, Hold
<1>15. Hands(w, {c})
  BY <1>2, <1>5, <1>11, <1>12, <1>13, <1>14 DEF Hands, Allocated
<1>16. QED
  BY <1>2, <1>9, <1>10, <1>15, Handed

LEMMA AcceptAssociateOwner ==
  ASSUME OwnerInv, NEW w \in Workers, AcceptAssociate(w)
  PROVE  OwnerInv'
<1>1. Shapes
  BY DEF OwnerInv
<1>2. /\ pc[w] = "associate" /\ Owns(w) = {Listen, acc[w]} /\ Goto(w, "post")
      /\ UNCHANGED <<alive, cur, acc, io, sock, ctx, main, timedOut>>
  BY HeapEffects DEF AcceptAssociate, ioVars, endVars, Owns
<1>3. Moves(w) /\ pc' = [v \in Workers |-> pc'[v]] /\ pc'[w] = "post"
  BY <1>1, <1>2, WorkerStep
<1>4. Owns(w)' = {Listen, acc[w]}
  BY <1>2, <1>3 DEF Owns
<1>5. Shapes'
  BY <1>1, <1>2, <1>3 DEF Shapes
<1>6. \A k \in Owns(w) : io'[k] = "pending" => ~Dead(k)
  BY <1>2 DEF Dead
<1>7. QED
  BY <1>2, <1>3, <1>4, <1>5, <1>6, Keeps

\* The first operation of the new context.
LEMMA AcceptPostOwner ==
  ASSUME OwnerInv, NEW w \in Workers, AcceptPost(w)
  PROVE  OwnerInv'
<1> DEFINE c == acc[w]
<1>1. Shapes
  BY DEF OwnerInv
<1>2. /\ pc[w] = "post" /\ Owns(w) = {Listen, c} /\ c \in Keys /\ c # Listen
      /\ UNCHANGED <<alive, sock, main, timedOut>>
      /\ Post(w, c, sock[c], "rearm", "acceptclose")
  BY <1>1 DEF AcceptPost, listVars, endVars, Owns, OwnerInv, Hold, Shapes
<1>3. /\ ctx' = [k \in Keys |-> ctx'[k]]
      /\ \A k \in Keys : "op" \in DOMAIN ctx'[k] /\ ctx'[k].op \in Ops
  <2> DEFINE n == res[Listen].n
  <2> DEFINE b == StringCopy(ctx[Listen].buf)
  <2>1. \/ ctx' = [ctx EXCEPT ![c] = [op |-> "Write", total |-> n, sent |-> 0, buf |-> b]]
        \/ ctx' = [ctx EXCEPT ![c] = [@ EXCEPT !.op = "Read"]]
    BY DEF AcceptPost
  <2> HIDE DEF c, n, b
  <2>2. CASE ctx' = [ctx EXCEPT ![c] = [op |-> "Write", total |-> n, sent |-> 0, buf |-> b]]
    BY <1>1, <2>2 DEF Shapes, Ops
  <2>3. CASE ctx' = [ctx EXCEPT ![c] = [@ EXCEPT !.op = "Read"]]
    BY <1>1, <2>3 DEF Shapes, Ops
  <2>4. QED
    BY <2>1, <2>2, <2>3
<1>4. CASE sock[c] # NULL /\ io' = [io EXCEPT ![c] = "pending"] /\ Goto(w, "rearm") /\ UNCHANGED <<cur, acc>>
  <2>1. Moves(w) /\ pc' = [v \in Workers |-> pc'[v]] /\ pc'[w] = "rearm"
    BY <1>1, <1>2, <1>4, WorkerStep
  <2>2. Owns(w)' = {Listen}
    BY <2>1 DEF Owns
  <2>3. io' = [k \in Keys |-> io'[k]] /\ \A k \in Keys \ {c} : io'[k] = io[k]
    BY <1>1, <1>2, <1>4, IoShape
  <2>4. Shapes'
    BY <1>1, <1>2, <1>3, <1>4, <2>1, <2>3 DEF Shapes
  <2>5. \A k \in Owns(w) : io'[k] = "pending" => ~Dead(k)
    BY <1>2, <1>4, <2>3 DEF Dead, OwnerInv, Hold
  <2>6. QED
    BY <1>2, <2>1, <2>2, <2>3, <2>4, <2>5, Keeps
<1>5. CASE Goto(w, "acceptclose") /\ UNCHANGED <<io, cur, acc>>
  <2>1. Moves(w) /\ pc' = [v \in Workers |-> pc'[v]] /\ pc'[w] = "acceptclose"
    BY <1>1, <1>2, <1>5, WorkerStep
  <2>2. Owns(w)' = {Listen, c}
    BY <1>5, <2>1 DEF Owns
  <2>3. Shapes'
    BY <1>1, <1>2, <1>3, <1>5, <2>1 DEF Shapes
  <2>4. \A k \in Owns(w) : io'[k] = "pending" => ~Dead(k)
    BY <1>5 DEF Dead
  <2>5. QED
    BY <1>2, <1>5, <2>1, <2>2, <2>3, <2>4, Keeps
<1>6. QED
  BY <1>2, <1>4, <1>5 DEF Post

\* AcceptEx takes the listening context away.
LEMMA RearmOwner ==
  ASSUME OwnerInv, NEW w \in Workers, Rearm(w) \/ RearmRefused(w)
  PROVE  OwnerInv'
<1>1. Shapes
  BY DEF OwnerInv
<1>2. /\ pc[w] = "rearm" /\ Owns(w) = {Listen} /\ Listen \in Keys /\ Loop(w)
      /\ \/ io' = [io EXCEPT ![Listen] = "pending"] /\ ~Dead(Listen)
         \/ io' = [io EXCEPT ![Listen] = "refused"]
      /\ ctx' = ctx \/ ctx' = [ctx EXCEPT ![Listen] = Zeroed]
      /\ sock' = [sock EXCEPT ![Listen] = NULL]
      /\ UNCHANGED <<alive, main, timedOut>>
  BY DEF Rearm, RearmRefused, Listening, Dead, listVars, endVars, Owns, Keys
<1>3. /\ Moves(w) /\ pc' = [v \in Workers |-> pc'[v]] /\ cur' = [v \in Workers |-> cur'[v]]
      /\ acc' = [v \in Workers |-> acc'[v]] /\ \A v \in Workers : acc'[v] # Listen
      /\ Owns(w)' = {}
  BY <1>1, <1>2, WorkerStep
<1>4. /\ io' = [k \in Keys |-> io'[k]] /\ \A k \in Keys \ {Listen} : io'[k] = io[k]
      /\ io'[Listen] = "pending" => ~Dead(Listen)
  BY <1>1, <1>2, IoShape
<1>5. /\ ctx' = [k \in Keys |-> ctx'[k]]
      /\ \A k \in Keys : "op" \in DOMAIN ctx'[k] /\ ctx'[k].op \in Ops
  BY <1>1, <1>2, CtxShape
<1>6. sock' = [k \in Keys |-> sock'[k]] /\ \A k \in Keys : sock'[k] \in {sock[k], NULL}
  BY <1>1, <1>2, SockShape
<1>7. Shapes'
  BY <1>1, <1>2, <1>3, <1>4, <1>5, <1>6 DEF Shapes
<1>8. QED
  BY <1>2, <1>3, <1>4, <1>6, <1>7, Keeps

-----------------------------------------------------------------------------
\* Clients and TCP complete operations, which nobody has in hand.
LEMMA NetworkOwner ==
  ASSUME OwnerInv, Network
  PROVE  OwnerInv'
<1>1. Shapes
  BY DEF OwnerInv
<1>2. UNCHANGED <<alive, workVars, main, timedOut>>
  BY DEF Network, Connect, Reset, AcceptCompletes, RecvCompletes, SendCompletes, Aborts,
         listVars, endVars
<1> DEFINE Completes(key) ==
       /\ io[key] = "pending" /\ io' = [io EXCEPT ![key] = "done"]
       /\ ctx' = ctx \/ \E b : ctx' = [ctx EXCEPT ![key].buf = b]
       /\ sock' = sock \/ (key = Listen /\ \E s : sock' = [sock EXCEPT ![Listen] = s])
<1>3. UNCHANGED <<io, ctx, sock>> \/ \E key \in Keys : Completes(key)
  <2>1. ASSUME NEW k \in Clients, Connect(k) \/ Reset(k)
        PROVE  UNCHANGED <<io, ctx, sock>>
    BY <2>1 DEF Connect, Reset, ioVars
  <2>2. ASSUME AcceptCompletes
        PROVE  Completes(Listen)
    BY <2>2 DEF AcceptCompletes, Complete, Deliver
  <2>3. ASSUME NEW c \in Ctx, RecvCompletes(c) \/ SendCompletes(c)
        PROVE  Completes(c)
    <3>1. /\ io[c] = "pending" /\ io' = [io EXCEPT ![c] = "done"] /\ sock' = sock
          /\ ctx' = ctx \/ \E b : ctx' = [ctx EXCEPT ![c].buf = b]
      BY <2>3 DEF RecvCompletes, SendCompletes, Complete, Deliver
    <3>2. QED
      BY <3>1
  <2>4. ASSUME NEW key \in Keys, Aborts(key)
        PROVE  Completes(key)
    <3>1. /\ io[key] = "pending" /\ io' = [io EXCEPT ![key] = "done"]
          /\ ctx' = ctx /\ sock' = sock
      BY <2>4 DEF Aborts, Complete
    <3>2. QED
      BY <3>1
  <2>5. Ctx \subseteq Keys /\ Listen \in Keys
    BY DEF Keys
  <2> HIDE DEF Completes
  <2>6. QED
    BY <2>1, <2>2, <2>3, <2>4, <2>5 DEF Network
<1>4. AllGone'
  BY <1>2 DEF OwnerInv, AllGone, workVars
<1>5. CASE UNCHANGED <<io, ctx, sock>>
  <2>1. Shapes' /\ Swept' /\ \A k : (Dead(k) => Dead(k)') /\ (Allocated(k) => Allocated(k)')
    BY <1>1, <1>2, <1>5 DEF Shapes, workVars, OwnerInv, Swept, Dead, Allocated
  <2>2. QED
    BY <1>2, <1>4, <1>5, <2>1, Untouched
<1>6. ASSUME NEW key \in Keys, Completes(key)
      PROVE  OwnerInv'
  <2>1. io' = [k \in Keys |-> io'[k]] /\ io'[key] = "done" /\ \A k \in Keys \ {key} : io'[k] = io[k]
    BY <1>1, <1>6, IoShape
  <2>2. /\ ctx' = [k \in Keys |-> ctx'[k]]
        /\ \A k \in Keys : "op" \in DOMAIN ctx'[k] /\ ctx'[k].op \in Ops
    BY <1>1, <1>6, CtxShape
  <2>3. sock' = [k \in Keys |-> sock'[k]] /\ \A k \in Keys \ {key} : sock'[k] = sock[k]
    BY <1>1, <1>6 DEF Shapes
  <2>4. Shapes'
    BY <1>1, <1>2, <2>1, <2>2, <2>3 DEF Shapes, workVars
  <2>5. \A k \in Keys : Dead(k) => Dead(k)'
    BY <1>2, <1>6, <2>1, <2>3 DEF Dead
  <2>6. Swept'
    BY <1>2, <2>5 DEF OwnerInv, Swept, Keys
  <2>7. \A k \in Keys : Allocated(k) => Allocated(k)'
    BY <1>2 DEF Allocated
  <2>8. QED
    BY <1>2, <1>4, <1>6, <2>1, <2>4, <2>5, <2>6, <2>7, Untouched DEF Busy
<1>7. QED
  BY <1>3, <1>5, <1>6

\* main() takes the list when the workers have gone, or gave up waiting.
LEMMA MainOwner ==
  ASSUME OwnerInv, MainNext
  PROVE  OwnerInv'
<1>1. Shapes
  BY DEF OwnerInv
<1>2. UNCHANGED <<workVars, io, ctx>>
  BY DEF MainNext, MainWakes, MainJoins, MainTimesOut, MainSweeps, SweepCloses, SweepFrees,
         MainDone, ioVars
<1>3. \/ UNCHANGED <<alive, sock>> /\ (main' \in {"join", "drain"} \/ (main = "sweep" /\ main' = "done"))
      \/ /\ main' = "sweep" /\ alive' = alive /\ io[Listen] # "pending"
         /\ sock' = [sock EXCEPT ![Listen] = NULL]
      \/ main = "sweep" /\ main' = "sweep" /\ alive' = alive /\ sock' = [sock EXCEPT ![cursor] = NULL]
      \/ /\ main = "sweep" /\ main' = "sweep" /\ sock' = sock
         /\ alive' = alive \ {cursor} /\ sock[cursor] = NULL /\ io[cursor] # "pending"
  <2>1. CASE MainWakes \/ MainJoins \/ MainTimesOut
    <3>1. main' \in {"join", "drain"}
      BY <2>1 DEF MainWakes, MainJoins, MainTimesOut
    <3>2. UNCHANGED <<alive, sock>>
      BY <2>1 DEF MainWakes, MainJoins, MainTimesOut, ioVars, listVars
    <3>3. QED
      BY <3>1, <3>2
  <2>2. CASE MainSweeps
    BY <2>2 DEF MainSweeps, L!SweepBegin, L!listVars
  <2>3. CASE SweepCloses
    BY <2>3 DEF SweepCloses, listVars, endVars
  <2>4. CASE SweepFrees
    BY <2>4 DEF SweepFrees, L!SweepStep, L!Unlink, ioVars, endVars
  <2>5. CASE MainDone
    BY <2>5 DEF MainDone, L!SweepEnd, L!listVars, ioVars
  <2>6. QED
    BY <2>1, <2>2, <2>3, <2>4, <2>5 DEF MainNext
<1>4. AllGone'
  <2>1. CASE MainWakes
    BY <2>1 DEF MainWakes, AllGone
  <2>2. CASE MainJoins
    BY <2>2 DEF MainJoins, AllGone, Exited, workVars
  <2>3. CASE MainTimesOut
    BY <2>3 DEF MainTimesOut, AllGone
  <2>4. CASE MainSweeps \/ SweepCloses \/ SweepFrees \/ MainDone
    <3>1. main \notin {"serve", "join"} /\ timedOut' = timedOut /\ pc' = pc
      BY <2>4 DEF MainSweeps, SweepCloses, SweepFrees, MainDone, endVars, workVars
    <3>2. QED
      BY <3>1 DEF OwnerInv, AllGone
  <2>5. QED
    BY <2>1, <2>2, <2>3, <2>4 DEF MainNext
<1>5. sock' = [k \in Keys |-> sock'[k]] /\ \A k \in Keys : sock'[k] \in {sock[k], NULL}
  BY <1>1, <1>3, SockShape
<1>6. Shapes'
  BY <1>1, <1>2, <1>3, <1>5 DEF Shapes, workVars
<1>7. main \in {"sweep", "done"} => main' \in {"sweep", "done"}
  BY DEF MainNext, MainWakes, MainJoins, MainTimesOut, MainSweeps, SweepCloses, SweepFrees,
     MainDone, endVars
<1>8. \A k \in Keys : Dead(k) => Dead(k)'
  BY <1>2, <1>5, <1>7 DEF Dead
<1>9. Swept'
  <2>1. Listen \in Keys
    BY DEF Keys
  <2>2. CASE main \in {"sweep", "done"}
    BY <1>8, <2>1, <2>2 DEF OwnerInv, Swept
  <2>3. CASE main \notin {"sweep", "done"}
    BY <1>1, <1>2, <1>3, <2>1, <2>3 DEF Swept, Dead, Shapes
  <2>4. QED
    BY <2>2, <2>3
<1>10. \A k \in Keys : Allocated(k) => Allocated(k)' \/ Dead(k)'
  BY <1>2, <1>3 DEF Allocated, Dead
<1>11. QED
  BY <1>2, <1>4, <1>6, <1>8, <1>9, <1>10, Untouched

\* The control handler touches no context.
LEMMA CtrlOwner ==
  ASSUME OwnerInv, CtrlEnd \/ CtrlEvent \/ UNCHANGED vars
  PROVE  OwnerInv'
<1>1. UNCHANGED <<alive, workVars, io, sock, ctx, main, timedOut>>
  BY DEF CtrlEnd, CtrlEvent, vars, listVars, ioVars, endVars
<1>2. Shapes' /\ Swept' /\ AllGone' /\ \A k : (Dead(k) => Dead(k)') /\ (Allocated(k) => Allocated(k)')
  BY <1>1 DEF OwnerInv, Shapes, Swept, AllGone, Dead, Allocated, workVars
<1>3. QED
  BY <1>1, <1>2, Untouched

-----------------------------------------------------------------------------
\* Every step of the server preserves OwnerInv.
LEMMA OwnerNext == OwnerInv /\ [Next]_vars => OwnerInv'
<1> SUFFICES ASSUME OwnerInv, [Next]_vars PROVE OwnerInv'
  OBVIOUS
<1>1. CASE Network
  BY <1>1, NetworkOwner
<1>2. ASSUME NEW w \in Workers,
             DequeueQuit(w) \/ PortGone(w) \/ Works(w) \/ \E key \in Keys : Dequeue(w, key)
      PROVE  OwnerInv'
  <2>1. CASE DequeueQuit(w) \/ PortGone(w) \/ Log(w)
    BY <2>1, LeavesOwner
  <2>2. CASE \E key \in Keys : Dequeue(w, key)
    BY <2>2, DequeueOwner
  <2>3. CASE Check(w)
    BY <2>3, CheckOwner
  <2>4. CASE ReadDone(w) \/ WriteDone(w)
    BY <2>4, SentOwner
  <2>5. CASE Close(w) \/ AcceptClose(w) \/ AcceptAssociateFails(w)
    BY <2>5, CloseOwner
  <2>6. CASE AcceptUpdate(w)
    BY <2>6, AcceptUpdateOwner
  <2>7. CASE \E c \in Ctx : AcceptAllocate(w, c)
    BY <2>7, AcceptAllocateOwner
  <2>8. CASE AcceptAllocateFails(w) \/ RearmFails(w)
    BY <2>8, GivesUpOwner
  <2>9. CASE AcceptAssociate(w)
    BY <2>9, AcceptAssociateOwner
  <2>10. CASE AcceptPost(w)
    BY <2>10, AcceptPostOwner
  <2>11. CASE Rearm(w) \/ RearmRefused(w)
    BY <2>11, RearmOwner
  <2>12. QED
    BY <1>2, <2>1, <2>2, <2>3, <2>4, <2>5, <2>6, <2>7, <2>8, <2>9, <2>10, <2>11
       DEF Works, Accepting
<1>3. CASE CtrlEnd \/ CtrlEvent \/ UNCHANGED vars
  BY <1>3, CtrlOwner
<1>4. CASE MainNext
  BY <1>4, MainOwner
<1>5. QED
  BY <1>1, <1>2, <1>3, <1>4 DEF Next

(***************************************************************************)
(* WorkerThread, for every number of threads and connections: as long as   *)
(* main() waits for the workers, a context is one worker's at a time,      *)
(* which has its only operation in hand.                                   *)
(***************************************************************************)
THEOREM OneOwnerHolds == Spec => []OneOwner
<1>1. OwnerInv => OneOwner
  BY OwnerInvUsed
<1>2. QED
  BY <1>1, OwnerInit, OwnerNext, PTL DEF Spec

\* What a step frees has no operation posted, and its socket is closed.
LEMMA FreesCompleted ==
  ASSUME OwnerInv, Next, NEW c \in alive \ alive'
  PROVE  io[c] # "pending" /\ sock'[c] = NULL
<1>1. Shapes /\ c \in Keys
  BY DEF OwnerInv, Shapes, Keys
<1>2. ASSUME NEW w \in Workers, NEW k \in Owns(w), alive' = alive \ {k},
             sock' = [sock EXCEPT ![k] = NULL]
      PROVE  io[c] # "pending" /\ sock'[c] = NULL
  <2>1. c = k
    BY <1>2
  <2>2. io[k] # "pending"
    BY <1>2 DEF OwnerInv, Hold, Dead
  <2>3. QED
    BY <1>1, <1>2, <2>1, <2>2 DEF Shapes
<1>3. ASSUME NEW w \in Workers,
             DequeueQuit(w) \/ PortGone(w) \/ Works(w) \/ \E key \in Keys : Dequeue(w, key)
      PROVE  io[c] # "pending" /\ sock'[c] = NULL
  <2>1. CASE Close(w)
    <3>1. cur[w] \in Owns(w) /\ alive' = alive \ {cur[w]} /\ sock' = [sock EXCEPT ![cur[w]] = NULL]
      BY <2>1, HeapEffects DEF Close, Owns
    <3>2. QED
      BY <1>2, <3>1
  <2>2. CASE AcceptClose(w) \/ AcceptAssociateFails(w)
    <3>1. acc[w] \in Owns(w) /\ alive' = alive \ {acc[w]} /\ sock' = [sock EXCEPT ![acc[w]] = NULL]
      BY <2>2, HeapEffects DEF AcceptClose, AcceptAssociateFails, Owns
    <3>2. QED
      BY <1>2, <3>1
  <2>3. CASE (\E d \in Ctx : AcceptAllocate(w, d)) \/ AcceptAllocateFails(w) \/ AcceptAssociate(w)
    BY <2>3, HeapEffects DEF AcceptAllocate, AcceptAllocateFails, AcceptAssociate
  <2>4. CASE \/ DequeueQuit(w) \/ PortGone(w) \/ \E key \in Keys : Dequeue(w, key)
             \/ Check(w) \/ ReadDone(w) \/ WriteDone(w) \/ Log(w)
             \/ AcceptUpdate(w) \/ AcceptPost(w) \/ Rearm(w) \/ RearmRefused(w) \/ RearmFails(w)
    <3>1. UNCHANGED listVars
      BY <2>4 DEF DequeueQuit, PortGone, Dequeue, Check, ReadDone, WriteDone, Log,
         AcceptUpdate, AcceptPost, Rearm, RearmRefused, RearmFails
    <3>2. QED
      BY <3>1 DEF listVars
  <2>5. QED
    BY <1>3, <2>1, <2>2, <2>3, <2>4 DEF Works, Accepting
<1>4. CASE Network \/ CtrlEnd \/ CtrlEvent
  <2>1. UNCHANGED listVars
    BY <1>4 DEF Network, Connect, Reset, AcceptCompletes, RecvCompletes, SendCompletes, Aborts,
       CtrlEnd, CtrlEvent
  <2>2. QED
    BY <2>1 DEF listVars
<1>5. CASE MainNext
  <2>1. CASE SweepFrees
    BY <2>1 DEF SweepFrees, L!SweepStep, L!Unlink, ioVars
  <2>2. CASE MainWakes \/ MainJoins \/ MainTimesOut \/ SweepCloses
    BY <2>2 DEF MainWakes, MainJoins, MainTimesOut, SweepCloses, listVars
  <2>3. CASE MainSweeps \/ MainDone
    BY <2>3 DEF MainSweeps, MainDone, L!SweepBegin, L!SweepEnd, L!listVars
  <2>4. QED
    BY <1>5, <2>1, <2>2, <2>3 DEF MainNext
<1>6. QED
  BY <1>3, <1>4, <1>5 DEF Next

(***************************************************************************)
(* CloseClient, UpdateCompletionPort and CtxtListFree: whoever frees a     *)
(* context, before or after the wait for the workers timed out, its        *)
(* overlapped operation has completed and its socket is closed.            *)
(***************************************************************************)
THEOREM FreesOnlyCompletedHolds == Spec => FreesOnlyCompleted
<1>1. OwnerInv /\ [Next]_vars => [\A c \in alive \ alive' : io[c] # "pending" /\ sock'[c] = NULL]_vars
  BY FreesCompleted
<1>2. QED
  BY <1>1, OwnerInit, OwnerNext, PTL DEF Spec, FreesOnlyCompleted

-----------------------------------------------------------------------------
\* A worker at w's next statement.
LEMMA GotoShape ==
  ASSUME Shapes, NEW w \in Workers, NEW l, Goto(w, l)
  PROVE  pc' = [v \in Workers |-> pc'[v]] /\ pc'[w] = l /\ \A v \in Workers \ {w} : pc'[v] = pc[v]
BY DEF Goto, Shapes

\* A worker that goes back to the port.
LEMMA LoopShape ==
  ASSUME Shapes, NEW w \in Workers, Loop(w)
  PROVE  \A v \in Workers \ {w} : pc'[v] = pc[v] /\ cur'[v] = cur[v] /\ acc'[v] = acc[v]
BY DEF Loop, Goto, Shapes

\* A worker that handles a client's operation has a client's context.
ClientsOnly == \A w \in Workers : pc[w] \in {"Read", "Write", "close"} => cur[w] # Listen

Rests == {"pending", "done", "refused"}

\* The chain through a step of one worker.
LEMMA ChainStep ==
  ASSUME AcceptChain, ClientsOnly, NEW w \in Workers,
         \A v \in Workers \ {w} : pc'[v] = pc[v] /\ cur'[v] = cur[v] /\ acc'[v] = acc[v],
         pc'[w] \in {"Read", "Write", "close"} => cur'[w] # Listen,
         ~event' /\ ~bEnd' =>
           /\ ~event /\ ~bEnd
           /\ \/ io'[Listen] \in Rests
              \/ Listen \in Owns(w)'
              \/ Listen \notin Owns(w) /\ (io[Listen] \in Rests => io'[Listen] \in Rests)
  PROVE  AcceptChain' /\ ClientsOnly'
<1>1. \A v \in Workers \ {w} : Owns(v)' = Owns(v)
  BY DEF Owns
<1>2. ClientsOnly'
  BY DEF ClientsOnly
<1>3. ASSUME ~event', ~bEnd', io'[Listen] \notin Rests
      PROVE  \E v \in Workers : Listen \in Owns(v)'
  <2>1. CASE Listen \in Owns(w)'
    BY <2>1
  <2>2. CASE Listen \notin Owns(w)'
    <3>1. ~event /\ ~bEnd /\ Listen \notin Owns(w) /\ io[Listen] \notin Rests
      BY <1>3, <2>2
    <3>2. PICK v \in Workers : Listen \in Owns(v)
      BY <3>1 DEF AcceptChain, Rests
    <3>3. QED
      BY <1>1, <3>1, <3>2
  <2>3. QED
    BY <2>1, <2>2
<1>4. QED
  BY <1>2, <1>3 DEF AcceptChain, Rests

\* A worker that handles a client's operation, or waits, leaves AcceptEx alone.
LEMMA ChainClient ==
  ASSUME OwnerInv, AcceptChain, ClientsOnly, NEW w \in Workers, NEW l, NEW k,
         Listen \notin Owns(w), k # Listen,
         io' = io \/ \E x : io' = [io EXCEPT ![k] = x],
         Loop(w) \/ (Goto(w, l) /\ UNCHANGED <<cur, acc>>),
         l \in {"Read", "Write", "close"} => cur[w] # Listen,
         UNCHANGED <<event, bEnd>>
  PROVE  AcceptChain' /\ ClientsOnly'
<1>1. Shapes
  BY DEF OwnerInv
<1>2. /\ \A v \in Workers \ {w} : pc'[v] = pc[v] /\ cur'[v] = cur[v] /\ acc'[v] = acc[v]
      /\ pc'[w] \in {"Read", "Write", "close"} => cur'[w] # Listen
  <2>1. CASE Loop(w)
    <3>1. pc'[w] = "wait"
      BY <1>1, <2>1, GotoShape DEF Loop
    <3>2. QED
      BY <1>1, <2>1, <3>1, LoopShape
  <2>2. CASE Goto(w, l) /\ UNCHANGED <<cur, acc>>
    BY <1>1, <2>2, GotoShape
  <2>3. QED
    BY <2>1, <2>2
<1>3. io'[Listen] = io[Listen]
  BY <1>1 DEF Shapes, Keys
<1>4. QED
  BY <1>2, <1>3, ChainStep

\* The handler of ClientIoAccept goes on to its next statement, and keeps the
\* listening context.
LEMMA ChainAccept ==
  ASSUME OwnerInv, AcceptChain, ClientsOnly, NEW w \in Workers, NEW l,
         pc[w] # "exited", Listen \in Owns(w),
         Goto(w, l), l \in {"allocate", "associate", "post", "acceptclose", "rearm"}, cur' = cur,
         \A v \in Workers \ {w} : acc'[v] = acc[v],
         UNCHANGED <<event, bEnd>>
  PROVE  AcceptChain' /\ ClientsOnly'
<1>1. pc'[w] = l /\ \A v \in Workers \ {w} : pc'[v] = pc[v]
  BY GotoShape DEF OwnerInv
<1>2. Listen \in Owns(w)'
  BY <1>1 DEF Owns
<1>3. QED
  BY <1>1, <1>2, ChainStep DEF AcceptChain

\* The handlers of a worker.
LEMMA ChainWorks ==
  ASSUME OwnerInv, AcceptChain, ClientsOnly, NEW w \in Workers, Works(w)
  PROVE  AcceptChain' /\ ClientsOnly'
<1>1. Shapes
  BY DEF OwnerInv
<1>2. CASE Check(w)
  <2> DEFINE l == IF cur[w] = Listen THEN "accept"
                  ELSE IF ~res[cur[w]].ok \/ res[cur[w]].n = 0 THEN "close" ELSE ctx[cur[w]].op
  <2>1. /\ pc[w] = "check" /\ Owns(w) = {cur[w]} /\ UNCHANGED <<cur, acc, event, bEnd>>
        /\ IF bEnd THEN Goto(w, "exited") ELSE Goto(w, l) /\ io' = io
    BY <1>2 DEF Check, endVars, Owns
  <2>2. \A v \in Workers \ {w} : pc'[v] = pc[v]
    BY <1>1, <2>1, GotoShape
  <2>3. CASE bEnd
    <3>1. pc'[w] = "exited"
      BY <1>1, <2>1, <2>3, GotoShape
    <3>2. QED
      BY <2>1, <2>2, <2>3, <3>1, ChainStep
  <2>4. CASE ~bEnd /\ cur[w] = Listen
    <3>1. pc'[w] = "accept"
      BY <1>1, <2>1, <2>4, GotoShape
    <3>2. Listen \in Owns(w)'
      BY <3>1 DEF Owns
    <3>3. QED
      BY <2>1, <2>2, <2>4, <3>1, <3>2, ChainStep DEF AcceptChain
  <2>5. CASE ~bEnd /\ cur[w] # Listen
    <3> HIDE DEF l
    <3>1. QED
      BY <2>1, <2>5, ChainClient
  <2>6. QED
    BY <2>3, <2>4, <2>5
<1>3. CASE ReadDone(w) \/ WriteDone(w)
  <2>1. /\ pc[w] \in {"Read", "Write"} /\ Owns(w) = {cur[w]} /\ UNCHANGED <<event, bEnd>>
        /\ Post(w, cur[w], sock[cur[w]], AfterPost, "close")
    BY <1>3 DEF ReadDone, WriteDone, endVars, Owns
  <2>2. cur[w] # Listen
    BY <2>1 DEF ClientsOnly
  <2>3. /\ io' = io \/ \E x : io' = [io EXCEPT ![cur[w]] = x]
        /\ Loop(w) \/ ((Goto(w, "log") \/ Goto(w, "close")) /\ UNCHANGED <<cur, acc>>)
    BY <2>1 DEF Post, AfterPost
  <2>4. QED
    BY <2>1, <2>2, <2>3, ChainClient
<1>4. CASE Log(w)
  <2>1. Owns(w) = {} /\ Loop(w) /\ UNCHANGED <<io, event, bEnd>>
    BY <1>4 DEF Log, ioVars, endVars, Owns
  <2>2. /\ \A v \in Workers \ {w} : pc'[v] = pc[v] /\ cur'[v] = cur[v] /\ acc'[v] = acc[v]
        /\ pc'[w] = "wait"
    BY <1>1, <2>1, GotoShape, LoopShape DEF Loop
  <2>3. QED
    BY <2>1, <2>2, ChainStep
<1>5. CASE Close(w)
  <2>1. /\ pc[w] = "close" /\ Owns(w) = {cur[w]} /\ Loop(w)
        /\ io' = [io EXCEPT ![cur[w]] = "none"] /\ UNCHANGED <<event, bEnd>>
    BY <1>5 DEF Close, endVars, Owns
  <2>2. cur[w] # Listen
    BY <2>1 DEF ClientsOnly
  <2>3. QED
    BY <2>1, <2>2, ChainClient
<1>6. ASSUME GiveUp(w), UNCHANGED <<cur, acc>>
      PROVE  AcceptChain' /\ ClientsOnly'
  <2>1. pc'[w] = "exited" /\ event' /\ \A v \in Workers \ {w} : pc'[v] = pc[v]
    BY <1>1, <1>6, GotoShape DEF GiveUp
  <2>2. QED
    BY <1>6, <2>1, ChainStep
<1>7. CASE AcceptUpdate(w)
  <2>1. pc[w] = "accept" /\ Listen \in Owns(w) /\ UNCHANGED <<cur, acc>>
    BY <1>7 DEF AcceptUpdate, Owns
  <2>2. CASE Goto(w, "allocate") /\ UNCHANGED <<event, bEnd>>
    BY <2>1, <2>2, ChainAccept
  <2>3. QED
    BY <1>6, <1>7, <2>1, <2>2 DEF AcceptUpdate, endVars
<1>8. CASE \E c \in Ctx : AcceptAllocate(w, c)
  <2>1. /\ pc[w] = "allocate" /\ Listen \in Owns(w) /\ UNCHANGED <<cur, event, bEnd>>
        /\ Goto(w, "associate") /\ \E c : acc' = [acc EXCEPT ![w] = c]
    BY <1>8 DEF AcceptAllocate, endVars, Owns
  <2>2. \A v \in Workers \ {w} : acc'[v] = acc[v]
    BY <1>1, <2>1 DEF Shapes
  <2>3. QED
    BY <2>1, <2>2, ChainAccept
<1>9. CASE AcceptAllocateFails(w) \/ AcceptAssociateFails(w) \/ RearmFails(w)
  BY <1>6, <1>9 DEF AcceptAllocateFails, AcceptAssociateFails, RearmFails
<1>10. CASE AcceptAssociate(w)
  <2>1. /\ pc[w] = "associate" /\ Listen \in Owns(w) /\ UNCHANGED <<cur, acc, event, bEnd>>
        /\ Goto(w, "post")
    BY <1>10 DEF AcceptAssociate, endVars, Owns
  <2>2. QED
    BY <2>1, ChainAccept
<1>11. CASE AcceptPost(w)
  <2>1. /\ pc[w] = "post" /\ Listen \in Owns(w) /\ UNCHANGED <<cur, acc, event, bEnd>>
        /\ Goto(w, "rearm") \/ Goto(w, "acceptclose")
    BY <1>11 DEF AcceptPost, Post, endVars, Owns
  <2>2. QED
    BY <2>1, ChainAccept
<1>12. CASE AcceptClose(w)
  <2>1. /\ pc[w] = "acceptclose" /\ Listen \in Owns(w) /\ UNCHANGED <<cur, acc, event, bEnd>>
        /\ Goto(w, "rearm")
    BY <1>12 DEF AcceptClose, endVars, Owns
  <2>2. QED
    BY <2>1, ChainAccept
<1>13. CASE Rearm(w) \/ RearmRefused(w)
  <2>1. /\ Loop(w) /\ UNCHANGED <<event, bEnd>>
        /\ io' = [io EXCEPT ![Listen] = "pending"] \/ io' = [io EXCEPT ![Listen] = "refused"]
    BY <1>13 DEF Rearm, RearmRefused, endVars
  <2>2. io'[Listen] \in Rests
    BY <1>1, <2>1 DEF Shapes, Keys, Rests
  <2>3. /\ \A v \in Workers \ {w} : pc'[v] = pc[v] /\ cur'[v] = cur[v] /\ acc'[v] = acc[v]
        /\ pc'[w] = "wait"
    BY <1>1, <2>1, GotoShape, LoopShape DEF Loop
  <2>4. QED
    BY <2>1, <2>2, <2>3, ChainStep DEF AcceptChain
<1>14. QED
  BY <1>2, <1>3, <1>4, <1>5, <1>7, <1>8, <1>9, <1>10, <1>11, <1>12, <1>13 DEF Works, Accepting

\* The other steps.
LEMMA ChainNext == OwnerInv /\ AcceptChain /\ ClientsOnly /\ [Next]_vars => AcceptChain' /\ ClientsOnly'
<1> SUFFICES ASSUME OwnerInv, AcceptChain, ClientsOnly, [Next]_vars
             PROVE  AcceptChain' /\ ClientsOnly'
  OBVIOUS
<1>1. Shapes
  BY DEF OwnerInv
<1>2. ASSUME UNCHANGED workVars, event' = event \/ event', bEnd' = bEnd \/ bEnd',
             io[Listen] \in Rests => io'[Listen] \in Rests
      PROVE  AcceptChain' /\ ClientsOnly'
  <2>1. pc' = pc /\ cur' = cur /\ acc' = acc
    BY <1>2 DEF workVars
  <2>2. \A w \in Workers : Owns(w)' = Owns(w)
    BY <2>1 DEF Owns
  <2>3. QED
    BY <1>2, <2>1, <2>2 DEF AcceptChain, ClientsOnly, Rests
<1>3. CASE Network
  <2>1. UNCHANGED <<workVars, event, bEnd>>
    BY <1>3 DEF Network, Connect, Reset, AcceptCompletes, RecvCompletes, SendCompletes, Aborts, endVars
  <2>2. io' = io \/ \E key : io' = [io EXCEPT ![key] = "done"]
    BY <1>3 DEF Network, Connect, Reset, AcceptCompletes, RecvCompletes, SendCompletes, Aborts,
       Complete, ioVars
  <2>3. io[Listen] \in Rests => io'[Listen] \in Rests
    BY <1>1, <2>2 DEF Shapes, Keys, Rests
  <2>4. QED
    BY <1>2, <2>1, <2>3
<1>4. CASE CtrlEnd \/ CtrlEvent \/ MainNext \/ UNCHANGED vars
  <2>1. UNCHANGED <<workVars, io>> /\ (event' = event \/ event') /\ (bEnd' = bEnd \/ bEnd')
    BY <1>4 DEF CtrlEnd, CtrlEvent, MainNext, MainWakes, MainJoins, MainTimesOut, MainSweeps,
       SweepCloses, SweepFrees, MainDone, ioVars, endVars, vars
  <2>2. QED
    BY <1>2, <2>1
<1>5. ASSUME NEW w \in Workers, DequeueQuit(w) \/ PortGone(w)
      PROVE  AcceptChain' /\ ClientsOnly'
  <2>1. /\ pc[w] = "wait" /\ Goto(w, "exited") /\ UNCHANGED <<cur, acc, io, event, bEnd>>
    BY <1>5 DEF DequeueQuit, PortGone, ioVars, endVars
  <2>2. Owns(w) = {} /\ NULL # Listen
    BY <2>1, EchoServerAssumption DEF Owns
  <2>3. QED
    BY <2>1, <2>2, ChainClient
<1>6. ASSUME NEW w \in Workers, NEW key \in Keys, Dequeue(w, key)
      PROVE  AcceptChain' /\ ClientsOnly'
  <2>1. /\ io' = [io EXCEPT ![key] = "held"] /\ cur' = [cur EXCEPT ![w] = key]
        /\ pc[w] = "wait" /\ Goto(w, "check") /\ UNCHANGED <<acc, event, bEnd>>
    BY <1>6 DEF Dequeue, endVars
  <2>2. /\ pc'[w] = "check" /\ cur'[w] = key
        /\ \A v \in Workers \ {w} : pc'[v] = pc[v] /\ cur'[v] = cur[v]
    BY <1>1, <2>1, GotoShape DEF Shapes
  <2>3. Owns(w) = {} /\ Owns(w)' = {key}
    BY <2>1, <2>2 DEF Owns
  <2>4. key # Listen => io'[Listen] = io[Listen]
    BY <1>1, <2>1 DEF Shapes, Keys
  <2>5. QED
    BY <2>1, <2>2, <2>3, <2>4, ChainStep DEF AcceptChain
<1>7. QED
  BY <1>3, <1>4, <1>5, <1>6, ChainWorks DEF Next

\* The first AcceptEx is outstanding when the server starts.
LEMMA ChainInit == Init => AcceptChain /\ ClientsOnly
<1> SUFFICES ASSUME Init PROVE AcceptChain /\ ClientsOnly
  OBVIOUS
<1>1. io[Listen] = "pending" /\ \A w \in Workers : pc[w] = "wait"
  BY DEF Init, Keys
<1>2. QED
  BY <1>1 DEF AcceptChain, ClientsOnly

(***************************************************************************)
(* WorkerThread, case ClientIoAccept: until the cleanup is set off, an     *)
(* AcceptEx is outstanding, has completed or was refused, or a worker is   *)
(* on its way to the next one.                                             *)
(***************************************************************************)
THEOREM AcceptChainHolds == Spec => []AcceptChain
BY ChainInit, OwnerInit, OwnerNext, ChainNext, PTL DEF Spec

-----------------------------------------------------------------------------
\* The pointers the list is given and the ones it holds are contexts.
ListOfContexts == fresh \subseteq Ctx /\ order \in Seq(Ctx)

\* Drop gives a sequence over the same set.
LEMMA DropContexts ==
  ASSUME NEW s \in Seq(Ctx), NEW c
  PROVE  L!Drop(s, c) \in Seq(Ctx)
<1>1. CASE \E i \in 1..Len(s) : s[i] = c
  <2> DEFINE k == CHOOSE i \in 1..Len(s) : s[i] = c
  <2>1. k \in 1..Len(s)
    BY <1>1
  <2>2. L!Drop(s, c) = [j \in 1..(Len(s) - 1) |-> IF j < k THEN s[j] ELSE s[j + 1]]
    BY <1>1 DEF L!Drop
  <2> HIDE DEF k
  <2>3. QED
    BY <2>1, <2>2
<1>2. CASE ~ \E i \in 1..Len(s) : s[i] = c
  BY <1>2 DEF L!Drop
<1>3. QED
  BY <1>1, <1>2

\* A step of the list keeps to contexts.
LEMMA ListStep ==
  ASSUME ListOfContexts, [L!Next]_listVars
  PROVE  ListOfContexts'
<1>1. CASE \E t \in Workers \cup {Main}, c \in Ctx :
             \/ L!Allocate(t, c) \/ L!AllocateInnerFails(t, c)
  BY <1>1 DEF ListOfContexts, L!Allocate, L!AllocateInnerFails
<1>2. ASSUME NEW t \in Workers \cup {Main}, NEW c \in Ctx, L!AddTo(t, c)
      PROVE  ListOfContexts'
  BY <1>2 DEF ListOfContexts, L!AddTo, L!Add, L!Insert
<1>3. ASSUME NEW c, order' = L!Drop(order, c), fresh' = fresh
      PROVE  ListOfContexts'
  BY <1>3, DropContexts DEF ListOfContexts
<1>4. CASE L!SweepStep \/ \E t \in Workers \cup {Main}, c \in Ctx : L!CloseClient(t, c)
  BY <1>3, <1>4 DEF L!SweepStep, L!CloseClient, L!Delete, L!Unlink
<1>5. CASE \/ \E t \in Workers \cup {Main} : L!AllocateOuterFails(t)
           \/ \E c \in Ctx : L!Release(c)
           \/ L!SweepBegin \/ L!SweepEnd \/ UNCHANGED listVars
  BY <1>5 DEF ListOfContexts, L!AllocateOuterFails, L!Release, L!Free, L!SweepBegin, L!SweepEnd,
     L!listVars, listVars
<1>6. QED
  BY <1>1, <1>2, <1>4, <1>5 DEF L!Next

-----------------------------------------------------------------------------
(* What a worker asks of the list, told from what it owns.                 *)

\* One worker at a time has the listening context, late or not ...
OneAccepts ==
  \A w \in Workers : Listen \in Owns(w) =>
    io[Listen] = "held" /\ \A v \in Workers : v # w => Listen \notin Owns(v)

\* ... so that what it has allocated is still its own to add or to free.
FreshHeld == \A w \in Workers : pc[w] = "associate" => acc[w] \in fresh

\* Until main() has stopped waiting, what has an operation is in the list, or
\* about to be.
Placed(c) == c \in L!Listed \/ \E w \in Workers : pc[w] = "associate" /\ acc[w] = c

BusyPlaced == main \in {"serve", "join"} => \A c \in Ctx : io[c] \in Busy => Placed(c)

ListInv == ListOfContexts /\ OneAccepts /\ FreshHeld /\ BusyPlaced

\* What a worker does, and may do to others: nothing to their place.
WorkerStepOf(w) ==
  DequeueQuit(w) \/ PortGone(w) \/ Works(w) \/ \E key \in Keys : Dequeue(w, key)

\* A worker's step is none of main()'s.
LEMMA WorkerMain ==
  ASSUME NEW w \in Workers, WorkerStepOf(w)
  PROVE  UNCHANGED <<main, timedOut>>
BY DEF WorkerStepOf, DequeueQuit, PortGone, Dequeue, Works, Accepting, Check, ReadDone, WriteDone,
   Log, Close, AcceptUpdate, AcceptAllocate, AcceptAllocateFails, AcceptAssociate,
   AcceptAssociateFails, AcceptPost, AcceptClose, Rearm, RearmRefused, RearmFails, GiveUp, endVars

\* Only CtxtAllocate takes a worker to where it has a new context.
LEMMA WorkerMoves ==
  ASSUME OwnerInv, NEW w \in Workers, WorkerStepOf(w), ~ \E c \in Ctx : AcceptAllocate(w, c)
  PROVE  /\ \A v \in Workers \ {w} : pc'[v] = pc[v] /\ acc'[v] = acc[v]
         /\ pc'[w] # "associate"
<1>1. Shapes
  BY DEF OwnerInv
<1>2. ASSUME NEW l, l # "associate", Loop(w) \/ (Goto(w, l) /\ acc' = acc)
      PROVE  /\ \A v \in Workers \ {w} : pc'[v] = pc[v] /\ acc'[v] = acc[v]
             /\ pc'[w] # "associate"
  BY <1>1, <1>2, GotoShape, LoopShape DEF Loop
<1>3. CASE Check(w)
  <2> DEFINE l == IF cur[w] = Listen THEN "accept"
                  ELSE IF ~res[cur[w]].ok \/ res[cur[w]].n = 0 THEN "close" ELSE ctx[cur[w]].op
  <2>1. /\ pc[w] = "check" /\ acc' = acc /\ cur[w] \in Keys
        /\ Goto(w, "exited") \/ Goto(w, l)
    BY <1>3 DEF Check, Owns, OwnerInv, Hold
  <2>2. l # "associate"
    BY <1>1, <2>1 DEF Shapes, Ops
  <2> HIDE DEF l
  <2>3. QED
    BY <1>2, <2>1, <2>2
<1>4. CASE DequeueQuit(w) \/ PortGone(w) \/ \E key \in Keys : Dequeue(w, key)
  <2>1. acc' = acc /\ (Goto(w, "exited") \/ Goto(w, "check"))
    BY <1>4 DEF DequeueQuit, PortGone, Dequeue
  <2>2. QED
    BY <1>2, <2>1
<1>5. CASE ReadDone(w) \/ WriteDone(w) \/ AcceptPost(w)
  <2>1. \/ Loop(w)
        \/ acc' = acc /\ (Goto(w, "log") \/ Goto(w, "close") \/ Goto(w, "rearm") \/ Goto(w, "acceptclose"))
    BY <1>5 DEF ReadDone, WriteDone, AcceptPost, Post, AfterPost
  <2>2. QED
    BY <1>2, <2>1
<1>6. CASE \/ Log(w) \/ Close(w) \/ AcceptUpdate(w) \/ AcceptAllocateFails(w) \/ AcceptAssociate(w)
           \/ AcceptAssociateFails(w) \/ AcceptClose(w) \/ Rearm(w) \/ RearmRefused(w) \/ RearmFails(w)
  <2>1. \/ Loop(w)
        \/ acc' = acc /\ (Goto(w, "exited") \/ Goto(w, "allocate") \/ Goto(w, "post") \/ Goto(w, "rearm"))
    BY <1>6 DEF Log, Close, AcceptUpdate, AcceptAllocateFails, AcceptAssociate, AcceptAssociateFails,
       AcceptClose, Rearm, RearmRefused, RearmFails, GiveUp
  <2>2. QED
    BY <1>2, <2>1
<1>7. QED
  BY <1>3, <1>4, <1>5, <1>6 DEF WorkerStepOf, Works, Accepting

\* The steps of a worker that neither allocate nor add nor free.
Plain(w) ==
  /\ WorkerStepOf(w)
  /\ ~AcceptAssociate(w) /\ ~AcceptAssociateFails(w) /\ ~Close(w) /\ ~AcceptClose(w)
  /\ ~ \E c \in Ctx : AcceptAllocate(w, c)

LEMMA PlainCases ==
  ASSUME NEW w \in Workers, Plain(w)
  PROVE  \/ DequeueQuit(w) \/ PortGone(w) \/ \E key \in Keys : Dequeue(w, key)
         \/ Check(w) \/ ReadDone(w) \/ WriteDone(w) \/ Log(w) \/ AcceptUpdate(w)
         \/ AcceptAllocateFails(w) \/ AcceptPost(w) \/ Rearm(w) \/ RearmRefused(w) \/ RearmFails(w)
BY DEF Plain, WorkerStepOf, Works, Accepting

\* They leave the list and the new contexts alone ...
LEMMA PlainList ==
  ASSUME NEW w \in Workers, Plain(w)
  PROVE  order' = order /\ fresh' = fresh
<1>1. UNCHANGED listVars \/ L!AllocateOuterFails(w)
  BY PlainCases DEF DequeueQuit, PortGone, Dequeue, Check, ReadDone, WriteDone, Log, AcceptUpdate,
     AcceptAllocateFails, AcceptPost, Rearm, RearmRefused, RearmFails
<1>2. QED
  BY <1>1 DEF listVars, L!AllocateOuterFails, L!listVars

\* ... and begin an operation only on a context that the worker has.
LEMMA PlainBusy ==
  ASSUME OwnerInv, NEW w \in Workers, Plain(w), main \in {"serve", "join"},
         NEW c \in Ctx, io'[c] \in Busy
  PROVE  io[c] \in Busy /\ pc[w] # "associate"
<1>1. Shapes /\ c # Listen /\ c \in Keys
  BY EchoServerAssumption DEF OwnerInv, Keys
<1>2. \A k \in Owns(w) : io[k] = "held"
  BY DEF OwnerInv, Hold, Dead
<1>3. pc[w] # "associate"
  BY PlainCases DEF DequeueQuit, PortGone, Dequeue, Check, ReadDone, WriteDone, Log, AcceptUpdate,
     AcceptAllocateFails, AcceptPost, Rearm, RearmRefused, RearmFails
<1>4. ASSUME NEW k, NEW x, io' = io \/ io' = [io EXCEPT ![k] = x],
             x = "none" \/ io[k] \in Busy \/ k = Listen
      PROVE  io[c] \in Busy
  BY <1>1, <1>4 DEF Shapes, Busy
<1>5. CASE ReadDone(w) \/ WriteDone(w) \/ AcceptPost(w)
  <2>1. PICK k \in Owns(w) : io' = io \/ io' = [io EXCEPT ![k] = "pending"]
    BY <1>5 DEF ReadDone, WriteDone, AcceptPost, Post, Owns
  <2>2. QED
    BY <1>2, <1>3, <1>4, <2>1 DEF Busy
<1>6. CASE \E key \in Keys : Dequeue(w, key)
  <2>1. PICK key \in Keys : io[key] = "done" /\ io' = [io EXCEPT ![key] = "held"]
    BY <1>6 DEF Dequeue
  <2>2. QED
    BY <1>3, <1>4, <2>1 DEF Busy
<1>7. CASE \/ DequeueQuit(w) \/ PortGone(w) \/ Check(w) \/ Log(w) \/ AcceptUpdate(w)
           \/ AcceptAllocateFails(w) \/ Rearm(w) \/ RearmRefused(w) \/ RearmFails(w)
  <2>1. \/ io' = io \/ \E k : io' = [io EXCEPT ![k] = "none"]
        \/ io' = [io EXCEPT ![Listen] = "pending"] \/ io' = [io EXCEPT ![Listen] = "refused"]
    BY <1>7 DEF DequeueQuit, PortGone, Check, Log, AcceptUpdate, AcceptAllocateFails, Rearm,
       RearmRefused, RearmFails, ioVars
  <2>2. QED
    BY <1>3, <1>4, <2>1
<1>8. QED
  BY <1>5, <1>6, <1>7, PlainCases

\* The steps that are none of a worker's are none of CtxtListAddTo's either.
LEMMA QuietHands ==
  ASSUME Network \/ CtrlEnd \/ CtrlEvent \/ MainNext \/ UNCHANGED vars
  PROVE  UNCHANGED <<fresh, pc, acc>>
<1>1. CASE Network \/ CtrlEnd \/ CtrlEvent \/ UNCHANGED vars
  BY <1>1 DEF Network, Connect, Reset, AcceptCompletes, RecvCompletes, SendCompletes, Aborts,
     CtrlEnd, CtrlEvent, vars, listVars, workVars
<1>2. CASE MainWakes \/ MainJoins \/ MainTimesOut \/ SweepCloses
  BY <1>2 DEF MainWakes, MainJoins, MainTimesOut, SweepCloses, listVars, workVars
<1>3. CASE MainSweeps \/ SweepFrees \/ MainDone
  BY <1>3 DEF MainSweeps, SweepFrees, MainDone, L!SweepBegin, L!SweepStep, L!SweepEnd, workVars
<1>4. QED
  BY <1>1, <1>2, <1>3 DEF MainNext

\* The listening context through a step of one worker.
LEMMA AcceptsStep ==
  ASSUME OneAccepts, NEW w \in Workers,
         \A v \in Workers \ {w} : pc'[v] = pc[v] /\ cur'[v] = cur[v] /\ acc'[v] = acc[v],
         \/ Listen \in Owns(w) /\ (Listen \in Owns(w)' => io'[Listen] = io[Listen])
         \/ Listen \notin Owns(w) /\ Listen \notin Owns(w)' /\ io'[Listen] = io[Listen]
         \/ io[Listen] = "done" /\ io'[Listen] = "held"
  PROVE  OneAccepts'
<1>1. \A v \in Workers \ {w} : Owns(v)' = Owns(v)
  BY DEF Owns
<1>2. QED
  BY <1>1 DEF OneAccepts

\* A worker that handles a client's operation does not come by it.
LEMMA AcceptsClient ==
  ASSUME Shapes, OneAccepts, NEW w \in Workers, NEW l, NEW k, k # Listen,
         Listen \notin Owns(w),
         io' = io \/ \E x : io' = [io EXCEPT ![k] = x],
         Loop(w) \/ (Goto(w, l) /\ UNCHANGED <<cur, acc>>),
         l \in {"log", "exited"} \/ (l \in {"close", "Read", "Write"} /\ cur[w] # Listen)
  PROVE  OneAccepts'
<1>1. \A v \in Workers \ {w} : pc'[v] = pc[v] /\ cur'[v] = cur[v] /\ acc'[v] = acc[v]
  BY GotoShape, LoopShape
<1>2. Listen \notin Owns(w)'
  <2>1. CASE Loop(w)
    <3>1. pc'[w] = "wait"
      BY <2>1, GotoShape DEF Loop
    <3>2. QED
      BY <3>1 DEF Owns
  <2>2. CASE Goto(w, l) /\ UNCHANGED <<cur, acc>>
    <3>1. pc'[w] = l /\ cur'[w] = cur[w]
      BY <2>2, GotoShape
    <3>2. QED
      BY <3>1 DEF Owns
  <2>3. QED
    BY <2>1, <2>2
<1>3. io'[Listen] = io[Listen]
  BY DEF Shapes, Keys
<1>4. QED
  BY <1>1, <1>2, <1>3, AcceptsStep

\* The handler of ClientIoAccept keeps it, or lets it go.
LEMMA AcceptsAccept ==
  ASSUME Shapes, OneAccepts, NEW w \in Workers, Accepting(w)
  PROVE  OneAccepts'
<1>1. Listen \in Owns(w) /\ pc[w] \in {"accept", "allocate", "associate", "post", "acceptclose", "rearm"}
  BY DEF Accepting, AcceptUpdate, AcceptAllocate, AcceptAllocateFails, AcceptAssociate,
     AcceptAssociateFails, AcceptPost, AcceptClose, Rearm, RearmRefused, RearmFails, Owns
<1>2. acc[w] # Listen
  BY DEF Shapes
<1>3. CASE \/ AcceptUpdate(w) \/ AcceptAllocateFails(w) \/ AcceptAssociateFails(w) \/ RearmFails(w)
           \/ Rearm(w) \/ RearmRefused(w)
  <2>1. \/ Loop(w)
        \/ Goto(w, "exited") /\ UNCHANGED <<cur, acc>>
        \/ Goto(w, "allocate") /\ UNCHANGED <<cur, acc, io>>
    BY <1>3 DEF AcceptUpdate, AcceptAllocateFails, AcceptAssociateFails, RearmFails, Rearm,
       RearmRefused, GiveUp
  <2>2. \A v \in Workers \ {w} : pc'[v] = pc[v] /\ cur'[v] = cur[v] /\ acc'[v] = acc[v]
    BY <2>1, GotoShape, LoopShape
  <2>3. pc'[w] \in {"wait", "exited"} \/ io' = io
    BY <2>1, GotoShape DEF Loop
  <2>4. Listen \in Owns(w)' => io'[Listen] = io[Listen]
    BY <2>3 DEF Owns
  <2>5. QED
    BY <1>1, <2>2, <2>4, AcceptsStep
<1>4. CASE AcceptAssociate(w) \/ AcceptPost(w) \/ AcceptClose(w)
  <2>1. /\ \E l : Goto(w, l)
        /\ UNCHANGED <<cur, acc>>
        /\ io' = io \/ \E x : io' = [io EXCEPT ![acc[w]] = x]
    <3>1. CASE AcceptAssociate(w)
      BY <3>1 DEF AcceptAssociate, ioVars
    <3>2. CASE AcceptPost(w)
      BY <3>2 DEF AcceptPost, Post
    <3>3. CASE AcceptClose(w)
      BY <3>3 DEF AcceptClose
    <3>4. QED
      BY <1>4, <3>1, <3>2, <3>3
  <2>2. \A v \in Workers \ {w} : pc'[v] = pc[v]
    BY <2>1, GotoShape
  <2>3. io'[Listen] = io[Listen]
    BY <1>2, <2>1 DEF Shapes, Keys
  <2>4. QED
    BY <1>1, <2>1, <2>2, <2>3, AcceptsStep
<1>5. ASSUME NEW c \in Ctx, AcceptAllocate(w, c)
      PROVE  OneAccepts'
  <2>1. /\ Goto(w, "associate") /\ cur' = cur /\ acc' = [acc EXCEPT ![w] = c]
        /\ io' = [io EXCEPT ![c] = "held"]
    BY <1>5 DEF AcceptAllocate
  <2>2. \A v \in Workers \ {w} : pc'[v] = pc[v] /\ acc'[v] = acc[v]
    BY <2>1, GotoShape DEF Shapes
  <2>3. io'[Listen] = io[Listen]
    BY <2>1, EchoServerAssumption DEF Shapes, Keys
  <2>4. QED
    BY <1>1, <2>1, <2>2, <2>3, AcceptsStep
<1>6. QED
  BY <1>3, <1>4, <1>5 DEF Accepting

\* The listening context through every step.
LEMMA AcceptsNext ==
  ASSUME OwnerInv, ClientsOnly, OneAccepts, [Next]_vars
  PROVE  OneAccepts'
<1>1. Shapes
  BY DEF OwnerInv
<1>2. ASSUME UNCHANGED workVars, io[Listen] = "held" => io'[Listen] = "held"
      PROVE  OneAccepts'
  BY <1>2 DEF OneAccepts, Owns, workVars
<1>3. CASE Network \/ CtrlEnd \/ CtrlEvent \/ MainNext \/ UNCHANGED vars
  <2>1. UNCHANGED workVars /\ (io' = io \/ \E key : io[key] = "pending" /\ io' = [io EXCEPT ![key] = "done"])
    <3>1. CASE Network
      BY <3>1 DEF Network, Connect, Reset, AcceptCompletes, RecvCompletes, SendCompletes, Aborts,
         Complete, ioVars
    <3>2. CASE CtrlEnd \/ CtrlEvent \/ MainNext \/ UNCHANGED vars
      BY <3>2 DEF CtrlEnd, CtrlEvent, MainNext, MainWakes, MainJoins, MainTimesOut, MainSweeps,
         SweepCloses, SweepFrees, MainDone, ioVars, vars
    <3>3. QED
      BY <1>3, <3>1, <3>2
  <2>2. io[Listen] = "held" => io'[Listen] = "held"
    BY <1>1, <2>1 DEF Shapes, Keys
  <2>3. QED
    BY <1>2, <2>1, <2>2
<1>4. ASSUME NEW w \in Workers, NEW key \in Keys, Dequeue(w, key)
      PROVE  OneAccepts'
  <2>1. /\ io[key] = "done" /\ io' = [io EXCEPT ![key] = "held"] /\ cur' = [cur EXCEPT ![w] = key]
        /\ pc[w] = "wait" /\ Goto(w, "check") /\ acc' = acc
    BY <1>4 DEF Dequeue
  <2>2. /\ pc'[w] = "check" /\ cur'[w] = key
        /\ \A v \in Workers \ {w} : pc'[v] = pc[v] /\ cur'[v] = cur[v]
    BY <1>1, <2>1, GotoShape DEF Shapes
  <2>3. Owns(w) = {} /\ Owns(w)' = {key}
    BY <2>1, <2>2 DEF Owns
  <2>4. /\ key # Listen => io'[Listen] = io[Listen]
        /\ key = Listen => io'[Listen] = "held"
    BY <1>1, <2>1 DEF Shapes, Keys
  <2>5. QED
    BY <2>1, <2>2, <2>3, <2>4, AcceptsStep
<1>5. ASSUME NEW w \in Workers, DequeueQuit(w) \/ PortGone(w) \/ Log(w)
      PROVE  OneAccepts'
  <2>1. /\ pc[w] \in {"wait", "log"} /\ io' = io
        /\ Loop(w) \/ (Goto(w, "exited") /\ UNCHANGED <<cur, acc>>)
    BY <1>5 DEF DequeueQuit, PortGone, Log, ioVars
  <2>2. Listen \notin Owns(w) /\ NULL # Listen
    BY <2>1, EchoServerAssumption DEF Owns
  <2>3. QED
    BY <1>1, <2>1, <2>2, AcceptsClient
<1>6. ASSUME NEW w \in Workers, Check(w)
      PROVE  OneAccepts'
  <2> DEFINE l == IF cur[w] = Listen THEN "accept"
                  ELSE IF ~res[cur[w]].ok \/ res[cur[w]].n = 0 THEN "close" ELSE ctx[cur[w]].op
  <2>1. /\ pc[w] = "check" /\ Owns(w) = {cur[w]} /\ cur[w] \in Keys /\ UNCHANGED <<cur, acc>>
        /\ \/ Goto(w, "exited") /\ io' = [io EXCEPT ![cur[w]] = "none"]
           \/ Goto(w, l) /\ io' = io
    BY <1>6 DEF Check, Owns, OwnerInv, Hold
  <2>2. CASE cur[w] = Listen
    <3>1. \A v \in Workers \ {w} : pc'[v] = pc[v]
      BY <1>1, <2>1, GotoShape
    <3>2. Listen \in Owns(w)' => io' = io
      <4>1. CASE Goto(w, "exited")
        <5>1. pc'[w] = "exited"
          BY <1>1, <4>1, GotoShape
        <5>2. QED
          BY <5>1 DEF Owns
      <4>2. CASE io' = io
        BY <4>2
      <4>3. QED
        BY <2>1, <4>1, <4>2
    <3>3. QED
      BY <2>1, <2>2, <3>1, <3>2, AcceptsStep
  <2>3. CASE cur[w] # Listen
    <3>1. Listen \notin Owns(w)
      BY <2>1, <2>3
    <3>2. \A v \in Workers \ {w} : pc'[v] = pc[v]
      BY <1>1, <2>1, GotoShape
    <3>3. ctx[cur[w]].op \in Ops
      BY <1>1, <2>1 DEF Shapes
    <3>4. l \in Ops \cup {"close"}
      BY <2>3, <3>3
    <3>5. pc'[w] \in Ops \cup {"close", "exited"}
      BY <1>1, <2>1, <3>4, GotoShape
    <3>6. Owns(w)' \subseteq {cur[w]}
      BY <2>1, <3>5 DEF Owns, Ops
    <3>7. io'[Listen] = io[Listen]
      BY <1>1, <2>1, <2>3 DEF Shapes, Keys
    <3>8. QED
      BY <2>1, <2>3, <3>1, <3>2, <3>6, <3>7, AcceptsStep
  <2>4. QED
    BY <2>2, <2>3
<1>7. ASSUME NEW w \in Workers, ReadDone(w) \/ WriteDone(w) \/ Close(w)
      PROVE  OneAccepts'
  <2>1. /\ pc[w] \in {"Read", "Write", "close"} /\ Owns(w) = {cur[w]}
        /\ io' = io \/ \E x : io' = [io EXCEPT ![cur[w]] = x]
        /\ \/ Loop(w)
           \/ Goto(w, "log") /\ UNCHANGED <<cur, acc>>
           \/ Goto(w, "close") /\ UNCHANGED <<cur, acc>>
    BY <1>7 DEF ReadDone, WriteDone, Close, Post, AfterPost, Owns
  <2>2. cur[w] # Listen
    BY <2>1 DEF ClientsOnly
  <2>3. QED
    BY <1>1, <2>1, <2>2, AcceptsClient
<1>8. QED
  BY <1>1, <1>3, <1>4, <1>5, <1>6, <1>7, AcceptsAccept DEF Next, Works

\* CtxtListAddTo and xfree take their own context out of a worker's hands.
LEMMA FreshNext ==
  ASSUME OwnerInv, OneAccepts, FreshHeld, [Next]_vars
  PROVE  FreshHeld'
<1>1. Shapes
  BY DEF OwnerInv
<1>2. CASE Network \/ CtrlEnd \/ CtrlEvent \/ MainNext \/ UNCHANGED vars
  BY <1>2, QuietHands DEF FreshHeld
<1>3. ASSUME NEW w \in Workers, WorkerStepOf(w)
      PROVE  FreshHeld'
  <2>1. CASE \E c \in Ctx : AcceptAllocate(w, c)
    <3>1. PICK c \in Ctx : fresh' = fresh \cup {c} /\ acc' = [acc EXCEPT ![w] = c]
                           /\ Goto(w, "associate")
      BY <2>1 DEF AcceptAllocate, L!Allocate
    <3>2. /\ acc'[w] = c /\ \A v \in Workers \ {w} : pc'[v] = pc[v] /\ acc'[v] = acc[v]
      BY <1>1, <3>1, GotoShape DEF Shapes
    <3>3. QED
      BY <3>1, <3>2 DEF FreshHeld
  <2>2. CASE AcceptAssociate(w) \/ AcceptAssociateFails(w)
    <3>1. /\ pc[w] = "associate" /\ fresh' = fresh \ {acc[w]} /\ acc' = acc
          /\ Goto(w, "post") \/ Goto(w, "exited")
      BY <2>2 DEF AcceptAssociate, AcceptAssociateFails, GiveUp, L!Add, L!Free
    <3>2. pc'[w] # "associate" /\ \A v \in Workers \ {w} : pc'[v] = pc[v]
      BY <1>1, <3>1, GotoShape
    <3>3. \A v \in Workers \ {w} : pc[v] # "associate"
      BY <3>1 DEF OneAccepts, Owns
    <3>4. QED
      BY <3>1, <3>2, <3>3 DEF FreshHeld
  <2>3. CASE Plain(w) \/ Close(w) \/ AcceptClose(w)
    <3>1. fresh' = fresh
      BY <2>3, PlainList DEF Close, AcceptClose, L!Delete
    <3>2. ~ \E c \in Ctx : AcceptAllocate(w, c)
      BY <2>3 DEF Plain, Close, AcceptClose, AcceptAllocate
    <3>3. /\ \A v \in Workers \ {w} : pc'[v] = pc[v] /\ acc'[v] = acc[v]
          /\ pc'[w] # "associate"
      BY <1>3, <3>2, WorkerMoves
    <3>4. QED
      BY <3>1, <3>3 DEF FreshHeld
  <2>4. QED
    BY <1>3, <2>1, <2>2, <2>3 DEF Plain
<1>4. QED
  BY <1>2, <1>3 DEF Next, WorkerStepOf

\* What is not dropped stays in the list.
LEMMA DropKeeps ==
  ASSUME order \in Seq(Ctx), NEW c, NEW d, d # c, d \in L!Listed, order' = L!Drop(order, c)
  PROVE  d \in L!Listed'
<1>1. PICK i \in 1..Len(order) : order[i] = d
  BY DEF L!Listed
<1>2. CASE \E k \in 1..Len(order) : order[k] = c
  <2> DEFINE k == CHOOSE j \in 1..Len(order) : order[j] = c
  <2>1. k \in 1..Len(order) /\ order[k] = c
    BY <1>2
  <2>2. order' = [j \in 1..(Len(order) - 1) |-> IF j < k THEN order[j] ELSE order[j + 1]]
    BY <1>2 DEF L!Drop
  <2> HIDE DEF k
  <2>3. Len(order) \in Nat /\ i # k
    BY <1>1, <2>1
  <2>4. Len(order') = Len(order) - 1
    BY <2>1, <2>2, <2>3
  <2>5. CASE i < k
    <3>1. i \in 1..Len(order') /\ order'[i] = d
      BY <1>1, <2>1, <2>2, <2>3, <2>4, <2>5
    <3>2. QED
      BY <3>1 DEF L!Listed
  <2>6. CASE i > k
    <3>1. i - 1 \in 1..Len(order') /\ order'[i - 1] = d
      BY <1>1, <2>1, <2>2, <2>3, <2>4, <2>6
    <3>2. QED
      BY <3>1 DEF L!Listed
  <2>7. QED
    BY <1>1, <2>1, <2>3, <2>5, <2>6
<1>3. CASE ~ \E k \in 1..Len(order) : order[k] = c
  BY <1>3 DEF L!Drop, L!Listed
<1>4. QED
  BY <1>2, <1>3

\* What is added is listed, with what was.
LEMMA AppendLists ==
  ASSUME order \in Seq(Ctx), NEW c \in Ctx, order' = Append(order, c)
  PROVE  L!Listed' = L!Listed \cup {c}
<1>1. /\ Len(order') = Len(order) + 1 /\ Len(order) \in Nat
      /\ \A i \in 1..Len(order) : order'[i] = order[i]
      /\ order'[Len(order) + 1] = c
  OBVIOUS
<1>2. Len(order) + 1 \in 1..Len(order') /\ 1..Len(order') = (1..Len(order)) \cup {Len(order) + 1}
  BY <1>1
<1>3. QED
  BY <1>1, <1>2 DEF L!Listed

\* While main() has not stopped waiting, what has an operation stays listed.
LEMMA PlacedNext ==
  ASSUME OwnerInv, ClientsOnly, ListInv, [Next]_vars
  PROVE  BusyPlaced'
<1>1. Shapes /\ order \in Seq(Ctx) /\ \A c \in Ctx : c # Listen /\ c \in Keys
  BY EchoServerAssumption DEF OwnerInv, ListInv, ListOfContexts, Keys
<1> SUFFICES ASSUME main' \in {"serve", "join"}, NEW c \in Ctx, io'[c] \in Busy
             PROVE  Placed(c)'
  BY DEF BusyPlaced
<1>2. CASE Network \/ CtrlEnd \/ CtrlEvent \/ MainNext \/ UNCHANGED vars
  <2>1. order' = order /\ main \in {"serve", "join"}
    <3>1. CASE Network \/ CtrlEnd \/ CtrlEvent \/ UNCHANGED vars
      BY <3>1 DEF Network, Connect, Reset, AcceptCompletes, RecvCompletes, SendCompletes, Aborts,
         CtrlEnd, CtrlEvent, vars, listVars, endVars
    <3>2. CASE MainWakes \/ MainJoins \/ MainTimesOut
      BY <3>2 DEF MainWakes, MainJoins, MainTimesOut, listVars
    <3>3. CASE MainSweeps \/ SweepCloses \/ SweepFrees \/ MainDone
      BY <3>3 DEF MainSweeps, SweepCloses, SweepFrees, MainDone, endVars
    <3>4. QED
      BY <1>2, <3>1, <3>2, <3>3 DEF MainNext
  <2>2. io[c] \in Busy
    <3>1. io' = io \/ \E key : io[key] = "pending" /\ io' = [io EXCEPT ![key] = "done"]
      <4>1. CASE Network
        BY <4>1 DEF Network, Connect, Reset, AcceptCompletes, RecvCompletes, SendCompletes, Aborts,
           Complete, ioVars
      <4>2. CASE CtrlEnd \/ CtrlEvent \/ MainNext \/ UNCHANGED vars
        BY <4>2 DEF CtrlEnd, CtrlEvent, MainNext, MainWakes, MainJoins, MainTimesOut, MainSweeps,
           SweepCloses, SweepFrees, MainDone, ioVars, vars
      <4>3. QED
        BY <1>2, <4>1, <4>2
    <3>2. QED
      BY <1>1, <3>1 DEF Shapes, Busy
  <2>3. QED
    BY <1>2, <2>1, <2>2, QuietHands DEF ListInv, BusyPlaced, Placed, L!Listed
<1>3. ASSUME NEW w \in Workers, WorkerStepOf(w)
      PROVE  Placed(c)'
  <2>1. main \in {"serve", "join"}
    BY <1>3, WorkerMain
  <2>2. ASSUME io[c] \in Busy, c \in L!Listed => c \in L!Listed',
               \A v \in Workers \ {w} : pc'[v] = pc[v] /\ acc'[v] = acc[v],
               pc[w] # "associate" \/ acc[w] # c
        PROVE  Placed(c)'
    <3>1. Placed(c)
      BY <2>1, <2>2 DEF ListInv, BusyPlaced
    <3>2. QED
      BY <2>2, <3>1 DEF Placed
  <2>3. CASE AcceptAssociate(w) \/ AcceptAssociateFails(w)
    <3>1. /\ pc[w] = "associate" /\ acc' = acc /\ acc[w] \in Ctx
          /\ Goto(w, "post") \/ Goto(w, "exited")
      BY <2>3 DEF AcceptAssociate, AcceptAssociateFails, GiveUp, ListInv, FreshHeld, ListOfContexts
    <3>2. \A v \in Workers \ {w} : pc'[v] = pc[v]
      BY <1>1, <3>1, GotoShape
    <3>3. CASE AcceptAssociate(w)
      <4>1. order' = Append(order, acc[w]) /\ io' = io
        BY <3>3 DEF AcceptAssociate, L!Add, L!Insert, ioVars
      <4>2. L!Listed' = L!Listed \cup {acc[w]}
        BY <1>1, <3>1, <4>1, AppendLists
      <4>3. QED
        BY <2>2, <3>1, <3>2, <4>1, <4>2 DEF Placed
    <3>4. CASE AcceptAssociateFails(w)
      <4>1. order' = order /\ io' = [io EXCEPT ![Listen] = "none", ![acc[w]] = "none"]
        BY <3>4 DEF AcceptAssociateFails, L!Free
      <4>2. c # acc[w] /\ io'[c] = io[c]
        BY <1>1, <4>1 DEF Shapes, Busy
      <4>3. QED
        BY <2>2, <3>1, <3>2, <4>1, <4>2 DEF L!Listed
    <3>5. QED
      BY <2>3, <3>3, <3>4
  <2>4. CASE Close(w) \/ AcceptClose(w)
    <3>1. PICK d : /\ order' = L!Drop(order, d) /\ io' = [io EXCEPT ![d] = "none"]
                   /\ pc[w] \in {"close", "acceptclose"}
                   /\ Loop(w) \/ (Goto(w, "rearm") /\ acc' = acc)
      BY <2>4 DEF Close, AcceptClose, L!Delete, L!Unlink
    <3>2. c # d /\ io'[c] = io[c]
      BY <1>1, <3>1 DEF Shapes, Busy
    <3>3. \A v \in Workers \ {w} : pc'[v] = pc[v] /\ acc'[v] = acc[v]
      BY <1>1, <3>1, GotoShape, LoopShape
    <3>4. c \in L!Listed => c \in L!Listed'
      BY <1>1, <3>1, <3>2, DropKeeps
    <3>5. QED
      BY <2>2, <3>1, <3>2, <3>3, <3>4
  <2>5. CASE \E d \in Ctx : AcceptAllocate(w, d)
    <3>1. PICK d \in Ctx : /\ order' = order /\ io' = [io EXCEPT ![d] = "held"] /\ pc[w] = "allocate"
                           /\ acc' = [acc EXCEPT ![w] = d] /\ Goto(w, "associate")
      BY <2>5 DEF AcceptAllocate, L!Allocate
    <3>2. /\ pc'[w] = "associate" /\ acc'[w] = d
          /\ \A v \in Workers \ {w} : pc'[v] = pc[v] /\ acc'[v] = acc[v]
      BY <1>1, <3>1, GotoShape DEF Shapes
    <3>3. CASE c = d
      BY <3>2, <3>3 DEF Placed
    <3>4. CASE c # d
      <4>1. io'[c] = io[c]
        BY <1>1, <3>1, <3>4 DEF Shapes
      <4>2. QED
        BY <2>2, <3>1, <3>2, <4>1 DEF L!Listed
    <3>5. QED
      BY <3>3, <3>4
  <2>6. CASE Plain(w)
    <3>1. order' = order
      BY <2>6, PlainList
    <3>2. \A v \in Workers \ {w} : pc'[v] = pc[v] /\ acc'[v] = acc[v]
      BY <2>6, WorkerMoves DEF Plain
    <3>3. io[c] \in Busy /\ pc[w] # "associate"
      BY <2>1, <2>6, PlainBusy
    <3>4. QED
      BY <2>2, <3>1, <3>2, <3>3 DEF L!Listed
  <2>7. QED
    BY <1>3, <2>3, <2>4, <2>5, <2>6 DEF Plain
<1>4. QED
  BY <1>2, <1>3 DEF Next, WorkerStepOf

\* The next context a worker adds, frees or closes is one it may.
LEMMA ListNext ==
  ASSUME OwnerInv, ClientsOnly, ListInv, [Next]_vars
  PROVE  [L!Next]_listVars
<1>1. CASE Network \/ CtrlEnd \/ CtrlEvent \/ UNCHANGED vars
  BY <1>1 DEF Network, Connect, Reset, AcceptCompletes, RecvCompletes, SendCompletes, Aborts,
     CtrlEnd, CtrlEvent, vars
<1>2. CASE MainNext
  <2>1. CASE MainWakes \/ MainJoins \/ MainTimesOut \/ SweepCloses
    BY <2>1 DEF MainWakes, MainJoins, MainTimesOut, SweepCloses
  <2>2. CASE MainSweeps \/ SweepFrees \/ MainDone
    <3>1. L!SweepBegin \/ L!SweepStep \/ L!SweepEnd
      BY <2>2 DEF MainSweeps, SweepFrees, MainDone
    <3>2. QED
      BY <3>1 DEF L!Next
  <2>3. QED
    BY <1>2, <2>1, <2>2 DEF MainNext
<1>3. ASSUME NEW w \in Workers, WorkerStepOf(w)
      PROVE  [L!Next]_listVars
  <2>1. CASE Plain(w)
    <3>1. UNCHANGED listVars \/ L!AllocateOuterFails(w)
      BY <2>1, PlainCases DEF DequeueQuit, PortGone, Dequeue, Check, ReadDone, WriteDone, Log,
         AcceptUpdate, AcceptAllocateFails, AcceptPost, Rearm, RearmRefused, RearmFails
    <3>2. QED
      BY <3>1 DEF L!Next
  <2>2. CASE \E c \in Ctx : AcceptAllocate(w, c)
    <3>1. \E c \in Ctx : L!Allocate(w, c)
      BY <2>2 DEF AcceptAllocate
    <3>2. QED
      BY <3>1 DEF L!Next
  <2>3. CASE AcceptAssociate(w) \/ AcceptAssociateFails(w)
    <3>1. pc[w] = "associate" /\ ((L!CanEnter(w) /\ L!Add(acc[w])) \/ L!Free(acc[w]))
      BY <2>3 DEF AcceptAssociate, AcceptAssociateFails
    <3>2. acc[w] \in fresh /\ acc[w] \in Ctx
      BY <3>1 DEF ListInv, FreshHeld, ListOfContexts
    <3>3. L!AddTo(w, acc[w]) \/ L!Release(acc[w])
      BY <3>1, <3>2 DEF L!AddTo, L!Release
    <3>4. QED
      BY <3>2, <3>3 DEF L!Next
  <2>4. CASE Close(w) \/ AcceptClose(w)
    <3>1. PICK c \in Owns(w) : /\ L!CanEnter(w) /\ L!Delete(c) /\ Reaches(c) /\ c # Listen
                               /\ pc[w] \in {"close", "acceptclose"}
      <4>1. CASE Close(w)
        <5>1. pc[w] = "close" /\ L!CanEnter(w) /\ L!Delete(cur[w]) /\ Reaches(cur[w])
          BY <4>1 DEF Close
        <5>2. cur[w] \in Owns(w) /\ cur[w] # Listen
          BY <5>1 DEF Owns, ClientsOnly
        <5>3. QED
          BY <5>1, <5>2
      <4>2. CASE AcceptClose(w)
        <5>1. pc[w] = "acceptclose" /\ L!CanEnter(w) /\ L!Delete(acc[w]) /\ Reaches(acc[w])
          BY <4>2 DEF AcceptClose
        <5>2. acc[w] \in Owns(w) /\ acc[w] # Listen
          BY <5>1 DEF Owns, OwnerInv, Shapes
        <5>3. QED
          BY <5>1, <5>2
      <4>3. QED
        BY <2>4, <4>1, <4>2
    <3>2. c \in Ctx
      BY <3>1 DEF OwnerInv, Hold, Keys
    <3>3. c \in L!Listed
      <4>1. CASE timedOut
        BY <3>1, <4>1 DEF Reaches
      <4>2. CASE ~timedOut
        <5>1. main \in {"serve", "join"}
          BY <3>1, <4>2 DEF OwnerInv, AllGone
        <5>2. io[c] = "held" /\ \A v \in Workers : v # w => c \notin Owns(v)
          BY <3>1, <5>1 DEF OwnerInv, Hold, Dead
        <5>3. Placed(c)
          BY <3>2, <5>1, <5>2 DEF ListInv, BusyPlaced, Busy
        <5>4. \A v \in Workers : pc[v] = "associate" => acc[v] \in Owns(v)
          BY DEF Owns
        <5>5. QED
          BY <3>1, <5>2, <5>3, <5>4 DEF Placed
      <4>3. QED
        BY <4>1, <4>2
    <3>4. L!CloseClient(w, c)
      BY <3>1, <3>3 DEF L!CloseClient, L!Listed
    <3>5. QED
      BY <3>2, <3>4 DEF L!Next
  <2>5. QED
    BY <1>3, <2>1, <2>2, <2>3, <2>4 DEF Plain
<1>4. QED
  BY <1>1, <1>2, <1>3 DEF Next, WorkerStepOf

\* The server's part of the argument, for every step.
LEMMA ListInvHolds == Spec => [](OwnerInv /\ ClientsOnly /\ ListInv)
<1>1. Init => ListInv
  <2>1. ASSUME Init
        PROVE  ListInv
    <3>1. /\ fresh = {} /\ order = <<>> /\ \A w \in Workers : pc[w] = "wait"
          /\ \A c \in Ctx : io[c] = "none"
      BY <2>1, EchoServerAssumption DEF Init, L!Init, Keys
    <3>2. \A w \in Workers : Owns(w) = {}
      BY <3>1 DEF Owns
    <3>3. QED
      BY <3>1, <3>2 DEF ListInv, ListOfContexts, OneAccepts, FreshHeld, BusyPlaced, Busy
  <2>2. QED
    BY <2>1
<1>2. OwnerInv /\ ClientsOnly /\ ListInv /\ [Next]_vars => ListInv'
  BY ListNext, ListStep, AcceptsNext, FreshNext, PlacedNext DEF ListInv
<1>3. QED
  BY <1>1, <1>2, OwnerInit, OwnerNext, ChainInit, ChainNext, PTL DEF Spec

(***************************************************************************)
(* WorkerThread, CloseClient and main() change the list of contexts only   *)
(* in the ways CtxtList describes: what a worker adds or frees it has      *)
(* allocated, what it closes is listed, and main() sweeps once.  For that  *)
(* a context needs one owner and its operation a place in the list, which  *)
(* no lock and no test in these functions sees to.                         *)
(***************************************************************************)
THEOREM UsesCtxtListHolds == Spec => UsesCtxtList
<1>1. Init => L!Init
  BY DEF Init
<1>2. OwnerInv /\ ClientsOnly /\ ListInv /\ [Next]_vars => [L!Next]_(L!vars)
  BY ListNext DEF listVars, L!vars
<1>3. QED
  BY <1>1, <1>2, ListInvHolds, PTL DEF Spec, UsesCtxtList, L!Spec

-----------------------------------------------------------------------------
(* What CtxtListProofs shows of the list, carried over to the server's.    *)

LP == INSTANCE CtxtListProofs WITH Threads <- Workers \cup {Main}

\* Both instances have the same steps.
LEMMA SameList ==
  /\ L!Init => LP!Init
  /\ [L!Next]_(L!vars) => [LP!Next]_(LP!vars)
<1>1. L!Init => LP!Init
  BY DEF L!Init, LP!Init
<1>2. /\ \A s, i : L!At(s, i) = LP!At(s, i)
      /\ \A s, c : L!Drop(s, c) = LP!Drop(s, c)
  BY DEF L!At, LP!At, L!Drop, LP!Drop
<1>3. \A s : L!Newest(s) = LP!Newest(s)
  BY <1>2 DEF L!Newest, LP!Newest
<1>4. \A c : L!Benign(c) <=> LP!Benign(c)
  BY <1>2, <1>3 DEF L!Benign, LP!Benign
<1>5. \A c : L!Unlink(c) <=> LP!Unlink(c)
  BY <1>2 DEF L!Unlink, LP!Unlink, L!Touch, LP!Touch
<1>6. \A t, c : L!CloseClient(t, c) <=> LP!CloseClient(t, c)
  BY <1>4, <1>5 DEF L!CloseClient, LP!CloseClient, L!Delete, LP!Delete, L!CanEnter, LP!CanEnter
<1>7. \A t, c : L!Allocate(t, c) <=> LP!Allocate(t, c)
  BY DEF L!Allocate, LP!Allocate, L!CanEnter, LP!CanEnter
<1>8. \A t, c : L!AllocateInnerFails(t, c) <=> LP!AllocateInnerFails(t, c)
  BY DEF L!AllocateInnerFails, LP!AllocateInnerFails, L!CanEnter, LP!CanEnter
<1>9. \A t : L!AllocateOuterFails(t) <=> LP!AllocateOuterFails(t)
  BY DEF L!AllocateOuterFails, LP!AllocateOuterFails, L!CanEnter, LP!CanEnter, L!Enter, LP!Enter,
     L!listVars, LP!listVars
<1>10. \A t, c : L!AddTo(t, c) <=> LP!AddTo(t, c)
  BY DEF L!AddTo, LP!AddTo, L!Add, LP!Add, L!CanEnter, LP!CanEnter, L!Insert, LP!Insert, L!Touch, LP!Touch
<1>11. \A c : L!Release(c) <=> LP!Release(c)
  BY DEF L!Release, LP!Release, L!Free, LP!Free, L!Touch, LP!Touch
<1>12. L!SweepBegin <=> LP!SweepBegin
  BY DEF L!SweepBegin, LP!SweepBegin, L!CanEnter, LP!CanEnter, L!Enter, LP!Enter,
     L!listVars, LP!listVars
<1>13. L!SweepStep <=> LP!SweepStep
  BY <1>5 DEF L!SweepStep, LP!SweepStep
<1>14. L!SweepEnd <=> LP!SweepEnd
  BY DEF L!SweepEnd, LP!SweepEnd, L!Leave, LP!Leave, L!listVars, LP!listVars
<1>15. ASSUME L!Next
       PROVE  LP!Next
  <2>1. CASE \E t \in Workers \cup {Main}, c \in Ctx :
               L!Allocate(t, c) \/ L!AllocateInnerFails(t, c) \/ L!AddTo(t, c) \/ L!CloseClient(t, c)
    <3>1. PICK t \in Workers \cup {Main}, c \in Ctx :
            L!Allocate(t, c) \/ L!AllocateInnerFails(t, c) \/ L!AddTo(t, c) \/ L!CloseClient(t, c)
      BY <2>1
    <3>2. \/ LP!Allocate(t, c) \/ LP!AllocateInnerFails(t, c)
          \/ LP!AddTo(t, c) \/ LP!CloseClient(t, c)
      BY <1>6, <1>7, <1>8, <1>10, <3>1
    <3>3. QED
      BY <3>2 DEF LP!Next
  <2>2. CASE \E t \in Workers \cup {Main} : L!AllocateOuterFails(t)
    BY <1>9, <2>2 DEF LP!Next
  <2>3. CASE \E c \in Ctx : L!Release(c)
    BY <1>11, <2>3 DEF LP!Next
  <2>4. CASE L!SweepBegin \/ L!SweepStep \/ L!SweepEnd
    BY <1>12, <1>13, <1>14, <2>4 DEF LP!Next
  <2>5. QED
    BY <1>15, <2>1, <2>2, <2>3, <2>4 DEF L!Next
<1>16. UNCHANGED L!vars => UNCHANGED LP!vars
  BY DEF L!vars, LP!vars
<1>17. QED
  BY <1>1, <1>15, <1>16

(***************************************************************************)
(* CtxtAllocate, CtxtListAddTo, CloseClient and CtxtListFree, called by    *)
(* the workers and main() of the server: the list is the history of the    *)
(* list, loses no context, and the sweep of main() stays on it.            *)
(***************************************************************************)
THEOREM ServerListHolds ==
  Spec => [](L!IntactUnlessTainted /\ L!NoneLost /\ L!SweepOnTrack)
<1>1. L!CtxtListAssumption
  BY EchoServerAssumption DEF L!CtxtListAssumption
<1>2. LP!Spec => []LP!IntactUnlessTainted
  BY <1>1, LP!ListIntact
<1>3. LP!Spec => []LP!NoneLost
  BY <1>1, LP!ListComplete
<1>4. LP!Spec => []LP!SweepOnTrack
  BY <1>1, LP!SweepReachesAll
<1>5. L!Spec => LP!Spec
  BY SameList, PTL DEF L!Spec, LP!Spec
<1>6. /\ \A s, i : L!At(s, i) = LP!At(s, i)
      /\ \A s : L!Newest(s) = LP!Newest(s)
  BY DEF L!At, LP!At, L!Newest, LP!Newest
<1>7. L!Linked <=> LP!Linked
  BY <1>6 DEF L!Linked, LP!Linked
<1>8. LP!IntactUnlessTainted => L!IntactUnlessTainted
  BY <1>6, <1>7 DEF LP!IntactUnlessTainted, L!IntactUnlessTainted, LP!Intact, L!Intact
<1>9. LP!NoneLost => L!NoneLost
  BY DEF LP!NoneLost, L!NoneLost, LP!Listed, L!Listed
<1>10. LP!SweepOnTrack => L!SweepOnTrack
  BY <1>6, <1>7 DEF LP!SweepOnTrack, L!SweepOnTrack
<1>11. QED
  BY <1>2, <1>3, <1>4, <1>5, <1>8, <1>9, <1>10, UsesCtxtListHolds, PTL DEF UsesCtxtList

-----------------------------------------------------------------------------
(***************************************************************************)
(* The end of the cleanup.  A context that is in no list is in the hands   *)
(* of a worker about to add it, one that was freed has no socket, and the  *)
(* sweep of main() leaves no context in the list.                          *)
(***************************************************************************)
AtHand == \A c \in fresh : \E w \in Workers : pc[w] = "associate" /\ acc[w] = c

FreedClosed == \A c \in Ctx \ alive : sock[c] = NULL

SweptEmpty == main = "done" /\ ~timedOut /\ ~tainted => order = <<>>

CleanInv == AtHand /\ FreedClosed /\ SweptEmpty

\* A worker leaves CtxtListAddTo only with its context in the list or freed.
LEMMA HandsNext ==
  ASSUME OwnerInv, AtHand, [Next]_vars
  PROVE  AtHand'
<1>1. Shapes
  BY DEF OwnerInv
<1>2. CASE Network \/ CtrlEnd \/ CtrlEvent \/ MainNext \/ UNCHANGED vars
  BY <1>2, QuietHands DEF AtHand
<1>3. ASSUME NEW w \in Workers,
             \A v \in Workers \ {w} : pc'[v] = pc[v] /\ acc'[v] = acc[v],
             \A c \in fresh' : \/ c \in fresh /\ (pc[w] = "associate" => acc[w] # c)
                               \/ pc'[w] = "associate" /\ acc'[w] = c
      PROVE  AtHand'
  <2>1. ASSUME NEW c \in fresh'
        PROVE  \E v \in Workers : pc'[v] = "associate" /\ acc'[v] = c
    <3>1. CASE pc'[w] = "associate" /\ acc'[w] = c
      BY <3>1
    <3>2. CASE c \in fresh /\ (pc[w] = "associate" => acc[w] # c)
      <4>1. PICK v \in Workers : pc[v] = "associate" /\ acc[v] = c
        BY <3>2 DEF AtHand
      <4>2. QED
        BY <1>3, <3>2, <4>1
    <3>3. QED
      BY <1>3, <3>1, <3>2
  <2>2. QED
    BY <2>1 DEF AtHand
<1>4. ASSUME NEW w \in Workers,
             DequeueQuit(w) \/ PortGone(w) \/ Works(w) \/ \E key \in Keys : Dequeue(w, key)
      PROVE  AtHand'
  <2>1. ASSUME NEW l, Loop(w) \/ (Goto(w, l) /\ UNCHANGED acc)
        PROVE  \A v \in Workers \ {w} : pc'[v] = pc[v] /\ acc'[v] = acc[v]
    BY <1>1, <2>1, GotoShape, LoopShape
  <2>2. CASE \/ DequeueQuit(w) \/ PortGone(w) \/ \E key \in Keys : Dequeue(w, key)
             \/ Check(w) \/ ReadDone(w) \/ WriteDone(w) \/ Log(w)
             \/ AcceptUpdate(w) \/ AcceptPost(w) \/ Rearm(w) \/ RearmRefused(w) \/ RearmFails(w)
    <3>1. pc[w] # "associate" /\ fresh' = fresh
      BY <2>2 DEF DequeueQuit, PortGone, Dequeue, Check, ReadDone, WriteDone, Log,
         AcceptUpdate, AcceptPost, Rearm, RearmRefused, RearmFails, listVars
    <3>2. Loop(w) \/ \E l : Goto(w, l) /\ UNCHANGED acc
      <4>1. CASE ReadDone(w) \/ WriteDone(w) \/ AcceptPost(w)
        BY <4>1 DEF ReadDone, WriteDone, AcceptPost, Post
      <4>2. CASE DequeueQuit(w) \/ PortGone(w) \/ \E key \in Keys : Dequeue(w, key)
        BY <4>2 DEF DequeueQuit, PortGone, Dequeue
      <4>3. CASE Check(w)
        BY <4>3 DEF Check
      <4>4. CASE AcceptUpdate(w) \/ RearmFails(w)
        BY <4>4 DEF AcceptUpdate, RearmFails, GiveUp
      <4>5. CASE Log(w) \/ Rearm(w) \/ RearmRefused(w)
        BY <4>5 DEF Log, Rearm, RearmRefused
      <4>6. QED
        BY <2>2, <4>1, <4>2, <4>3, <4>4, <4>5
    <3>3. \A v \in Workers \ {w} : pc'[v] = pc[v] /\ acc'[v] = acc[v]
      BY <2>1, <3>2
    <3>4. QED
      BY <1>3, <3>1, <3>3
  <2>3. CASE Close(w) \/ AcceptClose(w) \/ AcceptAllocateFails(w)
    <3>1. pc[w] # "associate" /\ fresh' = fresh
      BY <2>3 DEF Close, AcceptClose, AcceptAllocateFails, L!Delete, L!AllocateOuterFails
    <3>2. Loop(w) \/ \E l : Goto(w, l) /\ UNCHANGED acc
      BY <2>3 DEF Close, AcceptClose, AcceptAllocateFails, GiveUp
    <3>3. \A v \in Workers \ {w} : pc'[v] = pc[v] /\ acc'[v] = acc[v]
      BY <2>1, <3>2
    <3>4. QED
      BY <1>3, <3>1, <3>3
  <2>4. CASE AcceptAssociate(w) \/ AcceptAssociateFails(w)
    <3>1. fresh' = fresh \ {acc[w]}
      BY <2>4 DEF AcceptAssociate, AcceptAssociateFails, L!Add, L!Free
    <3>2. \E l : Goto(w, l) /\ UNCHANGED acc
      BY <2>4 DEF AcceptAssociate, AcceptAssociateFails, GiveUp
    <3>3. \A v \in Workers \ {w} : pc'[v] = pc[v] /\ acc'[v] = acc[v]
      BY <2>1, <3>2
    <3>4. QED
      BY <1>3, <3>1, <3>3
  <2>5. ASSUME NEW c \in Ctx, AcceptAllocate(w, c)
        PROVE  AtHand'
    <3>1. /\ fresh' = fresh \cup {c} /\ acc' = [acc EXCEPT ![w] = c]
          /\ pc[w] = "allocate" /\ Goto(w, "associate")
      BY <2>5 DEF AcceptAllocate, L!Allocate
    <3>2. /\ pc'[w] = "associate" /\ acc'[w] = c
          /\ \A v \in Workers \ {w} : pc'[v] = pc[v] /\ acc'[v] = acc[v]
      BY <1>1, <3>1, GotoShape DEF Shapes
    <3>3. QED
      BY <1>3, <3>1, <3>2
  <2>6. QED
    BY <1>4, <2>2, <2>3, <2>4, <2>5 DEF Works, Accepting
<1>5. QED
  BY <1>2, <1>4 DEF Next

\* A context gets a socket only when it is allocated.
LEMMA SockStep ==
  ASSUME Shapes, Next, NEW c \in Ctx
  PROVE  sock'[c] \in {sock[c], NULL} \/ c \in alive'
<1>1. c # Listen /\ c \in Keys
  BY EchoServerAssumption DEF Keys
<1>2. CASE \/ sock' = sock
           \/ \E k : sock' = [sock EXCEPT ![k] = NULL]
           \/ \E s : sock' = [sock EXCEPT ![Listen] = s]
  BY <1>1, <1>2 DEF Shapes
<1>3. CASE Network
  BY <1>2, <1>3 DEF Network, Connect, Reset, AcceptCompletes, RecvCompletes, SendCompletes, Aborts,
     ioVars
<1>4. CASE MainNext \/ CtrlEnd \/ CtrlEvent
  BY <1>2, <1>4 DEF MainNext, MainWakes, MainJoins, MainTimesOut, MainSweeps, SweepCloses,
     SweepFrees, MainDone, CtrlEnd, CtrlEvent, ioVars
<1>5. ASSUME NEW w \in Workers,
             DequeueQuit(w) \/ PortGone(w) \/ Works(w) \/ \E key \in Keys : Dequeue(w, key)
      PROVE  sock'[c] \in {sock[c], NULL} \/ c \in alive'
  <2>1. CASE \/ DequeueQuit(w) \/ PortGone(w) \/ \E key \in Keys : Dequeue(w, key)
             \/ Check(w) \/ ReadDone(w) \/ WriteDone(w) \/ Log(w)
             \/ AcceptUpdate(w) \/ AcceptAllocateFails(w) \/ AcceptAssociate(w) \/ AcceptPost(w)
    BY <1>2, <2>1 DEF DequeueQuit, PortGone, Dequeue, Check, ReadDone, WriteDone, Log,
       AcceptUpdate, AcceptAllocateFails, AcceptAssociate, AcceptPost, ioVars
  <2>2. CASE \/ Close(w) \/ AcceptClose(w) \/ AcceptAssociateFails(w)
             \/ Rearm(w) \/ RearmRefused(w) \/ RearmFails(w)
    BY <1>2, <2>2 DEF Close, AcceptClose, AcceptAssociateFails, Rearm, RearmRefused, RearmFails
  <2>3. ASSUME NEW d \in Ctx, AcceptAllocate(w, d)
        PROVE  sock'[c] \in {sock[c], NULL} \/ c \in alive'
    <3>1. sock' = [sock EXCEPT ![d] = sock[Listen]] /\ d \in alive'
      BY <2>3, HeapEffects DEF AcceptAllocate
    <3>2. QED
      BY <1>1, <3>1 DEF Shapes
  <2>4. QED
    BY <1>5, <2>1, <2>2, <2>3 DEF Works, Accepting
<1>6. QED
  BY <1>3, <1>4, <1>5 DEF Next

\* ... and loses it before it is freed.
LEMMA FreedNext ==
  ASSUME OwnerInv, FreedClosed, [Next]_vars
  PROVE  FreedClosed'
<1>1. CASE Next
  <2>1. ASSUME NEW c \in Ctx \ alive'
        PROVE  sock'[c] = NULL
    <3>1. CASE c \in alive
      BY <1>1, <2>1, <3>1, FreesCompleted
    <3>2. CASE c \notin alive
      BY <1>1, <2>1, <3>2, SockStep DEF OwnerInv, FreedClosed
    <3>3. QED
      BY <3>1, <3>2
  <2>2. QED
    BY <2>1 DEF FreedClosed
<1>2. CASE UNCHANGED vars
  BY <1>2 DEF vars, listVars, ioVars, FreedClosed
<1>3. QED
  BY <1>1, <1>2

\* The sweep ends with an empty list, which stays empty without workers.
LEMMA SweptNext ==
  ASSUME OwnerInv, ListOfContexts, L!SweepOnTrack, SweptEmpty, [Next]_vars
  PROVE  SweptEmpty'
<1> SUFFICES ASSUME main' = "done", ~timedOut', ~tainted'
             PROVE  order' = <<>>
  BY DEF SweptEmpty
<1>1. CASE MainDone
  <2>1. phase = "sweep" /\ cursor = NULL /\ order' = order /\ tainted' = tainted
    BY <1>1 DEF MainDone, L!SweepEnd, L!listVars
  <2>2. cursor = L!Newest(order)
    BY <2>1 DEF L!SweepOnTrack
  <2>3. order \in Seq(Ctx) /\ NULL \notin Ctx
    BY EchoServerAssumption DEF ListOfContexts
  <2>4. Len(order) \notin 1..Len(order)
    BY <2>1, <2>2, <2>3 DEF L!Newest, L!At
  <2>5. QED
    BY <2>1, <2>3, <2>4
<1>2. CASE ~MainDone
  <2>1. main = "done" /\ ~timedOut
    <3>1. CASE MainNext
      BY <1>2, <3>1 DEF MainNext, MainWakes, MainJoins, MainTimesOut, MainSweeps, SweepCloses,
         SweepFrees, endVars
    <3>2. CASE ~MainNext
      <4>1. UNCHANGED <<main, timedOut>>
        <5>1. CASE Network \/ CtrlEnd \/ CtrlEvent \/ UNCHANGED vars
          BY <5>1 DEF Network, Connect, Reset, AcceptCompletes, RecvCompletes, SendCompletes, Aborts,
             CtrlEnd, CtrlEvent, vars, endVars
        <5>2. ASSUME NEW w \in Workers,
                     \/ DequeueQuit(w) \/ PortGone(w) \/ Works(w)
                     \/ \E key \in Keys : Dequeue(w, key)
              PROVE  UNCHANGED <<main, timedOut>>
          BY <5>2 DEF DequeueQuit, PortGone, Dequeue, Works, Accepting, Check, ReadDone, WriteDone,
             Log, Close, AcceptUpdate, AcceptAllocate, AcceptAllocateFails, AcceptAssociate,
             AcceptAssociateFails, AcceptPost, AcceptClose, Rearm, RearmRefused, RearmFails, GiveUp,
             endVars
        <5>3. QED
          BY <3>2, <5>1, <5>2 DEF Next
      <4>2. QED
        BY <4>1
    <3>3. QED
      BY <3>1, <3>2
  <2>2. \A w \in Workers : pc[w] = "exited"
    BY <2>1 DEF OwnerInv, AllGone
  <2>3. ASSUME NEW w \in Workers,
               DequeueQuit(w) \/ PortGone(w) \/ Works(w) \/ \E key \in Keys : Dequeue(w, key)
        PROVE  pc[w] # "exited"
    BY <2>3 DEF DequeueQuit, PortGone, Dequeue, Works, Accepting, Check, ReadDone, WriteDone, Log,
       Close, AcceptUpdate, AcceptAllocate, AcceptAllocateFails, AcceptAssociate,
       AcceptAssociateFails, AcceptPost, AcceptClose, Rearm, RearmRefused, RearmFails
  <2>4. ~MainNext
    BY <1>2, <2>1 DEF MainNext, MainWakes, MainJoins, MainTimesOut, MainSweeps, SweepCloses,
       SweepFrees
  <2>5. Network \/ CtrlEnd \/ CtrlEvent \/ UNCHANGED vars
    BY <2>2, <2>3, <2>4 DEF Next
  <2>6. UNCHANGED listVars
    BY <2>5 DEF Network, Connect, Reset, AcceptCompletes, RecvCompletes, SendCompletes, Aborts,
       CtrlEnd, CtrlEvent, vars
  <2>7. UNCHANGED <<order, tainted>>
    BY <2>6 DEF listVars
  <2>8. QED
    BY <2>1, <2>7 DEF SweptEmpty
<1>3. QED
  BY <1>1, <1>2

\* With nothing in the list and no worker left, nothing is allocated.
LEMMA NothingLeft ==
  ASSUME OwnerInv, CleanInv, L!NoneLost, main = "done", ~timedOut, ~tainted
  PROVE  alive = {} /\ \A k \in Keys : sock[k] = NULL
<1>1. fresh = {}
  BY DEF CleanInv, AtHand, OwnerInv, AllGone
<1>2. order = <<>>
  BY DEF CleanInv, SweptEmpty
<1>3. L!Listed = {}
  BY <1>2 DEF L!Listed
<1>4. alive = {}
  BY <1>1, <1>3 DEF L!NoneLost
<1>5. sock[Listen] = NULL
  BY DEF OwnerInv, Swept, Dead
<1>6. \A c \in Ctx : sock[c] = NULL
  BY <1>4 DEF CleanInv, FreedClosed
<1>7. QED
  BY <1>4, <1>5, <1>6 DEF Keys

\* The message about a posted operation is for g_bVerbose.
LogInv == \A w \in Workers : pc[w] = "log" => Verbose

LEMMA LogNext == OwnerInv /\ LogInv /\ [Next]_vars => LogInv'
<1> SUFFICES ASSUME OwnerInv, LogInv, [Next]_vars PROVE LogInv'
  OBVIOUS
<1>1. Shapes
  BY DEF OwnerInv
<1>2. CASE Network \/ CtrlEnd \/ CtrlEvent \/ MainNext \/ UNCHANGED vars
  BY <1>2, QuietHands DEF LogInv
<1>3. ASSUME NEW w \in Workers, WorkerStepOf(w)
      PROVE  LogInv'
  <2>1. ASSUME NEW l, Loop(w) \/ Goto(w, l), l = "log" => Verbose
        PROVE  LogInv'
    BY <1>1, <2>1, GotoShape, LoopShape DEF Loop, LogInv
  <2>2. CASE Check(w)
    <3> DEFINE l == IF cur[w] = Listen THEN "accept"
                    ELSE IF ~res[cur[w]].ok \/ res[cur[w]].n = 0 THEN "close" ELSE ctx[cur[w]].op
    <3>1. (Goto(w, "exited") \/ Goto(w, l)) /\ cur[w] \in Keys
      BY <2>2 DEF Check, Owns, OwnerInv, Hold
    <3>2. l # "log"
      BY <1>1, <3>1 DEF Shapes, Ops
    <3> HIDE DEF l
    <3>3. QED
      BY <2>1, <3>1, <3>2
  <2>3. CASE ReadDone(w) \/ WriteDone(w) \/ AcceptPost(w)
    <3>1. \/ Loop(w) \/ Goto(w, "close") \/ Goto(w, "rearm") \/ Goto(w, "acceptclose")
          \/ Verbose /\ Goto(w, "log")
      BY <2>3 DEF ReadDone, WriteDone, AcceptPost, Post, AfterPost
    <3>2. QED
      BY <2>1, <3>1
  <2>4. CASE ~Check(w) /\ ~ReadDone(w) /\ ~WriteDone(w) /\ ~AcceptPost(w)
    <3>1. \/ Loop(w) \/ Goto(w, "exited") \/ Goto(w, "check") \/ Goto(w, "allocate")
          \/ Goto(w, "associate") \/ Goto(w, "post") \/ Goto(w, "rearm")
      BY <1>3, <2>4 DEF WorkerStepOf, Works, Accepting, DequeueQuit, PortGone, Dequeue, Log, Close,
         AcceptUpdate, AcceptAllocate, AcceptAllocateFails, AcceptAssociate, AcceptAssociateFails,
         AcceptClose, Rearm, RearmRefused, RearmFails, GiveUp
    <3>2. QED
      BY <2>1, <3>1
  <2>5. QED
    BY <2>2, <2>3, <2>4
<1>4. QED
  BY <1>2, <1>3 DEF Next, WorkerStepOf

(***************************************************************************)
(* CloseClient and the cleanup of main(): what a worker still uses has not *)
(* been freed, but for the context a message of g_bVerbose is about, no    *)
(* worker uses anything during the cleanup, and after it no context is     *)
(* allocated and no socket open, unless the wait for the workers timed     *)
(* out, or CtxtListDeleteFrom has misjudged a context.                     *)
(***************************************************************************)
THEOREM AllocatedWhileUsedHolds == Spec => []AllocatedWhileUsed
<1>1. Init => CleanInv
  BY DEF Init, L!Init, CleanInv, AtHand, FreedClosed, SweptEmpty, Keys
<1>2. OwnerInv /\ ListOfContexts /\ L!SweepOnTrack /\ CleanInv /\ [Next]_vars => CleanInv'
  BY HandsNext, FreedNext, SweptNext DEF CleanInv
<1>3. OwnerInv /\ CleanInv /\ L!NoneLost /\ LogInv => AllocatedWhileUsed
  <2> SUFFICES ASSUME OwnerInv, CleanInv, L!NoneLost, LogInv, ~timedOut
               PROVE  AllocatedWhileUsed
    BY DEF AllocatedWhileUsed
  <2>1. ASSUME NEW w \in Workers
        PROVE  /\ Uses(w) \ {Listen} \subseteq alive \/ (Verbose /\ pc[w] = "log")
               /\ Uses(w) # {} => main \in {"serve", "join"}
    <3>1. CASE pc[w] = "log"
      BY <3>1 DEF LogInv, OwnerInv, AllGone
    <3>2. CASE pc[w] # "log"
      <4>1. Uses(w) = Owns(w)
        BY <3>2 DEF Uses
      <4>2. /\ Owns(w) \ {Listen} \subseteq alive
            /\ Owns(w) # {} => main \in {"serve", "join"}
        BY OwnerInvUsed DEF InUseAllocated
      <4>3. QED
        BY <4>1, <4>2
    <3>3. QED
      BY <3>1, <3>2
  <2>2. QED
    BY <2>1, NothingLeft DEF AllocatedWhileUsed
<1>4. ListInv => ListOfContexts
  BY DEF ListInv
<1>5. Init => LogInv
  BY DEF Init, LogInv
<1>6. QED
  BY <1>1, <1>2, <1>3, <1>4, <1>5, LogNext, ListInvHolds, ServerListHolds, PTL DEF Spec

-----------------------------------------------------------------------------
(***************************************************************************)
(* What a client has sent and not got back is in one place: with the       *)
(* listening context until the new context has its first operation, and    *)
(* then in the Buffer of the one context that has the client's socket.     *)
(***************************************************************************)

\* x may come back as the i-th unit of client k.
Fits(k, i, x) == x = Stream[k][i] \/ (x = NUL /\ \E j \in 1..i : Stream[k][j] = NUL)

Echoed(k) ==
  Len(rcvd[k]) <= taken[k] /\ \A i \in 1..Len(rcvd[k]) : Fits(k, i, rcvd[k][i])

\* The units of b after the p-th, up to the t-th, are all that k should still
\* get back.
Owes(k, b, p, t) ==
  /\ p <= t /\ t <= Len(b)
  /\ taken[k] = Len(rcvd[k]) + (t - p)
  /\ \A i \in (p + 1)..t : Fits(k, Len(rcvd[k]) + (i - p), b[i])

\* The contents of a context whose WSASend or WSARecv is posted ...
Posted(c) ==
  IF ctx[c].op = "Write"
  THEN Owes(sock[c], ctx[c].buf, ctx[c].sent, ctx[c].total)
  ELSE taken[sock[c]] = Len(rcvd[sock[c]])

\* ... or has completed ...
Returned(c) ==
  IF ctx[c].op = "Write"
  THEN Owes(sock[c], ctx[c].buf, ctx[c].sent + res[c].n, ctx[c].total)
  ELSE Owes(sock[c], ctx[c].buf, 0, res[c].n)

\* ... and of the listening context when AcceptEx has: the first block of k.
First(k) ==
  /\ rcvd[k] = <<>> /\ taken[k] = res[Listen].n
  /\ res[Listen].n <= Len(ctx[Listen].buf)
  /\ \A i \in 1..res[Listen].n : ctx[Listen].buf[i] = Stream[k][i]

AtListen(w) == pc[w] \in {"accept", "allocate"} \/ (pc[w] = "check" /\ cur[w] = Listen)

Waiting(k) == peer[k] = "new" \/ \E i \in 1..Len(backlog) : backlog[i] = k

DataTypes ==
  /\ taken \in [Clients -> Nat] /\ rcvd \in [Clients -> Seq(Units)]
  /\ backlog \in Seq(Clients) /\ peer = [k \in Clients |-> peer[k]]
  /\ sock \in [Keys -> Clients \cup {NULL}]
  /\ res \in [Keys -> [ok : BOOLEAN, n : Nat]]
  /\ ctx \in [Keys -> [op : Ops, total : Nat, sent : Nat, buf : Seq(Units)]]

OneEach == \A c, d \in Ctx : sock[c] # NULL /\ sock[c] = sock[d] => c = d

WaitingUntouched ==
  /\ \A k \in Clients : Waiting(k) => /\ taken[k] = 0 /\ rcvd[k] = <<>>
                                      /\ \A key \in Keys : sock[key] # k
  /\ \A i, j \in 1..Len(backlog) : backlog[i] = backlog[j] => i = j
  /\ \A i \in 1..Len(backlog) : peer[backlog[i]] # "new"

ListenOwes ==
  /\ io[Listen] = "pending" => sock[Listen] = NULL
  /\ sock[Listen] # NULL /\ (io[Listen] = "done" \/ \E w \in Workers : AtListen(w)) =>
       First(sock[Listen]) /\ \A c \in Ctx : sock[c] # sock[Listen]

CtxOwes(c) ==
  sock[c] # NULL => /\ io[c] = "pending" => Posted(c)
                    /\ io[c] = "done" => Returned(c)

HandOwes(w) ==
  pc[w] \in {"check", "Read", "Write"} /\ cur[w] \in Ctx /\ sock[cur[w]] # NULL =>
    Returned(cur[w]) /\ (pc[w] # "check" => ctx[cur[w]].op = pc[w])

NewOwes(w) ==
  pc[w] \in {"associate", "post"} /\ sock[acc[w]] # NULL => First(sock[acc[w]])

DataInv ==
  /\ DataTypes /\ EchoInOrder /\ OneEach /\ WaitingUntouched
  /\ ListenOwes /\ \A c \in Ctx : CtxOwes(c)
  /\ \A w \in Workers : HandOwes(w) /\ NewOwes(w)

-----------------------------------------------------------------------------
(* Blocks.                                                                 *)

\* n elements of s after the t-th.
LEMMA Block ==
  ASSUME NEW S, NEW s \in Seq(S), NEW t \in Nat, NEW n \in Nat, t + n <= Len(s)
  PROVE  /\ SubSeq(s, t + 1, t + n) \in Seq(S)
         /\ Len(SubSeq(s, t + 1, t + n)) = n
         /\ \A i \in 1..n : SubSeq(s, t + 1, t + n)[i] = s[t + i]
<1>1. Len(s) \in Nat
  BY LenProperties
<1>2. \A i \in (t + 1)..(t + n) : i \in 1..Len(s)
  BY <1>1
<1>3. \A i \in (t + 1)..(t + n) : s[i] \in S
  BY <1>2, ElementOfSeq
<1>4. /\ SubSeq(s, t + 1, t + n) \in Seq(S)
      /\ Len(SubSeq(s, t + 1, t + n)) = IF t + 1 <= t + n THEN (t + n) - (t + 1) + 1 ELSE 0
      /\ \A i \in 1..((t + n) - (t + 1) + 1) : SubSeq(s, t + 1, t + n)[i] = s[(t + 1) + i - 1]
  BY <1>3, SubSeqProperties
<1>5. \A i \in 1..n : i \in 1..((t + n) - (t + 1) + 1) /\ (t + 1) + i - 1 = t + i
  OBVIOUS
<1>6. Len(SubSeq(s, t + 1, t + n)) = n
  BY <1>4
<1>7. QED
  BY <1>4, <1>5, <1>6

\* StringCbCopyN keeps the length and every unit before the first zero.
LEMMA Copied ==
  ASSUME NEW b \in Seq(Units)
  PROVE  /\ StringCopy(b) \in Seq(Units) /\ Len(StringCopy(b)) = Len(b)
         /\ \A i \in 1..Len(b) :
              StringCopy(b)[i] = IF \E j \in 1..i : b[j] = NUL THEN NUL ELSE b[i]
<1>1. Len(b) \in Nat /\ \A i \in 1..Len(b) : b[i] \in Units
  BY LenProperties, ElementOfSeq
<1>2. NUL \in Units
  BY DEF Units
<1>3. StringCopy(b) = [i \in 1..Len(b) |-> IF \E j \in 1..i : b[j] = NUL THEN NUL ELSE b[i]]
  BY DEF StringCopy
<1>4. StringCopy(b) \in [1..Len(b) -> Units]
  BY <1>1, <1>2, <1>3
<1>5. StringCopy(b) \in Seq(Units) /\ Len(StringCopy(b)) = Len(b)
  BY <1>1, <1>4
<1>6. QED
  BY <1>3, <1>5

\* The copy of a first block fits.
LEMMA CopyFits ==
  ASSUME NEW b \in Seq(Units), NEW k, NEW n \in Nat, n <= Len(b),
         \A i \in 1..n : b[i] = Stream[k][i], NEW i \in 1..n
  PROVE  Fits(k, i, StringCopy(b)[i])
<1>1. Len(b) \in Nat
  BY LenProperties
<1>2. i \in 1..Len(b) /\ \A j \in 1..i : j \in 1..n
  BY <1>1
<1>3. b[i] = Stream[k][i] /\ \A j \in 1..i : b[j] = Stream[k][j]
  BY <1>2
<1>4. StringCopy(b)[i] = IF \E j \in 1..i : b[j] = NUL THEN NUL ELSE b[i]
  BY <1>2, Copied
<1>5. QED
  BY <1>3, <1>4 DEF Fits

-----------------------------------------------------------------------------
(* Types.                                                                  *)

Context == [op : Ops, total : Nat, sent : Nat, buf : Seq(Units)]

\* What the handlers write to a context.
LEMMA CtxTyped ==
  ASSUME DataTypes, NEW c, NEW n \in Nat, NEW s \in Nat, NEW b \in Seq(Units),
         \/ ctx' = ctx
         \/ ctx' = [ctx EXCEPT ![c] = Zeroed]
         \/ ctx' = [ctx EXCEPT ![c].buf = b]
         \/ ctx' = [ctx EXCEPT ![c].op = "Write", ![c].total = n, ![c].sent = 0]
         \/ ctx' = [ctx EXCEPT ![c].sent = s, ![c].op = IF s < ctx[c].total THEN "Write" ELSE "Read"]
         \/ ctx' = [ctx EXCEPT ![c] = [op |-> "Write", total |-> n, sent |-> 0, buf |-> b]]
         \/ ctx' = [ctx EXCEPT ![c] = [@ EXCEPT !.op = "Read"]]
  PROVE  ctx' \in [Keys -> Context]
<1>1. ctx \in [Keys -> Context]
  BY DEF DataTypes, Context
<1>2. Zeroed \in Context
  BY EmptySeq DEF Zeroed, Context, Ops
<1>3. CASE ctx' = ctx \/ ctx' = [ctx EXCEPT ![c] = Zeroed]
  BY <1>1, <1>2, <1>3
<1>4. CASE ctx' = [ctx EXCEPT ![c].buf = b]
  BY <1>1, <1>4 DEF Context
<1>5. CASE ctx' = [ctx EXCEPT ![c].op = "Write", ![c].total = n, ![c].sent = 0]
  <2>1. ctx' = [j \in Keys |-> IF j = c THEN [ctx[j] EXCEPT !.op = "Write", !.total = n, !.sent = 0]
                               ELSE ctx[j]]
    BY <1>1, <1>5
  <2>2. ASSUME NEW x \in Context
        PROVE  [x EXCEPT !.op = "Write", !.total = n, !.sent = 0] \in Context
    BY DEF Context, Ops
  <2> HIDE DEF Context
  <2>3. QED
    BY <1>1, <2>1, <2>2
<1>6. CASE ctx' = [ctx EXCEPT ![c].sent = s, ![c].op = IF s < ctx[c].total THEN "Write" ELSE "Read"]
  <2>1. PICK o \in Ops : o = IF s < ctx[c].total THEN "Write" ELSE "Read"
    BY DEF Ops
  <2>2. ctx' = [j \in Keys |-> IF j = c THEN [ctx[j] EXCEPT !.sent = s, !.op = o] ELSE ctx[j]]
    BY <1>1, <1>6, <2>1
  <2>3. ASSUME NEW x \in Context
        PROVE  [x EXCEPT !.sent = s, !.op = o] \in Context
    BY DEF Context
  <2> HIDE DEF Context
  <2>4. QED
    BY <1>1, <2>2, <2>3
<1>7. CASE ctx' = [ctx EXCEPT ![c] = [op |-> "Write", total |-> n, sent |-> 0, buf |-> b]]
  BY <1>1, <1>7 DEF Context, Ops
<1>8. CASE ctx' = [ctx EXCEPT ![c] = [@ EXCEPT !.op = "Read"]]
  BY <1>1, <1>8 DEF Context, Ops
<1>9. QED
  BY <1>3, <1>4, <1>5, <1>6, <1>7, <1>8

\* A block of k's stream arrives at key.
LEMMA Delivered ==
  ASSUME DataTypes, NEW key \in Keys, NEW k \in Clients, NEW n \in Deliverable(k), Deliver(key, k, n)
  PROVE  /\ n \in Nat /\ taken[k] \in Nat
         /\ taken' = [taken EXCEPT ![k] = taken[k] + n] /\ taken' \in [Clients -> Nat]
         /\ taken'[k] = taken[k] + n /\ \A j \in Clients \ {k} : taken'[j] = taken[j]
         /\ ctx' \in [Keys -> Context] /\ \A j \in Keys \ {key} : ctx'[j] = ctx[j]
         /\ ctx'[key].op = ctx[key].op
         /\ Len(ctx'[key].buf) = n
         /\ \A i \in 1..n : ctx'[key].buf[i] = Stream[k][taken[k] + i]
<1>1. n \in Nat /\ taken[k] \in Nat /\ taken[k] + n <= Len(Stream[k]) /\ Stream[k] \in Seq(Units)
  BY EchoServerAssumption DEF Deliverable, DataTypes
<1> DEFINE b == SubSeq(Stream[k], taken[k] + 1, taken[k] + n)
<1>2. b \in Seq(Units) /\ Len(b) = n /\ \A i \in 1..n : b[i] = Stream[k][taken[k] + i]
  <2>1. PICK s \in Seq(Units) : s = Stream[k]
    BY <1>1
  <2>2. PICK t \in Nat : t = taken[k]
    BY <1>1
  <2>3. n \in Nat /\ t + n <= Len(s)
    BY <1>1, <2>1, <2>2
  <2>4. /\ SubSeq(s, t + 1, t + n) \in Seq(Units) /\ Len(SubSeq(s, t + 1, t + n)) = n
        /\ \A i \in 1..n : SubSeq(s, t + 1, t + n)[i] = s[t + i]
    BY <2>3, Block, Zenon
  <2>5. b = SubSeq(s, t + 1, t + n)
    BY <2>1, <2>2
  <2>6. QED
    BY <2>1, <2>2, <2>4, <2>5, Zenon
<1>3. ctx' = [ctx EXCEPT ![key].buf = b] /\ taken' = [taken EXCEPT ![k] = taken[k] + n]
  BY DEF Deliver
<1> HIDE DEF b
<1>4. ctx' \in [Keys -> Context]
  BY <1>1, <1>2, <1>3, CtxTyped
<1>5. /\ ctx'[key].buf = b /\ ctx'[key].op = ctx[key].op
      /\ \A j \in Keys \ {key} : ctx'[j] = ctx[j]
  BY <1>3 DEF DataTypes
<1>6. taken \in [Clients -> Nat]
  BY DEF DataTypes
<1>7. taken'[k] = taken[k] + n /\ \A j \in Clients \ {k} : taken'[j] = taken[j]
  BY <1>3, <1>6
<1>8. taken' \in [Clients -> Nat]
  BY <1>1, <1>3, <1>6
<1>9. QED
  BY <1>1, <1>2, <1>3, <1>4, <1>5, <1>7, <1>8

\* A completion.
LEMMA Completed ==
  ASSUME DataTypes, Shapes, NEW key \in Keys, NEW ok \in BOOLEAN, NEW n \in Nat, Complete(key, ok, n)
  PROVE  /\ res' \in [Keys -> [ok : BOOLEAN, n : Nat]]
         /\ res'[key].n = n /\ \A j \in Keys \ {key} : res'[j] = res[j]
         /\ io'[key] = "done" /\ \A j \in Keys \ {key} : io'[j] = io[j]
BY DEF Complete, DataTypes, Shapes

\* Data through a step that none of the clients takes part in.
LEMMA QuietTyped ==
  ASSUME DataTypes, UNCHANGED netVars,
         sock' \in [Keys -> Clients \cup {NULL}],
         res' \in [Keys -> [ok : BOOLEAN, n : Nat]],
         ctx' \in [Keys -> Context]
  PROVE  DataTypes'
BY DEF DataTypes, netVars, Context, Keys, Units

\* The socket of a key is closed, or stays.
LEMMA SockTyped ==
  ASSUME DataTypes, NEW k, sock' = sock \/ sock' = [sock EXCEPT ![k] = NULL]
  PROVE  sock' \in [Keys -> Clients \cup {NULL}] /\ \A j \in Keys : sock'[j] \in {sock[j], NULL}
BY DEF DataTypes

\* The packet of a key is forgotten, or stays.
LEMMA ResTyped ==
  ASSUME DataTypes, NEW k, res' = res \/ res' = [res EXCEPT ![k] = NoResult]
  PROVE  res' \in [Keys -> [ok : BOOLEAN, n : Nat]] /\ \A j \in Keys \ {k} : res'[j] = res[j]
<1>1. NoResult \in [ok : BOOLEAN, n : Nat]
  BY DEF NoResult
<1>2. res \in [Keys -> [ok : BOOLEAN, n : Nat]]
  BY DEF DataTypes
<1> HIDE DEF NoResult
<1>3. QED
  BY <1>1, <1>2

-----------------------------------------------------------------------------
(* Steps that leave most of it alone.                                      *)

\* What a worker uses at its statement.
LEMMA InUse ==
  ASSUME OwnerInv, NEW w \in Workers
  PROVE  /\ pc[w] \in {"check", "Read", "Write"} => cur[w] \in Owns(w)
         /\ AtListen(w) => Listen \in Owns(w)
         /\ pc[w] \in {"associate", "post", "acceptclose"} =>
              acc[w] \in Ctx /\ acc[w] \in Owns(w) /\ Listen \in Owns(w)
<1>1. \A k \in Owns(w) : k \in Keys
  BY DEF OwnerInv, Hold
<1>2. acc[w] # Listen
  BY DEF OwnerInv, Shapes
<1>3. QED
  BY <1>1, <1>2 DEF Owns, AtListen, Keys

\* What has not been closed in the cleanup has one user.
LEMMA Alone ==
  ASSUME OwnerInv, NEW w \in Workers, NEW k \in Owns(w), sock[k] # NULL \/ ~Dead(k)
  PROVE  io[k] = "held" /\ k \in Keys /\ \A v \in Workers : v # w => k \notin Owns(v)
BY DEF OwnerInv, Hold, Dead

\* A step of one worker.
LEMMA WorkerData ==
  ASSUME OwnerInv, DataInv, NEW w \in Workers, Moves(w), DataTypes', UNCHANGED netVars,
         \A k \in Keys : sock'[k] \in {sock[k], NULL},
         \A c \in Ctx : sock'[c] # NULL /\ c \notin Owns(w) =>
           ctx'[c] = ctx[c] /\ res'[c] = res[c] /\ io'[c] \in {io[c], "held"},
         \A c \in Ctx : c \in Owns(w) => CtxOwes(c)',
         \/ ctx'[Listen] = ctx[Listen] /\ res'[Listen] = res[Listen]
         \/ Listen \in Owns(w) /\ ~Dead(Listen) /\ sock'[Listen] = NULL,
         io'[Listen] = "done" => io[Listen] = "done",
         io'[Listen] = "pending" => io[Listen] = "pending" \/ sock'[Listen] = NULL,
         AtListen(w)' => AtListen(w) \/ io[Listen] = "done",
         HandOwes(w)', NewOwes(w)'
  PROVE  DataInv'
<1>1. /\ taken' = taken /\ rcvd' = rcvd /\ backlog' = backlog /\ peer' = peer
      /\ Listen \in Keys /\ \A c \in Ctx : c \in Keys /\ c # Listen
  BY EchoServerAssumption DEF netVars, Keys
<1>2. /\ \A v \in Workers \ {w} : pc'[v] = pc[v] /\ cur'[v] = cur[v] /\ acc'[v] = acc[v]
  BY DEF Moves
<1>3. EchoInOrder'
  BY <1>1 DEF DataInv, EchoInOrder
<1>4. OneEach'
  BY <1>1 DEF DataInv, OneEach
<1>5. WaitingUntouched'
  <2>1. \A k : Waiting(k)' = Waiting(k)
    BY <1>1 DEF Waiting
  <2>2. NULL \notin Clients
    BY EchoServerAssumption
  <2>3. ASSUME NEW k \in Clients, Waiting(k), NEW key \in Keys
        PROVE  sock'[key] # k
    BY <2>2, <2>3 DEF DataInv, WaitingUntouched
  <2>4. \A k \in Clients : Waiting(k) => taken'[k] = 0 /\ rcvd'[k] = <<>>
    BY <1>1 DEF DataInv, WaitingUntouched
  <2>5. /\ \A i, j \in 1..Len(backlog') : backlog'[i] = backlog'[j] => i = j
        /\ \A i \in 1..Len(backlog') : peer'[backlog'[i]] # "new"
    BY <1>1 DEF DataInv, WaitingUntouched
  <2>6. QED
    BY <2>1, <2>3, <2>4, <2>5 DEF WaitingUntouched, Keys
<1>6. ASSUME NEW k, First(k), ctx'[Listen] = ctx[Listen], res'[Listen] = res[Listen]
      PROVE  First(k)'
  BY <1>1, <1>6 DEF First
<1>7. ListenOwes'
  <2>1. CASE sock'[Listen] = NULL
    BY <2>1 DEF ListenOwes
  <2>2. CASE sock'[Listen] # NULL
    <3>1. sock'[Listen] = sock[Listen] /\ sock[Listen] # NULL
      BY <1>1, <2>2
    <3>2. ctx'[Listen] = ctx[Listen] /\ res'[Listen] = res[Listen] /\ io'[Listen] # "pending"
      BY <2>2, <3>1 DEF DataInv, ListenOwes
    <3>3. ASSUME io'[Listen] = "done" \/ \E v \in Workers : AtListen(v)'
          PROVE  First(sock[Listen]) /\ \A c \in Ctx : sock[c] # sock[Listen]
      <4>1. \A v \in Workers \ {w} : AtListen(v)' => AtListen(v)
        BY <1>2 DEF AtListen
      <4>2. io[Listen] = "done" \/ \E v \in Workers : AtListen(v)
        BY <3>3, <4>1
      <4>3. QED
        BY <3>1, <4>2 DEF DataInv, ListenOwes
    <3>4. ASSUME First(sock[Listen])
          PROVE  First(sock[Listen])'
      BY <1>6, <3>1, <3>2, <3>4
    <3>5. ASSUME \A c \in Ctx : sock[c] # sock[Listen]
          PROVE  \A c \in Ctx : sock'[c] # sock'[Listen]
      BY <1>1, <3>1, <3>5
    <3>6. QED
      BY <3>2, <3>3, <3>4, <3>5 DEF ListenOwes
  <2>3. QED
    BY <2>1, <2>2
<1>8. ASSUME NEW c \in Ctx, sock'[c] # NULL, c \notin Owns(w)
      PROVE  /\ sock'[c] = sock[c] /\ sock[c] # NULL
             /\ Posted(c)' = Posted(c) /\ Returned(c)' = Returned(c)
  <2>1. sock'[c] = sock[c] /\ ctx'[c] = ctx[c] /\ res'[c] = res[c]
    BY <1>1, <1>8
  <2>2. QED
    BY <1>1, <1>8, <2>1 DEF Posted, Returned, Owes
<1>9. ASSUME NEW c \in Ctx
      PROVE  CtxOwes(c)'
  <2>1. CASE sock'[c] # NULL /\ c \notin Owns(w)
    <3>1. io'[c] \in {io[c], "held"} /\ CtxOwes(c)
      BY <2>1 DEF DataInv
    <3>2. QED
      BY <1>8, <2>1, <3>1 DEF CtxOwes
  <2>2. CASE sock'[c] = NULL
    BY <2>2 DEF CtxOwes
  <2>3. QED
    BY <1>9, <2>1, <2>2
<1>10. ASSUME NEW v \in Workers, v # w
       PROVE  HandOwes(v)' /\ NewOwes(v)'
  <2>1. ASSUME pc[v] \in {"check", "Read", "Write"}, cur[v] \in Ctx, sock'[cur[v]] # NULL
        PROVE  Returned(cur[v])' /\ ctx'[cur[v]] = ctx[cur[v]] /\ HandOwes(v) /\ sock[cur[v]] # NULL
    <3>1. cur[v] \in Owns(v) /\ sock[cur[v]] # NULL
      BY <1>1, <2>1, InUse
    <3>2. cur[v] \notin Owns(w)
      BY <1>10, <3>1, Alone
    <3>3. HandOwes(v)
      BY DEF DataInv
    <3>4. Returned(cur[v])
      BY <2>1, <3>1, <3>3 DEF HandOwes
    <3>5. sock'[cur[v]] = sock[cur[v]] /\ ctx'[cur[v]] = ctx[cur[v]] /\ res'[cur[v]] = res[cur[v]]
      BY <1>1, <2>1, <3>1, <3>2
    <3>6. (Returned(cur[v]))'
      <4>1. PICK c : c = cur[v]
        OBVIOUS
      <4>2. cur'[v] = c
        BY <1>2, <1>10, <4>1
      <4>3. /\ Returned(c) /\ sock'[c] = sock[c] /\ ctx'[c] = ctx[c] /\ res'[c] = res[c]
            /\ taken' = taken /\ rcvd' = rcvd
        BY <1>1, <3>4, <3>5, <4>1
      <4>4. Returned(c)'
        BY <4>3 DEF Returned, Owes
      <4>5. QED
        BY <4>2, <4>4
    <3>7. QED
      BY <3>1, <3>3, <3>5, <3>6
  <2>2. HandOwes(v)'
    <3>1. pc'[v] = pc[v] /\ cur'[v] = cur[v]
      BY <1>2, <1>10
    <3>2. QED
      BY <2>1, <3>1 DEF HandOwes
  <2>3. ASSUME pc[v] \in {"associate", "post"}, sock'[acc[v]] # NULL
        PROVE  sock'[acc[v]] = sock[acc[v]] /\ First(sock[acc[v]])'
    <3>1. acc[v] \in Ctx /\ Listen \in Owns(v)
      BY <2>3, InUse
    <3>2. sock'[acc[v]] = sock[acc[v]] /\ sock[acc[v]] # NULL
      BY <1>1, <2>3, <3>1
    <3>3. First(sock[acc[v]])
      BY <2>3, <3>2 DEF DataInv, NewOwes
    <3>4. ctx'[Listen] = ctx[Listen] /\ res'[Listen] = res[Listen]
      BY <1>10, <3>1, Alone
    <3>5. QED
      BY <1>1, <1>2, <1>10, <3>2, <3>3, <3>4 DEF First
  <2>4. NewOwes(v)'
    <3>1. pc'[v] = pc[v] /\ acc'[v] = acc[v]
      BY <1>2, <1>10
    <3>2. QED
      BY <2>3, <3>1 DEF NewOwes
  <2>5. QED
    BY <2>2, <2>4
<1>11. QED
  BY <1>3, <1>4, <1>5, <1>7, <1>9, <1>10 DEF DataInv

\* The operation of one client's context completes.
LEMMA ContextData ==
  ASSUME OwnerInv, DataInv, DataTypes', NEW c \in Ctx, io[c] = "pending", io'[c] = "done",
         \A j \in Keys \ {c} : io'[j] = io[j] /\ res'[j] = res[j] /\ ctx'[j] = ctx[j],
         sock' = sock, UNCHANGED <<workVars, backlog, peer>>,
         \A k \in Clients : k # sock[c] => taken'[k] = taken[k] /\ rcvd'[k] = rcvd[k],
         sock[c] # NULL => Returned(c)' /\ Echoed(sock[c])'
  PROVE  DataInv'
<1>1. /\ pc' = pc /\ cur' = cur /\ acc' = acc /\ backlog' = backlog /\ peer' = peer
      /\ Listen \in Keys /\ \A d \in Ctx : d \in Keys /\ d # Listen
      /\ \A j \in Keys : sock[j] # NULL => sock[j] \in Clients
  BY EchoServerAssumption DEF workVars, Keys, DataInv, DataTypes
<1>2. EchoInOrder'
  <2>1. ASSUME NEW k \in Clients
        PROVE  Echoed(k)'
    <3>1. CASE k # sock[c]
      <4>1. Echoed(k)
        BY DEF DataInv, EchoInOrder, Echoed, Fits
      <4>2. QED
        BY <3>1, <4>1 DEF Echoed
    <3>2. CASE k = sock[c]
      BY <1>1, <3>2, EchoServerAssumption
    <3>3. QED
      BY <3>1, <3>2
  <2>2. QED
    BY <2>1 DEF Echoed, Fits, EchoInOrder
<1>3. OneEach'
  BY DEF DataInv, OneEach
<1>4. WaitingUntouched'
  <2>1. \A k : Waiting(k)' = Waiting(k)
    BY <1>1 DEF Waiting
  <2>2. ASSUME NEW k \in Clients, Waiting(k)
        PROVE  taken'[k] = 0 /\ rcvd'[k] = <<>> /\ \A key \in Keys : sock'[key] # k
    BY <1>1, <2>2 DEF DataInv, WaitingUntouched
  <2>3. QED
    BY <1>1, <2>1, <2>2 DEF DataInv, WaitingUntouched, Keys
<1>5. ASSUME NEW k \in Clients, k # sock[c], First(k)
      PROVE  First(k)'
  BY <1>1, <1>5 DEF First
<1>6. ListenOwes'
  <2>1. \A w : AtListen(w)' = AtListen(w)
    BY <1>1 DEF AtListen
  <2>2. io'[Listen] = io[Listen] /\ sock'[Listen] = sock[Listen]
    BY <1>1
  <2>3. ASSUME sock[Listen] # NULL, io[Listen] = "done" \/ \E w \in Workers : AtListen(w)
        PROVE  First(sock[Listen])' /\ \A d \in Ctx : sock'[d] # sock'[Listen]
    <3>1. First(sock[Listen]) /\ \A d \in Ctx : sock[d] # sock[Listen]
      BY <2>3 DEF DataInv, ListenOwes
    <3>2. QED
      BY <1>1, <1>5, <2>3, <3>1
  <2>4. io'[Listen] = "pending" => sock'[Listen] = NULL
    BY <2>2 DEF DataInv, ListenOwes
  <2>5. QED
    BY <2>1, <2>2, <2>3, <2>4 DEF ListenOwes
<1>7. ASSUME NEW d \in Ctx, d # c, sock[d] # NULL
      PROVE  /\ Posted(d)' = Posted(d) /\ Returned(d)' = Returned(d)
             /\ sock[d] \in Clients /\ sock[d] # sock[c]
  <2>1. sock[d] \in Clients /\ sock[d] # sock[c]
    BY <1>1, <1>7 DEF DataInv, OneEach
  <2>2. /\ taken'[sock[d]] = taken[sock[d]] /\ rcvd'[sock[d]] = rcvd[sock[d]]
        /\ ctx'[d] = ctx[d] /\ res'[d] = res[d] /\ sock'[d] = sock[d]
    BY <1>1, <1>7, <2>1
  <2>3. QED
    BY <2>1, <2>2 DEF Posted, Returned, Owes
<1>8. ASSUME NEW d \in Ctx
      PROVE  CtxOwes(d)'
  <2>1. CASE d = c
    BY <2>1 DEF CtxOwes
  <2>2. CASE d # c
    <3>1. CtxOwes(d) /\ io'[d] = io[d] /\ sock'[d] = sock[d]
      BY <1>1, <2>2 DEF DataInv
    <3>2. QED
      BY <1>7, <2>2, <3>1 DEF CtxOwes
  <2>3. QED
    BY <2>1, <2>2
<1>9. ASSUME NEW w \in Workers
      PROVE  HandOwes(w)' /\ NewOwes(w)'
  <2>1. ASSUME pc[w] \in {"check", "Read", "Write"}, cur[w] \in Ctx, sock[cur[w]] # NULL
        PROVE  Returned(cur[w])' /\ ctx'[cur[w]] = ctx[cur[w]]
    <3>1. cur[w] # c
      BY <2>1, InUse, Alone
    <3>2. Returned(cur[w])
      BY <2>1 DEF DataInv, HandOwes
    <3>3. sock[cur[w]] \in Clients /\ sock[cur[w]] # sock[c]
      BY <1>7, <2>1, <3>1
    <3>4. /\ taken'[sock[cur[w]]] = taken[sock[cur[w]]] /\ rcvd'[sock[cur[w]]] = rcvd[sock[cur[w]]]
          /\ ctx'[cur[w]] = ctx[cur[w]] /\ res'[cur[w]] = res[cur[w]]
      BY <1>1, <2>1, <3>1, <3>3
    <3>5. (Returned(cur[w]))'
      BY <1>1, <3>2, <3>4 DEF Returned, Owes
    <3>6. QED
      BY <3>4, <3>5
  <2>2. HandOwes(w)'
    BY <1>1, <2>1 DEF DataInv, HandOwes
  <2>3. ASSUME pc[w] \in {"associate", "post"}, sock[acc[w]] # NULL
        PROVE  First(sock[acc[w]])'
    <3>1. acc[w] \in Ctx /\ acc[w] # c
      BY <2>3, InUse, Alone
    <3>2. First(sock[acc[w]])
      BY <2>3 DEF DataInv, NewOwes
    <3>3. QED
      BY <1>1, <1>5, <1>7, <2>3, <3>1, <3>2
  <2>4. NewOwes(w)'
    BY <1>1, <2>3 DEF NewOwes
  <2>5. QED
    BY <2>2, <2>4
<1>10. QED
  BY <1>2, <1>3, <1>4, <1>6, <1>8, <1>9 DEF DataInv

\* No worker moves, and no client: sockets are closed, and an AcceptEx fails.
LEMMA QuietData ==
  ASSUME OwnerInv, DataInv, DataTypes', UNCHANGED <<workVars, netVars>>,
         \A k \in Keys : sock'[k] \in {sock[k], NULL},
         \A c \in Ctx : sock'[c] # NULL => ctx'[c] = ctx[c] /\ res'[c] = res[c] /\ io'[c] = io[c],
         \/ ctx'[Listen] = ctx[Listen] /\ res'[Listen] = res[Listen] /\ io'[Listen] = io[Listen]
         \/ io[Listen] = "pending" /\ io'[Listen] = "done"
  PROVE  DataInv'
<1>1. /\ pc' = pc /\ cur' = cur /\ acc' = acc
      /\ taken' = taken /\ rcvd' = rcvd /\ backlog' = backlog /\ peer' = peer
      /\ Listen \in Keys /\ \A d \in Ctx : d \in Keys /\ d # Listen
  BY EchoServerAssumption DEF workVars, netVars, Keys
<1>2. EchoInOrder' /\ OneEach'
  BY <1>1 DEF DataInv, EchoInOrder, OneEach
<1>3. WaitingUntouched'
  <2>1. \A k : Waiting(k)' = Waiting(k)
    BY <1>1 DEF Waiting
  <2>2. NULL \notin Clients
    BY EchoServerAssumption
  <2>3. ASSUME NEW k \in Clients, Waiting(k), NEW key \in Keys
        PROVE  sock'[key] # k
    BY <2>2, <2>3 DEF DataInv, WaitingUntouched
  <2>4. \A k \in Clients : Waiting(k) => taken'[k] = 0 /\ rcvd'[k] = <<>>
    BY <1>1 DEF DataInv, WaitingUntouched
  <2>5. /\ \A i, j \in 1..Len(backlog') : backlog'[i] = backlog'[j] => i = j
        /\ \A i \in 1..Len(backlog') : peer'[backlog'[i]] # "new"
    BY <1>1 DEF DataInv, WaitingUntouched
  <2>6. QED
    BY <2>1, <2>3, <2>4, <2>5 DEF WaitingUntouched, Keys
<1>4. ListenOwes'
  <2>1. \A w : AtListen(w)' = AtListen(w)
    BY <1>1 DEF AtListen
  <2>2. CASE sock'[Listen] = NULL
    BY <2>2 DEF ListenOwes
  <2>3. CASE sock'[Listen] # NULL
    <3>1. sock'[Listen] = sock[Listen] /\ sock[Listen] # NULL
      BY <1>1, <2>3
    <3>2. ctx'[Listen] = ctx[Listen] /\ res'[Listen] = res[Listen] /\ io'[Listen] = io[Listen]
      BY <3>1 DEF DataInv, ListenOwes
    <3>3. ASSUME io[Listen] = "done" \/ \E w \in Workers : AtListen(w)
          PROVE  First(sock[Listen])' /\ \A c \in Ctx : sock'[c] # sock'[Listen]
      <4>1. First(sock[Listen]) /\ \A c \in Ctx : sock[c] # sock[Listen]
        BY <3>1, <3>3 DEF DataInv, ListenOwes
      <4>2. First(sock[Listen])'
        BY <1>1, <3>1, <3>2, <4>1 DEF First
      <4>3. QED
        BY <1>1, <3>1, <4>1, <4>2
    <3>4. QED
      BY <2>1, <3>1, <3>2, <3>3 DEF ListenOwes, DataInv
  <2>4. QED
    BY <2>2, <2>3
<1>5. ASSUME NEW c \in Ctx, sock'[c] # NULL
      PROVE  /\ sock'[c] = sock[c] /\ ctx'[c] = ctx[c] /\ io'[c] = io[c]
             /\ Posted(c)' = Posted(c) /\ Returned(c)' = Returned(c)
  <2>1. sock'[c] = sock[c] /\ ctx'[c] = ctx[c] /\ res'[c] = res[c] /\ io'[c] = io[c]
    BY <1>1, <1>5
  <2>2. QED
    BY <1>1, <2>1 DEF Posted, Returned, Owes
<1>6. ASSUME NEW c \in Ctx
      PROVE  CtxOwes(c)'
  BY <1>5 DEF DataInv, CtxOwes
<1>7. ASSUME NEW w \in Workers
      PROVE  HandOwes(w)' /\ NewOwes(w)'
  <2>1. HandOwes(w)'
    BY <1>1, <1>5 DEF DataInv, HandOwes
  <2>2. ASSUME pc[w] \in {"associate", "post"}, sock'[acc[w]] # NULL
        PROVE  sock'[acc[w]] = sock[acc[w]] /\ First(sock[acc[w]])'
    <3>1. acc[w] \in Ctx /\ Listen \in Owns(w)
      BY <2>2, InUse
    <3>2. sock'[acc[w]] = sock[acc[w]] /\ sock[acc[w]] # NULL
      BY <1>1, <2>2, <3>1
    <3>3. First(sock[acc[w]])
      BY <2>2, <3>2 DEF DataInv, NewOwes
    <3>4. ctx'[Listen] = ctx[Listen] /\ res'[Listen] = res[Listen]
      BY <3>1, Alone DEF Dead
    <3>5. QED
      BY <1>1, <3>2, <3>3, <3>4 DEF First
  <2>3. NewOwes(w)'
    BY <1>1, <2>2 DEF NewOwes
  <2>4. QED
    BY <2>1, <2>3
<1>8. QED
  BY <1>2, <1>3, <1>4, <1>6, <1>7 DEF DataInv

-----------------------------------------------------------------------------
(* Clients and TCP.                                                        *)

\* A connection is made, or reset.
LEMMA PeerData ==
  ASSUME DataInv, NEW k \in Clients, Connect(k) \/ Reset(k)
  PROVE  DataInv'
<1>1. /\ UNCHANGED <<io, res, sock, ctx, pc, cur, acc, taken, rcvd>>
      /\ \E p : peer' = [peer EXCEPT ![k] = p] /\ p # "new"
  BY DEF Connect, Reset, ioVars, workVars
<1>2. /\ peer' = [j \in Clients |-> peer'[j]] /\ peer'[k] # "new"
      /\ \A j \in Clients \ {k} : peer'[j] = peer[j]
  BY <1>1 DEF DataInv, DataTypes
<1>3. backlog \in Seq(Clients) /\ Len(backlog) \in Nat
  BY DEF DataInv, DataTypes
<1>4. \/ backlog' = backlog
      \/ peer[k] = "new" /\ backlog' = Append(backlog, k)
  BY DEF Connect, Reset
<1>5. /\ backlog' \in Seq(Clients)
      /\ \A j \in Clients : Waiting(j)' => Waiting(j)
      /\ \A i, j \in 1..Len(backlog') : backlog'[i] = backlog'[j] => i = j
      /\ \A i \in 1..Len(backlog') : peer'[backlog'[i]] # "new"
  <2>1. /\ \A i, j \in 1..Len(backlog) : backlog[i] = backlog[j] => i = j
        /\ \A i \in 1..Len(backlog) : peer[backlog[i]] # "new" /\ backlog[i] \in Clients
    BY <1>3, ElementOfSeq DEF DataInv, WaitingUntouched
  <2>2. CASE backlog' = backlog
    <3>1. \A i \in 1..Len(backlog) : peer'[backlog[i]] # "new"
      BY <1>2, <2>1
    <3>2. \A j \in Clients : Waiting(j)' => Waiting(j)
      BY <1>2, <2>2 DEF Waiting
    <3>3. QED
      BY <1>3, <2>1, <2>2, <3>1, <3>2
  <2>3. CASE peer[k] = "new" /\ backlog' = Append(backlog, k)
    <3>1. /\ backlog' \in Seq(Clients) /\ Len(backlog') = Len(backlog) + 1
          /\ backlog'[Len(backlog) + 1] = k
          /\ \A i \in 1..Len(backlog) : backlog'[i] = backlog[i]
      BY <1>3, <2>3
    <3>2. \A i \in 1..Len(backlog') : i \in 1..Len(backlog) \/ i = Len(backlog) + 1
      BY <1>3, <3>1
    <3>3. \A i \in 1..Len(backlog) : backlog[i] # k
      BY <2>1, <2>3
    <3>4. \A j \in Clients : Waiting(j)' => Waiting(j)
      <4>1. ASSUME NEW j \in Clients, Waiting(j)'
            PROVE  Waiting(j)
        <5>1. CASE peer'[j] = "new"
          BY <1>2, <5>1 DEF Waiting
        <5>2. CASE \E i \in 1..Len(backlog') : backlog'[i] = j
          BY <2>3, <3>1, <3>2, <5>2 DEF Waiting
        <5>3. QED
          BY <4>1, <5>1, <5>2 DEF Waiting
      <4>2. QED
        BY <4>1
    <3>5. \A i \in 1..Len(backlog') : peer'[backlog'[i]] # "new"
      BY <1>2, <2>1, <3>1, <3>2
    <3>6. \A i, j \in 1..Len(backlog') : backlog'[i] = backlog'[j] => i = j
      BY <2>1, <3>1, <3>2, <3>3
    <3>7. QED
      BY <3>1, <3>4, <3>5, <3>6
  <2>4. QED
    BY <1>4, <2>2, <2>3
<1>6. DataTypes'
  BY <1>1, <1>2, <1>5 DEF DataInv, DataTypes, Keys, Units
<1>7. WaitingUntouched'
  <2>1. \A j \in Clients : Waiting(j) => /\ taken'[j] = 0 /\ rcvd'[j] = <<>>
                                         /\ \A key \in Keys : sock'[key] # j
    BY <1>1 DEF DataInv, WaitingUntouched
  <2>2. QED
    BY <1>5, <2>1 DEF WaitingUntouched, Keys
<1>8. EchoInOrder' /\ OneEach' /\ ListenOwes'
  BY <1>1 DEF DataInv, EchoInOrder, OneEach, ListenOwes, AtListen, First
<1>9. \A c \in Ctx : CtxOwes(c)'
  BY <1>1 DEF DataInv, CtxOwes, Posted, Returned, Owes
<1>10. \A w \in Workers : HandOwes(w)' /\ NewOwes(w)'
  <2>1. ASSUME NEW w \in Workers
        PROVE  HandOwes(w)'
    <3>1. HandOwes(w)
      BY DEF DataInv
    <3>2. QED
      BY <1>1, <3>1 DEF HandOwes, Returned, Owes
  <2>2. ASSUME NEW w \in Workers
        PROVE  NewOwes(w)'
    <3>1. NewOwes(w)
      BY DEF DataInv
    <3>2. QED
      BY <1>1, <3>1 DEF NewOwes, First
  <2>3. QED
    BY <2>1, <2>2
<1>11. QED
  BY <1>6, <1>7, <1>8, <1>9, <1>10 DEF DataInv

\* AcceptEx takes the oldest connection, from which nothing has been read.
LEMMA AcceptCompletesData ==
  ASSUME OwnerInv, DataInv, AcceptCompletes
  PROVE  DataInv'
<1>1. /\ Listen \in Keys /\ \A d \in Ctx : d \in Keys /\ d # Listen
      /\ DataTypes /\ Shapes
  BY EchoServerAssumption DEF Keys, DataInv, OwnerInv
<1> PICK k : k = Head(backlog)
  OBVIOUS
<1>2. /\ io[Listen] = "pending" /\ backlog # <<>> /\ sock' = [sock EXCEPT ![Listen] = k]
      /\ backlog' = Tail(backlog) /\ rcvd' = rcvd /\ peer' = peer
      /\ pc' = pc /\ cur' = cur /\ acc' = acc
      /\ \/ \E n \in Deliverable(k) : Complete(Listen, TRUE, n) /\ Deliver(Listen, k, n)
         \/ Complete(Listen, FALSE, 0) /\ UNCHANGED <<taken, ctx>>
  BY DEF AcceptCompletes, workVars
<1>3. /\ backlog \in Seq(Clients) /\ Len(backlog) \in Nat /\ 1 \in 1..Len(backlog)
      /\ k \in Clients /\ k = backlog[1]
      /\ backlog' \in Seq(Clients) /\ Len(backlog') = Len(backlog) - 1
      /\ \A i \in 1..Len(backlog') : backlog'[i] = backlog[i + 1] /\ i + 1 \in 1..Len(backlog)
  <2>1. backlog \in Seq(Clients) /\ Len(backlog) \in Nat \ {0}
    BY <1>1, <1>2, EmptySeq DEF DataTypes
  <2>2. /\ Head(backlog) \in Clients /\ Tail(backlog) \in Seq(Clients)
        /\ Len(Tail(backlog)) = Len(backlog) - 1
        /\ \A i \in 1..Len(Tail(backlog)) : Tail(backlog)[i] = backlog[i + 1]
    BY <1>2, <2>1, HeadTailProperties
  <2>3. Head(backlog) = backlog[1]
    BY <2>1
  <2>4. QED
    BY <1>2, <2>1, <2>2, <2>3
<1>4. Waiting(k)
  BY <1>3 DEF Waiting
<1>5. /\ taken[k] = 0 /\ rcvd[k] = <<>> /\ \A key \in Keys : sock[key] # k
  BY <1>3, <1>4 DEF DataInv, WaitingUntouched
<1>6. /\ sock' \in [Keys -> Clients \cup {NULL}] /\ sock'[Listen] = k
      /\ \A c \in Ctx : sock'[c] = sock[c] /\ sock[c] # k
  BY <1>1, <1>2, <1>3, <1>5 DEF DataTypes
<1>7. /\ io'[Listen] = "done" /\ \A j \in Keys \ {Listen} : io'[j] = io[j]
      /\ \A j \in Keys \ {Listen} : res'[j] = res[j] /\ ctx'[j] = ctx[j]
      /\ \A j \in Clients \ {k} : taken'[j] = taken[j]
      /\ res' \in [Keys -> [ok : BOOLEAN, n : Nat]]
      /\ ctx' \in [Keys -> Context] /\ taken' \in [Clients -> Nat]
      /\ First(k)'
  <2>1. ASSUME NEW n \in Deliverable(k), Complete(Listen, TRUE, n), Deliver(Listen, k, n)
        PROVE  <1>7!:
    <3>1. n \in Nat
      BY <2>1 DEF Deliverable
    <3>2. /\ res' \in [Keys -> [ok : BOOLEAN, n : Nat]] /\ res'[Listen].n = n
          /\ \A j \in Keys \ {Listen} : res'[j] = res[j]
          /\ io'[Listen] = "done" /\ \A j \in Keys \ {Listen} : io'[j] = io[j]
      BY <1>1, <2>1, <3>1, Completed
    <3>3. /\ taken' \in [Clients -> Nat] /\ taken'[k] = taken[k] + n
          /\ \A j \in Clients \ {k} : taken'[j] = taken[j]
          /\ ctx' \in [Keys -> Context] /\ \A j \in Keys \ {Listen} : ctx'[j] = ctx[j]
          /\ Len(ctx'[Listen].buf) = n
          /\ \A i \in 1..n : ctx'[Listen].buf[i] = Stream[k][taken[k] + i]
      BY <1>1, <1>3, <2>1, Delivered
    <3>4. taken'[k] = n /\ rcvd'[k] = <<>> /\ n <= Len(ctx'[Listen].buf)
      <4>1. taken[k] = 0 /\ rcvd'[k] = <<>>
        BY <1>2, <1>5
      <4>2. taken'[k] = 0 + n /\ Len(ctx'[Listen].buf) = n
        BY <3>3, <4>1
      <4>3. QED
        BY <3>1, <4>1, <4>2
    <3>5. \A i \in 1..n : taken[k] + i = i
      BY <1>5
    <3>6. First(k)'
      <4>1. \A i \in 1..n : ctx'[Listen].buf[i] = Stream[k][i]
        BY <3>3, <3>5
      <4>2. QED
        BY <3>2, <3>4, <4>1 DEF First
    <3>7. QED
      BY <3>2, <3>3, <3>6
  <2>2. ASSUME Complete(Listen, FALSE, 0), UNCHANGED <<taken, ctx>>
        PROVE  <1>7!:
    <3>1. /\ res' \in [Keys -> [ok : BOOLEAN, n : Nat]] /\ res'[Listen].n = 0
          /\ \A j \in Keys \ {Listen} : res'[j] = res[j]
          /\ io'[Listen] = "done" /\ \A j \in Keys \ {Listen} : io'[j] = io[j]
      BY <1>1, <2>2, Completed
    <3>2. taken \in [Clients -> Nat] /\ ctx \in [Keys -> Context] /\ Len(ctx[Listen].buf) \in Nat
      BY <1>1 DEF DataTypes, Context
    <3>3. First(k)'
      BY <1>2, <1>5, <2>2, <3>1, <3>2 DEF First
    <3>4. QED
      BY <2>2, <3>1, <3>2, <3>3
  <2>3. QED
    BY <1>2, <2>1, <2>2
<1>8. DataTypes'
  BY <1>1, <1>2, <1>3, <1>6, <1>7 DEF DataTypes, Context, Keys, Units
<1>9. EchoInOrder'
  <2>1. ASSUME NEW j \in Clients
        PROVE  Echoed(j)'
    <3>1. CASE j = k
      <4>1. rcvd'[k] = <<>> /\ taken'[k] \in Nat
        BY <1>2, <1>3, <1>5, <1>7
      <4>2. Len(rcvd'[k]) = 0
        BY <4>1, EmptySeq
      <4>3. QED
        BY <3>1, <4>1, <4>2 DEF Echoed
    <3>2. CASE j # k
      BY <1>2, <1>7, <3>2 DEF DataInv, EchoInOrder, Echoed, Fits
    <3>3. QED
      BY <3>1, <3>2
  <2>2. QED
    BY <2>1 DEF Echoed, Fits, EchoInOrder
<1>10. OneEach'
  BY <1>6 DEF DataInv, OneEach
<1>11. WaitingUntouched'
  <2>1. /\ \A i, j \in 1..Len(backlog) : backlog[i] = backlog[j] => i = j
        /\ \A i \in 1..Len(backlog) : peer[backlog[i]] # "new"
    BY DEF DataInv, WaitingUntouched
  <2>2. ASSUME NEW i \in 1..Len(backlog')
        PROVE  backlog'[i] = backlog[i + 1] /\ backlog'[i] # k
    <3>1. i + 1 # 1 /\ i + 1 \in 1..Len(backlog) /\ backlog'[i] = backlog[i + 1]
      BY <1>3, <2>2
    <3>2. QED
      BY <1>3, <2>1, <3>1
  <2>3. ASSUME NEW j \in Clients, Waiting(j)'
        PROVE  Waiting(j) /\ j # k
    <3>1. CASE peer'[j] = "new"
      BY <1>2, <1>3, <2>1, <3>1 DEF Waiting
    <3>2. CASE \E i \in 1..Len(backlog') : backlog'[i] = j
      BY <1>3, <2>2, <3>2 DEF Waiting
    <3>3. QED
      BY <2>3, <3>1, <3>2 DEF Waiting
  <2>4. ASSUME NEW j \in Clients, Waiting(j)'
        PROVE  taken'[j] = 0 /\ rcvd'[j] = <<>> /\ \A key \in Keys : sock'[key] # j
    <3>1. Waiting(j) /\ j # k
      BY <2>3, <2>4
    <3>2. taken[j] = 0 /\ rcvd[j] = <<>> /\ \A key \in Keys : sock[key] # j
      BY <3>1 DEF DataInv, WaitingUntouched
    <3>3. \A key \in Keys : sock'[key] # j
      BY <1>6, <3>1, <3>2 DEF Keys
    <3>4. QED
      BY <1>2, <1>7, <3>1, <3>2, <3>3
  <2>5. /\ \A i, j \in 1..Len(backlog') : backlog'[i] = backlog'[j] => i = j
        /\ \A i \in 1..Len(backlog') : peer'[backlog'[i]] # "new"
    <3>1. ASSUME NEW i \in 1..Len(backlog'), NEW j \in 1..Len(backlog'), backlog'[i] = backlog'[j]
          PROVE  i = j
      <4>1. i + 1 = j + 1
        BY <1>3, <2>1, <3>1
      <4>2. QED
        BY <4>1
    <3>2. \A i \in 1..Len(backlog') : peer'[backlog'[i]] # "new"
      BY <1>2, <1>3, <2>1
    <3>3. QED
      BY <3>1, <3>2
  <2>6. QED
    BY <2>4, <2>5 DEF WaitingUntouched, Keys
<1>12. ListenOwes'
  BY <1>6, <1>7 DEF ListenOwes
<1>13. ASSUME NEW c \in Ctx, sock[c] # NULL
       PROVE  /\ Posted(c)' = Posted(c) /\ Returned(c)' = Returned(c)
              /\ sock'[c] = sock[c] /\ io'[c] = io[c] /\ ctx'[c] = ctx[c]
  <2>1. sock[c] \in Clients \ {k}
    BY <1>1, <1>6, <1>13 DEF DataTypes
  <2>2. /\ taken'[sock[c]] = taken[sock[c]] /\ rcvd'[sock[c]] = rcvd[sock[c]]
        /\ ctx'[c] = ctx[c] /\ res'[c] = res[c] /\ sock'[c] = sock[c] /\ io'[c] = io[c]
    BY <1>1, <1>2, <1>6, <1>7, <2>1
  <2>3. QED
    BY <2>2 DEF Posted, Returned, Owes
<1>14. ASSUME NEW c \in Ctx
       PROVE  CtxOwes(c)'
  BY <1>6, <1>13 DEF DataInv, CtxOwes
<1>15. ASSUME NEW w \in Workers
       PROVE  HandOwes(w)' /\ NewOwes(w)'
  <2>1. HandOwes(w)'
    BY <1>2, <1>6, <1>13 DEF DataInv, HandOwes
  <2>2. ~(pc[w] \in {"associate", "post"})
    BY <1>2, InUse, Alone DEF Dead
  <2>3. NewOwes(w)'
    BY <1>2, <2>2 DEF NewOwes
  <2>4. QED
    BY <2>1, <2>3
<1>16. QED
  BY <1>8, <1>9, <1>10, <1>11, <1>12, <1>14, <1>15 DEF DataInv

\* A receive takes the next block when everything before it was sent back.
LEMMA RecvCompletesData ==
  ASSUME OwnerInv, DataInv, NEW c \in Ctx, RecvCompletes(c)
  PROVE  DataInv'
<1>1. c \in Keys /\ DataTypes /\ Shapes
  BY DEF Keys, DataInv, OwnerInv
<1>2. PICK k \in Clients : k = sock[c]
  BY <1>1 DEF RecvCompletes, DataTypes
<1>3. /\ io[c] = "pending" /\ ctx[c].op = "Read" /\ k # NULL
      /\ sock' = sock /\ rcvd' = rcvd /\ UNCHANGED <<workVars, backlog, peer>>
      /\ \/ \E n \in Deliverable(k) : Complete(c, TRUE, n) /\ Deliver(c, k, n)
         \/ Complete(c, FALSE, 0) /\ UNCHANGED <<taken, ctx>>
  BY <1>2, EchoServerAssumption DEF RecvCompletes
<1>4. /\ taken[k] = Len(rcvd[k]) /\ Echoed(k) /\ Len(rcvd[k]) \in Nat
  <2>1. Posted(c)
    BY <1>2, <1>3 DEF DataInv, CtxOwes
  <2>2. taken[k] = Len(rcvd[k])
    BY <1>2, <1>3, <2>1 DEF Posted
  <2>3. Echoed(k)
    BY DEF DataInv, EchoInOrder, Echoed, Fits
  <2>4. QED
    BY <1>1, <2>2, <2>3 DEF DataTypes
<1>5. /\ io'[c] = "done" /\ \A j \in Keys \ {c} : io'[j] = io[j]
      /\ \A j \in Keys \ {c} : res'[j] = res[j] /\ ctx'[j] = ctx[j]
      /\ \A j \in Clients \ {k} : taken'[j] = taken[j]
      /\ res' \in [Keys -> [ok : BOOLEAN, n : Nat]]
      /\ ctx' \in [Keys -> Context] /\ taken' \in [Clients -> Nat]
      /\ Returned(c)' /\ Echoed(k)'
  <2>1. ASSUME NEW n \in Deliverable(k), Complete(c, TRUE, n), Deliver(c, k, n)
        PROVE  <1>5!:
    <3>1. n \in Nat
      BY <2>1 DEF Deliverable
    <3>2. /\ res' \in [Keys -> [ok : BOOLEAN, n : Nat]] /\ res'[c].n = n
          /\ \A j \in Keys \ {c} : res'[j] = res[j]
          /\ io'[c] = "done" /\ \A j \in Keys \ {c} : io'[j] = io[j]
      BY <1>1, <2>1, <3>1, Completed
    <3>3. /\ taken' \in [Clients -> Nat] /\ taken'[k] = taken[k] + n
          /\ \A j \in Clients \ {k} : taken'[j] = taken[j]
          /\ ctx' \in [Keys -> Context] /\ \A j \in Keys \ {c} : ctx'[j] = ctx[j]
          /\ ctx'[c].op = ctx[c].op
          /\ Len(ctx'[c].buf) = n
          /\ \A i \in 1..n : ctx'[c].buf[i] = Stream[k][taken[k] + i]
      BY <1>1, <1>2, <2>1, Delivered
    <3>4. /\ 0 <= n /\ n <= Len(ctx'[c].buf) /\ taken'[k] = Len(rcvd'[k]) + (n - 0)
      BY <1>3, <1>4, <3>1, <3>3
    <3>5. \A i \in (0 + 1)..n : Fits(k, Len(rcvd'[k]) + (i - 0), ctx'[c].buf[i])
      <4>1. ASSUME NEW i \in 1..n
            PROVE  ctx'[c].buf[i] = Stream[k][Len(rcvd'[k]) + (i - 0)]
        <5>1. taken[k] + i = Len(rcvd'[k]) + (i - 0)
          BY <1>3, <1>4
        <5>2. QED
          BY <3>3, <5>1
      <4>2. QED
        BY <4>1 DEF Fits
    <3>6. Owes(k, ctx[c].buf, 0, res[c].n)'
      BY <3>2, <3>4, <3>5 DEF Owes
    <3>7. Returned(c)'
      BY <1>2, <1>3, <3>3, <3>6 DEF Returned
    <3>8. Echoed(k)'
      BY <1>3, <1>4, <3>1, <3>3 DEF Echoed
    <3>9. QED
      BY <3>2, <3>3, <3>7, <3>8
  <2>2. ASSUME Complete(c, FALSE, 0), UNCHANGED <<taken, ctx>>
        PROVE  <1>5!:
    <3>1. /\ res' \in [Keys -> [ok : BOOLEAN, n : Nat]] /\ res'[c].n = 0
          /\ \A j \in Keys \ {c} : res'[j] = res[j]
          /\ io'[c] = "done" /\ \A j \in Keys \ {c} : io'[j] = io[j]
      BY <1>1, <2>2, Completed
    <3>2. taken \in [Clients -> Nat] /\ ctx \in [Keys -> Context] /\ Len(ctx[c].buf) \in Nat
      BY <1>1 DEF DataTypes, Context
    <3>3. Owes(k, ctx[c].buf, 0, res[c].n)'
      BY <1>3, <1>4, <2>2, <3>1, <3>2 DEF Owes
    <3>4. Returned(c)'
      BY <1>2, <1>3, <2>2, <3>3 DEF Returned
    <3>5. Echoed(k)'
      BY <1>3, <1>4, <2>2 DEF Echoed
    <3>6. QED
      BY <2>2, <3>1, <3>2, <3>4, <3>5
  <2>3. QED
    BY <1>3, <2>1, <2>2
<1>6. DataTypes'
  BY <1>1, <1>3, <1>5 DEF DataTypes, Context, Keys, Units
<1>7. Echoed(sock[c])'
  BY <1>2, <1>3, <1>5
<1>8. QED
  BY <1>1, <1>2, <1>3, <1>5, <1>6, <1>7, ContextData

\* A send gives back the next units of the Buffer, all of them or not.
LEMMA SendCompletesData ==
  ASSUME OwnerInv, DataInv, NEW c \in Ctx, SendCompletes(c)
  PROVE  DataInv'
<1>1. c \in Keys /\ DataTypes /\ Shapes
  BY DEF Keys, DataInv, OwnerInv
<1>2. PICK k \in Clients : k = sock[c]
  BY <1>1 DEF SendCompletes, DataTypes
<1> DEFINE b == ctx[c].buf
           s == ctx[c].sent
           t == ctx[c].total
<1>3. /\ io[c] = "pending" /\ ctx[c].op = "Write" /\ k # NULL
      /\ sock' = sock /\ ctx' = ctx /\ taken' = taken /\ UNCHANGED <<workVars, backlog, peer>>
      /\ \/ \E n \in 1..(t - s) :
              /\ Complete(c, TRUE, n)
              /\ rcvd' = [rcvd EXCEPT ![k] = rcvd[k] \o SubSeq(b, s + 1, s + n)]
         \/ Complete(c, FALSE, 0) /\ rcvd' = rcvd
  BY <1>2, EchoServerAssumption DEF SendCompletes
<1>4. /\ b \in Seq(Units) /\ s \in Nat /\ t \in Nat /\ rcvd[k] \in Seq(Units)
      /\ Len(b) \in Nat /\ Len(rcvd[k]) \in Nat /\ taken[k] \in Nat
      /\ rcvd \in [Clients -> Seq(Units)]
  BY <1>1 DEF DataTypes
<1>5. Owes(k, b, s, t) /\ Echoed(k)
  <2>1. Posted(c)
    BY <1>2, <1>3 DEF DataInv, CtxOwes
  <2>2. Echoed(k)
    BY DEF DataInv, EchoInOrder, Echoed, Fits
  <2>3. QED
    BY <1>2, <1>3, <2>1, <2>2 DEF Posted
<1>6. /\ b' = b /\ s' = s /\ t' = t
  BY <1>3
<1>7. /\ io'[c] = "done" /\ \A j \in Keys \ {c} : io'[j] = io[j]
      /\ \A j \in Keys \ {c} : res'[j] = res[j]
      /\ \A j \in Clients \ {k} : rcvd'[j] = rcvd[j]
      /\ res' \in [Keys -> [ok : BOOLEAN, n : Nat]]
      /\ rcvd' \in [Clients -> Seq(Units)]
      /\ Owes(k, b, s + res[c].n, t)' /\ Echoed(k)'
  <2>1. ASSUME NEW n \in 1..(t - s), Complete(c, TRUE, n),
               rcvd' = [rcvd EXCEPT ![k] = rcvd[k] \o SubSeq(b, s + 1, s + n)]
        PROVE  <1>7!:
    <3> HIDE DEF b, s, t
    <3>1. n \in Nat /\ s + n <= t /\ t <= Len(b) /\ 1 <= n
      BY <1>4, <1>5, <2>1 DEF Owes
    <3>2. /\ res' \in [Keys -> [ok : BOOLEAN, n : Nat]] /\ res'[c].n = n
          /\ \A j \in Keys \ {c} : res'[j] = res[j]
          /\ io'[c] = "done" /\ \A j \in Keys \ {c} : io'[j] = io[j]
      BY <1>1, <2>1, <3>1, Completed
    <3> DEFINE more == SubSeq(b, s + 1, s + n)
    <3>3. more \in Seq(Units) /\ Len(more) = n /\ \A i \in 1..n : more[i] = b[s + i]
      <4>1. s + n <= Len(b)
        BY <1>4, <3>1
      <4>2. /\ SubSeq(b, s + 1, s + n) \in Seq(Units)
            /\ Len(SubSeq(b, s + 1, s + n)) = n
            /\ \A i \in 1..n : SubSeq(b, s + 1, s + n)[i] = b[s + i]
        <5>1. b \in Seq(Units) /\ s \in Nat /\ n \in Nat
          BY <1>4, <3>1
        <5>2. QED
          BY <5>1, <4>1, Block
      <4>3. QED
        BY <4>2
    <3> HIDE DEF more
    <3>4. /\ rcvd' \in [Clients -> Seq(Units)] /\ rcvd'[k] = rcvd[k] \o more
          /\ \A j \in Clients \ {k} : rcvd'[j] = rcvd[j]
      <4>1. rcvd[k] \o more \in Seq(Units)
        BY <1>4, <3>3, ConcatProperties
      <4>2. rcvd' = [rcvd EXCEPT ![k] = rcvd[k] \o more]
        BY <2>1 DEF more
      <4>3. QED
        BY <1>4, <4>1, <4>2
    <3>5. /\ Len(rcvd'[k]) = Len(rcvd[k]) + n
          /\ \A i \in 1..Len(rcvd[k]) : rcvd'[k][i] = rcvd[k][i]
          /\ \A i \in 1..n : rcvd'[k][Len(rcvd[k]) + i] = b[s + i]
      <4>1. /\ Len(rcvd[k] \o more) = Len(rcvd[k]) + n
            /\ \A i \in 1..(Len(rcvd[k]) + n) :
                 (rcvd[k] \o more)[i] = IF i <= Len(rcvd[k]) THEN rcvd[k][i] ELSE more[i - Len(rcvd[k])]
        BY <1>4, <3>3, ConcatProperties
      <4>2. ASSUME NEW i \in 1..n
            PROVE  /\ Len(rcvd[k]) + i \in 1..(Len(rcvd[k]) + n) /\ ~(Len(rcvd[k]) + i <= Len(rcvd[k]))
                   /\ (Len(rcvd[k]) + i) - Len(rcvd[k]) = i
        BY <1>4, <3>1
      <4>3. \A i \in 1..n : (rcvd[k] \o more)[Len(rcvd[k]) + i] = more[i]
        BY <4>1, <4>2
      <4>4. \A i \in 1..Len(rcvd[k]) : i \in 1..(Len(rcvd[k]) + n) /\ i <= Len(rcvd[k])
        BY <1>4, <3>1
      <4>5. QED
        BY <3>3, <3>4, <4>1, <4>3, <4>4
    <3>6. /\ taken[k] = Len(rcvd[k]) + (t - s)
          /\ \A i \in (s + 1)..t : Fits(k, Len(rcvd[k]) + (i - s), b[i])
      BY <1>5 DEF Owes
    <3>7. Echoed(k)'
      <4>1. Len(rcvd'[k]) <= taken'[k]
        BY <1>3, <1>4, <3>1, <3>5, <3>6
      <4>2. ASSUME NEW i \in 1..Len(rcvd'[k])
            PROVE  Fits(k, i, rcvd'[k][i])
        <5>1. CASE i <= Len(rcvd[k])
          <6>1. i \in 1..Len(rcvd[k])
            BY <1>4, <5>1
          <6>2. QED
            BY <1>5, <3>5, <6>1 DEF Echoed
        <5>2. CASE ~(i <= Len(rcvd[k]))
          <6>1. PICK m \in 1..n : i = Len(rcvd[k]) + m
            <7>1. i - Len(rcvd[k]) \in 1..n /\ i = Len(rcvd[k]) + (i - Len(rcvd[k]))
              BY <1>4, <3>1, <3>5, <5>2
            <7>2. QED
              BY <7>1
          <6>2. s + m \in (s + 1)..t /\ Len(rcvd[k]) + ((s + m) - s) = i
            BY <1>4, <3>1, <6>1
          <6>3. Fits(k, Len(rcvd[k]) + ((s + m) - s), b[s + m])
            BY <3>6, <6>2
          <6>4. QED
            BY <3>5, <6>1, <6>2, <6>3
        <5>3. QED
          BY <5>1, <5>2
      <4>3. QED
        BY <4>1, <4>2 DEF Echoed, Fits
    <3>8. Owes(k, b, s + res[c].n, t)'
      <4>1. /\ s + n <= t /\ t <= Len(b)
            /\ taken'[k] = Len(rcvd'[k]) + (t - (s + n))
        BY <1>3, <1>4, <3>1, <3>5, <3>6
      <4>2. ASSUME NEW i \in (s + n + 1)..t
            PROVE  Fits(k, Len(rcvd'[k]) + (i - (s + n)), b[i])
        <5>1. i \in (s + 1)..t /\ Len(rcvd'[k]) + (i - (s + n)) = Len(rcvd[k]) + (i - s)
          BY <1>4, <3>1, <3>5
        <5>2. QED
          BY <3>6, <5>1
      <4>3. QED
        BY <1>6, <3>2, <4>1, <4>2 DEF Owes, Fits
    <3>9. QED
      BY <3>2, <3>4, <3>7, <3>8
  <2>2. ASSUME Complete(c, FALSE, 0), rcvd' = rcvd
        PROVE  <1>7!:
    <3>1. /\ res' \in [Keys -> [ok : BOOLEAN, n : Nat]] /\ res'[c].n = 0
          /\ \A j \in Keys \ {c} : res'[j] = res[j]
          /\ io'[c] = "done" /\ \A j \in Keys \ {c} : io'[j] = io[j]
      BY <1>1, <2>2, Completed
    <3> HIDE DEF b, s, t
    <3>2. s' + res'[c].n = s
      BY <1>4, <1>6, <3>1
    <3>3. Owes(k, b, s + res[c].n, t)'
      BY <1>3, <1>5, <1>6, <2>2, <3>2 DEF Owes
    <3>4. Echoed(k)'
      BY <1>3, <1>5, <2>2 DEF Echoed
    <3>5. QED
      BY <1>4, <2>2, <3>1, <3>3, <3>4
  <2>3. QED
    BY <1>3, <2>1, <2>2
<1>8. Returned(c)' /\ Echoed(sock[c])'
  BY <1>2, <1>3, <1>7 DEF Returned
<1>9. DataTypes'
  BY <1>1, <1>3, <1>7 DEF DataTypes, Keys, Units
<1>10. QED
  BY <1>1, <1>2, <1>3, <1>7, <1>8, <1>9, ContextData

\* The operation on a socket that is closed fails.
LEMMA AbortsData ==
  ASSUME OwnerInv, DataInv, NEW key \in Keys, Aborts(key)
  PROVE  DataInv'
<1>1. DataTypes /\ Shapes /\ Listen \in Keys /\ \A c \in Ctx : c \in Keys
  BY DEF DataInv, OwnerInv, Keys
<1>2. /\ io[key] = "pending" /\ Complete(key, FALSE, 0)
      /\ sock' = sock /\ ctx' = ctx /\ UNCHANGED <<workVars, netVars>>
      /\ sock[key] = NULL
  BY DEF Aborts, DataInv, ListenOwes
<1>3. /\ res' \in [Keys -> [ok : BOOLEAN, n : Nat]]
      /\ \A j \in Keys \ {key} : res'[j] = res[j]
      /\ io'[key] = "done" /\ \A j \in Keys \ {key} : io'[j] = io[j]
  BY <1>1, <1>2, Completed
<1>4. DataTypes'
  BY <1>1, <1>2, <1>3 DEF DataTypes, netVars, Keys, Units
<1>5. QED
  BY <1>1, <1>2, <1>3, <1>4, QuietData

-----------------------------------------------------------------------------
(* The workers.                                                            *)

\* Where a worker stands after a step of its own.
LEMMA Stands ==
  ASSUME OwnerInv, NEW w \in Workers, NEW l, UNCHANGED <<main, timedOut>>,
         Loop(w) \/ (Goto(w, l) /\ UNCHANGED <<cur, acc>>)
  PROVE  /\ Moves(w) /\ pc'[w] \in {"wait", l}
         /\ Goto(w, l) /\ UNCHANGED <<cur, acc>> => pc'[w] = l /\ cur'[w] = cur[w] /\ acc'[w] = acc[w]
<1>1. Moves(w)
  BY WorkerStep DEF OwnerInv
<1>2. pc'[w] \in {"wait", l}
  BY GotoShape DEF OwnerInv, Loop
<1>3. QED
  BY <1>1, <1>2, GotoShape DEF OwnerInv

\* A worker that stands elsewhere owes nothing.
LEMMA NothingOwed ==
  ASSUME NEW w, pc'[w] \notin {"check", "Read", "Write", "associate", "post", "accept", "allocate"}
  PROVE  HandOwes(w)' /\ NewOwes(w)' /\ ~AtListen(w)'
BY DEF HandOwes, NewOwes, AtListen

\* A worker's context has no operation before and after.
LEMMA HeldOwes ==
  ASSUME OwnerInv, NEW w \in Workers, NEW c \in Owns(w), io'[c] = io[c] \/ io'[c] = "none",
         sock'[c] \in {sock[c], NULL}
  PROVE  CtxOwes(c)'
BY Alone DEF CtxOwes

\* A worker that waits at the port, or logs, goes on.
LEMMA IdleData ==
  ASSUME OwnerInv, DataInv, NEW w \in Workers, DequeueQuit(w) \/ PortGone(w) \/ Log(w)
  PROVE  DataInv'
<1>1. /\ UNCHANGED <<io, res, sock, ctx, netVars, main, timedOut>>
      /\ Loop(w) \/ (Goto(w, "exited") /\ UNCHANGED <<cur, acc>>)
      /\ Owns(w) = {}
  BY DEF DequeueQuit, PortGone, Log, ioVars, endVars, Owns
<1>2. Moves(w) /\ pc'[w] \in {"wait", "exited"}
  BY <1>1, Stands
<1>3. HandOwes(w)' /\ NewOwes(w)' /\ ~AtListen(w)'
  BY <1>2, NothingOwed
<1>4. DataTypes'
  BY <1>1, QuietTyped DEF DataInv, DataTypes, Context
<1>5. QED
  BY <1>1, <1>2, <1>3, <1>4, WorkerData

\* GetQueuedCompletionStatus returns a packet.
LEMMA DequeueData ==
  ASSUME OwnerInv, DataInv, NEW w \in Workers, NEW key \in Keys, Dequeue(w, key)
  PROVE  DataInv'
<1>1. /\ pc[w] = "wait" /\ io[key] = "done" /\ io' = [io EXCEPT ![key] = "held"]
      /\ cur' = [cur EXCEPT ![w] = key] /\ Goto(w, "check")
      /\ UNCHANGED <<res, sock, ctx, acc, netVars, main, timedOut>>
  BY DEF Dequeue, endVars
<1>2. Shapes
  BY DEF OwnerInv
<1>3. pc'[w] = "check" /\ cur'[w] = key /\ Moves(w)
  BY <1>1, <1>2, GotoShape DEF Moves, Shapes
<1>4. \A j \in Keys : io'[j] \in {io[j], "held"}
  BY <1>1, <1>2, IoShape
<1>5. Owns(w) = {}
  BY <1>1 DEF Owns
<1>6. DataTypes'
  BY <1>1, QuietTyped DEF DataInv, DataTypes, Context
<1>7. HandOwes(w)'
  <2>1. ASSUME key \in Ctx, sock[key] # NULL
        PROVE  Returned(key)'
    <3>1. Returned(key)
      BY <1>1, <2>1 DEF DataInv, CtxOwes
    <3>2. QED
      BY <1>1, <3>1 DEF Returned, Owes, netVars
  <2>2. QED
    BY <1>1, <1>3, <2>1 DEF HandOwes
<1>8. NewOwes(w)' /\ (AtListen(w)' => io[Listen] = "done")
  BY <1>1, <1>3 DEF NewOwes, AtListen
<1>9. Listen \in Keys /\ \A c \in Ctx : c \in Keys
  BY DEF Keys
<1>10. QED
  BY <1>1, <1>3, <1>4, <1>5, <1>6, <1>7, <1>8, <1>9, WorkerData

\* The tests before the switch.
LEMMA CheckData ==
  ASSUME OwnerInv, DataInv, NEW w \in Workers, Check(w)
  PROVE  DataInv'
<1>1. /\ pc[w] = "check" /\ Owns(w) = {cur[w]} /\ cur[w] \in Keys /\ Shapes
      /\ UNCHANGED <<res, sock, ctx, cur, acc, netVars, main, timedOut>>
  BY DEF Check, endVars, Owns, OwnerInv, Hold
<1>2. DataTypes'
  BY <1>1, QuietTyped DEF DataInv, DataTypes, Context
<1>3. Listen \in Keys /\ \A c \in Ctx : c \in Keys
  BY DEF Keys
<1>4. CASE bEnd
  <2>1. Goto(w, "exited") /\ io' = [io EXCEPT ![cur[w]] = "none"]
    BY <1>4 DEF Check
  <2>2. Moves(w) /\ pc'[w] \in {"wait", "exited"}
    BY <1>1, <2>1, Stands
  <2>3. io'[cur[w]] = "none" /\ \A j \in Keys \ {cur[w]} : io'[j] = io[j]
    BY <1>1, <2>1, IoShape
  <2>4. HandOwes(w)' /\ NewOwes(w)' /\ ~AtListen(w)'
    BY <2>2, NothingOwed
  <2>5. \A c \in Owns(w) : CtxOwes(c)'
    BY <1>1, <2>3, HeldOwes
  <2>6. QED
    BY <1>1, <1>2, <1>3, <2>2, <2>3, <2>4, <2>5, WorkerData
<1>5. CASE ~bEnd
  <2> DEFINE l == IF cur[w] = Listen THEN "accept"
                  ELSE IF ~res[cur[w]].ok \/ res[cur[w]].n = 0 THEN "close" ELSE ctx[cur[w]].op
  <2>1. Goto(w, l) /\ io' = io
    BY <1>5 DEF Check
  <2>2. /\ l \in {"accept", "close", "Read", "Write", "Accept"}
        /\ l = "accept" => cur[w] = Listen
        /\ l \in {"Read", "Write"} => ctx[cur[w]].op = l
    <3>1. ctx[cur[w]].op \in {"Accept", "Read", "Write"}
      BY <1>1 DEF Shapes, Ops
    <3>2. QED
      BY <3>1
  <2> HIDE DEF l
  <2>3. Moves(w) /\ pc'[w] = l /\ cur'[w] = cur[w]
    BY <1>1, <2>1, Stands
  <2>4. HandOwes(w)'
    <3>1. ASSUME cur[w] \in Ctx, sock[cur[w]] # NULL
          PROVE  Returned(cur[w])'
      <4>1. Returned(cur[w])
        BY <1>1, <3>1 DEF DataInv, HandOwes
      <4>2. QED
        BY <1>1, <4>1 DEF Returned, Owes, netVars
    <3>2. QED
      BY <1>1, <2>2, <2>3, <3>1 DEF HandOwes
  <2>5. NewOwes(w)' /\ (AtListen(w)' => AtListen(w))
    BY <1>1, <2>2, <2>3 DEF NewOwes, AtListen
  <2>6. \A c \in Owns(w) : CtxOwes(c)'
    BY <1>1, <2>1, HeldOwes
  <2>7. QED
    BY <1>1, <1>2, <1>3, <2>1, <2>3, <2>4, <2>5, <2>6, WorkerData
<1>6. QED
  BY <1>4, <1>5

\* WSASend or WSARecv on a context that the worker has.
LEMMA PostData ==
  ASSUME OwnerInv, DataInv, NEW w \in Workers, NEW c \in Ctx, c \in Owns(w),
         NEW posted \in {"wait", "log", "rearm"}, NEW refused \in {"close", "acceptclose"},
         Post(w, c, sock[c], posted, refused),
         UNCHANGED <<sock, netVars, main, timedOut>>,
         ctx' \in [Keys -> Context], \A j \in Keys \ {c} : ctx'[j] = ctx[j],
         sock[c] # NULL => Posted(c)'
  PROVE  DataInv'
<1>1. /\ Shapes /\ DataTypes /\ Listen \in Keys /\ Listen # c /\ c \in Keys
      /\ \A d \in Ctx : d \in Keys
  BY EchoServerAssumption DEF OwnerInv, DataInv, Keys
<1>2. /\ \/ sock[c] # NULL /\ io' = [io EXCEPT ![c] = "pending"] /\ res' = [res EXCEPT ![c] = NoResult]
         \/ io' = io /\ res' = res
      /\ \/ Loop(w)
         \/ Goto(w, posted) /\ UNCHANGED <<cur, acc>>
         \/ Goto(w, refused) /\ UNCHANGED <<cur, acc>>
  BY DEF Post
<1>3. Moves(w) /\ pc'[w] \in {"wait", posted, refused}
  BY <1>2, Stands
<1>4. HandOwes(w)' /\ NewOwes(w)' /\ ~AtListen(w)'
  BY <1>3, NothingOwed
<1>5. res' \in [Keys -> [ok : BOOLEAN, n : Nat]] /\ \A j \in Keys \ {c} : res'[j] = res[j]
  BY <1>1, <1>2, ResTyped
<1>6. DataTypes'
  BY <1>1, <1>5, QuietTyped DEF DataTypes
<1>7. \A j \in Keys \ {c} : io'[j] = io[j]
  BY <1>1, <1>2, IoShape
<1>8. CtxOwes(c)'
  <2>1. CASE io' = io
    BY <2>1, HeldOwes
  <2>2. CASE sock[c] # NULL /\ io' = [io EXCEPT ![c] = "pending"]
    <3>1. io'[c] = "pending"
      BY <1>1, <2>2, IoShape
    <3>2. QED
      BY <2>2, <3>1 DEF CtxOwes
  <2>3. QED
    BY <1>2, <2>1, <2>2
<1>9. \A d \in Ctx : d \in Owns(w) => CtxOwes(d)'
  <2>1. ASSUME NEW d \in Ctx, d \in Owns(w), d # c
        PROVE  CtxOwes(d)'
    BY <1>1, <1>7, <2>1, HeldOwes
  <2>2. QED
    BY <1>8, <2>1
<1>10. QED
  BY <1>1, <1>3, <1>4, <1>5, <1>6, <1>7, <1>9, WorkerData

\* case ClientIoRead: what was received is what is to be sent.
LEMMA ReadDoneData ==
  ASSUME OwnerInv, DataInv, ClientsOnly, NEW w \in Workers, ReadDone(w)
  PROVE  DataInv'
<1>c. PICK c \in Ctx : c = cur[w]
  BY DEF ReadDone, Owns, OwnerInv, Hold, ClientsOnly, Keys
<1>1. /\ pc[w] = "Read" /\ c \in Owns(w) /\ c \in Ctx /\ Shapes /\ DataTypes
      /\ UNCHANGED <<sock, netVars, main, timedOut>>
      /\ ctx' = [ctx EXCEPT ![c].op = "Write", ![c].total = res[c].n, ![c].sent = 0]
      /\ Post(w, c, sock[c], AfterPost, "close")
  BY <1>c DEF ReadDone, endVars, Owns, OwnerInv, DataInv
<1>2. c \in Keys /\ res[c].n \in Nat
  BY <1>1 DEF Keys, DataTypes
<1>3. ctx' \in [Keys -> Context]
  BY <1>1, <1>2, EmptySeq, CtxTyped
<1>4. /\ \A j \in Keys \ {c} : ctx'[j] = ctx[j]
      /\ ctx'[c].op = "Write" /\ ctx'[c].total = res[c].n /\ ctx'[c].sent = 0
      /\ ctx'[c].buf = ctx[c].buf
  BY <1>1, <1>2 DEF DataTypes
<1>5. ASSUME sock[c] # NULL
      PROVE  Posted(c)'
  <2>1. Returned(c) /\ ctx[c].op = "Read"
    BY <1>c, <1>1, <1>5 DEF DataInv, HandOwes
  <2>2. Owes(sock[c], ctx[c].buf, 0, res[c].n)
    BY <2>1 DEF Returned
  <2>3. QED
    BY <1>1, <1>4, <2>2 DEF Posted, Owes, netVars
<1>6. AfterPost \in {"wait", "log", "rearm"}
  BY DEF AfterPost
<1>7. QED
  BY <1>1, <1>3, <1>4, <1>5, <1>6, PostData

\* case ClientIoWrite: what is left is to be sent, or nothing is.
LEMMA WriteDoneData ==
  ASSUME OwnerInv, DataInv, ClientsOnly, NEW w \in Workers, WriteDone(w)
  PROVE  DataInv'
<1>c. PICK c \in Ctx : c = cur[w]
  BY DEF WriteDone, Owns, OwnerInv, Hold, ClientsOnly, Keys
<1>a. PICK sent : sent = ctx[c].sent + res[c].n
  OBVIOUS
<1>1. /\ pc[w] = "Write" /\ c \in Owns(w) /\ c \in Ctx /\ Shapes /\ DataTypes
      /\ UNCHANGED <<sock, netVars, main, timedOut>>
      /\ ctx' = [ctx EXCEPT ![c].sent = sent, ![c].op = IF sent < ctx[c].total THEN "Write" ELSE "Read"]
      /\ Post(w, c, sock[c], AfterPost, "close")
  BY <1>c, <1>a DEF WriteDone, endVars, Owns, OwnerInv, DataInv
<1>2. c \in Keys /\ res[c].n \in Nat /\ ctx[c].sent \in Nat /\ ctx[c].total \in Nat
  BY <1>1 DEF Keys, DataTypes
<1>3. sent \in Nat
  BY <1>2, <1>a
<1>4. ctx' \in [Keys -> Context]
  BY <1>1, <1>2, <1>3, EmptySeq, CtxTyped
<1>5. /\ \A j \in Keys \ {c} : ctx'[j] = ctx[j]
      /\ ctx'[c].op = (IF sent < ctx[c].total THEN "Write" ELSE "Read")
      /\ ctx'[c].total = ctx[c].total /\ ctx'[c].sent = sent /\ ctx'[c].buf = ctx[c].buf
  BY <1>1, <1>2 DEF DataTypes
<1>6. ASSUME sock[c] # NULL
      PROVE  Posted(c)'
  <2>1. Returned(c) /\ ctx[c].op = "Write"
    BY <1>c, <1>1, <1>6 DEF DataInv, HandOwes
  <2>2. Owes(sock[c], ctx[c].buf, sent, ctx[c].total)
    BY <1>a, <2>1 DEF Returned
  <2>3. CASE sent < ctx[c].total
    BY <1>1, <1>5, <2>2, <2>3 DEF Posted, Owes, netVars
  <2>4. CASE ~(sent < ctx[c].total)
    <3>1. sock[c] \in Clients /\ Len(rcvd[sock[c]]) \in Nat
      BY <1>1, <1>2, <1>6, LenProperties DEF DataTypes
    <3>2. taken[sock[c]] = Len(rcvd[sock[c]])
      BY <1>2, <1>3, <2>2, <2>4, <3>1 DEF Owes
    <3>3. QED
      BY <1>1, <1>5, <2>4, <3>2 DEF Posted, netVars
  <2>5. QED
    BY <2>3, <2>4
<1>7. AfterPost \in {"wait", "log", "rearm"}
  BY DEF AfterPost
<1>8. QED
  BY <1>1, <1>4, <1>5, <1>6, <1>7, PostData

\* UpdateCompletionPort's caller: the copy of the first block is to be sent.
LEMMA AcceptPostData ==
  ASSUME OwnerInv, DataInv, NEW w \in Workers, AcceptPost(w)
  PROVE  DataInv'
<1>c. PICK c \in Ctx : c = acc[w]
  BY InUse DEF AcceptPost
<1>a. PICK n, b : n = res[Listen].n /\ b = ctx[Listen].buf
  OBVIOUS
<1>1. /\ pc[w] = "post" /\ c \in Owns(w) /\ c \in Ctx /\ Shapes /\ DataTypes
      /\ UNCHANGED <<sock, netVars, main, timedOut>>
      /\ ctx' = [ctx EXCEPT ![c] = IF n > 0
                   THEN [op |-> "Write", total |-> n, sent |-> 0, buf |-> StringCopy(b)]
                   ELSE [@ EXCEPT !.op = "Read"]]
      /\ Post(w, c, sock[c], "rearm", "acceptclose")
  BY <1>c, <1>a, InUse DEF AcceptPost, endVars, OwnerInv, DataInv
<1>2. c \in Keys /\ n \in Nat /\ b \in Seq(Units) /\ ctx[c].op \in Ops
  BY <1>1, <1>a DEF Keys, DataTypes
<1>3. StringCopy(b) \in Seq(Units) /\ Len(StringCopy(b)) = Len(b) /\ Len(b) \in Nat
  BY <1>2, Copied, LenProperties
<1>4. \/ n > 0 /\ ctx' = [ctx EXCEPT ![c] = [op |-> "Write", total |-> n, sent |-> 0, buf |-> StringCopy(b)]]
      \/ n = 0 /\ ctx' = [ctx EXCEPT ![c] = [@ EXCEPT !.op = "Read"]]
  <2>1. CASE n > 0
    BY <1>1, <2>1
  <2>2. CASE n = 0
    <3>1. ~(n > 0)
      BY <2>2
    <3>2. QED
      BY <1>1, <2>2, <3>1
  <2>3. QED
    BY <1>2, <2>1, <2>2
<1>5. ctx' \in [Keys -> Context]
  BY <1>1, <1>2, <1>3, <1>4, CtxTyped
<1>6. /\ \A j \in Keys \ {c} : ctx'[j] = ctx[j]
      /\ n = 0 => ctx'[c].op = "Read"
      /\ n > 0 => /\ ctx'[c].op = "Write" /\ ctx'[c].total = n /\ ctx'[c].sent = 0
                  /\ ctx'[c].buf = StringCopy(b)
  BY <1>1, <1>2, <1>4 DEF DataTypes
<1>7. ASSUME sock[c] # NULL
      PROVE  Posted(c)'
  <2>0. PICK k : k = sock[c]
    OBVIOUS
  <2>1. First(k)
    BY <1>c, <1>1, <1>7, <2>0 DEF DataInv, NewOwes
  <2>2. /\ rcvd[k] = <<>> /\ taken[k] = n /\ n <= Len(b) /\ \A i \in 1..n : b[i] = Stream[k][i]
        /\ Len(rcvd[k]) = 0
    BY <1>a, <2>1, EmptySeq DEF First
  <2>3. sock'[c] = k /\ taken'[k] = taken[k] /\ rcvd'[k] = rcvd[k]
    BY <1>1, <2>0 DEF netVars
  <2>4. CASE n = 0
    BY <1>6, <2>2, <2>3, <2>4 DEF Posted
  <2>5. CASE n > 0
    <3>1. ASSUME NEW i \in (0 + 1)..n
          PROVE  Fits(k, Len(rcvd[k]) + (i - 0), StringCopy(b)[i])
      <4>1. i \in 1..n /\ Len(rcvd[k]) + (i - 0) = i
        BY <1>2, <2>2
      <4>2. QED
        BY <1>2, <2>2, <4>1, CopyFits
    <3>2. Owes(k, StringCopy(b), 0, n)
      BY <1>2, <1>3, <2>2, <3>1 DEF Owes
    <3>3. QED
      BY <1>6, <2>3, <2>5, <3>2 DEF Posted, Owes
  <2>6. QED
    BY <1>2, <2>4, <2>5
<1>8. QED
  BY <1>1, <1>5, <1>6, <1>7, PostData

\* CloseClient, and CreateIoCompletionPort that fails: the socket of a context
\* that the worker has is closed.
LEMMA CloseData ==
  ASSUME OwnerInv, DataInv, ClientsOnly, NEW w \in Workers,
         Close(w) \/ AcceptClose(w) \/ AcceptAssociateFails(w)
  PROVE  DataInv'
<1>1. /\ Shapes /\ DataTypes /\ Listen \in Keys /\ \A d \in Ctx : d \in Keys
  BY DEF OwnerInv, DataInv, Keys
<1>2. PICK c \in Ctx :
        /\ c \in Owns(w)
        /\ sock' = [sock EXCEPT ![c] = NULL] /\ UNCHANGED <<res, ctx, netVars, main, timedOut>>
        /\ \/ io' = [io EXCEPT ![c] = "none"]
           \/ io' = [io EXCEPT ![Listen] = "none", ![c] = "none"] /\ Listen \in Owns(w)
        /\ \/ Loop(w)
           \/ Goto(w, "rearm") /\ UNCHANGED <<cur, acc>>
           \/ Goto(w, "exited") /\ UNCHANGED <<cur, acc>>
  <2>1. CASE Close(w)
    <3>1. cur[w] \in Ctx /\ cur[w] \in Owns(w)
      BY <2>1 DEF Close, Owns, OwnerInv, Hold, ClientsOnly, Keys
    <3>2. QED
      BY <2>1, <3>1 DEF Close, endVars
  <2>2. CASE AcceptClose(w) \/ AcceptAssociateFails(w)
    <3>1. acc[w] \in Ctx /\ acc[w] \in Owns(w) /\ Listen \in Owns(w)
      BY <2>2, InUse DEF AcceptClose, AcceptAssociateFails
    <3>2. QED
      BY <2>2, <3>1 DEF AcceptClose, AcceptAssociateFails, GiveUp, endVars
  <2>3. QED
    BY <2>1, <2>2
<1>3. Moves(w) /\ pc'[w] \in {"wait", "rearm", "exited"}
  BY <1>2, Stands
<1>4. HandOwes(w)' /\ NewOwes(w)' /\ ~AtListen(w)'
  BY <1>3, NothingOwed
<1>5. /\ sock' \in [Keys -> Clients \cup {NULL}]
      /\ \A j \in Keys : sock'[j] \in {sock[j], NULL}
  BY <1>1, <1>2, SockTyped
<1>6. DataTypes'
  BY <1>1, <1>2, <1>5, QuietTyped DEF DataTypes, Context
<1>7. \A j \in Keys : io'[j] = io[j] \/ (j \in Owns(w) /\ io'[j] = "none")
  BY <1>1, <1>2 DEF Shapes
<1>8. \A d \in Ctx : d \in Owns(w) => CtxOwes(d)'
  BY <1>1, <1>5, <1>7, HeldOwes
<1>9. QED
  BY <1>1, <1>2, <1>3, <1>4, <1>5, <1>6, <1>7, <1>8, WorkerData

\* The accept handler goes on, or gives up.
LEMMA AcceptData ==
  ASSUME OwnerInv, DataInv, NEW w \in Workers,
         AcceptUpdate(w) \/ AcceptAllocateFails(w) \/ AcceptAssociate(w) \/ RearmFails(w)
  PROVE  DataInv'
<1>1. /\ Shapes /\ DataTypes /\ Listen \in Keys /\ \A d \in Ctx : d \in Keys
      /\ Listen \in Owns(w)
  BY InUse DEF OwnerInv, DataInv, Keys, AcceptUpdate, AcceptAllocateFails, AcceptAssociate, RearmFails, Owns
<1>2. /\ UNCHANGED <<cur, acc, res, ctx, netVars, main, timedOut>>
      /\ sock' = sock \/ sock' = [sock EXCEPT ![Listen] = NULL]
      /\ io' = io \/ io' = [io EXCEPT ![Listen] = "none"]
      /\ \/ Goto(w, "exited")
         \/ Goto(w, "allocate") /\ pc[w] = "accept"
         \/ Goto(w, "post") /\ pc[w] = "associate" /\ sock' = sock
  BY DEF AcceptUpdate, AcceptAllocateFails, AcceptAssociate, RearmFails, GiveUp, endVars, ioVars
<1>3. /\ Moves(w) /\ cur'[w] = cur[w] /\ acc'[w] = acc[w]
      /\ \/ pc'[w] = "exited"
         \/ pc'[w] = "allocate" /\ pc[w] = "accept"
         \/ pc'[w] = "post" /\ pc[w] = "associate" /\ sock' = sock
  BY <1>2, Stands
<1>4. HandOwes(w)' /\ (AtListen(w)' => AtListen(w))
  BY <1>3 DEF HandOwes, AtListen
<1>5. NewOwes(w)'
  <2>1. ASSUME pc[w] = "associate", sock' = sock, sock[acc[w]] # NULL
        PROVE  First(sock[acc[w]])'
    BY <1>2, <2>1 DEF DataInv, NewOwes, First, netVars
  <2>2. QED
    BY <1>2, <1>3, <2>1 DEF NewOwes
<1>6. /\ sock' \in [Keys -> Clients \cup {NULL}]
      /\ \A j \in Keys : sock'[j] \in {sock[j], NULL}
  BY <1>1, <1>2, SockTyped
<1>7. DataTypes'
  BY <1>1, <1>2, <1>6, QuietTyped DEF DataTypes, Context
<1>8. \A j \in Keys : io'[j] = io[j] \/ (j \in Owns(w) /\ io'[j] = "none")
  BY <1>1, <1>2 DEF Shapes
<1>9. \A d \in Ctx : d \in Owns(w) => CtxOwes(d)'
  BY <1>1, <1>6, <1>8, HeldOwes
<1>10. QED
  BY <1>1, <1>2, <1>3, <1>4, <1>5, <1>6, <1>7, <1>8, <1>9, WorkerData

\* CreateAcceptSocket: the listening context is emptied.
LEMMA RearmData ==
  ASSUME OwnerInv, DataInv, NEW w \in Workers, Rearm(w) \/ RearmRefused(w)
  PROVE  DataInv'
<1>1. /\ Shapes /\ DataTypes /\ Listen \in Keys /\ \A d \in Ctx : d \in Keys /\ d # Listen
      /\ Owns(w) = {Listen}
  BY EchoServerAssumption DEF OwnerInv, DataInv, Keys, Rearm, RearmRefused, Owns
<1>2. /\ UNCHANGED <<netVars, main, timedOut>> /\ Loop(w)
      /\ sock' = [sock EXCEPT ![Listen] = NULL]
      /\ \E x \in {"pending", "refused"} : io' = [io EXCEPT ![Listen] = x]
      /\ \/ ctx' = [ctx EXCEPT ![Listen] = Zeroed] /\ res' = [res EXCEPT ![Listen] = NoResult]
            /\ main \in {"serve", "join"}
         \/ ctx' = ctx /\ res' = res
  BY DEF Rearm, RearmRefused, Listening, endVars
<1>3. Moves(w) /\ pc'[w] \in {"wait"}
  BY <1>2, Stands
<1>4. HandOwes(w)' /\ NewOwes(w)' /\ ~AtListen(w)'
  BY <1>3, NothingOwed
<1>5. /\ sock' \in [Keys -> Clients \cup {NULL}] /\ sock'[Listen] = NULL
      /\ \A j \in Keys : sock'[j] \in {sock[j], NULL}
  BY <1>1, <1>2, SockTyped DEF Shapes
<1>6. res' \in [Keys -> [ok : BOOLEAN, n : Nat]] /\ \A j \in Keys \ {Listen} : res'[j] = res[j]
  BY <1>1, <1>2, ResTyped
<1>7. ctx' \in [Keys -> Context] /\ \A j \in Keys \ {Listen} : ctx'[j] = ctx[j]
  <2>1. ctx' = ctx \/ ctx' = [ctx EXCEPT ![Listen] = Zeroed]
    BY <1>2
  <2>2. ctx' \in [Keys -> Context]
    BY <1>1, <2>1, EmptySeq, CtxTyped
  <2>3. QED
    BY <1>1, <2>1, <2>2 DEF Shapes
<1>8. DataTypes'
  BY <1>1, <1>2, <1>5, <1>6, <1>7, QuietTyped
<1>9. \A j \in Keys \ {Listen} : io'[j] = io[j]
  BY <1>1, <1>2 DEF Shapes
<1>10. io'[Listen] # "done"
  BY <1>1, <1>2 DEF Shapes
<1>11. \/ ctx'[Listen] = ctx[Listen] /\ res'[Listen] = res[Listen]
       \/ ~Dead(Listen)
  BY <1>2 DEF Dead
<1>12. QED
  BY <1>1, <1>2, <1>3, <1>4, <1>5, <1>6, <1>7, <1>8, <1>9, <1>10, <1>11, WorkerData

\* CtxtAllocate: the new context gets the socket of the connection.
LEMMA AllocateData ==
  ASSUME OwnerInv, DataInv, NEW w \in Workers, NEW c \in Ctx, AcceptAllocate(w, c)
  PROVE  DataInv'
<1>1. /\ Shapes /\ DataTypes /\ Listen \in Keys /\ c \in Keys /\ c # Listen
      /\ \A d \in Ctx : d \in Keys /\ d # Listen
      /\ pc[w] = "allocate" /\ Owns(w) = {Listen}
      /\ UNCHANGED <<cur, netVars, main, timedOut>>
      /\ acc' = [acc EXCEPT ![w] = c] /\ sock' = [sock EXCEPT ![c] = sock[Listen]]
      /\ ctx' = [ctx EXCEPT ![c] = Zeroed] /\ io' = [io EXCEPT ![c] = "held"]
      /\ res' = [res EXCEPT ![c] = NoResult] /\ Goto(w, "associate") /\ c \notin alive
  BY HeapEffects, EchoServerAssumption DEF AcceptAllocate, endVars, OwnerInv, DataInv, Keys, Owns
<1>2. /\ pc'[w] = "associate" /\ acc'[w] = c /\ Moves(w)
  BY <1>1, GotoShape DEF Moves, Shapes
<1>3. /\ sock' \in [Keys -> Clients \cup {NULL}] /\ sock'[c] = sock[Listen]
      /\ io'[c] = "held"
      /\ \A j \in Keys \ {c} : sock'[j] = sock[j] /\ ctx'[j] = ctx[j] /\ io'[j] = io[j]
  BY <1>1 DEF DataTypes, Shapes
<1>4. res' \in [Keys -> [ok : BOOLEAN, n : Nat]] /\ \A j \in Keys \ {c} : res'[j] = res[j]
  BY <1>1, ResTyped
<1>5. ctx' \in [Keys -> Context]
  BY <1>1, EmptySeq, CtxTyped
<1>6. DataTypes'
  BY <1>1, <1>3, <1>4, <1>5, QuietTyped
<1>7. /\ taken' = taken /\ rcvd' = rcvd /\ backlog' = backlog /\ peer' = peer
  BY <1>1 DEF netVars
<1>8. HandOwes(w)' /\ ~AtListen(w)'
  BY <1>2 DEF HandOwes, AtListen
<1>9. CASE sock[Listen] = NULL
  <2>1. NewOwes(w)'
    BY <1>2, <1>3, <1>9 DEF NewOwes
  <2>2. \A j \in Keys : sock'[j] \in {sock[j], NULL}
    BY <1>3, <1>9
  <2>3. \A d \in Ctx : d \notin Owns(w)
    BY <1>1
  <2>4. QED
    BY <1>1, <1>2, <1>3, <1>4, <1>6, <1>8, <1>9, <2>1, <2>2, <2>3, WorkerData
<1>10. CASE sock[Listen] # NULL
  <2>1. First(sock[Listen]) /\ \A d \in Ctx : sock[d] # sock[Listen]
    BY <1>1, <1>10 DEF DataInv, ListenOwes, AtListen
  <2>2. /\ io[Listen] = "held" /\ \A v \in Workers : v # w => Listen \notin Owns(v)
    BY <1>1, <1>10, Alone
  <2>3. \A v \in Workers : c \notin Owns(v)
    <3>1. main \notin {"sweep", "done"}
      BY <1>10 DEF OwnerInv, Swept, Dead
    <3>2. ~Dead(c) /\ ~Allocated(c)
      BY <1>1, <3>1 DEF Dead, Allocated
    <3>3. QED
      BY <3>2 DEF OwnerInv, Hold
  <2>4. \A v \in Workers \ {w} : pc'[v] = pc[v] /\ cur'[v] = cur[v] /\ acc'[v] = acc[v]
    BY <1>2 DEF Moves
  <2>5. EchoInOrder'
    BY <1>7 DEF DataInv, EchoInOrder
  <2>6. OneEach'
    BY <1>1, <1>3, <2>1 DEF DataInv, OneEach
  <2>7. WaitingUntouched'
    <3>1. \A k : Waiting(k)' = Waiting(k)
      BY <1>7 DEF Waiting
    <3>2. ASSUME NEW k \in Clients, Waiting(k)
          PROVE  taken'[k] = 0 /\ rcvd'[k] = <<>> /\ \A key \in Keys : sock'[key] # k
      BY <1>1, <1>3, <1>7, <3>2 DEF DataInv, WaitingUntouched
    <3>3. /\ \A i, j \in 1..Len(backlog') : backlog'[i] = backlog'[j] => i = j
          /\ \A i \in 1..Len(backlog') : peer'[backlog'[i]] # "new"
      BY <1>7 DEF DataInv, WaitingUntouched
    <3>4. QED
      BY <3>1, <3>2, <3>3 DEF WaitingUntouched, Keys
  <2>8. ListenOwes'
    <3>1. io'[Listen] = "held"
      BY <1>1, <1>3, <2>2
    <3>2. \A v \in Workers : ~AtListen(v)'
      <4>1. ASSUME NEW v \in Workers \ {w}
            PROVE  ~AtListen(v)
        BY <2>2, InUse
      <4>2. ASSUME NEW v \in Workers \ {w}
            PROVE  AtListen(v)' = AtListen(v)
        BY <2>4 DEF AtListen
      <4>3. QED
        BY <1>8, <4>1, <4>2
    <3>3. QED
      BY <3>1, <3>2 DEF ListenOwes
  <2>9. ASSUME NEW d \in Ctx
        PROVE  CtxOwes(d)'
    <3>1. CASE d = c
      BY <1>3, <3>1 DEF CtxOwes
    <3>2. CASE d # c
      <4>1. CtxOwes(d) /\ sock'[d] = sock[d] /\ ctx'[d] = ctx[d] /\ io'[d] = io[d] /\ res'[d] = res[d]
        BY <1>1, <1>3, <1>4, <3>2 DEF DataInv
      <4>2. QED
        BY <1>7, <4>1 DEF CtxOwes, Posted, Returned, Owes
    <3>3. QED
      BY <3>1, <3>2
  <2>10. ASSUME NEW v \in Workers, v # w
         PROVE  HandOwes(v)' /\ NewOwes(v)'
    <3>1. HandOwes(v)'
      <4>1. ASSUME pc[v] \in {"check", "Read", "Write"}, cur[v] \in Ctx
            PROVE  /\ sock'[cur[v]] = sock[cur[v]] /\ ctx'[cur[v]] = ctx[cur[v]]
                   /\ res'[cur[v]] = res[cur[v]]
        <5>1. cur[v] # c
          BY <2>3, <4>1, InUse
        <5>2. QED
          BY <1>1, <1>3, <1>4, <4>1, <5>1
      <4>2. ASSUME pc[v] \in {"check", "Read", "Write"}, cur[v] \in Ctx, sock[cur[v]] # NULL
            PROVE  Returned(cur[v])' /\ (pc[v] # "check" => ctx[cur[v]].op = pc[v])
        <5>1. Returned(cur[v]) /\ (pc[v] # "check" => ctx[cur[v]].op = pc[v])
          BY <4>2 DEF DataInv, HandOwes
        <5>2. (Returned(cur[v]))'
          BY <1>7, <2>4, <2>10, <4>1, <4>2, <5>1 DEF Returned, Owes
        <5>3. QED
          BY <5>1, <5>2
      <4>3. QED
        BY <2>4, <2>10, <4>1, <4>2 DEF HandOwes
    <3>2. pc[v] \notin {"associate", "post"}
      BY <2>2, <2>10, InUse
    <3>3. QED
      BY <2>4, <2>10, <3>1, <3>2 DEF NewOwes
  <2>11. NewOwes(w)'
    BY <1>1, <1>2, <1>3, <1>4, <1>7, <2>1 DEF NewOwes, First
  <2>12. QED
    BY <1>6, <1>8, <2>5, <2>6, <2>7, <2>8, <2>9, <2>10, <2>11 DEF DataInv
<1>11. QED
  BY <1>9, <1>10

-----------------------------------------------------------------------------
(* The whole server.                                                       *)

\* The control handler and main(), which only closes sockets.
LEMMA EndData ==
  ASSUME OwnerInv, DataInv, CtrlEnd \/ CtrlEvent \/ MainNext \/ UNCHANGED vars
  PROVE  DataInv'
<1>1. /\ UNCHANGED <<workVars, netVars, io, res, ctx>>
      /\ sock' = sock \/ \E k : sock' = [sock EXCEPT ![k] = NULL]
  BY DEF CtrlEnd, CtrlEvent, MainNext, MainWakes, MainJoins, MainTimesOut, MainSweeps,
     SweepCloses, SweepFrees, MainDone, ioVars, vars
<1>2. DataTypes
  BY DEF DataInv
<1>3. /\ sock' \in [Keys -> Clients \cup {NULL}]
      /\ \A j \in Keys : sock'[j] \in {sock[j], NULL}
  BY <1>1, <1>2, SockTyped
<1>4. DataTypes'
  BY <1>1, <1>2, <1>3, QuietTyped DEF DataTypes, Context
<1>5. QED
  BY <1>1, <1>3, <1>4, QuietData

LEMMA DataInit == Init => DataInv
<1> SUFFICES ASSUME Init PROVE DataInv
  OBVIOUS
<1>1. /\ io = [k \in Keys |-> IF k = Listen THEN "pending" ELSE "none"]
      /\ res = [k \in Keys |-> NoResult] /\ sock = [k \in Keys |-> NULL]
      /\ ctx = [k \in Keys |-> Zeroed] /\ pc = [w \in Workers |-> "wait"]
      /\ backlog = <<>> /\ taken = [k \in Clients |-> 0] /\ rcvd = [k \in Clients |-> <<>>]
      /\ peer = [k \in Clients |-> "new"]
  BY DEF Init
<1>2. Zeroed \in [op : Ops, total : Nat, sent : Nat, buf : Seq(Units)]
  BY EmptySeq DEF Zeroed, Ops
<1>3. NoResult \in [ok : BOOLEAN, n : Nat]
  BY DEF NoResult
<1>4. DataTypes
  <2> HIDE DEF Zeroed, NoResult
  <2>1. QED
    BY <1>1, <1>2, <1>3, EmptySeq DEF DataTypes
<1>5. Len(<<>>) = 0
  BY EmptySeq
<1>6. EchoInOrder /\ OneEach
  BY <1>1, <1>5 DEF EchoInOrder, OneEach, Keys
<1>7. WaitingUntouched
  <2>1. /\ \A k \in Clients : taken[k] = 0 /\ rcvd[k] = <<>>
        /\ \A k \in Clients, key \in Keys : sock[key] # k
    BY <1>1, EchoServerAssumption
  <2>2. 1..Len(backlog) = {}
    BY <1>1, <1>5
  <2>3. QED
    BY <2>1, <2>2 DEF WaitingUntouched
<1>8. ListenOwes /\ \A c \in Ctx : CtxOwes(c)
  BY <1>1 DEF ListenOwes, CtxOwes, Keys
<1>9. ASSUME NEW w \in Workers
      PROVE  HandOwes(w) /\ NewOwes(w)
  BY <1>1 DEF HandOwes, NewOwes
<1>10. QED
  BY <1>4, <1>6, <1>7, <1>8, <1>9 DEF DataInv

LEMMA DataNext == OwnerInv /\ ClientsOnly /\ DataInv /\ [Next]_vars => DataInv'
<1> SUFFICES ASSUME OwnerInv, ClientsOnly, DataInv, [Next]_vars PROVE DataInv'
  OBVIOUS
<1>1. CASE Network
  BY <1>1, PeerData, AcceptCompletesData, RecvCompletesData, SendCompletesData, AbortsData DEF Network
<1>2. CASE \E w \in Workers : DequeueQuit(w) \/ PortGone(w) \/ \E key \in Keys : Dequeue(w, key)
  BY <1>2, IdleData, DequeueData
<1>3. ASSUME NEW w \in Workers, Works(w)
      PROVE  DataInv'
  <2>1. CASE Accepting(w)
    BY <2>1, AcceptData, AllocateData, AcceptPostData, CloseData, RearmData DEF Accepting
  <2>2. QED
    BY <1>3, <2>1, CheckData, ReadDoneData, WriteDoneData, IdleData, CloseData DEF Works
<1>4. CASE CtrlEnd \/ CtrlEvent \/ MainNext \/ UNCHANGED vars
  BY <1>4, EndData
<1>5. QED
  BY <1>1, <1>2, <1>3, <1>4 DEF Next

(***************************************************************************)
(* WorkerThread echoes: whatever the sizes receives and sends complete     *)
(* with, and whichever workers take the packets, a client gets back its    *)
(* stream in order, save what StringCbCopyN cuts off a first block.        *)
(***************************************************************************)
THEOREM EchoInOrderHolds == Spec => []EchoInOrder
<1>1. DataInv => EchoInOrder
  BY DEF DataInv
<1>2. QED
  BY <1>1, ChainInit, OwnerInit, OwnerNext, ChainNext, DataInit, DataNext, PTL DEF Spec

=============================================================================
