------------------------------ MODULE MPSCQueue ------------------------------
(***************************************************************************)
(* The lock-free queues of MPSCQueue.h, for many producers and one         *)
(* consumer.  The non-intrusive queue allocates a node for every item and  *)
(* keeps one node more than items; the intrusive queue links the items     *)
(* themselves and keeps a dummy, which the consumer puts back behind the   *)
(* last item.  The alias MPSCQueue (line 151) chooses one of them: the     *)
(* variable intrusive.                                                     *)
(*                                                                         *)
(* One action per access to memory that another thread uses: the exchange  *)
(* of _head, the store and the loads of a link.  _tail is the consumer's   *)
(* alone.  Accesses are sequentially consistent here; the code orders them *)
(* with acquire and release.                                               *)
(*                                                                         *)
(* Nodes are addresses.  A node that was deleted, or an item that was      *)
(* handed out, may be used again at once.  Locals out of scope are Null.   *)
(***************************************************************************)
EXTENDS Naturals, Sequences

CONSTANTS
  Producers,  \* the threads that call Enqueue
  Consumer,   \* the thread that calls Dequeue
  Nodes,      \* addresses of nodes; the items, in the intrusive queue
  Dummy,      \* the node both queues begin with; _dummyPtr
  Null,       \* nullptr
  Values      \* Data of the non-intrusive queue

ASSUME MPSCQueueAssumption ==
  /\ Consumer \notin Producers
  /\ Dummy \in Nodes /\ Null \notin Nodes

Threads == Producers \union {Consumer}

VARIABLES
  intrusive,  \* which of the two queues
  head,       \* _head
  tail,       \* _tail
  next,       \* the link of every node
  data,       \* Data of every node; the item itself in the intrusive queue
  used,       \* nodes that are allocated; items that were given to the queue
  pc,         \* what a thread is about to do
  node,       \* the node Enqueue puts in
  prev,       \* prevHead of Enqueue
  got,        \* next of Dequeue, once it is not null
  order,      \* history: the nodes from _tail to _head as they were put in
  call        \* history: whether the consumer may answer "none" (FifoQueue)

linkVars == <<head, tail, next, data, used>>
localVars == <<pc, node, prev, got>>
mpscVars == <<intrusive, linkVars, localVars, order, call>>

(* Producers between the exchange of _head and the store of the link. *)
Linking == {p \in Producers : pc[p] = "link"}

(* The dummy is among the first n of the intrusive queue. *)
Passed(seq, n) == \E i \in 1..n : seq[i] = Dummy
Without(seq) == \* seq without the dummy
  IF ~Passed(seq, Len(seq)) THEN seq
  ELSE [i \in 1..Len(seq) - 1 |-> IF Passed(seq, i) THEN seq[i + 1] ELSE seq[i]]

Contents(seq) == \* the items that are in the queue
  IF intrusive THEN Without(seq) ELSE [i \in 1..Len(seq) - 1 |-> data[seq[i + 1]]]

F == INSTANCE FifoQueue WITH Putters <- Producers, Values <- Values \union Nodes,
       queue <- Contents(order), putting <- Linking

MPSCInit ==
  /\ intrusive \in BOOLEAN
  /\ head = Dummy /\ tail = Dummy
  /\ next = [n \in Nodes |-> Null] /\ data = [n \in Nodes |-> n]
  /\ used = {Dummy}
  /\ pc = [t \in Threads |-> "idle"]
  /\ node = [t \in Threads |-> Null] /\ prev = [t \in Threads |-> Null]
  /\ got = Null /\ order = <<Dummy>> /\ call = "none"

Goto(t, where) == pc' = [pc EXCEPT ![t] = where]

-----------------------------------------------------------------------------
(* Enqueue.  The intrusive Dequeue calls it, too, for its dummy. *)

(* new Node(input), or the reset of the link of an item that is in no queue. *)
Prepare(p) ==
  /\ pc[p] = "idle" /\ Goto(p, "exchange")
  /\ \E n \in Nodes \ used, v \in Values :
       /\ intrusive => n # Dummy
       /\ used' = used \union {n} /\ node' = [node EXCEPT ![p] = n]
       /\ next' = [next EXCEPT ![n] = Null]
       /\ data' = [data EXCEPT ![n] = IF intrusive THEN n ELSE v]
  /\ UNCHANGED <<intrusive, head, tail, prev, got, order, call>>

Exchange(t) ==
  /\ pc[t] = "exchange" /\ Goto(t, "link")
  /\ head' = node[t] /\ prev' = [prev EXCEPT ![t] = head]
  /\ order' = Append(order, node[t])
  /\ call' = IF call = "running" /\ t # Consumer THEN "excused" ELSE call
  /\ UNCHANGED <<intrusive, tail, next, data, used, node, got>>

Link(t) ==
  /\ pc[t] = "link" /\ Goto(t, IF t = Consumer THEN "recheck" ELSE "idle")
  /\ next' = [next EXCEPT ![prev[t]] = node[t]]
  /\ node' = [node EXCEPT ![t] = Null] /\ prev' = [prev EXCEPT ![t] = Null]
  /\ UNCHANGED <<intrusive, head, tail, data, used, got, order, call>>

-----------------------------------------------------------------------------
(* Dequeue. *)

Begin ==
  /\ pc[Consumer] = "idle" /\ Goto(Consumer, "load")
  /\ call' = IF Contents(order) = <<>> \/ Linking # {} THEN "excused" ELSE "running"
  /\ UNCHANGED <<intrusive, linkVars, node, prev, got, order>>

Fails == Goto(Consumer, "idle") /\ call' = "none" /\ UNCHANGED got
Found == Goto(Consumer, "take") /\ got' = next[tail] /\ UNCHANGED call

Load == \* of the link of the node at _tail
  /\ pc[Consumer] = "load"
  /\ UNCHANGED <<intrusive, head, next, data, used, node, prev>>
  /\ \/ /\ next[tail] = Null /\ (intrusive => tail = Dummy)
        /\ Fails /\ UNCHANGED <<tail, order>>
     \/ /\ next[tail] = Null /\ intrusive /\ tail # Dummy
        /\ Goto(Consumer, "compare") /\ UNCHANGED <<tail, got, order, call>>
     \/ /\ next[tail] # Null /\ ~(intrusive /\ tail = Dummy)
        /\ Found /\ UNCHANGED <<tail, order>>
     \/ /\ next[tail] # Null /\ intrusive /\ tail = Dummy \* the dummy is passed
        /\ tail' = next[tail] /\ order' = Tail(order)
        /\ Goto(Consumer, "load item") /\ UNCHANGED <<got, call>>

\* Fault: a null link is taken for the dummy not being there.
LoadItemForgets ==
  /\ pc[Consumer] = "load item"
  /\ IF next[tail] = Null THEN Fails ELSE Found
  /\ UNCHANGED <<intrusive, linkVars, node, prev, order>>

LoadItem ==
  /\ pc[Consumer] = "load item"
  /\ IF next[tail] = Null THEN Goto(Consumer, "compare") /\ UNCHANGED <<got, call>> ELSE Found
  /\ UNCHANGED <<intrusive, linkVars, node, prev, order>>

\* Fault: no comparison.
CompareSkipped ==
  /\ pc[Consumer] = "compare"
  /\ Goto(Consumer, "requeue")
  /\ UNCHANGED <<got, call, intrusive, linkVars, node, prev, order>>

\* Fault: the call waits until the producers behind are out of the way.
CompareWaits ==
  /\ pc[Consumer] = "compare" /\ tail = head
  /\ Goto(Consumer, "requeue")
  /\ UNCHANGED <<got, call, intrusive, linkVars, node, prev, order>>

Compare == \* with _head
  /\ pc[Consumer] = "compare"
  /\ IF tail = head THEN Goto(Consumer, "requeue") /\ UNCHANGED <<got, call>> ELSE Fails
  /\ UNCHANGED <<intrusive, linkVars, node, prev, order>>

Requeue == \* Enqueue(_dummyPtr)
  /\ pc[Consumer] = "requeue" /\ Goto(Consumer, "exchange")
  /\ node' = [node EXCEPT ![Consumer] = Dummy] /\ next' = [next EXCEPT ![Dummy] = Null]
  /\ UNCHANGED <<intrusive, head, tail, data, used, prev, got, order, call>>

Recheck ==
  /\ pc[Consumer] = "recheck"
  /\ IF next[tail] = Null THEN Fails ELSE Found
  /\ UNCHANGED <<intrusive, linkVars, node, prev, order>>

(* The item is handed out and the node at _tail is deleted; in the intrusive *)
(* queue the node at _tail is the item.                                      *)
Take ==
  /\ pc[Consumer] = "take" /\ Goto(Consumer, "idle") /\ call' = "none"
  /\ tail' = got /\ got' = Null /\ order' = Tail(order)
  /\ used' = used \ {tail} /\ data' = [data EXCEPT ![tail] = tail]
  /\ UNCHANGED <<intrusive, head, next, node, prev>>

-----------------------------------------------------------------------------
Dequeues == Load \/ LoadItem \/ Compare \/ Requeue \/ Exchange(Consumer)
            \/ Link(Consumer) \/ Recheck \/ Take
Enqueues(p) == Exchange(p) \/ Link(p)

MPSCNext == Begin \/ Dequeues \/ \E p \in Producers : Prepare(p) \/ Enqueues(p)

(* A call that has begun goes on. *)
MPSCFairness == WF_mpscVars(Dequeues) /\ \A p \in Producers : WF_mpscVars(Enqueues(p))

MPSCSpec == MPSCInit /\ [][MPSCNext]_mpscVars /\ MPSCFairness

-----------------------------------------------------------------------------
(* Node b was put in right behind node a: linked, or about to be. *)
Follows(a, b) ==
  \/ next[a] = b
  \/ next[a] = Null /\ \E t \in Threads : pc[t] = "link" /\ prev[t] = a /\ node[t] = b

(***************************************************************************)
(* From _tail to _head the links are those of the order of the exchanges,  *)
(* but for links a thread is about to store; and such a store goes to a    *)
(* node that is still in the queue, neither deleted nor handed out         *)
(* (MPSCQueue.h 37-38, 98-99).                                             *)
(***************************************************************************)
ChainIntact ==
  /\ order # <<>> /\ tail = order[1] /\ head = order[Len(order)]
  /\ next[head] = Null
  /\ \A i \in 1..Len(order) - 1 : Follows(order[i], order[i + 1])
  /\ \A t \in Threads : pc[t] = "link" =>
       \E i \in 1..Len(order) - 1 : order[i] = prev[t] /\ order[i + 1] = node[t]

(***************************************************************************)
(* Either queue is a FifoQueue: items come out once and in the order of    *)
(* the exchanges, and Dequeue answers "none" only when it was empty or a   *)
(* put was in progress (MPSCQueue.h 41-52, 102-136).                       *)
(***************************************************************************)
ImplementsFifo == F!Safety

(***************************************************************************)
(* Every call of either queue returns, whatever other threads do: Dequeue  *)
(* does not wait for the link of a producer (lines 125, 135).              *)
(***************************************************************************)
CallsReturn == F!Liveness

=============================================================================
