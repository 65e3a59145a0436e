--------------------------- MODULE MPSCQueueProofs ---------------------------
(***************************************************************************)
(* Proofs about MPSCQueue, both variants, for any threads and nodes.       *)
(*                                                                         *)
(* The links are those of the order of the exchanges because a node has    *)
(* one place: it is free, or with the one thread that prepares it          *)
(* (Prepared), or in the order, once (Once, InUse), and its link is stored *)
(* at most once, by the thread that exchanged _head with its successor     *)
(* (Unlinked). The dummy of the intrusive queue is put back only when it   *)
(* is out of the order (Consuming).                                        *)
(*                                                                         *)
(* From that, the nodes in order without the dummy, or their data, are the *)
(* queue of FifoQueue: the exchange of _head is its Put, handing out the   *)
(* item its Take. A call that answers "none" at a null link is excused,    *)
(* for the order then has one node or its next link is a producer's to     *)
(* store (Linked, Alone, Answering).                                       *)
(***************************************************************************)
EXTENDS MPSCQueue, SequenceTheorems, TLAPS

InOrder(n) == \E i \in 1..Len(order) : order[i] = n
Inside == {"load item", "compare", "requeue", "exchange", "link", "recheck"}

MPSCTypeOK ==
  /\ head \in Nodes /\ tail \in Nodes /\ used \subseteq Nodes /\ order \in Seq(Nodes)
  /\ next \in [Nodes -> Nodes \union {Null}]
  /\ pc = [t \in Threads |-> pc[t]]
  /\ node = [t \in Threads |-> node[t]] /\ prev = [t \in Threads |-> prev[t]]
  /\ \A p \in Producers : pc[p] \in {"idle", "exchange", "link"}

Once == \A i, j \in 1..Len(order) : order[i] = order[j] => i = j
InUse == (\A i \in 1..Len(order) : order[i] \in used) /\ (intrusive => Dummy \in used)
Prepared ==
  \A t \in Threads : pc[t] = "exchange" =>
    node[t] \in used /\ next[node[t]] = Null /\ ~InOrder(node[t])
Apart ==
  \A t, u \in Threads :
    t # u /\ {pc[t], pc[u]} \subseteq {"exchange", "link"} => node[t] # node[u]
Unlinked == \A t \in Threads : pc[t] = "link" => next[prev[t]] = Null
Undummied ==
  intrusive => \A p \in Producers : pc[p] \in {"exchange", "link"} => node[p] # Dummy
Consuming ==
  /\ pc[Consumer] \in Inside => intrusive
  /\ pc[Consumer] \in Inside \union {"take"} /\ intrusive => tail # Dummy
  /\ pc[Consumer] = "requeue" => ~InOrder(Dummy)
  /\ pc[Consumer] = "take" => got = next[tail] /\ got \in Nodes

MPSCInv ==
  /\ MPSCTypeOK /\ ChainIntact
  /\ Once /\ InUse /\ Prepared /\ Apart /\ Unlinked /\ Undummied /\ Consuming

-----------------------------------------------------------------------------
\* One element more at the end, one less in front.
LEMMA AppendFacts ==
  ASSUME NEW S, NEW s \in Seq(S), NEW e \in S
  PROVE  /\ Append(s, e) \in Seq(S) /\ Append(s, e) # <<>> /\ Len(s) \in Nat
         /\ Len(Append(s, e)) = Len(s) + 1 /\ Append(s, e)[Len(s) + 1] = e
         /\ \A i \in 1..Len(s) : Append(s, e)[i] = s[i]
OBVIOUS

LEMMA TailFacts ==
  ASSUME NEW S, NEW s \in Seq(S), s # <<>>
  PROVE  /\ Tail(s) \in Seq(S) /\ Len(s) \in Nat \ {0} /\ Len(Tail(s)) = Len(s) - 1
         /\ \A i \in 1..Len(s) - 1 : Tail(s)[i] = s[i + 1]
OBVIOUS

LEMMA Places ==
  ASSUME MPSCTypeOK
  PROVE  Len(order) \in Nat /\ (order # <<>> => Len(order) >= 1)
         /\ \A i \in 1..Len(order) : order[i] \in Nodes
BY DEF MPSCTypeOK

\* The queue begins with the dummy.
LEMMA MPSCInitInv == MPSCInit => MPSCInv
<1> SUFFICES ASSUME MPSCInit PROVE MPSCInv
  OBVIOUS
<1> USE MPSCQueueAssumption
<1>1. /\ order = <<Dummy>> /\ Len(order) = 1 /\ order[1] = Dummy
      /\ head = Dummy /\ tail = Dummy /\ used = {Dummy}
      /\ \A t \in Threads : pc[t] = "idle"
      /\ next[Dummy] = Null
  BY DEF MPSCInit
<1>2. Consumer \in Threads /\ Producers \subseteq Threads
  BY DEF Threads
<1>3. MPSCTypeOK
  BY <1>1, <1>2 DEF MPSCInit, MPSCTypeOK
<1>4. ChainIntact
  BY <1>1 DEF ChainIntact
<1>5. Once /\ InUse
  BY <1>1 DEF Once, InUse
<1>6. Prepared /\ Apart /\ Unlinked /\ Undummied
  BY <1>1, <1>2 DEF Prepared, Apart, Unlinked, Undummied
<1>7. Consuming
  BY <1>1, <1>2 DEF Consuming, Inside
<1>8. QED
  BY <1>3, <1>4, <1>5, <1>6, <1>7 DEF MPSCInv

-----------------------------------------------------------------------------
\* A thread at its next statement.
LEMMA GotoPc ==
  ASSUME MPSCTypeOK, NEW t \in Threads, NEW l, Goto(t, l)
  PROVE  /\ pc' = [u \in Threads |-> pc'[u]] /\ pc'[t] = l
         /\ \A u \in Threads \ {t} : pc'[u] = pc[u]
BY DEF MPSCTypeOK, Goto

\* What follows in the next state; it still does when neither the link nor the
\* thread that is to store it changes.
FollowsNext(a, b) ==
  \/ next'[a] = b
  \/ next'[a] = Null /\ \E t \in Threads : pc'[t] = "link" /\ prev'[t] = a /\ node'[t] = b

LEMMA FollowsKept ==
  ASSUME NEW a, NEW b, Follows(a, b), next'[a] = next[a],
         \A t \in Threads : pc[t] = "link" /\ prev[t] = a =>
           pc'[t] = "link" /\ prev'[t] = prev[t] /\ node'[t] = node[t]
  PROVE  FollowsNext(a, b)
BY DEF Follows, FollowsNext

LEMMA ChainNext ==
  ASSUME order' # <<>>, tail' = order'[1], head' = order'[Len(order')], next'[head'] = Null,
         \A i \in 1..Len(order') - 1 : FollowsNext(order'[i], order'[i + 1]),
         \A t \in Threads : pc'[t] = "link" =>
           \E i \in 1..Len(order') - 1 : order'[i] = prev'[t] /\ order'[i + 1] = node'[t]
  PROVE  ChainIntact'
BY DEF ChainIntact, Follows, FollowsNext

\* A producer takes a node that is free.
LEMMA PrepareInv ==
  ASSUME MPSCInv, NEW p \in Producers, Prepare(p)
  PROVE  MPSCInv'
<1> USE MPSCQueueAssumption
<1>1. p \in Threads /\ Consumer \in Threads /\ p # Consumer /\ Producers \subseteq Threads
  BY DEF Threads
<1>2. PICK n \in Nodes \ used :
        /\ intrusive => n # Dummy
        /\ used' = used \union {n} /\ node' = [node EXCEPT ![p] = n]
        /\ next' = [next EXCEPT ![n] = Null]
  BY DEF Prepare
<1>3. /\ pc[p] = "idle" /\ Goto(p, "exchange")
      /\ UNCHANGED <<intrusive, head, tail, prev, got, order>>
  BY DEF Prepare
<1>4. MPSCTypeOK /\ ChainIntact /\ InUse
  BY DEF MPSCInv
<1>5. /\ pc' = [u \in Threads |-> pc'[u]] /\ pc'[p] = "exchange"
      /\ \A u \in Threads \ {p} : pc'[u] = pc[u]
  BY <1>1, <1>3, <1>4, GotoPc
<1>6. /\ node' = [u \in Threads |-> node'[u]] /\ node'[p] = n
      /\ \A u \in Threads \ {p} : node'[u] = node[u]
  BY <1>1, <1>2, <1>4 DEF MPSCTypeOK
<1>7. /\ next' \in [Nodes -> Nodes \union {Null}] /\ next'[n] = Null
      /\ \A m \in Nodes \ {n} : next'[m] = next[m]
  BY <1>2, <1>4 DEF MPSCTypeOK
<1>8. /\ Len(order) \in Nat \ {0} /\ \A i \in 1..Len(order) : order[i] \in Nodes /\ order[i] # n
  BY <1>2, <1>4, Places DEF InUse, ChainIntact
<1>9. MPSCTypeOK'
  <2>1. used' \subseteq Nodes
    BY <1>2, <1>4 DEF MPSCTypeOK
  <2>2. \A q \in Producers : pc'[q] \in {"idle", "exchange", "link"}
    BY <1>1, <1>4, <1>5 DEF MPSCTypeOK
  <2>3. /\ head' = head /\ tail' = tail /\ order' = order /\ prev' = prev
        /\ head \in Nodes /\ tail \in Nodes /\ order \in Seq(Nodes) /\ prev = [u \in Threads |-> prev[u]]
    BY <1>3, <1>4 DEF MPSCTypeOK
  <2>4. prev' = [u \in Threads |-> prev'[u]]
    BY <2>3
  <2>5. QED
    BY <1>5, <1>6, <1>7, <2>1, <2>2, <2>3, <2>4, Zenon DEF MPSCTypeOK
<1>10. \A u \in Threads : pc'[u] = "link" => u # p /\ pc[u] = "link" /\ node'[u] = node[u] /\ prev'[u] = prev[u]
  BY <1>3, <1>5, <1>6
<1>11. \A i \in 1..Len(order) - 1 : next'[order[i]] = next[order[i]]
  BY <1>7, <1>8
<1>12. \A i \in 1..Len(order) - 1 : FollowsNext(order[i], order[i + 1])
  <2>1. \A u \in Threads : pc[u] = "link" =>
          pc'[u] = "link" /\ prev'[u] = prev[u] /\ node'[u] = node[u]
    BY <1>3, <1>5, <1>6
  <2>2. \A i \in 1..Len(order) - 1 : Follows(order[i], order[i + 1])
    BY <1>4 DEF ChainIntact
  <2>3. QED
    BY <1>3, <1>11, <2>1, <2>2, FollowsKept
<1>13. \A u \in Threads : pc'[u] = "link" =>
         \E i \in 1..Len(order) - 1 : order[i] = prev'[u] /\ order[i + 1] = node'[u]
  BY <1>4, <1>10 DEF ChainIntact
<1>14. ChainIntact'
  <2>1. tail = order[1] /\ head = order[Len(order)] /\ next'[head] = Null /\ order # <<>>
    BY <1>4, <1>7, <1>8 DEF ChainIntact
  <2>2. QED
    BY <1>3, <1>12, <1>13, <2>1, ChainNext
<1>15. Once' /\ InUse'
  BY <1>2, <1>3 DEF MPSCInv, Once, InUse
<1>16. Prepared'
  BY <1>2, <1>3, <1>5, <1>6, <1>7, <1>8 DEF MPSCInv, Prepared, InOrder, MPSCTypeOK
<1>17. Apart'
  <2>1. \A u \in Threads : pc[u] \in {"exchange", "link"} => node[u] \in used
    BY <1>4, <1>8 DEF MPSCInv, Prepared, InUse, ChainIntact
  <2>2. QED
    BY <1>2, <1>5, <1>6, <2>1 DEF MPSCInv, Apart
<1>18. Unlinked'
  BY <1>10, <1>7, <1>13, <1>8 DEF MPSCInv, Unlinked
<1>19. Undummied'
  BY <1>1, <1>2, <1>3, <1>5, <1>6 DEF MPSCInv, Undummied
<1>20. Consuming'
  <2>1. tail # n /\ tail \in Nodes
    BY <1>4, <1>8 DEF ChainIntact, MPSCTypeOK
  <2>2. next'[tail] = next[tail] /\ pc'[Consumer] = pc[Consumer]
    BY <1>1, <1>5, <1>7, <2>1
  <2>3. Consuming
    BY DEF MPSCInv
  <2>4. QED
    BY <1>3, <2>2, <2>3 DEF Consuming, InOrder
<1>21. QED
  BY <1>9, <1>14, <1>15, <1>16, <1>17, <1>18, <1>19, <1>20 DEF MPSCInv

\* The exchange of _head.
LEMMA ExchangeInv ==
  ASSUME MPSCInv, NEW t \in Threads, Exchange(t)
  PROVE  MPSCInv'
<1> USE MPSCQueueAssumption
<1> DEFINE last == Len(order)
<1>1. Consumer \in Threads /\ Producers \subseteq Threads /\ \A u \in Threads : u # Consumer => u \in Producers
  BY DEF Threads
<1>2. /\ pc[t] = "exchange" /\ Goto(t, "link")
      /\ head' = node[t] /\ prev' = [prev EXCEPT ![t] = head]
      /\ order' = Append(order, node[t])
      /\ UNCHANGED <<intrusive, tail, next, used, node, got>>
  BY DEF Exchange
<1>3. MPSCTypeOK /\ ChainIntact /\ InUse /\ Prepared /\ Once
  BY DEF MPSCInv
<1>4. /\ pc' = [u \in Threads |-> pc'[u]] /\ pc'[t] = "link"
      /\ \A u \in Threads \ {t} : pc'[u] = pc[u]
  BY <1>2, <1>3, GotoPc
<1>5. /\ prev' = [u \in Threads |-> prev'[u]] /\ prev'[t] = head
      /\ \A u \in Threads \ {t} : prev'[u] = prev[u]
  BY <1>2, <1>3 DEF MPSCTypeOK
<1>6. node[t] \in used /\ node[t] \in Nodes /\ next[node[t]] = Null /\ ~InOrder(node[t])
  BY <1>2, <1>3 DEF Prepared, MPSCTypeOK
<1>7. /\ last \in Nat \ {0} /\ order[last] = head /\ order[1] = tail /\ next[head] = Null
      /\ \A i \in 1..last : order[i] \in Nodes /\ order[i] # node[t]
  BY <1>3, <1>6, Places DEF ChainIntact, InOrder
<1>8. /\ order' \in Seq(Nodes) /\ order' # <<>> /\ Len(order') = last + 1 /\ order'[last + 1] = node[t]
      /\ \A i \in 1..last : order'[i] = order[i]
  <2>1. order \in Seq(Nodes)
    BY <1>3 DEF MPSCTypeOK
  <2>2. /\ Append(order, node[t]) \in Seq(Nodes) /\ Append(order, node[t]) # <<>>
        /\ Len(Append(order, node[t])) = Len(order) + 1
        /\ Append(order, node[t])[Len(order) + 1] = node[t]
        /\ \A i \in 1..Len(order) : Append(order, node[t])[i] = order[i]
    BY <1>6, <2>1, AppendFacts
  <2>3. QED
    BY <1>2, <2>2
<1> HIDE DEF last
<1>9. MPSCTypeOK'
  BY <1>1, <1>2, <1>3, <1>4, <1>5, <1>6, <1>8 DEF MPSCTypeOK
<1>10. \A i \in 1..last : FollowsNext(order'[i], order'[i + 1])
  <2>1. ASSUME NEW i \in 1..last, i # last
        PROVE  FollowsNext(order'[i], order'[i + 1])
    <3>1. i \in 1..last - 1 /\ i + 1 \in 1..last
      BY <1>7, <2>1
    <3>2. Follows(order[i], order[i + 1])
      BY <1>3, <3>1 DEF ChainIntact, last
    <3>3. \A u \in Threads : pc[u] = "link" =>
            pc'[u] = "link" /\ prev'[u] = prev[u] /\ node'[u] = node[u]
      BY <1>2, <1>4, <1>5
    <3>4. FollowsNext(order[i], order[i + 1])
      BY <1>2, <3>2, <3>3, FollowsKept
    <3>5. QED
      BY <1>8, <3>1, <3>4
  <2>2. FollowsNext(head, node[t])
    BY <1>2, <1>4, <1>5, <1>7 DEF FollowsNext
  <2>3. QED
    BY <1>7, <1>8, <2>1, <2>2
<1>11. ASSUME NEW u \in Threads, pc'[u] = "link"
       PROVE  \E i \in 1..last : order'[i] = prev'[u] /\ order'[i + 1] = node'[u]
  <2>1. CASE u = t
    BY <1>2, <1>5, <1>7, <1>8, <2>1
  <2>2. CASE u # t
    <3>1. PICK i \in 1..last - 1 : order[i] = prev[u] /\ order[i + 1] = node[u]
      BY <1>3, <1>4, <1>11, <2>2 DEF ChainIntact, last
    <3>2. i \in 1..last /\ i + 1 \in 1..last
      BY <1>7
    <3>3. QED
      BY <1>2, <1>5, <1>8, <2>2, <3>1, <3>2
  <2>3. QED
    BY <2>1, <2>2
<1>12. ChainIntact'
  <2>1. Len(order') - 1 = last /\ 1 \in 1..last
    BY <1>7, <1>8
  <2>2. tail' = order'[1] /\ head' = order'[Len(order')] /\ next'[head'] = Null
    BY <1>2, <1>6, <1>7, <1>8, <2>1
  <2>3. QED
    BY <1>8, <1>10, <1>11, <2>1, <2>2, ChainNext
<1>13. \A i \in 1..Len(order') : order'[i] = node[t] <=> i = last + 1
  BY <1>7, <1>8
<1>14. \A i \in 1..Len(order') : i # last + 1 => i \in 1..last
  BY <1>7, <1>8
<1>15. Once' /\ InUse'
  <2>1. \A i, j \in 1..Len(order') : order'[i] = order'[j] => i = j
    BY <1>3, <1>8, <1>13, <1>14 DEF Once, last
  <2>2. \A i \in 1..Len(order') : order'[i] \in used
    BY <1>3, <1>6, <1>8, <1>13, <1>14 DEF InUse, last
  <2>3. QED
    BY <1>2, <1>3, <2>1, <2>2 DEF Once, InUse
<1>16. \A n : InOrder(n)' => InOrder(n) \/ n = node[t]
  BY <1>8, <1>13, <1>14 DEF InOrder, last
<1>17. Apart
  BY DEF MPSCInv
<1>18. Prepared'
  BY <1>2, <1>3, <1>4, <1>16, <1>17 DEF Prepared, Apart
<1>19. Apart'
  BY <1>2, <1>4, <1>17 DEF Apart
<1>20. Unlinked'
  BY <1>2, <1>4, <1>5, <1>7 DEF MPSCInv, Unlinked
<1>21. Undummied'
  BY <1>1, <1>2, <1>4 DEF MPSCInv, Undummied
<1>22. Consuming'
  <2>1. Consuming /\ Undummied
    BY DEF MPSCInv
  <2>2. CASE t = Consumer
    BY <1>2, <1>4, <2>1, <2>2 DEF Consuming, Inside
  <2>3. CASE t # Consumer
    <3>1. pc'[Consumer] = pc[Consumer]
      BY <1>1, <1>4, <2>3
    <3>2. intrusive => node[t] # Dummy
      BY <1>1, <1>2, <2>1, <2>3 DEF Undummied
    <3>3. intrusive /\ ~InOrder(Dummy) => ~InOrder(Dummy)'
      BY <1>16, <3>2
    <3>4. QED
      BY <1>2, <2>1, <3>1, <3>3 DEF Consuming, Inside
  <2>4. QED
    BY <2>2, <2>3
<1>23. QED
  BY <1>9, <1>12, <1>15, <1>18, <1>19, <1>20, <1>21, <1>22 DEF MPSCInv

\* The store of the link.
LEMMA LinkInv ==
  ASSUME MPSCInv, NEW t \in Threads, Link(t)
  PROVE  MPSCInv'
<1> USE MPSCQueueAssumption
<1>1. Consumer \in Threads /\ Producers \subseteq Threads
  BY DEF Threads
<1>2. /\ pc[t] = "link" /\ Goto(t, IF t = Consumer THEN "recheck" ELSE "idle")
      /\ next' = [next EXCEPT ![prev[t]] = node[t]]
      /\ node' = [node EXCEPT ![t] = Null] /\ prev' = [prev EXCEPT ![t] = Null]
      /\ UNCHANGED <<intrusive, head, tail, used, got, order>>
  BY DEF Link
<1>3. MPSCTypeOK /\ ChainIntact /\ Once /\ Prepared /\ Apart /\ Unlinked /\ Undummied /\ Consuming
  BY DEF MPSCInv
<1>4. /\ pc' = [u \in Threads |-> pc'[u]] /\ pc'[t] = IF t = Consumer THEN "recheck" ELSE "idle"
      /\ \A u \in Threads \ {t} : pc'[u] = pc[u]
  BY <1>2, <1>3, GotoPc
<1>5. /\ prev' = [u \in Threads |-> prev'[u]] /\ \A u \in Threads \ {t} : prev'[u] = prev[u]
      /\ node' = [u \in Threads |-> node'[u]] /\ \A u \in Threads \ {t} : node'[u] = node[u]
  BY <1>2, <1>3 DEF MPSCTypeOK
<1>6. PICK k \in 1..Len(order) - 1 : order[k] = prev[t] /\ order[k + 1] = node[t]
  BY <1>2, <1>3 DEF ChainIntact
<1>7. /\ Len(order) \in Nat \ {0} /\ \A i \in 1..Len(order) : order[i] \in Nodes
      /\ k \in 1..Len(order) /\ k + 1 \in 1..Len(order) /\ k # Len(order)
      /\ prev[t] \in Nodes /\ node[t] \in Nodes
  BY <1>3, <1>6, Places DEF ChainIntact
<1>8. /\ next' \in [Nodes -> Nodes \union {Null}] /\ next'[prev[t]] = node[t]
      /\ \A m \in Nodes \ {prev[t]} : next'[m] = next[m]
  BY <1>2, <1>3, <1>7 DEF MPSCTypeOK
<1>9. MPSCTypeOK'
  <2>1. \A p \in Producers : pc'[p] \in {"idle", "exchange", "link"}
    BY <1>1, <1>3, <1>4 DEF MPSCTypeOK
  <2>2. QED
    BY <1>2, <1>3, <1>4, <1>5, <1>8, <2>1 DEF MPSCTypeOK
<1>10. ASSUME NEW u \in Threads, pc'[u] = "link"
       PROVE  u # t /\ pc[u] = "link" /\ prev'[u] = prev[u] /\ node'[u] = node[u]
  BY <1>4, <1>5, <1>10
<1>11. ASSUME NEW i \in 1..Len(order) - 1
       PROVE  FollowsNext(order[i], order[i + 1])
  <2>1. CASE i = k
    BY <1>6, <1>8, <2>1 DEF FollowsNext
  <2>2. CASE i # k
    <3>1. i \in 1..Len(order) /\ order[i] \in Nodes /\ order[i] # prev[t]
      BY <1>3, <1>6, <1>7, <2>2 DEF Once
    <3>2. next'[order[i]] = next[order[i]]
      BY <1>8, <3>1
    <3>3. Follows(order[i], order[i + 1])
      BY <1>3 DEF ChainIntact
    <3>4. \A u \in Threads : pc[u] = "link" /\ prev[u] = order[i] =>
            pc'[u] = "link" /\ prev'[u] = prev[u] /\ node'[u] = node[u]
      BY <1>4, <1>5, <3>1
    <3>5. QED
      BY <3>2, <3>3, <3>4, FollowsKept
  <2>3. QED
    BY <2>1, <2>2
<1>12. head # prev[t]
  BY <1>3, <1>6, <1>7 DEF ChainIntact, Once
<1>13. ChainIntact'
  <2>1. next'[head] = Null
    BY <1>3, <1>8, <1>12 DEF ChainIntact, MPSCTypeOK
  <2>2. \A u \in Threads : pc'[u] = "link" =>
          \E i \in 1..Len(order) - 1 : order[i] = prev'[u] /\ order[i + 1] = node'[u]
    BY <1>3, <1>10 DEF ChainIntact
  <2>3. order # <<>> /\ tail = order[1] /\ head = order[Len(order)]
    BY <1>3 DEF ChainIntact
  <2>4. QED
    BY <1>2, <1>11, <2>1, <2>2, <2>3, ChainNext
<1>14. Once' /\ InUse'
  BY <1>2 DEF MPSCInv, Once, InUse
<1>15. Prepared'
  <2>1. ASSUME NEW u \in Threads, pc'[u] = "exchange"
        PROVE  pc[u] = "exchange" /\ u # t /\ node'[u] = node[u] /\ node[u] # prev[t]
    <3>1. u # t /\ pc[u] = "exchange"
      BY <1>4, <2>1
    <3>2. ~InOrder(node[u])
      BY <1>3, <3>1 DEF Prepared
    <3>3. InOrder(prev[t])
      BY <1>6, <1>7 DEF InOrder
    <3>4. QED
      BY <1>5, <3>1, <3>2, <3>3
  <2>2. ASSUME NEW u \in Threads, pc'[u] = "exchange"
        PROVE  node'[u] \in used /\ next'[node'[u]] = Null /\ ~InOrder(node'[u])
    <3>1. node[u] \in used /\ next[node[u]] = Null /\ ~InOrder(node[u]) /\ node[u] \in Nodes
      BY <1>3, <2>1, <2>2 DEF Prepared, MPSCTypeOK
    <3>2. QED
      BY <1>8, <2>1, <2>2, <3>1
  <2>3. \A n : InOrder(n)' = InOrder(n)
    BY <1>2 DEF InOrder
  <2>4. QED
    BY <1>2, <2>2, <2>3 DEF Prepared
<1>16. Apart'
  BY <1>3, <1>4, <1>5 DEF Apart
<1>17. Unlinked'
  <2>1. ASSUME NEW u \in Threads, pc'[u] = "link"
        PROVE  next'[prev'[u]] = Null
    <3>1. u # t /\ pc[u] = "link" /\ prev'[u] = prev[u] /\ node[u] # node[t]
      BY <1>2, <1>3, <1>10, <2>1 DEF Apart
    <3>2. PICK i \in 1..Len(order) - 1 : order[i] = prev[u] /\ order[i + 1] = node[u]
      BY <1>3, <3>1 DEF ChainIntact
    <3>3. i # k /\ i \in 1..Len(order)
      BY <1>6, <1>7, <3>1, <3>2
    <3>4. prev[u] # prev[t] /\ prev[u] \in Nodes
      BY <1>3, <1>6, <1>7, <3>2, <3>3 DEF Once
    <3>5. QED
      BY <1>3, <1>8, <3>1, <3>4 DEF Unlinked
  <2>2. QED
    BY <2>1 DEF Unlinked
<1>18. Undummied'
  BY <1>1, <1>2, <1>3, <1>4, <1>5 DEF Undummied
<1>19. Consuming'
  <2>1. CASE t = Consumer
    BY <1>2, <1>3, <1>4, <2>1 DEF Consuming, Inside
  <2>2. CASE t # Consumer
    <3>1. pc'[Consumer] = pc[Consumer]
      BY <1>1, <1>4, <2>2
    <3>2. tail \in Nodes /\ (next[tail] # Null => next'[tail] = next[tail])
      BY <1>2, <1>3, <1>8 DEF Unlinked, MPSCTypeOK
    <3>3. QED
      BY <1>2, <1>3, <3>1, <3>2 DEF Consuming, InOrder
  <2>3. QED
    BY <2>1, <2>2
<1>20. QED
  BY <1>9, <1>13, <1>14, <1>15, <1>16, <1>17, <1>18, <1>19 DEF MPSCInv

-----------------------------------------------------------------------------
\* The consumer goes on and changes nothing the producers see.
LEMMA ConsumerMoves ==
  ASSUME MPSCInv, NEW l, Goto(Consumer, l),
         pc[Consumer] \notin {"exchange", "link"}, l \notin {"exchange", "link"},
         UNCHANGED <<intrusive, head, tail, next, used, node, prev, order>>,
         l \in Inside => intrusive,
         l \in Inside \union {"take"} /\ intrusive => tail # Dummy,
         l = "requeue" => ~InOrder(Dummy),
         l = "take" => got' = next[tail] /\ got' \in Nodes
  PROVE  MPSCInv'
<1> USE MPSCQueueAssumption
<1>1. Consumer \in Threads /\ Producers \subseteq Threads
  BY DEF Threads
<1>2. MPSCTypeOK /\ ChainIntact /\ Once /\ InUse /\ Prepared /\ Apart /\ Unlinked /\ Undummied
  BY DEF MPSCInv
<1>3. /\ pc' = [u \in Threads |-> pc'[u]] /\ pc'[Consumer] = l
      /\ \A u \in Threads \ {Consumer} : pc'[u] = pc[u]
  BY <1>1, <1>2, GotoPc
<1>4. \A u \in Threads :
        /\ pc'[u] = "exchange" <=> pc[u] = "exchange"
        /\ pc'[u] = "link" <=> pc[u] = "link"
  BY <1>1, <1>3
<1>5. MPSCTypeOK'
  BY <1>1, <1>2, <1>3 DEF MPSCTypeOK
<1>6. ChainIntact'
  <2>1. \A i \in 1..Len(order) - 1 : FollowsNext(order[i], order[i + 1])
    <3>1. \A i \in 1..Len(order) - 1 : Follows(order[i], order[i + 1])
      BY <1>2 DEF ChainIntact
    <3>2. QED
      BY <1>4, <3>1, FollowsKept
  <2>2. QED
    BY <1>2, <1>4, <2>1, ChainNext DEF ChainIntact
<1>7. Once' /\ InUse'
  BY <1>2 DEF Once, InUse
<1>8. Prepared' /\ Unlinked'
  BY <1>2, <1>4 DEF Prepared, InOrder, Unlinked
<1>9. Apart' /\ Undummied'
  BY <1>1, <1>2, <1>4 DEF Apart, Undummied
<1>10. Consuming'
  BY <1>3 DEF Consuming, InOrder, Inside
<1>11. QED
  BY <1>5, <1>6, <1>7, <1>8, <1>9, <1>10 DEF MPSCInv

\* The places of a sequence of n elements, and of its tail.
LEMMA Positions ==
  ASSUME NEW n \in Nat, n # 0, n # 1
  PROVE  /\ 2 # 1 /\ n - 1 \in Nat /\ 1 \in 1..n - 1 /\ 1 \in 1..n /\ 2 \in 1..n /\ n \in 1..n
         /\ (n - 1) - 1 = n - 2 /\ (n - 1) + 1 = n /\ 1 + 1 = 2 /\ n - 1 # 0 /\ n - 1 \in 1..n - 1
         /\ \A i \in 1..n - 1 : i \in 1..n /\ i + 1 \in 1..n /\ i + 1 # 1
         /\ \A i \in 1..n - 2 : i \in 1..n - 1 /\ i + 1 \in 1..n - 1 /\ (i + 1) + 1 = i + 2
         /\ \A i \in 1..n - 1 : i # 1 => i - 1 \in 1..n - 2 /\ (i - 1) + 1 = i
         /\ \A i, j \in 1..n - 1 : i + 1 = j + 1 => i = j
OBVIOUS

\* A node whose link is stored is not the last one.
LEMMA Second ==
  ASSUME MPSCInv, next[tail] # Null
  PROVE  /\ Len(order) \in Nat /\ Len(order) # 0 /\ Len(order) # 1
         /\ next[tail] = order[2] /\ next[tail] \in Nodes
         /\ \A i \in 1..Len(order) : order[i] = tail => i = 1
<1>1. MPSCTypeOK /\ ChainIntact /\ Once
  BY DEF MPSCInv
<1>2. /\ Len(order) \in Nat /\ Len(order) # 0 /\ order[1] = tail
      /\ \A i \in 1..Len(order) : order[i] \in Nodes
  BY <1>1, Places DEF ChainIntact
<1>3. Len(order) # 1
  BY <1>1 DEF ChainIntact
<1>4. /\ 1 \in 1..Len(order) - 1 /\ 1 \in 1..Len(order) /\ 2 \in 1..Len(order) /\ 1 + 1 = 2
  BY <1>2, <1>3, Positions, Zenon
<1>5. next[tail] = order[2]
  <2>1. Follows(order[1], order[1 + 1])
    BY <1>1, <1>4, Zenon DEF ChainIntact
  <2>2. QED
    BY <1>2, <1>4, <2>1, Zenon DEF Follows
<1>6. \A i \in 1..Len(order) : order[i] = tail => i = 1
  BY <1>1, <1>2, <1>4 DEF Once
<1>7. QED
  BY <1>2, <1>3, <1>4, <1>5, <1>6, Zenon

\* _tail moves to the next node; the node it leaves may be freed.
LEMMA AdvanceInv ==
  ASSUME MPSCInv, NEW l \in {"load item", "idle"}, Goto(Consumer, l),
         pc[Consumer] \in {"load", "take"}, next[tail] # Null,
         order' = Tail(order), tail' = next[tail],
         UNCHANGED <<intrusive, head, next, node, prev>>,
         \/ used' = used
         \/ used' = used \ {tail} /\ (intrusive => tail # Dummy),
         l = "load item" => intrusive /\ tail = Dummy
  PROVE  MPSCInv'
<1> USE MPSCQueueAssumption
<1> DEFINE last == Len(order)
<1>1. Consumer \in Threads /\ Producers \subseteq Threads
  BY DEF Threads
<1>2. /\ MPSCTypeOK /\ ChainIntact /\ Once /\ InUse /\ Prepared /\ Apart /\ Unlinked
      /\ Undummied
  BY DEF MPSCInv
<1>3. /\ pc' = [u \in Threads |-> pc'[u]] /\ pc'[Consumer] = l
      /\ \A u \in Threads \ {Consumer} : pc'[u] = pc[u]
  BY <1>1, <1>2, GotoPc
<1>4. \A u \in Threads :
        /\ pc'[u] = "exchange" <=> pc[u] = "exchange"
        /\ pc'[u] = "link" <=> pc[u] = "link"
  BY <1>1, <1>3
<1>5. /\ last \in Nat /\ last # 0 /\ last # 1 /\ next[tail] = order[2] /\ next[tail] \in Nodes
      /\ \A i \in 1..last : order[i] = tail => i = 1
  BY Second
<1>6. /\ order' \in Seq(Nodes) /\ Len(order') = last - 1
      /\ \A i \in 1..last - 1 : order'[i] = order[i + 1]
  <2>1. order \in Seq(Nodes) /\ order # <<>>
    BY <1>2 DEF MPSCTypeOK, ChainIntact
  <2>2. QED
    BY <2>1, TailFacts
<1> HIDE DEF last
<1>7. /\ last - 1 \in Nat /\ last - 1 # 0 /\ last - 1 \in 1..last - 1 /\ 1 \in 1..last - 1
      /\ (last - 1) - 1 = last - 2 /\ (last - 1) + 1 = last /\ 1 + 1 = 2
      /\ \A i \in 1..last - 1 : i \in 1..last /\ i + 1 \in 1..last /\ i + 1 # 1
      /\ \A i \in 1..last - 2 : i \in 1..last - 1 /\ i + 1 \in 1..last - 1 /\ (i + 1) + 1 = i + 2
      /\ \A i \in 1..last - 1 : i # 1 => i - 1 \in 1..last - 2 /\ (i - 1) + 1 = i
      /\ \A i, j \in 1..last - 1 : i + 1 = j + 1 => i = j
  BY <1>5, Positions, Zenon
<1>8. MPSCTypeOK'
  <2>1. used' \subseteq Nodes
    BY <1>2 DEF MPSCTypeOK
  <2>2. QED
    BY <1>1, <1>2, <1>3, <1>5, <1>6, <2>1 DEF MPSCTypeOK
<1>9. ASSUME NEW i \in 1..last - 2
      PROVE  FollowsNext(order'[i], order'[i + 1])
  <2>1. i \in 1..last - 1 /\ i + 1 \in 1..last - 1 /\ (i + 1) + 1 = i + 2
    BY <1>7
  <2>2. Follows(order[i + 1], order[i + 2])
    <3>1. \A j \in 1..last - 1 : Follows(order[j], order[j + 1])
      BY <1>2 DEF ChainIntact, last
    <3>2. Follows(order[i + 1], order[(i + 1) + 1])
      BY <2>1, <3>1, Zenon
    <3>3. QED
      BY <2>1, <3>2, Zenon
  <2>3. FollowsNext(order[i + 1], order[i + 2])
    BY <1>4, <2>2, FollowsKept
  <2>4. QED
    BY <1>6, <2>1, <2>3, Zenon
<1>10. ASSUME NEW u \in Threads, pc'[u] = "link"
       PROVE  \E i \in 1..last - 2 : order'[i] = prev'[u] /\ order'[i + 1] = node'[u]
  <2>1. PICK i \in 1..last - 1 : order[i] = prev[u] /\ order[i + 1] = node[u]
    BY <1>2, <1>4, <1>10 DEF ChainIntact, last
  <2>2. i # 1
    <3>1. pc[u] = "link" /\ order[1] = tail /\ next[tail] # Null
      BY <1>2, <1>4, <1>5, <1>10 DEF ChainIntact
    <3>2. next[prev[u]] = Null
      BY <1>2, <3>1 DEF Unlinked
    <3>3. QED
      BY <2>1, <3>1, <3>2
  <2>3. i - 1 \in 1..last - 2 /\ i - 1 \in 1..last - 1 /\ (i - 1) + 1 = i
    BY <1>7, <2>2, Zenon
  <2>4. order'[i - 1] = order[i] /\ order'[(i - 1) + 1] = order[i + 1]
    BY <1>6, <2>3, Zenon
  <2>5. QED
    BY <2>1, <2>3, <2>4, <1>2, <1>4, <1>10, Zenon
<1>11. ChainIntact'
  <2>1. Len(order') - 1 = last - 2 /\ order' # <<>>
    <3>1. Len(order') # 0 /\ Len(<<>>) = 0
      BY <1>6, <1>7
    <3>2. QED
      BY <1>6, <1>7, <3>1, Zenon
  <2>2. head = order[last] /\ next[head] = Null
    BY <1>2 DEF ChainIntact, last
  <2>3. order'[Len(order')] = order[last] /\ order'[1] = order[2]
    <3>1. order'[last - 1] = order[(last - 1) + 1] /\ order'[1] = order[1 + 1]
      BY <1>6, <1>7, Zenon
    <3>2. QED
      BY <1>6, <1>7, <3>1, Zenon
  <2>4. QED
    BY <1>5, <1>9, <1>10, <2>1, <2>2, <2>3, ChainNext
<1>12. \A i \in 1..Len(order') :
         i \in 1..last - 1 /\ i + 1 \in 1..last /\ order'[i] = order[i + 1] /\ order'[i] # tail
  <2>1. \A i \in 1..last - 1 : order[i + 1] # tail
    BY <1>5, <1>7, Zenon
  <2>2. ASSUME NEW i \in 1..last - 1
        PROVE  i + 1 \in 1..last /\ order'[i] = order[i + 1] /\ order'[i] # tail
    BY <1>6, <1>7, <2>1, Zenon
  <2>3. 1..Len(order') = 1..last - 1
    BY <1>6
  <2>4. QED
    BY <2>2, <2>3, Zenon
<1>13. ASSUME NEW n, InOrder(n)'
       PROVE  InOrder(n) /\ n # tail
  <2>1. PICK i \in 1..Len(order') : order'[i] = n
    BY <1>13 DEF InOrder
  <2>2. i + 1 \in 1..Len(order) /\ order[i + 1] = n /\ n # tail
    BY <1>12, <2>1, Zenon DEF last
  <2>3. QED
    BY <2>2, Zenon DEF InOrder
<1>14. Once'
  <2>1. ASSUME NEW i \in 1..Len(order'), NEW j \in 1..Len(order'), order'[i] = order'[j]
        PROVE  i = j
    <3>1. i + 1 = j + 1
      BY <1>2, <1>12, <2>1, Zenon DEF Once, last
    <3>2. QED
      BY <1>7, <1>12, <3>1, Zenon
  <2>2. QED
    BY <2>1 DEF Once
<1>15. InUse'
  <2>1. \A i \in 1..Len(order') : order'[i] \in used /\ order'[i] # tail
    BY <1>2, <1>12, Zenon DEF InUse, last
  <2>2. QED
    BY <1>2, <2>1 DEF InUse
<1>16. Prepared'
  <2>1. ASSUME NEW u \in Threads, pc'[u] = "exchange"
        PROVE  node[u] \in used' /\ next[node[u]] = Null /\ ~InOrder(node[u])'
    <3>1. node[u] \in used /\ next[node[u]] = Null /\ ~InOrder(node[u])
      BY <1>2, <1>4, <2>1 DEF Prepared
    <3>2. node[u] # tail
      BY <3>1
    <3>3. QED
      BY <1>13, <3>1, <3>2
  <2>2. QED
    BY <2>1 DEF Prepared
<1>17. Unlinked'
  BY <1>2, <1>4 DEF Unlinked
<1>18. Apart' /\ Undummied'
  <2>1. Apart'
    BY <1>2, <1>4 DEF Apart
  <2>2. Undummied'
    BY <1>1, <1>2, <1>4 DEF Undummied
  <2>3. QED
    BY <2>1, <2>2
<1>19. Consuming'
  <2>1. l = "load item" => intrusive /\ next[tail] # Dummy
    <3>1. 2 \in 1..last /\ 2 # 1
      BY <1>5, Positions, Zenon
    <3>2. QED
      BY <1>5, <3>1, Zenon
  <2>2. QED
    BY <1>3, <2>1 DEF Consuming, Inside
<1>20. QED
  BY <1>8, <1>11, <1>14, <1>15, <1>16, <1>17, <1>18, <1>19 DEF MPSCInv

\* The dummy, which is out of the order, is to be put back.
LEMMA RequeueInv ==
  ASSUME MPSCInv, Requeue
  PROVE  MPSCInv'
<1> USE MPSCQueueAssumption
<1>1. Consumer \in Threads /\ Producers \subseteq Threads
      /\ \A u \in Threads : u # Consumer => u \in Producers
  BY DEF Threads
<1>2. /\ pc[Consumer] = "requeue" /\ Goto(Consumer, "exchange")
      /\ node' = [node EXCEPT ![Consumer] = Dummy] /\ next' = [next EXCEPT ![Dummy] = Null]
      /\ UNCHANGED <<intrusive, head, tail, used, prev, got, order>>
  BY DEF Requeue
<1>3. /\ MPSCTypeOK /\ ChainIntact /\ Once /\ InUse /\ Prepared /\ Apart /\ Unlinked
      /\ Undummied /\ Consuming
  BY DEF MPSCInv
<1>4. /\ pc' = [u \in Threads |-> pc'[u]] /\ pc'[Consumer] = "exchange"
      /\ \A u \in Threads \ {Consumer} : pc'[u] = pc[u]
  BY <1>1, <1>2, <1>3, GotoPc
<1>5. /\ node' = [u \in Threads |-> node'[u]] /\ node'[Consumer] = Dummy
      /\ \A u \in Threads \ {Consumer} : node'[u] = node[u]
  BY <1>1, <1>2, <1>3 DEF MPSCTypeOK
<1>6. /\ next' \in [Nodes -> Nodes \union {Null}] /\ next'[Dummy] = Null
      /\ \A m \in Nodes \ {Dummy} : next'[m] = next[m]
  BY <1>2, <1>3 DEF MPSCTypeOK
<1>7. intrusive /\ ~InOrder(Dummy) /\ tail # Dummy /\ Dummy \in used
  BY <1>2, <1>3 DEF Consuming, Inside, InUse
<1>8. /\ Len(order) \in Nat \ {0}
      /\ \A i \in 1..Len(order) : order[i] \in Nodes /\ order[i] # Dummy
  BY <1>3, <1>7, Places DEF ChainIntact, InOrder
<1>9. MPSCTypeOK'
  BY <1>1, <1>2, <1>3, <1>4, <1>5, <1>6 DEF MPSCTypeOK
<1>10. \A u \in Threads : pc'[u] = "link" <=> pc[u] = "link"
  BY <1>2, <1>4
<1>11. \A u \in Threads : pc[u] = "link" =>
         pc'[u] = "link" /\ node'[u] = node[u] /\ prev'[u] = prev[u]
  BY <1>2, <1>4, <1>5
<1>12. \A i \in 1..Len(order) - 1 : FollowsNext(order[i], order[i + 1])
  <2>1. \A i \in 1..Len(order) - 1 : next'[order[i]] = next[order[i]]
    BY <1>6, <1>8
  <2>2. \A i \in 1..Len(order) - 1 : Follows(order[i], order[i + 1])
    BY <1>3 DEF ChainIntact
  <2>3. QED
    BY <1>11, <2>1, <2>2, FollowsKept
<1>13. ChainIntact'
  <2>1. tail = order[1] /\ head = order[Len(order)] /\ next'[head] = Null /\ order # <<>>
    BY <1>3, <1>6, <1>8 DEF ChainIntact
  <2>2. \A u \in Threads : pc'[u] = "link" =>
          \E i \in 1..Len(order) - 1 : order[i] = prev'[u] /\ order[i + 1] = node'[u]
    BY <1>3, <1>10, <1>11 DEF ChainIntact
  <2>3. QED
    BY <1>2, <1>12, <2>1, <2>2, ChainNext
<1>14. Once' /\ InUse'
  BY <1>2, <1>3 DEF Once, InUse
<1>15. Prepared'
  <2>1. \A u \in Threads : pc[u] = "exchange" /\ u # Consumer => node[u] # Dummy
    BY <1>1, <1>3, <1>7 DEF Undummied
  <2>2. QED
    BY <1>2, <1>3, <1>4, <1>5, <1>6, <1>7, <2>1 DEF Prepared, InOrder, MPSCTypeOK
<1>16. Apart'
  <2>1. \A u \in Threads \ {Consumer} : pc[u] \in {"exchange", "link"} => node[u] # Dummy
    BY <1>1, <1>3, <1>7 DEF Undummied
  <2>2. QED
    BY <1>3, <1>4, <1>5, <2>1 DEF Apart
<1>17. Unlinked'
  <2>1. \A u \in Threads : pc[u] = "link" => prev[u] \in Nodes /\ prev[u] # Dummy
    BY <1>3, <1>8 DEF ChainIntact
  <2>2. QED
    BY <1>3, <1>6, <1>10, <1>11, <2>1 DEF Unlinked
<1>18. Undummied'
  BY <1>1, <1>2, <1>3, <1>4, <1>5 DEF Undummied
<1>19. Consuming'
  BY <1>2, <1>4, <1>7 DEF Consuming, Inside
<1>20. QED
  BY <1>9, <1>13, <1>14, <1>15, <1>16, <1>17, <1>18, <1>19 DEF MPSCInv

\* The consumer's other steps.
LEMMA LoadInv ==
  ASSUME MPSCInv, Load
  PROVE  MPSCInv'
<1> USE MPSCQueueAssumption
<1>1. MPSCTypeOK
  BY DEF MPSCInv
<1>2. pc[Consumer] = "load" /\ UNCHANGED <<intrusive, head, next, used, node, prev>>
  BY DEF Load
<1>3. CASE next[tail] = Null /\ Fails /\ UNCHANGED <<tail, order>>
  BY <1>2, <1>3, ConsumerMoves DEF Fails, Inside
<1>4. CASE intrusive /\ tail # Dummy /\ Goto(Consumer, "compare") /\ UNCHANGED <<tail, order>>
  BY <1>2, <1>4, ConsumerMoves DEF Inside
<1>5. CASE next[tail] # Null /\ ~(intrusive /\ tail = Dummy) /\ Found /\ UNCHANGED <<tail, order>>
  <2>1. next[tail] \in Nodes
    BY <1>5, Second
  <2>2. Goto(Consumer, "take") /\ got' = next[tail]
    BY <1>5 DEF Found
  <2>3. QED
    BY <1>2, <1>5, <2>1, <2>2, ConsumerMoves DEF Inside
<1>6. CASE /\ next[tail] # Null /\ intrusive /\ tail = Dummy
           /\ tail' = next[tail] /\ order' = Tail(order) /\ Goto(Consumer, "load item")
  BY <1>2, <1>6, AdvanceInv
<1>7. QED
  BY <1>3, <1>4, <1>5, <1>6 DEF Load

LEMMA ConsumerInv ==
  ASSUME MPSCInv, Begin \/ LoadItem \/ Compare \/ Recheck
  PROVE  MPSCInv'
<1> USE MPSCQueueAssumption
<1>1. MPSCTypeOK /\ ChainIntact /\ Once /\ Consuming
  BY DEF MPSCInv
<1>2. ASSUME Found, pc[Consumer] \in Inside, pc[Consumer] \notin {"exchange", "link"},
             next[tail] # Null,
             UNCHANGED <<intrusive, head, tail, next, used, node, prev, order>>
      PROVE  MPSCInv'
  <2>1. next[tail] \in Nodes /\ tail # Dummy
    BY <1>1, <1>2, Second DEF Consuming
  <2>2. Goto(Consumer, "take") /\ got' = next[tail]
    BY <1>2 DEF Found
  <2>3. QED
    BY <1>2, <2>1, <2>2, ConsumerMoves DEF Inside
<1>3. ASSUME Fails, pc[Consumer] \notin {"exchange", "link"},
             UNCHANGED <<intrusive, head, tail, next, used, node, prev, order>>
      PROVE  MPSCInv'
  BY <1>3, ConsumerMoves DEF Fails, Inside
<1>4. CASE Begin
  BY <1>4, ConsumerMoves DEF Begin, linkVars, Inside
<1>5. CASE LoadItem
  <2>1. /\ pc[Consumer] = "load item" /\ pc[Consumer] \in Inside
        /\ UNCHANGED <<intrusive, head, tail, next, used, node, prev, order>>
    BY <1>5 DEF LoadItem, linkVars, Inside
  <2>2. CASE next[tail] = Null
    <3>1. Goto(Consumer, "compare") /\ intrusive /\ tail # Dummy
      BY <1>1, <1>5, <2>1, <2>2 DEF LoadItem, Consuming
    <3>2. QED
      BY <2>1, <3>1, ConsumerMoves DEF Inside
  <2>3. CASE next[tail] # Null
    BY <1>2, <1>5, <2>1, <2>3 DEF LoadItem
  <2>4. QED
    BY <2>2, <2>3
<1>6. CASE Compare
  <2>1. /\ pc[Consumer] = "compare" /\ pc[Consumer] \in Inside
        /\ UNCHANGED <<intrusive, head, tail, next, used, node, prev, order>>
    BY <1>6 DEF Compare, linkVars, Inside
  <2>2. intrusive /\ tail # Dummy
    BY <1>1, <2>1 DEF Consuming
  <2>3. CASE tail = head
    <3>1. Len(order) \in Nat /\ Len(order) # 0 /\ order[1] = tail /\ order[Len(order)] = tail
      BY <1>1, <2>3, Places DEF ChainIntact
    <3>2. Len(order) = 1
      BY <1>1, <3>1, Positions, Zenon DEF Once
    <3>3. ~InOrder(Dummy)
      BY <2>2, <3>1, <3>2 DEF InOrder
    <3>4. Goto(Consumer, "requeue")
      BY <1>6, <2>3 DEF Compare
    <3>5. QED
      BY <2>1, <2>2, <3>3, <3>4, ConsumerMoves DEF Inside
  <2>4. CASE tail # head
    BY <1>3, <1>6, <2>1, <2>4 DEF Compare
  <2>5. QED
    BY <2>3, <2>4
<1>7. CASE Recheck
  <2>1. /\ pc[Consumer] = "recheck" /\ pc[Consumer] \in Inside
        /\ UNCHANGED <<intrusive, head, tail, next, used, node, prev, order>>
    BY <1>7 DEF Recheck, linkVars, Inside
  <2>2. QED
    BY <1>2, <1>3, <1>7, <2>1 DEF Recheck
<1>8. QED
  BY <1>4, <1>5, <1>6, <1>7

LEMMA TakeInv ==
  ASSUME MPSCInv, Take
  PROVE  MPSCInv'
<1> USE MPSCQueueAssumption
<1>1. /\ pc[Consumer] = "take" /\ Goto(Consumer, "idle")
      /\ tail' = got /\ order' = Tail(order) /\ used' = used \ {tail}
      /\ UNCHANGED <<intrusive, head, next, node, prev>>
  BY DEF Take
<1>2. got = next[tail] /\ got \in Nodes /\ (intrusive => tail # Dummy)
  BY <1>1 DEF MPSCInv, Consuming
<1>3. QED
  BY <1>1, <1>2, AdvanceInv

-----------------------------------------------------------------------------
\* Every step keeps the invariant.
LEMMA MPSCNextInv == MPSCInv /\ [MPSCNext]_mpscVars => MPSCInv'
<1> SUFFICES ASSUME MPSCInv, [MPSCNext]_mpscVars PROVE MPSCInv'
  OBVIOUS
<1>1. Consumer \in Threads /\ Producers \subseteq Threads
  BY DEF Threads
<1>2. CASE Begin \/ Dequeues
  <2>1. CASE Begin \/ LoadItem \/ Compare \/ Recheck
    BY <2>1, ConsumerInv
  <2>2. CASE Load
    BY <2>2, LoadInv
  <2>3. CASE Requeue
    BY <2>3, RequeueInv
  <2>4. CASE Exchange(Consumer) \/ Link(Consumer)
    BY <1>1, <2>4, ExchangeInv, LinkInv
  <2>5. CASE Take
    BY <2>5, TakeInv
  <2>6. QED
    BY <1>2, <2>1, <2>2, <2>3, <2>4, <2>5 DEF Dequeues
<1>3. CASE \E p \in Producers : Prepare(p) \/ Enqueues(p)
  BY <1>1, <1>3, PrepareInv, ExchangeInv, LinkInv DEF Enqueues
<1>4. CASE UNCHANGED mpscVars
  <2>1. UNCHANGED <<intrusive, order, used, head, tail, next, pc, node, prev, got>>
    BY <1>4 DEF mpscVars, linkVars, localVars
  <2>2. /\ MPSCTypeOK /\ ChainIntact /\ Once /\ InUse /\ Prepared /\ Apart /\ Unlinked
        /\ Undummied /\ Consuming
    BY DEF MPSCInv
  <2>3. MPSCTypeOK'
    BY <2>1, <2>2 DEF MPSCTypeOK
  <2>4. ChainIntact'
    BY <2>1, <2>2 DEF ChainIntact, Follows
  <2>5. Once' /\ InUse'
    BY <2>1, <2>2 DEF Once, InUse
  <2>6. Prepared'
    BY <2>1, <2>2 DEF Prepared, InOrder
  <2>7. Apart' /\ Unlinked' /\ Undummied'
    BY <2>1, <2>2 DEF Apart, Unlinked, Undummied
  <2>8. Consuming'
    BY <2>1, <2>2 DEF Consuming, InOrder
  <2>9. QED
    BY <2>3, <2>4, <2>5, <2>6, <2>7, <2>8 DEF MPSCInv
<1>5. QED
  BY <1>2, <1>3, <1>4 DEF MPSCNext

(***************************************************************************)
(* The links of either queue are those of the order of the exchanges, and  *)
(* no link is stored into a node that was deleted or handed out, for any   *)
(* number of producers and nodes (MPSCQueue.h 37-38, 98-99).               *)
(***************************************************************************)
THEOREM ChainIntactHolds == MPSCSpec => []ChainIntact
<1>1. MPSCInv => ChainIntact
  BY DEF MPSCInv
<1>2. QED
  BY <1>1, MPSCInitInv, MPSCNextInv, PTL DEF MPSCSpec

-----------------------------------------------------------------------------
(* Sequences of nodes and of items.                                        *)

\* A function on 1..n is a sequence.
LEMMA Listed ==
  ASSUME NEW S, NEW n \in Nat, NEW f \in [1..n -> S]
  PROVE  f \in Seq(S) /\ Len(f) = n
<1>1. f \in Seq(S)
  BY SeqDef
<1>2. Len(f) \in Nat /\ 1..Len(f) = 1..n
  BY <1>1, LenProperties
<1>3. QED
  BY <1>1, <1>2

Distinct(s) == \A i, j \in 1..Len(s) : s[i] = s[j] => i = j

\* The intrusive queue without its dummy.
LEMMA WithoutType ==
  ASSUME NEW s \in Seq(Nodes), s # <<>>
  PROVE  /\ Without(s) \in Seq(Nodes)
         /\ ~Passed(s, Len(s)) => Without(s) = s
         /\ Passed(s, Len(s)) =>
              /\ Len(Without(s)) = Len(s) - 1
              /\ \A i \in 1..(Len(s) - 1) : Without(s)[i] = IF Passed(s, i) THEN s[i + 1] ELSE s[i]
<1>1. Len(s) \in Nat \ {0} /\ \A i \in 1..Len(s) : s[i] \in Nodes
  BY EmptySeq, ElementOfSeq
<1>2. ASSUME Passed(s, Len(s))
      PROVE  /\ Without(s) \in [1..(Len(s) - 1) -> Nodes]
             /\ \A i \in 1..(Len(s) - 1) : Without(s)[i] = IF Passed(s, i) THEN s[i + 1] ELSE s[i]
  <2>1. \A i \in 1..(Len(s) - 1) : i \in 1..Len(s) /\ i + 1 \in 1..Len(s)
    BY <1>1
  <2>2. \A i \in 1..(Len(s) - 1) : (IF Passed(s, i) THEN s[i + 1] ELSE s[i]) \in Nodes
    BY <1>1, <2>1
  <2>3. QED
    BY <1>2, <2>2 DEF Without
<1>3. Len(s) - 1 \in Nat
  BY <1>1
<1>4. QED
  BY <1>2, <1>3, Listed DEF Without

\* An item is put in.
LEMMA WithoutAppend ==
  ASSUME NEW s \in Seq(Nodes), s # <<>>, NEW n \in Nodes, n # Dummy
  PROVE  Without(Append(s, n)) = Append(Without(s), n)
<1>1. PICK r \in Seq(Nodes) : r = Append(s, n)
  BY AppendFacts
<1>2. /\ r # <<>> /\ Len(s) \in Nat \ {0} /\ Len(r) = Len(s) + 1 /\ r[Len(s) + 1] = n
      /\ \A i \in 1..Len(s) : r[i] = s[i]
  BY <1>1, AppendFacts, EmptySeq
<1>3. \A i \in 1..Len(s) : Passed(r, i) <=> Passed(s, i)
  BY <1>2 DEF Passed
<1>4. Passed(r, Len(r)) <=> Passed(s, Len(s))
  <2>1. \A i \in 1..Len(r) : i \in 1..Len(s) \/ i = Len(s) + 1
    BY <1>2
  <2>2. \A i \in 1..Len(s) : i \in 1..Len(r)
    BY <1>2
  <2>3. QED
    BY <1>2, <2>1, <2>2 DEF Passed
<1>5. CASE ~Passed(s, Len(s))
  BY <1>1, <1>2, <1>4, <1>5, WithoutType
<1>6. CASE Passed(s, Len(s))
  <2>1. PICK u \in Seq(Nodes) : u = Without(s)
    BY WithoutType
  <2>2. PICK v \in Seq(Nodes) : v = Without(r)
    BY <1>2, WithoutType
  <2>3. Len(u) = Len(s) - 1 /\ \A i \in 1..(Len(s) - 1) : u[i] = IF Passed(s, i) THEN s[i + 1] ELSE s[i]
    BY <1>6, <2>1, WithoutType
  <2>4. Len(v) = Len(s) /\ \A i \in 1..Len(s) : v[i] = IF Passed(r, i) THEN r[i + 1] ELSE r[i]
    <3>1. Len(v) = Len(r) - 1 /\ \A i \in 1..(Len(r) - 1) : v[i] = IF Passed(r, i) THEN r[i + 1] ELSE r[i]
      BY <1>2, <1>4, <1>6, <2>2, WithoutType
    <3>2. Len(r) - 1 = Len(s)
      BY <1>2
    <3>3. QED
      BY <3>1, <3>2
  <2>5. /\ Append(u, n) \in Seq(Nodes) /\ Len(Append(u, n)) = Len(s) /\ Append(u, n)[Len(s)] = n
        /\ \A i \in 1..(Len(s) - 1) : Append(u, n)[i] = u[i]
    <3>1. /\ Append(u, n) \in Seq(Nodes) /\ Len(Append(u, n)) = Len(u) + 1
          /\ Append(u, n)[Len(u) + 1] = n /\ \A i \in 1..Len(u) : Append(u, n)[i] = u[i]
      BY AppendFacts
    <3>2. Len(u) = Len(s) - 1 /\ Len(u) + 1 = Len(s)
      BY <1>2, <2>3
    <3>3. QED
      BY <3>1, <3>2
  <2>6. ASSUME NEW i \in 1..Len(s)
        PROVE  v[i] = Append(u, n)[i]
    <3>1. CASE i = Len(s)
      <4>1. Passed(r, i) /\ r[i + 1] = n
        BY <1>2, <1>3, <1>6, <3>1
      <4>2. QED
        BY <2>4, <2>5, <3>1, <4>1
    <3>2. CASE i # Len(s)
      <4>1. i \in 1..(Len(s) - 1) /\ i + 1 \in 1..Len(s)
        BY <1>2, <3>2
      <4>2. r[i] = s[i] /\ r[i + 1] = s[i + 1] /\ (Passed(r, i) <=> Passed(s, i))
        BY <1>2, <1>3, <4>1
      <4>3. QED
        BY <2>3, <2>4, <2>5, <4>1, <4>2
    <3>3. QED
      BY <3>1, <3>2
  <2>7. v = Append(u, n)
    BY <2>4, <2>5, <2>6, SeqEqual
  <2>8. QED
    BY <1>1, <2>1, <2>2, <2>7
<1>7. QED
  BY <1>5, <1>6

\* The dummy is put in.
LEMMA WithoutRequeued ==
  ASSUME NEW s \in Seq(Nodes), s # <<>>, Dummy \in Nodes, ~Passed(s, Len(s))
  PROVE  Without(Append(s, Dummy)) = s /\ Without(s) = s
<1>1. PICK r \in Seq(Nodes) : r = Append(s, Dummy)
  BY AppendFacts
<1>2. /\ r # <<>> /\ Len(s) \in Nat \ {0} /\ Len(r) = Len(s) + 1 /\ r[Len(s) + 1] = Dummy
      /\ \A i \in 1..Len(s) : r[i] = s[i]
  BY <1>1, AppendFacts, EmptySeq
<1>3. Passed(r, Len(r)) /\ \A i \in 1..Len(s) : ~Passed(r, i)
  <2>1. Len(s) + 1 \in 1..Len(r)
    BY <1>2
  <2>2. \A i \in 1..Len(s) : \A j \in 1..i : j \in 1..Len(s)
    BY <1>2
  <2>3. QED
    BY <1>2, <2>1, <2>2 DEF Passed
<1>4. PICK v \in Seq(Nodes) : v = Without(r)
  BY <1>2, WithoutType
<1>5. Len(v) = Len(s) /\ \A i \in 1..Len(s) : v[i] = s[i]
  <2>1. Len(v) = Len(r) - 1 /\ \A i \in 1..(Len(r) - 1) : v[i] = IF Passed(r, i) THEN r[i + 1] ELSE r[i]
    BY <1>2, <1>3, <1>4, WithoutType
  <2>2. Len(r) - 1 = Len(s)
    BY <1>2
  <2>3. QED
    BY <1>2, <1>3, <2>1, <2>2
<1>6. v = s
  BY <1>5, SeqEqual
<1>7. QED
  BY <1>1, <1>4, <1>6, WithoutType

\* The node in front is passed: the dummy, or an item that is taken.
LEMMA WithoutTail ==
  ASSUME NEW s \in Seq(Nodes), Distinct(s), Len(s) # 0, Len(s) # 1
  PROVE  /\ s[1] = Dummy => Without(Tail(s)) = Without(s)
         /\ s[1] # Dummy => Without(s) # <<>> /\ Without(Tail(s)) = Tail(Without(s))
<1>1. s # <<>> /\ Len(s) \in Nat /\ Len(s) > 1
  <2>1. Len(<<>>) = 0
    OBVIOUS
  <2>2. s # <<>>
    BY <2>1
  <2>3. Len(s) \in Nat
    BY LenProperties
  <2>4. QED
    BY <2>2, <2>3
<1>2. PICK t \in Seq(Nodes) : t = Tail(s)
  BY <1>1, TailFacts
<1>3. /\ Len(t) = Len(s) - 1 /\ t # <<>> /\ Len(t) \in Nat \ {0}
      /\ \A i \in 1..Len(t) : t[i] = s[i + 1]
  <2>1. Len(t) = Len(s) - 1 /\ \A i \in 1..(Len(s) - 1) : t[i] = s[i + 1]
    BY <1>1, <1>2, TailFacts
  <2>2. Len(t) \in Nat \ {0} /\ Len(<<>>) = 0
    BY <1>1, <2>1
  <2>3. QED
    BY <2>1, <2>2
<1>4. \A i \in 1..Len(t) : i + 1 \in 1..Len(s) /\ i + 1 # 1 /\ i \in 1..(Len(s) - 1)
  BY <1>1, <1>3
<1>5. \A i \in 1..Len(t) : Passed(t, i) <=> \E j \in 2..(i + 1) : s[j] = Dummy
  <2>1. ASSUME NEW i \in 1..Len(t), Passed(t, i)
        PROVE  \E j \in 2..(i + 1) : s[j] = Dummy
    <3>1. PICK j \in 1..i : t[j] = Dummy
      BY <2>1 DEF Passed
    <3>2. j \in 1..Len(t) /\ j + 1 \in 2..(i + 1)
      BY <1>3
    <3>3. QED
      BY <1>3, <3>1, <3>2
  <2>2. ASSUME NEW i \in 1..Len(t), NEW j \in 2..(i + 1), s[j] = Dummy
        PROVE  Passed(t, i)
    <3>1. j - 1 \in 1..i /\ j - 1 \in 1..Len(t) /\ (j - 1) + 1 = j
      BY <1>3
    <3>2. t[j - 1] = Dummy
      BY <1>3, <2>2, <3>1
    <3>3. QED
      BY <3>1, <3>2 DEF Passed
  <2>3. QED
    BY <2>1, <2>2
<1>6. Len(t) \in 1..Len(t) /\ Len(t) + 1 = Len(s)
  BY <1>3
<1>7. PICK u \in Seq(Nodes) : u = Without(s)
  BY <1>1, WithoutType
<1>8. PICK v \in Seq(Nodes) : v = Without(t)
  BY <1>3, WithoutType
<1>9. CASE s[1] = Dummy
  <2>1. \A i \in 1..Len(s) : Passed(s, i)
    <3>1. \A i \in 1..Len(s) : 1 \in 1..i
      OBVIOUS
    <3>2. QED
      BY <1>9, <3>1 DEF Passed
  <2>2. Len(s) \in 1..Len(s)
    BY <1>1
  <2>3. Len(u) = Len(s) - 1 /\ \A i \in 1..(Len(s) - 1) : u[i] = s[i + 1]
    <3>1. /\ Len(u) = Len(s) - 1
          /\ \A i \in 1..(Len(s) - 1) : u[i] = IF Passed(s, i) THEN s[i + 1] ELSE s[i]
      BY <1>1, <1>7, <2>1, <2>2, WithoutType
    <3>2. \A i \in 1..(Len(s) - 1) : i \in 1..Len(s)
      BY <1>1
    <3>3. QED
      BY <2>1, <3>1, <3>2
  <2>4. ~Passed(t, Len(t))
    <3>1. \A j \in 2..(Len(t) + 1) : j \in 1..Len(s) /\ 1 \in 1..Len(s) /\ j # 1
      BY <1>3
    <3>2. \A j \in 2..(Len(t) + 1) : s[j] # Dummy
      BY <1>9, <3>1 DEF Distinct
    <3>3. QED
      BY <1>5, <1>6, <3>2
  <2>5. v = t
    BY <1>3, <1>8, <2>4, WithoutType
  <2>6. u = t
    <3>1. Len(u) = Len(t) /\ \A i \in 1..Len(u) : u[i] = t[i]
      BY <1>3, <1>6, <2>3
    <3>2. QED
      BY <1>3, <3>1, SeqEqual, Zenon
  <2>7. QED
    BY <1>2, <1>7, <1>8, <1>9, <2>5, <2>6
<1>10. CASE s[1] # Dummy
  <2>1. \A i \in 1..Len(t) : Passed(t, i) <=> Passed(s, i + 1)
    <3>1. ASSUME NEW i \in 1..Len(t)
          PROVE  Passed(s, i + 1) <=> \E j \in 2..(i + 1) : s[j] = Dummy
      <4>1. \A j \in 1..(i + 1) : j = 1 \/ j \in 2..(i + 1)
        BY <1>3
      <4>2. \A j \in 2..(i + 1) : j \in 1..(i + 1)
        BY <1>3
      <4>3. QED
        BY <1>10, <4>1, <4>2 DEF Passed
    <3>2. QED
      BY <1>5, <3>1
  <2>2. CASE ~Passed(s, Len(s))
    <3>1. ~Passed(t, Len(t))
      BY <1>6, <2>1, <2>2
    <3>2. u = s /\ v = t
      BY <1>1, <1>3, <1>7, <1>8, <2>2, <3>1, WithoutType
    <3>3. QED
      BY <1>1, <1>2, <1>7, <1>8, <1>10, <3>2
  <2>3. CASE Passed(s, Len(s))
    <3>1. Passed(t, Len(t))
      BY <1>6, <2>1, <2>3
    <3>2. /\ Len(u) = Len(t)
          /\ \A i \in 1..Len(t) : u[i] = IF Passed(s, i) THEN s[i + 1] ELSE s[i]
      <4>1. /\ Len(u) = Len(s) - 1
            /\ \A i \in 1..(Len(s) - 1) : u[i] = IF Passed(s, i) THEN s[i + 1] ELSE s[i]
        BY <1>1, <1>7, <2>3, WithoutType
      <4>2. QED
        BY <1>3, <4>1
    <3>3. /\ Len(v) = Len(t) - 1
          /\ \A i \in 1..(Len(t) - 1) : v[i] = IF Passed(t, i) THEN t[i + 1] ELSE t[i]
      BY <1>3, <1>8, <3>1, WithoutType
    <3>4. u # <<>>
      BY <1>3, <3>2, EmptySeq
    <3>5. /\ Tail(u) \in Seq(Nodes) /\ Len(Tail(u)) = Len(t) - 1
          /\ \A i \in 1..(Len(t) - 1) : Tail(u)[i] = u[i + 1]
      <4>1. /\ Tail(u) \in Seq(Nodes) /\ Len(Tail(u)) = Len(u) - 1
            /\ \A i \in 1..(Len(u) - 1) : Tail(u)[i] = u[i + 1]
        BY <3>4, TailFacts
      <4>2. QED
        BY <3>2, <4>1
    <3>6. ASSUME NEW i \in 1..(Len(t) - 1)
          PROVE  v[i] = Tail(u)[i]
      <4>1. i \in 1..Len(t) /\ i + 1 \in 1..Len(t)
        BY <1>3
      <4>2. t[i] = s[i + 1] /\ t[i + 1] = s[(i + 1) + 1] /\ (Passed(t, i) <=> Passed(s, i + 1))
        BY <1>3, <2>1, <4>1
      <4>3. QED
        BY <3>2, <3>3, <3>5, <4>1, <4>2
    <3>7. v = Tail(u)
      BY <3>3, <3>5, <3>6, SeqEqual
    <3>8. QED
      BY <1>2, <1>7, <1>8, <1>10, <3>4, <3>7
  <2>4. QED
    BY <2>2, <2>3
<1>11. QED
  BY <1>9, <1>10

\* The items of the other queue: all nodes but the first have one.
DataOf(f, s) == [i \in 1..Len(s) - 1 |-> f[s[i + 1]]]

LEMMA DataOfType ==
  ASSUME NEW V, NEW f \in [Nodes -> V], NEW s \in Seq(Nodes), s # <<>>
  PROVE  /\ DataOf(f, s) \in Seq(V) /\ Len(DataOf(f, s)) = Len(s) - 1
         /\ \A i \in 1..(Len(s) - 1) : DataOf(f, s)[i] = f[s[i + 1]]
<1>1. Len(s) \in Nat \ {0}
  BY EmptySeq
<1>2. \A i \in 1..(Len(s) - 1) : i + 1 \in 1..Len(s)
  BY <1>1
<1>3. \A i \in 1..(Len(s) - 1) : s[i + 1] \in Nodes
  BY <1>2, ElementOfSeq
<1>4. /\ DataOf(f, s) \in [1..(Len(s) - 1) -> V]
      /\ \A i \in 1..(Len(s) - 1) : DataOf(f, s)[i] = f[s[i + 1]]
  BY <1>3 DEF DataOf
<1>5. Len(s) - 1 \in Nat
  BY <1>1
<1>6. QED
  BY <1>4, <1>5, Listed

LEMMA DataOfAppend ==
  ASSUME NEW V, NEW f \in [Nodes -> V], NEW s \in Seq(Nodes), s # <<>>, NEW n \in Nodes
  PROVE  DataOf(f, Append(s, n)) = Append(DataOf(f, s), f[n]) /\ f[n] \in V
<1>1. PICK r \in Seq(Nodes) : r = Append(s, n)
  BY AppendFacts
<1>2. /\ r # <<>> /\ Len(s) \in Nat \ {0} /\ Len(r) = Len(s) + 1 /\ r[Len(s) + 1] = n
      /\ \A i \in 1..Len(s) : r[i] = s[i]
  BY <1>1, AppendFacts, EmptySeq
<1>3. PICK u \in Seq(V) : u = DataOf(f, s)
  BY DataOfType
<1>4. PICK v \in Seq(V) : v = DataOf(f, r)
  BY <1>2, DataOfType
<1>5. Len(u) = Len(s) - 1 /\ \A i \in 1..(Len(s) - 1) : u[i] = f[s[i + 1]]
  BY <1>3, DataOfType
<1>6. Len(v) = Len(s) /\ \A i \in 1..Len(s) : v[i] = f[r[i + 1]]
  <2>1. Len(v) = Len(r) - 1 /\ \A i \in 1..(Len(r) - 1) : v[i] = f[r[i + 1]]
    <3>1. f \in [Nodes -> V] /\ r \in Seq(Nodes) /\ r # <<>>
      BY <1>2
    <3>2. /\ DataOf(f, r) \in Seq(V) /\ Len(DataOf(f, r)) = Len(r) - 1
          /\ \A i \in 1..(Len(r) - 1) : DataOf(f, r)[i] = f[r[i + 1]]
      BY <3>1, DataOfType
    <3>3. QED
      BY <1>4, <3>2, Zenon
  <2>2. Len(r) - 1 = Len(s)
    BY <1>2
  <2>3. QED
    BY <2>1, <2>2, Zenon
<1>7. PICK x \in V : x = f[n]
  OBVIOUS
<1>8. /\ Append(u, x) \in Seq(V) /\ Len(Append(u, x)) = Len(s) /\ Append(u, x)[Len(s)] = x
      /\ \A i \in 1..(Len(s) - 1) : Append(u, x)[i] = u[i]
  <2>1. /\ Append(u, x) \in Seq(V) /\ Len(Append(u, x)) = Len(u) + 1
        /\ Append(u, x)[Len(u) + 1] = x /\ \A i \in 1..Len(u) : Append(u, x)[i] = u[i]
    BY AppendFacts
  <2>2. Len(u) = Len(s) - 1 /\ Len(u) + 1 = Len(s)
    BY <1>2, <1>5
  <2>3. QED
    BY <2>1, <2>2
<1>9. ASSUME NEW i \in 1..Len(s)
      PROVE  v[i] = Append(u, x)[i]
  <2>1. CASE i = Len(s)
    BY <1>2, <1>6, <1>7, <1>8, <2>1
  <2>2. CASE i # Len(s)
    <3>1. i \in 1..(Len(s) - 1) /\ i + 1 \in 1..Len(s)
      BY <1>2, <2>2
    <3>2. QED
      BY <1>2, <1>5, <1>6, <1>8, <3>1
  <2>3. QED
    BY <2>1, <2>2
<1>10. v = Append(u, x)
  BY <1>6, <1>8, <1>9, SeqEqual
<1>11. QED
  BY <1>1, <1>3, <1>4, <1>7, <1>10

\* The node in front is deleted, and may be used for something else.
LEMMA DataOfTail ==
  ASSUME NEW V, NEW f \in [Nodes -> V], NEW g \in [Nodes -> V], NEW s \in Seq(Nodes),
         Distinct(s), Len(s) # 0, Len(s) # 1, \A n \in Nodes : n # s[1] => g[n] = f[n]
  PROVE  DataOf(f, s) # <<>> /\ DataOf(g, Tail(s)) = Tail(DataOf(f, s))
<1>1. s # <<>> /\ Len(s) \in Nat /\ Len(s) > 1
  <2>1. Len(<<>>) = 0
    OBVIOUS
  <2>2. s # <<>>
    BY <2>1
  <2>3. Len(s) \in Nat
    BY LenProperties
  <2>4. \A n \in Nat : n # 0 /\ n # 1 => n > 1
    OBVIOUS
  <2>5. Len(s) > 1
    BY <2>3, <2>4, Zenon
  <2>6. QED
    BY <2>2, <2>3, <2>5, Zenon
<1>2. PICK t \in Seq(Nodes) : t = Tail(s)
  BY <1>1, TailFacts
<1>3. Len(t) = Len(s) - 1 /\ Len(t) \in Nat \ {0} /\ \A i \in 1..Len(t) : t[i] = s[i + 1]
  <2>1. Len(t) = Len(s) - 1 /\ \A i \in 1..(Len(s) - 1) : t[i] = s[i + 1]
    BY <1>1, <1>2, TailFacts
  <2>2. QED
    BY <1>1, <2>1
<1>4. t # <<>>
  <2>1. Len(<<>>) = 0
    OBVIOUS
  <2>2. QED
    BY <1>3, <2>1
<1>5. PICK u \in Seq(V) : u = DataOf(f, s)
  BY <1>1, DataOfType
<1>6. PICK v \in Seq(V) : v = DataOf(g, t)
  BY <1>4, DataOfType
<1>7. Len(u) = Len(t) /\ \A i \in 1..Len(t) : u[i] = f[s[i + 1]]
  <2>1. Len(u) = Len(s) - 1 /\ \A i \in 1..(Len(s) - 1) : u[i] = f[s[i + 1]]
    BY <1>1, <1>5, DataOfType
  <2>2. QED
    BY <1>3, <2>1
<1>8. Len(v) = Len(t) - 1 /\ \A i \in 1..(Len(t) - 1) : v[i] = g[t[i + 1]]
  BY <1>4, <1>6, DataOfType
<1>9. u # <<>>
  <2>1. Len(<<>>) = 0
    OBVIOUS
  <2>2. QED
    BY <1>3, <1>7, <2>1
<1>10. PICK w \in Seq(V) : /\ w = Tail(u) /\ Len(w) = Len(t) - 1
                           /\ \A i \in 1..(Len(t) - 1) : w[i] = u[i + 1]
  <2>1. /\ Tail(u) \in Seq(V) /\ Len(Tail(u)) = Len(u) - 1
        /\ \A i \in 1..(Len(u) - 1) : Tail(u)[i] = u[i + 1]
    BY <1>9, TailFacts
  <2>2. QED
    BY <1>7, <2>1
<1>11. ASSUME NEW i \in 1..(Len(t) - 1)
       PROVE  v[i] = w[i]
  <2>1. i + 1 \in 1..Len(t) /\ (i + 1) + 1 \in 1..Len(s) /\ (i + 1) + 1 # 1 /\ 1 \in 1..Len(s)
    BY <1>1, <1>3
  <2>2. PICK n : n = s[(i + 1) + 1]
    OBVIOUS
  <2>3. n \in Nodes /\ n # s[1] /\ t[i + 1] = n
    BY <1>3, <2>1, <2>2, ElementOfSeq DEF Distinct
  <2>4. u[i + 1] = f[n]
    BY <1>7, <2>1, <2>2
  <2>5. QED
    BY <1>8, <1>10, <2>3, <2>4
<1>12. v = w
  <2>1. Len(v) = Len(w) /\ \A i \in 1..Len(v) : v[i] = w[i]
    BY <1>8, <1>10, <1>11
  <2>2. QED
    BY <2>1, SeqEqual
<1>13. QED
  BY <1>2, <1>5, <1>6, <1>9, <1>10, <1>12

-----------------------------------------------------------------------------
(* The refinement of FifoQueue.                                            *)

\* What the consumer's call may answer, and what puts back the dummy.
Answering ==
  /\ data \in [Nodes -> Values \union Nodes]
  /\ call \in {"none", "running", "excused"} /\ (call = "none" <=> pc[Consumer] = "idle")
  /\ call = "running" => Contents(order) # <<>> /\ Linking = {}
  /\ call = "running" /\ pc[Consumer] = "compare" => tail = head
  /\ pc[Consumer] = "recheck" => tail # head
  /\ pc[Consumer] \in {"exchange", "link"} => node[Consumer] = Dummy

\* The order as a sequence, and its contents.
LEMMA Order ==
  ASSUME MPSCInv
  PROVE  /\ order \in Seq(Nodes) /\ order # <<>> /\ Distinct(order)
         /\ Len(order) \in Nat \ {0} /\ order[1] = tail /\ order[Len(order)] = head
         /\ tail = head <=> Len(order) = 1
         /\ \A n : InOrder(n) <=> \E i \in 1..Len(order) : order[i] = n
         /\ Passed(order, Len(order)) <=> InOrder(Dummy)
         /\ Contents(order) = IF intrusive THEN Without(order) ELSE DataOf(data, order)
<1>1. order \in Seq(Nodes) /\ order # <<>> /\ order[1] = tail /\ order[Len(order)] = head /\ Once
  BY DEF MPSCInv, MPSCTypeOK, ChainIntact
<1>2. Len(order) \in Nat \ {0}
  BY <1>1, EmptySeq
<1>3. 1 \in 1..Len(order) /\ Len(order) \in 1..Len(order)
  BY <1>2
<1>4. tail = head <=> Len(order) = 1
  BY <1>1, <1>3 DEF Once
<1>5. QED
  BY <1>1, <1>2, <1>4 DEF Once, Distinct, InOrder, Passed, Contents, DataOf

\* A node behind _tail whose link is missing: a producer is about to store it.
LEMMA Linked ==
  ASSUME MPSCInv, tail # head, next[tail] = Null, pc[Consumer] # "link"
  PROVE  Linking # {}
<1>1. Len(order) \in Nat \ {0} /\ Len(order) # 1 /\ order[1] = tail
  BY Order
<1>2. 1 \in 1..Len(order) - 1 /\ 1 + 1 \in 1..Len(order)
  <2>1. PICK n \in Nat \ {0} : n = Len(order) /\ n # 1
    BY <1>1
  <2>2. 1 \in 1..n - 1 /\ 1 + 1 \in 1..n
    BY <2>1
  <2>3. QED
    BY <2>1, <2>2
<1>3. Follows(order[1], order[1 + 1])
  BY <1>2 DEF MPSCInv, ChainIntact
<1>4. order[1 + 1] \in Nodes
  BY <1>2, Order, ElementOfSeq
<1>5. \E t \in Threads : pc[t] = "link"
  BY <1>1, <1>3, <1>4, MPSCQueueAssumption DEF Follows
<1>6. QED
  BY <1>5 DEF Threads, Linking

\* With one node there is no item, unless it is one of the intrusive queue.
LEMMA Alone ==
  ASSUME MPSCInv, tail = head, intrusive => tail = Dummy
  PROVE  Contents(order) = <<>>
<1>1. order \in Seq(Nodes) /\ order # <<>> /\ Len(order) = 1 /\ order[1] = tail
  BY Order
<1>2. PICK s \in Seq(Nodes) : s = order
  BY <1>1
<1>3. CASE intrusive
  <2>1. Passed(s, Len(s))
    BY <1>1, <1>2, <1>3 DEF Passed
  <2>2. Without(s) \in Seq(Nodes) /\ Len(Without(s)) = 0
    BY <1>1, <1>2, <2>1, WithoutType
  <2>3. Without(s) = <<>>
    BY <2>2, EmptySeq
  <2>4. QED
    BY <1>2, <1>3, <2>3, Order
<1>4. CASE ~intrusive
  BY <1>1, <1>4 DEF Contents
<1>5. QED
  BY <1>3, <1>4

\* Nothing of the abstract queue changes.
LEMMA Unseen ==
  ASSUME MPSCInv, Answering, UNCHANGED <<intrusive, data, order, call>>, Linking' = Linking
  PROVE  UNCHANGED F!vars
BY DEF F!vars, Contents, Without, Passed

\* The consumer's steps between its accesses.
LEMMA SeesNothing ==
  ASSUME MPSCInv, Answering, NEW l, Goto(Consumer, l), l # "idle",
         pc[Consumer] \notin {"idle", "exchange", "link"}, l \notin {"recheck", "link"},
         UNCHANGED <<intrusive, data, order, call, tail, head>>,
         l = "compare" /\ call = "running" => tail = head,
         l = "exchange" => node'[Consumer] = Dummy
  PROVE  Answering' /\ UNCHANGED F!vars
<1>1. Consumer \in Threads /\ Consumer \notin Producers /\ Producers \subseteq Threads
  BY MPSCQueueAssumption DEF Threads
<1>2. pc'[Consumer] = l /\ \A u \in Threads \ {Consumer} : pc'[u] = pc[u]
  BY <1>1, GotoPc DEF MPSCInv
<1>3. Linking' = Linking
  BY <1>1, <1>2 DEF Linking
<1>4. Contents(order)' = Contents(order)
  BY DEF Contents, Without, Passed
<1>5. Answering'
  BY <1>2, <1>3, <1>4 DEF Answering
<1>6. QED
  BY <1>3, <1>5, Unseen

\* The consumer answers that there is nothing.
LEMMA FailsFails ==
  ASSUME MPSCInv, Answering, Fails, pc[Consumer] \notin {"idle", "exchange", "link"}, call # "running",
         UNCHANGED <<intrusive, data, order, tail, head>>
  PROVE  Answering' /\ F!Fail
<1>1. Consumer \in Threads /\ Consumer \notin Producers /\ Producers \subseteq Threads
  BY MPSCQueueAssumption DEF Threads
<1>2. /\ pc'[Consumer] = "idle" /\ \A u \in Threads \ {Consumer} : pc'[u] = pc[u]
      /\ call' = "none"
  BY <1>1, GotoPc DEF MPSCInv, Fails
<1>3. Linking' = Linking
  BY <1>1, <1>2 DEF Linking
<1>4. Contents(order)' = Contents(order)
  BY DEF Contents, Without, Passed
<1>5. call = "excused"
  BY DEF Answering
<1>6. Answering'
  BY <1>2 DEF Answering
<1>7. QED
  BY <1>2, <1>3, <1>4, <1>5, <1>6 DEF F!Fail

\* Dequeue begins.
LEMMA BeginRefines ==
  ASSUME MPSCInv, Answering, Begin
  PROVE  Answering' /\ F!Begin
<1>1. Consumer \in Threads /\ Consumer \notin Producers /\ Producers \subseteq Threads
  BY MPSCQueueAssumption DEF Threads
<1>2. /\ pc[Consumer] = "idle" /\ Goto(Consumer, "load")
      /\ call' = IF Contents(order) = <<>> \/ Linking # {} THEN "excused" ELSE "running"
      /\ UNCHANGED <<intrusive, head, tail, data, node, order>>
  BY DEF Begin, linkVars
<1>3. pc'[Consumer] = "load" /\ \A u \in Threads \ {Consumer} : pc'[u] = pc[u]
  BY <1>1, <1>2, GotoPc DEF MPSCInv
<1>4. Linking' = Linking
  BY <1>1, <1>3 DEF Linking
<1>5. Contents(order)' = Contents(order)
  BY <1>2 DEF Contents, Without, Passed
<1>6. Answering'
  BY <1>2, <1>3, <1>4, <1>5 DEF Answering
<1>7. call = "none"
  BY <1>2 DEF Answering
<1>8. QED
  BY <1>2, <1>4, <1>5, <1>6, <1>7 DEF F!Begin, F!Excuse

\* A node is prepared, which is not in the order.
LEMMA PrepareRefines ==
  ASSUME MPSCInv, Answering, NEW p \in Producers, Prepare(p)
  PROVE  Answering' /\ UNCHANGED F!vars
<1>1. Consumer \in Threads /\ Consumer \notin Producers /\ Producers \subseteq Threads
  BY MPSCQueueAssumption DEF Threads
<1>2. PICK n \in Nodes \ used, v \in Values :
        /\ node' = [node EXCEPT ![p] = n]
        /\ data' = [data EXCEPT ![n] = IF intrusive THEN n ELSE v]
  BY DEF Prepare
<1>3. /\ pc[p] = "idle" /\ Goto(p, "exchange")
      /\ UNCHANGED <<intrusive, head, tail, order, call>>
  BY DEF Prepare
<1>4. pc'[p] = "exchange" /\ \A u \in Threads \ {p} : pc'[u] = pc[u]
  BY <1>1, <1>3, GotoPc DEF MPSCInv
<1>5. Linking' = Linking
  BY <1>1, <1>3, <1>4 DEF Linking
<1>6. node'[Consumer] = node[Consumer]
  BY <1>1, <1>2 DEF MPSCInv, MPSCTypeOK
<1>7. data' \in [Nodes -> Values \union Nodes] /\ \A m \in Nodes \ {n} : data'[m] = data[m]
  BY <1>2 DEF Answering
<1>8. \A i \in 1..Len(order) : order[i] \in Nodes \ {n}
  BY <1>2, Order, ElementOfSeq DEF MPSCInv, InUse
<1>9. Contents(order)' = Contents(order)
  <2>1. CASE intrusive
    BY <1>3, <2>1 DEF Contents, Without, Passed
  <2>2. CASE ~intrusive
    <3>1. \A i \in 1..Len(order) - 1 : i + 1 \in 1..Len(order)
      BY Order
    <3>2. \A i \in 1..Len(order) - 1 : data'[order[i + 1]] = data[order[i + 1]]
      BY <1>7, <1>8, <3>1
    <3>3. QED
      BY <1>3, <2>2, <3>2 DEF Contents
  <2>3. QED
    BY <2>1, <2>2
<1>10. pc'[Consumer] = pc[Consumer]
  BY <1>1, <1>4
<1>11. Answering'
  BY <1>3, <1>5, <1>6, <1>7, <1>9, <1>10 DEF Answering
<1>12. QED
  BY <1>3, <1>5, <1>9, <1>11 DEF F!vars

\* The exchange puts in an item, or the dummy.
LEMMA ExchangeRefines ==
  ASSUME MPSCInv, Answering, NEW t \in Threads, Exchange(t)
  PROVE  /\ Answering'
         /\ t \in Producers => \E v \in Values \union Nodes : F!Put(t, v)
         /\ t = Consumer => UNCHANGED F!vars
<1>1. Consumer \in Threads /\ Consumer \notin Producers /\ Producers \subseteq Threads
  BY MPSCQueueAssumption DEF Threads
<1>2. /\ pc[t] = "exchange" /\ Goto(t, "link") /\ head' = node[t]
      /\ order' = Append(order, node[t])
      /\ call' = IF call = "running" /\ t # Consumer THEN "excused" ELSE call
      /\ UNCHANGED <<intrusive, tail, data, node>>
  BY DEF Exchange
<1>3. pc'[t] = "link" /\ \A u \in Threads \ {t} : pc'[u] = pc[u]
  BY <1>1, <1>2, GotoPc DEF MPSCInv
<1>4. node[t] \in Nodes /\ ~InOrder(node[t]) /\ node[t] # tail
  <2>1. node[t] \in Nodes /\ ~InOrder(node[t])
    BY <1>2 DEF MPSCInv, Prepared, MPSCTypeOK
  <2>2. 1 \in 1..Len(order) /\ order[1] = tail
    BY Order
  <2>3. QED
    BY <2>1, <2>2 DEF InOrder
<1>5. PICK s \in Seq(Nodes) : s = order /\ s # <<>>
  BY Order
<1>6. PICK n \in Nodes : n = node[t]
  BY <1>4
<1>7. CASE t \in Producers
  <2>1. pc'[Consumer] = pc[Consumer]
    BY <1>1, <1>3, <1>7
  <2>2. Linking' = Linking \union {t} /\ t \notin Linking
    BY <1>1, <1>2, <1>3, <1>7 DEF Linking
  <2>3. intrusive => n # Dummy
    BY <1>2, <1>6, <1>7 DEF MPSCInv, Undummied
  <2>4. \E v \in Values \union Nodes : Contents(order)' = Append(Contents(order), v)
    <3>1. CASE intrusive
      <4>1. Without(Append(s, n)) = Append(Without(s), n)
        BY <1>5, <2>3, <3>1, WithoutAppend
      <4>2. Contents(order)' = Without(Append(s, n)) /\ Contents(order) = Without(s)
        BY <1>2, <1>5, <1>6, <3>1 DEF Contents, Without, Passed
      <4>3. QED
        BY <4>1, <4>2
    <3>2. CASE ~intrusive
      <4>1. PICK f \in [Nodes -> Values \union Nodes] : f = data
        BY DEF Answering
      <4>2. DataOf(f, Append(s, n)) = Append(DataOf(f, s), f[n]) /\ f[n] \in Values \union Nodes
        BY <1>5, DataOfAppend
      <4>3. Contents(order)' = DataOf(f, Append(s, n)) /\ Contents(order) = DataOf(f, s)
        BY <1>2, <1>5, <1>6, <3>2, <4>1 DEF Contents, DataOf
      <4>4. QED
        BY <4>2, <4>3
    <3>3. QED
      BY <3>1, <3>2
  <2>5. call' = F!Keep(Contents(order)', Linking')
    BY <1>1, <1>2, <1>7, <2>2 DEF F!Keep, F!Excuse, Answering
  <2>6. call' # "running" /\ call' \in {"none", "running", "excused"} /\ (call' = "none" <=> call = "none")
    BY <1>1, <1>2, <1>7 DEF Answering
  <2>7. Answering'
    BY <1>2, <1>4, <2>1, <2>6 DEF Answering
  <2>8. QED
    BY <1>1, <1>7, <2>2, <2>4, <2>5, <2>7 DEF F!Put
<1>8. CASE t = Consumer
  <2>1. Linking' = Linking /\ call' = call
    BY <1>1, <1>2, <1>3, <1>8 DEF Linking
  <2>2. n = Dummy /\ intrusive /\ ~Passed(s, Len(s))
    <3>1. n = Dummy
      BY <1>2, <1>6, <1>8 DEF Answering
    <3>2. intrusive
      BY <1>2, <1>8 DEF MPSCInv, Consuming, Inside
    <3>3. QED
      BY <1>4, <1>5, <1>6, <3>1, <3>2, Order
  <2>3. Contents(order)' = Without(Append(s, n)) /\ Contents(order) = Without(s)
    <3>1. PICK r : r = Append(s, n)
      OBVIOUS
    <3>2. order' = r /\ order = s /\ intrusive' /\ intrusive
      BY <1>2, <1>5, <1>6, <2>2, <3>1
    <3>3. Contents(order)' = Without(r)
      BY <3>2, Zenon DEF Contents, Without, Passed
    <3>4. Contents(order) = Without(s)
      BY <3>2, Zenon DEF Contents
    <3>5. QED
      BY <3>1, <3>3, <3>4
  <2>4. Contents(order)' = Contents(order)
    BY <1>5, <2>2, <2>3, WithoutRequeued
  <2>5. Answering'
    BY <1>2, <1>3, <1>8, <2>1, <2>4 DEF Answering
  <2>6. QED
    BY <1>1, <1>8, <2>1, <2>4, <2>5 DEF F!vars
<1>9. QED
  BY <1>7, <1>8 DEF Threads

\* The put returns once the link is stored.
LEMMA LinkRefines ==
  ASSUME MPSCInv, Answering, NEW t \in Threads, Link(t)
  PROVE  /\ Answering'
         /\ t \in Producers => F!PutReturns(t)
         /\ t = Consumer => UNCHANGED F!vars
<1>1. Consumer \in Threads /\ Consumer \notin Producers /\ Producers \subseteq Threads
  BY MPSCQueueAssumption DEF Threads
<1>2. /\ pc[t] = "link" /\ Goto(t, IF t = Consumer THEN "recheck" ELSE "idle")
      /\ node' = [node EXCEPT ![t] = Null]
      /\ UNCHANGED <<intrusive, head, tail, data, order, call>>
  BY DEF Link
<1>3. /\ pc'[t] = IF t = Consumer THEN "recheck" ELSE "idle"
      /\ \A u \in Threads \ {t} : pc'[u] = pc[u] /\ node'[u] = node[u]
  BY <1>1, <1>2, GotoPc DEF MPSCInv, MPSCTypeOK
<1>4. Contents(order)' = Contents(order)
  BY <1>2 DEF Contents, Without, Passed
<1>5. CASE t \in Producers
  <2>1. pc'[Consumer] = pc[Consumer] /\ node'[Consumer] = node[Consumer]
    BY <1>1, <1>3, <1>5
  <2>2. Linking' = Linking \ {t} /\ t \in Linking
    BY <1>1, <1>2, <1>3, <1>5 DEF Linking
  <2>3. Answering'
    BY <1>2, <1>4, <2>1, <2>2 DEF Answering
  <2>4. QED
    BY <1>1, <1>2, <1>4, <1>5, <2>2, <2>3 DEF F!PutReturns
<1>6. CASE t = Consumer
  <2>1. Linking' = Linking
    BY <1>1, <1>3, <1>6 DEF Linking
  <2>2. tail # head
    <3>1. PICK k \in 1..Len(order) - 1 : order[k] = prev[t] /\ order[k + 1] = node[t]
      BY <1>2 DEF MPSCInv, ChainIntact
    <3>2. Len(order) \in Nat /\ Len(order) # 1
      BY <3>1, Order
    <3>3. QED
      BY <3>2, Order
  <2>3. Answering'
    BY <1>2, <1>3, <1>4, <1>6, <2>1, <2>2 DEF Answering
  <2>4. QED
    BY <1>1, <1>2, <1>4, <1>6, <2>1, <2>3 DEF F!vars
<1>7. QED
  BY <1>5, <1>6 DEF Threads

\* The call answers "none" at a null link only if a put is not done.
LEMMA LoadRefines ==
  ASSUME MPSCInv, Answering, Load
  PROVE  Answering' /\ (UNCHANGED F!vars \/ F!Fail)
<1>1. /\ pc[Consumer] = "load" /\ call \in {"running", "excused"}
      /\ UNCHANGED <<intrusive, head, next, data>>
  BY DEF Load, Answering
<1>2. CASE /\ next[tail] = Null /\ (intrusive => tail = Dummy)
           /\ Fails /\ UNCHANGED <<tail, order>>
  <2>1. call # "running"
    <3>1. CASE tail = head
      BY <1>2, <3>1, Alone DEF Answering
    <3>2. CASE tail # head
      BY <1>1, <1>2, <3>2, Linked DEF Answering
    <3>3. QED
      BY <3>1, <3>2
  <2>2. QED
    BY <1>1, <1>2, <2>1, FailsFails
<1>3. CASE /\ next[tail] = Null /\ Goto(Consumer, "compare")
           /\ UNCHANGED <<tail, got, order, call>>
  <2>1. call = "running" => tail = head
    BY <1>1, <1>3, Linked DEF Answering
  <2>2. QED
    BY <1>1, <1>3, <2>1, SeesNothing
<1>4. CASE next[tail] # Null /\ Found /\ UNCHANGED <<tail, order>>
  <2>1. Goto(Consumer, "take") /\ UNCHANGED call
    BY <1>4 DEF Found
  <2>2. QED
    BY <1>1, <1>4, <2>1, SeesNothing
<1>5. CASE /\ next[tail] # Null /\ intrusive /\ tail = Dummy
           /\ tail' = next[tail] /\ order' = Tail(order)
           /\ Goto(Consumer, "load item") /\ UNCHANGED <<got, call>>
  <2>1. Consumer \in Threads /\ Consumer \notin Producers /\ Producers \subseteq Threads
    BY MPSCQueueAssumption DEF Threads
  <2>2. pc'[Consumer] = "load item" /\ \A u \in Threads \ {Consumer} : pc'[u] = pc[u]
    BY <1>5, <2>1, GotoPc DEF MPSCInv
  <2>3. Linking' = Linking
    BY <2>1, <2>2 DEF Linking
  <2>4. PICK s \in Seq(Nodes) : s = order
    BY Order
  <2>5. Distinct(s) /\ Len(s) # 0 /\ Len(s) # 1 /\ s[1] = Dummy
    BY <1>5, <2>4, Second, Order
  <2>6. Without(Tail(s)) = Without(s)
    BY <2>5, WithoutTail
  <2>7. Contents(order)' = Without(Tail(s)) /\ Contents(order) = Without(s)
    BY <1>1, <1>5, <2>4 DEF Contents, Without, Passed
  <2>8. Contents(order)' = Contents(order)
    BY <2>6, <2>7
  <2>9. Answering'
    BY <1>1, <1>5, <2>2, <2>3, <2>8 DEF Answering
  <2>10. QED
    BY <1>5, <2>3, <2>8, <2>9 DEF F!vars
<1>6. QED
  BY <1>2, <1>3, <1>4, <1>5 DEF Load

LEMMA LookRefines ==
  ASSUME MPSCInv, Answering, LoadItem \/ Compare \/ Requeue \/ Recheck
  PROVE  Answering' /\ (UNCHANGED F!vars \/ F!Fail)
<1>1. /\ pc[Consumer] \in {"load item", "compare", "requeue", "recheck"}
      /\ UNCHANGED <<intrusive, data, order, tail, head>>
  BY DEF LoadItem, Compare, Requeue, Recheck, linkVars
<1>2. ASSUME Found PROVE Answering' /\ UNCHANGED F!vars
  <2>1. Goto(Consumer, "take") /\ UNCHANGED call
    BY <1>2 DEF Found
  <2>2. QED
    BY <1>1, <2>1, SeesNothing
<1>3. CASE LoadItem
  <2>1. CASE next[tail] = Null
    <3>1. pc[Consumer] = "load item" /\ Goto(Consumer, "compare") /\ UNCHANGED call
      BY <1>3, <2>1 DEF LoadItem
    <3>2. call = "running" => tail = head
      BY <2>1, <3>1, Linked DEF Answering
    <3>3. QED
      BY <1>1, <3>1, <3>2, SeesNothing
  <2>2. CASE next[tail] # Null
    BY <1>2, <1>3, <2>2 DEF LoadItem
  <2>3. QED
    BY <2>1, <2>2
<1>4. CASE Compare
  <2>1. CASE tail = head
    <3>1. Goto(Consumer, "requeue") /\ UNCHANGED call
      BY <1>4, <2>1 DEF Compare
    <3>2. QED
      BY <1>1, <3>1, SeesNothing
  <2>2. CASE tail # head
    <3>1. pc[Consumer] = "compare" /\ Fails
      BY <1>4, <2>2 DEF Compare
    <3>2. call # "running"
      BY <2>2, <3>1 DEF Answering
    <3>3. QED
      BY <1>1, <3>1, <3>2, FailsFails
  <2>3. QED
    BY <2>1, <2>2
<1>5. CASE Requeue
  <2>1. /\ Goto(Consumer, "exchange") /\ UNCHANGED call
        /\ node' = [node EXCEPT ![Consumer] = Dummy]
    BY <1>5 DEF Requeue
  <2>2. node'[Consumer] = Dummy
    BY <2>1 DEF MPSCInv, MPSCTypeOK, Threads
  <2>3. QED
    BY <1>1, <2>1, <2>2, SeesNothing
<1>6. CASE Recheck
  <2>1. CASE next[tail] = Null
    <3>1. pc[Consumer] = "recheck" /\ Fails
      BY <1>6, <2>1 DEF Recheck
    <3>2. call # "running"
      BY <2>1, <3>1, Linked DEF Answering
    <3>3. QED
      BY <1>1, <3>1, <3>2, FailsFails
  <2>2. CASE next[tail] # Null
    BY <1>2, <1>6, <2>2 DEF Recheck
  <2>3. QED
    BY <2>1, <2>2
<1>7. QED
  BY <1>3, <1>4, <1>5, <1>6

\* The item of the node behind _tail, or of _tail itself, is the oldest one.
LEMMA TakeRefines ==
  ASSUME MPSCInv, Answering, Take
  PROVE  Answering' /\ F!Take
<1>1. Consumer \in Threads /\ Consumer \notin Producers /\ Producers \subseteq Threads
  BY MPSCQueueAssumption DEF Threads
<1>2. /\ pc[Consumer] = "take" /\ Goto(Consumer, "idle") /\ call' = "none"
      /\ order' = Tail(order) /\ data' = [data EXCEPT ![tail] = tail] /\ UNCHANGED intrusive
  BY DEF Take
<1>3. next[tail] # Null /\ (intrusive => tail # Dummy)
  BY <1>2, MPSCQueueAssumption DEF MPSCInv, Consuming
<1>4. pc'[Consumer] = "idle" /\ \A u \in Threads \ {Consumer} : pc'[u] = pc[u]
  BY <1>1, <1>2, GotoPc DEF MPSCInv
<1>5. Linking' = Linking
  BY <1>1, <1>4 DEF Linking
<1>6. tail \in Nodes /\ data \in [Nodes -> Values \union Nodes]
  BY DEF MPSCInv, MPSCTypeOK, Answering
<1>7. PICK s \in Seq(Nodes) : s = order
  BY Order
<1>8. PICK f \in [Nodes -> Values \union Nodes] : f = data
  BY <1>6
<1>9. PICK n \in Nodes : n = tail
  BY <1>6
<1>10. PICK g \in [Nodes -> Values \union Nodes] :
         g = data' /\ \A m \in Nodes : m # n => g[m] = f[m]
  BY <1>2, <1>8, <1>9
<1>11. Distinct(s) /\ Len(s) # 0 /\ Len(s) # 1 /\ s[1] = n
  BY <1>3, <1>7, <1>9, Second, Order
<1>12. Contents(order) # <<>> /\ Contents(order)' = Tail(Contents(order))
  <2>1. CASE intrusive
    <3>1. Without(s) # <<>> /\ Without(Tail(s)) = Tail(Without(s))
      BY <1>3, <1>9, <1>11, <2>1, WithoutTail
    <3>2. Contents(order)' = Without(Tail(s)) /\ Contents(order) = Without(s)
      BY <1>2, <1>7, <2>1 DEF Contents, Without, Passed
    <3>3. QED
      BY <3>1, <3>2
  <2>2. CASE ~intrusive
    <3>1. DataOf(f, s) # <<>> /\ DataOf(g, Tail(s)) = Tail(DataOf(f, s))
      BY <1>10, <1>11, DataOfTail
    <3>2. Contents(order)' = DataOf(g, Tail(s)) /\ Contents(order) = DataOf(f, s)
      BY <1>2, <1>7, <1>8, <1>10, <2>2 DEF Contents, DataOf
    <3>3. QED
      BY <3>1, <3>2
  <2>3. QED
    BY <2>1, <2>2
<1>13. Answering'
  BY <1>2, <1>4, <1>10 DEF Answering
<1>14. call # "none"
  BY <1>2 DEF Answering
<1>15. QED
  BY <1>2, <1>5, <1>12, <1>13, <1>14 DEF F!Take

-----------------------------------------------------------------------------
\* The queue begins empty, and no thread is in a call.
LEMMA FifoInit == MPSCInit => Answering /\ F!Init
<1> SUFFICES ASSUME MPSCInit PROVE Answering /\ F!Init
  OBVIOUS
<1>1. MPSCInv
  BY MPSCInitInv
<1>2. tail = Dummy /\ head = Dummy /\ call = "none" /\ \A t \in Threads : pc[t] = "idle"
  BY DEF MPSCInit
<1>3. Linking = {} /\ pc[Consumer] = "idle"
  BY <1>2 DEF Linking, Threads
<1>4. data \in [Nodes -> Values \union Nodes]
  BY DEF MPSCInit
<1>5. Contents(order) = <<>>
  BY <1>1, <1>2, Alone
<1>6. QED
  BY <1>2, <1>3, <1>4, <1>5 DEF Answering, F!Init

\* Every step is one of the abstract queue, or none.
LEMMA FifoStep ==
  MPSCInv /\ Answering /\ [MPSCNext]_mpscVars => Answering' /\ [F!Next]_(F!vars)
<1> SUFFICES ASSUME MPSCInv, Answering, [MPSCNext]_mpscVars
             PROVE  Answering' /\ [F!Next]_(F!vars)
  OBVIOUS
<1>1. Consumer \in Threads /\ Consumer \notin Producers /\ Producers \subseteq Threads
  BY MPSCQueueAssumption DEF Threads
<1>2. CASE Begin
  BY <1>2, BeginRefines DEF F!Next
<1>3. CASE Load \/ LoadItem \/ Compare \/ Requeue \/ Recheck
  BY <1>3, LoadRefines, LookRefines DEF F!Next
<1>4. CASE Exchange(Consumer) \/ Link(Consumer)
  BY <1>1, <1>4, ExchangeRefines, LinkRefines
<1>5. CASE Take
  BY <1>5, TakeRefines DEF F!Next
<1>6. ASSUME NEW p \in Producers, Prepare(p) \/ Exchange(p) \/ Link(p)
      PROVE  Answering' /\ [F!Next]_(F!vars)
  <2>1. CASE Prepare(p)
    BY <2>1, PrepareRefines
  <2>2. CASE Exchange(p)
    BY <1>1, <2>2, ExchangeRefines DEF F!Next
  <2>3. CASE Link(p)
    BY <1>1, <2>3, LinkRefines DEF F!Next
  <2>4. QED
    BY <1>6, <2>1, <2>2, <2>3
<1>7. CASE UNCHANGED mpscVars
  <2>1. UNCHANGED <<intrusive, data, order, call, pc, tail, head, node>>
    BY <1>7 DEF mpscVars, linkVars, localVars
  <2>2. Linking' = Linking /\ Contents(order)' = Contents(order)
    BY <2>1 DEF Linking, Contents, Without, Passed
  <2>3. Answering'
    BY <2>1, <2>2 DEF Answering
  <2>4. QED
    BY <2>1, <2>2, <2>3 DEF F!vars
<1>8. QED
  BY <1>2, <1>3, <1>4, <1>5, <1>6, <1>7 DEF MPSCNext, Dequeues, Enqueues

(***************************************************************************)
(* Either queue does what FifoQueue promises, for any number of producers, *)
(* nodes and values: items come out once, in the order of the exchanges,   *)
(* and Dequeue answers "none" only when the queue was empty or a put was   *)
(* in progress during the call (MPSCQueue.h 41-52, 102-136).               *)
(***************************************************************************)
THEOREM ImplementsFifoHolds == MPSCSpec => ImplementsFifo
<1>1. MPSCInit => MPSCInv /\ Answering /\ F!Init
  BY MPSCInitInv, FifoInit
<1>2. MPSCInv /\ Answering /\ [MPSCNext]_mpscVars
        => (MPSCInv /\ Answering)' /\ [F!Next]_(F!vars)
  BY MPSCNextInv, FifoStep
<1>3. QED
  BY <1>1, <1>2, PTL DEF MPSCSpec, ImplementsFifo, F!Safety

=============================================================================
