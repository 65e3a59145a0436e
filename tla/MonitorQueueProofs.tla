------------------------- MODULE MonitorQueueProofs -------------------------
(***************************************************************************)
(* Proofs about the two queues of Threading/ that have a mutex,            *)
(* ProducerConsumerQueue and LockedQueue, for any threads and values.      *)
(***************************************************************************)
EXTENDS ProducerConsumerQueue, LockedQueue, FiniteSetTheorems, SequenceTheorems, TLAPS

(***************************************************************************)
(* ProducerConsumerQueue.  NobodySleepsOnValue is inductive with the       *)
(* types: Push counts one more value and, when somebody sleeps, one more   *)
(* thread on its way; a thread that is on its way takes a value with it or *)
(* finds none.                                                             *)
(***************************************************************************)
OnTheWay == {g \in Getters : getter[g] \in {"call", "woken"}}

PCQInv == PCQTypeOK /\ NobodySleepsOnValue

-----------------------------------------------------------------------------
\* The queue starts empty and nobody waits.
LEMMA PCQInitInv ==
  ASSUME Capacity \in Nat
  PROVE  PCQInit => PCQInv
<1>1. PCQInit => PCQTypeOK
  <2>1. PCQInit => shutdown \in BOOLEAN
    BY DEF PCQInit
  <2>2. QED
    BY <2>1 DEF PCQInit, PCQTypeOK
<1>2. PCQInit => Sleeping = {}
  BY DEF PCQInit, Sleeping
<1>3. QED
  BY <1>1, <1>2 DEF PCQInv, NobodySleepsOnValue

\* One thread more is counted once.
LEMMA OneMore ==
  ASSUME IsFiniteSet(Getters), NEW g \in Getters, g \notin OnTheWay
  PROVE  /\ Cardinality(OnTheWay) \in Nat
         /\ Cardinality(OnTheWay \union {g}) = Cardinality(OnTheWay) + 1
<1>1. IsFiniteSet(OnTheWay)
  BY FS_Subset DEF OnTheWay
<1>2. QED
  BY <1>1, FS_AddElement, FS_CardinalityType

\* One thread less, too.
LEMMA OneLess ==
  ASSUME IsFiniteSet(Getters), NEW g \in OnTheWay
  PROVE  /\ Cardinality(OnTheWay) \in Nat
         /\ Cardinality(OnTheWay \ {g}) = Cardinality(OnTheWay) - 1
<1>1. IsFiniteSet(OnTheWay)
  BY FS_Subset DEF OnTheWay
<1>2. QED
  BY <1>1, FS_RemoveElement, FS_CardinalityType

\* A thread that sleeps and is woken is on its way to the queue.
LEMMA WokenIsOnTheWay ==
  ASSUME PCQTypeOK, NEW g \in Sleeping, getter' = Woken({g})
  PROVE  /\ g \in Getters /\ g \notin OnTheWay
         /\ OnTheWay' = OnTheWay \union {g} /\ Sleeping' = Sleeping \ {g}
         /\ getter' \in [Getters -> {"idle", "call", "wait", "woken"}]
BY DEF PCQTypeOK, Sleeping, Woken, OnTheWay

-----------------------------------------------------------------------------
\* Every call, every wakeup and Cancel keep the invariant.
LEMMA PCQNextInv ==
  ASSUME IsFiniteSet(Getters), Capacity \in Nat, PCQInv, [PCQNext]_pcqVars
  PROVE  PCQInv'
<1> USE DEF PCQInv
<1>1. Cardinality(OnTheWay) \in Nat
  BY FS_Subset, FS_CardinalityType DEF OnTheWay
<1>2. NobodySleepsOnValue <=> (Sleeping # {} => ~shutdown /\ size <= Cardinality(OnTheWay))
  BY DEF NobodySleepsOnValue, OnTheWay
<1>3. NobodySleepsOnValue' <=>
        (Sleeping' # {} => ~shutdown' /\ size' <= Cardinality(OnTheWay'))
  BY DEF NobodySleepsOnValue, OnTheWay
<1>4. CASE Push
  <2>1. CASE Sleeping = {}
    <3>1. PCQTypeOK' /\ Sleeping' = {}
      BY <1>4, <2>1 DEF Push, PCQTypeOK, Sleeping
    <3>2. QED
      BY <3>1, <1>3
  <2>2. CASE Sleeping # {}
    <3>1. PICK g \in Sleeping : getter' = Woken({g})
      BY <1>4, <2>2 DEF Push
    <3>2. size \in Nat /\ size' = size + 1 /\ size' \in 0..Capacity /\ shutdown' = shutdown
      BY <1>4 DEF Push, PCQTypeOK
    <3>3. PCQTypeOK'
      BY <3>1, <3>2, WokenIsOnTheWay DEF PCQTypeOK
    <3>4. Cardinality(OnTheWay') = Cardinality(OnTheWay) + 1
      BY <3>1, WokenIsOnTheWay, OneMore
    <3>5. QED
      BY <1>1, <1>2, <1>3, <2>2, <3>2, <3>3, <3>4
  <2>3. QED
    BY <2>1, <2>2
<1>5. CASE Cancel
  <2>1. Sleeping' = {} /\ PCQTypeOK'
    BY <1>5 DEF Cancel, Woken, Sleeping, PCQTypeOK
  <2>2. QED
    BY <2>1, <1>3
<1>6. ASSUME NEW g \in Getters, Pop(g)
      PROVE  PCQInv'
  <2>1. PCQTypeOK' /\ Sleeping' = Sleeping /\ OnTheWay' = OnTheWay /\ shutdown' = shutdown
    BY <1>6 DEF Pop, PCQTypeOK, Sleeping, OnTheWay
  <2>2. size \in Nat /\ size' = size - 1
    BY <1>6 DEF Pop, PCQTypeOK
  <2>3. QED
    BY <1>1, <1>2, <1>3, <2>1, <2>2
<1>7. ASSUME NEW g \in Getters, CallWaitAndPop(g)
      PROVE  PCQInv'
  <2>1. /\ PCQTypeOK' /\ Sleeping' = Sleeping /\ g \notin OnTheWay
        /\ OnTheWay' = OnTheWay \union {g} /\ shutdown' = shutdown /\ size' = size
    BY <1>7 DEF CallWaitAndPop, PCQTypeOK, Sleeping, OnTheWay
  <2>2. Cardinality(OnTheWay') = Cardinality(OnTheWay) + 1 /\ size \in Nat
    BY <2>1, OneMore DEF PCQTypeOK
  <2>3. QED
    BY <1>1, <1>2, <1>3, <2>1, <2>2
<1>8. ASSUME NEW g \in Getters, Waits(g)
      PROVE  PCQInv'
  <2>1. PCQTypeOK' /\ size' = 0 /\ ~shutdown'
    BY <1>8 DEF Waits, PCQTypeOK
  <2>2. OnTheWay' \subseteq Getters
    BY DEF OnTheWay
  <2>3. Cardinality(OnTheWay') \in Nat
    BY <2>2, FS_Subset, FS_CardinalityType
  <2>4. QED
    BY <1>3, <2>1, <2>3
<1>9. ASSUME NEW g \in Getters, Gets(g)
      PROVE  PCQInv'
  <2>1. /\ PCQTypeOK' /\ Sleeping' = Sleeping /\ g \in OnTheWay
        /\ OnTheWay' = OnTheWay \ {g} /\ shutdown' = shutdown
    BY <1>9 DEF Gets, PCQTypeOK, Sleeping, OnTheWay
  <2>2. Cardinality(OnTheWay') = Cardinality(OnTheWay) - 1
    BY <2>1, OneLess
  <2>3. size \in Nat /\ size' = size - 1
    BY <1>9 DEF Gets, PCQTypeOK
  <2>4. QED
    BY <1>1, <1>2, <1>3, <2>1, <2>2, <2>3
<1>10. ASSUME NEW g \in Getters, ReturnsNothing(g)
       PROVE  PCQInv'
  <2>1. PCQTypeOK' /\ Sleeping' = Sleeping /\ shutdown
    BY <1>10 DEF ReturnsNothing, PCQTypeOK, Sleeping
  <2>2. QED
    BY <1>2, <1>3, <2>1
<1>11. ASSUME NEW g \in Getters, SpuriousWakeup(g)
       PROVE  PCQInv'
  <2>1. g \in Sleeping /\ size' = size /\ shutdown' = shutdown /\ size \in Nat
    BY <1>11 DEF SpuriousWakeup, PCQTypeOK
  <2>2. PCQTypeOK' /\ Cardinality(OnTheWay') = Cardinality(OnTheWay) + 1
    BY <1>11, <2>1, WokenIsOnTheWay, OneMore DEF SpuriousWakeup, PCQTypeOK
  <2>3. QED
    BY <1>1, <1>2, <1>3, <2>1, <2>2
<1>12. CASE UNCHANGED pcqVars
  BY <1>12 DEF pcqVars, PCQTypeOK, NobodySleepsOnValue, Sleeping
<1>13. QED
  BY <1>4, <1>5, <1>6, <1>7, <1>8, <1>9, <1>10, <1>11, <1>12 DEF PCQNext, WaitAndPop

-----------------------------------------------------------------------------
(***************************************************************************)
(* Push, WaitAndPop and Cancel leave nobody asleep on a value or in a      *)
(* cancelled queue, whatever the number of threads and values              *)
(* (ProducerConsumerQueue.h 24-38, 74-75, 101).                            *)
(***************************************************************************)
THEOREM NobodySleepsOnValueHolds ==
  ASSUME IsFiniteSet(Getters), Capacity \in Nat
  PROVE  PCQInit /\ [][PCQNext]_pcqVars => [](PCQTypeOK /\ NobodySleepsOnValue)
<1>1. PCQInit => PCQInv
  BY PCQInitInv
<1>2. PCQInv /\ [PCQNext]_pcqVars => PCQInv'
  BY PCQNextInv
<1>3. QED
  BY <1>1, <1>2, PTL DEF PCQInv

-----------------------------------------------------------------------------
(***************************************************************************)
(* LockedQueue.  The front of the queue is known to a user from empty()    *)
(* on: what is inductive is that nobody but a rival, who is counted as     *)
(* one, takes it away (Known), and that the lock keeps rivals out          *)
(* (Locked).                                                               *)
(***************************************************************************)
Locked == \A u \in Users : user[u] = "holds" => locked = u
Known == \A u \in Users : user[u] = "not empty" /\ ~rivals[u] => deque # <<>>

LQInv == LQTypeOK /\ Locked /\ Known /\ FrontIsWhatWasPeeked

-----------------------------------------------------------------------------
\* Append leaves the front alone.
LEMMA AppendAtBack ==
  ASSUME NEW S, NEW s \in Seq(S), NEW e \in S
  PROVE  /\ Append(s, e) \in Seq(S) /\ Append(s, e) # <<>>
         /\ s # <<>> => Head(Append(s, e)) = Head(s)
<1>1. /\ Append(s, e) \in Seq(S) /\ Len(Append(s, e)) = Len(s) + 1 /\ Len(s) \in Nat
      /\ \A i \in 1..Len(s) : Append(s, e)[i] = s[i]
  OBVIOUS
<1>2. PICK t \in Seq(S) : t = Append(s, e)
  BY <1>1
<1>3. t # <<>> /\ Head(t) = t[1]
  BY <1>1, <1>2
<1>4. CASE s # <<>>
  <2>1. 1 \in 1..Len(s) /\ Head(s) = s[1]
    BY <1>4
  <2>2. t[1] = s[1]
    BY <1>1, <1>2, <2>1, Zenon
  <2>3. QED
    BY <1>2, <1>3, <2>1, <2>2, Zenon
<1>5. QED
  BY <1>2, <1>3, <1>4, Zenon

\* The front and the rest of a sequence.
LEMMA FrontAndRest ==
  ASSUME NEW S, NEW s \in Seq(S), s # <<>>
  PROVE  Head(s) \in S /\ Tail(s) \in Seq(S)
OBVIOUS

\* Nobody has begun.
LEMMA LQInitInv == LQInit => LQInv
<1> SUFFICES ASSUME LQInit PROVE LQInv
  OBVIOUS
<1>1. \A u \in Users : user[u] = "none"
  BY DEF LQInit
<1>2. canceled \in BOOLEAN /\ rivals \in [Users -> BOOLEAN]
  BY DEF LQInit
<1>3. LQTypeOK
  BY <1>2 DEF LQInit, LQTypeOK
<1>4. QED
  BY <1>1, <1>3 DEF LQInv, Locked, Known, FrontIsWhatWasPeeked

\* The history of rivals stays a history of users.
LEMMA RivalsType ==
  ASSUME LQTypeOK, NEW u \in Users, FrontChanged(u)
  PROVE  /\ rivals' \in [Users -> BOOLEAN]
         /\ rivals'[u] = rivals[u]
         /\ \A v \in Users : v # u /\ user[v] # "none" => rivals'[v]
         /\ \A v \in Users : rivals[v] => rivals'[v]
<1>1. rivals' = [v \in Users |-> rivals[v] \/ (v # u /\ user[v] # "none")]
  BY DEF FrontChanged
<1>2. \A v \in Users : rivals[v] \in BOOLEAN
  BY DEF LQTypeOK
<1>3. QED
  BY <1>1, <1>2

\* A user that takes the front adds it to what it has.
LEMMA KeepsType ==
  ASSUME LQTypeOK, NEW u \in Users, deque # <<>>, Keeps(u)
  PROVE  /\ taken' \in [Users -> Seq(Entries)]
         /\ Tail(deque) \in Seq(Entries) /\ Head(deque) \in Entries
<1>1. deque \in Seq(Entries) /\ taken \in [Users -> Seq(Entries)]
  BY DEF LQTypeOK
<1>2. Head(deque) \in Entries /\ Tail(deque) \in Seq(Entries)
  BY <1>1, FrontAndRest
<1>3. taken[u] \in Seq(Entries)
  BY <1>1
<1>4. Append(taken[u], Head(deque)) \in Seq(Entries)
  BY <1>2, <1>3, AppendAtBack
<1>5. QED
  BY <1>1, <1>2, <1>4 DEF Keeps

-----------------------------------------------------------------------------
\* Entries come in at the back.
LEMMA AddInv ==
  ASSUME LQInv, NEW u \in Users, Add(u)
  PROVE  LQInv'
<1> USE DEF LQInv
<1>1. PICK e \in Entries : deque' = Append(deque, e)
  BY DEF Add
<1>2. /\ deque' \in Seq(Entries) /\ deque' # <<>>
      /\ deque # <<>> => Head(deque') = Head(deque)
  BY <1>1, AppendAtBack DEF LQTypeOK
<1>3. /\ locked' = locked /\ user' = user /\ ref' = ref /\ rivals' = rivals
      /\ taken' = taken /\ canceled' = canceled
  BY DEF Add
<1>4. QED
  BY <1>2, <1>3 DEF LQTypeOK, Locked, Known, FrontIsWhatWasPeeked

\* readd() and next() change the front: whoever has looked at it has a rival.
LEMMA FrontInv ==
  ASSUME LQInv, Nobody \notin Users, NEW u \in Users, Readd(u) \/ Get(u)
  PROVE  LQInv'
<1> USE DEF LQInv
<1>1. /\ locked' = locked /\ user' = user /\ ref' = ref /\ canceled' = canceled
      /\ user[u] = "none" /\ locked = Nobody /\ FrontChanged(u)
  BY DEF Readd, Get, Free
<1>2. deque' \in Seq(Entries) /\ taken' \in [Users -> Seq(Entries)]
  <2>1. CASE Readd(u)
    <3>1. deque \in Seq(Entries) /\ taken \in [Users -> Seq(Entries)]
      BY DEF LQTypeOK
    <3>2. taken[u] \in Seq(Entries) /\ <<>> \in Seq(Entries)
      BY <3>1
    <3>3. taken[u] \o deque \in Seq(Entries)
      BY <3>1, <3>2, ConcatProperties
    <3>4. QED
      BY <2>1, <3>1, <3>2, <3>3 DEF Readd
  <2>2. CASE Get(u)
    BY <2>2, KeepsType DEF Get
  <2>3. QED
    BY <2>1, <2>2
<1>3. /\ rivals' \in [Users -> BOOLEAN]
      /\ \A v \in Users : user[v] # "none" => rivals'[v]
  BY <1>1, RivalsType
<1>4. \A v \in Users : user[v] # "holds"
  BY <1>1 DEF Locked
<1>5. QED
  BY <1>1, <1>2, <1>3, <1>4 DEF LQTypeOK, Locked, Known, FrontIsWhatWasPeeked

\* A user forgets what it took, asks empty(), or the queue is cancelled.
LEMMA AsideInv ==
  ASSUME LQInv, NEW u \in Users, Forget(u) \/ Empty(u) \/ CancelQueue(u)
  PROVE  LQInv'
<1> USE DEF LQInv
<1>1. locked' = locked /\ deque' = deque /\ ref' = ref
  BY DEF Forget, Empty, CancelQueue
<1>2. CASE Forget(u) \/ CancelQueue(u)
  <2>1. user' = user /\ rivals' = rivals
    BY <1>2 DEF Forget, CancelQueue
  <2>2. canceled' \in BOOLEAN
    BY <1>2 DEF Forget, CancelQueue, LQTypeOK
  <2>3. taken' \in [Users -> Seq(Entries)]
    <3>1. taken \in [Users -> Seq(Entries)]
      BY DEF LQTypeOK
    <3>2. taken' = taken \/ taken' = [taken EXCEPT ![u] = <<>>]
      BY <1>2 DEF Forget, CancelQueue
    <3>3. <<>> \in Seq(Entries)
      OBVIOUS
    <3>4. QED
      BY <3>1, <3>2, <3>3
  <2>4. QED
    BY <1>1, <2>1, <2>2, <2>3 DEF LQTypeOK, Locked, Known, FrontIsWhatWasPeeked
<1>3. CASE Empty(u)
  <2>1. canceled' = canceled /\ taken' = taken /\ deque # <<>>
    BY <1>3 DEF Empty
  <2>2. rivals' \in [Users -> BOOLEAN] /\ \A v \in Users : v # u => rivals'[v] = rivals[v]
    BY <1>3 DEF Empty, LQTypeOK
  <2>3. /\ user' \in [Users -> {"none", "not empty", "holds", "peeked", "undefined"}]
        /\ user'[u] = "not empty" /\ \A v \in Users : v # u => user'[v] = user[v]
    BY <1>3 DEF Empty, Becomes, LQTypeOK
  <2>4. QED
    BY <1>1, <2>1, <2>2, <2>3 DEF LQTypeOK, Locked, Known, FrontIsWhatWasPeeked
<1>4. QED
  BY <1>2, <1>3

\* peek() takes a reference to the front.
LEMMA PeekInv ==
  ASSUME LQInv, Nobody \notin Users, NEW u \in Users, Peek(u)
  PROVE  LQInv'
<1> USE DEF LQInv
<1>1. /\ deque' = deque /\ canceled' = canceled /\ taken' = taken /\ rivals' = rivals
      /\ deque # <<>> /\ locked = Nobody
  BY DEF Peek
<1>2. \A v \in Users : user[v] # "holds"
  BY <1>1 DEF Locked
<1>3. /\ user' \in [Users -> {"none", "not empty", "holds", "peeked", "undefined"}]
      /\ \A v \in Users : v # u => user'[v] = user[v]
      /\ \/ user'[u] = "holds" /\ locked' = u
         \/ user'[u] = "peeked" /\ locked' = locked
  BY DEF Peek, Becomes, LQTypeOK
<1>4. /\ ref' \in [Users -> Entries \union {Nobody}] /\ ref'[u] = Head(deque)
      /\ \A v \in Users : v # u => ref'[v] = ref[v]
  <2>1. Head(deque) \in Entries /\ ref \in [Users -> Entries \union {Nobody}]
    BY <1>1, FrontAndRest DEF LQTypeOK
  <2>2. QED
    BY <2>1 DEF Peek
<1>5. QED
  BY <1>1, <1>2, <1>3, <1>4 DEF LQTypeOK, Locked, Known, FrontIsWhatWasPeeked

\* unlock(): the front is still what was peeked at.
LEMMA UnlockInv ==
  ASSUME LQInv, Nobody \notin Users, NEW u \in Users, Unlock(u)
  PROVE  LQInv'
<1> USE DEF LQInv
<1>1. /\ deque' = deque /\ canceled' = canceled /\ taken' = taken /\ rivals' = rivals
      /\ ref' = ref /\ user[u] = "holds" /\ locked = u /\ locked' = Nobody
  BY DEF Unlock
<1>2. /\ user' \in [Users -> {"none", "not empty", "holds", "peeked", "undefined"}]
      /\ user'[u] = "peeked" /\ \A v \in Users : v # u => user'[v] = user[v]
  BY DEF Unlock, Becomes, LQTypeOK
<1>3. \A v \in Users : v # u => user[v] # "holds"
  BY <1>1 DEF Locked
<1>4. QED
  BY <1>1, <1>2, <1>3 DEF LQTypeOK, Locked, Known, FrontIsWhatWasPeeked

\* pop_front() is done by the user that peeked, and rivals the others.
LEMMA PopFrontInv ==
  ASSUME LQInv, Nobody \notin Users, NEW u \in Users, PopFront(u)
  PROVE  LQInv'
<1> USE DEF LQInv
<1>1. /\ locked' = locked /\ canceled' = canceled /\ locked = Nobody /\ deque # <<>>
      /\ deque' = Tail(deque)
  BY DEF PopFront
<1>2. \A v \in Users : user[v] # "holds"
  BY <1>1 DEF Locked
<1>3. deque' \in Seq(Entries) /\ taken' \in [Users -> Seq(Entries)]
  BY <1>1, KeepsType DEF PopFront
<1>4. /\ rivals' \in [Users -> BOOLEAN]
      /\ \A v \in Users : v # u /\ user[v] # "none" => rivals'[v]
  BY RivalsType DEF PopFront
<1>5. /\ user' \in [Users -> {"none", "not empty", "holds", "peeked", "undefined"}]
      /\ user'[u] = "none" /\ \A v \in Users : v # u => user'[v] = user[v]
  BY DEF PopFront, Becomes, LQTypeOK
<1>6. ref' \in [Users -> Entries \union {Nobody}]
  BY DEF PopFront, LQTypeOK
<1>7. QED
  BY <1>1, <1>2, <1>3, <1>4, <1>5, <1>6 DEF LQTypeOK, Locked, Known, FrontIsWhatWasPeeked

\* The queue is found empty only by a user that has had a rival.
LEMMA UndefinedInv ==
  ASSUME LQInv, Nobody \notin Users, NEW u \in Users, Undefined(u)
  PROVE  LQInv'
<1> USE DEF LQInv
<1>1. /\ deque' = deque /\ canceled' = canceled /\ taken' = taken /\ rivals' = rivals
      /\ ref' = ref /\ locked = Nobody /\ locked' = u /\ deque = <<>>
      /\ user[u] \in {"not empty", "peeked"}
  BY DEF Undefined
<1>2. /\ user' \in [Users -> {"none", "not empty", "holds", "peeked", "undefined"}]
      /\ user'[u] = "undefined" /\ \A v \in Users : v # u => user'[v] = user[v]
  BY DEF Undefined, Becomes, LQTypeOK
<1>3. \A v \in Users : user[v] # "holds"
  BY <1>1 DEF Locked
<1>4. rivals[u]
  BY <1>1 DEF Known, FrontIsWhatWasPeeked
<1>5. QED
  BY <1>1, <1>2, <1>3, <1>4 DEF LQTypeOK, Locked, Known, FrontIsWhatWasPeeked

-----------------------------------------------------------------------------
\* The invariant is inductive.
LEMMA LQNextInv ==
  ASSUME LQInv, Nobody \notin Users, [LQNext]_lqVars
  PROVE  LQInv'
<1>1. CASE LQNext
  BY <1>1, AddInv, FrontInv, AsideInv, PeekInv, UnlockInv, PopFrontInv, UndefinedInv DEF LQNext
<1>2. CASE UNCHANGED lqVars
  BY <1>2 DEF lqVars, LQInv, LQTypeOK, Locked, Known, FrontIsWhatWasPeeked
<1>3. QED
  BY <1>1, <1>2

(***************************************************************************)
(* With the lock a user keeps the front it peeked at, and without it only  *)
(* a rival takes it away, however many threads use the queue               *)
(* (LockedQueue.h 27-127).                                                 *)
(***************************************************************************)
THEOREM FrontIsWhatWasPeekedHolds ==
  ASSUME Nobody \notin Users
  PROVE  LQInit /\ [][LQNext]_lqVars => [](LQTypeOK /\ FrontIsWhatWasPeeked)
<1>1. LQInv /\ [LQNext]_lqVars => LQInv'
  BY LQNextInv
<1>2. QED
  BY LQInitInv, <1>1, PTL DEF LQInv

=============================================================================
