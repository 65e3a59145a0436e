--------------------------- MODULE CtxtListProofs ---------------------------
(***************************************************************************)
(* Proofs about CtxtList, for any number of contexts and threads.          *)
(*                                                                         *)
(* The inductive invariant IInv joins the three invariants of CtxtList:    *)
(* the shape of the list (IntactUnlessTainted, SweepOnTrack) is kept only  *)
(* because the allocated contexts are split between the list and the       *)
(* threads that hold them (NoneLost), and the other way round.             *)
(***************************************************************************)
EXTENDS CtxtList, TLAPS

Distinct(s) == \A i, j \in 1..Len(s) : s[i] = s[j] => i = j

\* What holds until a removal goes wrong.
Sound ==
  /\ ~fault
  /\ alive = fresh \cup Listed
  /\ fresh \cap Listed = {}
  /\ Distinct(order)
  /\ Linked
  /\ phase = "run" => head = Newest(order)
  /\ phase = "sweep" => cursor = Newest(order) /\ (order = <<>> => head = NULL)

IInv == TypeOK /\ (~tainted => Sound)

-----------------------------------------------------------------------------
(* Sequences without one element.                                          *)

\* Drop gives a sequence over the same set.
LEMMA DropType ==
  ASSUME NEW s \in Seq(Ctx), NEW c \in Ctx
  PROVE  Drop(s, c) \in Seq(Ctx)
<1>1. CASE \E i \in 1..Len(s) : s[i] = c
  <2> DEFINE k == CHOOSE i \in 1..Len(s) : s[i] = c
  <2>1. k \in 1..Len(s)
    BY <1>1
  <2>2. Drop(s, c) = [j \in 1..(Len(s) - 1) |-> IF j < k THEN s[j] ELSE s[j + 1]]
    BY <1>1 DEF Drop
  <2> HIDE DEF k
  <2>3. QED
    BY <2>1, <2>2
<1>2. CASE ~ \E i \in 1..Len(s) : s[i] = c
  BY <1>2 DEF Drop
<1>3. QED
  BY <1>1, <1>2

\* Dropping the k-th of distinct elements closes the gap at k.
LEMMA DropAt ==
  ASSUME NEW s \in Seq(Ctx), Distinct(s), NEW k \in 1..Len(s)
  PROVE  /\ Drop(s, s[k]) \in Seq(Ctx)
         /\ Len(Drop(s, s[k])) = Len(s) - 1
         /\ \A j \in 1..(Len(s) - 1) :
              Drop(s, s[k])[j] = IF j < k THEN s[j] ELSE s[j + 1]
<1> DEFINE m == CHOOSE i \in 1..Len(s) : s[i] = s[k]
<1>1. m = k
  BY DEF Distinct
<1>2. Drop(s, s[k]) = [j \in 1..(Len(s) - 1) |-> IF j < m THEN s[j] ELSE s[j + 1]]
  BY DEF Drop
<1> HIDE DEF m
<1>3. QED
  BY <1>1, <1>2

\* The elements left are the others, still distinct.
LEMMA DropElements ==
  ASSUME NEW s \in Seq(Ctx), Distinct(s), NEW k \in 1..Len(s)
  PROVE  LET t == Drop(s, s[k])
         IN  /\ Distinct(t)
             /\ {t[i] : i \in 1..Len(t)} = {s[i] : i \in 1..Len(s)} \ {s[k]}
<1> DEFINE t == Drop(s, s[k])
<1>1. /\ Len(t) = Len(s) - 1
      /\ \A j \in 1..(Len(s) - 1) : t[j] = IF j < k THEN s[j] ELSE s[j + 1]
  BY DropAt
<1>2. Len(s) \in Nat
  OBVIOUS
<1> HIDE DEF t
<1>3. Distinct(t)
  BY <1>1, <1>2 DEF Distinct
<1>4. ASSUME NEW i \in 1..Len(t)
      PROVE  t[i] \in {s[j] : j \in 1..Len(s)} \ {s[k]}
  BY <1>1, <1>2 DEF Distinct
<1>5. ASSUME NEW j \in 1..Len(s), s[j] # s[k]
      PROVE  \E i \in 1..Len(t) : t[i] = s[j]
  <2>1. CASE j < k
    BY <1>1, <1>2, <2>1
  <2>2. CASE j > k
    <3>1. j - 1 \in 1..Len(t) /\ t[j - 1] = s[j]
      BY <1>1, <1>2, <2>2
    <3>2. QED
      BY <3>1
  <2>3. QED
    BY <1>2, <1>5, <2>1, <2>2
<1>6. {t[i] : i \in 1..Len(t)} = {s[i] : i \in 1..Len(s)} \ {s[k]}
  <2>1. {t[i] : i \in 1..Len(t)} \subseteq {s[i] : i \in 1..Len(s)} \ {s[k]}
    BY <1>4, Zenon
  <2>2. {s[i] : i \in 1..Len(s)} \ {s[k]} \subseteq {t[i] : i \in 1..Len(t)}
    BY <1>5, Zenon
  <2>3. QED
    BY <2>1, <2>2, Zenon
<1>7. QED
  BY <1>3, <1>6, Zenon DEF t

-----------------------------------------------------------------------------
(* Removal.                                                                *)

\* The neighbours of the k-th context, by cases.
LEMMA Neighbours ==
  ASSUME NEW s \in Seq(Ctx), NEW k \in 1..Len(s)
  PROVE  /\ At(s, k - 1) = IF k = 1 THEN NULL ELSE s[k - 1]
         /\ At(s, k + 1) = IF k = Len(s) THEN NULL ELSE s[k + 1]
<1>1. Len(s) \in Nat
  OBVIOUS
<1>2. k = 1 => k - 1 \notin 1..Len(s)
  BY <1>1
<1>3. k # 1 => k - 1 \in 1..Len(s)
  BY <1>1
<1>4. k = Len(s) => k + 1 \notin 1..Len(s)
  BY <1>1
<1>5. k # Len(s) => k + 1 \in 1..Len(s)
  BY <1>1
<1>6. QED
  BY <1>2, <1>3, <1>4, <1>5 DEF At

\* Unlink keeps the types.
LEMMA UnlinkType ==
  ASSUME TypeOK, NEW c \in Ctx, Unlink(c)
  PROVE  /\ alive' \subseteq Ctx
         /\ back' \in [Ctx -> Pointer]
         /\ fwd' \in [Ctx -> Pointer]
         /\ head' \in Pointer
         /\ order' \in Seq(Ctx)
         /\ fault' \in BOOLEAN
<1>1. order' \in Seq(Ctx)
  BY DropType DEF TypeOK, Unlink
<1>2. fault' \in BOOLEAN
  BY DEF Unlink, Touch
<1>3. QED
  BY <1>1, <1>2, CtxtListAssumption DEF TypeOK, Unlink, Pointer

\* In a linked list Unlink accesses allocated contexts only, leaves a linked
\* list, and moves g_pCtxtList by the links alone.
LEMMA UnlinkLinked ==
  ASSUME TypeOK, Linked, Distinct(order), Listed \subseteq alive, ~fault,
         NEW k \in 1..Len(order), Unlink(order[k])
  PROVE  /\ Linked'
         /\ ~fault'
         /\ head' = IF Len(order) = 1 THEN NULL
                    ELSE IF k = 1 THEN order[2] ELSE head
         /\ Distinct(order')
         /\ Listed' = Listed \ {order[k]}
<1> DEFINE n == Len(order)
           c == order[k]
<1>1. n \in Nat /\ n >= 1 /\ order \in Seq(Ctx) /\ order \in [1..n -> Ctx] /\ k \in 1..n
  BY DEF TypeOK
<1>2. back[c] = At(order, k - 1) /\ fwd[c] = At(order, k + 1)
  BY DEF Linked
<1>3. \A i \in 1..n : order[i] \in Ctx /\ order[i] # NULL /\ order[i] \in alive
  BY <1>1, CtxtListAssumption DEF Listed
<1>4. back[c] = (IF k = 1 THEN NULL ELSE order[k - 1])
  BY <1>1, <1>2, Neighbours
<1>5. fwd[c] = (IF k = n THEN NULL ELSE order[k + 1])
  BY <1>1, <1>2, Neighbours
<1>6. ~fault'
  <2>1. {c, back[c], fwd[c]} \subseteq alive \cup {NULL}
    BY <1>1, <1>3, <1>4, <1>5
  <2>2. fault' = (fault \/ ~({c, back[c], fwd[c]} \subseteq alive \cup {NULL}))
    BY DEF Unlink, Touch
  <2>3. QED
    BY <2>1, <2>2, Zenon
<1>7. head' = IF n = 1 THEN NULL ELSE IF k = 1 THEN order[2] ELSE head
  BY <1>1, <1>3, <1>4, <1>5 DEF Unlink
<1>8. order' = Drop(order, c)
  BY DEF Unlink
<1>9. /\ Len(order') = n - 1
      /\ \A j \in 1..(n - 1) :
           order'[j] = IF j < k THEN order[j] ELSE order[j + 1]
  BY <1>1, <1>8, DropAt
<1>10. Distinct(order') /\ Listed' = Listed \ {c}
  BY <1>1, <1>8, DropElements DEF Listed
<1>11. order' \in Seq(Ctx)
  BY <1>3, UnlinkType
<1>12. Linked'
  <2>1. back' = IF k = n \/ n = 1 THEN back
                ELSE [back EXCEPT ![order[k + 1]] = IF k = 1 THEN NULL ELSE order[k - 1]]
    BY <1>1, <1>3, <1>4, <1>5 DEF Unlink
  <2>2. fwd' = IF k = 1 \/ n = 1 THEN fwd
               ELSE [fwd EXCEPT ![order[k - 1]] = IF k = n THEN NULL ELSE order[k + 1]]
    BY <1>1, <1>3, <1>4, <1>5 DEF Unlink
  <2>3. back \in [Ctx -> Pointer] /\ fwd \in [Ctx -> Pointer]
    BY DEF TypeOK
  <2>4. \A i \in 1..n :
          /\ back[order[i]] = IF i = 1 THEN NULL ELSE order[i - 1]
          /\ fwd[order[i]] = IF i = n THEN NULL ELSE order[i + 1]
    BY <1>1, Neighbours DEF Linked
  <2>5. \A j \in 1..Len(order') :
          /\ At(order', j - 1) = IF j = 1 THEN NULL ELSE order'[j - 1]
          /\ At(order', j + 1) = IF j = Len(order') THEN NULL ELSE order'[j + 1]
    BY <1>11, Neighbours
  <2>6. Len(order') = n - 1
    BY <1>9
  <2>7. SUFFICES ASSUME NEW j \in 1..(n - 1)
                 PROVE  /\ back'[order'[j]] = IF j = 1 THEN NULL ELSE order'[j - 1]
                        /\ fwd'[order'[j]] = IF j = n - 1 THEN NULL ELSE order'[j + 1]
    <3> HIDE DEF n, c
    <3> QED
      BY <2>5, <2>6 DEF Linked
  <2> DEFINE p == IF j < k THEN j ELSE j + 1
  <2> HIDE DEF n, c
  <2>8. /\ order'[j] = order[p]
        /\ p \in 1..n
        /\ j # 1 => order'[j - 1] = IF j - 1 < k THEN order[j - 1] ELSE order[j]
        /\ j # n - 1 => order'[j + 1] = IF j + 1 < k THEN order[j + 1] ELSE order[j + 2]
    <3>1. j - 1 + 1 = j /\ j + 1 + 1 = j + 2 /\ (j # 1 => j - 1 \in 1..(n - 1))
          /\ (j # n - 1 => j + 1 \in 1..(n - 1))
      BY <1>1
    <3>2. p \in 1..n
      BY <1>1
    <3>3. QED
      BY <1>9, <3>1, <3>2
  <2>9. back'[order'[j]] = IF j = 1 THEN NULL ELSE order'[j - 1]
    <3>1. CASE j = k
      <4>1. k # n /\ n # 1 /\ p = k + 1
        BY <1>1, <3>1
      <4>2. back'[order[k + 1]] = IF k = 1 THEN NULL ELSE order[k - 1]
        BY <1>3, <2>1, <2>3, <2>8, <4>1
      <4>3. QED
        BY <1>1, <2>8, <3>1, <4>1, <4>2
    <3>2. CASE j # k
      <4>1. p # k + 1
        BY <1>1, <3>2
      <4>2. k # n => order[p] # order[k + 1]
        BY <1>1, <2>8, <4>1 DEF Distinct
      <4>3. back'[order[p]] = back[order[p]]
        BY <1>3, <2>1, <2>3, <2>8, <4>2
      <4>4. (p = 1 <=> j = 1) /\ (j # 1 => order'[j - 1] = order[p - 1])
        BY <1>1, <2>8, <3>2
      <4>5. QED
        BY <2>4, <2>8, <4>3, <4>4
    <3>3. QED
      BY <3>1, <3>2
  <2>10. fwd'[order'[j]] = IF j = n - 1 THEN NULL ELSE order'[j + 1]
    <3>1. CASE j = k - 1
      <4>1. k # 1 /\ n # 1 /\ p = k - 1
        BY <1>1, <3>1
      <4>2. fwd'[order[k - 1]] = IF k = n THEN NULL ELSE order[k + 1]
        BY <1>3, <2>2, <2>3, <2>8, <4>1
      <4>3. j # n - 1 => order'[j + 1] = order[k + 1]
        BY <1>1, <2>8, <3>1
      <4>4. j = n - 1 <=> k = n
        BY <1>1, <3>1
      <4>5. QED
        BY <2>8, <4>1, <4>2, <4>3, <4>4
    <3>2. CASE j # k - 1
      <4>1. p # k - 1
        BY <1>1, <3>2
      <4>2. k # 1 => order[p] # order[k - 1]
        BY <1>1, <2>8, <4>1 DEF Distinct
      <4>3. fwd'[order[p]] = fwd[order[p]]
        BY <1>3, <2>2, <2>3, <2>8, <4>2
      <4>4. (p = n <=> j = n - 1) /\ (j # n - 1 => order'[j + 1] = order[p + 1])
        BY <1>1, <2>8, <3>2
      <4>5. QED
        BY <2>4, <2>8, <4>3, <4>4
    <3>3. QED
      BY <3>1, <3>2
  <2>11. QED
    BY <2>9, <2>10
<1>13. QED
  BY <1>6, <1>7, <1>10, <1>12

\* From an intact list, Unlink leaves an intact one exactly when Benign.
LEMMA UnlinkExact ==
  ASSUME TypeOK, Intact, Distinct(order), Listed \subseteq alive, ~fault,
         NEW k \in 1..Len(order), Unlink(order[k])
  PROVE  Linked' /\ (Intact' <=> Benign(order[k]))
<1> DEFINE n == Len(order)
<1>1. n \in Nat /\ n >= 1 /\ order \in Seq(Ctx) /\ order \in [1..n -> Ctx] /\ k \in 1..n
  BY DEF TypeOK
<1>2. \A i \in 1..n : order[i] # NULL
  BY <1>1, CtxtListAssumption
<1>3. /\ Linked'
      /\ head' = IF n = 1 THEN NULL ELSE IF k = 1 THEN order[2] ELSE head
  BY UnlinkLinked DEF Intact
<1>4. head = order[n]
  BY <1>1 DEF Intact, Newest, At
<1>5. /\ Len(order') = n - 1
      /\ \A j \in 1..(n - 1) :
           order'[j] = IF j < k THEN order[j] ELSE order[j + 1]
  BY <1>1, DropAt DEF Unlink
<1>6. Newest(order') = IF n = 1 THEN NULL
                       ELSE IF k = n THEN order[n - 1] ELSE order[n]
  <2>1. CASE n = 1
    BY <1>5, <2>1 DEF Newest, At
  <2>2. CASE n # 1
    <3>1. n - 1 \in 1..(n - 1)
      BY <1>1, <2>2
    <3>2. Newest(order') = order'[n - 1]
      BY <1>5, <3>1 DEF Newest, At
    <3> HIDE DEF n
    <3>3. n - 1 + 1 = n /\ (k = n => n - 1 < k) /\ (k # n => ~(n - 1 < k))
      BY <1>1
    <3>4. QED
      BY <1>5, <2>2, <3>1, <3>2, <3>3
  <2>3. QED
    BY <2>1, <2>2
<1>7. \A i, j \in 1..n : order[i] = order[j] <=> i = j
  BY DEF Distinct
<1> HIDE DEF n
<1> DEFINE good == n = 1 \/ (k # n /\ (k # 1 \/ n = 2))
<1>8. head' = Newest(order') <=> good
  <2>1. CASE n = 1
    BY <1>3, <1>6, <2>1
  <2>2. CASE n # 1 /\ k = n
    <3>1. n - 1 \in 1..n /\ n \in 1..n /\ n - 1 # n
      BY <1>1, <2>2
    <3>2. QED
      BY <1>1, <1>3, <1>4, <1>6, <1>7, <2>2, <3>1
  <2>3. CASE n # 1 /\ k # n /\ k = 1
    <3>1. 2 \in 1..n /\ n \in 1..n
      BY <1>1, <2>3
    <3>2. QED
      BY <1>3, <1>6, <1>7, <2>3, <3>1
  <2>4. CASE n # 1 /\ k # n /\ k # 1
    BY <1>3, <1>4, <1>6, <2>4
  <2>5. QED
    BY <2>1, <2>2, <2>3, <2>4
<1>9. Benign(order[k]) <=> good
  <2>1. At(order, 1) = order[1] /\ Newest(order) = order[n] /\ Len(order) = n
    BY <1>1 DEF Newest, At, n
  <2>2. 1 \in 1..n /\ n \in 1..n
    BY <1>1
  <2>3. QED
    BY <1>7, <2>1, <2>2 DEF Benign
<1>10. QED
  BY <1>3, <1>8, <1>9 DEF Intact
-----------------------------------------------------------------------------
(* Type correctness.                                                       *)

\* CtxtListFree runs inside the section, so that it can leave it.
Inside == phase = "sweep" => cs.owner = Main /\ cs.depth > 0

TInv == TypeOK /\ Inside

LEMMA TypeInvariant == TInv /\ [Next]_vars => TInv'
<1>1. SUFFICES ASSUME TypeOK, Inside, [Next]_vars
               PROVE  TypeOK' /\ Inside'
  BY DEF TInv
<1> USE <1>1, CtxtListAssumption
<1>2. ASSUME NEW t \in Threads, NEW c \in Ctx, Allocate(t, c)
      PROVE  TypeOK' /\ Inside'
  BY <1>2 DEF TypeOK, Inside, Allocate, Pointer
<1>3. ASSUME NEW t \in Threads, NEW c \in Ctx, AllocateInnerFails(t, c)
      PROVE  TypeOK' /\ Inside'
  BY <1>3 DEF TypeOK, Inside, AllocateInnerFails, Pointer
<1>4. ASSUME NEW t \in Threads, NEW c \in Ctx, AddTo(t, c)
      PROVE  TypeOK' /\ Inside'
  <2>1. fault' \in BOOLEAN
    BY <1>4 DEF AddTo, Add, Insert, Touch
  <2>2. head' = c /\ order' \in Seq(Ctx)
    BY <1>4 DEF TypeOK, AddTo, Add, Insert
  <2>3. back' \in [Ctx -> Pointer] /\ fwd' \in [Ctx -> Pointer]
    BY <1>4 DEF TypeOK, AddTo, Add, Insert, Pointer
  <2>4. QED
    BY <1>4, <2>1, <2>2, <2>3 DEF TypeOK, Inside, AddTo, Add, Pointer
<1>5. ASSUME NEW t \in Threads, NEW c \in Ctx, CloseClient(t, c)
      PROVE  TypeOK' /\ Inside'
  <2>1. tainted' \in BOOLEAN
    BY <1>5 DEF TypeOK, Inside, CloseClient, Delete
  <2>2. QED
    BY <1>5, <2>1, UnlinkType DEF TypeOK, Inside, CanEnter, CloseClient, Delete
<1>6. ASSUME NEW t \in Threads, AllocateOuterFails(t)
      PROVE  TypeOK' /\ Inside'
  BY <1>6 DEF TypeOK, Inside, AllocateOuterFails, CanEnter, Enter, listVars
<1>7. ASSUME NEW c \in Ctx, Release(c)
      PROVE  TypeOK' /\ Inside'
  BY <1>7 DEF TypeOK, Inside, Release, Free, Touch
<1>8. CASE SweepBegin
  BY <1>8 DEF TypeOK, Inside, SweepBegin, Enter, listVars
<1>9. CASE SweepStep
  <2>1. cursor \in Ctx /\ cursor' \in Pointer
    BY <1>9 DEF TypeOK, Inside, SweepStep, Pointer
  <2>2. QED
    BY <1>9, <2>1, UnlinkType DEF TypeOK, Inside, SweepStep
<1>10. CASE SweepEnd
  BY <1>10 DEF TypeOK, Inside, SweepEnd, Leave, listVars
<1>11. CASE UNCHANGED vars
  BY <1>11 DEF TypeOK, Inside, vars
<1>12. QED
  BY <1>2, <1>3, <1>4, <1>5, <1>6, <1>7, <1>8, <1>9, <1>10, <1>11 DEF Next

\* It holds at the start.
LEMMA TypeInitial == Init => TInv
<1>1. ASSUME Init
      PROVE  order \in Seq(Ctx) /\ failures \in 0..MaxFailures
  BY <1>1, CtxtListAssumption DEF Init
<1>2. ASSUME Init
      PROVE  cs \in [owner : Threads \cup {NULL}, depth : Nat]
  BY <1>2 DEF Init
<1>3. QED
  BY <1>1, <1>2 DEF Init, TInv, TypeOK, Inside, Pointer

\* Every variable keeps its type: links and g_pCtxtList are addresses or
\* null, whatever CtxtListDeleteFrom does to the list.
THEOREM TypeCorrect == Spec => []TypeOK
<1>1. TInv => TypeOK
  BY DEF TInv
<1>2. QED
  BY <1>1, TypeInitial, TypeInvariant, PTL DEF Spec

-----------------------------------------------------------------------------
(* The list until a removal goes wrong.                                    *)

\* The newest context exists unless the list is empty.
LEMMA NewestOf ==
  ASSUME NEW s \in Seq(Ctx)
  PROVE  /\ Newest(s) = NULL <=> s = <<>>
         /\ s # <<>> => Len(s) \in 1..Len(s) /\ Newest(s) = s[Len(s)] /\ s[Len(s)] \in Ctx
<1>1. Len(s) \in Nat /\ (s = <<>> <=> Len(s) = 0)
  OBVIOUS
<1>2. CASE s = <<>>
  <2>1. Len(s) \notin 1..Len(s)
    BY <1>1, <1>2
  <2>2. QED
    BY <1>2, <2>1 DEF Newest, At
<1>3. CASE s # <<>>
  <2>1. Len(s) \in 1..Len(s)
    BY <1>1, <1>3
  <2>2. s[Len(s)] \in Ctx
    BY <2>1
  <2>3. QED
    BY <1>3, <2>1, <2>2, CtxtListAssumption DEF Newest, At
<1>4. QED
  BY <1>2, <1>3

\* CtxtListAddTo puts a context that is in no list behind the newest one.
LEMMA InsertKeeps ==
  ASSUME TypeOK, Intact, Distinct(order), Listed \subseteq alive, ~fault,
         NEW c \in alive, c \notin Listed, Insert(c)
  PROVE  /\ Intact'
         /\ ~fault'
         /\ Distinct(order')
         /\ Listed' = Listed \cup {c}
<1> DEFINE n == Len(order)
<1>1. n \in Nat /\ order \in Seq(Ctx) /\ c \in Ctx /\ c # NULL
  BY CtxtListAssumption DEF TypeOK
<1>2. /\ order' \in Seq(Ctx)
      /\ Len(order') = n + 1
      /\ order'[n + 1] = c
      /\ \A i \in 1..n : order'[i] = order[i]
  BY <1>1 DEF Insert
<1>3. \A i \in 1..n : order[i] \in Ctx /\ order[i] # NULL /\ order[i] # c /\ order[i] \in alive
  BY <1>1, CtxtListAssumption DEF Listed
<1>4. head = IF n = 0 THEN NULL ELSE order[n]
  BY <1>1, NewestOf DEF Intact
<1>5. n # 0 => n \in 1..n
  BY <1>1
<1>6. ~fault'
  <2>1. {c, head} \subseteq alive \cup {NULL}
    BY <1>3, <1>4, <1>5
  <2>2. fault' = (fault \/ ~({c, head} \subseteq alive \cup {NULL}))
    BY DEF Insert, Touch
  <2>3. QED
    BY <2>1, <2>2, Zenon
<1>7. head' = Newest(order')
  <2>1. n + 1 \in 1..(n + 1)
    BY <1>1
  <2>2. QED
    BY <1>2, <2>1 DEF Insert, Newest, At
<1>8. Distinct(order') /\ Listed' = Listed \cup {c}
  <2> HIDE DEF n
  <2>1. \A i \in 1..(n + 1) : i \in 1..n \/ i = n + 1
    BY <1>1
  <2>2. 1..n \subseteq 1..(n + 1) /\ n + 1 \in 1..(n + 1)
    BY <1>1
  <2>3. \A i, j \in 1..n : order[i] = order[j] => i = j
    BY DEF Distinct, n
  <2>4. Distinct(order')
    BY <1>2, <1>3, <2>1, <2>3 DEF Distinct
  <2>5. Listed = {order[i] : i \in 1..n}
    BY DEF Listed, n
  <2>6. Listed' = {order'[i] : i \in 1..(n + 1)}
    BY <1>2 DEF Listed
  <2>7. QED
    BY <1>2, <2>1, <2>2, <2>4, <2>5, <2>6
<1>9. Linked'
  <2>1. \A i \in 1..n :
          /\ back[order[i]] = IF i = 1 THEN NULL ELSE order[i - 1]
          /\ fwd[order[i]] = IF i = n THEN NULL ELSE order[i + 1]
    BY <1>1, Neighbours DEF Intact, Linked
  <2>2. back' = [back EXCEPT ![c] = head]
    BY DEF Insert
  <2>3. fwd' = IF n = 0 THEN [fwd EXCEPT ![c] = NULL]
               ELSE [fwd EXCEPT ![c] = NULL, ![order[n]] = c]
    BY <1>3, <1>4, <1>5 DEF Insert
  <2>4. back \in [Ctx -> Pointer] /\ fwd \in [Ctx -> Pointer]
    BY DEF TypeOK
  <2>5. SUFFICES ASSUME NEW i \in 1..(n + 1)
                 PROVE  /\ back'[order'[i]] = IF i = 1 THEN NULL ELSE order'[i - 1]
                        /\ fwd'[order'[i]] = IF i = n + 1 THEN NULL ELSE order'[i + 1]
    <3>1. \A i \in 1..Len(order') :
            /\ At(order', i - 1) = IF i = 1 THEN NULL ELSE order'[i - 1]
            /\ At(order', i + 1) = IF i = Len(order') THEN NULL ELSE order'[i + 1]
      BY <1>2, Neighbours
    <3>2. QED
      BY <1>2, <3>1 DEF Linked
  <2>6. \A a, b \in 1..n : order[a] = order[b] => a = b
    BY DEF Distinct
  <2> HIDE DEF n
  <2>7. CASE i = n + 1
    <3>1. back'[c] = head
      BY <1>1, <2>2, <2>4
    <3>2. fwd'[c] = NULL
      BY <1>1, <1>3, <1>5, <2>3, <2>4
    <3>3. i # 1 => n \in 1..n /\ i - 1 = n
      BY <1>1, <2>7
    <3>4. n = 0 <=> i = 1
      BY <1>1, <2>7
    <3>5. QED
      BY <1>2, <1>4, <2>7, <3>1, <3>2, <3>3, <3>4
  <2>8. CASE i # n + 1
    <3>1. i \in 1..n /\ (i # 1 => i - 1 \in 1..n) /\ n # 0
      BY <1>1, <2>8
    <3>2. back'[order[i]] = back[order[i]]
      BY <1>3, <2>2, <2>4, <3>1
    <3>3. back'[order'[i]] = IF i = 1 THEN NULL ELSE order'[i - 1]
      BY <1>2, <2>1, <3>1, <3>2
    <3>4. CASE i = n
      <4>1. fwd'[order[n]] = c /\ order'[n + 1] = c
        BY <1>2, <1>3, <2>3, <2>4, <3>1, <3>4
      <4>2. QED
        BY <1>2, <2>8, <3>1, <3>3, <3>4, <4>1
    <3>5. CASE i # n
      <4>1. i + 1 \in 1..n
        BY <1>1, <3>1, <3>5
      <4>2. order[i] # order[n]
        BY <1>5, <2>6, <3>1, <3>5
      <4>3. fwd'[order[i]] = fwd[order[i]]
        BY <1>3, <2>3, <2>4, <3>1, <4>2
      <4>4. QED
        BY <1>2, <2>1, <2>8, <3>1, <3>3, <3>5, <4>1, <4>3
    <3>6. QED
      BY <2>8, <3>3, <3>4, <3>5
  <2>9. QED
    BY <2>7, <2>8
<1>10. QED
  BY <1>6, <1>7, <1>8, <1>9 DEF Intact

\* Every step keeps the list sound as long as it does not taint it.
LEMMA SoundStep ==
  ASSUME IInv, Inside, [Next]_vars, ~tainted'
  PROVE  Sound'
<1>1. TypeOK /\ order \in Seq(Ctx) /\ alive \subseteq Ctx
  BY DEF IInv, TypeOK
<1>2. tainted \in BOOLEAN /\ phase \in {"run", "sweep"} /\ fault \in BOOLEAN
  BY DEF IInv, TypeOK
<1>3. ASSUME NEW t \in Threads, NEW c \in Ctx, Allocate(t, c)
      PROVE  Sound'
  <2>1. Sound /\ phase = "run"
    BY <1>3 DEF Allocate, CanEnter, IInv
  <2>2. \A i \in 1..Len(order) : order[i] \in Ctx /\ order[i] # c
    BY <1>1, <1>3, <2>1 DEF Allocate, Sound, Listed
  <2>3. Linked'
    BY <1>3, <2>1, <2>2 DEF Allocate, Sound, Linked, IInv, TypeOK, At
  <2>4. c \notin Listed
    BY <1>3, <2>1 DEF Allocate, Sound
  <2>5. QED
    BY <1>3, <2>1, <2>3, <2>4
       DEF Allocate, Sound, Listed, Distinct, Newest, At
<1>4. ASSUME NEW t \in Threads, NEW c \in Ctx, AddTo(t, c)
      PROVE  Sound'
  <2>1. Sound /\ phase = "run" /\ phase' = "run"
    BY <1>4 DEF AddTo, Add, CanEnter, IInv
  <2>2. c \in alive /\ c \notin Listed /\ Intact /\ Listed \subseteq alive
    BY <1>4, <2>1 DEF AddTo, Add, Sound, Intact
  <2>3. Intact' /\ ~fault' /\ Distinct(order') /\ Listed' = Listed \cup {c}
    BY <1>1, <1>4, <2>1, <2>2, InsertKeeps DEF AddTo, Add, Sound
  <2>4. alive' = alive /\ fresh' = fresh \ {c} /\ c \in fresh
    BY <1>4 DEF AddTo, Add
  <2>5. QED
    BY <2>1, <2>3, <2>4 DEF Sound, Intact
<1>5. ASSUME NEW t \in Threads, NEW c \in Ctx, CloseClient(t, c)
      PROVE  Sound'
  <2>1. Sound /\ phase = "run" /\ phase' = "run" /\ Benign(c)
    BY <1>2, <1>5 DEF CloseClient, Delete, CanEnter, IInv
  <2>2. PICK k \in 1..Len(order) : order[k] = c
    BY <1>5 DEF CloseClient, Delete
  <2>3. Intact /\ Listed \subseteq alive /\ Unlink(order[k])
    BY <1>5, <2>1, <2>2 DEF Sound, Intact, CloseClient, Delete
  <2>4. Intact'
    BY <1>1, <2>1, <2>2, <2>3, UnlinkExact DEF Sound
  <2>5. ~fault' /\ Distinct(order') /\ Listed' = Listed \ {c}
    BY <1>1, <2>1, <2>2, <2>3, UnlinkLinked DEF Sound
  <2>6. alive' = alive \ {c} /\ fresh' = fresh /\ c \in Listed
    BY <1>5, <2>2 DEF CloseClient, Delete, Unlink, Listed
  <2>7. QED
    BY <2>1, <2>4, <2>5, <2>6 DEF Sound, Intact
<1>6. ASSUME NEW t \in Threads, AllocateOuterFails(t)
      PROVE  Sound'
  BY <1>6 DEF AllocateOuterFails, CanEnter, listVars, IInv, Sound, Linked,
              Listed, Distinct, Newest, At
<1>7. ASSUME NEW c \in Ctx, Release(c)
      PROVE  Sound'
  <2>1. Sound /\ c \in fresh /\ c \in alive /\ c \notin Listed
    BY <1>7 DEF Release, Free, IInv, Sound
  <2>2. ~fault'
    BY <1>7, <2>1, Zenon DEF Release, Free, Touch, Sound
  <2>3. fresh' = fresh \ {c} /\ alive' = alive \ {c}
    BY <1>7 DEF Release, Free
  <2>4. QED
    BY <1>7, <2>1, <2>2, <2>3 DEF Release, Free, Sound, Linked, Listed, Distinct, Newest, At
<1>8. CASE SweepBegin
  BY <1>1, <1>8, NewestOf DEF SweepBegin, CanEnter, listVars, IInv, Sound, Linked,
              Listed, Distinct, Newest, At
<1>9. CASE SweepStep
  <2>1. Sound /\ phase = "sweep" /\ phase' = "sweep" /\ cursor = Newest(order)
    BY <1>9 DEF SweepStep, IInv, Sound
  <2> DEFINE n == Len(order)
  <2>2. n \in 1..n /\ cursor = order[n] /\ order # <<>>
    BY <1>1, <1>9, <2>1, NewestOf DEF SweepStep
  <2>3. Listed \subseteq alive /\ Unlink(order[n]) /\ cursor' = back[order[n]]
    BY <1>9, <2>1, <2>2 DEF Sound, SweepStep
  <2>4. /\ Linked'
        /\ ~fault'
        /\ head' = IF n = 1 THEN NULL ELSE head
        /\ Distinct(order')
        /\ Listed' = Listed \ {cursor}
    <3>1. n = 1 \/ n # 1
      OBVIOUS
    <3>2. QED
      BY <1>1, <2>1, <2>2, <2>3, UnlinkLinked DEF Sound
  <2>5. alive' = alive \ {cursor} /\ fresh' = fresh /\ cursor \in Listed
    BY <1>9, <2>2 DEF SweepStep, Unlink, Listed
  <2>6. order' \in Seq(Ctx) /\ Len(order') = n - 1
        /\ \A j \in 1..(n - 1) : order'[j] = order[j]
    BY <1>1, <2>1, <2>2, <2>3, DropAt DEF Unlink, Sound
  <2>7. cursor' = IF n = 1 THEN NULL ELSE order[n - 1]
    BY <1>1, <2>1, <2>2, <2>3, Neighbours DEF Sound, Linked
  <2>8. n \in Nat
    BY <1>1
  <2> HIDE DEF n
  <2>9. order' = <<>> <=> n = 1
    BY <2>2, <2>6, <2>8
  <2>10. n # 1 => n - 1 \in 1..(n - 1)
    BY <2>2, <2>8
  <2>11. cursor' = Newest(order')
    BY <2>6, <2>7, <2>9, <2>10, NewestOf
  <2>12. QED
    BY <2>1, <2>4, <2>5, <2>9, <2>11 DEF Sound
<1>10. CASE SweepEnd
  BY <1>1, <1>10, NewestOf DEF SweepEnd, listVars, IInv, Sound, Linked,
              Listed, Distinct, Newest, At
<1>11. CASE UNCHANGED vars
  BY <1>11 DEF vars, IInv, Sound, Linked, Listed, Distinct, Newest, At
<1>12. ASSUME NEW t \in Threads, NEW c \in Ctx, AllocateInnerFails(t, c)
       PROVE  Sound'
  BY <1>12 DEF AllocateInnerFails
<1>13. QED
  BY <1>3, <1>4, <1>5, <1>6, <1>7, <1>8, <1>9, <1>10, <1>11, <1>12 DEF Next

\* IInv is inductive and holds at the start.
LEMMA Invariance == Spec => [](IInv /\ Inside)
<1>1. Init => IInv /\ Inside
  <2>1. ASSUME Init
        PROVE  Sound
    <3>1. Newest(order) = NULL
      BY <2>1, NewestOf, TypeInitial DEF Init, TInv, TypeOK
    <3>2. \A i \in 1..Len(order) : FALSE
      BY <2>1 DEF Init
    <3>3. Listed = {} /\ Linked /\ Distinct(order)
      BY <3>2 DEF Linked, Listed, Distinct
    <3>4. QED
      BY <2>1, <3>1, <3>3 DEF Init, Sound
  <2>2. ASSUME Init
        PROVE  TInv
    BY <2>2, TypeInitial
  <2>3. QED
    BY <2>1, <2>2 DEF IInv, TInv
<1>2. IInv /\ Inside /\ [Next]_vars => (IInv /\ Inside)'
  BY TypeInvariant, SoundStep DEF IInv, TInv
<1>3. QED
  BY <1>1, <1>2, PTL DEF Spec

\* However many contexts and threads there are: the list is the history of
\* the list, and nothing freed is accessed, until CtxtListDeleteFrom takes a
\* context out of a place it misjudges.
THEOREM ListIntact == Spec => []IntactUnlessTainted
<1>1. IInv => IntactUnlessTainted
  BY DEF IInv, Sound, IntactUnlessTainted, Intact
<1>2. QED
  BY <1>1, Invariance, PTL

\* Until then every allocated context is listed, or with the thread that
\* allocated it, and only once.
THEOREM ListComplete == Spec => []NoneLost
<1>1. IInv => NoneLost
  BY DEF IInv, Sound, NoneLost, Distinct
<1>2. QED
  BY <1>1, Invariance, PTL

\* CtxtListFree reaches every listed context, although it frees the one
\* g_pCtxtList points to on each iteration.
THEOREM SweepReachesAll == Spec => []SweepOnTrack
<1>1. IInv => SweepOnTrack
  BY DEF IInv, Sound, SweepOnTrack
<1>2. QED
  BY <1>1, Invariance, PTL

\* Benign is exact: the removals it leaves out break an intact list.
THEOREM BenignIsExact == Spec => RemovalExact
<1>1. ASSUME IInv, NEW t \in Threads, NEW c \in Ctx,
             Intact, CloseClient(t, c), ~tainted
      PROVE  Linked' /\ (Intact' <=> Benign(c))
  <2>1. TypeOK /\ Sound /\ Listed \subseteq alive
    BY <1>1 DEF IInv, Sound
  <2>2. PICK k \in 1..Len(order) : order[k] = c
    BY <1>1 DEF CloseClient, Delete
  <2>3. Unlink(order[k])
    BY <1>1, <2>2 DEF CloseClient, Delete
  <2>4. QED
    BY <1>1, <2>1, <2>2, <2>3, UnlinkExact DEF Sound
<1>2. IInv => [\A t \in Threads, c \in Ctx :
                 Intact /\ CloseClient(t, c) /\ ~tainted
                   => Linked' /\ (Intact' <=> Benign(c))]_vars
  BY <1>1
<1>3. QED
  BY <1>2, Invariance, PTL DEF RemovalExact

=============================================================================
