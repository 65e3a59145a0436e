--------------------------- MODULE IocpDemoProofs ---------------------------
(***************************************************************************)
(* Proofs about IocpDemo, for any number of workers, of AcceptEx calls, of *)
(* clients and of failures.                                                *)
(*                                                                         *)
(* Owned says who has a record.  Counts balances places, lost records and  *)
(* workers that have ended against the clients and the calls that are to   *)
(* blame; what makes it inductive is that a packet is written off when its *)
(* operation ends, and not when a worker takes it.                         *)
(***************************************************************************)
EXTENDS IocpDemo, FiniteSetTheorems, TLAPS

Wheres == {"free", "held", "queued", "answered", "lost"} \cup InKernel
Busy == {"post", "retry", "recv", "send"}
Up == main \in {"post", "close listener"}

Types ==
  /\ main \in {"post", "close listener", "close port", "exit"}
  /\ posts \in Nat /\ clients \in Nat /\ resets \in Nat /\ failures \in Nat
  /\ listening \in BOOLEAN /\ port \in BOOLEAN
  /\ listening => port /\ Up
  /\ record \in [Records -> Wheres]
  /\ type \in [Records -> {"accept", "recv", "send", None}]
  /\ outcome \in [Records -> {"ok", "zero", "reset", "error", None}]
  /\ sender \in [Records -> Workers \cup {None}]
  /\ doing \in [Workers -> {"wait", "ended"} \cup Busy]
  /\ overlp \in [Workers -> Records \cup {None}]

Owned ==
  /\ \A w \in Having : overlp[w] \in Records /\ record[overlp[w]] = "held"
  /\ \A v, w \in Having : v # w => overlp[v] # overlp[w]
  /\ \A r \in Records : record[r] = "held" => \E w \in Having : overlp[w] = r

Typed ==
  \A r \in Records : /\ record[r] = "accepting" => type[r] = "accept"
                     /\ record[r] = "receiving" => type[r] = "recv"
                     /\ record[r] = "sending" => type[r] = "send"

Accept(r) == type[r] = "accept" /\ record[r] \in {"accepting", "queued"}
Accepts == {r \in Records : Accept(r)}
(* An AcceptEx that can still lead to another one. *)
Good(r) ==
  type[r] = "accept" /\ \/ record[r] = "accepting"
                        \/ record[r] = "queued" /\ outcome[r] = "ok"
Goods == {r \in Records : Good(r)}
Error(r) == record[r] = "queued" /\ outcome[r] = "error"
Errors == {r \in Records : Error(r)}
Lost == {r \in Records : record[r] = "lost"}
Posting == {w \in Workers : doing[w] \in {"post", "retry"}}

Counts ==
  Up => /\ Cardinality(Accepts) + Cardinality(Posting) + posts <= StartAccepts
        /\ listening =>
             Cardinality(Goods) + Cardinality(Posting) + posts + resets + failures >= StartAccepts
        /\ port => /\ Cardinality(Ended) + Cardinality(Errors) <= failures
                   /\ Cardinality(Lost) + Cardinality(Errors) <= failures

IInv == Types /\ Owned /\ Typed /\ Counts

-----------------------------------------------------------------------------
LEMMA RecordsFinite ==
  /\ Records \subseteq Nat \ {None}
  /\ IsFiniteSet(Records)
  /\ \A S : S \subseteq Records \/ S \subseteq Workers =>
              IsFiniteSet(S) /\ Cardinality(S) \in Nat
<1>1. StartAccepts + MaxClients \in Nat
  BY IocpDemoAssumption
<1>2. IsFiniteSet(Records)
  BY <1>1, FS_Interval DEF Records
<1>3. \A S : S \subseteq Records \/ S \subseteq Workers => IsFiniteSet(S)
  BY <1>2, IocpDemoAssumption, FS_Subset
<1>4. QED
  BY <1>1, <1>2, <1>3, IocpDemoAssumption, FS_CardinalityType DEF Records

\* A worker has a record of its own, by its place.
LEMMA HasRecord ==
  ASSUME Types, Owned, NEW w \in Workers, doing[w] \in Busy
  PROVE  overlp[w] \in Records /\ record[overlp[w]] = "held"
BY DEF Owned, Having, Busy

LEMMA InitTypes == DemoInit => Types
<1> SUFFICES ASSUME DemoInit PROVE Types
  OBVIOUS
<1> USE IocpDemoAssumption DEF DemoInit, Types, Up, Wheres, InKernel, Busy
<1>1. main = "post" /\ posts \in Nat /\ clients \in Nat /\ resets \in Nat /\ failures \in Nat
  OBVIOUS
<1>5. listening \in BOOLEAN /\ port \in BOOLEAN /\ (listening => port /\ Up)
  BY Zenon
<1>2. /\ record \in [Records -> Wheres] /\ type \in [Records -> {"accept", "recv", "send", None}]
      /\ outcome \in [Records -> {"ok", "zero", "reset", "error", None}]
      /\ sender \in [Records -> Workers \cup {None}]
  OBVIOUS
<1>3. doing \in [Workers -> {"wait", "ended"} \cup Busy] /\ overlp \in [Workers -> Records \cup {None}]
  OBVIOUS
<1>4. QED
  BY <1>1, <1>5, <1>2, <1>3

LEMMA FailsNat ==
  ASSUME Types
  PROVE  /\ Fails => failures' \in Nat
         /\ clients + 1 \in Nat /\ resets + 1 \in Nat
<1>1. failures \in Nat /\ clients \in Nat /\ resets \in Nat
  BY DEF Types
<1>2. QED
  BY <1>1 DEF Fails

LEMMA NextTypes ==
  ASSUME Types, Owned, DemoNext
  PROVE  Types'
<1> USE DEF Types, Up, Wheres, InKernel, Busy
<1>1. ASSUME NEW r \in Records, CallAcceptEx(r)
      PROVE  /\ record' \in [Records -> Wheres] /\ type' \in [Records -> {"accept", "recv", "send", None}]
             /\ UNCHANGED <<outcome, sender>>
  BY <1>1 DEF CallAcceptEx, Becomes
<1>2. ASSUME NEW r \in Records, NEW s \in {"ok", "zero", "reset", "error"}, Completes(r, s)
      PROVE  /\ record' \in [Records -> Wheres]
             /\ outcome' \in [Records -> {"ok", "zero", "reset", "error", None}]
             /\ sender' \in [Records -> Workers \cup {None}]
             /\ UNCHANGED <<main, posts, listening, port, type, doing, overlp>>
  BY <1>2 DEF Completes, Forget, serverVars, workerVars
<1>3. Fails => failures' \in Nat
  BY FailsNat
<1>4. CASE MainPosts
  <2>1. posts' \in Nat
    BY <1>4 DEF MainPosts
  <2>2. QED
    BY <1>1, <1>3, <1>4, <2>1 DEF MainPosts, recordVars, workerVars
<1>5. CASE MainReads
  BY <1>5 DEF MainReads, recordVars, workerVars
<1>6. CASE CloseListener \/ ClosePort
  <2>1. record' \in [Records -> Wheres]
    BY <1>6 DEF CloseListener, ClosePort
  <2>2. outcome' \in [Records -> {"ok", "zero", "reset", "error", None}]
    BY <1>6 DEF CloseListener, ClosePort
  <2>3. listening' = FALSE
    <3>1. main = "close port" => listening = FALSE
      OBVIOUS
    <3>2. QED
      BY <1>6, <3>1, Zenon DEF CloseListener, ClosePort
  <2>5. /\ main' \in {"close port", "exit"} /\ port' \in {FALSE, port}
        /\ UNCHANGED <<posts, type, sender, doing, overlp, clients, resets, failures>>
    BY <1>6 DEF CloseListener, ClosePort, workerVars
  <2>6. port' \in BOOLEAN
    BY <2>5, Zenon
  <2>4. QED
    BY <2>1, <2>2, <2>3, <2>5, <2>6
<1>7. ASSUME NEW r \in Records, Connects(r)
      PROVE  Types'
  <2>1. clients' \in Nat /\ resets' \in Nat
    BY <1>7, FailsNat DEF Connects
  <2>2. QED
    BY <1>2, <1>7, <2>1 DEF Connects
<1>8. ASSUME NEW r \in Records, Talks(r) \/ SendEnds(r) \/ OperationFails(r)
      PROVE  Types'
  BY <1>2, <1>3, <1>8 DEF Talks, SendEnds, OperationFails
<1>9. ASSUME NEW w \in Workers, NEW r \in Records,
             \/ GetsReset(w, r) \/ GetsError(w, r) \/ GetsAccept(w, r)
             \/ GetsBytes(w, r) \/ GetsClosed(w, r) \/ GetsSent(w, r)
      PROVE  Types'
  <2>1. /\ UNCHANGED <<main, posts, listening, port, sender, clients, resets, failures>>
        /\ outcome' \in [Records -> {"ok", "zero", "reset", "error", None}]
    BY <1>9 DEF GetsReset, GetsError, GetsAccept, GetsBytes, GetsClosed, GetsSent, Gets, Forget,
                serverVars
  <2>2. record' \in [Records -> Wheres] /\ type' \in [Records -> {"accept", "recv", "send", None}]
    BY <1>9 DEF GetsReset, GetsError, GetsAccept, GetsBytes, GetsClosed, GetsSent, Closes, Becomes,
                Forget, Has
  <2>3. doing' \in [Workers -> {"wait", "ended"} \cup Busy] /\ overlp' \in [Workers -> Records \cup {None}]
    BY <1>9 DEF GetsReset, GetsError, GetsAccept, GetsBytes, GetsClosed, GetsSent, Closes, Continue,
                Does, Has
  <2>4. QED
    BY <2>1, <2>2, <2>3
<1>10. ASSUME NEW w \in Workers, GetsNothing(w)
       PROVE  Types'
  BY <1>10 DEF GetsNothing, Does, serverVars, recordVars
<1>11. ASSUME NEW w \in Workers, Reposts(w)
       PROVE  Types'
  <2>1. doing' \in [Workers -> {"wait", "ended"} \cup Busy]
    BY <1>11 DEF Reposts, Does
  <2>2. /\ record' \in [Records -> Wheres] /\ type' \in [Records -> {"accept", "recv", "send", None}]
        /\ UNCHANGED <<outcome, sender>>
    BY <1>1, <1>11 DEF Reposts, recordVars
  <2>3. failures' \in Nat
    BY <1>3, <1>11 DEF Reposts
  <2>4. UNCHANGED <<main, posts, listening, port, overlp, clients, resets>>
    BY <1>11 DEF Reposts, serverVars
  <2>5. QED
    BY <2>1, <2>2, <2>3, <2>4
<1>12. ASSUME NEW w \in Workers, Receives(w) \/ Sends(w)
       PROVE  Types'
  <2>1. overlp[w] \in Records
    BY <1>12, HasRecord DEF Receives, Sends
  <2>2. doing' \in [Workers -> {"wait", "ended"} \cup Busy] /\ overlp' \in [Workers -> Records \cup {None}]
    BY <1>12 DEF Receives, Sends, Continue, Does
  <2>3. /\ record' \in [Records -> Wheres] /\ type' \in [Records -> {"accept", "recv", "send", None}]
        /\ UNCHANGED outcome
    BY <1>12, <2>1 DEF Receives, Sends, Becomes
  <2>7. sender' \in [Records -> Workers \cup {None}]
    BY <1>12 DEF Receives, Sends
  <2>4. failures' \in Nat
    BY <1>3, <1>12 DEF Receives, Sends
  <2>5. UNCHANGED <<main, posts, listening, port, clients, resets>>
    BY <1>12 DEF Receives, Sends, serverVars
  <2>6. QED
    BY <2>2, <2>3, <2>4, <2>5, <2>7
<1>13. QED
  BY <1>4, <1>5, <1>6, <1>7, <1>8, <1>9, <1>10, <1>11, <1>12 DEF DemoNext, Worker

-----------------------------------------------------------------------------
LEMMA InitOwned == DemoInit => Owned /\ Typed
BY DEF DemoInit, Owned, Typed, Having

\* Records that nobody has change.
LEMMA OwnedKept ==
  ASSUME Types, Owned, Types',
         \A q \in Records : record'[q] = "held" <=> record[q] = "held",
         \A w \in Workers : w \in Having' <=> w \in Having,
         UNCHANGED overlp
  PROVE  Owned'
<1>1. \A w \in Having' : w \in Having /\ overlp'[w] = overlp[w]
  BY DEF Having
<1>2. \A w \in Having : w \in Having'
  BY DEF Having
<1>3. QED
  BY <1>1, <1>2 DEF Owned

\* Fresh calls of AcceptEx, completions, and the end of the server.
LEMMA OthersRecords ==
  ASSUME Types, Typed
  PROVE  /\ \A r \in Records : CallAcceptEx(r) =>
              /\ \A q \in Records : record'[q] = "held" <=> record[q] = "held"
              /\ Typed'
         /\ \A r \in Records, s \in {"ok", "zero", "reset", "error"} :
              Completes(r, s) /\ record[r] \in InKernel =>
                /\ \A q \in Records : record'[q] = "held" <=> record[q] = "held"
                /\ Typed'
         /\ CloseListener \/ ClosePort =>
              /\ \A q \in Records : record'[q] = "held" <=> record[q] = "held"
              /\ Typed'
<1> USE DEF Types, Typed, InKernel
<1>1. ASSUME NEW r \in Records, CallAcceptEx(r)
      PROVE  /\ \A q \in Records : record'[q] = "held" <=> record[q] = "held"
             /\ Typed'
  <2>1. /\ record[r] = "free" /\ record' = [record EXCEPT ![r] = "accepting"]
        /\ type' = [type EXCEPT ![r] = "accept"]
    BY <1>1 DEF CallAcceptEx, Becomes
  <2>2. QED
    BY <2>1
<1>2. ASSUME NEW r \in Records, NEW s \in {"ok", "zero", "reset", "error"},
             Completes(r, s), record[r] \in InKernel
      PROVE  /\ \A q \in Records : record'[q] = "held" <=> record[q] = "held"
             /\ Typed'
  <2>1. /\ type' = type
        /\ \E x \in {"queued", "lost"} : record' = [record EXCEPT ![r] = x]
    BY <1>2 DEF Completes
  <2>2. QED
    BY <1>2, <2>1
<1>3. ASSUME CloseListener \/ ClosePort
      PROVE  /\ \A q \in Records : record'[q] = "held" <=> record[q] = "held"
             /\ Typed'
  BY <1>3 DEF CloseListener, ClosePort
<1>4. QED
  BY <1>1, <1>2, <1>3

LEMMA NextOwned ==
  ASSUME Types, Owned, Typed, DemoNext, Types'
  PROVE  Owned' /\ Typed'
<1> USE DEF Having
<1>1. CASE MainPosts
  <2>1. UNCHANGED <<doing, overlp>> /\ ((\E r \in Records : CallAcceptEx(r)) \/ UNCHANGED <<record, type>>)
    BY <1>1 DEF MainPosts, workerVars, recordVars
  <2>2. (\A q \in Records : record'[q] = "held" <=> record[q] = "held") /\ Typed'
    BY <2>1, OthersRecords DEF Typed
  <2>3. QED
    BY <2>1, <2>2, OwnedKept
<1>2. CASE MainReads
  <2>1. UNCHANGED <<doing, overlp, record, type>>
    BY <1>2 DEF MainReads, workerVars, recordVars
  <2>2. QED
    BY <2>1, OwnedKept DEF Typed
<1>3. CASE CloseListener \/ ClosePort
  <2>1. UNCHANGED <<doing, overlp>>
    BY <1>3 DEF CloseListener, ClosePort, workerVars
  <2>2. QED
    BY <1>3, <2>1, OthersRecords, OwnedKept
<1>4. ASSUME NEW r \in Records, Connects(r) \/ Talks(r) \/ SendEnds(r) \/ OperationFails(r)
      PROVE  Owned' /\ Typed'
  <2>1. /\ record[r] \in InKernel
        /\ \E s \in {"ok", "zero", "reset", "error"} : Completes(r, s)
    BY <1>4 DEF Connects, Talks, SendEnds, OperationFails, InKernel
  <2>2. UNCHANGED <<doing, overlp>>
    BY <2>1 DEF Completes, workerVars
  <2>3. QED
    BY <2>1, <2>2, OthersRecords, OwnedKept
<1>5. ASSUME NEW w \in Workers, NEW r \in Records, GetsAccept(w, r) \/ GetsBytes(w, r)
      PROVE  Owned' /\ Typed'
  <2>1. /\ doing[w] = "wait" /\ record[r] = "queued" /\ type' = type
        /\ record' = [record EXCEPT ![r] = "held"] /\ overlp' = [overlp EXCEPT ![w] = r]
        /\ \E at \in {"post", "send"} : doing' = [doing EXCEPT ![w] = at]
    BY <1>5 DEF GetsAccept, GetsBytes, Gets, Becomes, Does, Has
  <2>2. /\ record'[r] = "held" /\ \A q \in Records \ {r} : record'[q] = record[q]
        /\ overlp'[w] = r /\ \A v \in Workers \ {w} : overlp'[v] = overlp[v]
        /\ w \notin Having /\ w \in Having' /\ \A v \in Workers \ {w} : v \in Having' <=> v \in Having
    BY <2>1 DEF Types
  <2>3. \A v \in Having : overlp[v] \in Records \ {r}
    BY <2>1 DEF Owned
  <2>4. Having \subseteq Workers /\ Having' \subseteq Workers
    OBVIOUS
  <2> HIDE DEF Having
  <2>5. Owned'
    <3>1. \A v \in Having' : overlp'[v] \in Records /\ record'[overlp'[v]] = "held"
      BY <2>2, <2>3, <2>4 DEF Owned
    <3>2. \A u, v \in Having' : u # v => overlp'[u] # overlp'[v]
      BY <2>2, <2>3, <2>4 DEF Owned
    <3>3. \A q \in Records : record'[q] = "held" => \E v \in Having' : overlp'[v] = q
      BY <2>2, <2>3, <2>4 DEF Owned
    <3>4. QED
      BY <3>1, <3>2, <3>3 DEF Owned
  <2>6. QED
    BY <2>1, <2>2, <2>5 DEF Typed
<1>6. ASSUME NEW w \in Workers, NEW r \in Records,
             GetsReset(w, r) \/ GetsError(w, r) \/ GetsClosed(w, r) \/ GetsSent(w, r)
      PROVE  Owned' /\ Typed'
  <2>1. /\ doing[w] = "wait" /\ record[r] = "queued"
        /\ \E x \in {"free", "lost", "answered"} : record' = [record EXCEPT ![r] = x]
        /\ \A q \in Records \ {r} : type'[q] = type[q]
        /\ \A v \in Workers \ {w} : overlp'[v] = overlp[v]
        /\ \E at \in {"wait", "ended"} : doing' = [doing EXCEPT ![w] = at]
    BY <1>6 DEF GetsReset, GetsError, GetsClosed, GetsSent, Closes, Gets, Becomes, Forget, Continue,
                Does, Has, Types
  <2>2. /\ record'[r] \in {"free", "lost", "answered"} /\ \A q \in Records \ {r} : record'[q] = record[q]
        /\ w \notin Having /\ w \notin Having' /\ \A v \in Workers \ {w} : v \in Having' <=> v \in Having
    BY <2>1 DEF Types
  <2>3. Having \subseteq Workers /\ Having' \subseteq Workers /\ Having' = Having
    BY <2>2
  <2> HIDE DEF Having
  <2>4. \A v \in Having : overlp'[v] = overlp[v]
    BY <2>1, <2>2, <2>3
  <2>5. Owned'
    <3>1. \A v \in Having : overlp'[v] \in Records \ {r} /\ record'[overlp'[v]] = "held"
      BY <2>1, <2>2, <2>4 DEF Owned
    <3>2. \A q \in Records : record'[q] = "held" => record[q] = "held"
      BY <2>2
    <3>3. QED
      BY <2>3, <2>4, <3>1, <3>2 DEF Owned
  <2>6. QED
    BY <2>1, <2>2, <2>5 DEF Typed
<1>7. ASSUME NEW w \in Workers, GetsNothing(w) \/ Reposts(w)
      PROVE  Owned' /\ Typed'
  <2>1. /\ overlp' = overlp /\ ((\E r \in Records : CallAcceptEx(r)) \/ UNCHANGED <<record, type>>)
        /\ \E at \in {"recv", "retry", "ended"} :
             doing' = [doing EXCEPT ![w] = at] /\ (at = "ended" <=> doing[w] = "wait")
    BY <1>7 DEF GetsNothing, Reposts, Does, recordVars
  <2>2. \A v \in Workers : v \in Having' <=> v \in Having
    BY <1>7, <2>1 DEF GetsNothing, Reposts, Types
  <2>3. (\A q \in Records : record'[q] = "held" <=> record[q] = "held") /\ Typed'
    BY <2>1, OthersRecords DEF Typed
  <2>4. QED
    BY <2>1, <2>2, <2>3, OwnedKept
<1>8. ASSUME NEW w \in Workers, Receives(w) \/ Sends(w)
      PROVE  Owned' /\ Typed'
  <2> DEFINE r == overlp[w]
  <2>1. doing[w] \in {"recv", "send"} /\ w \in Having /\ r \in Records /\ record[r] = "held"
    BY <1>8, HasRecord DEF Receives, Sends, Busy
  <2>2. /\ doing' = [doing EXCEPT ![w] = "wait"] /\ overlp' = [overlp EXCEPT ![w] = None]
        /\ \/ /\ type' = [type EXCEPT ![r] = "recv"]
              /\ \E x \in {"receiving", "lost"} : record' = [record EXCEPT ![r] = x]
           \/ /\ type' = [type EXCEPT ![r] = "send"]
              /\ \E x \in {"sending", "lost"} : record' = [record EXCEPT ![r] = x]
    BY <1>8 DEF Receives, Sends, Becomes, Continue, Does
  <2> HIDE DEF r
  <2>3. /\ \A q \in Records \ {r} : record'[q] = record[q] /\ type'[q] = type[q]
        /\ \/ record'[r] \in {"receiving", "lost"} /\ type'[r] = "recv"
           \/ record'[r] \in {"sending", "lost"} /\ type'[r] = "send"
    BY <2>1, <2>2 DEF Types
  <2>4. /\ w \notin Having' /\ \A v \in Workers \ {w} : v \in Having' <=> v \in Having
        /\ \A v \in Workers \ {w} : overlp'[v] = overlp[v]
    BY <2>2 DEF Types
  <2>5. Having \subseteq Workers /\ Having' = Having \ {w}
    BY <2>4
  <2> HIDE DEF Having
  <2>6. \A v \in Having \ {w} : overlp[v] \in Records \ {r}
    BY <2>1 DEF Owned, r
  <2>7. Owned'
    <3>1. \A v \in Having' : overlp'[v] = overlp[v] /\ overlp[v] \in Records \ {r} /\ record'[overlp[v]] = "held"
      BY <2>3, <2>4, <2>5, <2>6 DEF Owned
    <3>2. \A u, v \in Having' : u # v => overlp'[u] # overlp'[v]
      BY <2>5, <3>1 DEF Owned
    <3>3. \A q \in Records : record'[q] = "held" => \E v \in Having' : overlp'[v] = q
      <4>1. ASSUME NEW q \in Records, record'[q] = "held"
            PROVE  q # r /\ record[q] = "held"
        BY <2>3, <4>1
      <4>2. ASSUME NEW q \in Records, record'[q] = "held"
            PROVE  \E v \in Having' : overlp'[v] = q
        <5>1. PICK v \in Having : overlp[v] = q
          BY <4>1, <4>2 DEF Owned
        <5>2. v # w
          BY <4>1, <4>2, <5>1 DEF r
        <5>3. QED
          BY <2>5, <3>1, <5>1, <5>2
      <4>3. QED
        BY <4>2
    <3>4. QED
      BY <3>1, <3>2, <3>3 DEF Owned
  <2>8. QED
    BY <2>3, <2>7 DEF Typed
<1>9. QED
  BY <1>1, <1>2, <1>3, <1>4, <1>5, <1>6, <1>7, <1>8 DEF DemoNext, Worker

-----------------------------------------------------------------------------
One(b) == IF b THEN 1 ELSE 0

\* Sets that differ in one member at most.
LEMMA OneMember ==
  ASSUME NEW S, NEW T, IsFiniteSet(S), IsFiniteSet(T), NEW x,
         \A y : y # x => (y \in S <=> y \in T)
  PROVE  Cardinality(T) = Cardinality(S) - One(x \in S) + One(x \in T)
<1>1. Cardinality(S) \in Nat /\ Cardinality(T) \in Nat
  BY FS_CardinalityType
<1>2. CASE x \in S /\ x \notin T
  <2>1. T = S \ {x}
    BY <1>2
  <2>2. Cardinality(T) = Cardinality(S) - 1
    BY <1>2, <2>1, FS_RemoveElement
  <2>3. QED
    BY <1>1, <1>2, <2>2 DEF One
<1>3. CASE x \notin S /\ x \in T
  <2>1. T = S \cup {x}
    BY <1>3
  <2>2. Cardinality(T) = Cardinality(S) + 1
    BY <1>3, <2>1, FS_AddElement
  <2>3. QED
    BY <1>1, <1>3, <2>2 DEF One
<1>4. CASE x \in S <=> x \in T
  <2>1. S = T
    BY <1>4
  <2>2. QED
    BY <1>1, <2>1 DEF One
<1>5. QED
  BY <1>2, <1>3, <1>4

\* What is counted.
Sizes ==
  /\ Cardinality(Accepts) \in Nat /\ Cardinality(Goods) \in Nat /\ Cardinality(Errors) \in Nat
  /\ Cardinality(Lost) \in Nat /\ Cardinality(Posting) \in Nat /\ Cardinality(Ended) \in Nat

LEMMA SizesAreNumbers == Sizes /\ Sizes'
<1>1. /\ Accepts \subseteq Records /\ Goods \subseteq Records /\ Errors \subseteq Records
      /\ Lost \subseteq Records /\ Posting \subseteq Workers /\ Ended \subseteq Workers
  BY DEF Accepts, Goods, Errors, Lost, Posting, Ended
<1>2. /\ Accepts' \subseteq Records /\ Goods' \subseteq Records /\ Errors' \subseteq Records
      /\ Lost' \subseteq Records /\ Posting' \subseteq Workers /\ Ended' \subseteq Workers
  BY DEF Accepts, Goods, Errors, Lost, Posting, Ended
<1>3. QED
  BY <1>1, <1>2, RecordsFinite DEF Sizes

RecordStep(r) ==
  \A q \in Records \ {r} : record'[q] = record[q] /\ type'[q] = type[q] /\ outcome'[q] = outcome[q]

LEMMA CountRecords ==
  ASSUME NEW r \in Records, RecordStep(r)
  PROVE  /\ Cardinality(Accepts') = Cardinality(Accepts) - One(Accept(r)) + One(Accept(r)')
         /\ Cardinality(Goods') = Cardinality(Goods) - One(Good(r)) + One(Good(r)')
         /\ Cardinality(Errors') = Cardinality(Errors) - One(Error(r)) + One(Error(r)')
         /\ Cardinality(Lost') = Cardinality(Lost) - One(record[r] = "lost") + One(record'[r] = "lost")
<1>1. /\ Accepts \subseteq Records /\ Goods \subseteq Records /\ Errors \subseteq Records
      /\ Lost \subseteq Records /\ Accepts' \subseteq Records /\ Goods' \subseteq Records
      /\ Errors' \subseteq Records /\ Lost' \subseteq Records
  BY DEF Accepts, Goods, Errors, Lost
<1>2. /\ IsFiniteSet(Accepts) /\ IsFiniteSet(Goods) /\ IsFiniteSet(Errors) /\ IsFiniteSet(Lost)
      /\ IsFiniteSet(Accepts') /\ IsFiniteSet(Goods') /\ IsFiniteSet(Errors') /\ IsFiniteSet(Lost')
  BY <1>1, RecordsFinite
<1>3. \A q : q # r => /\ q \in Accepts <=> q \in Accepts'
                      /\ q \in Goods <=> q \in Goods'
                      /\ q \in Errors <=> q \in Errors'
                      /\ q \in Lost <=> q \in Lost'
  BY DEF RecordStep, Accepts, Goods, Errors, Lost, Accept, Good, Error
<1>4. /\ (r \in Accepts <=> Accept(r)) /\ (r \in Goods <=> Good(r)) /\ (r \in Errors <=> Error(r))
      /\ (r \in Lost <=> record[r] = "lost")
  BY DEF Accepts, Goods, Errors, Lost
<1>5. /\ (r \in Accepts' <=> Accept(r)') /\ (r \in Goods' <=> Good(r)') /\ (r \in Errors' <=> Error(r)')
      /\ (r \in Lost' <=> record'[r] = "lost")
  BY DEF Accepts, Goods, Errors, Lost, Accept, Good, Error
<1>6. QED
  <2>1. /\ Cardinality(Accepts') = Cardinality(Accepts) - One(r \in Accepts) + One(r \in Accepts')
        /\ Cardinality(Goods') = Cardinality(Goods) - One(r \in Goods) + One(r \in Goods')
    BY <1>2, <1>3, OneMember
  <2>2. /\ Cardinality(Errors') = Cardinality(Errors) - One(r \in Errors) + One(r \in Errors')
        /\ Cardinality(Lost') = Cardinality(Lost) - One(r \in Lost) + One(r \in Lost')
    BY <1>2, <1>3, OneMember
  <2>3. QED
    BY <1>4, <1>5, <2>1, <2>2 DEF One

LEMMA CountWorkers ==
  ASSUME NEW w \in Workers, \A v \in Workers \ {w} : doing'[v] = doing[v]
  PROVE  /\ Cardinality(Posting') = Cardinality(Posting) - One(doing[w] \in {"post", "retry"})
                                                          + One(doing'[w] \in {"post", "retry"})
         /\ Cardinality(Ended') = Cardinality(Ended) - One(doing[w] = "ended") + One(doing'[w] = "ended")
<1>1. Posting \subseteq Workers /\ Ended \subseteq Workers /\ Posting' \subseteq Workers /\ Ended' \subseteq Workers
  BY DEF Posting, Ended
<1>2. IsFiniteSet(Posting) /\ IsFiniteSet(Ended) /\ IsFiniteSet(Posting') /\ IsFiniteSet(Ended')
  BY <1>1, RecordsFinite
<1>3. \A v : v # w => (v \in Posting <=> v \in Posting') /\ (v \in Ended <=> v \in Ended')
  BY DEF Posting, Ended
<1>4. /\ (w \in Posting <=> doing[w] \in {"post", "retry"}) /\ (w \in Ended <=> doing[w] = "ended")
      /\ (w \in Posting' <=> doing'[w] \in {"post", "retry"}) /\ (w \in Ended' <=> doing'[w] = "ended")
  BY DEF Posting, Ended
<1>5. /\ Cardinality(Posting') = Cardinality(Posting) - One(w \in Posting) + One(w \in Posting')
      /\ Cardinality(Ended') = Cardinality(Ended) - One(w \in Ended) + One(w \in Ended')
  BY <1>2, <1>3, OneMember
<1>6. QED
  BY <1>4, <1>5 DEF One

LEMMA RecordsAlone ==
  ASSUME UNCHANGED <<record, type, outcome>>
  PROVE  UNCHANGED <<Cardinality(Accepts), Cardinality(Goods), Cardinality(Errors), Cardinality(Lost)>>
BY DEF Accepts, Goods, Errors, Lost, Accept, Good, Error

LEMMA WorkersAlone ==
  ASSUME UNCHANGED doing
  PROVE  UNCHANGED <<Cardinality(Posting), Cardinality(Ended)>>
BY DEF Posting, Ended

LEMMA CountCall ==
  ASSUME Types, NEW r \in Records, CallAcceptEx(r)
  PROVE  /\ Cardinality(Accepts') = Cardinality(Accepts) + 1
         /\ Cardinality(Goods') = Cardinality(Goods) + 1
         /\ Cardinality(Errors') = Cardinality(Errors)
         /\ Cardinality(Lost') = Cardinality(Lost)
<1>1. /\ record[r] = "free" /\ record'[r] = "accepting" /\ type'[r] = "accept"
      /\ RecordStep(r)
  BY DEF CallAcceptEx, Becomes, Types, RecordStep
<1>2. /\ One(Accept(r)) = 0 /\ One(Good(r)) = 0 /\ One(Error(r)) = 0 /\ One(record[r] = "lost") = 0
      /\ One(Accept(r)') = 1 /\ One(Good(r)') = 1 /\ One(Error(r)') = 0 /\ One(record'[r] = "lost") = 0
  BY <1>1 DEF One, Accept, Good, Error
<1>3. QED
  BY <1>1, <1>2, CountRecords, SizesAreNumbers DEF Sizes

LEMMA CountCompletion ==
  ASSUME Types, Typed, NEW r \in Records, record[r] \in InKernel,
         NEW s \in {"ok", "zero", "reset", "error"}, Completes(r, s)
  PROVE  /\ Cardinality(Accepts') <= Cardinality(Accepts)
         /\ port => /\ Cardinality(Goods') = Cardinality(Goods)
                                             - One(record[r] = "accepting" /\ s # "ok")
                    /\ Cardinality(Errors') = Cardinality(Errors) + One(s = "error")
                    /\ Cardinality(Lost') = Cardinality(Lost)
<1>1. /\ record'[r] = (IF port THEN "queued" ELSE "lost") /\ type'[r] = type[r] /\ outcome'[r] = s
      /\ RecordStep(r)
  BY DEF Completes, Types, RecordStep
<1>2. /\ One(Error(r)) = 0 /\ One(record[r] = "lost") = 0
      /\ (type[r] = "accept" <=> record[r] = "accepting")
      /\ Accept(r)' => Accept(r)
  BY <1>1 DEF One, Accept, Error, InKernel, Typed
<1>3. One(Accept(r)') <= One(Accept(r))
  BY <1>2 DEF One
<1>4. Cardinality(Accepts') <= Cardinality(Accepts)
  <2>1. One(Accept(r)) \in Nat /\ One(Accept(r)') \in Nat
    BY DEF One
  <2>2. Cardinality(Accepts') = Cardinality(Accepts) - One(Accept(r)) + One(Accept(r)')
    BY <1>1, CountRecords
  <2>3. QED
    BY <1>3, <2>1, <2>2, SizesAreNumbers DEF Sizes
<1>5. ASSUME port
      PROVE  /\ Cardinality(Goods') = Cardinality(Goods) - One(record[r] = "accepting" /\ s # "ok")
             /\ Cardinality(Errors') = Cardinality(Errors) + One(s = "error")
             /\ Cardinality(Lost') = Cardinality(Lost)
  <2>1. record'[r] = "queued"
    BY <1>1, <1>5
  <2>2. /\ One(Error(r)') = One(s = "error") /\ One(record'[r] = "lost") = 0
        /\ One(Good(r)) = One(record[r] = "accepting")
        /\ One(Good(r)') = One(record[r] = "accepting" /\ s = "ok")
    BY <1>1, <1>2, <2>1 DEF One, Error, Good, InKernel
  <2>3. One(record[r] = "accepting") - One(record[r] = "accepting" /\ s = "ok")
          = One(record[r] = "accepting" /\ s # "ok")
    BY DEF One
  <2>4. /\ Cardinality(Goods') = Cardinality(Goods) - One(Good(r)) + One(Good(r)')
        /\ Cardinality(Errors') = Cardinality(Errors) - One(Error(r)) + One(Error(r)')
        /\ Cardinality(Lost') = Cardinality(Lost) - One(record[r] = "lost") + One(record'[r] = "lost")
    BY <1>1, CountRecords
  <2>5. /\ One(s = "error") \in Nat /\ One(record[r] = "accepting") \in Nat
        /\ One(record[r] = "accepting" /\ s = "ok") \in Nat
    BY DEF One
  <2>6. QED
    BY <1>2, <2>2, <2>3, <2>4, <2>5, SizesAreNumbers DEF Sizes
<1>6. QED
  BY <1>4, <1>5

\* A packet that a worker takes.
LEMMA CountPacket ==
  ASSUME Types, NEW r \in Records, record[r] = "queued", RecordStep(r),
         record'[r] \in {"free", "held", "answered", "lost"}
  PROVE  /\ Cardinality(Accepts') = Cardinality(Accepts) - One(type[r] = "accept")
         /\ Cardinality(Goods') = Cardinality(Goods) - One(type[r] = "accept" /\ outcome[r] = "ok")
         /\ Cardinality(Errors') = Cardinality(Errors) - One(outcome[r] = "error")
         /\ Cardinality(Lost') = Cardinality(Lost) + One(record'[r] = "lost")
<1>1. /\ One(Accept(r)) = One(type[r] = "accept") /\ One(Accept(r)') = 0
      /\ One(Good(r)) = One(type[r] = "accept" /\ outcome[r] = "ok") /\ One(Good(r)') = 0
      /\ One(Error(r)) = One(outcome[r] = "error") /\ One(Error(r)') = 0
      /\ One(record[r] = "lost") = 0
  BY DEF One, Accept, Good, Error
<1>2. /\ One(type[r] = "accept") \in Nat /\ One(type[r] = "accept" /\ outcome[r] = "ok") \in Nat
      /\ One(outcome[r] = "error") \in Nat /\ One(record'[r] = "lost") \in Nat
  BY DEF One
<1>3. QED
  BY <1>1, <1>2, CountRecords, SizesAreNumbers DEF Sizes

\* A record that a worker hands to the kernel, or loses.
LEMMA CountHandOver ==
  ASSUME Types, NEW r \in Records, record[r] = "held", RecordStep(r),
         record'[r] \in {"receiving", "sending", "lost"}
  PROVE  /\ Cardinality(Accepts') = Cardinality(Accepts)
         /\ Cardinality(Goods') = Cardinality(Goods)
         /\ Cardinality(Errors') = Cardinality(Errors)
         /\ Cardinality(Lost') = Cardinality(Lost) + One(record'[r] = "lost")
<1>1. /\ One(Accept(r)) = 0 /\ One(Accept(r)') = 0 /\ One(Good(r)) = 0 /\ One(Good(r)') = 0
      /\ One(Error(r)) = 0 /\ One(Error(r)') = 0 /\ One(record[r] = "lost") = 0
      /\ One(record'[r] = "lost") \in Nat
  BY DEF One, Accept, Good, Error
<1>2. QED
  BY <1>1, CountRecords, SizesAreNumbers DEF Sizes

LEMMA InitCounts == DemoInit => Counts
<1> SUFFICES ASSUME DemoInit PROVE Counts
  OBVIOUS
<1>1. /\ Accepts = {} /\ Goods = {} /\ Errors = {} /\ Lost = {} /\ Posting = {} /\ Ended = {}
  BY DEF DemoInit, Accepts, Goods, Errors, Lost, Posting, Ended, Accept, Good, Error
<1>2. /\ Cardinality(Accepts) = 0 /\ Cardinality(Goods) = 0 /\ Cardinality(Errors) = 0
      /\ Cardinality(Lost) = 0 /\ Cardinality(Posting) = 0 /\ Cardinality(Ended) = 0
  BY <1>1, FS_EmptySet
<1>3. posts = StartAccepts /\ StartAccepts \in Nat /\ resets = 0 /\ failures \in {0, 1}
  BY IocpDemoAssumption DEF DemoInit
<1>4. QED
  BY <1>2, <1>3 DEF Counts

\* What keeps the balance.
NoMorePlaces ==
  Cardinality(Accepts') + Cardinality(Posting') + posts'
    <= Cardinality(Accepts) + Cardinality(Posting) + posts
NoFewerPlaces ==
  Cardinality(Goods) + Cardinality(Posting) + posts + resets + failures
    <= Cardinality(Goods') + Cardinality(Posting') + posts' + resets' + failures'
NoMoreBlame ==
  /\ Cardinality(Ended') + Cardinality(Errors') + failures
       <= Cardinality(Ended) + Cardinality(Errors) + failures'
  /\ Cardinality(Lost') + Cardinality(Errors') + failures
       <= Cardinality(Lost) + Cardinality(Errors) + failures'

LEMMA Balance ==
  ASSUME Types, Types', Counts, UNCHANGED <<main, listening, port>>,
         NoMorePlaces,
         listening => NoFewerPlaces,
         port => NoMoreBlame
  PROVE  Counts'
<1>1. Sizes /\ Sizes' /\ StartAccepts \in Nat
  BY SizesAreNumbers, IocpDemoAssumption
<1>2. /\ posts \in Nat /\ resets \in Nat /\ failures \in Nat
      /\ posts' \in Nat /\ resets' \in Nat /\ failures' \in Nat
  BY DEF Types
<1>3. ASSUME Up
      PROVE  Cardinality(Accepts') + Cardinality(Posting') + posts' <= StartAccepts
  <2>1. Cardinality(Accepts) + Cardinality(Posting) + posts <= StartAccepts
    BY <1>3 DEF Counts
  <2>2. QED
    BY <1>1, <1>2, <2>1 DEF Sizes, NoMorePlaces
<1>4. ASSUME Up, listening
      PROVE  Cardinality(Goods') + Cardinality(Posting') + posts' + resets' + failures' >= StartAccepts
  <2>1. Cardinality(Goods) + Cardinality(Posting) + posts + resets + failures >= StartAccepts
    BY <1>4 DEF Counts
  <2>2. NoFewerPlaces
    BY <1>4
  <2>3. QED
    BY <1>1, <1>2, <2>1, <2>2 DEF Sizes, NoFewerPlaces
<1>5. ASSUME Up, port
      PROVE  /\ Cardinality(Ended') + Cardinality(Errors') <= failures'
             /\ Cardinality(Lost') + Cardinality(Errors') <= failures'
  <2>1. /\ Cardinality(Ended) + Cardinality(Errors) <= failures
        /\ Cardinality(Lost) + Cardinality(Errors) <= failures
    BY <1>5 DEF Counts
  <2>2. NoMoreBlame
    BY <1>5
  <2>3. QED
    BY <1>1, <1>2, <2>1, <2>2 DEF Sizes, NoMoreBlame
<1>6. QED
  BY <1>3, <1>4, <1>5 DEF Counts, Up

LEMMA NextCounts ==
  ASSUME Types, Owned, Typed, Counts, DemoNext, Types'
  PROVE  Counts'
<1>1. /\ Sizes /\ Sizes' /\ StartAccepts \in Nat /\ posts \in Nat /\ resets \in Nat /\ failures \in Nat
  BY SizesAreNumbers, IocpDemoAssumption DEF Types
<1>11. (Fails => failures' = failures + 1) /\ (listening => port)
  BY DEF Types, Fails
<1>2. CASE MainPosts
  <2>1. /\ UNCHANGED <<main, listening, port, doing, resets>> /\ main = "post" /\ posts' = posts - 1
        /\ \/ (\E r \in Records : CallAcceptEx(r)) /\ UNCHANGED failures
           \/ /\ UNCHANGED <<record, type, outcome>>
              /\ (listening /\ failures' = failures + 1) \/ (~listening /\ UNCHANGED failures)
    BY <1>11, <1>2 DEF MainPosts, workerVars, recordVars
  <2>2. UNCHANGED <<Cardinality(Posting), Cardinality(Ended)>>
    BY <2>1, WorkersAlone
  <2>3. CASE (\E r \in Records : CallAcceptEx(r)) /\ UNCHANGED failures
    BY <1>1, <2>1, <2>2, <2>3, CountCall DEF Sizes, Counts, Up
  <2>4. CASE UNCHANGED <<record, type, outcome>> /\ listening /\ failures' = failures + 1
    BY <1>1, <2>1, <2>2, <2>4, RecordsAlone DEF Sizes, Counts, Up
  <2>5. CASE UNCHANGED <<record, type, outcome>> /\ ~listening /\ UNCHANGED failures
    BY <1>1, <2>1, <2>2, <2>5, RecordsAlone DEF Sizes, Counts, Up
  <2>6. QED
    BY <2>1, <2>3, <2>4, <2>5
<1>3. CASE MainReads
  <2>1. /\ UNCHANGED <<record, type, outcome, doing, posts, listening, port, resets, failures>>
        /\ main = "post"
    BY <1>3 DEF MainReads, workerVars, recordVars
  <2>2. QED
    BY <2>1, RecordsAlone, WorkersAlone DEF Counts, Up
<1>4. CASE CloseListener \/ ClosePort
  BY <1>4 DEF CloseListener, ClosePort, Counts, Up
<1>5. ASSUME NEW r \in Records, Connects(r) \/ Talks(r) \/ SendEnds(r) \/ OperationFails(r)
      PROVE  Counts'
  <2>1. PICK s \in {"ok", "zero", "reset", "error"} :
          /\ Completes(r, s) /\ record[r] \in InKernel
          /\ \/ s = "ok" /\ UNCHANGED <<resets, failures>>
             \/ s = "reset" /\ resets' = resets + 1 /\ UNCHANGED failures
             \/ s # "error" /\ record[r] # "accepting" /\ UNCHANGED <<resets, failures>>
             \/ s = "error" /\ failures' = failures + 1 /\ UNCHANGED resets
    BY <1>11, <1>5 DEF Connects, Talks, SendEnds, OperationFails, InKernel
  <2>2. UNCHANGED <<main, posts, listening, port, doing>>
    BY <2>1 DEF Completes, serverVars, workerVars
  <2>3. UNCHANGED <<Cardinality(Posting), Cardinality(Ended)>>
    BY <2>2, WorkersAlone
  <2>4. /\ Cardinality(Accepts') <= Cardinality(Accepts)
        /\ port => /\ Cardinality(Goods') = Cardinality(Goods) - One(record[r] = "accepting" /\ s # "ok")
                   /\ Cardinality(Errors') = Cardinality(Errors) + One(s = "error")
                   /\ Cardinality(Lost') = Cardinality(Lost)
    BY <2>1, CountCompletion
  <2>5. /\ One(record[r] = "accepting" /\ s # "ok") \in {0, 1} /\ One(s = "error") \in {0, 1}
        /\ One(s = "error") = 1 <=> s = "error"
        /\ s = "ok" \/ record[r] # "accepting" => One(record[r] = "accepting" /\ s # "ok") = 0
    BY DEF One
  <2> DEFINE x == One(record[r] = "accepting" /\ s # "ok")
             y == One(s = "error")
  <2>6. /\ x \in {0, 1} /\ y \in {0, 1}
        /\ x + resets + failures <= resets' + failures' /\ y + failures <= failures'
        /\ resets' \in Nat /\ failures' \in Nat
    BY <1>1, <2>1, <2>5
  <2> HIDE DEF x, y
  <2>7. /\ Cardinality(Accepts') <= Cardinality(Accepts)
        /\ port => /\ Cardinality(Goods') = Cardinality(Goods) - x
                   /\ Cardinality(Errors') = Cardinality(Errors) + y
                   /\ Cardinality(Lost') = Cardinality(Lost)
    BY <2>4 DEF x, y
  <2>8. NoMorePlaces
    BY <1>1, <2>2, <2>3, <2>7 DEF Sizes, NoMorePlaces
  <2>9. ASSUME port
        PROVE  NoFewerPlaces /\ NoMoreBlame
    <3>1. /\ Cardinality(Goods') = Cardinality(Goods) - x
          /\ Cardinality(Errors') = Cardinality(Errors) + y
          /\ Cardinality(Lost') = Cardinality(Lost)
      BY <2>7, <2>9
    <3>2. NoFewerPlaces
      <4>1. x + resets + failures <= resets' + failures' /\ x \in Nat
        BY <2>6
      <4>2. Cardinality(Posting') = Cardinality(Posting) /\ posts' = posts
        BY <2>2, <2>3
      <4>3. resets' \in Nat /\ failures' \in Nat
        BY <2>6
      <4>4. /\ Cardinality(Goods) \in Nat /\ Cardinality(Posting) \in Nat
            /\ posts \in Nat /\ resets \in Nat /\ failures \in Nat
        BY <1>1 DEF Sizes
      <4>5. \A g, p, n, e, f, z, e2, f2 \in Nat :
              z + e + f <= e2 + f2 => g + p + n + e + f <= g - z + p + n + e2 + f2
        OBVIOUS
      <4>6. Cardinality(Goods) + Cardinality(Posting) + posts + resets + failures
              <= Cardinality(Goods) - x + Cardinality(Posting) + posts + resets' + failures'
        BY <4>1, <4>3, <4>4, <4>5
      <4>7. QED
        BY <3>1, <4>2, <4>6, Zenon DEF NoFewerPlaces
    <3>3. NoMoreBlame
      BY <1>1, <2>2, <2>3, <2>6, <3>1 DEF Sizes, NoMoreBlame
    <3>4. QED
      BY <3>2, <3>3
  <2>10. QED
    BY <1>11, <2>2, <2>8, <2>9, Balance
<1>6. ASSUME NEW w \in Workers, NEW r \in Records,
             \/ GetsReset(w, r) \/ GetsError(w, r) \/ GetsAccept(w, r)
             \/ GetsBytes(w, r) \/ GetsClosed(w, r) \/ GetsSent(w, r)
      PROVE  Counts'
  <2>1. /\ doing[w] = "wait" /\ record[r] = "queued" /\ RecordStep(r)
        /\ \A v \in Workers \ {w} : doing'[v] = doing[v]
        /\ UNCHANGED <<main, posts, listening, port, resets, failures>>
        /\ \/ /\ outcome[r] = "error" /\ record'[r] = "lost" /\ doing'[w] = "ended"
           \/ /\ outcome[r] # "error" /\ ~(outcome[r] = "ok" /\ type[r] = "accept")
              /\ record'[r] \in {"free", "answered", "held"} /\ doing'[w] \in {"wait", "send"}
           \/ /\ outcome[r] = "ok" /\ type[r] = "accept"
              /\ record'[r] = "held" /\ doing'[w] = "post"
    <3>1. /\ doing[w] = "wait" /\ record[r] = "queued"
          /\ UNCHANGED <<main, posts, listening, port, resets, failures>>
          /\ outcome' = [outcome EXCEPT ![r] = None]
      BY <1>6 DEF GetsReset, GetsError, GetsAccept, GetsBytes, GetsClosed, GetsSent, Gets, Forget,
                  serverVars
    <3>2. \E x \in {"free", "lost", "held", "answered"}, at \in {"wait", "ended", "post", "send"} :
            /\ record' = [record EXCEPT ![r] = x] /\ doing' = [doing EXCEPT ![w] = at]
            /\ \/ outcome[r] = "error" /\ x = "lost" /\ at = "ended"
               \/ /\ outcome[r] # "error" /\ ~(outcome[r] = "ok" /\ type[r] = "accept")
                  /\ x \in {"free", "answered", "held"} /\ at \in {"wait", "send"}
               \/ outcome[r] = "ok" /\ type[r] = "accept" /\ x = "held" /\ at = "post"
      BY <1>6 DEF GetsReset, GetsError, GetsAccept, GetsBytes, GetsClosed, GetsSent, Closes, Becomes,
                  Continue, Does
    <3>3. type' = type \/ type' = [type EXCEPT ![r] = None]
      BY <1>6 DEF GetsReset, GetsError, GetsAccept, GetsBytes, GetsClosed, GetsSent, Closes, Forget, Has
    <3>4. RecordStep(r)
      BY <3>1, <3>2, <3>3 DEF RecordStep, Types
    <3>5. QED
      BY <3>1, <3>2, <3>4 DEF Types
  <2>2. /\ Cardinality(Accepts') = Cardinality(Accepts) - One(type[r] = "accept")
        /\ Cardinality(Goods') = Cardinality(Goods) - One(type[r] = "accept" /\ outcome[r] = "ok")
        /\ Cardinality(Errors') = Cardinality(Errors) - One(outcome[r] = "error")
        /\ Cardinality(Lost') = Cardinality(Lost) + One(record'[r] = "lost")
    BY <2>1, CountPacket
  <2>3. /\ Cardinality(Posting') = Cardinality(Posting) - One(doing[w] \in {"post", "retry"})
                                                         + One(doing'[w] \in {"post", "retry"})
        /\ Cardinality(Ended') = Cardinality(Ended) - One(doing[w] = "ended") + One(doing'[w] = "ended")
    BY <2>1, CountWorkers
  <2>8. UNCHANGED <<main, posts, listening, port, resets, failures>>
    BY <2>1
  <2>4. CASE outcome[r] = "error" /\ record'[r] = "lost" /\ doing'[w] = "ended"
    <3>1. /\ Cardinality(Accepts') <= Cardinality(Accepts) /\ Cardinality(Goods') = Cardinality(Goods)
          /\ Cardinality(Errors') = Cardinality(Errors) - 1 /\ Cardinality(Lost') = Cardinality(Lost) + 1
      BY <1>1, <2>2, <2>4 DEF Sizes, One
    <3>2. /\ Cardinality(Posting') = Cardinality(Posting) /\ Cardinality(Ended') = Cardinality(Ended) + 1
      BY <1>1, <2>1, <2>3, <2>4 DEF Sizes, One
    <3>3. NoMorePlaces /\ NoFewerPlaces /\ NoMoreBlame
      BY <1>1, <2>8, <3>1, <3>2 DEF Sizes, NoMorePlaces, NoFewerPlaces, NoMoreBlame
    <3>4. QED
      BY <2>8, <3>3, Balance
  <2>5. CASE /\ outcome[r] # "error" /\ ~(outcome[r] = "ok" /\ type[r] = "accept")
             /\ record'[r] \in {"free", "answered", "held"} /\ doing'[w] \in {"wait", "send"}
    <3>1. /\ Cardinality(Accepts') <= Cardinality(Accepts) /\ Cardinality(Goods') = Cardinality(Goods)
          /\ Cardinality(Errors') = Cardinality(Errors) /\ Cardinality(Lost') = Cardinality(Lost)
      BY <1>1, <2>2, <2>5 DEF Sizes, One
    <3>2. /\ Cardinality(Posting') = Cardinality(Posting) /\ Cardinality(Ended') = Cardinality(Ended)
      BY <1>1, <2>1, <2>3, <2>5 DEF Sizes, One
    <3>3. NoMorePlaces /\ NoFewerPlaces /\ NoMoreBlame
      BY <1>1, <2>8, <3>1, <3>2 DEF Sizes, NoMorePlaces, NoFewerPlaces, NoMoreBlame
    <3>4. QED
      BY <2>8, <3>3, Balance
  <2>6. CASE outcome[r] = "ok" /\ type[r] = "accept" /\ record'[r] = "held" /\ doing'[w] = "post"
    <3>1. /\ Cardinality(Accepts') = Cardinality(Accepts) - 1 /\ Cardinality(Goods') = Cardinality(Goods) - 1
          /\ Cardinality(Errors') = Cardinality(Errors) /\ Cardinality(Lost') = Cardinality(Lost)
      BY <1>1, <2>2, <2>6 DEF Sizes, One
    <3>2. /\ Cardinality(Posting') = Cardinality(Posting) + 1 /\ Cardinality(Ended') = Cardinality(Ended)
      BY <1>1, <2>1, <2>3, <2>6 DEF Sizes, One
    <3>3. NoMorePlaces /\ NoFewerPlaces /\ NoMoreBlame
      BY <1>1, <2>8, <3>1, <3>2 DEF Sizes, NoMorePlaces, NoFewerPlaces, NoMoreBlame
    <3>4. QED
      BY <2>8, <3>3, Balance
  <2>7. QED
    BY <2>1, <2>4, <2>5, <2>6
<1>7. ASSUME NEW w \in Workers, GetsNothing(w)
      PROVE  Counts'
  <2>1. /\ UNCHANGED <<main, posts, listening, port, resets, failures, record, type, outcome>>
        /\ ~port /\ doing[w] = "wait" /\ doing'[w] = "ended" /\ \A v \in Workers \ {w} : doing'[v] = doing[v]
    BY <1>7 DEF GetsNothing, Does, serverVars, recordVars, Types
  <2>2. Cardinality(Posting') = Cardinality(Posting)
    <3>1. Cardinality(Posting') = Cardinality(Posting) - One(doing[w] \in {"post", "retry"})
                                                       + One(doing'[w] \in {"post", "retry"})
      BY <2>1, CountWorkers
    <3>2. QED
      BY <1>1, <2>1, <3>1 DEF One, Sizes
  <2>3. QED
    BY <1>1, <1>11, <2>1, <2>2, RecordsAlone DEF Counts, Up
<1>8. ASSUME NEW w \in Workers, Reposts(w)
      PROVE  Counts'
  <2>1. /\ UNCHANGED <<main, posts, listening, port, resets>> /\ doing[w] \in {"post", "retry"}
        /\ \A v \in Workers \ {w} : doing'[v] = doing[v]
        /\ \/ (\E r \in Records : CallAcceptEx(r)) /\ doing'[w] = "recv" /\ UNCHANGED failures
           \/ /\ failures' = failures + 1 /\ doing'[w] \in {"recv", "retry"}
              /\ UNCHANGED <<record, type, outcome>>
           \/ doing'[w] = "retry" /\ UNCHANGED <<record, type, outcome, failures>>
    BY <1>11, <1>8 DEF Reposts, Does, serverVars, recordVars, Types
  <2>2. /\ Cardinality(Posting') = Cardinality(Posting) - (IF doing'[w] = "recv" THEN 1 ELSE 0)
        /\ Cardinality(Ended') = Cardinality(Ended)
    <3>1. /\ Cardinality(Posting') = Cardinality(Posting) - One(doing[w] \in {"post", "retry"})
                                                          + One(doing'[w] \in {"post", "retry"})
          /\ Cardinality(Ended') = Cardinality(Ended) - One(doing[w] = "ended") + One(doing'[w] = "ended")
      BY <2>1, CountWorkers
    <3>2. /\ doing'[w] \in {"recv", "retry"} /\ doing[w] \in {"post", "retry"}
      BY <2>1
    <3>3. QED
      BY <1>1, <3>1, <3>2 DEF One, Sizes
  <2>7. UNCHANGED <<main, posts, listening, port, resets>>
    BY <2>1
  <2>3. CASE (\E r \in Records : CallAcceptEx(r)) /\ doing'[w] = "recv" /\ UNCHANGED failures
    <3>1. /\ Cardinality(Accepts') = Cardinality(Accepts) + 1 /\ Cardinality(Goods') = Cardinality(Goods) + 1
          /\ Cardinality(Errors') = Cardinality(Errors) /\ Cardinality(Lost') = Cardinality(Lost)
      BY <2>3, CountCall
    <3>2. NoMorePlaces /\ NoFewerPlaces /\ NoMoreBlame
      BY <1>1, <2>7, <2>2, <2>3, <3>1 DEF Sizes, NoMorePlaces, NoFewerPlaces, NoMoreBlame
    <3>3. QED
      BY <2>7, <3>2, Balance
  <2>4. CASE /\ failures' = failures + 1 /\ doing'[w] \in {"recv", "retry"}
             /\ UNCHANGED <<record, type, outcome>>
    <3>1. UNCHANGED <<Cardinality(Accepts), Cardinality(Goods), Cardinality(Errors), Cardinality(Lost)>>
      BY <2>4, RecordsAlone
    <3>2. NoMorePlaces /\ NoFewerPlaces /\ NoMoreBlame
      BY <1>1, <2>7, <2>2, <2>4, <3>1 DEF Sizes, NoMorePlaces, NoFewerPlaces, NoMoreBlame
    <3>3. QED
      BY <2>7, <3>2, Balance
  <2>5. CASE doing'[w] = "retry" /\ UNCHANGED <<record, type, outcome, failures>>
    <3>1. UNCHANGED <<Cardinality(Accepts), Cardinality(Goods), Cardinality(Errors), Cardinality(Lost)>>
      BY <2>5, RecordsAlone
    <3>2. NoMorePlaces /\ NoFewerPlaces /\ NoMoreBlame
      BY <1>1, <2>7, <2>2, <2>5, <3>1 DEF Sizes, NoMorePlaces, NoFewerPlaces, NoMoreBlame
    <3>3. QED
      BY <2>7, <3>2, Balance
  <2>6. QED
    BY <2>1, <2>3, <2>4, <2>5
<1>9. ASSUME NEW w \in Workers, Receives(w) \/ Sends(w)
      PROVE  Counts'
  <2> DEFINE r == overlp[w]
  <2>1. doing[w] \in {"recv", "send"} /\ r \in Records /\ record[r] = "held"
    BY <1>9, HasRecord DEF Receives, Sends, Busy
  <2>2. /\ UNCHANGED <<main, posts, listening, port, resets, outcome>>
        /\ doing' = [doing EXCEPT ![w] = "wait"]
        /\ \E t \in {"recv", "send"} : type' = [type EXCEPT ![r] = t]
        /\ \/ /\ \E x \in {"receiving", "sending"} : record' = [record EXCEPT ![r] = x]
              /\ UNCHANGED failures
           \/ record' = [record EXCEPT ![r] = "lost"] /\ failures' = failures + 1
           \/ record' = [record EXCEPT ![r] = "lost"] /\ ~port /\ UNCHANGED failures
    BY <1>11, <1>9 DEF Receives, Sends, Becomes, Continue, Does, serverVars
  <2> HIDE DEF r
  <2>3. /\ RecordStep(r) /\ doing'[w] = "wait" /\ \A v \in Workers \ {w} : doing'[v] = doing[v]
        /\ \/ record'[r] \in {"receiving", "sending"} /\ UNCHANGED failures
           \/ record'[r] = "lost" /\ failures' = failures + 1
           \/ record'[r] = "lost" /\ ~port /\ UNCHANGED failures
    BY <2>1, <2>2 DEF RecordStep, Types
  <2>4. UNCHANGED <<Cardinality(Posting), Cardinality(Ended)>>
    <3>1. /\ Cardinality(Posting') = Cardinality(Posting) - One(doing[w] \in {"post", "retry"})
                                                          + One(doing'[w] \in {"post", "retry"})
          /\ Cardinality(Ended') = Cardinality(Ended) - One(doing[w] = "ended") + One(doing'[w] = "ended")
      BY <2>3, CountWorkers
    <3>2. QED
      BY <1>1, <2>1, <2>3, <3>1 DEF One, Sizes
  <2>5. /\ Cardinality(Accepts') = Cardinality(Accepts)
        /\ Cardinality(Goods') = Cardinality(Goods)
        /\ Cardinality(Errors') = Cardinality(Errors)
        /\ Cardinality(Lost') = Cardinality(Lost) + One(record'[r] = "lost")
    BY <2>1, <2>3, CountHandOver
  <2>6. UNCHANGED <<main, posts, listening, port, resets>>
    BY <2>2
  <2>7. CASE record'[r] \in {"receiving", "sending"} /\ UNCHANGED failures
    <3>1. Cardinality(Lost') = Cardinality(Lost)
      BY <1>1, <2>5, <2>7 DEF Sizes, One
    <3>2. QED
      BY <1>1, <2>4, <2>5, <2>6, <2>7, <3>1 DEF Sizes, Counts, Up
  <2>8. CASE record'[r] = "lost" /\ (failures' = failures + 1 \/ (~port /\ UNCHANGED failures))
    <3>1. Cardinality(Lost') = Cardinality(Lost) + 1
      BY <1>1, <2>5, <2>8 DEF Sizes, One
    <3>2. NoMorePlaces /\ NoFewerPlaces /\ (port => NoMoreBlame)
      BY <1>1, <2>4, <2>5, <2>6, <2>8, <3>1 DEF Sizes, NoMorePlaces, NoFewerPlaces, NoMoreBlame
    <3>3. QED
      BY <2>6, <3>2, Balance
  <2>9. QED
    BY <2>3, <2>7, <2>8
<1>10. QED
  BY <1>2, <1>3, <1>4, <1>5, <1>6, <1>7, <1>8, <1>9 DEF DemoNext, Worker

LEMMA Invariant == DemoSpec => []IInv
<1>1. DemoInit => IInv
  BY InitTypes, InitOwned, InitCounts DEF IInv
<1>2. IInv /\ [DemoNext]_demoVars => IInv'
  <2>1. CASE DemoNext
    BY <2>1, NextTypes, NextOwned, NextCounts DEF IInv
  <2>2. CASE UNCHANGED demoVars
    <3>1. UNCHANGED <<main, posts, listening, port, record, type, outcome, sender, doing, overlp,
                      clients, resets, failures>>
      BY <2>2 DEF demoVars, serverVars, recordVars, workerVars
    <3>2. IInv => Types' /\ Typed'
      BY <3>1 DEF IInv, Types, Up, Typed
    <3>5. IInv => Owned'
      BY <3>1 DEF IInv, Owned, Having
    <3>3. IInv => Counts'
      BY <3>1, RecordsAlone, WorkersAlone DEF IInv, Counts, Up
    <3>4. QED
      BY <3>2, <3>3, <3>5 DEF IInv
  <2>3. QED
    BY <2>1, <2>2
<1>3. QED
  BY <1>1, <1>2, PTL DEF DemoSpec

(***************************************************************************)
(* Places for new clients get lost only to clients that reset before they  *)
(* are accepted and to failures, one to each, workers only to failures,    *)
(* and places never multiply (test_iocp.cpp 68-77, 80, 198-200): for any   *)
(* number of workers, places, clients and failures.                        *)
(***************************************************************************)
THEOREM CapacityKeptHolds == DemoSpec => []CapacityKept
<1>1. IInv => CapacityKept
  <2> SUFFICES ASSUME IInv, Up
               PROVE  /\ Places <= StartAccepts
                      /\ listening => Places + resets + failures >= StartAccepts
                      /\ port => Cardinality(Ended) <= failures
    BY DEF CapacityKept, Up
  <2>1. /\ Sizes /\ StartAccepts \in Nat /\ posts \in Nat /\ resets \in Nat /\ failures \in Nat
    BY SizesAreNumbers, IocpDemoAssumption DEF IInv, Types
  <2>2. Places = Cardinality(Accepts) + Cardinality(Posting) + posts
    BY DEF Places, Accepts, Accept, Posting
  <2>3. Cardinality(Goods) <= Cardinality(Accepts)
    <3>1. Goods \subseteq Accepts /\ IsFiniteSet(Accepts)
      BY RecordsFinite DEF Goods, Accepts, Good, Accept
    <3>2. QED
      BY <3>1, FS_Subset
  <2>4. /\ Cardinality(Accepts) + Cardinality(Posting) + posts <= StartAccepts
        /\ listening =>
             Cardinality(Goods) + Cardinality(Posting) + posts + resets + failures >= StartAccepts
        /\ port => Cardinality(Ended) + Cardinality(Errors) <= failures
    BY DEF IInv, Counts
  <2>5. Places <= StartAccepts
    BY <2>2, <2>4
  <2>6. listening => Places + resets + failures >= StartAccepts
    BY <2>1, <2>2, <2>3, <2>4 DEF Sizes
  <2>7. port => Cardinality(Ended) <= failures
    BY <2>1, <2>4 DEF Sizes
  <2>8. QED
    BY <2>5, <2>6, <2>7
<1>2. QED
  BY <1>1, Invariant, PTL

(***************************************************************************)
(* A record has one owner and is freed by it alone, is lost only for a     *)
(* failure, and a send is from the stack of a thread that lives, unless    *)
(* failures have ended threads (test_iocp.cpp 70-77, 105-134).             *)
(***************************************************************************)
THEOREM RecordsOwnedHolds == DemoSpec => []RecordsOwned
<1>1. IInv => RecordsOwned
  <2> SUFFICES ASSUME IInv PROVE RecordsOwned
    OBVIOUS
  <2>1. /\ Sizes /\ failures \in Nat
    BY SizesAreNumbers DEF IInv, Types
  <2>2. Up /\ port => Cardinality({r \in Records : record[r] = "lost"}) <= failures
    <3>1. Up /\ port => Cardinality(Lost) + Cardinality(Errors) <= failures
      BY DEF IInv, Counts
    <3>2. Up /\ port => Cardinality(Lost) <= failures
      BY <2>1, <3>1 DEF Sizes
    <3>3. QED
      BY <3>2 DEF Lost
  <2>3. ASSUME NEW r \in Records, sender[r] \in Ended, listening
        PROVE  failures > 0
    <3>1. Up /\ port
      BY <2>3 DEF IInv, Types
    <3>2. Cardinality(Ended) + Cardinality(Errors) <= failures
      BY <3>1 DEF IInv, Counts
    <3>3. Cardinality(Ended) # 0
      <4>1. IsFiniteSet(Ended) /\ Ended # {}
        BY <2>3, RecordsFinite DEF Ended
      <4>2. QED
        BY <4>1, FS_EmptySet
    <3>4. QED
      BY <2>1, <3>2, <3>3 DEF Sizes
  <2>4. /\ \A w \in Having : record[overlp[w]] = "held"
        /\ \A v, w \in Having : v # w => overlp[v] # overlp[w]
        /\ \A r \in Records : record[r] = "held" => \E w \in Having : overlp[w] = r
    BY DEF IInv, Owned
  <2>5. QED
    BY <2>2, <2>3, <2>4 DEF RecordsOwned, Up
<1>2. QED
  BY <1>1, Invariant, PTL

=============================================================================
