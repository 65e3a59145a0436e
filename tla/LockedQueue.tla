----------------------------- MODULE LockedQueue -----------------------------
(***************************************************************************)
(* LockedQueue.h: a deque under a mutex that callers may hold across       *)
(* calls.  The users follow the comment on peek() (line 82): they ask      *)
(* empty() first, and unlock after a peek() that does not.  What they then *)
(* remove with pop_front() is what they peeked at only if nobody else      *)
(* changes the front.  peek() and pop_front() of an empty deque, and the   *)
(* use of a reference to an item that was removed, are undefined.          *)
(***************************************************************************)
EXTENDS Naturals, Sequences

CONSTANTS
  Users,     \* threads
  Entries,   \* what can be in the queue
  Nobody     \* no thread, no entry

VARIABLES
  locked,    \* who has _lock
  deque,     \* _queue
  canceled,  \* _canceled
  user,      \* what a user has done: "none", "not empty", "holds", "peeked"
  ref,       \* the entry a user's reference from peek() is to
  taken,     \* entries a user has taken out and may put back in front
  rivals     \* history: others have changed the front since empty()

lqVars == <<locked, deque, canceled, user, ref, taken, rivals>>

LQInit ==
  /\ locked = Nobody /\ deque = <<>> /\ canceled = FALSE
  /\ user = [u \in Users |-> "none"] /\ ref = [u \in Users |-> Nobody]
  /\ taken = [u \in Users |-> <<>>] /\ rivals = [u \in Users |-> FALSE]

InUse == {deque[i] : i \in DOMAIN deque}
         \union UNION {{taken[u][i] : i \in DOMAIN taken[u]} : u \in Users}

Free(u) == locked = Nobody /\ user[u] = "none"
Becomes(u, state) == user' = [user EXCEPT ![u] = state]
FrontChanged(u) == rivals' = [v \in Users |-> rivals[v] \/ (v # u /\ user[v] # "none")]
Keeps(u) == taken' = [taken EXCEPT ![u] = Append(@, Head(deque))]

Add(u) ==
  /\ Free(u)
  /\ \E e \in Entries \ InUse : deque' = Append(deque, e)
  /\ UNCHANGED <<locked, canceled, user, ref, taken, rivals>>

Readd(u) ==
  /\ Free(u) /\ taken[u] # <<>>
  /\ deque' = taken[u] \o deque /\ taken' = [taken EXCEPT ![u] = <<>>]
  /\ FrontChanged(u)
  /\ UNCHANGED <<locked, canceled, user, ref>>

Forget(u) == \* the user is done with what it took
  /\ Free(u) /\ taken[u] # <<>> /\ taken' = [taken EXCEPT ![u] = <<>>]
  /\ UNCHANGED <<locked, deque, canceled, user, ref, rivals>>

\* Fault: the lock is not taken.
GetUnlocked(u) ==
  /\ user[u] = "none" /\ deque # <<>>
  /\ Keeps(u) /\ deque' = Tail(deque) /\ FrontChanged(u)
  /\ UNCHANGED <<locked, canceled, user, ref>>

(* Both forms of next(): a checker may refuse the front, which then stays. *)
Get(u) ==
  /\ Free(u) /\ deque # <<>>
  /\ Keeps(u) /\ deque' = Tail(deque) /\ FrontChanged(u)
  /\ UNCHANGED <<locked, canceled, user, ref>>

Empty(u) == \* answers FALSE
  /\ Free(u) /\ deque # <<>>
  /\ Becomes(u, "not empty") /\ rivals' = [rivals EXCEPT ![u] = FALSE]
  /\ UNCHANGED <<locked, deque, canceled, ref, taken>>

Peek(u) ==
  /\ user[u] = "not empty" /\ locked = Nobody /\ deque # <<>>
  /\ ref' = [ref EXCEPT ![u] = Head(deque)]
  /\ \/ locked' = u /\ Becomes(u, "holds")              \* autoUnlock == false
     \/ UNCHANGED locked /\ Becomes(u, "peeked")        \* autoUnlock == true
  /\ UNCHANGED <<deque, canceled, taken, rivals>>

Unlock(u) ==
  /\ user[u] = "holds" /\ locked = u
  /\ locked' = Nobody /\ Becomes(u, "peeked")
  /\ UNCHANGED <<deque, canceled, ref, taken, rivals>>

PopFront(u) ==
  /\ user[u] = "peeked" /\ locked = Nobody /\ deque # <<>>
  /\ Keeps(u) /\ deque' = Tail(deque) /\ FrontChanged(u)
  /\ Becomes(u, "none") /\ ref' = [ref EXCEPT ![u] = Nobody]
  /\ UNCHANGED <<locked, canceled>>

CancelQueue(u) == \* nothing else looks at _canceled
  /\ Free(u) /\ canceled' = TRUE
  /\ UNCHANGED <<locked, deque, user, ref, taken, rivals>>

(* A call on an empty deque: undefined, and the end of the behaviour. *)
Undefined(u) ==
  /\ user[u] \in {"not empty", "peeked"} /\ locked = Nobody /\ deque = <<>>
  /\ locked' = u /\ Becomes(u, "undefined")
  /\ UNCHANGED <<deque, canceled, ref, taken, rivals>>

LQNext ==
  \E u \in Users :
    \/ Add(u) \/ Readd(u) \/ Forget(u) \/ Get(u) \/ Empty(u) \/ Peek(u)
    \/ Unlock(u) \/ PopFront(u) \/ CancelQueue(u) \/ Undefined(u)

-----------------------------------------------------------------------------
LQTypeOK ==
  /\ locked \in Users \union {Nobody} /\ canceled \in BOOLEAN
  /\ deque \in Seq(Entries) /\ taken \in [Users -> Seq(Entries)]
  /\ user \in [Users -> {"none", "not empty", "holds", "peeked", "undefined"}]
  /\ ref \in [Users -> Entries \union {Nobody}] /\ rivals \in [Users -> BOOLEAN]

(***************************************************************************)
(* A user that holds the lock after peek() has the front before it, come   *)
(* what may.  Without the lock this, and that there is a front at all,     *)
(* holds just as long as no other thread has removed or put back an entry  *)
(* since empty(): only then can a call be undefined, or pop_front() remove *)
(* something else than what was peeked at (lines 82-93, 123-127).          *)
(***************************************************************************)
FrontIsWhatWasPeeked ==
  \A u \in Users :
    /\ user[u] = "holds" => deque # <<>> /\ Head(deque) = ref[u]
    /\ user[u] = "peeked" /\ ~rivals[u] => deque # <<>> /\ Head(deque) = ref[u]
    /\ user[u] = "undefined" => rivals[u]

=============================================================================
