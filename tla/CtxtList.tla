------------------------------ MODULE CtxtList ------------------------------
(***************************************************************************)
(* The list of client contexts of IocpServerex.cpp: g_pCtxtList, the links *)
(* pCtxtBack / pCtxtForward of every PER_SOCKET_CONTEXT, the heap they     *)
(* live in, and g_CriticalSection, which every operation on them enters.   *)
(*                                                                         *)
(* CtxtListAddTo puts the newest context at g_pCtxtList; pCtxtBack leads   *)
(* to the older neighbour and pCtxtForward to the newer one.  Everything   *)
(* an operation does between EnterCriticalSection and                      *)
(* LeaveCriticalSection is one action; CtxtListFree keeps the section over *)
(* a loop, so it is one action per iteration.                              *)
(*                                                                         *)
(* xfree leaves the links of the freed block readable: a later access is   *)
(* undefined, and either meets the old contents (modelled here) or stops   *)
(* the process (a behaviour that just ends).  xmalloc may hand the same    *)
(* address out again, zeroed.                                              *)
(***************************************************************************)
EXTENDS Naturals, Sequences

CONSTANTS
  Ctx,        \* addresses a PER_SOCKET_CONTEXT can be allocated at
  Threads,    \* threads that run list operations
  Main,       \* the thread of main(), the only caller of CtxtListFree
  NULL,       \* the null pointer, and "no owner"
  MaxFailures \* bound on the xmalloc calls that fail

ASSUME CtxtListAssumption ==
  /\ Main \in Threads
  /\ NULL \notin Ctx \cup Threads
  /\ MaxFailures \in Nat

VARIABLES
  alive,      \* the addresses that are allocated
  back, fwd,  \* pCtxtBack and pCtxtForward of every address
  head,       \* g_pCtxtList
  cs,         \* owner and recursion depth of g_CriticalSection
  fresh,      \* pointers CtxtAllocate returned that are in no list yet
  phase,      \* "run", or "sweep" while CtxtListFree runs
  cursor,     \* pTemp1 of CtxtListFree
  failures,   \* xmalloc calls that have failed
  order,      \* history: the contexts added and not removed, oldest first
  fault,      \* history: an operation has accessed a freed context
  tainted     \* history: a removal was not Benign, or CtxtAllocate returned
              \* the address of a context it had freed

listVars == <<alive, back, fwd, head, order>>
vars == <<alive, back, fwd, head, cs, fresh, phase, cursor, failures,
          order, fault, tainted>>

Pointer == Ctx \cup {NULL}

-----------------------------------------------------------------------------
(* The list the code means to keep, told from the history.                 *)

\* The context at position i, NULL beyond both ends.
At(s, i) == IF i \in 1..Len(s) THEN s[i] ELSE NULL

Newest(s) == At(s, Len(s))

\* s without the context c.
Drop(s, c) ==
  IF \E i \in 1..Len(s) : s[i] = c
  THEN LET k == CHOOSE i \in 1..Len(s) : s[i] = c
       IN  [j \in 1..(Len(s) - 1) |-> IF j < k THEN s[j] ELSE s[j + 1]]
  ELSE s

\* Every listed context points at its neighbours of the history.
Linked ==
  \A i \in 1..Len(order) :
    /\ back[order[i]] = At(order, i - 1)
    /\ fwd[order[i]] = At(order, i + 1)

Intact == Linked /\ head = Newest(order)

(***************************************************************************)
(* The removals that leave g_pCtxtList at the newest context.              *)
(* CtxtListDeleteFrom takes the oldest context for the start of the list   *)
(* and the newest for its end; that is harmless when the context is alone, *)
(* when it has two neighbours, and for the older one of two.               *)
(***************************************************************************)
Benign(c) ==
  \/ Len(order) = 1
  \/ c # Newest(order) /\ (c # At(order, 1) \/ Len(order) = 2)

-----------------------------------------------------------------------------
Init ==
  /\ alive = {}
  /\ back = [c \in Ctx |-> NULL]
  /\ fwd = [c \in Ctx |-> NULL]
  /\ head = NULL
  /\ cs = [owner |-> NULL, depth |-> 0]
  /\ fresh = {}
  /\ phase = "run"
  /\ cursor = NULL
  /\ failures = 0
  /\ order = <<>>
  /\ fault = FALSE
  /\ tainted = FALSE

\* EnterCriticalSection returns: nobody, or t itself, is inside; and t is not
\* main() busy with the loop of CtxtListFree.
CanEnter(t) == cs.owner \in {NULL, t} /\ phase = "run"

Enter(t) == cs' = [owner |-> t, depth |-> cs.depth + 1]

\* Fault: the section is left twice.
LeaveTwice == cs' = [cs EXCEPT !.depth = @ - 2]

Leave == cs' = IF cs.depth = 1 THEN [owner |-> NULL, depth |-> 0]
                               ELSE [cs EXCEPT !.depth = @ - 1]

\* An access through these pointers, of which NULL ones are not followed.
Touch(ptrs) == fault' = (fault \/ ~(ptrs \subseteq alive \cup {NULL}))

\* CtxtAllocate: both blocks are there; the links start out null.
Allocate(t, c) ==
  /\ CanEnter(t)
  /\ c \notin alive
  /\ alive' = alive \cup {c}
  /\ back' = [back EXCEPT ![c] = NULL]
  /\ fwd' = [fwd EXCEPT ![c] = NULL]
  /\ fresh' = fresh \cup {c}
  /\ UNCHANGED <<head, cs, phase, cursor, failures, order, fault, tainted>>

\* CtxtAllocate: no PER_SOCKET_CONTEXT.  It returns inside the section.
AllocateOuterFails(t) ==
  /\ CanEnter(t)
  /\ failures < MaxFailures
  /\ failures' = failures + 1
  /\ Enter(t)
  /\ UNCHANGED <<listVars, fresh, phase, cursor, fault, tainted>>

\* CtxtAllocate: no PER_IO_CONTEXT.  The zeroed context is freed, and its
\* address is returned all the same.
AllocateInnerFails(t, c) ==
  /\ CanEnter(t)
  /\ failures < MaxFailures
  /\ failures' = failures + 1
  /\ c \notin alive
  /\ back' = [back EXCEPT ![c] = NULL]
  /\ fwd' = [fwd EXCEPT ![c] = NULL]
  /\ fresh' = fresh \cup {c}
  /\ tainted' = TRUE
  /\ UNCHANGED <<alive, head, cs, phase, cursor, order, fault>>

\* xfree of a context that is in no list.
Free(c) ==
  /\ fresh' = fresh \ {c}
  /\ alive' = alive \ {c}
  /\ Touch({c})
  /\ UNCHANGED <<back, fwd, head, cs, phase, cursor, failures, order, tainted>>

\* UpdateCompletionPort frees a context it could not tie to the port, and
\* main the context of the listening socket; neither enters the section.
Release(c) == c \in fresh /\ Free(c)

\* Fault: the old head does not get its link to the newer context.
InsertOneWay(c) ==
  /\ back' = [back EXCEPT ![c] = head]
  /\ fwd' = [fwd EXCEPT ![c] = NULL]
  /\ head' = c
  /\ order' = Append(order, c)
  /\ Touch({c, head})

\* What CtxtListAddTo does inside the section.
Insert(c) ==
  /\ IF head = NULL
     THEN /\ back' = [back EXCEPT ![c] = NULL]
          /\ fwd' = [fwd EXCEPT ![c] = NULL]
     ELSE /\ back' = [back EXCEPT ![c] = head]
          /\ fwd' = [fwd EXCEPT ![c] = NULL, ![head] = c]
  /\ head' = c
  /\ order' = Append(order, c)
  /\ Touch({c, head})

\* CtxtListAddTo, once inside, whatever c is ...
Add(c) ==
  /\ Insert(c)
  /\ fresh' = fresh \ {c}
  /\ UNCHANGED <<alive, cs, phase, cursor, failures, tainted>>

\* ... and called as it should be, for a context CtxtAllocate has returned.
AddTo(t, c) == CanEnter(t) /\ c \in fresh /\ Add(c)

\* Faults: the middle context stays linked from one side; nothing is freed.
UnlinkOneWay(c) ==
  /\ IF back[c] # NULL THEN fwd' = [fwd EXCEPT ![back[c]] = fwd[c]] ELSE UNCHANGED fwd
  /\ back' = IF back[c] = NULL /\ fwd[c] # NULL THEN [back EXCEPT ![fwd[c]] = NULL] ELSE back
  /\ head' = IF back[c] = NULL THEN fwd[c] ELSE head
  /\ alive' = alive \ {c}
  /\ order' = Drop(order, c)
  /\ Touch({c, back[c], fwd[c]})

UnlinkLeaks(c) ==
  /\ fwd' = [p \in Ctx |-> IF p = back[c] THEN fwd[c] ELSE fwd[p]]
  /\ back' = [p \in Ctx |-> IF p = fwd[c] THEN back[c] ELSE back[p]]
  /\ head' = IF back[c] = NULL THEN fwd[c] ELSE head
  /\ UNCHANGED alive
  /\ order' = Drop(order, c)
  /\ Touch({c, back[c], fwd[c]})

\* What CtxtListDeleteFrom does inside the section: unlink c and free it.
Unlink(c) ==
  LET b == back[c]
      f == fwd[c]
  IN  /\ \/ b = NULL /\ f = NULL /\ head' = NULL /\ UNCHANGED <<back, fwd>>
         \/ b = NULL /\ f # NULL /\ head' = f
            /\ back' = [back EXCEPT ![f] = NULL] /\ UNCHANGED fwd
         \/ b # NULL /\ f = NULL /\ fwd' = [fwd EXCEPT ![b] = NULL]
            /\ UNCHANGED <<head, back>>
         \/ b # NULL /\ f # NULL /\ fwd' = [fwd EXCEPT ![b] = f]
            /\ back' = [back EXCEPT ![f] = b] /\ UNCHANGED head
      /\ alive' = alive \ {c}
      /\ order' = Drop(order, c)
      /\ Touch({c, b, f})

\* CtxtListDeleteFrom, once inside, whatever c is ...
Delete(c) ==
  /\ Unlink(c)
  /\ tainted' = (tainted \/ ~Benign(c))
  /\ UNCHANGED <<cs, fresh, phase, cursor, failures>>

\* ... and called by a worker's CloseClient as it should be, for a context in
\* the list.
CloseClient(t, c) == CanEnter(t) /\ (\E i \in 1..Len(order) : order[i] = c) /\ Delete(c)

\* CtxtListFree: enter the section and start at g_pCtxtList ...
SweepBegin ==
  /\ CanEnter(Main)
  /\ Enter(Main)
  /\ phase' = "sweep"
  /\ cursor' = head
  /\ UNCHANGED <<listVars, fresh, failures, fault, tainted>>

\* Fault: the next context is looked up after the removal.
SweepFromHead ==
  /\ phase = "sweep"
  /\ cursor # NULL
  /\ Unlink(cursor)
  /\ cursor' = head'
  /\ UNCHANGED <<cs, fresh, phase, failures, tainted>>

\* ... close the context, having read the pointer to the older one ...
SweepStep ==
  /\ phase = "sweep"
  /\ cursor # NULL
  /\ cursor' = back[cursor]
  /\ Unlink(cursor)
  /\ UNCHANGED <<cs, fresh, phase, failures, tainted>>

\* ... and leave once there is none.  A restarted server uses the same list.
SweepEnd ==
  /\ phase = "sweep"
  /\ cursor = NULL
  /\ Leave
  /\ phase' = "run"
  /\ UNCHANGED <<listVars, fresh, cursor, failures, fault, tainted>>

Next ==
  \/ \E t \in Threads, c \in Ctx :
       \/ Allocate(t, c)
       \/ AllocateInnerFails(t, c)
       \/ AddTo(t, c)
       \/ CloseClient(t, c)
  \/ \E t \in Threads : AllocateOuterFails(t)
  \/ \E c \in Ctx : Release(c)
  \/ SweepBegin
  \/ SweepStep
  \/ SweepEnd

Spec == Init /\ [][Next]_vars

-----------------------------------------------------------------------------
TypeOK ==
  /\ alive \subseteq Ctx
  /\ back \in [Ctx -> Pointer]
  /\ fwd \in [Ctx -> Pointer]
  /\ head \in Pointer
  /\ cs \in [owner : Threads \cup {NULL}, depth : Nat]
  /\ fresh \subseteq Ctx
  /\ phase \in {"run", "sweep"}
  /\ cursor \in Pointer
  /\ failures \in 0..MaxFailures
  /\ order \in Seq(Ctx)
  /\ fault \in BOOLEAN
  /\ tainted \in BOOLEAN

Listed == {order[i] : i \in 1..Len(order)}

(***************************************************************************)
(* Between sweeps g_pCtxtList and the links are the history of the list,   *)
(* and no operation has accessed a freed context, as long as every removal *)
(* was one that CtxtListDeleteFrom classifies harmlessly.                  *)
(***************************************************************************)
IntactUnlessTainted == ~tainted /\ phase = "run" => Intact /\ ~fault

(***************************************************************************)
(* An allocated context is listed or in the hands of the thread that       *)
(* allocated it, never both: CtxtAllocate, UpdateCompletionPort,           *)
(* CtxtListAddTo and CtxtListDeleteFrom lose none and free none twice.     *)
(***************************************************************************)
NoneLost ==
  ~tainted => /\ alive = fresh \cup Listed
              /\ fresh \cap Listed = {}
              /\ \A i, j \in 1..Len(order) : order[i] = order[j] => i = j

(***************************************************************************)
(* CtxtListFree walks from the newest context to the oldest although each  *)
(* removal leaves g_pCtxtList at a context it has freed: the pointer read  *)
(* before CloseClient is the next one to close, none but an allocated one  *)
(* is accessed, and the loop ends with the list empty.                     *)
(***************************************************************************)
SweepOnTrack ==
  ~tainted /\ phase = "sweep" =>
    /\ Linked
    /\ cursor = Newest(order)
    /\ order = <<>> => head = NULL
    /\ ~fault

(***************************************************************************)
(* From an intact list a worker's CtxtListDeleteFrom always leaves the     *)
(* links right, and leaves g_pCtxtList right exactly when Benign.          *)
(***************************************************************************)
RemovalExact ==
  [][\A t \in Threads, c \in Ctx :
       Intact /\ CloseClient(t, c) /\ ~tainted
         => Linked' /\ (Intact' <=> Benign(c))]_vars

(***************************************************************************)
(* IocpServerex.cpp:66-69: the list is "maintained to allow the the        *)
(* cleanup handler to cleanly close all sockets and free resources".  So a *)
(* CtxtListFree that met no freed context leaves nobody listed.            *)
(***************************************************************************)
CleanupClosesAll == [][SweepEnd /\ ~fault => order = <<>>]_vars

=============================================================================
