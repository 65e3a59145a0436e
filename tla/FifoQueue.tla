------------------------------ MODULE FifoQueue ------------------------------
(***************************************************************************)
(* What a queue for many producers and one consumer promises.  A put takes *)
(* effect at once and returns later.  A call of the consumer takes the     *)
(* oldest item, or it answers that there is none: it may do so only if at  *)
(* some moment of the call the queue was empty, or a put had taken effect  *)
(* and not yet returned ("excused").                                       *)
(***************************************************************************)
EXTENDS Naturals, Sequences

CONSTANTS Putters, Values

VARIABLES
  queue,    \* the items, oldest first
  putting,  \* producers whose put has taken effect and not returned
  call      \* the consumer's call: "none", "running" or "excused"

vars == <<queue, putting, call>>

Init == queue = <<>> /\ putting = {} /\ call = "none"

(* Whether a call that is running in the next state may answer "none". *)
Excuse(running, q, puts) ==
  IF ~running THEN "none" ELSE IF q = <<>> \/ puts # {} THEN "excused" ELSE "running"

Keep(q, puts) == IF call = "excused" THEN call ELSE Excuse(call = "running", q, puts)

Put(p, v) ==
  /\ p \notin putting
  /\ queue' = Append(queue, v) /\ putting' = putting \union {p}
  /\ call' = Keep(queue', putting')

PutReturns(p) ==
  /\ p \in putting /\ putting' = putting \ {p}
  /\ UNCHANGED <<queue, call>>

Begin ==
  /\ call = "none" /\ call' = Excuse(TRUE, queue, putting)
  /\ UNCHANGED <<queue, putting>>

Take ==
  /\ call # "none" /\ queue # <<>>
  /\ queue' = Tail(queue) /\ call' = "none"
  /\ UNCHANGED putting

Fail ==
  /\ call = "excused" /\ call' = "none"
  /\ UNCHANGED <<queue, putting>>

Next ==
  \/ \E p \in Putters : PutReturns(p) \/ \E v \in Values : Put(p, v)
  \/ Begin \/ Take \/ Fail

Safety == Init /\ [][Next]_vars

(* Every put and every call returns. *)
Liveness == WF_vars(Take \/ Fail) /\ \A p \in Putters : WF_vars(PutReturns(p))

Spec == Safety /\ Liveness

=============================================================================
