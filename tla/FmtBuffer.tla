------------------------------ MODULE FmtBuffer ------------------------------
(***************************************************************************)
(* The buffers of fmt: detail::buffer with its grow function, the          *)
(* iterator_buffers of base.h, counting_buffer, basic_memory_buffer, and   *)
(* the file_buffer of os.h.  Formatting appends characters; what a kind of *)
(* buffer does when it is full differs:                                    *)
(*                                                                         *)
(*   "memory"     grows in memory, and can be moved                        *)
(*   "container"  is the storage of a container that it resizes            *)
(*   "iterator"   is copied to an output iterator                          *)
(*   "limited"    the same for at most limit characters                    *)
(*   "pointer"    the same for a pointer: the target is the first storage  *)
(*   "counting"   counts only                                              *)
(*   "file"       is written to a file                                     *)
(*                                                                         *)
(* A character is its number in the text.  Allocation may fail, and a      *)
(* write to a file may fail or take a part only.                           *)
(***************************************************************************)
EXTENDS Naturals, Sequences, FiniteSets

CONSTANTS
  ArraySize,   \* size of the array in a buffer: buffer_size, SIZE
  AllocMax,    \* max_size() of the allocator
  Limits,      \* what format_to_n may be given
  MaxText,     \* bound on the characters of a text
  MaxPiece     \* bound on the characters of one append

ASSUME FmtBufferAssumption ==
  /\ ArraySize \in Nat \ {0} /\ Limits \subseteq Nat
  /\ AllocMax \in Nat /\ MaxText \in Nat /\ MaxPiece \in Nat

Kinds == {"memory", "container", "iterator", "limited", "pointer", "counting", "file"}

VARIABLES
  kind,   \* the kind of the buffer
  limit,  \* limit_
  buf,    \* the buffer: data (its size() characters), cap, where the data is
  other,  \* another memory buffer
  blocks, \* blocks of memory that are allocated
  sink,   \* what the iterator, the array or the file has got
  count,  \* count_
  how,    \* how the running call puts in its characters: "append", "push_back", "pointer"
  todo,   \* characters of the running call that are still to be put in
  room,   \* try_reserve has been called for them
  total,  \* history: characters appended so far
  lost,   \* history: the file took less than it was given
  state   \* "open"; then "closed", or "dead" after an exception in a destructor

outVars == <<sink, count, lost>>
bufVars == <<kind, limit, buf, other, blocks, outVars, how, todo, room, total, state>>

Smaller(m, n) == IF m <= n THEN m ELSE n
Text(from, to) == [i \in 1..to + 1 - from |-> from + i - 1]
Inline(cap) == [data |-> <<>>, cap |-> cap, at |-> "own"]

BufInit ==
  /\ kind \in Kinds
  /\ limit \in IF kind \in {"limited", "pointer"} THEN Limits ELSE {0}
  /\ total \in IF kind = "container" THEN {0, 2} ELSE {0} \* what it has already
  /\ buf = CASE kind = "pointer" -> [data |-> <<>>, cap |-> limit, at |-> "out"]
             [] kind = "container" -> [data |-> Text(1, total), cap |-> total, at |-> "out"]
             [] OTHER -> Inline(ArraySize)
  /\ other = Inline(ArraySize) /\ blocks = 0 /\ sink = <<>> /\ count = 0
  /\ how = "append" /\ todo = 0 /\ room = FALSE
  /\ lost = FALSE /\ state = "open"

-----------------------------------------------------------------------------
\* Fault: what is left of the limit is computed after the characters are counted.
KeepLate(size) == Smaller(size, IF limit > count + size THEN limit - count - size ELSE 0)

(* fixed_buffer_traits::limit: how many of size more characters to keep. *)
Keep(size) == Smaller(size, IF limit > count THEN limit - count ELSE 0)

Emptied == [buf EXCEPT !.data = <<>>]
ToFile == 1..Len(buf.data) \* what write() may answer; the code does not look at it

FlushTo(n) ==
  /\ sink' = sink \o SubSeq(buf.data, 1, n) /\ lost' = (lost \/ n < Len(buf.data))

Flush ==
  \/ kind = "iterator" /\ FlushTo(Len(buf.data)) /\ buf' = Emptied /\ UNCHANGED count
  \/ /\ kind = "limited" \/ (kind = "pointer" /\ buf.at = "out")
     /\ sink' = sink \o SubSeq(buf.data, 1, Keep(Len(buf.data)))
     /\ count' = count + Len(buf.data)
     /\ buf' = Inline(ArraySize) /\ UNCHANGED lost
  \/ /\ kind = "pointer" /\ buf.at = "own"
     /\ count' = count + Len(buf.data) /\ buf' = Emptied /\ UNCHANGED <<sink, lost>>
  \/ /\ kind = "file" /\ buf.data # <<>>
     /\ (\E n \in ToFile : FlushTo(n)) /\ buf' = Emptied /\ UNCHANGED count
  \/ kind = "file" /\ buf.data = <<>> /\ UNCHANGED <<buf, outVars>>

(* The capacity a memory buffer takes for size characters. *)
NewCapacity(size) ==
  LET more == buf.cap + buf.cap \div 2
  IN IF size > more \/ (more > AllocMax /\ size > AllocMax) THEN size ELSE Smaller(more, AllocMax)

Grow(size) ==
  \/ /\ kind = "memory" /\ NewCapacity(size) <= AllocMax
     /\ buf' = [buf EXCEPT !.cap = NewCapacity(size), !.at = "heap"]
     /\ blocks' = blocks + 1 - (IF buf.at = "heap" THEN 1 ELSE 0)
     /\ UNCHANGED outVars
  \/ kind = "container" /\ buf' = [buf EXCEPT !.cap = size] /\ UNCHANGED <<outVars, blocks>>
  \/ /\ kind = "counting" /\ Len(buf.data) = ArraySize
     /\ count' = count + Len(buf.data) /\ buf' = Emptied /\ UNCHANGED <<sink, lost, blocks>>
  \/ /\ kind \in {"iterator", "limited", "pointer", "file"} /\ Len(buf.data) = buf.cap
     /\ Flush /\ UNCHANGED blocks
  \/ /\ kind \notin {"memory", "container"} /\ Len(buf.data) # buf.cap
     /\ UNCHANGED <<buf, outVars, blocks>>

-----------------------------------------------------------------------------
(* What formatting does with the buffer. *)

Call(n, way) == \* append; push_back; reserve() and to_pointer(), or push_back
  /\ state = "open" /\ todo = 0 /\ total + n <= MaxText
  /\ todo' = n /\ how' = way /\ room' = FALSE
  /\ UNCHANGED <<kind, limit, buf, other, blocks, outVars, total, state>>

Wanted == Len(buf.data) + (IF how = "push_back" THEN 1 ELSE todo)

TryReserve ==
  /\ todo > 0 /\ ~room /\ room' = TRUE
  /\ IF Wanted > buf.cap THEN Grow(Wanted) ELSE UNCHANGED <<buf, outVars, blocks>>
  /\ UNCHANGED <<kind, limit, other, how, todo, total, state>>

Copies(n) ==
  /\ buf' = [buf EXCEPT !.data = @ \o Text(total + 1, total + n)]
  /\ todo' = todo - n /\ total' = total + n /\ room' = FALSE
  /\ UNCHANGED <<kind, limit, other, blocks, outVars, state>>

Append_ == how = "append" /\ Copies(Smaller(todo, buf.cap - Len(buf.data))) /\ UNCHANGED how
PushBackChar == how = "push_back" /\ Copies(1) /\ UNCHANGED how
ToPointer == \* which gives no pointer if there is not enough room
  /\ how = "pointer"
  /\ IF Len(buf.data) + todo <= buf.cap THEN Copies(todo) /\ UNCHANGED how
     ELSE /\ how' = "push_back" /\ room' = FALSE
          /\ UNCHANGED <<kind, limit, buf, other, blocks, outVars, todo, total, state>>

Copy == todo > 0 /\ room /\ (Append_ \/ PushBackChar \/ ToPointer)

Throws == \* bad_alloc, or an error of write(): the rest of the call is gone
  /\ todo > 0 /\ ~room /\ Wanted > buf.cap
  /\ kind \in {"memory", "container"} \/ (kind = "file" /\ Len(buf.data) = buf.cap)
  /\ todo' = 0
  /\ UNCHANGED <<kind, limit, buf, other, blocks, outVars, how, room, total, state>>

FlushFile ==
  /\ state = "open" /\ todo = 0 /\ kind = "file" /\ Flush
  /\ UNCHANGED <<kind, limit, other, blocks, how, todo, room, total, state>>

UseOther ==
  /\ state = "open" /\ todo = 0 /\ kind = "memory"
  /\ buf' = other /\ other' = buf /\ total' = Len(other.data)
  /\ UNCHANGED <<kind, limit, blocks, outVars, how, todo, room, state>>

MoveBuffer == \* buf to other, which gives its own memory back, and is then used
  /\ state = "open" /\ todo = 0 /\ kind = "memory"
  /\ blocks' = blocks - (IF other.at = "heap" THEN 1 ELSE 0)
  /\ other' = IF buf.at = "own" THEN buf ELSE Inline(0)
  /\ UNCHANGED <<kind, limit, buf, outVars, how, todo, room, total, state>>

Finish == \* out(), count(), close(): the end of the formatting
  /\ state = "open" /\ todo = 0 /\ state' = "closed"
  /\ IF kind \in {"memory", "container", "counting"} THEN UNCHANGED <<buf, outVars>> ELSE Flush
  /\ UNCHANGED <<kind, limit, other, blocks, how, todo, room, total>>

Dies == \* the destructor of a file_buffer flushes, and must not throw
  /\ state = "open" /\ todo = 0 /\ kind = "file" /\ buf.data # <<>> /\ state' = "dead"
  /\ UNCHANGED <<kind, limit, buf, other, blocks, outVars, how, todo, room, total>>

BufNext ==
  \/ \E n \in 1..MaxPiece, way \in {"append", "push_back", "pointer"} : Call(n, way)
  \/ TryReserve \/ Copy \/ Throws \/ FlushFile \/ UseOther \/ MoveBuffer \/ Finish \/ Dies

-----------------------------------------------------------------------------
(***************************************************************************)
(* Nothing of a text gets lost or changes its order on the way through a   *)
(* buffer of any kind, except what a file refuses to take: the target and  *)
(* the buffer together have it, or its first limit characters, and count() *)
(* is its length.  No character is put behind the end of the storage,      *)
(* after try_reserve there is room for one more (base.h 890-893), and a    *)
(* block of memory has one buffer.                                         *)
(***************************************************************************)
TextKept ==
  /\ Len(buf.data) <= buf.cap
  /\ room => Len(buf.data) < buf.cap
  /\ kind \in {"limited", "pointer", "counting"} => count + Len(buf.data) = total
  /\ kind \in {"limited", "pointer"} => Len(sink) <= limit
  /\ IF kind \in {"limited", "pointer"} /\ buf.at = "own"
     THEN sink = Text(1, Smaller(limit, count))
     ELSE lost \/ kind = "counting" \/ sink \o buf.data = Text(1, total)
  /\ blocks = Cardinality({b \in {<<1, buf>>, <<2, other>>} : b[2].at = "heap"})
  /\ kind = "container" /\ todo = 0 => buf.cap = Len(buf.data)

=============================================================================
