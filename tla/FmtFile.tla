------------------------------- MODULE FmtFile -------------------------------
(***************************************************************************)
(* file, buffered_file and pipe of fmt (os.h, os.cc): objects that own     *)
(* descriptors of the process.  A call that is interrupted is made again   *)
(* (FMT_RETRY), which leaves no trace; close() is never made again: when   *)
(* it fails, nobody has the descriptor, be it closed or not.               *)
(*                                                                         *)
(* What a call returns is a temporary that operator= moves to an object.   *)
(* operator= closes what the object has, which may throw: temporaries then *)
(* die in their destructors.                                               *)
(***************************************************************************)
EXTENDS Naturals, Sequences

CONSTANTS
  Descriptors,  \* numbers of descriptors
  Files,        \* objects of class file
  Streams,      \* objects of class buffered_file
  NoFd,         \* -1, nullptr
  MaxErrors     \* bound on calls that fail

ASSUME FmtFileAssumption == NoFd \notin Descriptors /\ MaxErrors \in Nat

VARIABLES
  open,      \* descriptors that are open in the process
  object,    \* the descriptor of every object: fd_, or that of file_
  temps,     \* temporaries: their descriptors, and the objects they go to
  unwinding, \* an exception is on its way
  copies,    \* descriptors dup2() has made: the caller has their numbers
  leaked,    \* history: open descriptors whose close() has failed
  errors     \* calls that have failed

fileVars == <<open, object, temps, unwinding, copies, leaked, errors>>

Objects == Files \union Streams
Temp(fd, o) == [fd |-> fd, to |-> o]

FileInit ==
  /\ open = {} /\ object = [o \in Objects |-> NoFd]
  /\ temps = <<>> /\ unwinding = FALSE
  /\ copies = {} /\ leaked = {} /\ errors = 0

Ready == temps = <<>>
Fails == errors < MaxErrors /\ errors' = errors + 1
Takes(o, fd) == object' = [object EXCEPT ![o] = fd]

(* close() or fclose() of a descriptor, if there is one. *)
CloseWorks(fd) ==
  /\ open' = open \ {fd}
  /\ UNCHANGED <<copies, leaked, errors>>

CloseFails(fd) ==
  /\ fd # NoFd /\ Fails
  /\ \/ open' = open \ {fd} /\ UNCHANGED leaked
     \/ UNCHANGED open /\ leaked' = leaked \union {fd}
  /\ UNCHANGED copies

-----------------------------------------------------------------------------
(* open(), fopen() *)
Open(o) ==
  /\ Ready
  /\ \E fd \in Descriptors \ open : open' = open \union {fd} /\ temps' = <<Temp(fd, o)>>
  /\ UNCHANGED <<object, unwinding, copies, leaked, errors>>

Dup(f, g) ==
  /\ Ready /\ object[f] # NoFd
  /\ \E fd \in Descriptors \ open : open' = open \union {fd} /\ temps' = <<Temp(fd, g)>>
  /\ UNCHANGED <<object, unwinding, copies, leaked, errors>>

Pipe(f, g) ==
  /\ Ready /\ f # g
  /\ \E r, w \in Descriptors \ open :
       /\ r # w /\ open' = open \union {r, w}
       /\ temps' = <<Temp(r, f), Temp(w, g)>>
  /\ UNCHANGED <<object, unwinding, copies, leaked, errors>>

\* Fault: the file keeps its descriptor.
FdopenKeeps(f, s) ==
  /\ Ready /\ object[f] # NoFd
  /\ temps' = <<Temp(object[f], s)>>
  /\ UNCHANGED <<object, open, unwinding, copies, leaked, errors>>

Fdopen(f, s) == \* the descriptor belongs to the stream now
  /\ Ready /\ object[f] # NoFd
  /\ temps' = <<Temp(object[f], s)>> /\ Takes(f, NoFd)
  /\ UNCHANGED <<open, unwinding, copies, leaked, errors>>

Dup2(f, fd) == \* both forms; fd is closed first if it is open
  /\ Ready /\ object[f] \notin {NoFd, fd}
  /\ open' = open \union {fd}
  /\ copies' = IF \E o \in Objects : object[o] = fd THEN copies ELSE copies \union {fd}
  /\ leaked' = leaked \ {fd}
  /\ UNCHANGED <<object, temps, unwinding, errors>>

CallFails == \* any of these calls throws, and has done nothing
  Ready /\ Fails /\ UNCHANGED <<open, object, temps, unwinding, copies, leaked>>

-----------------------------------------------------------------------------
(* operator= of a temporary, or of an object that is moved from *)
Assign ==
  /\ temps # <<>> /\ ~unwinding
  /\ LET t == Head(temps) IN
     \/ /\ CloseWorks(object[t.to]) /\ Takes(t.to, t.fd) /\ temps' = Tail(temps)
        /\ UNCHANGED unwinding
     \/ /\ CloseFails(object[t.to]) /\ Takes(t.to, NoFd) /\ unwinding' = TRUE
        /\ UNCHANGED temps

Unwind == \* a destructor, which only reports an error
  /\ unwinding
  /\ CloseWorks(Head(temps).fd) \/ CloseFails(Head(temps).fd)
  /\ temps' = Tail(temps) /\ unwinding' = (Tail(temps) # <<>>)
  /\ UNCHANGED object

Move(o, p) ==
  /\ Ready /\ o # p /\ (o \in Files <=> p \in Files)
  /\ \/ CloseWorks(object[o]) /\ object' = [object EXCEPT ![o] = object[p], ![p] = NoFd]
     \/ CloseFails(object[o]) /\ Takes(o, NoFd)
  /\ UNCHANGED <<temps, unwinding>>

Close(o) == \* close(), which may throw, or the destructor
  /\ Ready /\ object[o] # NoFd
  /\ CloseWorks(object[o]) \/ CloseFails(object[o])
  /\ Takes(o, NoFd) /\ UNCHANGED <<temps, unwinding>>

CloseCopy == \* the caller
  /\ Ready
  /\ \E fd \in copies : open' = open \ {fd} /\ copies' = copies \ {fd}
  /\ UNCHANGED <<object, temps, unwinding, leaked, errors>>

FileNext ==
  \/ \E o \in Objects : Open(o) \/ Close(o) \/ \E p \in Objects : Move(o, p)
  \/ \E f \in Files : \/ \E g \in Files : Dup(f, g) \/ Pipe(f, g)
                      \/ \E s \in Streams : Fdopen(f, s)
                      \/ \E fd \in Descriptors : Dup2(f, fd)
  \/ CallFails \/ Assign \/ Unwind \/ CloseCopy

-----------------------------------------------------------------------------
(***************************************************************************)
(* A descriptor that is open has exactly one owner, an object or a         *)
(* temporary, but for those of the caller and those whose close() failed,  *)
(* and nobody else has a descriptor: none is closed twice, and none gets   *)
(* lost on the way of an exception (os.h 205-217, 278-289; os.cc 220-235,  *)
(* 305-319, 333-349).                                                      *)
(***************************************************************************)
DescriptorsOwned ==
  LET passing == {temps[i].fd : i \in DOMAIN temps}
      owned == ({object[o] : o \in Objects} \ {NoFd}) \union passing
  IN /\ \A o, p \in Objects : object[o] = object[p] => o = p \/ object[o] = NoFd
     /\ \A i, j \in DOMAIN temps : temps[i].fd = temps[j].fd => i = j
     /\ \A o \in Objects : object[o] \notin passing
     /\ owned \union copies \union leaked = open
     /\ owned \intersect (copies \union leaked) = {} /\ copies \intersect leaked = {}

=============================================================================
