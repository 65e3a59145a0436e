------------------------------ MODULE FmtProofs ------------------------------
(***************************************************************************)
(* Proofs about the machines of fmt that keep state: its files, its stores *)
(* of arguments and its buffers, for any number of descriptors, objects,   *)
(* errors, arguments, names and characters.                                *)
(*                                                                         *)
(* FileInv is DescriptorsOwned in parts, with the types and with what      *)
(* keeps a destructor from running without a temporary (Unwinding).  Every *)
(* action moves one descriptor, or two for pipe(), between the parts.      *)
(*                                                                         *)
(* ArgsInv says what the array of a store and its list of names look like: *)
(* the arguments in the order given, behind the header that the list needs *)
(* (InPlace), and the ids of the names, ascending and complete             *)
(* (NamesRight).                                                           *)
(*                                                                         *)
(* BufInv says for every kind of buffer where its text is (Contents), on   *)
(* which storage (Storage), and how much room is left after try_reserve    *)
(* (Fits).                                                                 *)
(***************************************************************************)
EXTENDS FmtFile, FmtArgs, FmtBuffer, SequenceTheorems, FiniteSetTheorems, NaturalsInduction,
        WellFoundedInduction, TLAPS

-----------------------------------------------------------------------------
(* FmtFile                                                                 *)

Maybe == Descriptors \union {NoFd}
Temporary == [fd : Descriptors, to : Objects]

FileTypeOK ==
  /\ open \subseteq Descriptors /\ copies \subseteq Descriptors /\ leaked \subseteq Descriptors
  /\ object \in [Objects -> Maybe]
  /\ temps \in Seq(Temporary)
  /\ errors \in Nat

Fds(s) == {s[i].fd : i \in DOMAIN s}
DistinctFds(s) == \A i, j \in DOMAIN s : s[i].fd = s[j].fd => i = j

Passing == Fds(temps)
Held == {object[o] : o \in Objects} \ {NoFd}

OneEach == \A o, p \in Objects : object[o] = object[p] => o = p \/ object[o] = NoFd
Apart == /\ Held \intersect Passing = {} /\ copies \intersect leaked = {}
         /\ (Held \union Passing) \intersect (copies \union leaked) = {}
Complete == Held \union Passing \union copies \union leaked = open
Unwinding == unwinding => temps # <<>>

FileInv ==
  FileTypeOK /\ OneEach /\ DistinctFds(temps) /\ Apart /\ Complete /\ Unwinding

-----------------------------------------------------------------------------
\* Temporaries have descriptors.
LEMMA PassingTypes ==
  ASSUME FileTypeOK
  PROVE  Passing \subseteq Descriptors
<1>1. ASSUME NEW i \in DOMAIN temps
      PROVE  temps[i].fd \in Descriptors
  <2>1. temps \in Seq(Temporary)
    BY DEF FileTypeOK
  <2>2. temps[i] \in Temporary
    BY <2>1
  <2>3. QED
    BY <2>2 DEF Temporary
<1>2. QED
  BY <1>1 DEF Passing, Fds

\* The parts of the invariant are the property.
LEMMA FileInvOwned ==
  ASSUME FileInv
  PROVE  DescriptorsOwned
<1> USE DEF FileInv
<1>1. {temps[i].fd : i \in DOMAIN temps} = Passing
  BY DEF Passing, Fds
<1>2. Passing \subseteq Descriptors
  BY PassingTypes
<1>3. \A o \in Objects : object[o] \notin Passing
  BY <1>2, FmtFileAssumption DEF Held, Apart
<1>4. \A o, p \in Objects : object[o] = object[p] => o = p \/ object[o] = NoFd
  BY DEF OneEach
<1>5. \A i, j \in DOMAIN temps : temps[i].fd = temps[j].fd => i = j
  BY DEF DistinctFds
<1>6. QED
  BY <1>1, <1>3, <1>4, <1>5 DEF DescriptorsOwned, Held, Apart, Complete

\* One temporary, or two.
LEMMA NewTemps ==
  ASSUME NEW a \in Temporary, NEW b \in Temporary
  PROVE  /\ <<>> \in Seq(Temporary) /\ Fds(<<>>) = {} /\ DistinctFds(<<>>)
         /\ <<a>> \in Seq(Temporary) /\ Fds(<<a>>) = {a.fd} /\ DistinctFds(<<a>>)
         /\ <<a, b>> \in Seq(Temporary) /\ Fds(<<a, b>>) = {a.fd, b.fd}
         /\ a.fd # b.fd => DistinctFds(<<a, b>>)
<1>1. /\ DOMAIN <<a>> = {1} /\ <<a>>[1] = a
      /\ DOMAIN <<a, b>> = {1, 2} /\ <<a, b>>[1] = a /\ <<a, b>>[2] = b
  OBVIOUS
<1>2. DOMAIN <<>> = {}
  OBVIOUS
<1>3. <<>> \in Seq(Temporary) /\ <<a>> \in Seq(Temporary) /\ <<a, b>> \in Seq(Temporary)
  OBVIOUS
<1>4. Fds(<<>>) = {} /\ DistinctFds(<<>>)
  BY <1>2 DEF Fds, DistinctFds
<1>5. Fds(<<a>>) = {a.fd} /\ DistinctFds(<<a>>)
  BY <1>1 DEF Fds, DistinctFds
<1>6. Fds(<<a, b>>) = {a.fd, b.fd}
  BY <1>1 DEF Fds
<1>7. a.fd # b.fd => DistinctFds(<<a, b>>)
  BY <1>1 DEF DistinctFds
<1>8. QED
  BY <1>3, <1>4, <1>5, <1>6, <1>7

\* The first temporary is gone.
LEMMA FirstTemp ==
  ASSUME NEW s \in Seq(Temporary), s # <<>>, DistinctFds(s)
  PROVE  /\ Head(s) \in Temporary /\ Tail(s) \in Seq(Temporary) /\ DistinctFds(Tail(s))
         /\ Head(s).fd \in Fds(s) /\ Fds(Tail(s)) = Fds(s) \ {Head(s).fd}
<1>1. /\ Head(s) = s[1] /\ 1 \in DOMAIN s /\ Head(s) \in Temporary
      /\ Tail(s) \in Seq(Temporary)
  OBVIOUS
<1>2. /\ DOMAIN s = 1..Len(s) /\ DOMAIN Tail(s) = 1..(Len(s) - 1) /\ Len(s) \in Nat
      /\ \A i \in 1..(Len(s) - 1) : Tail(s)[i] = s[i + 1]
  OBVIOUS
<1>3. Head(s).fd \in Fds(s)
  BY <1>1 DEF Fds
<1>4. DistinctFds(Tail(s))
  BY <1>2 DEF DistinctFds
<1>5. ASSUME NEW i \in DOMAIN Tail(s)
      PROVE  Tail(s)[i].fd \in Fds(s) \ {Head(s).fd}
  BY <1>1, <1>2 DEF Fds, DistinctFds
<1>6. ASSUME NEW i \in DOMAIN s, s[i].fd # Head(s).fd
      PROVE  s[i].fd \in Fds(Tail(s))
  <2>1. i # 1
    BY <1>1, <1>6
  <2>2. i - 1 \in DOMAIN Tail(s) /\ Tail(s)[i - 1] = s[i]
    BY <1>2, <2>1
  <2>3. QED
    BY <2>2 DEF Fds
<1>7. Fds(Tail(s)) = Fds(s) \ {Head(s).fd}
  BY <1>5, <1>6 DEF Fds
<1>8. QED
  BY <1>1, <1>3, <1>4, <1>7

\* An object gets a descriptor that no other object has.
LEMMA TakesOne ==
  ASSUME FileTypeOK, OneEach, NEW o \in Objects, NEW x \in Maybe, x \notin Held, Takes(o, x)
  PROVE  /\ object' \in [Objects -> Maybe] /\ OneEach'
         /\ Held' = (Held \ {object[o]}) \union ({x} \ {NoFd})
<1>1. object' \in [Objects -> Maybe] /\ object'[o] = x
  BY DEF Takes, FileTypeOK
<1>2. \A p \in Objects : p # o => object'[p] = object[p]
  BY DEF Takes, FileTypeOK
<1>3. OneEach'
  BY <1>1, <1>2 DEF OneEach, Held
<1>4. Held' = (Held \ {object[o]}) \union ({x} \ {NoFd})
  BY <1>1, <1>2 DEF OneEach, Held
<1>5. QED
  BY <1>1, <1>3, <1>4

\* What an object has is a descriptor of the process, if it has one.
LEMMA HeldIsOpen ==
  ASSUME FileInv, NEW o \in Objects
  PROVE  /\ object[o] \in Maybe
         /\ object[o] # NoFd => /\ object[o] \in Held /\ object[o] \in open
                                /\ object[o] \notin Passing \union copies \union leaked
         /\ NoFd \notin open \union Held \union Passing
<1>1. Passing \subseteq Descriptors
  BY PassingTypes DEF FileInv
<1>2. QED
  BY <1>1, FmtFileAssumption DEF FileInv, FileTypeOK, Held, Apart, Complete, Maybe

\* A process starts without descriptors of these classes.
LEMMA FileInitInv == FileInit => FileInv
<1> SUFFICES ASSUME FileInit PROVE FileInv
  OBVIOUS
<1>1. Held = {}
  BY DEF FileInit, Held
<1>2. DOMAIN <<>> = {}
  OBVIOUS
<1>3. temps = <<>> /\ Passing = {} /\ DistinctFds(temps) /\ temps \in Seq(Temporary)
  BY <1>2 DEF FileInit, Passing, Fds, DistinctFds
<1>4. FileTypeOK
  BY <1>3 DEF FileInit, FileTypeOK, Maybe
<1>5. QED
  BY <1>1, <1>3, <1>4 DEF FileInit, FileInv, OneEach, Apart, Complete, Unwinding

-----------------------------------------------------------------------------
\* What the steps that make one temporary have in common: its descriptor is
\* new, or comes from an object that gives it up.
LEMMA OneTemp ==
  ASSUME NEW fd \in Descriptors, NEW o \in Objects, temps' = <<Temp(fd, o)>>
  PROVE  /\ temps' \in Seq(Temporary) /\ Passing' = {fd} /\ DistinctFds(temps') /\ temps' # <<>>
<1>1. Temp(fd, o) \in Temporary /\ Temp(fd, o).fd = fd
  BY DEF Temp, Temporary
<1>2. QED
  BY <1>1, NewTemps DEF Passing

\* Between statements no temporary is left.
LEMMA NoTemp ==
  ASSUME FileInv, Ready
  PROVE  Passing = {} /\ ~unwinding
<1>1. DOMAIN <<>> = {}
  OBVIOUS
<1>2. QED
  BY <1>1 DEF FileInv, Ready, Passing, Fds, Unwinding

\* open(), fopen() and dup() give a temporary a descriptor that was free.
LEMMA NewInv ==
  ASSUME FileInv, Ready, NEW o \in Objects, NEW fd \in Descriptors \ open,
         open' = open \union {fd}, temps' = <<Temp(fd, o)>>,
         UNCHANGED <<object, unwinding, copies, leaked, errors>>
  PROVE  FileInv'
<1>1. temps' \in Seq(Temporary) /\ Passing' = {fd} /\ DistinctFds(temps') /\ temps' # <<>>
  BY OneTemp
<1>2. Passing = {} /\ Held' = Held
  BY NoTemp DEF Held
<1>3. FileTypeOK'
  BY <1>1 DEF FileInv, FileTypeOK
<1>4. Apart' /\ Complete'
  BY <1>1, <1>2 DEF FileInv, Apart, Complete
<1>5. OneEach' /\ Unwinding'
  BY <1>1 DEF FileInv, OneEach, Unwinding
<1>6. QED
  BY <1>1, <1>3, <1>4, <1>5 DEF FileInv

\* pipe() gives two.
LEMMA PipeInv ==
  ASSUME FileInv, NEW f \in Files, NEW g \in Files, Pipe(f, g)
  PROVE  FileInv'
<1>1. PICK r \in Descriptors \ open, w \in Descriptors \ open :
        r # w /\ open' = open \union {r, w} /\ temps' = <<Temp(r, f), Temp(w, g)>>
  BY DEF Pipe
<1>2. /\ Temp(r, f) \in Temporary /\ Temp(r, f).fd = r
      /\ Temp(w, g) \in Temporary /\ Temp(w, g).fd = w
  BY DEF Temp, Temporary, Objects
<1>3. temps' \in Seq(Temporary) /\ Passing' = {r, w} /\ DistinctFds(temps')
  BY <1>1, <1>2, NewTemps DEF Passing
<1>4. Passing = {} /\ ~unwinding /\ Held' = Held /\ UNCHANGED <<object, unwinding, copies, leaked, errors>>
  BY NoTemp DEF Held, Pipe
<1>5. FileTypeOK'
  BY <1>1, <1>3, <1>4 DEF FileInv, FileTypeOK
<1>6. Apart' /\ Complete'
  BY <1>1, <1>3, <1>4 DEF FileInv, Apart, Complete
<1>7. OneEach' /\ Unwinding'
  BY <1>4 DEF FileInv, OneEach, Unwinding
<1>8. QED
  BY <1>3, <1>5, <1>6, <1>7 DEF FileInv

\* fdopen() moves the descriptor of a file to the temporary of a stream.
LEMMA FdopenInv ==
  ASSUME FileInv, NEW f \in Files, NEW s \in Streams, Fdopen(f, s)
  PROVE  FileInv'
<1>1. /\ Ready /\ temps' = <<Temp(object[f], s)>> /\ Takes(f, NoFd)
      /\ f \in Objects /\ s \in Objects /\ object[f] # NoFd
      /\ UNCHANGED <<open, unwinding, copies, leaked, errors>>
  BY DEF Fdopen, Objects
<1>2. /\ object[f] \in Descriptors /\ object[f] \in Held /\ NoFd \notin Held
  BY <1>1, HeldIsOpen DEF Maybe
<1>3. temps' \in Seq(Temporary) /\ Passing' = {object[f]} /\ DistinctFds(temps') /\ temps' # <<>>
  BY <1>1, <1>2, OneTemp
<1>4. object' \in [Objects -> Maybe] /\ OneEach' /\ Held' = Held \ {object[f]}
  BY <1>1, <1>2, TakesOne DEF FileInv, Maybe
<1>5. Passing = {}
  BY <1>1, NoTemp
<1>6. FileTypeOK'
  BY <1>1, <1>3, <1>4 DEF FileInv, FileTypeOK
<1>7. Apart' /\ Complete'
  BY <1>1, <1>2, <1>3, <1>4, <1>5 DEF FileInv, Apart, Complete
<1>8. Unwinding'
  BY <1>3 DEF Unwinding
<1>9. QED
  BY <1>3, <1>4, <1>6, <1>7, <1>8 DEF FileInv

-----------------------------------------------------------------------------
\* close() frees the descriptor or, when it fails, may leave it open and lost.
LEMMA CloseEffect ==
  ASSUME FileInv, NEW fd \in Maybe, CloseWorks(fd) \/ CloseFails(fd)
  PROVE  /\ copies' = copies /\ errors' \in Nat
         /\ \/ open' = open \ {fd} /\ leaked' = leaked
            \/ fd \in Descriptors /\ open' = open /\ leaked' = leaked \union {fd}
<1>1. CASE CloseWorks(fd)
  BY <1>1 DEF CloseWorks, FileInv, FileTypeOK
<1>2. CASE CloseFails(fd)
  <2>1. errors' \in Nat
    BY <1>2 DEF CloseFails, Fails, FileInv, FileTypeOK
  <2>2. QED
    BY <1>2, <2>1 DEF CloseFails, Maybe
<1>3. QED
  BY <1>1, <1>2

\* dup2() gives the number to the caller, unless an object has it.
LEMMA Dup2Inv ==
  ASSUME FileInv, NEW f \in Files, NEW fd \in Descriptors, Dup2(f, fd)
  PROVE  FileInv'
<1>1. /\ open' = open \union {fd} /\ leaked' = leaked \ {fd}
      /\ copies' = IF fd \in Held THEN copies ELSE copies \union {fd}
      /\ UNCHANGED <<object, temps, unwinding, errors>>
  BY FmtFileAssumption DEF Dup2, Held
<1>2. Held' = Held /\ Passing' = Passing /\ Passing = {}
  BY <1>1, NoTemp DEF Held, Passing, Dup2
<1>3. FileTypeOK'
  BY <1>1 DEF FileInv, FileTypeOK
<1>4. Apart' /\ Complete'
  BY <1>1, <1>2 DEF FileInv, Apart, Complete
<1>5. OneEach' /\ Unwinding' /\ DistinctFds(temps')
  BY <1>1 DEF FileInv, OneEach, Unwinding
<1>6. QED
  BY <1>3, <1>4, <1>5 DEF FileInv

\* operator= moves the first temporary to its object, or drops what that has.
LEMMA AssignInv ==
  ASSUME FileInv, Assign
  PROVE  FileInv'
<1> DEFINE t == Head(temps)
<1>1. temps # <<>> /\ temps \in Seq(Temporary) /\ DistinctFds(temps)
  BY DEF Assign, FileInv, FileTypeOK
<1>2. /\ t \in Temporary /\ Tail(temps) \in Seq(Temporary) /\ DistinctFds(Tail(temps))
      /\ t.fd \in Passing /\ Fds(Tail(temps)) = Passing \ {t.fd}
  BY <1>1, FirstTemp DEF Passing
<1>3. t.to \in Objects /\ t.fd \in Descriptors
  BY <1>2 DEF Temporary
<1>4. /\ object[t.to] \in Maybe /\ NoFd \notin open \union Held \union Passing
      /\ object[t.to] # NoFd => object[t.to] \in Held
      /\ t.fd \notin Held
  BY <1>2, <1>3, HeldIsOpen DEF FileInv, Apart
<1>5. CASE /\ CloseWorks(object[t.to]) /\ Takes(t.to, t.fd) /\ temps' = Tail(temps)
           /\ UNCHANGED unwinding
  <2>1. open' = open \ {object[t.to]} /\ UNCHANGED <<copies, leaked, errors>>
    BY <1>5 DEF CloseWorks
  <2>2. /\ object' \in [Objects -> Maybe] /\ OneEach'
        /\ Held' = (Held \ {object[t.to]}) \union {t.fd}
    <3>1. t.fd \in Maybe /\ Takes(t.to, t.fd) /\ {t.fd} \ {NoFd} = {t.fd}
      BY <1>3, <1>5, FmtFileAssumption DEF Maybe
    <3>2. QED
      BY <1>3, <1>4, <3>1, TakesOne DEF FileInv
  <2>3. temps' \in Seq(Temporary) /\ DistinctFds(temps') /\ Passing' = Passing \ {t.fd}
    BY <1>2, <1>5 DEF Passing
  <2>4. FileTypeOK'
    BY <2>1, <2>2, <2>3 DEF FileInv, FileTypeOK
  <2>5. Apart' /\ Complete'
    BY <1>2, <1>4, <2>1, <2>2, <2>3 DEF FileInv, Apart, Complete
  <2>6. Unwinding'
    BY <1>5 DEF Assign, Unwinding
  <2>7. QED
    BY <2>2, <2>3, <2>4, <2>5, <2>6 DEF FileInv
<1>6. CASE /\ CloseFails(object[t.to]) /\ Takes(t.to, NoFd) /\ unwinding' = TRUE
           /\ UNCHANGED temps
  <2>1. /\ copies' = copies /\ errors' \in Nat /\ object[t.to] # NoFd
        /\ \/ open' = open \ {object[t.to]} /\ leaked' = leaked
           \/ /\ object[t.to] \in Descriptors /\ open' = open
              /\ leaked' = leaked \union {object[t.to]}
    BY <1>4, <1>6, CloseEffect DEF CloseFails
  <2>2. object' \in [Objects -> Maybe] /\ OneEach' /\ Held' = Held \ {object[t.to]}
    BY <1>3, <1>4, <1>6, TakesOne DEF FileInv, Maybe
  <2>3. Passing' = Passing
    BY <1>6 DEF Passing
  <2>4. FileTypeOK'
    BY <1>6, <2>1, <2>2 DEF FileInv, FileTypeOK
  <2>5. Apart' /\ Complete'
    BY <1>4, <2>1, <2>2, <2>3 DEF FileInv, Apart, Complete
  <2>6. Unwinding' /\ DistinctFds(temps')
    BY <1>1, <1>6 DEF Unwinding
  <2>7. QED
    BY <2>2, <2>4, <2>5, <2>6 DEF FileInv
<1>7. QED
  BY <1>5, <1>6 DEF Assign

\* The destructor of a temporary closes what it has.
LEMMA UnwindInv ==
  ASSUME FileInv, Unwind
  PROVE  FileInv'
<1> DEFINE t == Head(temps)
<1>1. temps # <<>> /\ temps \in Seq(Temporary) /\ DistinctFds(temps)
  BY DEF Unwind, FileInv, FileTypeOK, Unwinding
<1>2. /\ t \in Temporary /\ Tail(temps) \in Seq(Temporary) /\ DistinctFds(Tail(temps))
      /\ t.fd \in Passing /\ Fds(Tail(temps)) = Passing \ {t.fd}
  BY <1>1, FirstTemp DEF Passing
<1>3. t.fd \in Maybe
  BY <1>2 DEF Temporary, Maybe
<1>4. /\ copies' = copies /\ errors' \in Nat
      /\ \/ open' = open \ {t.fd} /\ leaked' = leaked
         \/ t.fd \in Descriptors /\ open' = open /\ leaked' = leaked \union {t.fd}
  BY <1>3, CloseEffect DEF Unwind
<1>5. object' = object /\ Held' = Held /\ OneEach'
  BY DEF Unwind, Held, OneEach, FileInv
<1>6. temps' \in Seq(Temporary) /\ DistinctFds(temps') /\ Passing' = Passing \ {t.fd}
  BY <1>2 DEF Unwind, Passing
<1>7. FileTypeOK'
  BY <1>4, <1>5, <1>6 DEF FileInv, FileTypeOK
<1>8. Apart' /\ Complete'
  BY <1>2, <1>4, <1>5, <1>6 DEF FileInv, Apart, Complete
<1>9. Unwinding'
  BY DEF Unwind, Unwinding
<1>10. QED
  BY <1>5, <1>6, <1>7, <1>8, <1>9 DEF FileInv

\* What remains when an object loses its descriptor to close().
LEMMA ClosedInv ==
  ASSUME FileInv, Ready, NEW o \in Objects, object[o] # NoFd,
         CloseWorks(object[o]) \/ CloseFails(object[o]), Takes(o, NoFd),
         UNCHANGED <<temps, unwinding>>
  PROVE  FileInv'
<1>1. /\ object[o] \in Maybe /\ object[o] \in Held /\ NoFd \notin Held
      /\ object[o] \notin Passing \union copies \union leaked
  BY HeldIsOpen
<1>2. /\ copies' = copies /\ errors' \in Nat
      /\ \/ open' = open \ {object[o]} /\ leaked' = leaked
         \/ object[o] \in Descriptors /\ open' = open /\ leaked' = leaked \union {object[o]}
  BY <1>1, CloseEffect
<1>3. object' \in [Objects -> Maybe] /\ OneEach' /\ Held' = Held \ {object[o]}
  BY <1>1, TakesOne DEF FileInv, Maybe
<1>4. Passing' = Passing /\ Passing = {} /\ temps' = temps
  BY NoTemp DEF Passing
<1>5. FileTypeOK'
  BY <1>2, <1>3, <1>4 DEF FileInv, FileTypeOK
<1>6. Apart' /\ Complete'
  BY <1>1, <1>2, <1>3, <1>4 DEF FileInv, Apart, Complete
<1>7. Unwinding' /\ DistinctFds(temps')
  BY <1>4 DEF FileInv, Unwinding
<1>8. QED
  BY <1>3, <1>5, <1>6, <1>7 DEF FileInv

\* Move assignment closes what the target has and empties the source.
LEMMA MoveInv ==
  ASSUME FileInv, NEW o \in Objects, NEW p \in Objects, Move(o, p)
  PROVE  FileInv'
<1>1. Ready /\ o # p /\ UNCHANGED <<temps, unwinding>>
  BY DEF Move
<1>2. /\ object[o] \in Maybe /\ object[p] \in Maybe /\ NoFd \notin open \union Held
      /\ object[o] # NoFd => object[o] \in Held
  BY HeldIsOpen
<1>3. CASE CloseWorks(object[o]) /\ object' = [object EXCEPT ![o] = object[p], ![p] = NoFd]
  <2>1. open' = open \ {object[o]} /\ UNCHANGED <<copies, leaked, errors>>
    BY <1>3 DEF CloseWorks
  <2>2. /\ object' \in [Objects -> Maybe]
        /\ object'[o] = object[p] /\ object'[p] = NoFd
        /\ \A q \in Objects \ {o, p} : object'[q] = object[q]
    BY <1>1, <1>2, <1>3 DEF FileInv, FileTypeOK, Maybe
  <2>3. OneEach'
    BY <1>1, <2>2 DEF FileInv, OneEach
  <2>4. Held' = Held \ {object[o]}
    <3>1. Held' \subseteq Held \ {object[o]}
      BY <1>1, <2>2 DEF FileInv, OneEach, Held
    <3>2. ASSUME NEW q \in Objects, object[q] # NoFd, object[q] # object[o]
          PROVE  object[q] \in Held'
      BY <1>1, <2>2, <3>2 DEF Held
    <3>3. QED
      BY <3>1, <3>2 DEF Held
  <2>5. Passing' = Passing /\ Passing = {} /\ temps' = temps
    BY <1>1, NoTemp DEF Passing
  <2>6. FileTypeOK'
    BY <2>1, <2>2, <2>5 DEF FileInv, FileTypeOK
  <2>7. Apart' /\ Complete'
    BY <1>2, <2>1, <2>4, <2>5 DEF FileInv, Apart, Complete
  <2>8. Unwinding' /\ DistinctFds(temps')
    BY <1>1 DEF FileInv, Unwinding
  <2>9. QED
    BY <2>3, <2>6, <2>7, <2>8 DEF FileInv
<1>4. CASE CloseFails(object[o]) /\ Takes(o, NoFd)
  BY <1>1, <1>4, ClosedInv DEF CloseFails
<1>5. QED
  BY <1>3, <1>4 DEF Move

\* The caller closes a copy.
LEMMA CloseCopyInv ==
  ASSUME FileInv, CloseCopy
  PROVE  FileInv'
<1>1. PICK fd \in copies : open' = open \ {fd} /\ copies' = copies \ {fd}
  BY DEF CloseCopy
<1>2. UNCHANGED <<object, temps, unwinding, leaked, errors>> /\ Held' = Held /\ Passing' = Passing
  BY DEF CloseCopy, Held, Passing
<1>3. FileTypeOK'
  BY <1>1, <1>2 DEF FileInv, FileTypeOK
<1>4. Apart' /\ Complete'
  BY <1>1, <1>2 DEF FileInv, Apart, Complete
<1>5. OneEach' /\ Unwinding' /\ DistinctFds(temps')
  BY <1>2 DEF FileInv, OneEach, Unwinding
<1>6. QED
  BY <1>3, <1>4, <1>5 DEF FileInv

-----------------------------------------------------------------------------
\* Every step keeps the invariant.
LEMMA FileNextInv == FileInv /\ [FileNext]_fileVars => FileInv'
<1> SUFFICES ASSUME FileInv, [FileNext]_fileVars
             PROVE  FileInv'
  OBVIOUS
<1>1. ASSUME NEW o \in Objects, Open(o)
      PROVE  FileInv'
  BY <1>1, NewInv DEF Open
<1>2. ASSUME NEW o \in Objects, Close(o)
      PROVE  FileInv'
  BY <1>2, ClosedInv DEF Close
<1>3. ASSUME NEW o \in Objects, NEW p \in Objects, Move(o, p)
      PROVE  FileInv'
  BY <1>3, MoveInv
<1>4. ASSUME NEW f \in Files, NEW g \in Files, Dup(f, g)
      PROVE  FileInv'
  BY <1>4, NewInv DEF Dup, Objects
<1>5. ASSUME NEW f \in Files, NEW g \in Files, Pipe(f, g)
      PROVE  FileInv'
  BY <1>5, PipeInv
<1>6. ASSUME NEW f \in Files, NEW s \in Streams, Fdopen(f, s)
      PROVE  FileInv'
  BY <1>6, FdopenInv
<1>7. ASSUME NEW f \in Files, NEW fd \in Descriptors, Dup2(f, fd)
      PROVE  FileInv'
  BY <1>7, Dup2Inv
<1>8. CASE CallFails
  <2>1. errors' \in Nat /\ UNCHANGED <<open, object, temps, unwinding, copies, leaked>>
    BY <1>8 DEF CallFails, Fails, FileInv, FileTypeOK
  <2>2. FileTypeOK'
    BY <2>1 DEF FileInv, FileTypeOK
  <2>3. OneEach' /\ DistinctFds(temps') /\ Apart' /\ Complete' /\ Unwinding'
    BY <2>1 DEF FileInv, OneEach, Apart, Complete, Unwinding, Held, Passing
  <2>4. QED
    BY <2>2, <2>3 DEF FileInv
<1>9. CASE Assign
  BY <1>9, AssignInv
<1>10. CASE Unwind
  BY <1>10, UnwindInv
<1>11. CASE CloseCopy
  BY <1>11, CloseCopyInv
<1>12. CASE UNCHANGED fileVars
  BY <1>12 DEF fileVars, FileInv, FileTypeOK, OneEach, Apart, Complete, Unwinding, Held, Passing
<1>13. QED
  BY <1>1, <1>2, <1>3, <1>4, <1>5, <1>6, <1>7, <1>8, <1>9, <1>10, <1>11, <1>12 DEF FileNext

\* No descriptor is closed twice or lost, however many files, streams and
\* temporaries there are and whichever calls fail (os.h file, buffered_file).
THEOREM DescriptorsOwnedHolds == FileInit /\ [][FileNext]_fileVars => []DescriptorsOwned
<1>1. FileInit => FileInv
  BY FileInitInv
<1>2. FileInv /\ [FileNext]_fileVars => FileInv'
  BY FileNextInv
<1>3. FileInv => DescriptorsOwned
  BY FileInvOwned
<1>4. QED
  BY <1>1, <1>2, <1>3, PTL

-----------------------------------------------------------------------------
(* FmtArgs                                                                 *)

HeaderSize == IF named = <<>> THEN 0 ELSE 1

ArgsTypeOK ==
  /\ dynamic \in BOOLEAN /\ broken \in BOOLEAN
  /\ given \in Seq(Names \union {NoName}) /\ data \in Seq(Nat)
  /\ named \in Seq([id : Nat, name : Names]) /\ (named # <<>> => data # <<>>)

InPlace == \* arguments follow one another behind the header
  /\ Len(data) = Len(given) + HeaderSize
  /\ \A k \in 1..Len(given) : data[k + HeaderSize] = k

NamesRight ==
  /\ \A i \in 1..Len(named) : /\ named[i].id < Len(given)
                              /\ given[named[i].id + 1] = named[i].name
  /\ \A i, j \in 1..Len(named) : i < j => named[i].id < named[j].id
  /\ \A k \in 1..Len(given) : HasName(k) => \E i \in 1..Len(named) : named[i].id + 1 = k

ArgsInv == ArgsTypeOK /\ (~dynamic => ~broken) /\ (~broken => InPlace /\ NamesRight)

\* A set of numbers has a least one.
LEMMA Least ==
  ASSUME NEW T, T \subseteq Nat, T # {}
  PROVE  \E i \in T : \A j \in T : i <= j
<1>1. PICK i \in T : \A j \in T : <<j, i>> \notin OpToRel(<, Nat)
  BY NatLessThanWellFounded, WFMin, Zenon
<1>2. ASSUME NEW j \in T PROVE i <= j
  <2>1. ~(j < i)
    BY <1>1 DEF OpToRel
  <2>2. QED
    BY <2>1
<1>3. QED
  BY <1>2

\* The lists and their places.
LEMMA ArgsLists ==
  ASSUME ArgsTypeOK
  PROVE  /\ Len(given) \in Nat /\ Len(named) \in Nat /\ Len(data) \in Nat
         /\ DOMAIN given = 1..Len(given) /\ DOMAIN named = 1..Len(named)
         /\ \A i \in 1..Len(named) : named[i].id \in Nat /\ named[i].name \in Names
<1>1. given \in Seq(Names \union {NoName}) /\ data \in Seq(Nat)
  BY DEF ArgsTypeOK
<1>2. PICK s \in Seq([id : Nat, name : Names]) : s = named
  BY DEF ArgsTypeOK
<1>3. Len(s) \in Nat /\ DOMAIN s = 1..Len(s)
  OBVIOUS
<1>4. \A i \in 1..Len(s) : s[i] \in [id : Nat, name : Names]
  BY ElementOfSeq
<1>5. QED
  BY <1>1, <1>2, <1>3, <1>4

\* What a lookup finds.
LEMMA GetExact ==
  ASSUME ArgsInv, ~broken, NEW id \in Nat
  PROVE  Get(id) = IF id < Len(given) THEN id + 1
                   ELSE IF dynamic /\ HasNamedArgs /\ id = Len(given) THEN Undefined
                   ELSE NotFound
<1>1. /\ Len(given) \in Nat /\ data \in Seq(Nat) /\ Len(data) \in Nat /\ HeaderSize \in {0, 1}
      /\ HeaderSize = IF HasNamedArgs THEN 1 ELSE 0
      /\ Len(data) = Len(given) + HeaderSize
      /\ \A k \in 1..Len(given) : data[k + HeaderSize] = k
  BY DEF ArgsInv, ArgsTypeOK, InPlace, HeaderSize, HasNamedArgs
<1>2. DOMAIN data = 1..Len(data)
  BY <1>1
<1>3. id < Len(given) => Element(id) = id + 1
  <2>1. ASSUME id < Len(given) PROVE Element(id) = id + 1
    <3>1. id + 1 \in 1..Len(given) /\ id + 1 + HeaderSize \in 1..Len(data)
      BY <1>1, <2>1
    <3>2. QED
      BY <1>1, <1>2, <3>1 DEF Element
  <2>2. QED
    BY <2>1
<1>4. id = Len(given) => Element(id) = Undefined
  <2>1. Len(given) + 1 + HeaderSize \notin DOMAIN data
    BY <1>1, <1>2
  <2>2. QED
    BY <1>1, <2>1 DEF Element
<1>5. CASE IsPacked
  BY <1>1, <1>3, <1>5, FmtArgsAssumption DEF Get, IsPacked
<1>6. CASE ~IsPacked
  <2>1. MaxSize = IF dynamic THEN Len(data) ELSE Len(given)
    BY <1>6 DEF MaxSize
  <2>2. Get(id) = IF id < MaxSize THEN Element(id) ELSE NotFound
    BY <1>6 DEF Get
  <2>3. QED
    BY <1>1, <1>3, <1>4, <2>1, <2>2
<1>7. QED
  BY <1>5, <1>6

\* A name finds the first argument that has it.
LEMMA GetNamedExact ==
  ASSUME ArgsInv, ~broken, NEW name \in Names
  PROVE  LET k == GetNamed(name) IN
         IF k = NotFound THEN \A i \in DOMAIN given : given[i] # name
         ELSE k \in DOMAIN given /\ given[k] = name /\ \A i \in 1..k - 1 : given[i] # name
<1> DEFINE at == {i \in DOMAIN named : named[i].name = name}
<1>1. /\ Len(given) \in Nat /\ Len(named) \in Nat /\ NamesRight
      /\ DOMAIN given = 1..Len(given) /\ DOMAIN named = 1..Len(named)
      /\ \A i \in 1..Len(named) : named[i].id \in Nat
  BY ArgsLists DEF ArgsInv
<1>2. ASSUME NEW k \in 1..Len(given), given[k] = name
      PROVE  \E i \in at : named[i].id + 1 = k
  <2>1. HasName(k)
    BY <1>2, FmtArgsAssumption DEF HasName
  <2>2. PICK i \in 1..Len(named) : named[i].id + 1 = k
    BY <1>1, <2>1 DEF NamesRight
  <2>3. named[i].name = name
    BY <1>1, <1>2, <2>2 DEF NamesRight
  <2>4. QED
    BY <1>1, <2>2, <2>3
<1>3. CASE at = {}
  BY <1>1, <1>2, <1>3 DEF GetNamed
<1>4. CASE at # {}
  <2>1. at \subseteq Nat
    BY <1>1
  <2>2. \E i \in at : \A j \in at : i <= j
    BY <1>4, <2>1, Least
  <2>3. PICK i : i = CHOOSE l \in at : \A j \in at : l <= j
    OBVIOUS
  <2>4. i \in at /\ \A j \in at : i <= j
    BY <2>2, <2>3
  <2>5. GetNamed(name) = Get(named[i].id)
    BY <1>4, <2>3 DEF GetNamed
  <2>6. PICK id \in Nat : id = named[i].id
    BY <1>1, <2>4
  <2>7. id < Len(given) /\ given[id + 1] = name
    BY <1>1, <2>4, <2>6 DEF NamesRight
  <2>8. Get(id) = id + 1
    BY <2>7, GetExact
  <2>9. ASSUME NEW k \in 1..id
        PROVE  given[k] # name
    <3>1. SUFFICES ASSUME given[k] = name PROVE FALSE
      OBVIOUS
    <3>2. k \in 1..Len(given)
      BY <1>1, <2>7
    <3>3. PICK j \in at : named[j].id + 1 = k
      BY <1>2, <3>1, <3>2
    <3>4. named[j].id < id /\ i <= j /\ i # j
      BY <1>1, <2>4, <2>6, <3>3
    <3>5. i < j
      BY <2>1, <2>4, <3>4
    <3>6. named[i].id < named[j].id
      BY <1>1, <2>4, <3>3, <3>5 DEF NamesRight
    <3>7. QED
      BY <1>1, <2>4, <2>6, <3>3, <3>4, <3>6
  <2>10. (id + 1) - 1 = id /\ id + 1 \in 1..Len(given) /\ id + 1 # NotFound
    BY <1>1, <2>7 DEF NotFound
  <2>11. QED
    BY <1>1, <2>5, <2>6, <2>7, <2>8, <2>9, <2>10
<1>5. QED
  BY <1>3, <1>4

\* A static store as it is made, a dynamic one that is empty.
LEMMA ArgsInitInv == ArgsInit => ArgsInv
<1> SUFFICES ASSUME ArgsInit PROVE ArgsInv
  OBVIOUS
<1>1. CASE dynamic = TRUE /\ given = <<>> /\ data = <<>> /\ named = <<>>
  <2>1. broken = FALSE
    BY DEF ArgsInit
  <2>2. ArgsTypeOK
    <3>1. <<>> \in Seq(Names \union {NoName}) /\ <<>> \in Seq(Nat) /\ <<>> \in Seq([id : Nat, name : Names])
      BY EmptySeq
    <3>2. QED
      BY <1>1, <2>1, <3>1 DEF ArgsTypeOK
  <2>3. Len(given) = 0 /\ Len(named) = 0 /\ Len(data) = 0 /\ HeaderSize = 0
    BY <1>1 DEF HeaderSize
  <2>4. InPlace /\ NamesRight
    BY <2>3 DEF InPlace, NamesRight
  <2>5. QED
    BY <1>1, <2>1, <2>2, <2>4 DEF ArgsInv
<1>2. CASE dynamic = FALSE
  <2>1. PICK n \in 0..MaxArgs : given \in [1..n -> Names \union {NoName}]
    BY <1>2 DEF ArgsInit
  <2>2. given \in Seq(Names \union {NoName}) /\ Len(given) = n /\ n \in Nat
    BY <2>1, FmtArgsAssumption
  <2>3. PICK at \in NamesOf(given) :
          named = [i \in DOMAIN at |-> Named(at[i] - 1, given[at[i]])]
    BY <1>2 DEF ArgsInit
  <2>4. PICK m \in 0..n : at \in [1..m -> {k \in 1..n : HasName(k)}]
    BY <2>2, <2>3 DEF NamesOf, HasName
  <2>5. /\ \A k \in 1..n : HasName(k) => \E i \in 1..m : at[i] = k
        /\ \A i, j \in 1..m : i < j => at[i] < at[j]
        /\ \A i \in 1..m : at[i] \in 1..n /\ HasName(at[i])
    <3>1. DOMAIN at = 1..m
      BY <2>4
    <3>2. {k \in 1..n : HasName(k)} = {at[i] : i \in DOMAIN at}
      BY <2>2, <2>3 DEF NamesOf, HasName
    <3>3. QED
      BY <2>3, <2>4, <3>1, <3>2 DEF NamesOf
  <2>6. \A i \in 1..m : /\ at[i] - 1 \in Nat /\ at[i] - 1 < n /\ (at[i] - 1) + 1 = at[i]
                        /\ given[at[i]] \in Names
    BY <2>1, <2>2, <2>5 DEF HasName
  <2>7. m \in Nat /\ named = [i \in 1..m |-> [id |-> at[i] - 1, name |-> given[at[i]]]]
    BY <2>2, <2>3, <2>4 DEF Named
  <2>8. named \in Seq([id : Nat, name : Names]) /\ Len(named) = m
    BY <2>6, <2>7
  <2>9. \A i \in 1..m : named[i].id = at[i] - 1 /\ named[i].name = given[at[i]]
    BY <2>7
  <2>10. NamesRight
    <3>1. \A i \in 1..m : named[i].id < n /\ given[named[i].id + 1] = named[i].name
      BY <2>6, <2>9
    <3>2. \A i, j \in 1..m : i < j => named[i].id < named[j].id
      BY <2>5, <2>9
    <3>3. \A k \in 1..n : HasName(k) => \E i \in 1..m : named[i].id + 1 = k
      BY <2>5, <2>6, <2>9
    <3>4. QED
      BY <2>2, <2>8, <3>1, <3>2, <3>3 DEF NamesRight
  <2>11. PICK s \in Seq(Nat) : s = [k \in 1..n |-> k] /\ Len(s) = n /\ \A k \in 1..n : s[k] = k
    <3>1. [k \in 1..n |-> k] \in Seq(Nat) /\ Len([k \in 1..n |-> k]) = n
      BY <2>2
    <3>2. QED
      BY <3>1
  <2>12. data = (IF named = <<>> THEN <<>> ELSE <<Header>>) \o s /\ Header \in Nat
    BY <1>2, <2>2, <2>11, FmtArgsAssumption DEF ArgsInit, Header
  <2>13. data \in Seq(Nat) /\ InPlace /\ (named # <<>> => data # <<>>)
    <3>1. CASE named = <<>>
      <4>1. data = s
        BY <2>12, <3>1, ConcatEmptySeq
      <4>2. QED
        BY <2>2, <2>11, <3>1, <4>1 DEF InPlace, HeaderSize
    <3>2. CASE named # <<>>
      <4>1. data = <<Header>> \o s
        BY <2>12, <3>2
      <4>2. /\ <<Header>> \o s \in Seq(Nat) /\ Len(<<Header>> \o s) = n + 1
            /\ \A k \in 1..n : (<<Header>> \o s)[k + 1] = k
        BY <2>2, <2>11, <2>12
      <4>3. Len(<<>>) = 0 /\ n + 1 # 0
        BY <2>2
      <4>4. QED
        BY <2>2, <3>2, <4>1, <4>2, <4>3 DEF InPlace, HeaderSize
    <3>3. QED
      BY <3>1, <3>2
  <2>14. QED
    BY <1>2, <2>2, <2>8, <2>10, <2>13 DEF ArgsInit, ArgsInv, ArgsTypeOK
<1>3. QED
  BY <1>1, <1>2 DEF ArgsInit

\* One more argument behind the others.
LEMMA GivenMore ==
  ASSUME ArgsTypeOK, NEW name \in Names \union {NoName}, given' = Append(given, name)
  PROVE  /\ given' \in Seq(Names \union {NoName}) /\ Len(given') = Len(given) + 1
         /\ given'[Len(given) + 1] = name
         /\ \A k \in 1..Len(given) : given'[k] = given[k]
         /\ \A k \in 1..Len(given') : k \in 1..Len(given) \/ k = Len(given) + 1
<1>1. given \in Seq(Names \union {NoName}) /\ Len(given) \in Nat
  BY DEF ArgsTypeOK
<1>2. /\ Append(given, name) \in Seq(Names \union {NoName})
      /\ Len(Append(given, name)) = Len(given) + 1
      /\ Append(given, name)[Len(given) + 1] = name
      /\ \A k \in 1..Len(given) : Append(given, name)[k] = given[k]
  BY <1>1
<1>3. QED
  BY <1>1, <1>2

LEMMA PushBackInv ==
  ASSUME ArgsInv, PushBack
  PROVE  ArgsInv'
<1>1. ArgsTypeOK /\ NoName \in Names \union {NoName} /\ given' = Append(given, NoName)
  BY DEF ArgsInv, PushBack
<1>2. /\ given' \in Seq(Names \union {NoName}) /\ Len(given') = Len(given) + 1
      /\ given'[Len(given) + 1] = NoName
      /\ \A k \in 1..Len(given) : given'[k] = given[k]
      /\ \A k \in 1..Len(given') : k \in 1..Len(given) \/ k = Len(given) + 1
  BY <1>1, GivenMore
<1>3. dynamic /\ data' = Append(data, Len(given')) /\ UNCHANGED <<dynamic, named, broken>>
  BY DEF PushBack
<1>4. data \in Seq(Nat) /\ Len(given') \in Nat /\ Len(given) \in Nat /\ Len(data) \in Nat
  BY <1>1, <1>2, ArgsLists DEF ArgsTypeOK
<1>5. /\ data' \in Seq(Nat) /\ Len(data') = Len(data) + 1 /\ data'[Len(data) + 1] = Len(given) + 1
      /\ \A k \in 1..Len(data) : data'[k] = data[k]
  <2>1. PICK n \in Nat : n = Len(given')
    BY <1>4
  <2>2. /\ Append(data, n) \in Seq(Nat) /\ Len(Append(data, n)) = Len(data) + 1
        /\ Append(data, n)[Len(data) + 1] = n
        /\ \A k \in 1..Len(data) : Append(data, n)[k] = data[k]
    BY <1>4
  <2>3. QED
    BY <1>2, <1>3, <2>1, <2>2
<1>6. ASSUME ~broken PROVE InPlace' /\ NamesRight'
  <2>1. InPlace /\ NamesRight /\ HeaderSize \in {0, 1} /\ HeaderSize' = HeaderSize
    BY <1>3, <1>6 DEF ArgsInv, HeaderSize
  <2>2. \A k \in 1..Len(given') : data'[k + HeaderSize] = k
    <3>1. \A k \in 1..Len(given) : k + HeaderSize \in 1..Len(data)
      BY <1>4, <2>1 DEF InPlace
    <3>2. (Len(given) + 1) + HeaderSize = Len(data) + 1
      BY <1>4, <2>1 DEF InPlace
    <3>3. QED
      BY <1>2, <1>5, <2>1, <3>1, <3>2 DEF InPlace
  <2>3. Len(data') = Len(given') + HeaderSize
    BY <1>2, <1>4, <1>5, <2>1 DEF InPlace
  <2>4. InPlace'
    BY <2>1, <2>2, <2>3 DEF InPlace
  <2>5. NamesRight'
    <3>1. \A i \in 1..Len(named) : /\ named[i].id \in Nat /\ named[i].id + 1 \in 1..Len(given)
                                   /\ named[i].id < Len(given')
      BY <1>1, <1>2, <1>4, <2>1, ArgsLists DEF NamesRight
    <3>2. \A i \in 1..Len(named) : given'[named[i].id + 1] = named[i].name
      BY <1>2, <2>1, <3>1 DEF NamesRight
    <3>3. \A k \in 1..Len(given') : given'[k] # NoName => \E i \in 1..Len(named) : named[i].id + 1 = k
      BY <1>2, <2>1 DEF NamesRight, HasName
    <3>4. QED
      BY <1>3, <2>1, <3>1, <3>2, <3>3 DEF NamesRight, HasName
  <2>6. QED
    BY <2>4, <2>5
<1>7. data' # <<>>
  <2>1. Len(data') # 0 /\ Len(<<>>) = 0
    BY <1>4, <1>5
  <2>2. QED
    BY <2>1
<1>8. QED
  BY <1>1, <1>2, <1>3, <1>5, <1>6, <1>7 DEF ArgsInv, ArgsTypeOK

\* The header is put in front of the arguments for the first name.
LEMMA WithHeaderFacts ==
  ASSUME ArgsTypeOK
  PROVE  /\ WithHeader \in Seq(Nat)
         /\ ~broken /\ InPlace => /\ Len(WithHeader) = Len(given) + 1
                                  /\ \A k \in 1..Len(given) : WithHeader[k + 1] = k
<1>1. data \in Seq(Nat) /\ Header \in Nat /\ Len(given) \in Nat
  BY ArgsLists, FmtArgsAssumption DEF ArgsTypeOK, Header
<1>2. PICK h \in Nat : h = Header
  BY <1>1
<1>3. CASE named = <<>>
  <2>1. WithHeader = <<h>> \o data
    BY <1>2, <1>3 DEF WithHeader
  <2>2. /\ <<h>> \o data \in Seq(Nat) /\ Len(<<h>> \o data) = Len(data) + 1
        /\ \A k \in 1..Len(data) : (<<h>> \o data)[k + 1] = data[k]
    BY <1>1
  <2>3. InPlace => Len(data) = Len(given) /\ \A k \in 1..Len(given) : data[k] = k
    BY <1>1, <1>3 DEF InPlace, HeaderSize
  <2>4. QED
    BY <2>1, <2>2, <2>3
<1>4. CASE named # <<>>
  BY <1>1, <1>4 DEF WithHeader, InPlace, HeaderSize
<1>5. QED
  BY <1>3, <1>4

LEMMA PushNamedInv ==
  ASSUME ArgsInv, NEW name \in Names, PushNamed(name)
  PROVE  ArgsInv'
<1>1. ArgsTypeOK /\ name \in Names \union {NoName} /\ given' = Append(given, name)
  BY DEF ArgsInv, PushNamed
<1>2. /\ given' \in Seq(Names \union {NoName}) /\ Len(given') = Len(given) + 1
      /\ given'[Len(given) + 1] = name
      /\ \A k \in 1..Len(given) : given'[k] = given[k]
      /\ \A k \in 1..Len(given') : k \in 1..Len(given) \/ k = Len(given) + 1
  BY <1>1, GivenMore
<1>3. /\ dynamic /\ data' = Append(WithHeader, Len(given')) /\ UNCHANGED <<dynamic, broken>>
      /\ named' = Append(named, Named(Len(data') - 2, name))
  BY DEF PushNamed
<1>4. PICK w \in Seq(Nat) : w = WithHeader
  BY <1>1, WithHeaderFacts
<1>5. PICK n \in Nat : n = Len(given')
  BY <1>1, <1>2, ArgsLists
<1>6. /\ data' \in Seq(Nat) /\ Len(data') = Len(w) + 1 /\ data'[Len(w) + 1] = n /\ Len(w) \in Nat
      /\ \A k \in 1..Len(w) : data'[k] = w[k]
  <2>1. /\ Append(w, n) \in Seq(Nat) /\ Len(Append(w, n)) = Len(w) + 1
        /\ Append(w, n)[Len(w) + 1] = n /\ Len(w) \in Nat
        /\ \A k \in 1..Len(w) : Append(w, n)[k] = w[k]
    OBVIOUS
  <2>2. QED
    BY <1>3, <1>4, <1>5, <2>1
<1>7. Len(given) \in Nat /\ n = Len(given) + 1
  BY <1>1, <1>2, <1>5, ArgsLists
<1>8. PICK s \in Seq([id : Nat, name : Names]) : s = named
  BY <1>1 DEF ArgsTypeOK
<1>9. Len(w) # 0
  <2>1. CASE named = <<>>
    <3>1. data \in Seq(Nat) /\ Header \in Nat
      BY <1>1, FmtArgsAssumption DEF ArgsTypeOK, Header
    <3>2. Len(<<Header>> \o data) = Len(data) + 1 /\ Len(data) \in Nat
      BY <3>1
    <3>3. QED
      BY <1>4, <2>1, <3>2 DEF WithHeader
  <2>2. CASE named # <<>>
    BY <1>1, <1>4, <2>2, EmptySeq DEF ArgsTypeOK, WithHeader
  <2>3. QED
    BY <2>1, <2>2
<1>10. PICK id \in Nat : id = Len(data') - 2 /\ id = Len(w) - 1
  <2>1. \A m \in Nat : m # 0 => (m + 1) - 2 = m - 1 /\ m - 1 \in Nat
    OBVIOUS
  <2>2. QED
    BY <1>6, <1>9, <2>1, Zenon
<1>11. PICK e \in [id : Nat, name : Names] : e = Named(Len(data') - 2, name) /\ e.id = id /\ e.name = name
  <2>1. Named(Len(data') - 2, name) = [id |-> id, name |-> name]
    BY <1>10 DEF Named
  <2>2. [id |-> id, name |-> name] \in [id : Nat, name : Names]
    OBVIOUS
  <2>3. QED
    BY <2>1, <2>2
<1>12. /\ named' \in Seq([id : Nat, name : Names]) /\ Len(named') = Len(s) + 1 /\ Len(s) \in Nat
       /\ named'[Len(s) + 1] = e /\ \A i \in 1..Len(s) : named'[i] = s[i]
  <2>1. /\ Append(s, e) \in Seq([id : Nat, name : Names]) /\ Len(Append(s, e)) = Len(s) + 1
        /\ Append(s, e)[Len(s) + 1] = e /\ Len(s) \in Nat
        /\ \A i \in 1..Len(s) : Append(s, e)[i] = s[i]
    OBVIOUS
  <2>2. QED
    BY <1>3, <1>8, <1>11, <2>1
<1>13. named' # <<>> /\ data' # <<>>
  <2>1. Len(<<>>) = 0 /\ Len(named') # 0 /\ Len(data') # 0
    BY <1>6, <1>12
  <2>2. QED
    BY <2>1
<1>14. ASSUME ~broken PROVE InPlace' /\ NamesRight'
  <2>1. /\ NamesRight /\ Len(w) = Len(given) + 1
        /\ \A k \in 1..Len(given) : w[k + 1] = k
    BY <1>1, <1>4, <1>14, WithHeaderFacts DEF ArgsInv
  <2>2. HeaderSize' = 1 /\ id = Len(given)
    BY <1>7, <1>10, <1>13, <2>1 DEF HeaderSize
  <2>3. InPlace'
    <3>1. \A k \in 1..Len(given) : k + 1 \in 1..Len(w)
      BY <1>7, <2>1
    <3>2. \A k \in 1..Len(given') : data'[k + 1] = k
      BY <1>2, <1>5, <1>6, <1>7, <2>1, <3>1
    <3>3. Len(data') = Len(given') + 1
      BY <1>5, <1>6, <1>7, <2>1
    <3>4. QED
      BY <2>2, <3>2, <3>3 DEF InPlace
  <2>4. \A i \in 1..Len(s) : s[i].id \in Nat /\ s[i].id < Len(given) /\ given[s[i].id + 1] = s[i].name
    BY <1>1, <1>8, <2>1, ArgsLists DEF NamesRight
  <2>5. \A i \in 1..Len(named') : i \in 1..Len(s) \/ i = Len(s) + 1
    BY <1>12
  <2>6. \A i \in 1..Len(s) : i \in 1..Len(named') /\ s[i].id + 1 \in 1..Len(given) /\ s[i].id < Len(given')
    <3>1. \A m, x \in Nat : x < m => x + 1 \in 1..m /\ x < m + 1
      OBVIOUS
    <3>2. \A m \in Nat : \A i \in 1..m : i \in 1..m + 1
      OBVIOUS
    <3>3. Len(given) \in Nat /\ Len(given') = Len(given) + 1
      BY <1>2, <1>7
    <3>4. QED
      BY <1>12, <2>4, <3>1, <3>2, <3>3, Zenon
  <2>7. \A i \in 1..Len(named') : named'[i].id < Len(given') /\ given'[named'[i].id + 1] = named'[i].name
    <3>1. ASSUME NEW i \in 1..Len(s)
          PROVE  named'[i].id < Len(given') /\ given'[named'[i].id + 1] = named'[i].name
      BY <1>2, <1>12, <2>4, <2>6
    <3>2. named'[Len(s) + 1].id = Len(given) /\ named'[Len(s) + 1].name = name
      BY <1>11, <1>12, <2>2
    <3>3. Len(given) < Len(given')
      BY <1>2, <1>7
    <3>4. QED
      BY <1>2, <2>5, <3>1, <3>2, <3>3
  <2>8. ASSUME NEW i \in 1..Len(named'), NEW j \in 1..Len(named'), i < j
        PROVE  named'[i].id < named'[j].id
    <3>1. i \in 1..Len(s) /\ named'[i] = s[i]
      BY <1>12, <2>8
    <3>2. CASE j \in 1..Len(s)
      BY <1>8, <1>12, <2>1, <2>8, <3>1, <3>2 DEF NamesRight
    <3>3. CASE j = Len(s) + 1
      BY <1>11, <1>12, <2>2, <2>4, <3>1, <3>3
    <3>4. QED
      BY <2>5, <3>2, <3>3
  <2>9. ASSUME NEW k \in 1..Len(given'), given'[k] # NoName
        PROVE  \E i \in 1..Len(named') : named'[i].id + 1 = k
    <3>1. CASE k \in 1..Len(given)
      <4>1. HasName(k)
        BY <1>2, <2>9, <3>1 DEF HasName
      <4>2. PICK i \in 1..Len(s) : s[i].id + 1 = k
        BY <1>8, <2>1, <3>1, <4>1 DEF NamesRight
      <4>3. QED
        BY <1>12, <2>6, <4>2
    <3>2. CASE k = Len(given) + 1
      <4>1. Len(s) + 1 \in 1..Len(named')
        BY <1>12
      <4>2. QED
        BY <1>11, <1>12, <2>2, <3>2, <4>1
    <3>3. QED
      BY <1>2, <3>1, <3>2
  <2>10. NamesRight'
    BY <2>7, <2>8, <2>9 DEF NamesRight, HasName
  <2>11. QED
    BY <2>3, <2>10
<1>15. QED
  BY <1>1, <1>2, <1>3, <1>6, <1>12, <1>13, <1>14 DEF ArgsInv, ArgsTypeOK

\* The header stays when the allocation for the first name fails.
LEMMA PushNamedFailsInv ==
  ASSUME ArgsInv, PushNamedFails
  PROVE  ArgsInv'
<1>1. /\ ArgsTypeOK /\ dynamic /\ ~broken /\ InPlace /\ NamesRight
      /\ data' = WithHeader /\ broken' = (named = <<>>) /\ UNCHANGED <<dynamic, given, named>>
  BY DEF ArgsInv, PushNamedFails
<1>2. WithHeader \in Seq(Nat)
  BY <1>1, WithHeaderFacts
<1>3. CASE named = <<>>
  BY <1>1, <1>2, <1>3 DEF ArgsInv, ArgsTypeOK
<1>4. CASE named # <<>>
  <2>1. data' = data
    BY <1>1, <1>4 DEF WithHeader
  <2>2. QED
    BY <1>1, <1>2, <1>4, <2>1 DEF ArgsInv, ArgsTypeOK, InPlace, NamesRight, HeaderSize, HasName
<1>5. QED
  BY <1>3, <1>4

LEMMA ClearInv ==
  ASSUME ArgsInv, Clear
  PROVE  ArgsInv'
<1>1. /\ dynamic \in BOOLEAN /\ dynamic' = dynamic /\ broken' = FALSE
      /\ given' = <<>> /\ data' = <<>> /\ named' = <<>>
  BY DEF ArgsInv, ArgsTypeOK, Clear
<1>2. ArgsTypeOK'
  <2>1. <<>> \in Seq(Names \union {NoName}) /\ <<>> \in Seq(Nat) /\ <<>> \in Seq([id : Nat, name : Names])
    BY EmptySeq
  <2>2. QED
    BY <1>1, <2>1 DEF ArgsTypeOK
<1>3. Len(<<>>) = 0
  OBVIOUS
<1>4. Len(given') = 0 /\ Len(named') = 0 /\ Len(data') = 0 /\ HeaderSize' = 0
  BY <1>1, <1>3 DEF HeaderSize
<1>5. InPlace' /\ NamesRight'
  BY <1>4 DEF InPlace, NamesRight
<1>6. QED
  BY <1>1, <1>2, <1>5 DEF ArgsInv

LEMMA ArgsNextInv == ArgsInv /\ [ArgsNext]_argVars => ArgsInv'
<1> SUFFICES ASSUME ArgsInv, [ArgsNext]_argVars PROVE ArgsInv'
  OBVIOUS
<1>1. CASE UNCHANGED argVars
  BY <1>1 DEF argVars, ArgsInv, ArgsTypeOK, InPlace, NamesRight, HeaderSize, HasName
<1>2. CASE ArgsNext
  BY <1>2, PushBackInv, PushNamedInv, PushNamedFailsInv, ClearInv DEF ArgsNext
<1>3. QED
  BY <1>1, <1>2

(***************************************************************************)
(* An id or a name finds its argument in either kind of store, packed or   *)
(* not, for any number of arguments and names; but for the id behind the   *)
(* last one in a dynamic store with names, and after an allocation has     *)
(* failed for the first name (args.h 115, 131-143).                        *)
(***************************************************************************)
THEOREM LookupExactHolds == ArgsInit /\ [][ArgsNext]_argVars => []LookupExact
<1>1. ArgsInv => LookupExact
  <2> SUFFICES ASSUME ArgsInv, ~broken
               PROVE  /\ \A id \in 0..MaxArgs + 1 :
                           Get(id) = IF id < Len(given) THEN id + 1
                                     ELSE IF dynamic /\ HasNamedArgs /\ id = Len(given) THEN Undefined
                                     ELSE NotFound
                      /\ \A name \in Names :
                           LET k == GetNamed(name) IN
                           IF k = NotFound THEN \A i \in DOMAIN given : given[i] # name
                           ELSE k \in DOMAIN given /\ given[k] = name /\ \A i \in 1..k - 1 : given[i] # name
    BY DEF LookupExact
  <2>1. \A id \in 0..MaxArgs + 1 : id \in Nat
    BY FmtArgsAssumption
  <2>2. QED
    BY <2>1, GetExact, GetNamedExact
<1>2. QED
  BY <1>1, ArgsInitInv, ArgsNextInv, PTL

-----------------------------------------------------------------------------
(* FmtBuffer                                                               *)

Buffer == [data : Seq(Nat), cap : Nat, at : {"own", "heap", "out"}]

BufTypeOK ==
  /\ kind \in Kinds /\ limit \in Nat /\ buf \in Buffer /\ other \in Buffer
  /\ sink \in Seq(Nat) /\ count \in Nat /\ how \in {"append", "push_back", "pointer"}
  /\ todo \in Nat /\ room \in BOOLEAN /\ total \in Nat /\ lost \in BOOLEAN
  /\ state \in {"open", "closed", "dead"}

Fits ==
  /\ Len(buf.data) <= buf.cap /\ Len(other.data) <= other.cap
  /\ room => Len(buf.data) < buf.cap /\ todo > 0
  /\ state # "open" => todo = 0
  /\ kind = "container" => buf.cap = IF room THEN Wanted ELSE Len(buf.data)

OnHeap(b) == IF b.at = "heap" THEN 1 ELSE 0
Storage == \* where the data of every kind is
  /\ blocks = OnHeap(buf) + OnHeap(other)
  /\ kind = "memory" => buf.at # "out" /\ other.at # "out"
  /\ kind # "memory" => buf.at # "heap" /\ other.at = "own"
  /\ kind \in {"iterator", "limited", "counting", "file"} => buf.at = "own"
  /\ kind \notin {"memory", "container"} => buf.cap = IF buf.at = "own" THEN ArraySize ELSE limit

Contents ==
  /\ kind \in {"memory", "container"} => sink = <<>> /\ buf.data = Text(1, total)
  /\ kind = "memory" => other.data = Text(1, Len(other.data))
  /\ kind \in {"iterator", "file"} => lost \/ sink \o buf.data = Text(1, total)
  /\ kind \in {"limited", "pointer", "counting"} => count + Len(buf.data) = total
  /\ kind = "limited" => buf.data = Text(count + 1, total)
  /\ kind = "limited" \/ (kind = "pointer" /\ buf.at = "own") =>
       sink = Text(1, Smaller(limit, count))
  /\ kind = "pointer" /\ buf.at = "out" => count = 0 /\ sink = <<>> /\ buf.data = Text(1, total)
  /\ kind = "pointer" /\ buf.at = "own" /\ state = "open" => limit <= count

BufInv == BufTypeOK /\ Fits /\ Storage /\ Contents

-----------------------------------------------------------------------------
\* The text from one character to another.
LEMMA TextFacts ==
  ASSUME NEW a \in Nat, NEW b \in Nat, a <= b + 1
  PROVE  /\ Text(a, b) \in Seq(Nat) /\ Len(Text(a, b)) = b + 1 - a /\ Len(Text(a, b)) \in Nat
         /\ \A i \in 1..Len(Text(a, b)) : Text(a, b)[i] = a + i - 1
<1>1. PICK n \in Nat : n = b + 1 - a
  OBVIOUS
<1>2. \A i \in 1..n : a + i - 1 \in Nat
  OBVIOUS
<1>3. [i \in 1..n |-> a + i - 1] \in Seq(Nat) /\ Len([i \in 1..n |-> a + i - 1]) = n
  BY <1>2
<1>4. Text(a, b) = [i \in 1..n |-> a + i - 1]
  BY <1>1 DEF Text
<1>5. QED
  BY <1>1, <1>3, <1>4

LEMMA EmptyText ==
  ASSUME NEW a \in Nat
  PROVE  Text(a + 1, a) = <<>>
<1>1. PICK c \in Nat : c = a + 1
  OBVIOUS
<1>2. c <= a + 1 /\ a + 1 - c = 0
  BY <1>1
<1>3. Text(c, a) \in Seq(Nat) /\ Len(Text(c, a)) = 0
  BY <1>2, TextFacts
<1>4. QED
  BY <1>1, <1>3, EmptySeq

LEMMA TextJoin ==
  ASSUME NEW a \in Nat, NEW b \in Nat, NEW c \in Nat, a <= b + 1, b <= c
  PROVE  Text(a, b) \o Text(b + 1, c) = Text(a, c)
<1>1. PICK s \in Seq(Nat) : /\ s = Text(a, b) /\ Len(s) = b + 1 - a
                            /\ \A i \in 1..Len(s) : s[i] = a + i - 1
  BY TextFacts
<1>2. PICK t \in Seq(Nat) : /\ t = Text(b + 1, c) /\ Len(t) = c - b
                            /\ \A i \in 1..Len(t) : t[i] = b + 1 + i - 1
  <2>1. PICK d \in Nat : d = b + 1 /\ d <= c + 1 /\ c + 1 - d = c - b
    OBVIOUS
  <2>2. /\ Text(d, c) \in Seq(Nat) /\ Len(Text(d, c)) = c + 1 - d
        /\ \A i \in 1..Len(Text(d, c)) : Text(d, c)[i] = d + i - 1
    BY <2>1, TextFacts
  <2>3. QED
    BY <2>1, <2>2
<1>3. PICK u \in Seq(Nat) : /\ u = Text(a, c) /\ Len(u) = c + 1 - a
                            /\ \A i \in 1..Len(u) : u[i] = a + i - 1
  <2>1. a <= c + 1
    OBVIOUS
  <2>2. /\ Text(a, c) \in Seq(Nat) /\ Len(Text(a, c)) = c + 1 - a
        /\ \A i \in 1..Len(Text(a, c)) : Text(a, c)[i] = a + i - 1
    BY <2>1, TextFacts, Zenon
  <2>3. QED
    BY <2>2, Zenon
<1>4. /\ s \o t \in Seq(Nat) /\ Len(s \o t) = Len(s) + Len(t)
      /\ \A i \in 1..Len(s) : (s \o t)[i] = s[i]
      /\ \A i \in Len(s) + 1..Len(s) + Len(t) : (s \o t)[i] = t[i - Len(s)]
  OBVIOUS
<1>5. ASSUME NEW i \in 1..Len(u)
      PROVE  (s \o t)[i] = u[i]
  <2>1. CASE i \in 1..Len(s)
    BY <1>1, <1>3, <1>4, <2>1
  <2>2. CASE i \notin 1..Len(s)
    <3>1. i \in Len(s) + 1..Len(s) + Len(t) /\ i - Len(s) \in 1..Len(t)
      BY <1>1, <1>2, <1>3, <2>2
    <3>2. b + 1 + (i - Len(s)) - 1 = a + i - 1
      BY <1>1, <1>3
    <3>3. QED
      BY <1>2, <1>3, <1>4, <3>1, <3>2
  <2>3. QED
    BY <2>1, <2>2
<1>6. Len(s \o t) = Len(u)
  BY <1>1, <1>2, <1>3, <1>4
<1>7. s \o t = u
  BY <1>4, <1>5, <1>6, SeqEqual
<1>8. QED
  BY <1>1, <1>2, <1>3, <1>7

LEMMA TextCut ==
  ASSUME NEW a \in Nat, NEW b \in Nat, NEW n \in Nat, a > 0, a <= b + 1, n <= b + 1 - a
  PROVE  SubSeq(Text(a, b), 1, n) = Text(a, (a + n) - 1)
<1>1. PICK s \in Seq(Nat) : /\ s = Text(a, b) /\ Len(s) = b + 1 - a
                            /\ \A i \in 1..Len(s) : s[i] = a + i - 1
  BY TextFacts
<1>2. PICK t \in Seq(Nat) : /\ t = Text(a, (a + n) - 1) /\ Len(t) = n
                            /\ \A i \in 1..Len(t) : t[i] = a + i - 1
  <2>1. PICK d \in Nat : d = (a + n) - 1 /\ a <= d + 1 /\ d + 1 - a = n
    OBVIOUS
  <2>2. /\ Text(a, d) \in Seq(Nat) /\ Len(Text(a, d)) = d + 1 - a
        /\ \A i \in 1..Len(Text(a, d)) : Text(a, d)[i] = a + i - 1
    BY <2>1, TextFacts
  <2>3. QED
    BY <2>1, <2>2
<1>3. n <= Len(s)
  BY <1>1
<1>4. /\ SubSeq(s, 1, n) \in Seq(Nat) /\ Len(SubSeq(s, 1, n)) = n
      /\ \A i \in 1..n : SubSeq(s, 1, n)[i] = s[i]
  BY <1>3
<1>5. SubSeq(s, 1, n) = t
  <2>1. \A i \in 1..n : i \in 1..Len(s)
    BY <1>3
  <2>2. QED
    BY <1>1, <1>2, <1>4, <2>1, SeqEqual
<1>6. QED
  BY <1>1, <1>2, <1>5

\* Both blocks of memory buffers.
LEMMA TwoBlocks ==
  Cardinality({b \in {<<1, buf>>, <<2, other>>} : b[2].at = "heap"}) = OnHeap(buf) + OnHeap(other)
<1> DEFINE S == {b \in {<<1, buf>>, <<2, other>>} : b[2].at = "heap"}
<1>1. <<1, buf>> # <<2, other>> /\ <<1, buf>>[2] = buf /\ <<2, other>>[2] = other
  OBVIOUS
<1>2. CASE buf.at = "heap" /\ other.at = "heap"
  <2>1. S = {<<1, buf>>} \union {<<2, other>>}
    BY <1>1, <1>2
  <2>2. IsFiniteSet({<<1, buf>>}) /\ Cardinality({<<1, buf>>}) = 1 /\ <<2, other>> \notin {<<1, buf>>}
    BY <1>1, FS_Singleton
  <2>3. Cardinality({<<1, buf>>} \union {<<2, other>>}) = 1 + 1
    BY <2>2, FS_AddElement
  <2>4. QED
    BY <1>2, <2>1, <2>3 DEF OnHeap
<1>3. CASE buf.at = "heap" /\ other.at # "heap"
  <2>1. S = {<<1, buf>>}
    BY <1>1, <1>3
  <2>2. Cardinality({<<1, buf>>}) = 1
    BY FS_Singleton
  <2>3. Cardinality(S) = 1
    BY <2>1, <2>2
  <2>4. QED
    BY <1>3, <2>3 DEF OnHeap
<1>4. CASE buf.at # "heap" /\ other.at = "heap"
  <2>1. S = {<<2, other>>}
    BY <1>1, <1>4
  <2>2. Cardinality({<<2, other>>}) = 1
    BY FS_Singleton
  <2>3. Cardinality(S) = 1
    BY <2>1, <2>2
  <2>4. QED
    BY <1>4, <2>3 DEF OnHeap
<1>5. CASE buf.at # "heap" /\ other.at # "heap"
  <2>1. S = {}
    BY <1>1, <1>5
  <2>2. QED
    BY <1>5, <2>1, FS_EmptySet DEF OnHeap
<1>6. QED
  BY <1>2, <1>3, <1>4, <1>5

\* The invariant says what TextKept asks for.
LEMMA BufInvKept == BufInv => TextKept
<1> SUFFICES ASSUME BufInv PROVE TextKept
  OBVIOUS
<1>1. BufTypeOK /\ Fits /\ Storage /\ Contents
  BY DEF BufInv
<1>2. Len(buf.data) \in Nat /\ buf.data \in Seq(Nat) /\ limit \in Nat /\ count \in Nat /\ total \in Nat
  BY <1>1 DEF BufTypeOK, Buffer
<1>3. kind \in {"limited", "pointer"} => Len(sink) <= limit
  <2>1. CASE kind = "limited" \/ (kind = "pointer" /\ buf.at = "own")
    <3>1. sink = Text(1, Smaller(limit, count)) /\ Smaller(limit, count) \in Nat
          /\ Smaller(limit, count) <= limit
      BY <1>1, <1>2, <2>1 DEF Contents, Smaller
    <3>2. PICK n \in Nat : n = Smaller(limit, count)
      BY <3>1
    <3>3. Len(Text(1, n)) = n
      <4>1. 1 \in Nat /\ 1 <= n + 1 /\ n + 1 - 1 = n
        OBVIOUS
      <4>2. QED
        BY <4>1, TextFacts
    <3>4. QED
      BY <3>1, <3>2, <3>3
  <2>2. CASE kind = "pointer" /\ buf.at = "out"
    <3>1. sink = <<>>
      BY <1>1, <2>2 DEF Contents
    <3>2. QED
      BY <1>2, <3>1
  <2>3. QED
    BY <1>1, <2>1, <2>2 DEF BufTypeOK, Buffer, Storage
<1>4. IF kind \in {"limited", "pointer"} /\ buf.at = "own"
      THEN sink = Text(1, Smaller(limit, count))
      ELSE lost \/ kind = "counting" \/ sink \o buf.data = Text(1, total)
  <2>1. CASE kind \in {"limited", "pointer"} /\ buf.at = "own"
    BY <1>1, <2>1 DEF Contents
  <2>2. CASE kind \in {"memory", "container"} \/ (kind = "pointer" /\ buf.at = "out")
    <3>1. sink = <<>> /\ buf.data = Text(1, total)
      BY <1>1, <2>2 DEF Contents
    <3>2. <<>> \o buf.data = buf.data
      BY <1>2, ConcatEmptySeq
    <3>3. QED
      BY <2>2, <3>1, <3>2
  <2>3. CASE kind \in {"iterator", "file", "counting"}
    BY <1>1, <2>3 DEF Contents
  <2>4. kind = "limited" => buf.at = "own"
    BY <1>1 DEF Storage
  <2>5. kind = "pointer" => buf.at \in {"own", "out"}
    BY <1>1 DEF BufTypeOK, Buffer, Storage
  <2>6. QED
    BY <1>1, <2>1, <2>2, <2>3, <2>4, <2>5 DEF BufTypeOK, Kinds
<1>5. kind = "container" /\ todo = 0 => buf.cap = Len(buf.data)
  BY <1>1 DEF Fits
<1>6. QED
  BY <1>1, <1>3, <1>4, <1>5, TwoBlocks DEF TextKept, Fits, Storage, Contents

-----------------------------------------------------------------------------
\* The variables of the invariant have their types.
LEMMA Parts ==
  ASSUME BufTypeOK
  PROVE  /\ buf = [data |-> buf.data, cap |-> buf.cap, at |-> buf.at]
         /\ buf.data \in Seq(Nat) /\ buf.cap \in Nat /\ buf.at \in {"own", "heap", "out"}
         /\ other.data \in Seq(Nat) /\ other.cap \in Nat /\ other.at \in {"own", "heap", "out"}
         /\ Len(buf.data) \in Nat /\ Len(other.data) \in Nat
<1>1. buf \in Buffer /\ other \in Buffer
  BY DEF BufTypeOK
<1>2. QED
  BY <1>1 DEF Buffer

LEMMA NewBuffer ==
  ASSUME NEW d \in Seq(Nat), NEW n \in Nat, NEW where \in {"own", "heap", "out"}, NEW b,
         b = [data |-> d, cap |-> n, at |-> where]
  PROVE  b \in Buffer /\ b.data = d /\ b.cap = n /\ b.at = where
BY DEF Buffer

LEMMA InlineFacts ==
  ASSUME NEW n \in Nat
  PROVE  /\ Inline(n) \in Buffer /\ Inline(n).data = <<>> /\ Inline(n).cap = n /\ Inline(n).at = "own"
         /\ Inline(n) = [data |-> <<>>, cap |-> n, at |-> "own"]
<1>1. <<>> \in Seq(Nat)
  BY EmptySeq
<1>2. QED
  BY <1>1 DEF Inline, Buffer

LEMMA BufInitInv == BufInit => BufInv
<1> SUFFICES ASSUME BufInit PROVE BufInv
  OBVIOUS
<1>1. /\ kind \in Kinds /\ limit \in Nat /\ ArraySize \in Nat /\ total \in {0, 2}
      /\ (kind # "container" => total = 0)
      /\ other = [data |-> <<>>, cap |-> ArraySize, at |-> "own"] /\ blocks = 0
      /\ sink = <<>> /\ count = 0 /\ how = "append" /\ todo = 0 /\ room = FALSE
      /\ lost = FALSE /\ state = "open"
  BY FmtBufferAssumption DEF BufInit, Inline
<1>2. <<>> \in Seq(Nat) /\ Len(<<>>) = 0
  BY EmptySeq
<1>3. Text(1, 0) = <<>>
  <2>1. 0 \in Nat /\ 0 + 1 = 1
    OBVIOUS
  <2>2. QED
    BY <2>1, EmptyText
<1>4. Text(1, total) \in Seq(Nat) /\ Len(Text(1, total)) = total
  <2>1. total \in Nat /\ 1 \in Nat /\ 1 <= total + 1 /\ total + 1 - 1 = total
    BY <1>1
  <2>2. QED
    BY <2>1, TextFacts
<1>5. /\ other \in Buffer /\ other.data = <<>> /\ other.cap = ArraySize /\ other.at = "own"
  BY <1>1, InlineFacts
<1>6. \E c \in Nat, where \in {"own", "out"} :
        /\ buf = [data |-> Text(1, total), cap |-> c, at |-> where]
        /\ c >= total /\ (kind \notin {"memory", "container"} => c = IF where = "own" THEN ArraySize ELSE limit)
        /\ (kind \notin {"pointer", "container"} => where = "own")
        /\ (kind = "container" => c = total) /\ (kind = "pointer" => where = "out")
  <2>1. CASE kind = "pointer"
    BY <1>1, <1>3, <2>1 DEF BufInit
  <2>2. CASE kind = "container"
    <3>1. buf = [data |-> Text(1, total), cap |-> total, at |-> "out"]
      BY <2>2 DEF BufInit
    <3>2. total \in Nat /\ total >= total /\ "out" \in {"own", "out"}
      BY <1>1
    <3>3. QED
      BY <2>2, <3>1, <3>2
  <2>3. CASE kind \notin {"pointer", "container"}
    BY <1>1, <1>3, <2>3 DEF BufInit, Inline
  <2>4. QED
    BY <2>1, <2>2, <2>3
<1>7. PICK c \in Nat, where \in {"own", "out"} :
        /\ buf = [data |-> Text(1, total), cap |-> c, at |-> where]
        /\ c >= total /\ (kind \notin {"memory", "container"} => c = IF where = "own" THEN ArraySize ELSE limit)
        /\ (kind \notin {"pointer", "container"} => where = "own")
        /\ (kind = "container" => c = total) /\ (kind = "pointer" => where = "out")
  BY <1>6
<1>8. buf \in Buffer /\ buf.data = Text(1, total) /\ buf.cap = c /\ buf.at = where
  BY <1>4, <1>7, NewBuffer
<1>9. BufTypeOK
  <2>1. sink \in Seq(Nat) /\ count \in Nat /\ todo \in Nat /\ total \in Nat
    <3>1. \A n \in {0, 2} : n \in Nat
      OBVIOUS
    <3>2. QED
      BY <1>1, <1>2, <3>1
  <2>2. how \in {"append", "push_back", "pointer"} /\ state \in {"open", "closed", "dead"}
    BY <1>1
  <2>3. QED
    BY <1>1, <1>5, <1>8, <2>1, <2>2 DEF BufTypeOK
<1>10. Fits
  BY <1>1, <1>2, <1>4, <1>5, <1>7, <1>8 DEF Fits
<1>11. Storage
  BY <1>1, <1>5, <1>7, <1>8 DEF Storage, OnHeap
<1>12. Contents
  <2>1. sink \o buf.data = Text(1, total)
    BY <1>1, <1>4, <1>8, ConcatEmptySeq
  <2>2. Smaller(limit, count) = 0
    BY <1>1 DEF Smaller
  <2>3. kind = "limited" \/ (kind = "pointer" /\ buf.at = "own") => sink = Text(1, Smaller(limit, count))
    BY <1>1, <1>3, <2>2
  <2>4. kind = "limited" => buf.data = Text(count + 1, total)
    <3>1. count + 1 = 1
      BY <1>1
    <3>2. QED
      BY <1>8, <3>1
  <2>5. count + Len(buf.data) = total
    BY <1>1, <1>4, <1>8
  <2>6. kind = "memory" => other.data = Text(1, Len(other.data))
    BY <1>2, <1>3, <1>5
  <2>7. kind = "pointer" => buf.at = "out"
    BY <1>7, <1>8
  <2>8. QED
    BY <1>1, <1>8, <2>1, <2>3, <2>4, <2>5, <2>6, <2>7 DEF Contents
<1>13. QED
  BY <1>9, <1>10, <1>11, <1>12 DEF BufInv

\* flush() hands over what the buffer has, or what the limit leaves of it, and
\* the buffer is the array of its own again.
LEMMA FlushKeeps ==
  ASSUME BufInv, Flush, UNCHANGED <<kind, limit, total>>, UNCHANGED blocks, UNCHANGED other,
         kind = "pointer" /\ buf.at = "own" => limit <= count
  PROVE  /\ kind \in {"iterator", "limited", "pointer", "file"}
         /\ buf' \in Buffer /\ buf'.data = <<>> /\ buf'.cap = ArraySize /\ buf'.at = "own"
         /\ sink' \in Seq(Nat) /\ count' \in Nat /\ lost' \in BOOLEAN
         /\ kind \in {"iterator", "file"} => lost' \/ sink' = Text(1, total)
         /\ kind \in {"limited", "pointer"} => count' = total /\ sink' = Text(1, Smaller(limit, count'))
<1>1. BufTypeOK /\ Fits /\ Storage /\ Contents
  BY DEF BufInv
<1>2. /\ buf = [data |-> buf.data, cap |-> buf.cap, at |-> buf.at]
      /\ buf.data \in Seq(Nat) /\ Len(buf.data) \in Nat /\ buf.cap \in Nat
  BY <1>1, Parts
<1>3. <<>> \in Seq(Nat) /\ Len(<<>>) = 0 /\ ArraySize \in Nat \ {0}
  BY EmptySeq, FmtBufferAssumption
<1>4. /\ sink \in Seq(Nat) /\ limit \in Nat /\ count \in Nat /\ total \in Nat /\ lost \in BOOLEAN
  BY <1>1 DEF BufTypeOK
<1>5. PICK d \in Seq(Nat) : d = buf.data /\ Len(d) = Len(buf.data)
  BY <1>2
<1>6. \A n \in 0..Len(d) : SubSeq(d, 1, n) \in Seq(Nat) /\ Len(SubSeq(d, 1, n)) = n
                           /\ (n = Len(d) => SubSeq(d, 1, n) = d)
  <2>1. ASSUME NEW n \in 0..Len(d)
        PROVE  /\ SubSeq(d, 1, n) \in Seq(Nat) /\ Len(SubSeq(d, 1, n)) = n
               /\ \A i \in 1..n : SubSeq(d, 1, n)[i] = d[i]
    OBVIOUS
  <2>2. ASSUME NEW n \in 0..Len(d), n = Len(d) PROVE SubSeq(d, 1, n) = d
    BY <2>1, <2>2, SeqEqual
  <2>3. QED
    BY <2>1, <2>2
<1>7. ASSUME buf.at = "own", buf.cap = ArraySize, buf' = Emptied
      PROVE  buf' \in Buffer /\ buf'.data = <<>> /\ buf'.cap = ArraySize /\ buf'.at = "own"
  <2>1. buf' = [data |-> <<>>, cap |-> ArraySize, at |-> "own"]
    BY <1>2, <1>7 DEF Emptied
  <2>2. QED
    BY <1>3, <2>1, InlineFacts
<1>8. ASSUME NEW n \in 0..Len(d), FlushTo(n), kind \in {"iterator", "file"}
      PROVE  sink' \in Seq(Nat) /\ lost' \in BOOLEAN /\ (lost' \/ sink' = Text(1, total))
  <2>1. sink' = sink \o SubSeq(d, 1, n) /\ lost' = (lost \/ n < Len(d))
    BY <1>5, <1>8 DEF FlushTo
  <2>2. sink' \in Seq(Nat) /\ lost' \in BOOLEAN
    <3>1. PICK t \in Seq(Nat) : t = SubSeq(d, 1, n)
      BY <1>6
    <3>2. sink \o t \in Seq(Nat)
      BY <1>4
    <3>3. QED
      BY <1>4, <2>1, <3>1, <3>2
  <2>3. CASE lost'
    BY <2>2, <2>3
  <2>4. CASE ~lost'
    <3>1. ~lost /\ n = Len(d)
      <4>1. ~(n < Len(d)) => n = Len(d)
        BY <1>2, <1>5
      <4>2. QED
        BY <2>1, <2>4, <4>1, Zenon
    <3>2. sink' = sink \o d
      BY <1>6, <2>1, <3>1
    <3>3. QED
      BY <1>1, <1>5, <1>8, <2>2, <3>1, <3>2 DEF Contents
  <2>5. QED
    BY <2>3, <2>4
<1>9. CASE kind = "iterator" /\ FlushTo(Len(buf.data)) /\ buf' = Emptied /\ UNCHANGED count
  <2>1. Len(d) \in 0..Len(d)
    BY <1>2, <1>5
  <2>2. QED
    BY <1>1, <1>4, <1>5, <1>7, <1>8, <1>9, <2>1 DEF Storage
<1>10. CASE kind = "file" /\ (\E n \in ToFile : FlushTo(n)) /\ buf' = Emptied /\ UNCHANGED count
  <2>1. PICK n \in 1..Len(d) : FlushTo(n)
    BY <1>5, <1>10 DEF ToFile
  <2>2. n \in 0..Len(d)
    BY <1>2, <1>5
  <2>3. QED
    BY <1>1, <1>4, <1>7, <1>8, <1>10, <2>1, <2>2 DEF Storage
<1>11. CASE kind = "file" /\ buf.data = <<>> /\ UNCHANGED <<buf, outVars>>
  <2>1. UNCHANGED <<sink, count, lost>> /\ buf' = buf
    BY <1>11 DEF outVars
  <2>2. sink \o <<>> = sink
    BY <1>4, ConcatEmptySeq
  <2>3. lost \/ sink = Text(1, total)
    BY <1>1, <1>11, <2>2 DEF Contents
  <2>4. buf \in Buffer /\ buf.cap = ArraySize /\ buf.at = "own"
    BY <1>1, <1>11 DEF BufTypeOK, Storage
  <2>5. QED
    BY <1>4, <1>11, <2>1, <2>3, <2>4
<1>12. CASE kind = "pointer" /\ buf.at = "own" /\ buf' = Emptied
            /\ count' = count + Len(buf.data) /\ UNCHANGED <<sink, lost>>
  <2>1. count' \in Nat /\ count' = total /\ limit <= count /\ limit <= count'
    BY <1>1, <1>2, <1>4, <1>12 DEF Contents
  <2>2. Smaller(limit, count') = Smaller(limit, count)
    BY <1>4, <2>1 DEF Smaller
  <2>3. buf.cap = ArraySize
    BY <1>1, <1>12 DEF Storage
  <2>4. sink = Text(1, Smaller(limit, count))
    BY <1>1, <1>12 DEF Contents
  <2>5. QED
    BY <1>4, <1>7, <1>12, <2>1, <2>2, <2>3, <2>4
<1>13. CASE /\ kind = "limited" \/ (kind = "pointer" /\ buf.at = "out")
            /\ sink' = sink \o SubSeq(buf.data, 1, Keep(Len(buf.data)))
            /\ count' = count + Len(buf.data)
            /\ buf' = Inline(ArraySize) /\ UNCHANGED lost
  <2>1. buf' \in Buffer /\ buf'.data = <<>> /\ buf'.cap = ArraySize /\ buf'.at = "own"
    BY <1>3, <1>13, InlineFacts
  <2>2. count' = total /\ count' \in Nat /\ count <= total /\ total = count + Len(d)
    BY <1>1, <1>4, <1>5, <1>13 DEF Contents
  <2>3. d = Text(count + 1, total) /\ sink = Text(1, Smaller(limit, count))
    <3>1. CASE kind = "limited"
      BY <1>1, <1>5, <3>1 DEF Contents
    <3>2. CASE kind = "pointer" /\ buf.at = "out"
      <4>1. count = 0 /\ count + 1 = 1 /\ sink = <<>> /\ d = Text(1, total)
        BY <1>1, <1>5, <3>2 DEF Contents
      <4>2. Smaller(limit, count) = 0
        BY <1>4, <4>1 DEF Smaller
      <4>3. Text(0 + 1, 0) = <<>> /\ 0 + 1 = 1
        BY EmptyText
      <4>4. QED
        BY <4>1, <4>2, <4>3
    <3>3. QED
      BY <1>13, <3>1, <3>2
  <2>4. PICK k \in Nat : k = Keep(Len(d)) /\ k <= Len(d)
    <3>1. PICK r \in Nat : r = IF limit > count THEN limit - count ELSE 0
      <4>1. \A l, c \in Nat : (IF l > c THEN l - c ELSE 0) \in Nat
        OBVIOUS
      <4>2. QED
        BY <1>4, <4>1
    <3>2. PICK n \in Nat : n = Len(d)
      BY <1>2, <1>5
    <3>3. Keep(Len(d)) = IF n <= r THEN n ELSE r
      BY <3>1, <3>2 DEF Keep, Smaller
    <3>4. QED
      BY <3>2, <3>3
  <2>5. CASE limit <= count
    <3>1. k = 0 /\ Smaller(limit, count) = limit /\ Smaller(limit, count') = limit
      BY <1>2, <1>4, <1>5, <2>2, <2>4, <2>5 DEF Keep, Smaller
    <3>2. SubSeq(d, 1, k) = <<>>
      BY <1>6, <2>4, <3>1, EmptySeq
    <3>3. sink' = sink
      BY <1>4, <1>5, <1>13, <2>4, <3>2, ConcatEmptySeq
    <3>4. QED
      BY <1>4, <1>13, <2>1, <2>2, <2>3, <3>1, <3>3
  <2>6. CASE limit > count
    <3>1. /\ Smaller(limit, count) = count /\ Smaller(limit, count') = count + k
          /\ k <= total - count
      BY <1>2, <1>4, <1>5, <2>2, <2>4, <2>6 DEF Keep, Smaller
    <3>2. PICK e \in Nat : e = count + k /\ count <= e
      BY <1>4
    <3>3. SubSeq(d, 1, k) = Text(count + 1, e)
      <4>1. PICK a \in Nat : a = count + 1 /\ a > 0 /\ a <= total + 1 /\ k <= total + 1 - a /\ (a + k) - 1 = e
        BY <1>4, <2>2, <3>1, <3>2
      <4>2. SubSeq(Text(a, total), 1, k) = Text(a, (a + k) - 1)
        <5>1. total \in Nat /\ k \in Nat /\ a \in Nat
          BY <1>4
        <5>2. QED
          BY <4>1, <5>1, TextCut, Zenon
      <4>3. QED
        BY <2>3, <4>1, <4>2
    <3>4. Text(1, count) \o Text(count + 1, e) = Text(1, e)
      <4>1. 1 \in Nat /\ 1 <= count + 1
        BY <1>4
      <4>2. QED
        BY <1>4, <3>2, <4>1, TextJoin
    <3>5. sink' = Text(1, e)
      BY <1>5, <1>13, <2>3, <2>4, <3>1, <3>3, <3>4
    <3>6. Text(1, e) \in Seq(Nat)
      <4>1. 1 \in Nat /\ 1 <= e + 1
        BY <3>2
      <4>2. QED
        BY <3>2, <4>1, TextFacts
    <3>7. QED
      BY <1>4, <1>13, <2>1, <2>2, <3>1, <3>2, <3>5, <3>6
  <2>7. QED
    BY <1>4, <2>5, <2>6
<1>14. QED
  BY <1>9, <1>10, <1>11, <1>12, <1>13 DEF Flush

-----------------------------------------------------------------------------
\* A memory buffer that grows has the room it needs.
LEMMA GrowsEnough ==
  ASSUME BufTypeOK, NEW size \in Nat
  PROVE  NewCapacity(size) \in Nat /\ NewCapacity(size) >= size
<1>1. PICK more \in Nat : more = buf.cap + buf.cap \div 2
  <2>1. \A n \in Nat : n + n \div 2 \in Nat
    OBVIOUS
  <2>2. QED
    BY <2>1, Parts
<1>2. NewCapacity(size) = IF size > more \/ (more > AllocMax /\ size > AllocMax) THEN size
                          ELSE IF more <= AllocMax THEN more ELSE AllocMax
  BY <1>1 DEF NewCapacity, Smaller
<1>3. QED
  BY <1>2, FmtBufferAssumption

\* There is room for a character after try_reserve, whatever the buffer is.
LEMMA TryReserveInv ==
  ASSUME BufInv, TryReserve
  PROVE  BufInv'
<1>1. BufTypeOK /\ Fits /\ Storage /\ Contents
  BY DEF BufInv
<1>2. /\ todo > 0 /\ ~room /\ room' = TRUE
      /\ IF Wanted > buf.cap THEN Grow(Wanted) ELSE UNCHANGED <<buf, outVars, blocks>>
      /\ UNCHANGED <<kind, limit, other, how, todo, total, state>>
  BY DEF TryReserve
<1>3. /\ buf = [data |-> buf.data, cap |-> buf.cap, at |-> buf.at]
      /\ buf.data \in Seq(Nat) /\ Len(buf.data) \in Nat /\ buf.cap \in Nat
      /\ buf.at \in {"own", "heap", "out"} /\ todo \in Nat /\ buf \in Buffer
  BY <1>1, Parts DEF BufTypeOK
<1>4. Wanted \in Nat /\ Wanted > Len(buf.data)
  BY <1>2, <1>3 DEF Wanted
<1>5. state = "open"
  BY <1>1, <1>2 DEF Fits
<1>6. <<>> \in Seq(Nat) /\ Len(<<>>) = 0 /\ ArraySize \in Nat \ {0}
  BY EmptySeq, FmtBufferAssumption
<1>7. ASSUME UNCHANGED <<sink, count, lost>>, buf'.data = buf.data, buf' \in Buffer, buf'.cap > Len(buf.data),
             kind = "container" => buf'.cap = Wanted,
             kind \notin {"memory", "container"} => buf'.cap = buf.cap,
             \/ buf'.at = buf.at /\ blocks' = blocks
             \/ kind = "memory" /\ buf'.at = "heap" /\ blocks' = blocks + 1 - OnHeap(buf)
      PROVE  BufInv'
  <2>1. BufTypeOK'
    BY <1>1, <1>2, <1>7 DEF BufTypeOK
  <2>2. Fits'
    <3>1. Wanted' = Wanted
      BY <1>2, <1>7 DEF Wanted
    <3>2. Len(buf'.data) < buf'.cap /\ Len(buf'.data) <= buf'.cap
      <4>1. \A m, n \in Nat : n > m => m < n /\ m <= n
        OBVIOUS
      <4>2. buf'.cap \in Nat
        BY <1>7 DEF Buffer
      <4>3. QED
        BY <1>3, <1>7, <4>1, <4>2
    <3>3. Len(other'.data) <= other'.cap
      BY <1>1, <1>2 DEF Fits
    <3>4. kind' = "container" => buf'.cap = Wanted'
      BY <1>2, <1>7, <3>1
    <3>5. QED
      BY <1>1, <1>2, <1>5, <3>2, <3>3, <3>4 DEF Fits
  <2>3. Storage'
    <3>1. blocks' = OnHeap(buf)' + OnHeap(other)'
      BY <1>1, <1>2, <1>7 DEF Storage, OnHeap
    <3>2. QED
      BY <1>1, <1>2, <1>7, <3>1 DEF Storage
  <2>4. Contents'
    BY <1>1, <1>2, <1>7 DEF Contents, Storage
  <2>5. QED
    BY <2>1, <2>2, <2>3, <2>4 DEF BufInv
<1>8. ASSUME buf' \in Buffer, buf'.data = <<>>, buf'.cap = ArraySize, buf'.at = "own", UNCHANGED blocks,
             kind \notin {"memory", "container"},
             sink' \in Seq(Nat), count' \in Nat, lost' \in BOOLEAN,
             kind \in {"iterator", "file"} => lost' \/ sink' = Text(1, total),
             kind \in {"limited", "pointer", "counting"} => count' = total,
             kind \in {"limited", "pointer"} => sink' = Text(1, Smaller(limit, count')),
             kind = "pointer" => limit <= count'
      PROVE  BufInv'
  <2>1. BufTypeOK'
    BY <1>1, <1>2, <1>8 DEF BufTypeOK
  <2>2. Fits'
    BY <1>1, <1>2, <1>6, <1>8 DEF Fits
  <2>3. Storage'
    BY <1>1, <1>2, <1>8 DEF Storage, OnHeap
  <2>4. Contents'
    <3>1. total \in Nat /\ sink' \o <<>> = sink'
      BY <1>1, <1>8, ConcatEmptySeq DEF BufTypeOK
    <3>2. Text(total + 1, total) = <<>>
      BY <3>1, EmptyText
    <3>3. kind' = "limited" => buf'.data = Text(count' + 1, total')
      BY <1>2, <1>8, <3>2
    <3>4. kind' \in {"iterator", "file"} => lost' \/ sink' \o buf'.data = Text(1, total')
      BY <1>2, <1>8, <3>1
    <3>5. kind' \in {"limited", "pointer", "counting"} => count' + Len(buf'.data) = total'
      BY <1>2, <1>6, <1>8
    <3>6. QED
      BY <1>2, <1>8, <3>3, <3>4, <3>5 DEF Contents
  <2>5. QED
    BY <2>1, <2>2, <2>3, <2>4 DEF BufInv
<1>9. CASE ~(Wanted > buf.cap)
  <2>1. UNCHANGED <<buf, sink, count, lost, blocks>> /\ kind # "container"
    BY <1>1, <1>2, <1>4, <1>9 DEF outVars, Fits
  <2>2. buf.cap > Len(buf.data)
    BY <1>3, <1>4, <1>9
  <2>3. QED
    BY <1>3, <1>7, <2>1, <2>2
<1>10. CASE Wanted > buf.cap /\ kind = "memory"
  <2>1. /\ buf' = [buf EXCEPT !.cap = NewCapacity(Wanted), !.at = "heap"]
        /\ blocks' = blocks + 1 - OnHeap(buf) /\ UNCHANGED <<sink, count, lost>>
    BY <1>2, <1>10 DEF Grow, Flush, outVars, OnHeap
  <2>2. NewCapacity(Wanted) \in Nat /\ NewCapacity(Wanted) > Len(buf.data)
    BY <1>1, <1>3, <1>4, GrowsEnough
  <2>3. buf' = [data |-> buf.data, cap |-> NewCapacity(Wanted), at |-> "heap"]
    BY <1>3, <2>1
  <2>4. /\ buf' \in Buffer /\ buf'.data = buf.data /\ buf'.cap = NewCapacity(Wanted)
        /\ buf'.at = "heap"
    BY <1>3, <2>2, <2>3, NewBuffer
  <2>5. QED
    BY <1>7, <1>10, <2>1, <2>2, <2>4
<1>11. CASE Wanted > buf.cap /\ kind = "container"
  <2>1. buf' = [buf EXCEPT !.cap = Wanted] /\ UNCHANGED <<sink, count, lost, blocks>>
    BY <1>2, <1>11 DEF Grow, outVars
  <2>2. buf' = [data |-> buf.data, cap |-> Wanted, at |-> buf.at]
    BY <1>3, <2>1
  <2>3. buf' \in Buffer /\ buf'.data = buf.data /\ buf'.cap = Wanted /\ buf'.at = buf.at
    BY <1>3, <1>4, <2>2, NewBuffer
  <2>4. QED
    BY <1>4, <1>7, <1>11, <2>1, <2>3
<1>12. CASE Wanted > buf.cap /\ kind \notin {"memory", "container"} /\ Len(buf.data) # buf.cap
  <2>1. CASE UNCHANGED <<buf, outVars, blocks>>
    <3>1. UNCHANGED <<buf, sink, count, lost, blocks>> /\ buf.cap > Len(buf.data)
      BY <1>1, <1>3, <1>12, <2>1 DEF outVars, Fits
    <3>2. QED
      BY <1>3, <1>7, <1>12, <3>1
  <2>2. CASE kind = "counting" /\ Len(buf.data) = ArraySize
    BY <1>1, <1>12, <2>2 DEF Storage
  <2>3. QED
    BY <1>2, <1>12, <2>1, <2>2 DEF Grow
<1>13. CASE Wanted > buf.cap /\ kind \notin {"memory", "container"} /\ Len(buf.data) = buf.cap
  <2>1. CASE kind = "counting"
    <3>1. /\ buf' = Emptied /\ count' = count + Len(buf.data) /\ UNCHANGED <<sink, lost, blocks>>
          /\ buf.cap = ArraySize /\ buf.at = "own"
      BY <1>1, <1>2, <1>13, <2>1 DEF Grow, Storage
    <3>2. buf' = [data |-> <<>>, cap |-> ArraySize, at |-> "own"]
      BY <1>3, <3>1 DEF Emptied
    <3>3. buf' \in Buffer /\ buf'.data = <<>> /\ buf'.cap = ArraySize /\ buf'.at = "own"
      BY <1>6, <3>2, InlineFacts
    <3>4. count' = total /\ count' \in Nat /\ sink' \in Seq(Nat) /\ lost' \in BOOLEAN
      BY <1>1, <2>1, <3>1 DEF BufTypeOK, Contents
    <3>5. QED
      BY <1>8, <2>1, <3>1, <3>3, <3>4
  <2>2. CASE kind # "counting"
    <3>1. Flush /\ UNCHANGED blocks
      BY <1>2, <1>13, <2>2 DEF Grow
    <3>2. kind = "pointer" /\ buf.at = "own" => limit <= count
      BY <1>1, <1>5 DEF Contents
    <3>3. /\ kind \in {"iterator", "limited", "pointer", "file"}
          /\ buf' \in Buffer /\ buf'.data = <<>> /\ buf'.cap = ArraySize /\ buf'.at = "own"
          /\ sink' \in Seq(Nat) /\ count' \in Nat /\ lost' \in BOOLEAN
          /\ kind \in {"iterator", "file"} => lost' \/ sink' = Text(1, total)
          /\ kind \in {"limited", "pointer"} => count' = total /\ sink' = Text(1, Smaller(limit, count'))
      BY <1>2, <3>1, <3>2, FlushKeeps
    <3>4. kind = "pointer" => limit <= count'
      <4>1. limit \in Nat /\ count \in Nat
        BY <1>1 DEF BufTypeOK
      <4>2. CASE kind = "pointer" /\ buf.at = "own"
        <5>1. total = count + Len(buf.data) /\ count' = total
          BY <1>1, <3>3, <4>2 DEF Contents
        <5>2. QED
          BY <1>3, <3>2, <4>1, <4>2, <5>1
      <4>3. CASE kind = "pointer" /\ buf.at # "own"
        <5>1. buf.at = "out" /\ buf.cap = limit
          BY <1>1, <1>3, <4>3 DEF Storage
        <5>2. count = 0 /\ count + Len(buf.data) = total /\ count' = total
          BY <1>1, <3>3, <4>3, <5>1 DEF Contents
        <5>3. QED
          BY <1>3, <1>13, <4>1, <5>1, <5>2
      <4>4. QED
        BY <4>2, <4>3
    <3>5. QED
      BY <1>8, <2>2, <3>1, <3>3, <3>4
  <2>3. QED
    BY <2>1, <2>2
<1>14. QED
  BY <1>9, <1>10, <1>11, <1>12, <1>13

\* What is in the sink, what is in the buffer and what is added to it, in any grouping.
LEMMA Regrouped ==
  ASSUME NEW s \in Seq(Nat), NEW d \in Seq(Nat), NEW t \in Seq(Nat)
  PROVE  (s \o d) \o t = s \o (d \o t)
<1>1. PICK m \in Nat : m = Len(s)
  BY LenProperties
<1>2. PICK n \in Nat : n = Len(d)
  BY LenProperties
<1>3. PICK o \in Nat : o = Len(t)
  BY LenProperties
<1> DEFINE a == s \o d
<1> DEFINE b == d \o t
<1>4. /\ a \in Seq(Nat) /\ Len(a) = m + n
      /\ \A i \in 1..(m + n) : a[i] = IF i <= m THEN s[i] ELSE d[i - m]
  BY <1>1, <1>2, ConcatProperties, Zenon
<1>5. /\ b \in Seq(Nat) /\ Len(b) = n + o
      /\ \A i \in 1..(n + o) : b[i] = IF i <= n THEN d[i] ELSE t[i - n]
  BY <1>2, <1>3, ConcatProperties, Zenon
<1> HIDE DEF a, b
<1> DEFINE u == a \o t
<1> DEFINE v == s \o b
<1>6. /\ u \in Seq(Nat) /\ Len(u) = (m + n) + o
      /\ \A i \in 1..((m + n) + o) : u[i] = IF i <= m + n THEN a[i] ELSE t[i - (m + n)]
  <2>1. /\ u \in Seq(Nat) /\ Len(u) = Len(a) + Len(t)
        /\ \A i \in 1..(Len(a) + Len(t)) : u[i] = IF i <= Len(a) THEN a[i] ELSE t[i - Len(a)]
    BY <1>4, ConcatProperties, Zenon
  <2> HIDE DEF u
  <2>2. QED
    BY <1>3, <1>4, <2>1, Zenon
<1>7. /\ v \in Seq(Nat) /\ Len(v) = m + (n + o)
      /\ \A i \in 1..(m + (n + o)) : v[i] = IF i <= m THEN s[i] ELSE b[i - m]
  <2>1. /\ v \in Seq(Nat) /\ Len(v) = Len(s) + Len(b)
        /\ \A i \in 1..(Len(s) + Len(b)) : v[i] = IF i <= Len(s) THEN s[i] ELSE b[i - Len(s)]
    BY <1>5, ConcatProperties, Zenon
  <2> HIDE DEF v
  <2>2. QED
    BY <1>1, <1>5, <2>1, Zenon
<1> HIDE DEF u, v
<1>8. ASSUME NEW i \in 1..Len(u)
      PROVE  u[i] = v[i]
  <2>1. i \in 1..((m + n) + o) /\ i \in 1..(m + (n + o))
    BY <1>6
  <2>2. CASE i <= m
    <3>1. i <= m + n /\ i \in 1..(m + n)
      BY <2>1, <2>2
    <3>2. QED
      BY <1>4, <1>6, <1>7, <2>1, <2>2, <3>1, Zenon
  <2>3. CASE m < i /\ i <= m + n
    <3>1. /\ ~(i <= m) /\ i \in 1..(m + n) /\ i - m \in 1..(n + o) /\ i - m <= n
      BY <2>1, <2>3
    <3>2. QED
      BY <1>4, <1>5, <1>6, <1>7, <2>1, <2>3, <3>1, Zenon
  <2>4. CASE m + n < i
    <3>1. /\ ~(i <= m) /\ ~(i <= m + n) /\ i - m \in 1..(n + o) /\ ~(i - m <= n)
          /\ (i - m) - n = i - (m + n)
      BY <2>1, <2>4
    <3>2. QED
      BY <1>5, <1>6, <1>7, <2>1, <3>1, Zenon
  <2>5. QED
    BY <2>1, <2>2, <2>3, <2>4
<1>9. (m + n) + o = m + (n + o)
  OBVIOUS
<1>10. Len(u) = Len(v)
  BY <1>6, <1>7, <1>9, Zenon
<1>11. QED
  BY <1>6, <1>7, <1>8, <1>10, SeqEqual, Zenon DEF a, b, u, v

\* Characters that are put behind the others are the next ones of the text.
LEMMA CopiesInv ==
  ASSUME BufInv, NEW n \in Nat, Copies(n), how' \in {"append", "push_back", "pointer"},
         todo > 0, n <= todo, Len(buf.data) + n <= buf.cap,
         kind = "container" => buf.cap = Len(buf.data) + n
  PROVE  BufInv'
<1>1. BufTypeOK /\ Fits /\ Storage /\ Contents
  BY DEF BufInv
<1>2. /\ buf' = [buf EXCEPT !.data = @ \o Text(total + 1, total + n)]
      /\ todo' = todo - n /\ total' = total + n /\ room' = FALSE
      /\ UNCHANGED <<kind, limit, other, blocks, sink, count, lost, state>>
  BY DEF Copies, outVars
<1>3. /\ buf = [data |-> buf.data, cap |-> buf.cap, at |-> buf.at]
      /\ buf.data \in Seq(Nat) /\ Len(buf.data) \in Nat /\ buf.cap \in Nat
      /\ buf.at \in {"own", "heap", "out"} /\ todo \in Nat /\ total \in Nat
      /\ sink \in Seq(Nat) /\ count \in Nat
  BY <1>1, Parts DEF BufTypeOK
<1>4. PICK t \in Seq(Nat) : t = Text(total + 1, total + n) /\ Len(t) = n
  <2>1. PICK a \in Nat : a = total + 1
    BY <1>3
  <2>2. PICK b \in Nat : b = total + n
    BY <1>3
  <2>3. a <= b + 1 /\ b + 1 - a = n
    <3>1. \A x, y \in Nat : x + 1 <= x + y + 1 /\ x + y + 1 - (x + 1) = y
      OBVIOUS
    <3>2. total \in Nat
      BY <1>3
    <3>3. QED
      BY <2>1, <2>2, <3>1, <3>2
  <2>4. Text(a, b) \in Seq(Nat) /\ Len(Text(a, b)) = n
    <3>1. Text(a, b) \in Seq(Nat) /\ Len(Text(a, b)) = b + 1 - a
      BY <2>3, TextFacts
    <3>2. QED
      BY <2>3, <3>1
  <2>5. QED
    BY <2>1, <2>2, <2>4
<1>5. PICK d \in Seq(Nat) : d = buf.data /\ Len(d) = Len(buf.data)
  BY <1>3
<1>6. d \o t \in Seq(Nat) /\ Len(d \o t) = Len(d) + n
  <2>1. d \o t \in Seq(Nat) /\ Len(d \o t) = Len(d) + Len(t)
    BY ConcatProperties, Zenon
  <2>2. QED
    BY <1>4, <2>1, Zenon
<1>7. buf' = [data |-> d \o t, cap |-> buf.cap, at |-> buf.at]
  BY <1>2, <1>3, <1>4, <1>5
<1>8. buf' \in Buffer /\ buf'.data = d \o t /\ buf'.cap = buf.cap /\ buf'.at = buf.at
  <2>1. PICK s \in Seq(Nat) : s = d \o t
    BY <1>6
  <2>2. buf' = [data |-> s, cap |-> buf.cap, at |-> buf.at]
    BY <1>7, <2>1
  <2>3. buf' \in Buffer /\ buf'.data = s /\ buf'.cap = buf.cap /\ buf'.at = buf.at
    BY <1>3, <2>2, NewBuffer
  <2>4. QED
    BY <2>1, <2>3
<1>9. ASSUME NEW a \in Nat, a <= total + 1
      PROVE  Text(a, total) \o t = Text(a, total')
  <2>1. PICK c \in Nat : c = total + n /\ total <= c
    BY <1>3
  <2>2. Text(a, total) \o Text(total + 1, c) = Text(a, c)
    <3>1. total \in Nat
      BY <1>3
    <3>2. QED
      BY <1>9, <2>1, <3>1, TextJoin, Zenon
  <2>3. QED
    BY <1>2, <1>4, <2>1, <2>2
<1>10. 1 \in Nat /\ 1 <= total + 1
  BY <1>3
<1>11. todo' \in Nat /\ total' \in Nat /\ state = "open"
  BY <1>1, <1>2, <1>3 DEF Fits
<1>12. BufTypeOK'
  BY <1>1, <1>2, <1>8, <1>11 DEF BufTypeOK
<1>13. Fits'
  <2>1. Len(buf'.data) <= buf'.cap /\ (kind' = "container" => buf'.cap = Len(buf'.data))
    BY <1>2, <1>5, <1>6, <1>8
  <2>2. Len(other'.data) <= other'.cap
    BY <1>1, <1>2 DEF Fits
  <2>3. ~room' /\ state' = "open"
    BY <1>2, <1>11
  <2>4. QED
    BY <2>1, <2>2, <2>3 DEF Fits
<1>14. Storage'
  BY <1>1, <1>2, <1>8 DEF Storage, OnHeap
<1>15. Contents'
  <2>1. kind \in {"memory", "container"} => sink = <<>> /\ d \o t = Text(1, total')
    BY <1>1, <1>5, <1>9, <1>10 DEF Contents
  <2>2. kind \in {"iterator", "file"} => lost \/ sink \o (d \o t) = Text(1, total')
    <3>1. (sink \o d) \o t = sink \o (d \o t)
      <4>1. PICK s \in Seq(Nat) : s = sink
        BY <1>3
      <4>2. (s \o d) \o t = s \o (d \o t)
        BY Regrouped, Zenon
      <4>3. QED
        BY <4>1, <4>2
    <3>2. QED
      BY <1>1, <1>5, <1>9, <1>10, <3>1 DEF Contents
  <2>3. kind \in {"limited", "pointer", "counting"} => count + Len(d \o t) = total'
    <3>1. kind \in {"limited", "pointer", "counting"} => count + Len(d) = total
      BY <1>1, <1>5 DEF Contents
    <3>2. QED
      BY <1>2, <1>3, <1>5, <1>6, <3>1
  <2>4. kind = "limited" => d \o t = Text(count + 1, total')
    <3>1. SUFFICES ASSUME kind = "limited" PROVE d \o t = Text(count + 1, total')
      OBVIOUS
    <3>2. count + Len(d) = total /\ d = Text(count + 1, total)
      BY <1>1, <1>5, <3>1 DEF Contents
    <3>3. count + 1 \in Nat /\ count + 1 <= total + 1
      BY <1>3, <1>5, <3>2
    <3>4. QED
      BY <1>9, <3>2, <3>3
  <2>5. kind = "pointer" /\ buf.at = "out" => d \o t = Text(1, total')
    BY <1>1, <1>5, <1>9, <1>10 DEF Contents
  <2>6. QED
    BY <1>1, <1>2, <1>8, <2>1, <2>2, <2>3, <2>4, <2>5 DEF Contents
<1>16. QED
  BY <1>12, <1>13, <1>14, <1>15 DEF BufInv

\* The three ways of a call to put its characters into the buffer.
LEMMA CopyInv ==
  ASSUME BufInv, Copy
  PROVE  BufInv'
<1>1. BufTypeOK /\ Fits /\ Storage /\ Contents
  BY DEF BufInv
<1>2. todo > 0 /\ room /\ (Append_ \/ PushBackChar \/ ToPointer)
  BY DEF Copy
<1>3. /\ Len(buf.data) \in Nat /\ buf.cap \in Nat /\ todo \in Nat /\ Len(buf.data) < buf.cap
  BY <1>1, <1>2, Parts DEF BufTypeOK, Fits
<1>4. kind = "container" => buf.cap = Len(buf.data) + (IF how = "push_back" THEN 1 ELSE todo)
  BY <1>1, <1>2 DEF Fits, Wanted
<1>5. how \in {"append", "push_back", "pointer"}
  BY <1>1 DEF BufTypeOK
<1>6. CASE Append_
  <2>1. PICK n \in Nat : /\ n = Smaller(todo, buf.cap - Len(buf.data)) /\ n <= todo
                         /\ Len(buf.data) + n <= buf.cap
                         /\ (buf.cap = Len(buf.data) + todo => n = todo)
    BY <1>3 DEF Smaller
  <2>2. Copies(n) /\ how' = how /\ how = "append"
    BY <1>6, <2>1 DEF Append_
  <2>3. kind = "container" => buf.cap = Len(buf.data) + n
    BY <1>4, <2>1, <2>2
  <2>4. QED
    BY <1>2, <1>5, <2>1, <2>2, <2>3, CopiesInv
<1>7. CASE PushBackChar
  <2>1. Copies(1) /\ how' = how /\ how = "push_back"
    BY <1>7 DEF PushBackChar
  <2>2. 1 \in Nat /\ 1 <= todo /\ Len(buf.data) + 1 <= buf.cap
    BY <1>2, <1>3
  <2>3. kind = "container" => buf.cap = Len(buf.data) + 1
    BY <1>4, <2>1
  <2>4. QED
    BY <1>2, <1>5, <2>1, <2>2, <2>3, CopiesInv
<1>8. CASE ToPointer /\ Len(buf.data) + todo <= buf.cap
  <2>1. Copies(todo) /\ how' = how /\ how = "pointer"
    BY <1>8 DEF ToPointer
  <2>2. todo <= todo
    BY <1>3
  <2>3. kind = "container" => buf.cap = Len(buf.data) + todo
    BY <1>4, <2>1
  <2>4. QED
    BY <1>2, <1>3, <1>5, <1>8, <2>1, <2>2, <2>3, CopiesInv
<1>9. CASE ToPointer /\ ~(Len(buf.data) + todo <= buf.cap)
  <2>1. /\ how = "pointer" /\ how' = "push_back" /\ room' = FALSE
        /\ UNCHANGED <<kind, limit, buf, other, blocks, sink, count, lost, todo, total, state>>
    BY <1>9 DEF ToPointer, outVars
  <2>2. kind # "container"
    <3>1. Len(buf.data) + todo <= Len(buf.data) + todo
      BY <1>3
    <3>2. QED
      BY <1>4, <1>9, <2>1, <3>1
  <2>3. BufTypeOK'
    BY <1>1, <2>1 DEF BufTypeOK
  <2>4. Fits'
    BY <1>1, <2>1, <2>2 DEF Fits
  <2>5. Storage'
    BY <1>1, <2>1 DEF Storage, OnHeap
  <2>6. Contents'
    BY <1>1, <2>1 DEF Contents
  <2>7. QED
    BY <2>3, <2>4, <2>5, <2>6 DEF BufInv
<1>10. QED
  BY <1>2, <1>6, <1>7, <1>8, <1>9

\* A call that starts or fails, and a destructor that throws, leave the text alone.
LEMMA CallsInv ==
  ASSUME BufInv, \/ \E n \in 1..MaxPiece, way \in {"append", "push_back", "pointer"} : Call(n, way)
                 \/ Throws \/ Dies
  PROVE  BufInv'
<1>1. BufTypeOK /\ Fits /\ Storage /\ Contents
  BY DEF BufInv
<1> DEFINE Same ==
      /\ UNCHANGED <<kind, limit, buf, other, blocks, sink, count, lost, total>>
      /\ room' = FALSE /\ todo' \in Nat /\ how' \in {"append", "push_back", "pointer"}
      /\ state' \in {"open", "closed", "dead"} /\ (state' # "open" => todo' = 0)
      /\ (state' = "open" => state = "open") /\ room = FALSE
<1>2. Same
  <2>1. ASSUME NEW n \in 1..MaxPiece, NEW way \in {"append", "push_back", "pointer"}, Call(n, way)
        PROVE  Same
    <3>1. n \in Nat
      BY FmtBufferAssumption
    <3>2. /\ UNCHANGED <<kind, limit, buf, other, blocks, sink, count, lost, total, state>>
          /\ state = "open" /\ todo = 0 /\ todo' = n /\ how' = way /\ room' = FALSE
      BY <2>1 DEF Call, outVars
    <3>3. room = FALSE
      BY <1>1, <3>2 DEF Fits, BufTypeOK
    <3>4. QED
      BY <3>1, <3>2, <3>3
  <2>2. CASE Throws
    <3>1. /\ UNCHANGED <<kind, limit, buf, other, blocks, sink, count, lost, how, room, total, state>>
          /\ todo > 0 /\ ~room /\ todo' = 0
      BY <2>2 DEF Throws, outVars
    <3>2. QED
      BY <1>1, <3>1 DEF BufTypeOK
  <2>3. CASE Dies
    <3>1. /\ UNCHANGED <<kind, limit, buf, other, blocks, sink, count, lost, how, todo, room, total>>
          /\ state = "open" /\ todo = 0 /\ state' = "dead"
      BY <2>3 DEF Dies, outVars
    <3>2. room = FALSE
      BY <1>1, <3>1 DEF Fits, BufTypeOK
    <3>3. QED
      BY <1>1, <3>1, <3>2 DEF BufTypeOK
  <2>4. QED
    BY <2>1, <2>2, <2>3
<1>3. BufTypeOK'
  BY <1>1, <1>2 DEF BufTypeOK
<1>4. Fits'
  BY <1>1, <1>2 DEF Fits
<1>5. Storage'
  BY <1>1, <1>2 DEF Storage, OnHeap
<1>6. Contents'
  BY <1>1, <1>2 DEF Contents
<1>7. QED
  BY <1>3, <1>4, <1>5, <1>6 DEF BufInv

\* Two memory buffers change their places, or one takes the storage of the other.
LEMMA MovesInv ==
  ASSUME BufInv, UseOther \/ MoveBuffer
  PROVE  BufInv'
<1>1. BufTypeOK /\ Fits /\ Storage /\ Contents
  BY DEF BufInv
<1>2. /\ state = "open" /\ todo = 0 /\ kind = "memory" /\ ~room
      /\ UNCHANGED <<kind, limit, sink, count, lost, how, todo, room, state>>
  <2>1. /\ state = "open" /\ todo = 0 /\ kind = "memory"
        /\ UNCHANGED <<kind, limit, sink, count, lost, how, todo, room, state>>
    BY DEF UseOther, MoveBuffer, outVars
  <2>2. QED
    BY <1>1, <2>1 DEF Fits, BufTypeOK
<1>3. /\ Len(buf.data) \in Nat /\ Len(other.data) \in Nat /\ blocks = OnHeap(buf) + OnHeap(other)
      /\ buf \in Buffer /\ other \in Buffer
  BY <1>1, Parts DEF Storage, BufTypeOK
<1>4. buf.data = Text(1, total) /\ total \in Nat /\ Len(buf.data) = total
  <2>1. buf.data = Text(1, total) /\ total \in Nat
    BY <1>1, <1>2 DEF Contents, BufTypeOK
  <2>2. 1 \in Nat /\ 1 <= total + 1 /\ total + 1 - 1 = total
    BY <2>1
  <2>3. QED
    BY <2>1, <2>2, TextFacts
<1>5. CASE UseOther
  <2>1. buf' = other /\ other' = buf /\ total' = Len(other.data) /\ blocks' = blocks
    BY <1>5 DEF UseOther
  <2>2. BufTypeOK'
    BY <1>1, <1>2, <1>3, <2>1 DEF BufTypeOK
  <2>3. Fits'
    BY <1>1, <1>2, <2>1 DEF Fits
  <2>4. Storage'
    <3>1. blocks' = OnHeap(buf)' + OnHeap(other)'
      BY <1>3, <2>1 DEF OnHeap
    <3>2. QED
      BY <1>1, <1>2, <2>1, <3>1 DEF Storage
  <2>5. Contents'
    BY <1>1, <1>2, <1>4, <2>1 DEF Contents
  <2>6. QED
    BY <2>2, <2>3, <2>4, <2>5 DEF BufInv
<1>6. CASE MoveBuffer
  <2>1. /\ blocks' = blocks - OnHeap(other) /\ buf' = buf /\ total' = total
        /\ other' = IF buf.at = "own" THEN buf ELSE Inline(0)
    BY <1>6 DEF MoveBuffer, OnHeap
  <2>2. /\ Inline(0) \in Buffer /\ Inline(0).data = <<>> /\ Inline(0).cap = 0 /\ Inline(0).at = "own"
        /\ Len(<<>>) = 0
    BY InlineFacts
  <2>3. /\ other' \in Buffer /\ Len(other'.data) <= other'.cap /\ other'.at = "own"
        /\ other'.data = Text(1, Len(other'.data))
    <3>1. CASE buf.at = "own"
      BY <1>1, <1>4, <2>1, <3>1 DEF Fits, BufTypeOK
    <3>2. CASE buf.at # "own"
      <4>1. Text(0 + 1, 0) = <<>> /\ 0 + 1 = 1
        BY EmptyText
      <4>2. QED
        BY <2>1, <2>2, <3>2, <4>1
    <3>3. QED
      BY <3>1, <3>2
  <2>4. BufTypeOK'
    BY <1>1, <1>2, <2>1, <2>3 DEF BufTypeOK
  <2>5. Fits'
    BY <1>1, <1>2, <2>1, <2>3 DEF Fits
  <2>6. Storage'
    <3>1. blocks' = OnHeap(buf)' + OnHeap(other)'
      BY <1>3, <2>1, <2>3 DEF OnHeap
    <3>2. QED
      BY <1>1, <1>2, <2>1, <2>3, <3>1 DEF Storage
  <2>7. Contents'
    BY <1>1, <1>2, <2>1, <2>3 DEF Contents
  <2>8. QED
    BY <2>4, <2>5, <2>6, <2>7 DEF BufInv
<1>7. QED
  BY <1>5, <1>6

\* flush() of a file, and the end of the formatting, hand over what is left.
LEMMA FinishInv ==
  ASSUME BufInv, FlushFile \/ Finish
  PROVE  BufInv'
<1>1. BufTypeOK /\ Fits /\ Storage /\ Contents
  BY DEF BufInv
<1>2. /\ state = "open" /\ todo = 0 /\ ~room
      /\ UNCHANGED <<kind, limit, other, blocks, how, todo, room, total>>
      /\ state' \in {"open", "closed"} /\ (kind # "file" => state' = "closed")
  <2>1. /\ state = "open" /\ todo = 0
        /\ UNCHANGED <<kind, limit, other, blocks, how, todo, room, total>>
        /\ state' \in {"open", "closed"} /\ (kind # "file" => state' = "closed")
    BY DEF FlushFile, Finish
  <2>2. QED
    BY <1>1, <2>1 DEF Fits, BufTypeOK
<1>3. CASE kind \in {"memory", "container", "counting"}
  <2>1. UNCHANGED <<buf, sink, count, lost>> /\ state' = "closed"
    BY <1>3 DEF FlushFile, Finish, outVars
  <2>2. BufTypeOK'
    BY <1>1, <1>2, <2>1 DEF BufTypeOK
  <2>3. Fits'
    BY <1>1, <1>2, <2>1 DEF Fits
  <2>4. Storage'
    BY <1>1, <1>2, <2>1 DEF Storage, OnHeap
  <2>5. Contents'
    BY <1>1, <1>2, <2>1 DEF Contents
  <2>6. QED
    BY <2>2, <2>3, <2>4, <2>5 DEF BufInv
<1>4. CASE kind \notin {"memory", "container", "counting"}
  <2>1. Flush
    BY <1>4 DEF FlushFile, Finish
  <2>2. kind = "pointer" /\ buf.at = "own" => limit <= count
    BY <1>1, <1>2 DEF Contents
  <2>3. /\ buf' \in Buffer /\ buf'.data = <<>> /\ buf'.cap = ArraySize /\ buf'.at = "own"
        /\ sink' \in Seq(Nat) /\ count' \in Nat /\ lost' \in BOOLEAN
        /\ kind \in {"iterator", "file"} => lost' \/ sink' = Text(1, total)
        /\ kind \in {"limited", "pointer"} => count' = total /\ sink' = Text(1, Smaller(limit, count'))
    BY <1>2, <2>1, <2>2, FlushKeeps
  <2>4. BufTypeOK'
    BY <1>1, <1>2, <2>3 DEF BufTypeOK
  <2>5. Fits'
    <3>1. Len(<<>>) = 0 /\ 0 <= ArraySize
      BY FmtBufferAssumption
    <3>2. QED
      BY <1>1, <1>2, <1>4, <2>3, <3>1 DEF Fits
  <2>6. Storage'
    BY <1>1, <1>2, <1>4, <2>3 DEF Storage, OnHeap
  <2>7. Contents'
    <3>1. total \in Nat /\ Len(<<>>) = 0
      BY <1>1 DEF BufTypeOK
    <3>2. Text(total + 1, total) = <<>>
      BY <3>1, EmptyText
    <3>3. sink' \o <<>> = sink'
      BY <2>3, ConcatEmptySeq
    <3>4. kind' = "limited" => buf'.data = Text(count' + 1, total')
      BY <1>2, <2>3, <3>2
    <3>5. kind' \in {"iterator", "file"} => lost' \/ sink' \o buf'.data = Text(1, total')
      BY <1>2, <2>3, <3>3
    <3>6. kind' \in {"limited", "pointer", "counting"} => count' + Len(buf'.data) = total'
      <4>1. Len(buf'.data) = 0 /\ total' = total /\ total + 0 = total
        BY <1>2, <2>3, <3>1
      <4>2. kind' \in {"limited", "pointer", "counting"} => count' = total
        BY <1>2, <1>4, <2>3
      <4>3. QED
        BY <4>1, <4>2
    <3>7. QED
      BY <1>2, <1>4, <2>3, <3>4, <3>5, <3>6 DEF Contents
  <2>8. QED
    BY <2>4, <2>5, <2>6, <2>7 DEF BufInv
<1>5. QED
  BY <1>3, <1>4

LEMMA BufNextInv == BufInv /\ [BufNext]_bufVars => BufInv'
<1> SUFFICES ASSUME BufInv, [BufNext]_bufVars PROVE BufInv'
  OBVIOUS
<1>1. CASE BufNext
  BY <1>1, CallsInv, TryReserveInv, CopyInv, FinishInv, MovesInv DEF BufNext
<1>2. CASE UNCHANGED bufVars
  <2>1. UNCHANGED <<kind, limit, buf, other, blocks, sink, count, lost, how, todo, room, total, state>>
    BY <1>2 DEF bufVars, outVars
  <2>2. QED
    <3>1. BufTypeOK' /\ Fits'
      BY <2>1 DEF BufInv, BufTypeOK, Fits, Wanted
    <3>2. Storage'
      BY <2>1 DEF BufInv, Storage, OnHeap
    <3>3. Contents'
      BY <2>1 DEF BufInv, Contents
    <3>4. QED
      BY <3>1, <3>2, <3>3 DEF BufInv
<1>3. QED
  BY <1>1, <1>2

\* Whatever kind of buffer the text goes through, for every size of its array,
\* every limit and every order of append, push_back and to_pointer: the target
\* and the buffer together have the text in its order, or its first limit
\* characters, nothing is put behind the end of the storage, and every block of
\* memory has one buffer (base.h 829-1089, format.h 844-929, os.h 390-394).
THEOREM TextKeptHolds == BufInit /\ [][BufNext]_bufVars => []TextKept
<1>1. BufInit => BufInv
  BY BufInitInv
<1>2. BufInv /\ [BufNext]_bufVars => BufInv'
  BY BufNextInv
<1>3. BufInv => TextKept
  BY BufInvKept
<1>4. QED
  BY <1>1, <1>2, <1>3, PTL

=============================================================================
