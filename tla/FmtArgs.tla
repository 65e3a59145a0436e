------------------------------- MODULE FmtArgs -------------------------------
(***************************************************************************)
(* The arguments of a formatting call: format_arg_store and                *)
(* basic_format_args of base.h, and dynamic_format_arg_store of args.h.    *)
(* An argument is its position in the list the caller gave, from 1; some   *)
(* have names.  Up to MaxPacked arguments are packed: their types are in   *)
(* the descriptor, four bits each, where no argument reads as none_type.   *)
(***************************************************************************)
EXTENDS Naturals, Sequences

CONSTANTS
  Names,      \* names of arguments
  NoName,     \* an argument without a name
  MaxPacked,  \* max_packed_args
  MaxArgs     \* bound on the arguments of a list

ASSUME FmtArgsAssumption == NoName \notin Names /\ MaxPacked \in Nat /\ MaxArgs \in Nat

NotFound == 0
Header == MaxArgs + 1     \* the element that has the table of names
Undefined == MaxArgs + 2  \* what is behind the end of an array

VARIABLES
  dynamic,  \* a dynamic_format_arg_store
  given,    \* history: the names of the arguments the caller gave
  data,     \* data_, args: the elements of the array
  named,    \* named_info_, named_args: names and ids
  broken    \* history: an allocation failed after the header was put in

argVars == <<dynamic, given, data, named, broken>>

Named(id, name) == [id |-> id, name |-> name]
HasName(k) == given[k] # NoName

(* init_named_arg, for every argument of a static store: the numbers of the *)
(* arguments with names, one after the other.                               *)
NamesOf(list) ==
  LET with == {k \in 1..Len(list) : list[k] # NoName}
  IN {at \in UNION {[1..n -> with] : n \in 0..Len(list)} :
        /\ with = {at[i] : i \in DOMAIN at}
        /\ \A i, j \in DOMAIN at : i < j => at[i] < at[j]}

ArgsInit ==
  /\ broken = FALSE
  /\ \/ /\ dynamic = TRUE /\ given = <<>> /\ data = <<>> /\ named = <<>>
     \/ /\ dynamic = FALSE
        /\ \E n \in 0..MaxArgs : given \in [1..n -> Names \union {NoName}]
        /\ \E at \in NamesOf(given) : named = [i \in DOMAIN at |-> Named(at[i] - 1, given[at[i]])]
        /\ data = (IF named = <<>> THEN <<>> ELSE <<Header>>) \o [k \in 1..Len(given) |-> k]

-----------------------------------------------------------------------------
(* dynamic_format_arg_store *)

PushBack ==
  /\ dynamic /\ Len(given) < MaxArgs
  /\ given' = Append(given, NoName) /\ data' = Append(data, Len(given'))
  /\ UNCHANGED <<dynamic, named, broken>>

WithHeader == IF named = <<>> THEN <<Header>> \o data ELSE data

\* Fault: the id counts the header.
PushNamedOffByOne(name) ==
  /\ dynamic /\ Len(given) < MaxArgs
  /\ given' = Append(given, name) /\ data' = Append(WithHeader, Len(given'))
  /\ named' = Append(named, Named(Len(data') - 1, name))
  /\ UNCHANGED <<dynamic, broken>>

PushNamed(name) ==
  /\ dynamic /\ Len(given) < MaxArgs
  /\ given' = Append(given, name) /\ data' = Append(WithHeader, Len(given'))
  /\ named' = Append(named, Named(Len(data') - 2, name))
  /\ UNCHANGED <<dynamic, broken>>

PushNamedFails == \* named_info_.push_back throws: the guard takes the argument out again
  /\ dynamic /\ ~broken /\ Len(given) < MaxArgs
  /\ data' = WithHeader /\ broken' = (named = <<>>)
  /\ UNCHANGED <<dynamic, given, named>>

Clear ==
  /\ dynamic /\ given # <<>>
  /\ given' = <<>> /\ data' = <<>> /\ named' = <<>> /\ broken' = FALSE
  /\ UNCHANGED dynamic

ArgsNext == PushBack \/ PushNamedFails \/ Clear \/ \E name \in Names : PushNamed(name)

-----------------------------------------------------------------------------
(* basic_format_args, made from a store. *)

IsPacked == ~dynamic /\ Len(given) <= MaxPacked
HasNamedArgs == named # <<>>
Element(i) == \* values_[i], args_[i]: behind the header if there are names
  LET at == i + 1 + (IF HasNamedArgs THEN 1 ELSE 0)
  IN IF at \in DOMAIN data THEN data[at] ELSE Undefined

MaxSize ==
  IF IsPacked THEN MaxPacked ELSE IF dynamic THEN Len(data) ELSE Len(given)

Get(id) ==
  IF ~IsPacked THEN (IF id < MaxSize THEN Element(id) ELSE NotFound)
  ELSE IF id >= MaxPacked \/ id >= Len(given) THEN NotFound \* none_type
  ELSE Element(id)

GetNamed(name) ==
  LET at == {i \in DOMAIN named : named[i].name = name}
  IN IF at = {} THEN NotFound
     ELSE Get(named[CHOOSE i \in at : \A j \in at : i <= j].id)

-----------------------------------------------------------------------------
(***************************************************************************)
(* An id finds the argument with that number and a name the first argument *)
(* that has it, packed or not, from either store, and nothing else is      *)
(* found; except in a dynamic store with names, where the id after the     *)
(* last one reads behind the array (data_.size() at args.h 115 counts the  *)
(* header), and after an allocation has failed for the first name          *)
(* (args.h 131-143: the header stays).                                     *)
(***************************************************************************)
LookupExact ==
  ~broken =>
    /\ \A id \in 0..MaxArgs + 1 :
         Get(id) = IF id < Len(given) THEN id + 1
                   ELSE IF dynamic /\ HasNamedArgs /\ id = Len(given) THEN Undefined
                   ELSE NotFound
    /\ \A name \in Names :
         LET k == GetNamed(name) IN
         IF k = NotFound THEN \A i \in DOMAIN given : given[i] # name
         ELSE k \in DOMAIN given /\ given[k] = name /\ \A i \in 1..k - 1 : given[i] # name

=============================================================================
