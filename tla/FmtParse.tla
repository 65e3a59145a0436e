------------------------------- MODULE FmtParse -------------------------------
(***************************************************************************)
(* The parsers of format strings: parse_format_string of base.h with its   *)
(* two loops and its two handlers (vformat_to at run time, the checker of  *)
(* compile-time strings), parse_format_specs, and the parser of compile.h. *)
(* A format string is a sequence of code units; positions are from 1.      *)
(* Every parser carries a record h: next is next_arg_id_, out what has     *)
(* been written (code units and fields), error the first error.            *)
(* Not in the model: arguments of user-defined types, and the specifiers   *)
(* of nested formatters (none_type).                                       *)
(***************************************************************************)
EXTENDS Integers, Sequences

CONSTANTS
  MaxInt,     \* INT_MAX
  Digits10,   \* the number of digits every int can have
  Pieces,     \* what a caller's format strings are made of
  ArgLists,   \* the lists of arguments of the calls
  MaxPieces   \* bound on the pieces of a format string

VARIABLES
  text, args, \* a call: the format string and its arguments
  written     \* pieces the format string was made of so far

parseVars == <<text, args, written>>

Digits == {"0", "1", "2"}
Letters == {"a", "b", "c", "d", "e", "f", "g", "o", "p", "s", "x", "A", "B", "E", "F", "G", "L", "X"}
Lead == "lead"    \* the first of the two code units of some code point
Aligns == {"<", ">", "^"}
Signs == {"+", "-", " "}

(* Types *)
Integrals == {"int", "uint", "bool", "char"}
Arithmetic == Integrals \union {"float"}
Strings == {"string", "cstring"}

NoError == "none"
Fail(h, why) == IF h.error = NoError THEN [h EXCEPT !.error = why] ELSE h
Handler(checks, next) ==
  [next |-> next, out |-> <<>>, ids |-> <<>>, error |-> NoError, checks |-> checks,
   odd |-> {}]

NoSpecs == [align |-> "none", fill |-> <<" ">>, sign |-> "none", alt |-> FALSE,
            width |-> <<"value", 0>>, precision |-> <<"value", -1>>,
            localized |-> FALSE, type |-> "none"]
Odd(h, what) == [h EXCEPT !.odd = @ \union {what}] \* history: something the properties tell apart
Text(h, from, to) ==
  [h EXCEPT !.out = @ \o [i \in 1..to - from |-> <<text[from + i - 1], NoSpecs>>]]
Put(h, id, specs) ==
  [h EXCEPT !.out = Append(@, <<"field", specs>>), !.ids = Append(@, id)]

-----------------------------------------------------------------------------
(* basic_format_parse_context and compile_parse_context *)

\* Fault: the id behind the last argument is let through.
CheckIdLate(h, id) == IF h.checks /\ id > Len(args) THEN Fail(h, "argument") ELSE h

CheckId(h, id) == IF h.checks /\ id >= Len(args) THEN Fail(h, "argument") ELSE h

NextId(h) ==
  IF h.next < 0 THEN Fail(h, "switch") ELSE CheckId([h EXCEPT !.next = @ + 1], h.next)

CheckArgId(h, id) ==
  IF h.next > 0 THEN Fail(h, "switch") ELSE CheckId([h EXCEPT !.next = -1], id)

CheckName(h) == [h EXCEPT !.next = -1]

CheckDynamic(h, id) ==
  IF h.error = NoError /\ h.checks /\ id < Len(args) /\ args[id + 1].type \notin Integrals
  THEN Fail(h, "integer") ELSE h

-----------------------------------------------------------------------------
(* Numbers and argument ids *)

EndOf(set, p) == \* of the run of code units of set at p
  CHOOSE q \in p..Len(text) + 1 : /\ \A i \in p..q - 1 : text[i] \in set
                                  /\ q > Len(text) \/ text[q] \notin set

Number(p, errorValue) == \* parse_nonnegative_int
  LET n == EndOf(Digits, p) - p
      digit == [c \in Digits |-> CHOOSE d \in 0..2 : c = <<"0", "1", "2">>[d + 1]]
      value[k \in 0..n] == IF k = 0 THEN 0 ELSE 10 * value[k - 1] + digit[text[p + k - 1]]
  IN IF n <= Digits10 \/ (n = Digits10 + 1 /\ value[n] <= MaxInt) THEN value[n] ELSE errorValue

Id(kind, at, value) == [kind |-> kind, at |-> at, value |-> value]

ArgId(p) == \* parse_arg_id, do_parse_arg_id
  LET q == IF text[p] = "0" THEN p + 1 ELSE EndOf(Digits, p)
      n == EndOf(Letters \union Digits, p)
  IN CASE text[p] \in {"}", ":"} -> Id("auto", p, 0)
       [] text[p] \in Digits /\ q <= Len(text) /\ text[q] \in {"}", ":"} ->
            Id("index", q, IF text[p] = "0" THEN 0 ELSE Number(p, MaxInt))
       [] text[p] \in Letters -> Id("name", n, SubSeq(text, p, n - 1))
       [] OTHER -> Id("bad", p, 0)

WithName(name) == {i \in DOMAIN args : args[i].name = name}
IndexOf(name) == (CHOOSE i \in WithName(name) : \A j \in WithName(name) : i <= j) - 1

Dynamic(p, h) == \* parse_dynamic_spec, dynamic_spec_id_handler
  LET to(at, ref, hh) == [at |-> at, ref |-> ref, h |-> hh]
      seen(id) == CASE id.kind = "auto" -> CheckDynamic(NextId(h), h.next)
                    [] id.kind = "index" -> CheckDynamic(CheckArgId(h, id.value), id.value)
                    [] id.kind = "name" -> Odd(CheckName(h), "named width")
                    [] OTHER -> Fail(h, "syntax")
      ref(id) == <<id.kind, IF id.kind = "auto" THEN h.next ELSE id.value>>
      named(id) == IF id.at <= Len(text) /\ text[id.at] = "}" THEN to(id.at + 1, ref(id), seen(id))
                   ELSE to(id.at, ref(id), Fail(seen(id), "syntax"))
      value(n) == to(EndOf(Digits, p), <<"value", n>>, IF n = -1 THEN Fail(h, "syntax") ELSE h)
  IN IF text[p] \in Digits THEN value(Number(p, -1))
     ELSE IF text[p] # "{" THEN to(p, <<"value", -1>>, h)
     ELSE IF p = Len(text) THEN to(p, <<"value", -1>>, Fail(h, "syntax"))
     ELSE named(ArgId(p + 1))

-----------------------------------------------------------------------------
(* parse_format_specs *)

States == <<"align", "sign", "hash", "zero", "width", "precision", "locale">>
Rank(s) == CHOOSE k \in DOMAIN States : States[k] = s

TypesOf(c) == \* the types of arguments of a presentation type
  CASE c \in {"d", "x", "X", "o", "b", "B"} -> Integrals
    [] c = "c" -> Integrals \ {"bool"}
    [] c \in {"e", "E", "f", "F", "g", "G", "a", "A"} -> {"float"}
    [] c = "s" -> {"bool"} \union Strings
    [] c = "p" -> {"pointer", "cstring"}
    [] c = "?" -> {"char"} \union Strings
Presentations ==
  {"d", "x", "X", "o", "b", "B", "c", "e", "E", "f", "F", "g", "G", "a", "A", "s", "p", "?"}

RECURSIVE SpecsAt(_, _, _, _, _, _)
SpecsAt(p, c, state, specs, h, type) ==
  LET stop(q, new, hh) == [at |-> q, specs |-> new, h |-> hh]
      bad == stop(p, specs, Fail(h, "syntax"))
      enter(s, valid, q, new, hh) ==
        IF state >= Rank(s) \/ ~valid THEN bad
        ELSE IF hh.error # NoError \/ q > Len(text) THEN stop(q, new, hh)
        ELSE SpecsAt(q, text[q], Rank(s), new, hh, type)
      take(part, valid, d) == enter(part, valid, d.at, [specs EXCEPT ![part] = d.ref], d.h)
      fillEnd == p + (IF text[p] = Lead THEN 2 ELSE 1)
  IN CASE c \in Aligns -> enter("align", TRUE, p + 1, [specs EXCEPT !.align = c], h)
       [] c \in Signs ->
            enter("sign", type \in {"int", "float"}, p + 1, [specs EXCEPT !.sign = c], h)
       [] c = "#" -> enter("hash", type \in Arithmetic, p + 1, [specs EXCEPT !.alt = TRUE], h)
       [] c = "0" ->
            enter("zero", type \in Arithmetic, p + 1,
                  IF specs.align # "none" THEN specs
                  ELSE [specs EXCEPT !.align = "numeric", !.fill = <<"0">>], h)
       [] c \in (Digits \ {"0"}) \union {"{"} ->
            take("width", TRUE, Dynamic(p, h))
       [] c = "." ->
            IF p = Len(text) \/ text[p + 1] = "}" THEN bad
            ELSE take("precision", type \in {"float"} \union Strings, Dynamic(p + 1, h))
       [] c = "L" ->
            enter("locale", type \in Arithmetic, p + 1, [specs EXCEPT !.localized = TRUE], h)
       [] c \in Presentations ->
            IF type \in TypesOf(c) THEN stop(p + 1, [specs EXCEPT !.type = c], h) ELSE bad
       [] c = "}" \/ text[p] = "}" -> stop(p, specs, h)
       [] OTHER ->
            IF fillEnd > Len(text) \/ text[p] = "{" THEN bad
            ELSE enter("align", text[fillEnd] \in Aligns, fillEnd + 1,
                       [specs EXCEPT !.fill = SubSeq(text, p, fillEnd - 1),
                                     !.align = text[fillEnd]], h)

ParseSpecs(p, h, type) ==
  IF p > Len(text) THEN [at |-> p, specs |-> NoSpecs, h |-> h]
  ELSE SpecsAt(p, IF p < Len(text) /\ text[p + 1] \in Aligns THEN "fill" ELSE text[p],
               0, NoSpecs, h, type)

CharSpecs(h, specs, type) == \* check_char_specs
  IF /\ type = "char" /\ specs.type \in {"none", "c", "?"}
     /\ specs.align = "numeric" \/ specs.sign # "none" \/ specs.alt
  THEN Fail(h, "syntax") ELSE h

FormatterParse(p, h, type) == \* formatter::parse
  IF p > Len(text) \/ text[p] = "}" THEN [at |-> p, specs |-> NoSpecs, h |-> h]
  ELSE LET seen(r) == [r EXCEPT !.h = CharSpecs(r.h, r.specs, type)] IN seen(ParseSpecs(p, h, type))

(* handle_dynamic_spec, get_dynamic_spec, width_checker and precision_checker. *)
Resolve(h, specs, part) ==
  LET ref == specs[part]
      known == IF ref[1] = "name" THEN WithName(ref[2]) # {} ELSE ref[2] < Len(args)
      arg == args[(IF ref[1] = "name" THEN IndexOf(ref[2]) ELSE ref[2]) + 1]
      to(hh, value) == [h |-> hh, specs |-> [specs EXCEPT ![part] = <<"value", value>>]]
  IN IF h.error # NoError \/ ref[1] = "value" THEN to(h, ref[2])
     ELSE IF ~known THEN to(Fail(h, "unknown"), 0)
     ELSE IF arg.type \notin {"int", "uint"} THEN to(Fail(h, "integer"), 0)
     ELSE IF arg.value < 0 \/ arg.value > MaxInt THEN to(Fail(h, "range"), 0)
     ELSE to(h, arg.value)

ResolveAll(h, specs) ==
  LET then(w) == Resolve(w.h, w.specs, "precision") IN then(Resolve(h, specs, "width"))

-----------------------------------------------------------------------------
(* parse_replacement_field, for both handlers. *)

OnArgId(h, id) == \* on_arg_id: the id and the handler
  LET known == WithName(id.value) # {}
      name == IF known THEN IndexOf(id.value) ELSE -1
      named == Odd(IF h.checks THEN h ELSE CheckName(h), "name")
  IN CASE id.kind = "auto" -> <<h.next, NextId(h)>>
       [] id.kind = "index" -> <<id.value, CheckArgId(h, id.value)>>
       [] id.kind = "name" -> <<name, IF known THEN named ELSE Fail(named, "argument")>>
       [] OTHER -> <<0, Fail(h, "syntax")>>

GetArg(h, id) == IF ~h.checks /\ id >= Len(args) THEN Fail(h, "argument") ELSE h

OnFormatSpecs(h, id, p) ==
  LET type == args[id + 1].type
      put(at, hh, specs) == [at |-> at, h |-> Put(hh, id, specs)]
      checked(r) == put(r.at, r.h, r.specs)
      closed(at, ready) == \* parse_format_specs has stopped at "at"
        put(at, IF at > Len(text) \/ text[at] # "}" THEN Fail(ready.h, "syntax")
                ELSE CharSpecs(ready.h, ready.specs, type), ready.specs)
      parsed(r) == closed(r.at, ResolveAll(r.h, r.specs))
  IN IF id >= Len(args) THEN [at |-> p, h |-> GetArg(h, id)]
     ELSE IF h.checks THEN checked(FormatterParse(p, h, type))
     ELSE parsed(ParseSpecs(p, h, type))

ReplacementField(p, h) == \* p: the position of "{"
  LET to(at, hh) == [at |-> at, h |-> hh]
      plain(at, hh, arg) == to(at, IF hh.error = NoError THEN Put(hh, arg, NoSpecs) ELSE hh)
      closed(specs) == IF specs.at > Len(text) \/ text[specs.at] # "}"
                       THEN to(specs.at, Fail(specs.h, "syntax"))
                       ELSE to(specs.at + 1, specs.h)
      field(id, arg, hh) ==
        IF hh.error # NoError THEN to(p, hh)
        ELSE IF id.at > Len(text) \/ text[id.at] \notin {"}", ":"} THEN to(p, Fail(hh, "syntax"))
        ELSE IF text[id.at] = "}" THEN plain(id.at + 1, GetArg(hh, arg), arg)
        ELSE closed(OnFormatSpecs(hh, arg, id.at + 1))
      named(id) == LET on == OnArgId(h, id) IN field(id, on[1], on[2])
  IN IF p = Len(text) THEN to(p, Fail(h, "syntax"))
     ELSE IF text[p + 1] = "{" THEN to(p + 2, Text(h, p + 1, p + 2))
     ELSE named(IF text[p + 1] = "}" THEN Id("auto", p + 1, 0) ELSE ArgId(p + 1))

(* parse_format_string: the loop for strings of less than 32 code units. *)
RECURSIVE Short(_, _, _)
Short(begin, p, h) ==
  LET after(field) == Short(field.at, field.at, field.h)
  IN IF h.error # NoError THEN h
     ELSE IF p > Len(text) THEN Text(h, begin, p)
     ELSE IF text[p] = "{" THEN after(ReplacementField(p, Text(h, begin, p)))
     ELSE IF text[p] # "}" THEN Short(begin, p + 1, h)
     ELSE IF p = Len(text) \/ text[p + 1] # "}" THEN Fail(h, "syntax")
     ELSE Short(p + 2, p + 2, Text(h, begin, p + 1))

(* And the one for longer strings, with find (memchr). *)
Find(from, to, c) ==
  LET at == {i \in from..to - 1 : text[i] = c}
  IN IF at = {} THEN 0 ELSE CHOOSE i \in at : \A j \in at : i <= j

RECURSIVE WriteText(_, _, _)
WriteText(from, to, h) ==
  LET p == Find(from, to, "}")
  IN IF from = to \/ h.error # NoError THEN h
     ELSE IF p = 0 THEN Text(h, from, to)
     ELSE IF p + 1 = to \/ text[p + 1] # "}" THEN Fail(h, "syntax")
     ELSE WriteText(p + 2, to, Text(h, from, p + 1))

RECURSIVE Long(_, _)
Long(begin, h) ==
  LET p == IF text[begin] = "{" THEN begin ELSE Find(begin + 1, Len(text) + 1, "{")
      after(field) == Long(field.at, field.h)
  IN IF begin > Len(text) \/ h.error # NoError THEN h
     ELSE IF p = 0 THEN WriteText(begin, Len(text) + 1, h)
     ELSE after(ReplacementField(p, WriteText(begin, p, h)))

-----------------------------------------------------------------------------
(* compile.h.  id is next_arg_id, -1 after manual indexing; errors of the  *)
(* compilation and of the formatting of the compiled parts are errors of h.*)

Manual == -1

CompiledSpecs(h, arg, p, next) == \* parse_specs, spec_field
  LET began(hh) == IF next = 0 /\ hh.next > 0 THEN Odd(hh, "begins again") ELSE hh
      known(after, hh) == IF after < 0 /\ next # 0 THEN Fail(hh, "switch") ELSE hh
      put(at, after, ready) == [at |-> at, id |-> after, h |-> Put(ready.h, arg, ready.specs)]
      on(r, after) == put(r.at, after, ResolveAll(known(after, began(r.h)), r.specs))
      parsed(r) == on(r, IF next = 0 THEN Manual ELSE r.h.next)
  IN parsed(FormatterParse(p, [h EXCEPT !.next = next, !.checks = FALSE], args[arg + 1].type))

\* Fault: a "}" does not end the text.
ParseTextToBrace(p) ==
  LET ends == {q \in p..Len(text) : text[q] = "{"}
  IN IF ends = {} THEN Len(text) + 1 ELSE CHOOSE q \in ends : \A i \in ends : q <= i

ParseText(p) == \* parse_text: the end of the text at p
  LET ends == {q \in p..Len(text) : text[q] \in {"{", "}"}}
  IN IF ends = {} THEN Len(text) + 1 ELSE CHOOSE q \in ends : \A i \in ends : q <= i

RECURSIVE Compile(_, _, _)
Compile(p, id, h) ==
  LET closed(specs) ==
        IF specs.at > Len(text) \/ text[specs.at] # "}" THEN Fail(h, "syntax")
        ELSE Compile(specs.at + 1, specs.id, specs.h)
      tail(at, arg, static, next, hh) == \* parse_replacement_field_then_tail
        IF arg >= Len(args) THEN Fail(h, "argument")
        ELSE IF text[at] = "}"
        THEN Compile(at + 1, IF static THEN next ELSE id, Put(hh, arg, NoSpecs))
        ELSE closed(CompiledSpecs(hh, arg, at + 1, IF next = Manual THEN 0 ELSE next))
      argument(name) == CASE name.kind = "auto" -> id
                          [] name.kind = "index" -> name.value
                          [] OTHER -> IndexOf(name.value)
      static(name, arg) == name.kind # "name" \/ args[arg + 1].static
      field(name, arg) ==
        IF ~static(name, arg) /\ text[name.at] = ":" THEN Fail(h, "unknown_format")
        ELSE IF (name.kind = "auto" /\ id = Manual) \/ (name.kind = "index" /\ id > 0)
        THEN Fail(h, "switch")
        ELSE tail(name.at, arg, static(name, arg),
                  IF id = Manual \/ name.kind = "index" THEN Manual ELSE id + 1,
                  IF name.kind = "name" THEN Odd(h, "name") ELSE h)
      known(name) == name.kind # "name" \/ WithName(name.value) # {}
      named(name) ==
        IF name.kind = "bad" \/ name.at > Len(text) \/ text[name.at] \notin {"}", ":"}
        THEN Fail(h, "syntax")
        ELSE IF ~known(name)
        THEN Fail(h, IF text[name.at] = "}" THEN "argument" ELSE "unknown_format")
        ELSE field(name, argument(name))
  IN IF p > Len(text) \/ h.error # NoError THEN h
     ELSE IF text[p] \notin {"{", "}"} THEN Compile(ParseText(p + 1), id, Text(h, p, ParseText(p + 1)))
     ELSE IF p = Len(text) THEN Fail(h, "syntax")
     ELSE IF text[p] = "}" \/ text[p + 1] = "{"
     THEN Compile(p + 2, id, Text(IF text[p + 1] = text[p] THEN h ELSE Odd(h, "lone brace"), p, p + 1))
     ELSE named(ArgId(p + 1))

-----------------------------------------------------------------------------
(* Every call whose format string is made of the pieces. *)

ParseInit == text = <<>> /\ args \in ArgLists /\ written = 0
Write(piece) ==
  /\ written < MaxPieces
  /\ written' = written + 1
  /\ text' = text \o piece
  /\ UNCHANGED args
ParseNext == \E piece \in Pieces : Write(piece)

Run == Short(1, 1, Handler(FALSE, 0))
RunLong == Long(1, Handler(FALSE, 0))
Checked == Short(1, 1, Handler(TRUE, 0))
Compiled == Compile(1, 0, Handler(FALSE, 0))

StaticNames == \A i \in DOMAIN args : args[i].name = <<>> \/ args[i].static

(***************************************************************************)
(* The two loops of parse_format_string find the same text and fields or   *)
(* the same error, and what compile.h makes of a format string writes what *)
(* vformat_to writes.  compile.h also takes three kinds of strings that    *)
(* vformat_to does not: with a "}" that is not doubled (compile.h 396-399  *)
(* skips the next code unit, whatever it is), with an automatic width in a *)
(* field that has a number (compile.h 330 begins again with 0), and with   *)
(* an automatic field after a name.                                        *)
(***************************************************************************)
ParsersAgree ==
  LET agree(run, long, compiled) ==
        /\ run.error = long.error
        /\ run.error = NoError => <<run.out, run.ids>> = <<long.out, long.ids>>
        /\ compiled.error = NoError =>
             \/ run.error = NoError /\ <<run.out, run.ids>> = <<compiled.out, compiled.ids>>
             \/ run.error = "syntax" /\ "lone brace" \in compiled.odd
             \/ run.error = "switch" /\ compiled.odd \intersect {"begins again", "name"} # {}
  IN agree(Run, RunLong, Compiled)

(***************************************************************************)
(* A format string that the compile-time checks accept is formatted, with  *)
(* the same arguments in the same order; except for a width or precision   *)
(* out of range, of type bool or char (base.h 815 takes them for integers, *)
(* width_checker does not) or with a name (base.h 777: not looked up), and *)
(* for automatic fields after a name (format_string_checker::on_arg_id     *)
(* does not change to manual indexing, the handler of vformat_to does).    *)
(***************************************************************************)
CheckedRuns ==
  LET agree(checked, run) ==
        checked.error = NoError =>
          \/ run.error = NoError /\ run.ids = checked.ids
          \/ run.error = "range"
          \/ run.error = "integer" /\ \E i \in DOMAIN args : args[i].type \in {"bool", "char"}
          \/ run.error \in {"unknown", "integer"} /\ "named width" \in checked.odd
          \/ run.error = "switch" /\ "name" \in checked.odd
  IN StaticNames => agree(Checked, Run)

=============================================================================
