------------------------------ MODULE FmtNumber ------------------------------
(***************************************************************************)
(* Integers, pointers, characters and bool as format.h writes them:        *)
(* counting and writing digits, sign and base prefixes, padding, digit     *)
(* groups, and the class format_int.  A text is a sequence of code units;  *)
(* what a writer returns is the text and the number of code units it had   *)
(* reserved for it.                                                        *)
(***************************************************************************)
EXTENDS Integers, Sequences, SequencesExt

CONSTANTS
  Width,       \* the bits of the integer type
  Values,      \* the values formatted
  Specs,       \* the format_specs
  Groupings    \* grouping strings of locales, each a sequence of sizes

VARIABLE call \* what is formatted: a value, its type and its specs

Idle == [what |-> "no call"]
Separator == ","
Modulus == 2^Width
Unsigned(n) == n % Modulus
LargestInt == 2147483647 \* max_value<int>()

DigitChars == <<"0", "1", "2", "3", "4", "5", "6", "7", "8", "9", "a", "b", "c", "d", "e", "f">>
UpperChars == <<"0", "1", "2", "3", "4", "5", "6", "7", "8", "9", "A", "B", "C", "D", "E", "F">>

-----------------------------------------------------------------------------
(* Counting digits: the table of the 64-bit version, the one of the 32-bit *)
(* version, and the loop.                                                  *)

Bsr(n) == CHOOSE k \in 0..30 : 2^k <= n /\ (k = 30 \/ n < 2^(k + 1))
Odd(n) == n + 1 - (n % 2) \* n | 1

Bsr2Log10 == <<1, 1, 1, 2, 2, 2, 3, 3, 3, 4, 4, 4, 4, 5, 5, 5, 6, 6, 6, 7, 7, 7, 7, 8, 8, 8,
               9, 9, 9, 10, 10>>
ZeroOrPower(t) == IF t < 2 THEN 0 ELSE 10^(t - 1)
CountDigits64(n) ==
  LET t == Bsr2Log10[Bsr(Odd(n)) + 1] IN t - (IF n < ZeroOrPower(t) THEN 1 ELSE 0)

IncOf == <<0, 0, 0, 10, 10, 10, 100, 100, 100, 1000, 1000, 1000, 10^4, 10^4, 10^4, 10^5, 10^5,
           10^5, 10^6, 10^6, 10^6, 10^7, 10^7, 10^7, 10^8, 10^8, 10^8, 10^9, 10^9, 10^9, 10^9>>
\* Fault: a power of ten is counted with the numbers below it.
PowersCountedLow(n) ==
  LET t == IncOf[Bsr(Odd(n)) + 1]
      length == IF t = 0 THEN 1 ELSE CHOOSE k \in 1..10 : t = 10^(k - 1)
  IN IF n <= t /\ t > 0 THEN length - 1 ELSE length

CountDigits32(n) == \* (n + FMT_INC(T)) >> 32
  LET t == IncOf[Bsr(Odd(n)) + 1]
      length == IF t = 0 THEN 1 ELSE CHOOSE k \in 1..10 : t = 10^(k - 1)
  IN IF n < t THEN length - 1 ELSE length

CountDigitsFallback[n \in Nat] ==
  CASE n < 10 -> 1 [] n \in 10..99 -> 2 [] n \in 100..999 -> 3 [] n \in 1000..9999 -> 4
    [] OTHER -> 4 + CountDigitsFallback[n \div 10000]

CountBits(n, bits) == Bsr(Odd(n)) \div bits + 1

-----------------------------------------------------------------------------
(* Writing digits *)

Digits2(n) == <<DigitChars[n \div 10 + 1], DigitChars[(n % 10) + 1]>>

FormatDecimal[n \in Nat] ==
  IF n >= 100 THEN FormatDecimal[n \div 100] \o Digits2(n % 100)
  ELSE IF n < 10 THEN <<DigitChars[n + 1]>> ELSE Digits2(n)

RECURSIVE FormatUint(_, _, _)
FormatUint(n, bits, upper) ==
  LET digit == <<(IF upper THEN UpperChars ELSE DigitChars)[(n % 2^bits) + 1]>>
  IN IF n < 2^bits THEN digit ELSE FormatUint(n \div 2^bits, bits, upper) \o digit

(* prefix: the characters in the lower bytes and the size in the highest. *)
NoPrefix == [chars |-> <<>>, size |-> 0]
PrefixAppend(prefix, chars) ==
  [chars |-> prefix.chars \o chars, size |-> prefix.size + (IF Len(chars) > 1 THEN 2 ELSE 1)]

(* write_padded *)
Padding(specs, width, align) == IF specs.width > width THEN specs.width - width ELSE 0

LeftPadding(padding, align, default) == \* shifts
  CASE align = "none" -> IF default = "left" THEN 0 ELSE padding
    [] align = "left" -> 0
    [] align = "center" -> padding \div 2
    [] OTHER -> padding

Copies(n, unit) == [i \in 1..n |-> unit]
WritePadded(specs, size, width, content, default) ==
  LET padding == Padding(specs, width, specs.align)
      left == LeftPadding(padding, specs.align, default)
  IN [text |-> Copies(left, specs.fill) \o content \o Copies(padding - left, specs.fill),
      reserved |-> size + padding]

-----------------------------------------------------------------------------
(* write_int_data and write_int with digits of any base. *)

WriteIntData(numDigits, prefix, specs) ==
  LET size == prefix.size + numDigits
  IN IF specs.align = "numeric"
     THEN IF specs.width > size THEN [size |-> specs.width, padding |-> specs.width - size]
          ELSE [size |-> size, padding |-> 0]
     ELSE IF specs.precision > numDigits
     THEN [size |-> prefix.size + specs.precision, padding |-> specs.precision - numDigits]
     ELSE [size |-> size, padding |-> 0]

WriteDigits(numDigits, prefix, specs, digits) ==
  LET data == WriteIntData(numDigits, prefix, specs)
  IN IF specs.width = 0 /\ specs.precision = -1
     THEN [text |-> prefix.chars \o digits, reserved |-> numDigits + prefix.size]
     ELSE WritePadded(specs, data.size, data.size,
                      prefix.chars \o Copies(data.padding, "0") \o digits, "right")

(* digit_grouping: where the separators are, counted from the right. *)
RECURSIVE Separators(_, _, _, _)
Separators(grouping, k, pos, numDigits) ==
  LET size == grouping[IF k > Len(grouping) THEN Len(grouping) ELSE k]
      next == IF k > Len(grouping) \/ size > 0 THEN pos + size ELSE LargestInt
  IN IF next >= numDigits THEN <<>> ELSE <<next>> \o Separators(grouping, k + 1, next, numDigits)

SeparatorsOf(grouping, numDigits) ==
  IF grouping = <<>> THEN <<>> ELSE Separators(grouping, 1, 0, numDigits)

Apply(grouping, digits) ==
  LET n == Len(digits)
      at == ToSet(SeparatorsOf(grouping, n))
  IN FoldLeft(LAMBDA out, i : out \o (IF n - i + 1 \in at THEN <<Separator>> ELSE <<>>)
                                  \o <<digits[i]>>,
              <<>>, [i \in 1..n |-> i])

-----------------------------------------------------------------------------
(* write for integers: make_write_int_arg, then by presentation type. *)

SignPrefix(sign) ==
  CASE sign = "plus" -> [chars |-> <<"+">>, size |-> 1]
    [] sign = "space" -> [chars |-> <<" ">>, size |-> 1]
    [] OTHER -> NoPrefix

MakeWriteIntArg(value, sign) ==
  IF value < 0
  THEN [abs |-> Unsigned(0 - Unsigned(value)), prefix |-> [chars |-> <<"-">>, size |-> 1]]
  ELSE [abs |-> Unsigned(value), prefix |-> SignPrefix(sign)]

BitsOf(type) == CASE type = "hex" -> 4 [] type = "oct" -> 3 [] type = "bin" -> 1

BasePrefix(prefix, specs, numDigits, value) ==
  IF ~specs.alt THEN prefix
  ELSE CASE specs.type = "hex" -> PrefixAppend(prefix, <<"0", IF specs.upper THEN "X" ELSE "x">>)
         [] specs.type = "bin" -> PrefixAppend(prefix, <<"0", IF specs.upper THEN "B" ELSE "b">>)
         [] OTHER -> IF specs.precision <= numDigits /\ value # 0
                     THEN PrefixAppend(prefix, <<"0">>) ELSE prefix

WriteChar(char, specs) == \* write_char and write_escaped_char of a printable character
  WritePadded(specs, 1, 1, IF specs.type = "debug" THEN <<"'", char, "'">> ELSE <<char>>, "left")

WriteInt(arg, specs, grouping) ==
  LET decimal == specs.type \in {"none", "dec"}
      numDigits == IF decimal THEN CountDigits32(arg.abs) ELSE CountBits(arg.abs, BitsOf(specs.type))
      digits == IF decimal THEN FormatDecimal[arg.abs]
                ELSE FormatUint(arg.abs, BitsOf(specs.type), specs.upper /\ specs.type = "hex")
      prefix == IF decimal THEN arg.prefix
                ELSE BasePrefix(arg.prefix, specs, numDigits, arg.abs)
      size == prefix.size + numDigits + Len(SeparatorsOf(grouping, numDigits))
  IN IF specs.localized
     THEN WritePadded(specs, size, size, prefix.chars \o Apply(grouping, digits), "right")
     ELSE WriteDigits(numDigits, prefix, specs, digits)

WriteDefault(value) == \* write(out, T): without specs
  LET abs == IF value < 0 THEN Unsigned(Modulus - 1 - Unsigned(value) + 1) ELSE Unsigned(value)
      numDigits == CountDigits32(abs)
  IN [text |-> (IF value < 0 THEN <<"-">> ELSE <<>>) \o FormatDecimal[abs],
      reserved |-> numDigits + (IF value < 0 THEN 1 ELSE 0)]

WritePtr(value, specs) ==
  LET numDigits == CountBits(value, 4)
  IN WritePadded(specs, numDigits + 2, numDigits + 2,
                 <<"0", "x">> \o FormatUint(value, 4, FALSE), "right")

WriteBool(value, specs) ==
  LET name == IF value = 1 THEN <<"t", "r", "u", "e">> ELSE <<"f", "a", "l", "s", "e">>
  IN IF specs.type \notin {"none", "string"}
     THEN WriteInt(MakeWriteIntArg(value, specs.sign), [specs EXCEPT !.localized = FALSE], <<>>)
     ELSE WritePadded(specs, Len(name), Len(name), name, "left")

(* format_int: from the end of a buffer of BufferSize characters. *)
BufferSize == CountDigits64(Modulus - 1) - 1 + 3 \* digits10 + 3
FormatInt(value) ==
  LET digits == FormatDecimal[MakeWriteIntArg(value, "none").abs]
      str == BufferSize - 1 - Len(digits) - (IF value < 0 THEN 1 ELSE 0)
  IN [text |-> (IF value < 0 THEN <<"-">> ELSE <<>>) \o digits, reserved |-> BufferSize - 1 - str]

-----------------------------------------------------------------------------
(* The calls.  FillSpecs is what parse_format_specs makes of "0". *)

FillSpecs(specs) == IF specs.align = "numeric" THEN [specs EXCEPT !.fill = "0"] ELSE specs

Written ==
  LET specs == FillSpecs(call.specs)
  IN CASE call.what = "int" -> WriteInt(MakeWriteIntArg(call.value, specs.sign), specs, call.grouping)
       [] call.what = "default" -> WriteDefault(call.value)
       [] call.what = "format_int" -> FormatInt(call.value)
       [] call.what = "pointer" -> WritePtr(Unsigned(call.value), specs)
       [] call.what = "bool" -> WriteBool(Unsigned(call.value) % 2, specs)
       [] call.what = "char" -> WriteChar("x", specs)

GroupingsFor(specs) == IF specs.localized THEN Groupings ELSE {<<>>}

NumberInit == call = Idle
Format(what) ==
  /\ call = Idle
  /\ \E value \in Values, specs \in Specs : \E grouping \in GroupingsFor(specs) :
       /\ specs.type = "debug" => what = "char"
       /\ specs.align = "numeric" => what \in {"int", "bool"} \* '0' at base.h 2417
       /\ what = "char" => specs.type \in {"none", "debug"}
       /\ call' = [what |-> what, value |-> value, specs |-> specs, grouping |-> grouping]
NumberNext == \E what \in {"int", "default", "format_int", "pointer", "bool", "char"} : Format(what)

-----------------------------------------------------------------------------
(* What a reader makes of a text. *)

SignOf(s) == IF s[1] \in {"-", "+"} THEN s[1] ELSE ""
AfterSign(s) == IF SignOf(s) = "" THEN s ELSE Tail(s)
BaseOf(type) == CASE type = "hex" -> 16 [] type = "oct" -> 8 [] type = "bin" -> 2 [] OTHER -> 10
DigitOf(c) ==
  (CHOOSE i \in 1..16 : DigitChars[i] = c \/ UpperChars[i] = c) - 1
Read(s, type, alt) ==
  LET rest == AfterSign(s)
      digits == SelectSeq(IF alt /\ type \in {"hex", "bin"} THEN SubSeq(rest, 3, Len(rest)) ELSE rest,
                          LAMBDA c : c # Separator)
      value == FoldLeft(LAMBDA v, c : BaseOf(type) * v + DigitOf(c), 0, digits)
  IN IF SignOf(s) = "-" THEN -value ELSE value

GroupEnds(grouping, n) == \* the ends of the groups among n digits
  LET size(i) == grouping[IF i > Len(grouping) THEN Len(grouping) ELSE i]
      end[i \in 0..n] == IF i = 0 THEN 0 ELSE end[i - 1] + size(i)
  IN IF grouping = <<>> THEN {}
     ELSE {end[i] : i \in {i \in 1..n : \A j \in 1..i : size(j) > 0}} \intersect 1..n - 1

DigitsAfter(s, i) == Len(SelectSeq(SubSeq(s, i + 1, Len(s)), LAMBDA c : c # Separator))

(***************************************************************************)
(* Every writer fills exactly what it reserved, at least the width, and    *)
(* only up to it; what it wrote reads back as the value, in its base, with *)
(* the sign, the base prefix and a separator at the end of each group; the *)
(* ways to count digits agree; and format_int stays inside its buffer. A   *)
(* debug char is written with quotes into the place of one character       *)
(* (format.h 1932), and a localized number filled with zeros has them      *)
(* before its sign (shifts[align::numeric] is 0 at format.h 1739).         *)
(***************************************************************************)
WrittenReadsBack ==
  call # Idle =>
    LET w == Written
        specs == FillSpecs(call.specs)
        s == SelectSeq(w.text, LAMBDA c : c # "*")
        fills == call.what \notin {"default", "format_int"}
        based == call.what = "int" \/ (call.what = "bool" /\ specs.type \notin {"none", "string"})
        value == CASE call.what = "pointer" -> Unsigned(call.value)
                   [] call.what = "bool" -> Unsigned(call.value) % 2
                   [] OTHER -> call.value
        type == CASE based -> specs.type [] call.what = "pointer" -> "hex" [] OTHER -> "dec"
        abs == Unsigned(IF value < 0 THEN -value ELSE value)
        digits == FormatDecimal[abs]
        zerosFirst == /\ call.what = "int" /\ specs.localized /\ specs.align = "numeric"
                      /\ value < 0 \/ specs.sign = "plus" \/ specs.alt
    IN /\ IF call.what = "char" /\ specs.type = "debug" THEN Len(w.text) = w.reserved + 2
          ELSE Len(w.text) = w.reserved
       /\ call.what = "format_int" => Len(w.text) < BufferSize
       /\ fills => Len(w.text) >= specs.width
       /\ fills /\ "*" \in ToSet(w.text) /\ specs.type # "debug" => Len(w.text) = specs.width
       /\ (call.what = "char" \/ (call.what = "bool" /\ ~based)) \/ zerosFirst
          \/ /\ Read(s, type, (specs.alt /\ based) \/ call.what = "pointer") = value
             /\ based /\ specs.alt /\ type = "oct" => AfterSign(s)[1] = "0"
             /\ call.what = "int" /\ specs.sign = "plus" => SignOf(s) # ""
       /\ call.what = "int" /\ specs.localized /\ type \in {"none", "dec"} =>
            {DigitsAfter(s, i) : i \in {i \in DOMAIN s : s[i] = Separator}}
              = GroupEnds(call.grouping, Len(digits))
       /\ {CountDigits32(abs), CountDigits64(abs), CountDigitsFallback[abs]} = {Len(digits)}

=============================================================================
