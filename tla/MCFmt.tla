------------------------------- MODULE MCFmt --------------------------------
(***************************************************************************)
(* The machines of fmt in one instance for TLC: which of them a behaviour  *)
(* is about is chosen at the beginning, the others rest in a first state.  *)
(***************************************************************************)
EXTENDS FmtFile, FmtArgs, FmtBuffer, Integers

VARIABLES
  which,
  text, args, written,
  call,
  bytes, units, appended,
  big, divisor, value, division,
  float,
  chrono

-----------------------------------------------------------------------------
(* FmtParse: format strings from pieces, lists with one or two arguments.  *)

Arg(type, name, static, v) == [type |-> type, name |-> name, static |-> static, value |-> v]
ArgLists ==
  {<<Arg("float", <<>>, FALSE, 0), Arg("int", <<>>, FALSE, 2), Arg("bool", <<>>, FALSE, 1)>>,
   <<Arg("char", <<>>, FALSE, 0), Arg("int", <<"a">>, TRUE, -1)>>,
   <<Arg("int", <<>>, FALSE, 1), Arg("string", <<"a">>, FALSE, 0)>>, <<>>}
FormatPieces ==
  {<<"{">>, <<"}">>, <<":">>, <<"{", "}">>, <<"{", "0">>, <<"{", "a">>, <<"{", ":">>,
   <<"1">>, <<"0">>, <<"<">>, <<".">>, <<"+">>, <<"f">>}

(* FmtNumber: 16-bit integers at the powers of ten and of two. *)

Values == {0, 1, 7, 8, 9, 10, 99, 100, 255, 999, 1000, 9999, 10000, 32767, -32768, -1, -10, -999}
NumberSpecs ==
  LET Base == [width : {0, 3, 8}, precision : {-1, 3}, type : {"none", "dec", "hex", "oct", "bin"},
               align : {"none", "left", "center", "numeric"}, fill : {"*"},
               sign : {"none", "plus"}, upper : {FALSE}, alt : BOOLEAN, localized : {FALSE}]
      Plain == [width |-> 0, precision |-> -1, type |-> "none", align |-> "none", fill |-> "*",
                sign |-> "none", upper |-> FALSE, alt |-> FALSE, localized |-> FALSE]
  IN {s \in Base : /\ s.align = "numeric" => s.precision = -1
                   /\ s.width = 3 => s.type = "none"
                   /\ s.precision = 3 => s.align \in {"none", "left"} /\ ~s.alt}
     \cup {[Plain EXCEPT !.upper = TRUE, !.localized = TRUE, !.width = w, !.type = t,
                         !.align = a, !.sign = s, !.alt = b] :
             w \in {0, 8}, t \in {"none", "hex"}, a \in {"none", "center", "numeric"},
             s \in {"none", "plus"}, b \in BOOLEAN}
     \cup {[Plain EXCEPT !.type = "debug", !.width = w, !.align = a] :
             w \in {0, 8}, a \in {"none", "center"}}
Groupings == {<<>>, <<3>>, <<2, 1>>, <<3, 0>>}

(* FmtText: bytes of sequences of every length, whole and broken. *)

TextPieces ==
  {<<65>>, <<34>>, <<92>>, <<10>>, <<194>>, <<128>>, <<173>>, <<228, 184, 128>>, <<237, 160>>,
   <<240, 159>>, <<152, 128>>, <<39>>, <<244>>}
TextUnits == {65, 200, 8364, 55357, 56832, 128512, 1114112}
PrintableSingletons == <<[upper |-> 0, count |-> 1], [upper |-> 3, count |-> 2]>>
PrintableLowers == <<173, 120, 121>>
PrintableRuns == <<0, 32, 95, 34, 130, 223, 4>>

(* FmtFloat: significands of five bits; the first and the last of a binade, *)
(* halves, and the smallest subnormal numbers.                             *)

Finite ==
  [f : {16, 17, 20, 25, 31}, e : {-15, -12, -9, -8, -7, -5, -4, -3, -2, 0, 1, 4}]
    \cup [f : {0, 1, 5, 15}, e : {-15}]
FloatSpecs ==
  LET Plain == [plus |-> FALSE, width |-> 0, align |-> "none", fill |-> "*", alt |-> FALSE,
                precision |-> -1, type |-> "none"]
  IN {[Plain EXCEPT !.type = t, !.precision = p] :
        t \in {"none", "general", "exp", "fixed"}, p \in {-1, 0, 1, 3}}
     \cup {[Plain EXCEPT !.type = t, !.precision = p, !.alt = TRUE] :
             t \in {"none", "fixed"}, p \in {-1, 0, 2}}
     \cup {[Plain EXCEPT !.type = "hexfloat", !.precision = p, !.alt = (p = 0)] : p \in {-1, 0, 1, 3}}
     \cup {[Plain EXCEPT !.width = 9, !.align = "numeric", !.fill = "0", !.plus = TRUE, !.type = t] :
             t \in {"none", "exp", "hexfloat"}}
     \cup {[Plain EXCEPT !.width = 9, !.align = a] : a \in {"left", "none"}}
     \cup {[Plain EXCEPT !.precision = 20, !.type = t] : t \in {"none", "fixed", "exp"}}
     \cup {[Plain EXCEPT !.precision = 2147483647]}

(* FmtChrono: years around 0, the centuries and 9999; the days around the  *)
(* new year and the end of February.                                       *)

Years == {-101, -100, -99, -5, -1, 0, 1, 4, 1900, 1999, 2000, 2004, 2009, 2010, 2016, 2020, 9999, 10000}
YearDays == {0, 1, 2, 3, 5, 30, 58, 59, 60, 361, 363, 364, 365}
TimesOfDay ==
  {[sec |-> 0, gmtoff |-> 0], [sec |-> 43200, gmtoff |-> -1800], [sec |-> 86399, gmtoff |-> 19800]}
Ticks == {0, 1, 2, 7, 999, 1001, 3600, 43201, 86399, -1, -2, -999, -1001, -86400, 8388607, -8388608,
          2400000, -5000000}
Periods == {<<1, 1>>, <<1, 1000>>, <<60, 1>>, <<3600, 1>>, <<1, 3>>, <<1, 8>>}
Precisions == {-1, 0, 2, 4, 7}
ChronoChars == {"%", "E", "O", "_", "Y", "H", "Q", "q", "x", "}", " "}

-----------------------------------------------------------------------------

P == INSTANCE FmtParse WITH MaxInt <- 19, Digits10 <- 1, Pieces <- FormatPieces, MaxPieces <- 5
N == INSTANCE FmtNumber WITH Width <- 16, Specs <- NumberSpecs
T == INSTANCE FmtText WITH
       Pieces <- TextPieces, Units <- TextUnits, MaxPieces <- 4, Normal <- PrintableRuns,
       Singletons <- PrintableSingletons, SingletonLowers <- PrintableLowers
I == INSTANCE FmtBigint WITH
       BigitBits <- 4, Numbers <- {1, 9, 16, 255, 400}, Multipliers <- {5, 10, 19, 100},
       Shifts <- {0, 1, 4, 7}, Powers <- {0, 1, 2, 3, 5}, MaxValue <- 5000
F == INSTANCE FmtFloat WITH
       SignificandBits <- 4, MinExponent <- -15, Numbers <- Finite, Specs <- FloatSpecs,
       TieExponents <- {-8}, SegmentDigits <- 4, MaxDigits <- 12
C == INSTANCE FmtChrono WITH
       SpecChars <- ChronoChars, MaxSpec <- 3, RepBits <- 24, MaxInt <- 150

parseVars == <<text, args, written>>
textVars == <<bytes, units, appended>>
bigVars == <<big, divisor, value, division>>
vars == <<which, fileVars, argVars, bufVars, parseVars, call, textVars, bigVars, float, chrono>>

Machines == {"file", "args", "buffer", "parse", "number", "text", "bigint", "float", "chrono"}

Init ==
  /\ which \in Machines
  /\ FileInit /\ N!NumberInit /\ T!TextInit /\ F!FloatInit /\ C!ChronoInit
  /\ I!BigInit /\ (which # "bigint" => divisor = big)
  /\ ArgsInit /\ (which # "args" => dynamic)
  /\ BufInit /\ (which # "buffer" => kind = "memory")
  /\ P!ParseInit /\ (which # "parse" => args = <<>>)

Next ==
  /\ UNCHANGED which
  /\ \/ /\ which = "file" /\ FileNext
        /\ UNCHANGED <<argVars, bufVars, parseVars, call, textVars, bigVars, float, chrono>>
     \/ /\ which = "args" /\ ArgsNext
        /\ UNCHANGED <<fileVars, bufVars, parseVars, call, textVars, bigVars, float, chrono>>
     \/ /\ which = "buffer" /\ BufNext
        /\ UNCHANGED <<fileVars, argVars, parseVars, call, textVars, bigVars, float, chrono>>
     \/ /\ which = "parse" /\ P!ParseNext
        /\ UNCHANGED <<fileVars, argVars, bufVars, call, textVars, bigVars, float, chrono>>
     \/ /\ which = "number" /\ N!NumberNext
        /\ UNCHANGED <<fileVars, argVars, bufVars, parseVars, textVars, bigVars, float, chrono>>
     \/ /\ which = "text" /\ T!TextNext
        /\ UNCHANGED <<fileVars, argVars, bufVars, parseVars, call, bigVars, float, chrono>>
     \/ /\ which = "bigint" /\ I!BigNext
        /\ UNCHANGED <<fileVars, argVars, bufVars, parseVars, call, textVars, float, chrono>>
     \/ /\ which = "float" /\ F!FloatNext
        /\ UNCHANGED <<fileVars, argVars, bufVars, parseVars, call, textVars, bigVars, chrono>>
     \/ /\ which = "chrono" /\ C!ChronoNext
        /\ UNCHANGED <<fileVars, argVars, bufVars, parseVars, call, textVars, bigVars, float>>

Spec == Init /\ [][Next]_vars

\* The texts alone.
TextSpec == Init /\ which = "text" /\ [][Next]_vars

-----------------------------------------------------------------------------
(* The properties of the machines, each stated in full in its module.      *)

\* The loops of parse_format_string and of compile.h agree on format strings.
ParsersAgree == which = "parse" => P!ParsersAgree

\* What format_string_checker accepts, vformat_to formats with the same arguments.
CheckedRuns == which = "parse" => P!CheckedRuns

\* write_int and format_int write integers that read back, in the space reserved.
WrittenReadsBack == N!WrittenReadsBack

\* utf8_decode, write_escaped_string, code_point_index and to_utf8 keep the text.
TextReadsBack == which = "text" => T!TextReadsBack

\* A text comes back from UTF-16.
Utf16ReadsBack == T!Utf16ReadsBack

\* bigint computes with the integers its bigits stand for.
BigintsAreIntegers == which = "bigint" => I!BigintsAreIntegers

\* format_float and write_float write the shortest or the exact digits asked for.
FloatsReadBack == F!FloatsReadBack

\* tm_writer writes the same date and time in all its notations.
CalendarReadsBack == C!CalendarReadsBack

\* chrono_formatter writes durations exactly, and nothing of an accepted format is lost.
DurationsWritten == C!DurationsReadBack /\ C!ConversionsWrite
=============================================================================
