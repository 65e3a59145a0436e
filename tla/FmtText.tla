------------------------------- MODULE FmtText -------------------------------
(***************************************************************************)
(* UTF-8 in format.h: the decoder and the loop over code points, display   *)
(* width, precision, the escapes of debug output, and the conversions to   *)
(* UTF-16 and from UTF-16 or UTF-32.  Bytes, code points and units are     *)
(* numbers.                                                                *)
(***************************************************************************)
EXTENDS Integers, Sequences, SequencesExt

CONSTANTS
  Pieces,           \* the byte sequences a text is made of
  Units,            \* the units a UTF-16 or UTF-32 text is made of
  MaxPieces,        \* bound on the pieces of a text
  Singletons,       \* singletons0, a sequence of [upper, count]
  SingletonLowers,  \* singletons0_lower
  Normal            \* normal0, read as lengths of runs

VARIABLES
  bytes,   \* the UTF-8 text
  units,   \* the units of the wide text
  appended \* pieces or units they were made of so far

textVars == <<bytes, units, appended>>

Fail == <<-1>> \* no text: an exception, or false
Invalid == 2147483647 \* invalid_code_point, ~uint32_t()
LargestPoint == 1114111

-----------------------------------------------------------------------------
(* Decoding.  Every access reads four bytes; the buffer of the last three  *)
(* is filled up with zeros.                                                *)

Byte(s, i) == IF i <= Len(s) THEN s[i] ELSE 0

LeadLength(b) ==
  CASE b < 128 -> 1 [] b \in 128..191 -> 0 [] b \in 192..223 -> 2 [] b \in 224..239 -> 3
    [] b \in 240..247 -> 4 [] OTHER -> 0

\* The character at i of s: its code point, the index after it, the error.
Utf8Decode(s, i) ==
  LET len == LeadLength(Byte(s, i))
      lead == Byte(s, i) % <<1, 128, 32, 16, 8>>[len + 1]
      four == lead * 2^18 + (Byte(s, i + 1) % 64) * 2^12 + (Byte(s, i + 2) % 64) * 2^6 + (Byte(s, i + 3) % 64)
      c == four \div 2^(<<0, 18, 12, 6, 0>>[len + 1])
      tails == IF len = 0 THEN 1..3 ELSE 1..len - 1
  IN [cp |-> c,
      next |-> i + (IF len = 0 THEN 1 ELSE len),
      error |-> \/ c < <<4194304, 0, 128, 2048, 65536>>[len + 1]
                \/ c \div 2^11 = 27
                \/ c > LargestPoint
                \/ \E k \in tails : Byte(s, i + k) \div 64 # 2]

\* for_each_codepoint: what its function sees, in order.
PointsFrom(s, start) ==
  LET points[i \in 1..Len(s) + 1] ==
        IF i > Len(s) THEN <<>>
        ELSE LET point(cp, next) == <<[cp |-> cp, from |-> i, to |-> next - 1]>> \o points[next]
                 seen(d) == IF d.error THEN point(Invalid, i + 1) ELSE point(d.cp, d.next)
             IN seen(Utf8Decode(s, i))
  IN points[start]
Points(s) == PointsFrom(s, 1)

-----------------------------------------------------------------------------
(* Width and precision *)

WideRanges == {<<4352, 4447>>, <<9001, 9002>>, <<11904, 42191>>, <<44032, 55203>>, <<63744, 64255>>,
               <<65040, 65049>>, <<65072, 65135>>, <<65280, 65376>>, <<65504, 65510>>,
               <<131072, 196605>>, <<196608, 262141>>, <<127744, 128591>>, <<129280, 129535>>}
IsWide(cp) == cp # 12351 /\ \E range \in WideRanges : range[1] <= cp /\ cp <= range[2]

ComputeWidth(s) ==
  FoldLeft(LAMBDA n, p : n + (IF IsWide(p.cp) THEN 2 ELSE 1), 0, Points(s))

CodePointIndex(s, n) == \* the bytes before the code point n, counted from 0
  LET before(points) == IF n < Len(points) THEN points[n + 1].from - 1 ELSE Len(s)
  IN before(Points(s))

-----------------------------------------------------------------------------
(* Escaping *)

SingletonsBefore(i) == FoldLeft(LAMBDA n, s : n + s.count, 0, SubSeq(Singletons, 1, i - 1))

NoSingleton(x) ==
  \A i \in DOMAIN Singletons :
    Singletons[i].upper = x \div 256 =>
      \A j \in SingletonsBefore(i) + 1..SingletonsBefore(i) + Singletons[i].count :
        SingletonLowers[j] # x % 256

InPrintableRun(x) ==
  LET run[i \in 1..Len(Normal) + 1, left \in 0..x, current \in BOOLEAN] ==
        IF i > Len(Normal) THEN current
        ELSE LET long == Normal[i] >= 128
                 len == IF long THEN (Normal[i] % 128) * 256 + Normal[i + 1] ELSE Normal[i]
             IN IF left < len THEN current
                ELSE run[i + (IF long THEN 2 ELSE 1), left - len, ~current]
  IN run[1, x, TRUE]

\* Of the tables, that of the first 2^16 code points stands for both.
IsPrintable(cp) ==
  IF cp < 131072 THEN NoSingleton(cp % 65536) /\ InPrintableRun(cp % 65536)
  ELSE /\ cp < 1114112
       /\ \A hole \in {173790..173823, 177973..177983, 178206..178207, 183970..183983,
                       191457..194559, 195102..196607, 201547..917759, 918000..1114111} :
            cp \notin hole

NeedsEscape(cp) == cp < 32 \/ cp = 127 \/ cp = 34 \/ cp = 92 \/ ~IsPrintable(cp)

NoEscape(s) == [cp |-> 0, from |-> Len(s) + 1, to |-> -1]
FindEscape(s, start) ==
  LET first(escaped) == IF escaped = <<>> THEN NoEscape(s) ELSE escaped[1]
  IN first(SelectSeq(PointsFrom(s, start), LAMBDA p : NeedsEscape(p.cp)))

WriteCodepoint(prefix, cp, width) ==
  LET digit(i) == (cp \div 16^(width - i)) % 16
  IN <<92, prefix>> \o [i \in 1..width |-> digit(i) + (IF digit(i) < 10 THEN 48 ELSE 87)]

WriteEscapedCp(s, p) ==
  CASE p.cp = 10 -> <<92, 110>>
    [] p.cp = 13 -> <<92, 114>>
    [] p.cp = 9 -> <<92, 116>>
    [] p.cp \in {34, 39, 92} -> <<92, p.cp>>
    [] p.cp < 256 /\ p.cp \notin {9, 10, 13, 34, 39, 92} -> WriteCodepoint(120, p.cp, 2)
    [] p.cp \in 256..65535 -> WriteCodepoint(117, p.cp, 4)
    [] p.cp \in 65536..1114111 -> WriteCodepoint(85, p.cp, 8)
    [] OTHER -> FoldLeft(LAMBDA t, b : t \o WriteCodepoint(120, b, 2), <<>>, SubSeq(s, p.from, p.to))

WriteEscapedString(s) ==
  LET rest[begin \in 1..Len(s) + 1] ==
        LET upTo(p) == SubSeq(s, begin, p.from - 1)
                       \o CASE p.to = -1 -> <<>>
                            [] p.to = Len(s) -> WriteEscapedCp(s, p)
                            [] OTHER -> WriteEscapedCp(s, p) \o rest[p.to + 1]
        IN upTo(FindEscape(s, begin))
  IN <<34>> \o rest[1] \o <<34>>

\* A char above 127 is negative: as uint32_t it is no code point at all.
WriteEscapedChar(v) ==
  LET cp == IF v > 127 THEN Invalid ELSE v
  IN <<39>> \o (IF (NeedsEscape(cp) /\ v # 34) \/ v = 39
                THEN WriteEscapedCp(<<v>>, [cp |-> cp, from |-> 1, to |-> 1])
                ELSE <<v>>) \o <<39>>

-----------------------------------------------------------------------------
(* A string and its specs: precision counts code points, width columns, in *)
(* debug output bytes.                                                     *)

\* Fault: the precision counts bytes.
CutLate(s, precision) ==
  IF precision >= 0 /\ precision < Len(s) THEN SubSeq(s, 1, precision) ELSE s

Cut(s, precision) ==
  IF precision >= 0 /\ precision < Len(s) THEN SubSeq(s, 1, CodePointIndex(s, precision)) ELSE s

WriteString(s, specs) ==
  LET padded(data, columns) ==
        [text |-> data, fills |-> IF specs.width > columns THEN specs.width - columns ELSE 0]
      escaped(data) == padded(data, Len(data))
      plain(data) == padded(data, ComputeWidth(data))
  IN IF specs.debug THEN escaped(WriteEscapedString(s)) ELSE plain(Cut(s, specs.precision))

-----------------------------------------------------------------------------
(* Wide texts *)

Utf8ToUtf16(s) ==
  LET push(t, p) == IF p.cp < 65536 THEN Append(t, p.cp)
                    ELSE t \o <<55296 + (p.cp - 65536) \div 1024, 56320 + ((p.cp - 65536) % 1024)>>
      convert(points) == IF \E p \in ToSet(points) : p.cp = Invalid THEN Fail
                         ELSE FoldLeft(push, <<>>, points)
  IN convert(Points(s))

Encode(c) ==
  CASE c < 128 -> <<c>>
    [] c \in 128..2047 -> <<192 + c \div 64, 128 + (c % 64)>>
    [] c \in 2048..65535 -> <<224 + c \div 4096, 128 + (c % 4096) \div 64, 128 + (c % 64)>>
    [] OTHER -> <<240 + c \div 2^18, 128 + (c % 2^18) \div 4096, 128 + (c % 4096) \div 64, 128 + (c % 64)>>

High(c) == c \in 55296..56319
Low(c) == c \in 56320..57343
Replacement == <<239, 191, 189>>

\* A valid pair is combined into c, which no branch writes.
ToUtf8(s, size, policy) ==
  LET convert[i \in 1..Len(s) + 1, buf \in Seq(0..255)] ==
        IF i > Len(s) THEN buf
        ELSE LET c == s[i]
                 surrogate == High(c) \/ Low(c)
                 pair == High(c) /\ i < Len(s) /\ Low(s[i + 1])
             IN CASE surrogate /\ size = 2 /\ pair -> convert[i + 2, buf]
                  [] surrogate /\ size = 2 /\ ~pair /\ policy = "abort" -> Fail
                  [] surrogate /\ size = 2 /\ ~pair /\ policy = "replace" -> convert[i + 1, buf \o Replacement]
                  [] (surrogate /\ size = 4) \/ c > LargestPoint -> Fail
                  [] OTHER -> convert[i + 1, buf \o Encode(c)]
  IN convert[1, <<>>]

-----------------------------------------------------------------------------
TextInit == bytes = <<>> /\ units = <<>> /\ appended = 0

Count == appended < MaxPieces /\ appended' = appended + 1

AppendPiece(piece) ==
  /\ units = <<>> /\ Count
  /\ bytes' = bytes \o piece
  /\ UNCHANGED units

AppendUnit(unit) ==
  /\ bytes = <<>> /\ Count
  /\ units' = Append(units, unit)
  /\ UNCHANGED bytes

TextNext == (\E piece \in Pieces : AppendPiece(piece)) \/ (\E unit \in Units : AppendUnit(unit))

-----------------------------------------------------------------------------
(* What a reader of escaped text takes it for. *)

Nibble(b) == IF b < 58 THEN b - 48 ELSE b - 87
ReadHex(t, i, width) == FoldLeft(LAMBDA v, b : 16 * v + Nibble(b), 0, SubSeq(t, i, i + width - 1))

Unescaped(t) ==
  LET read[i \in 1..Len(t) + 10] ==
        IF i > Len(t) THEN <<>>
        ELSE IF t[i] = 92
        THEN LET e == t[i + 1]
                 width == CASE e = 120 -> 2 [] e = 117 -> 4 [] e = 85 -> 8 [] OTHER -> 0
                 value == CASE e = 110 -> 10 [] e = 114 -> 13 [] e = 116 -> 9 [] width = 0 -> e
                            [] OTHER -> ReadHex(t, i + 2, width)
             IN <<value>> \o read[i + 2 + width]
        ELSE LET d == Utf8Decode(t, i) IN <<IF d.error THEN Invalid ELSE d.cp>> \o read[d.next]
  IN read[1]

Inside(t) == SubSeq(t, 2, Len(t) - 1)

\* The code points of a text, a byte that is part of none standing for itself.
Meaning(s) ==
  LET of(points) == [i \in DOMAIN points |->
                       IF points[i].cp = Invalid THEN s[points[i].from] ELSE points[i].cp]
  IN of(Points(s))

\* No quote ends the text before its last one.
Closed(t, quote) ==
  \A i \in 2..Len(t) - 1 : t[i] = quote =>
    (CHOOSE n \in 0..i - 2 : t[i - n - 1] # 92 /\ \A k \in i - n..i - 1 : t[k] = 92) % 2 = 1

Codes(points) == [i \in DOMAIN points |-> points[i].cp]

\* Those that UTF-16 has one unit for.
Basic(codes) == SelectSeq(codes, LAMBDA c : c < 65536)

\* The bytes of some of the code points of a text.
BytesOf(s, points) == FlattenSeq([i \in DOMAIN points |-> SubSeq(s, points[i].from, points[i].to)])

(***************************************************************************)
(* Every byte of a text is part of one code point or invalid by itself.    *)
(* Debug output is closed by its last quote only, holds no unprintable     *)
(* character, and reads back as the text, except that \xhh stands for an   *)
(* invalid byte and for a code point below 256 alike.  Outside debug       *)
(* output a precision keeps whole code points, and width counts columns.   *)
(* A valid text converts to UTF-16 and from UTF-32 without loss.  What     *)
(* to_utf8 makes of any 16-bit units is valid and has, in order, the code  *)
(* points of a unit each, whatever surrogates, alone or in pairs, stand    *)
(* between them (Utf16ReadsBack is about the pairs themselves).            *)
(***************************************************************************)
TextReadsBack ==
  LET decoded(points) ==
        /\ BytesOf(bytes, points) = bytes
        /\ \A p \in ToSet(points) :
             IF p.cp = Invalid THEN p.from = p.to ELSE Encode(p.cp) = SubSeq(bytes, p.from, p.to)
      escaped(t) ==
        /\ Closed(t, 34) /\ Unescaped(Inside(t)) = Meaning(bytes)
        /\ \A p \in ToSet(Points(t)) : p.cp # Invalid /\ (p.cp \in {34, 92} \/ ~NeedsEscape(p.cp))
      escapedChar(b, t) == Closed(t, 39) /\ Unescaped(Inside(t)) = <<b>>
      written(points, precision, width, w) ==
        /\ Points(w.text)
             = SubSeq(points, 1, IF precision \in 0..Len(points) THEN precision ELSE Len(points))
        /\ w.fills > 0 => ComputeWidth(w.text) + w.fills = width
      strings(points) ==
        \A precision \in -1..Len(bytes), width \in {0, 3} :
          written(points, precision, width,
                  WriteString(bytes, [precision |-> precision, width |-> width, debug |-> FALSE]))
      wide(points, utf16) ==
        IF \E p \in ToSet(points) : p.cp = Invalid THEN utf16 = Fail
        ELSE /\ utf16 # Fail
             /\ ToUtf8(Codes(points), 4, "abort") = bytes
             /\ Basic(Codes(Points(ToUtf8(utf16, 2, "abort")))) = Basic(Codes(points))
      cleaned(t) ==
        /\ SelectSeq(Basic(Codes(Points(t))), LAMBDA cp : cp # 65533)
             = SelectSeq(units, LAMBDA u : ~High(u) /\ ~Low(u))
        /\ ToUtf8(units, 2, "abort") \in {Fail, t}
        /\ \A p \in ToSet(Points(t)) : p.cp # Invalid
  IN /\ decoded(Points(bytes)) /\ strings(Points(bytes))
     /\ escaped(WriteEscapedString(bytes))
     /\ \A b \in ToSet(bytes) : escapedChar(b, WriteEscapedChar(b))
     /\ wide(Points(bytes), Utf8ToUtf16(bytes))
     /\ (\A u \in ToSet(units) : u < 65536) => cleaned(ToUtf8(units, 2, "replace"))
     /\ ToUtf8(units, 4, "abort") # Fail <=>
          \A u \in ToSet(units) : ~High(u) /\ ~Low(u) /\ u <= LargestPoint

(***************************************************************************)
(* format.h 1383 calls to_utf8 a "converter from UTF-16/UTF-32", and 1419  *)
(* is there to "Handle a surrogate pair".  So a text comes back from the   *)
(* UTF-16 that utf8_to_utf16 has made of it.                               *)
(***************************************************************************)
Utf16ReadsBack ==
  LET back(utf16) == utf16 # Fail => ToUtf8(utf16, 2, "abort") = bytes IN back(Utf8ToUtf16(bytes))

=============================================================================
