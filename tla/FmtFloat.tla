------------------------------ MODULE FmtFloat ------------------------------
(***************************************************************************)
(* Floating-point numbers as format.h writes them: Dragonbox for the       *)
(* shortest decimal, the first segment of digits and format_dragon for a   *)
(* given precision, the layout of the result and the hexadecimal format.   *)
(* The format has SignificandBits bits after the implicit one.  bigints    *)
(* and products with the cached powers of ten are the numbers they stand   *)
(* for.                                                                    *)
(***************************************************************************)
EXTENDS Integers, Sequences, SequencesExt

CONSTANTS
  SignificandBits, \* num_significand_bits
  MinExponent,     \* the exponent of subnormal numbers
  Numbers,         \* the finite values: records of f and e for f * 2^e
  Specs,           \* the format_specs
  TieExponents,    \* from shorter_interval_tie_lower_threshold to ..._upper_...
  SegmentDigits,   \* the digits of the first segment, 19
  MaxDigits        \* max_double_digits

VARIABLE float \* what is formatted: a number, its sign, its specs, the way

NoFloat == [kind |-> "none"]
Fail == <<"number is too big">>
LargestInt == 2147483647
ImplicitBit == 2^SignificandBits
Kappa == 1

Chars == <<"0", "1", "2", "3", "4", "5", "6", "7", "8", "9", "a", "b", "c", "d", "e", "f">>
Char(digit) == Chars[digit + 1]
Zeros(n) == [i \in 1..n |-> 0]
Above(n) == IF n > 0 THEN n ELSE 0

-----------------------------------------------------------------------------
(* n * 2^e * 10^k, rounded down, and whether it is an integer. *)

Numerator(n, e, k) == n * 2^Above(e) * 10^Above(k)
Denominator(e, k) == 2^Above(-e) * 10^Above(-k)
Floor(n, e, k) == Numerator(n, e, k) \div Denominator(e, k)
IsInteger(n, e, k) == Numerator(n, e, k) % Denominator(e, k) = 0
FloorLog10(n, e) == CHOOSE j \in IF e >= 0 THEN 0..4 ELSE -7..2 : Floor(n, e, -j) \in 1..9

Cut(digits) == \* remove_trailing_zeros
  LET top == CHOOSE n \in 0..Len(digits) : (n = 0 \/ digits[n] # 0) /\ \A i \in n + 1..Len(digits) : digits[i] = 0
  IN SubSeq(digits, 1, top)

DigitsOf[n \in Nat] == IF n < 10 THEN <<n>> ELSE DigitsOf[n \div 10] \o <<n % 10>>

Decimal(significand, exp) == [digits |-> DigitsOf[significand], exp |-> exp]

RemoveTrailingZeros(significand, exp) ==
  LET digits == DigitsOf[significand]
  IN [digits |-> Cut(digits), exp |-> exp + Len(digits) - Len(Cut(digits))]

-----------------------------------------------------------------------------
(* Dragonbox *)

ShorterInterval(e) ==
  LET minusK == FloorLog10(3, e - 2)
      left == Floor(4 * ImplicitBit - 1, e - 2, -minusK)
      xi == IF e \in 2..3 THEN left ELSE left + 1
      zi == Floor(2 * ImplicitBit + 1, e - 1, -minusK)
      up == (Floor(2 * ImplicitBit, e, -minusK) + 1) \div 2
      y == CASE e \in TieExponents -> up - (up % 2)
             [] e \notin TieExponents /\ up < xi -> up + 1
             [] OTHER -> up
  IN IF (zi \div 10) * 10 >= xi THEN RemoveTrailingZeros(zi \div 10, minusK + 1)
     ELSE Decimal(y, minusK)

RegularInterval(f, e) ==
  LET minusK == FloorLog10(1, e) - Kappa
      k == -minusK
      big == 10^(Kappa + 1)
      small == 10^Kappa
      deltai == Floor(1, e, k)
      even == f % 2 = 0
      zi == Floor(2 * f + 1, e - 1, k)
      s == zi \div big
      r == zi % big
      excluded == r = 0 /\ IsInteger(2 * f + 1, e - 1, k) /\ ~even
      inLarger == \/ r < deltai /\ ~excluded
                  \/ r = deltai /\ \/ Floor(2 * f - 1, e - 1, k) % 2 = 1
                                   \/ IsInteger(2 * f - 1, e - 1, k) /\ even
      dist == (IF excluded THEN big ELSE r) - deltai \div 2 + small \div 2
      approxOdd == (dist - small \div 2) % 2 = 1
      near == 10 * (IF excluded THEN s - 1 ELSE s) + dist \div small
      y == Floor(2 * f, e - 1, k)
      down == /\ dist % small = 0
              /\ \/ (y % 2 = 1) # approxOdd
                 \/ IsInteger(2 * f, e - 1, k) /\ near % 2 # 0
  IN IF inLarger THEN RemoveTrailingZeros(s, minusK + Kappa + 1)
     ELSE Decimal(IF down THEN near - 1 ELSE near, minusK + Kappa)

ToDecimal(v) ==
  CASE v.f = 0 -> Decimal(0, 0)
    [] v.f = ImplicitBit -> ShorterInterval(v.e)
    [] OTHER -> RegularInterval(v.f, v.e)

-----------------------------------------------------------------------------
(* format_dragon *)

Compare(a, b) == IF a < b THEN -1 ELSE IF a > b THEN 1 ELSE 0

\* Fault: a nine takes no carry.
RoundedEarly(digits, exp, up, fixed) ==
  LET n == Len(digits) IN [digits |-> [digits EXCEPT ![n] = IF up /\ @ < 9 THEN @ + 1 ELSE @], exp |-> exp]

\* The digits, one more in the last place if up; the carry of nines alone
\* makes one digit more or a larger exponent.
Rounded(digits, exp, up, fixed) ==
  LET n == Len(digits)
      kept == CHOOSE i \in 0..n : (i = 0 \/ digits[i] # 9) /\ \A j \in i + 1..n : digits[j] = 9
      carried == [i \in 1..n |-> IF i = kept THEN digits[i] + 1 ELSE IF i > kept THEN 0 ELSE digits[i]]
  IN CASE ~up -> [digits |-> digits, exp |-> exp]
       [] up /\ kept > 0 -> [digits |-> carried, exp |-> exp]
       [] up /\ kept = 0 /\ fixed -> [digits |-> <<1>> \o Zeros(n), exp |-> exp]
       [] OTHER -> [digits |-> <<1>> \o Zeros(n - 1), exp |-> exp + 1]

PredecessorCloser(v) == v.f = ImplicitBit /\ v.e > MinExponent

ShortestDigits(start, exp10, even) ==
  LET step[num \in Nat, lower \in Nat, upper \in Nat, den \in Nat] ==
        LET digit == num \div den
            rest == num % den
            low == Compare(rest, lower) - even < 0
            high == Compare(rest + upper, den) + even > 0
            half == Compare(2 * rest, den)
            more == low => (high /\ (half > 0 \/ (half = 0 /\ digit % 2 # 0)))
        IN IF low \/ high THEN <<IF more THEN digit + 1 ELSE digit>>
           ELSE <<digit>> \o step[rest * 10, lower * 10, upper * 10, den]
      digits == step[start.num, start.lower, start.upper, start.den]
  IN [digits |-> digits, exp |-> exp10 - (Len(digits) - 1)]

GivenDigits(start, exp10, n, fixed) ==
  LET rest[i \in 0..n] == IF i = 0 THEN start.num ELSE (rest[i - 1] % start.den) * 10
      digits == [i \in 1..n |-> rest[i - 1] \div start.den]
      half == Compare(2 * (rest[n - 1] % start.den), start.den)
      up == half > 0 \/ (half = 0 /\ digits[n] % 2 # 0)
      exp == exp10 - (n - 1)
  IN CASE n < 0 -> [digits |-> <<0>>, exp |-> exp]
       [] n = 0 -> [digits |-> <<IF 2 * start.num > 10 * start.den THEN 1 ELSE 0>>, exp |-> exp]
       [] OTHER -> Rounded(digits, exp, up, fixed)

AdjustPrecision(precision, exp10) == \* none if it is too big
  IF exp10 > 0 /\ precision > LargestInt - exp10 THEN <<>> ELSE <<precision + exp10>>

FormatDragon(v, exp10, fixup, fixed, precision) ==
  LET shift == IF PredecessorCloser(v) THEN 2 ELSE 1
      even == IF v.f % 2 = 0 THEN 1 ELSE 0
      lower == CASE v.e >= 0 -> 2^v.e [] v.e < 0 /\ exp10 < 0 -> 10^(-exp10) [] OTHER -> 1
      start == [num |-> v.f * 2^(Above(v.e) + shift) * 10^Above(-exp10),
                den |-> 10^Above(exp10) * 2^(shift + Above(-v.e)),
                lower |-> lower,
                upper |-> IF PredecessorCloser(v) THEN 2 * lower ELSE lower]
      low == fixup /\ Compare(start.num + start.upper, start.den) + even <= 0
      first == IF ~low THEN start
               ELSE [start EXCEPT !.num = 10 * @, !.lower = IF precision < 0 THEN 10 * @ ELSE @,
                                  !.upper = IF precision < 0 THEN 10 * @ ELSE @]
      exp == IF low THEN exp10 - 1 ELSE exp10
      adjusted == IF fixup /\ fixed THEN AdjustPrecision(precision, exp + 1) ELSE <<precision>>
  IN CASE precision < 0 /\ ~(fixup /\ fixed) -> ShortestDigits(first, exp, even)
       [] adjusted = <<>> -> [digits |-> <<>>, exp |-> LargestInt]
       [] OTHER -> GivenDigits(first, exp, adjusted[1], fixed)

-----------------------------------------------------------------------------
(* format_float *)

BitLength(f) == CHOOSE n \in 1..SignificandBits + 1 : 2^(n - 1) <= f /\ f < 2^n

\* The estimate of the exponent: log10(2^(e + bits - 1)), rounded up.
EstimateExp(v) ==
  LET e == v.e + BitLength(v.f) - 1
  IN IF e = 0 THEN 0 ELSE FloorLog10(1, e) + 1

\* The number with the significand moved up to the implicit bit.
Normalized(v) ==
  LET moved == SignificandBits + 1 - BitLength(v.f) IN [f |-> v.f * 2^moved, e |-> v.e - moved]

FirstSegment(v) ==
  LET n == Normalized(v)
      k == Kappa - FloorLog10(1, n.e)
      segment == Floor(n.f, n.e, k)
      full == segment >= 10^(SegmentDigits - 1)
  IN [digits |-> DigitsOf[IF full THEN segment ELSE 10 * segment],
      genuine |-> IF full THEN SegmentDigits ELSE SegmentDigits - 1,
      more |-> ~IsInteger(n.f, n.e, k),
      exp |-> -k]

\* Fewer digits than the segment has.
FromSegment(segment, precision, fixed) ==
  LET rest == SubSeq(segment.digits, precision + 1, Len(segment.digits))
      ones == FoldLeft(LAMBDA n, d : 10 * n + d, 0, rest)
      half == 5 * 10^(Len(rest) - 1)
      up == \/ ones > half
            \/ ones = half /\ (segment.digits[precision] % 2 = 1 \/ segment.more)
  IN CASE precision < 0 -> [digits |-> <<>>, exp |-> segment.exp + segment.genuine]
       [] precision = 0 -> [digits |-> <<IF ones > half \/ (ones = half /\ segment.more) THEN 1 ELSE 0>>,
                            exp |-> segment.exp + segment.genuine]
       [] OTHER -> Rounded(SubSeq(segment.digits, 1, precision),
                           segment.exp + segment.genuine - precision, up, fixed)

Shorten(r) == [digits |-> Cut(r.digits), exp |-> r.exp + Len(r.digits) - Len(Cut(r.digits))]

AtMost(a, b) == IF a < b THEN a ELSE b

FormatFloat(v, precision, fspecs, fast) ==
  LET fixed == fspecs.format = "fixed"
      given(segment, adjusted) ==
        CASE adjusted = <<>> -> [digits |-> <<>>, exp |-> LargestInt]
          [] adjusted # <<>> /\ segment.genuine > adjusted[1] -> FromSegment(segment, adjusted[1], fixed)
          [] OTHER -> FormatDragon(v, segment.exp + segment.genuine - 1, FALSE, fixed,
                                   AtMost(adjusted[1], MaxDigits))
      from(segment) ==
        given(segment, IF fixed THEN AdjustPrecision(precision, segment.exp + segment.genuine)
                       ELSE <<precision>>)
      shortened(written) ==
        IF fixed \/ fspecs.showpoint \/ written.exp = LargestInt THEN written ELSE Shorten(written)
  IN CASE v.f = 0 /\ (precision <= 0 \/ ~fixed) -> [digits |-> <<0>>, exp |-> 0]
       [] v.f = 0 /\ precision > 0 /\ fixed -> [digits |-> Zeros(precision), exp |-> -precision]
       [] v.f # 0 /\ fast /\ precision < 0 -> ToDecimal(v)
       [] OTHER ->
            shortened(IF fast THEN from(FirstSegment(v))
                      ELSE FormatDragon(v, EstimateExp(v), TRUE, fixed, AtMost(precision, MaxDigits)))

-----------------------------------------------------------------------------
(* Layout *)

Plain(digits) == [i \in DOMAIN digits |-> Char(digits[i])]

WriteExponent(exp) ==
  LET abs == IF exp < 0 THEN -exp ELSE exp
  IN <<IF exp < 0 THEN "-" ELSE "+">> \o (IF abs < 10 THEN <<"0">> ELSE <<>>) \o Plain(DigitsOf[abs])

UseExpFormat(outputExp, fspecs) ==
  CASE fspecs.format = "exp" -> TRUE
    [] fspecs.format = "fixed" -> FALSE
    [] OTHER -> outputExp < -4 \/ outputExp >= (IF fspecs.precision > 0 THEN fspecs.precision ELSE 16)

\* The digits of the number with point and exponent, and the size reserved.
DoWriteFloat(d, fspecs) ==
  LET size == Len(d.digits)
      outputExp == d.exp + size - 1
      exp == d.exp + size
      abs == IF outputExp < 0 THEN -outputExp ELSE outputExp
      expDigits == IF abs >= 1000 THEN 4 ELSE IF abs >= 100 THEN 3 ELSE 2
      padding == IF fspecs.showpoint THEN Above(fspecs.precision - size) ELSE 0
      point == fspecs.showpoint \/ size # 1
      after == fspecs.precision - exp
      leading == IF size = 0 /\ fspecs.precision >= 0 /\ fspecs.precision < -exp THEN fspecs.precision ELSE -exp
      pointy == leading # 0 \/ size # 0 \/ fspecs.showpoint
      Point == <<".">>
  IN CASE UseExpFormat(outputExp, fspecs) ->
            [text |-> Plain(SubSeq(d.digits, 1, 1)) \o (IF point THEN Point \o Plain(Tail(d.digits)) ELSE <<>>)
                        \o Plain(Zeros(padding)) \o <<"e">> \o WriteExponent(outputExp),
             size |-> size + padding + (IF point THEN 1 ELSE 0) + 2 + expDigits]
       [] ~UseExpFormat(outputExp, fspecs) /\ d.exp >= 0 ->
            [text |-> Plain(d.digits \o Zeros(d.exp))
                        \o (IF fspecs.showpoint THEN Point \o Plain(Zeros(Above(after))) ELSE <<>>),
             size |-> size + d.exp + (IF fspecs.showpoint THEN 1 + Above(after) ELSE 0)]
       [] ~UseExpFormat(outputExp, fspecs) /\ d.exp < 0 /\ exp > 0 ->
            [text |-> Plain(SubSeq(d.digits, 1, exp)) \o Point \o Plain(SubSeq(d.digits, exp + 1, size))
                        \o Plain(Zeros(padding)),
             size |-> size + 1 + padding]
       [] OTHER ->
            [text |-> <<"0">> \o (IF pointy THEN Point \o Plain(Zeros(leading) \o d.digits) ELSE <<>>),
             size |-> size + 1 + (IF pointy THEN 1 ELSE 0) + leading]

FormatHexfloat(v, specs) ==
  LET xdigits == (SignificandBits + 4) \div 4
      rounds == specs.precision >= 0 /\ xdigits - 1 > specs.precision
      unit == 16^(xdigits - 1 - specs.precision)
      up == (v.f % unit) \div (unit \div 16) >= 8
      f == IF rounds /\ up THEN v.f + unit - (v.f % unit) ELSE v.f
      all == [i \in 1..xdigits |-> (f \div 16^(xdigits - i)) % 16]
      shown == SubSeq(all, 2, IF rounds THEN specs.precision + 1 ELSE xdigits)
      e == v.e + SignificandBits
      abs == IF e < 0 THEN -e ELSE e
  IN <<"0", "x">> \o Plain(SubSeq(all, 1, 1))
       \o (IF specs.alt \/ Cut(shown) # <<>> \/ specs.precision > 0 THEN <<".">> ELSE <<>>)
       \o Plain(Cut(shown)) \o Plain(Zeros(Above(specs.precision - Len(Cut(shown)))))
       \o <<"p", IF e < 0 THEN "-" ELSE "+">> \o Plain(DigitsOf[abs])

\* write_padded with align::right as the default.
WritePadded(text, size, specs) ==
  LET fills == [i \in 1..Above(specs.width - size) |-> specs.fill]
  IN IF specs.align = "left" THEN text \o fills ELSE fills \o text

SignChar(call) == IF call.negative THEN <<"-">> ELSE IF call.specs.plus THEN <<"+">> ELSE <<>>

WriteNonfinite(call) ==
  LET text == SignChar(call) \o (IF call.kind = "nan" THEN <<"n", "a", "n">> ELSE <<"i", "n", "f">>)
  IN WritePadded(text, Len(text), [call.specs EXCEPT !.fill = IF @ = "0" THEN " " ELSE @])

FloatSpecs(specs) ==
  LET asked == IF specs.precision >= 0 \/ specs.type = "none" THEN specs.precision ELSE 6
  IN [precision |-> CASE specs.type = "exp" -> asked + 1
                      [] specs.type \in {"none", "general"} /\ asked = 0 -> 1
                      [] OTHER -> asked,
      format |-> CASE specs.type = "exp" -> "exp" [] specs.type = "fixed" -> "fixed" [] OTHER -> "general",
      showpoint |-> specs.alt \/ (specs.type \in {"exp", "fixed"} /\ specs.precision # 0)]

WriteFloat(call) ==
  LET numeric == call.specs.align = "numeric" /\ SignChar(call) # <<>>
      outside == IF numeric THEN SignChar(call) ELSE <<>>
      inside == IF numeric THEN <<>> ELSE SignChar(call)
      specs == IF numeric /\ call.specs.width # 0 THEN [call.specs EXCEPT !.width = @ - 1] ELSE call.specs
      padded(w) == outside \o WritePadded(inside \o w.text, Len(inside) + w.size, specs)
      hex(text) == padded([text |-> text, size |-> Len(text)])
      decimal(d, fspecs) == IF d.exp = LargestInt THEN Fail ELSE padded(DoWriteFloat(d, fspecs))
      with(fspecs) == decimal(FormatFloat(call.value, fspecs.precision, fspecs, call.fast), fspecs)
  IN CASE call.kind # "finite" -> WriteNonfinite(call)
       [] call.kind = "finite" /\ specs.type = "hexfloat" -> hex(FormatHexfloat(call.value, specs))
       [] call.kind = "finite" /\ specs.type = "exp" /\ specs.precision = LargestInt -> Fail
       [] OTHER -> with(FloatSpecs(specs))

-----------------------------------------------------------------------------
FloatInit == float = NoFloat

FormatNumber(value, negative, specs, fast) ==
  /\ float = NoFloat
  /\ float' = [kind |-> "finite", value |-> value, negative |-> negative, specs |-> specs, fast |-> fast]

FormatNonfinite(kind, negative, specs) ==
  /\ float = NoFloat
  /\ float' = [kind |-> kind, negative |-> negative, specs |-> specs]

FloatNext ==
  \/ \E value \in Numbers, negative, fast \in BOOLEAN, specs \in Specs :
       FormatNumber(value, negative, specs, fast)
  \/ \E kind \in {"inf", "nan"}, negative \in BOOLEAN, specs \in Specs :
       FormatNonfinite(kind, negative, specs)

-----------------------------------------------------------------------------
(* A decimal number as the set of its digits other than 0, each with its   *)
(* power of ten.                                                           *)

ValueOfChar(c) == CHOOSE d \in 0..15 : Char(d) = c
IndexIn(c, s) == IF c \in ToSet(s) THEN CHOOSE i \in DOMAIN s : s[i] = c /\ \A j \in 1..i - 1 : s[j] # c
                 ELSE Len(s) + 1
Whole(s) == FoldLeft(LAMBDA n, c : 10 * n + ValueOfChar(c), 0, s)

Split(s, mark) == \* a text before its exponent, and the exponent
  LET i == IndexIn(mark, s)
      abs == Whole(SubSeq(s, i + 2, Len(s)))
  IN [mantissa |-> SubSeq(s, 1, i - 1),
      exp |-> IF i > Len(s) THEN 0 ELSE IF s[i + 1] = "-" THEN -abs ELSE abs]

Decimals(s) == LET m == Split(s, "e").mantissa IN Len(m) - AtMost(IndexIn(".", m), Len(m))

Read(s) ==
  LET m == Split(s, "e").mantissa
      point == IndexIn(".", m)
      power(i) == Split(s, "e").exp + (IF i < point THEN point - 1 - i ELSE point - i)
  IN {<<power(i), ValueOfChar(m[i])>> : i \in {i \in DOMAIN m \ {point} : m[i] # "0"}}

\* The digits of f * 2^e: four before the point, all others after it.
Exact(v) ==
  LET den == 2^Above(-v.e)
      rest[i \in 0..Above(-v.e)] == IF i = 0 THEN Numerator(v.f, v.e, 0) % den ELSE (rest[i - 1] * 10) % den
      whole == Floor(v.f, v.e, 0)
  IN [i \in 1..4 |-> (whole \div 10^(4 - i)) % 10]
       \o [i \in 1..Above(-v.e) |-> (rest[i - 1] * 10) \div den]

SetOf(digits) == {<<4 - i, digits[i]>> : i \in {i \in DOMAIN digits : digits[i] # 0}}

\* One more in the last place.
OneMore(digits) ==
  LET carries(i) == \A j \in i + 1..Len(digits) : digits[j] = 9
  IN [i \in DOMAIN digits |-> (digits[i] + (IF carries(i) THEN 1 ELSE 0)) % 10]

\* Rounded half to even after the first n digits.
Nearest(v, n) ==
  LET all == Exact(v) \o Zeros(4)
      rest == SubSeq(all, n + 1, Len(all))
      up == /\ rest # <<>> /\ rest[1] >= 5
            /\ rest[1] > 5 \/ Cut(Tail(rest)) # <<>> \/ (n > 0 /\ all[n] % 2 = 1)
      kept == SubSeq(all, 1, AtMost(n, Len(all)))
  IN SetOf(IF up THEN OneMore(kept) ELSE kept)

Leading(v) == CHOOSE i \in DOMAIN Exact(v) : Exact(v)[i] # 0 /\ \A j \in 1..i - 1 : Exact(v)[j] = 0

\* The decimals m * 10^k that read back as v: nearer to it than to any other,
\* or half way and v even.  In quarters of 2^e, so that they are integers.
ReadsAs(m, k, v) ==
  LET q == IF k >= 0 THEN m * 10^k * 2^Above(2 - v.e) ELSE m * 2^Above(2 - v.e)
      unit == (IF k >= 0 THEN 1 ELSE 10^(-k)) * 2^Above(v.e - 2)
      low == (4 * v.f - (IF PredecessorCloser(v) THEN 1 ELSE 2)) * unit
      high == (4 * v.f + 2) * unit
  IN IF v.f % 2 = 0 THEN q \in low..high ELSE q \in low + 1..high - 1

Distance(m, k, v) ==
  LET q == IF k >= 0 THEN m * 10^k * 2^Above(-v.e) ELSE m * 2^Above(-v.e)
      x == v.f * 2^Above(v.e) * (IF k >= 0 THEN 1 ELSE 10^(-k))
  IN IF q > x THEN q - x ELSE x - q

Shortest(m, k, v) ==
  /\ ReadsAs(m, k, v)
  /\ \A n \in {m - 1, m + 1} : ReadsAs(n, k, v) => Distance(n, k, v) >= Distance(m, k, v)
  /\ LET ten == m \div 10 IN \A n \in {ten, ten + 1} : n > 0 /\ m > 9 => ~ReadsAs(n, k + 1, v)

Unfilled(text) == \* without fill and sign
  LET body == SelectSeq(text, LAMBDA c : c \notin {"*", " "})
  IN IF body # <<>> /\ body[1] \in {"+", "-"} THEN Tail(body) ELSE body

\* Digits past the largest number a double has are not produced, and zeros in
\* their place only before them are counted.
Capped(call) ==
  LET p == FloatSpecs(call.specs)
  IN p.precision > MaxDigits - 4

\* format_dragon takes a number for the power of ten that reads as it, too: of
\* its digits the first is then 0.
ZeroFirst(call) ==
  /\ ~call.fast /\ call.value.f > 0
  /\ ReadsAs(1, FloorLog10(call.value.f, call.value.e) + 1, call.value)

(***************************************************************************)
(* Without precision a number is written as the shortest decimal that      *)
(* reads back as it, the nearest of these; with one, as its decimal value  *)
(* rounded half to even, with exactly the digits asked for; by Dragonbox,  *)
(* from the first segment or by format_dragon alike.  The size reserved is *)
(* the size written.  Hexadecimal digits round half up, and zeros that fill  *)
(* up the width stand before their 0x (format.h 3581).  Exceptions: just   *)
(* below a power of ten that reads as the same number format_dragon begins *)
(* with the digit 0 (format.h 3065); it makes at most MaxDigits decimals   *)
(* of types without a fast path (3540); and beyond MaxDigits digits fixed  *)
(* notation may have fewer than asked for (2643 and 2655).                 *)
(***************************************************************************)
FloatsReadBack ==
  LET specs == float.specs
      v == float.value
      f == FloatSpecs(specs)
      zero == IF f.precision >= 0 /\ ZeroFirst(float) THEN 1 ELSE 0
      n == IF f.format = "fixed" THEN 4 + (IF float.fast THEN f.precision ELSE AtMost(f.precision, MaxDigits))
           ELSE Leading(v) + AtMost(f.precision, 2 * MaxDigits) - 1 - zero
      powers(number) == {d[1] : d \in number}
      first(number) == IF number = {} THEN 0 ELSE CHOOSE p \in powers(number) : \A q \in powers(number) : q <= p
      last(number) == CHOOSE p \in powers(number) : \A q \in powers(number) : q >= p
      whole(number, low) == FoldLeft(LAMBDA s, d : s + d[2] * 10^(d[1] - low), 0, SetToSeq(number))
      shortest(number, low) == Shortest(whole(number, low), low, v)
      digits(number) ==
        CASE v.f = 0 -> number = {}
          [] v.f > 0 /\ f.precision < 0 -> shortest(number, last(number))
          [] OTHER -> number = Nearest(v, n)
      notation(body, x) ==
        /\ f.format = "fixed" /\ ~Capped(float) => Decimals(body) = f.precision
        /\ f.format = "exp" => Decimals(body) = f.precision - 1
        /\ f.format = "general" /\ v.f > 0 =>
             ("e" \in ToSet(body)) = (x < -4 \/ x >= (IF f.precision > 0 THEN f.precision ELSE 16))
      size(text, written) ==
        /\ specs.fill = "0" \/ Len(text) = (IF specs.width > written THEN specs.width ELSE written)
        /\ Len(text) >= specs.width
      number(body, read) == digits(read) /\ notation(body, first(read) + zero)
      decimal(text, body) == size(text, Len(SignChar(float)) + Len(body)) /\ number(body, Read(body))
      unit == 2^Above(SignificandBits - 4 * Above(specs.precision))
      hexadecimal(xdigits, exp) ==
        LET read == FoldLeft(LAMBDA s, c : 16 * s + ValueOfChar(c), 0, xdigits)
            bits == 4 * (Len(xdigits) - 1)
        IN /\ exp = v.e + SignificandBits
           /\ read * 2^Above(SignificandBits - bits) =
                2^Above(bits - SignificandBits) *
                  (IF specs.precision = -1 THEN v.f ELSE ((2 * v.f + unit) \div (2 * unit)) * unit)
           /\ specs.precision >= 0 => Len(xdigits) = specs.precision + 1
      parts(hex) == hexadecimal(SelectSeq(hex.mantissa, LAMBDA c : c # "."), hex.exp)
      read(text, body) ==
        CASE text = Fail -> specs.precision = LargestInt
          [] text # Fail /\ specs.type = "hexfloat" ->
               parts(Split(SubSeq(body, IndexIn("x", body) + 1, Len(body)), "p"))
          [] OTHER -> decimal(text, body)
      written(text) == read(text, Unfilled(text))
  IN float.kind = "finite" => written(WriteFloat(float))

=============================================================================
