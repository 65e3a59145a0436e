------------------------------ MODULE FmtChrono ------------------------------
(***************************************************************************)
(* fmt/chrono.h: the parser of put_time-like formats, its two checkers,    *)
(* tm_writer, and chrono_formatter for durations, with their checked       *)
(* conversions.  A text is a sequence of characters; names of days and     *)
(* months, and what a locale writes, are one character each.               *)
(*                                                                         *)
(* A duration is a count of the period num/den of a second.  An integer    *)
(* count has RepBits bits; a floating-point one is counted in quarters,    *)
(* exact in binary, so that the model and the code round the same values.  *)
(***************************************************************************)
EXTENDS Integers, Sequences, SequencesExt

CONSTANTS
  Years,      \* years of the dates formatted
  YearDays,   \* days of the year, from 0
  TimesOfDay, \* seconds of the day, and the offset from UTC: [sec, gmtoff]
  Ticks,      \* counts of durations and of time points
  Periods,    \* periods <<num, den>>
  Precisions, \* precisions, -1 for none
  SpecChars,  \* the characters of formats
  MaxSpec,    \* bound on their length
  RepBits,    \* bits of an integer count
  MaxInt      \* max_value<int>()

VARIABLE chrono \* what is formatted

Nothing == [what |-> "nothing"]
Unspecified == "unspecified"

\* C++ division, towards zero.
Quotient(a, b) == IF a >= 0 THEN a \div b ELSE -((-a) \div b)
Remainder(a, b) == a - b * Quotient(a, b)

-----------------------------------------------------------------------------
(* Checked conversions.  Thrown is a format_error on the way to the text.  *)

Thrown == [ok |-> FALSE, value |-> 0]
Returned(n) == [ok |-> TRUE, value |-> n]

(* safe_duration_cast by the factor num/den, of integers. *)
SafeDurationCast(count, num, den, lowest, highest) ==
  IF num # 1 /\ (count > Quotient(highest, num) \/ count < Quotient(lowest, num))
  THEN Thrown ELSE Returned(Quotient(count * num, den))

MaxUnsigned == 2^RepBits - 1
MaxSigned == 2^(RepBits - 1) - 1
MinSigned == -(2^(RepBits - 1))

ToNonnegativeInt(n, upper) == IF n < 0 \/ n > upper THEN Thrown ELSE Returned(n)

CountFractionalDigits(num, den) ==
  LET exact == {n \in 0..6 : ((num % den) * 10^n) % den = 0}
  IN IF exact = {} THEN 6 ELSE CHOOSE n \in exact : \A m \in exact : n <= m

-----------------------------------------------------------------------------
(* Numbers *)

DigitChars == <<"0", "1", "2", "3", "4", "5", "6", "7", "8", "9">>
Digit(n) == DigitChars[n + 1]
Digits[n \in Nat] == IF n < 10 THEN <<Digit(n)>> ELSE Append(Digits[n \div 10], Digit(n % 10))
Zeros(n) == [i \in 1..n |-> "0"]

PadWith(pad, width) == \* write_padding
  IF pad = "none" THEN <<>> ELSE [i \in 1..width |-> IF pad = "space" THEN " " ELSE "0"]

Write2(n) == <<Digit((n % 100) \div 10), Digit(n % 10)>>
Write2Padded(n, pad) == IF n % 100 >= 10 THEN Write2(n) ELSE Append(PadWith(pad, 1), Digit(n % 100))

(* One lane of write_digit2_separated: binary to BCD by a multiplication. *)
Bcd(n) == n + ((n * 205) \div 2048) * 6
Separated(a, b, c, separator) ==
  LET pair(n) == <<Digit(Bcd(n) \div 16), Digit(Bcd(n) % 16)>>
  IN pair(a) \o <<separator>> \o pair(b) \o <<separator>> \o pair(c)

WriteYearExtended(year) ==
  LET width == IF year < 0 THEN 3 ELSE 4
      digits == Digits[IF year < 0 THEN -year ELSE year]
  IN (IF year < 0 THEN <<"-">> ELSE <<>>)
       \o (IF width > Len(digits) THEN Zeros(width - Len(digits)) ELSE <<>>) \o digits
WriteYear(year) ==
  IF year \in 0..9999 THEN Write2(year \div 100) \o Write2(year % 100) ELSE WriteYearExtended(year)

WriteUtcOffset(offset, ns) ==
  LET minutes == (IF offset < 0 THEN -offset ELSE offset) \div 60
  IN <<IF offset < 0 THEN "-" ELSE "+">> \o Write2(minutes \div 60)
       \o (IF ns = "standard" THEN <<>> ELSE <<":">>) \o Write2(minutes % 60)

\* Fault: the zeros between the point and the first digit are forgotten.
UnpaddedFraction(count, num, den, precision) ==
  LET fraction == CountFractionalDigits(num, den)
      n == Quotient(Remainder(count * num, den) * 10^fraction, den) % (MaxUnsigned + 1)
  IN IF precision = 0 \/ fraction = 0 THEN <<>> ELSE <<".">> \o Digits[n]

(* write_fractional_seconds of count periods num/den: the seconds are cut  *)
(* off, what is left is counted in 10^-fraction seconds as unsigned.       *)
WriteFractionalSeconds(count, num, den, precision) ==
  LET FractionOf(fraction) ==
        Quotient(Remainder(count * num, den) * 10^fraction, den) % (MaxUnsigned + 1)
      Leading(fraction, digits) == IF fraction > Len(digits) THEN fraction - Len(digits) ELSE 0
      Rest(n, digits, remaining) ==
        IF remaining < Len(digits)
        THEN LET kept == n \div 10^(Len(digits) - remaining) IN IF kept = 0 THEN <<>> ELSE Digits[kept]
        ELSE IF n = 0 THEN Zeros(remaining) ELSE digits \o Zeros(remaining - Len(digits))
      Cut(n, leading, digits) ==
        LET zeros == IF leading < precision THEN leading ELSE precision
        IN <<".">> \o Zeros(zeros) \o Rest(n, digits, precision - zeros)
      Written(fraction, n, digits) ==
        CASE precision < 0 ->
               IF fraction = 0 THEN <<>> ELSE <<".">> \o Zeros(Leading(fraction, digits)) \o digits
          [] precision = 0 -> <<>>
          [] OTHER -> Cut(n, Leading(fraction, digits), digits)
      Numbered(fraction, n) == Written(fraction, n, Digits[n])
      Exact(fraction) == Numbered(fraction, FractionOf(fraction))
  IN Exact(CountFractionalDigits(num, den))

-----------------------------------------------------------------------------
(* parse_chrono_format: the handler's calls, the last of them "throw" when *)
(* the format is invalid.  A call says which characters it stands for.     *)

Pads == "_" :> "space" @@ "-" :> "none" @@ "0" :> "zero"

Conversions ==
  [Y |-> "year", y |-> "short_year", C |-> "century", G |-> "iso_week_based_year",
   g |-> "iso_week_based_short_year", a |-> "abbr_weekday", A |-> "full_weekday",
   w |-> "dec0_weekday", u |-> "dec1_weekday", b |-> "abbr_month", h |-> "abbr_month",
   B |-> "full_month", m |-> "dec_month", U |-> "dec0_week_of_year",
   W |-> "dec1_week_of_year", V |-> "iso_week_of_year", j |-> "day_of_year",
   d |-> "day_of_month", e |-> "day_of_month_space", H |-> "24_hour", I |-> "12_hour",
   M |-> "minute", S |-> "second", c |-> "datetime", x |-> "loc_date", X |-> "loc_time",
   D |-> "us_date", F |-> "iso_date", r |-> "12_hour_time", R |-> "24_hour_time",
   T |-> "iso_time", p |-> "am_pm", Q |-> "duration_value", q |-> "duration_unit",
   z |-> "utc_offset", Z |-> "tz_name"]
AfterE ==
  [Y |-> "year", y |-> "offset_year", C |-> "century", c |-> "datetime", x |-> "loc_date",
   X |-> "loc_time", z |-> "utc_offset"]
AfterO ==
  [y |-> "short_year", m |-> "dec_month", U |-> "dec0_week_of_year", W |-> "dec1_week_of_year",
   V |-> "iso_week_of_year", d |-> "day_of_month", e |-> "day_of_month_space",
   w |-> "dec0_weekday", u |-> "dec1_weekday", H |-> "24_hour", I |-> "12_hour",
   M |-> "minute", S |-> "second", z |-> "utc_offset"]

Throw == [on |-> "throw", ns |-> "standard", pad |-> Unspecified, text |-> <<>>]
On(name, ns, pad) == [on |-> name, ns |-> ns, pad |-> pad, text |-> <<>>]
OnText(text) == [Throw EXCEPT !.on = "text", !.text = text]
TextCall(text) == IF text = <<>> THEN <<>> ELSE <<OnText(text)>> \* if (begin != ptr)

\* The conversion whose first character, or the padding before it, is at ptr.
ConversionAt(spec, ptr) ==
  LET n == Len(spec)
      padded == ptr <= n /\ spec[ptr] \in DOMAIN Pads
      pad == IF padded THEN Pads[spec[ptr]] ELSE Unspecified
      p == IF padded THEN ptr + 1 ELSE ptr
      modified(table) ==
        IF p + 1 > n \/ spec[p + 1] \notin DOMAIN table THEN [call |-> Throw, next |-> 0]
        ELSE [call |-> On(table[spec[p + 1]], "alternative", pad), next |-> p + 2]
      plain == \* of Conversions, or a text
        CASE spec[p] \in DOMAIN Conversions -> On(Conversions[spec[p]], "standard", pad)
          [] spec[p] = "%" -> OnText(<<"%">>)
          [] spec[p] = "n" -> OnText(<<"\n">>)
          [] spec[p] = "t" -> OnText(<<"\t">>)
          [] OTHER -> Throw
  IN CASE p > n -> [call |-> Throw, next |-> 0]
       [] spec[p] = "E" -> modified(AfterE)
       [] spec[p] = "O" -> modified(AfterO)
       [] OTHER -> [call |-> plain, next |-> p + 1]

ParseChronoFormat(spec) ==
  LET IsPercent(i) == i <= Len(spec) /\ spec[i] = "%"
      Parse[begin, ptr \in 1..(Len(spec) + 1)] ==
        IF ptr > Len(spec) \/ spec[ptr] = "}" THEN TextCall(SubSeq(spec, begin, ptr - 1))
        ELSE IF ~IsPercent(ptr) THEN Parse[begin, ptr + 1]
        ELSE LET From(conversion) ==
                   <<conversion.call>> \o
                   (IF conversion.call = Throw THEN <<>> ELSE Parse[conversion.next, conversion.next])
             IN TextCall(SubSeq(spec, begin, ptr - 1)) \o From(ConversionAt(spec, ptr + 1))
  IN IF spec = <<>> \/ spec[1] = "}" THEN <<>>
     ELSE IF ~IsPercent(1) THEN <<Throw>> ELSE Parse[1, 1]

-----------------------------------------------------------------------------
(* The checkers of parse(): a call they do not define is "unsupported".    *)

DurationCalls ==
  {"text", "day_of_year", "24_hour", "12_hour", "minute", "second", "12_hour_time",
   "24_hour_time", "iso_time", "am_pm", "duration_value", "duration_unit"}
TmCalls ==
  ({"text"} \cup {Conversions[c] : c \in DOMAIN Conversions} \cup {"offset_year"})
    \ {"duration_value", "duration_unit"}

Accepted(calls, supported) == \A i \in 1..Len(calls) : calls[i].on \in supported

\* Fault: the checker of durations lets the date conversions through.
DurationsAcceptAll(calls, precision) == Accepted(calls, DurationCalls \cup TmCalls)

AcceptedTm(calls) == Accepted(calls, TmCalls)
AcceptedDuration(calls, precision) == \* has_precision_integral
  /\ Accepted(calls, DurationCalls)
  /\ precision >= 0 => \A i \in 1..Len(calls) : calls[i].on # "duration_value"

-----------------------------------------------------------------------------
(* tm_writer.  w is [tm, classic, subsecs]; subsecs is <<>>, or the count  *)
(* of the period num/den that lie behind the second.                       *)

Hour12(hour) == IF hour % 12 = 0 THEN 12 ELSE hour % 12

SplitYearLower(year) == LET l == Remainder(year, 100) IN IF l < 0 THEN -l ELSE l

IsoYearWeeks(year) ==
  LET p(y) == Remainder(y + Quotient(y, 4) - Quotient(y, 100) + Quotient(y, 400), 7)
  IN IF p(year) = 4 \/ p(year - 1) = 3 THEN 53 ELSE 52
IsoWeekNum(yday, wday) == Quotient(yday + 11 - (IF wday = 0 THEN 7 ELSE wday), 7)

TmIsoWeekYear(tm) ==
  LET w == IsoWeekNum(tm.yday, tm.wday)
  IN IF w < 1 THEN tm.year - 1 ELSE IF w > IsoYearWeeks(tm.year) THEN tm.year + 1 ELSE tm.year

\* Fault: the last week of the year before is always its 52nd.
WeekOfShortYears(tm) ==
  LET w == IsoWeekNum(tm.yday, tm.wday)
  IN IF w < 1 THEN 52 ELSE IF w > IsoYearWeeks(tm.year) THEN 1 ELSE w

TmIsoWeekOfYear(tm) ==
  LET w == IsoWeekNum(tm.yday, tm.wday)
  IN IF w < 1 THEN IsoYearWeeks(tm.year - 1) ELSE IF w > IsoYearWeeks(tm.year) THEN 1 ELSE w

FullWeekdays == <<"Sunday", "Monday", "Tuesday", "Wednesday", "Thursday", "Friday", "Saturday">>
ShortWeekdays == <<"Sun", "Mon", "Tue", "Wed", "Thu", "Fri", "Sat">>
FullMonths == <<"January", "February", "March", "April", "May", "June", "July", "August",
                "September", "October", "November", "December">>
ShortMonths == <<"Jan", "Feb", "Mar", "Apr", "May", "Jun", "Jul", "Aug", "Sep", "Oct", "Nov", "Dec">>

UsDate(tm) == Separated(tm.mon + 1, tm.mday, SplitYearLower(tm.year), "/")
IsoDate(tm) == \* write_digit2_separated over buf + 2; the year is in front
  IF tm.year \in 0..9999
  THEN Write2(tm.year \div 100) \o Separated(tm.year % 100, tm.mon + 1, tm.mday, "-")
  ELSE WriteYearExtended(tm.year) \o SubSeq(Separated(0, tm.mon + 1, tm.mday, "-"), 3, 8)
Century(year) ==
  LET upper == Quotient(year, 100)
  IN IF year \in -99..-1 THEN <<"-", "0">>
     ELSE IF upper \in 0..99 THEN Write2(upper)
     ELSE (IF upper < 0 THEN <<"-">> ELSE <<>>) \o Digits[IF upper < 0 THEN -upper ELSE upper]
DaySpace(mday) == IF mday < 10 THEN <<" ", Digit(mday)>> ELSE Write2(mday)
Seconds(w, pad) ==
  Write2Padded(w.tm.sec, pad) \o
  (IF w.subsecs = <<>> THEN <<>>
   ELSE WriteFractionalSeconds(w.subsecs.count, w.subsecs.num, w.subsecs.den, -1))
HourMinute(tm) == Write2(tm.hour) \o <<":">> \o Write2(tm.min)
IsoTime(w) == HourMinute(w.tm) \o <<":">> \o Seconds(w, Unspecified)
AmPm(tm) == <<IF tm.hour < 12 THEN "A" ELSE "P", "M">>
HourTime12(tm) == Separated(Hour12(tm.hour), tm.min, tm.sec, ":") \o <<" ">> \o AmPm(tm)

(* What another locale writes is its facet's affair (external). *)
Local(w, text, format, modifier) == IF w.classic THEN text ELSE <<"locale", format, modifier>>
Era(ns) == IF ns = "standard" THEN "" ELSE "E"
DateTime(w, ns) ==
  Local(w, <<ShortWeekdays[w.tm.wday + 1], " ", ShortMonths[w.tm.mon + 1], " ">>
             \o DaySpace(w.tm.mday) \o <<" ">> \o IsoTime(w) \o <<" ">> \o WriteYear(w.tm.year),
        "c", Era(ns))

\* The text of one call of the handler.
OnTm(w, call) ==
  LET tm == w.tm
      \* Written as is in the standard numeric system, whatever the locale.
      number(text, format, modifier) ==
        IF call.ns = "standard" THEN text ELSE Local(w, text, format, modifier)
      weekday1 == IF tm.wday = 0 THEN 7 ELSE tm.wday
  IN CASE call.on = "text" -> call.text
       [] call.on = "abbr_weekday" -> Local(w, <<ShortWeekdays[tm.wday + 1]>>, "a", "")
       [] call.on = "full_weekday" -> Local(w, <<FullWeekdays[tm.wday + 1]>>, "A", "")
       [] call.on = "dec0_weekday" -> number(<<Digit(tm.wday)>>, "w", "O")
       [] call.on = "dec1_weekday" -> number(<<Digit(weekday1)>>, "u", "O")
       [] call.on = "abbr_month" -> Local(w, <<ShortMonths[tm.mon + 1]>>, "b", "")
       [] call.on = "full_month" -> Local(w, <<FullMonths[tm.mon + 1]>>, "B", "")
       [] call.on = "datetime" -> DateTime(w, call.ns)
       [] call.on = "loc_date" -> Local(w, UsDate(tm), "x", Era(call.ns))
       [] call.on = "loc_time" -> Local(w, IsoTime(w), "X", Era(call.ns))
       [] call.on = "us_date" -> UsDate(tm)
       [] call.on = "iso_date" -> IsoDate(tm)
       [] call.on = "utc_offset" -> WriteUtcOffset(tm.gmtoff, call.ns)
       [] call.on = "tz_name" -> Local(w, <<"UTC">>, "Z", "")
       [] call.on = "year" -> number(WriteYear(tm.year), "Y", "E")
       [] call.on = "short_year" -> number(Write2(SplitYearLower(tm.year)), "y", "O")
       [] call.on = "offset_year" -> Local(w, Write2(SplitYearLower(tm.year)), "y", "E")
       [] call.on = "century" -> number(Century(tm.year), "C", "E")
       [] call.on = "dec_month" -> number(Write2(tm.mon + 1), "m", "O")
       [] call.on = "dec0_week_of_year" -> number(Write2((tm.yday + 7 - tm.wday) \div 7), "U", "O")
       [] call.on = "dec1_week_of_year" ->
            number(Write2((tm.yday + 8 - weekday1) \div 7), "W", "O")
       [] call.on = "iso_week_of_year" -> number(Write2(TmIsoWeekOfYear(tm)), "V", "O")
       [] call.on = "iso_week_based_year" -> WriteYear(TmIsoWeekYear(tm))
       [] call.on = "iso_week_based_short_year" -> Write2(SplitYearLower(TmIsoWeekYear(tm)))
       [] call.on = "day_of_year" -> <<Digit((tm.yday + 1) \div 100)>> \o Write2((tm.yday + 1) % 100)
       [] call.on = "day_of_month" -> number(Write2(tm.mday), "d", "O")
       [] call.on = "day_of_month_space" -> number(DaySpace(tm.mday), "e", "O")
       [] call.on = "24_hour" -> number(Write2Padded(tm.hour, call.pad), "H", "O")
       [] call.on = "12_hour" -> number(Write2Padded(Hour12(tm.hour), call.pad), "I", "O")
       [] call.on = "minute" -> number(Write2Padded(tm.min, call.pad), "M", "O")
       [] call.on = "second" -> number(Seconds(w, call.pad), "S", "O")
       [] call.on = "12_hour_time" -> Local(w, HourTime12(tm), "r", "")
       [] call.on = "24_hour_time" -> HourMinute(tm)
       [] call.on = "iso_time" -> IsoTime(w)
       [] call.on = "am_pm" -> Local(w, AmPm(tm), "p", "")

DefaultTmFormat == <<"%", "F", " ", "%", "T">>
DoFormat(w, spec) ==
  LET Texts(calls) == [i \in 1..Len(calls) |-> OnTm(w, calls[i])]
  IN FlattenSeq(Texts(ParseChronoFormat(IF spec = <<>> THEN DefaultTmFormat ELSE spec)))

-----------------------------------------------------------------------------
(* The broken-down time of a day (external: gmtime, mktime).               *)

IsLeap(year) == year % 4 = 0 /\ (year % 100 # 0 \/ year % 400 = 0)
YearLength(year) == IF IsLeap(year) THEN 366 ELSE 365
DaysBefore(year) == \* since 1 January of year 1, a Monday
  LET y == year - 1 IN 365 * y + (y \div 4) - (y \div 100) + (y \div 400)
MonthStarts(year) ==
  LET l == IF IsLeap(year) THEN 1 ELSE 0
  IN <<0, 31, 59 + l, 90 + l, 120 + l, 151 + l, 181 + l, 212 + l, 243 + l, 273 + l, 304 + l, 334 + l>>
WeekdayOf(year, yday) == (DaysBefore(year) + yday + 1) % 7
TmOf(year, yday, sec, gmtoff) ==
  LET month == CHOOSE m \in 1..12 :
                 /\ MonthStarts(year)[m] <= yday
                 /\ m = 12 \/ yday < MonthStarts(year)[m + 1]
  IN [year |-> year, yday |-> yday, wday |-> WeekdayOf(year, yday), mon |-> month - 1,
      mday |-> yday - MonthStarts(year)[month] + 1, hour |-> sec \div 3600,
      min |-> (sec \div 60) % 60, sec |-> sec % 60, gmtoff |-> gmtoff]
Gmtime(t) == \* of a second less than a year from 1 January 1970
  LET day == t \div 86400
  IN IF day < 0 THEN TmOf(1969, 365 + day, t % 86400, 0) ELSE TmOf(1970, day, t % 86400, 0)

-----------------------------------------------------------------------------
(* Time points of the system clock, and of local time (which the formatter *)
(* treats alike but for the seconds before the epoch).                     *)

ThrownText == <<"throw">>

FormatTimePoint(point, spec) ==
  LET ToTimeT(count) == SafeDurationCast(count, point.num, point.den, MinSigned, MaxSigned)
      whole == ToTimeT(point.count)
      left == IF point.num = 1 THEN Remainder(point.count, point.den) ELSE 0
      Written(tm, count) ==
        DoFormat([tm |-> tm, classic |-> TRUE,
                  subsecs |-> IF point.num = 1 /\ point.den = 1 THEN <<>>
                              ELSE [count |-> count, num |-> point.num, den |-> point.den]], spec)
      adjusted == left < 0 /\ ~point.local
      Before(tm) == IF tm.sec # 0 THEN [tm EXCEPT !.sec = @ - 1]
                    ELSE Gmtime(ToTimeT(point.count - point.den).value)
  IN IF ~whole.ok THEN ThrownText
     ELSE Written(IF adjusted THEN Before(Gmtime(whole.value)) ELSE Gmtime(whole.value),
                  IF adjusted THEN left + point.den ELSE left)

-----------------------------------------------------------------------------
(* chrono_formatter.  A duration is [rep, count, num, den]; rep is "int",  *)
(* "float" (in quarters) or a special value, "nan" or "inf".               *)

IsSpecial(d) == d.rep \in {"nan", "inf"}

Magnitude(d) == \* val: unsigned, so that the smallest count has one
  IF d.rep # "int" THEN (IF d.count < 0 THEN -d.count ELSE d.count)
  ELSE LET val == d.count % 2^RepBits
       IN IF d.count < 0 THEN (0 - val) % 2^RepBits ELSE val

SecondsIn(d) == \* s, in quarters for a floating-point count
  IF d.rep = "int" THEN SafeDurationCast(Magnitude(d), d.num, d.den, 0, MaxUnsigned)
  ELSE Returned(Quotient(Magnitude(d) * d.num, d.den))

InUnits(d, unit) == SecondsIn(d).value \div (IF d.rep = "int" THEN unit ELSE 4 * unit)
DurationHour(d) == InUnits(d, 3600) % 24
DurationMinute(d) == InUnits(d, 60) % 60
DurationSecond(d) == InUnits(d, 1) % 60
DurationHour12(d) == \* a fraction of an hour is more than 0
  LET hour == InUnits(d, 3600) % 12
      whole == d.rep = "int" \/ SecondsIn(d).value % (4 * 3600) = 0
  IN IF hour = 0 /\ whole THEN 12 ELSE hour
AtTime(hour, min, sec) == TmOf(1970, 0, 3600 * hour + 60 * min + sec, 0) \* time(), or one field set

(* {:.{}f} of a number of quarters: correctly rounded, ties to even; the  *)
(* digits behind the second are zeros.                                     *)
Fixed(quarters, precision) ==
  LET rounded == IF precision < 2 THEN precision ELSE 2
      scaled == quarters * 10^rounded
      up == scaled % 4 = 3 \/ (scaled % 4 = 2 /\ (scaled \div 4) % 2 = 1)
      n == (scaled \div 4) + (IF up THEN 1 ELSE 0)
      behind == Digits[n % 10^rounded]
  IN Digits[n \div 10^rounded] \o
     (IF precision = 0 THEN <<>>
      ELSE <<".">> \o Zeros(rounded - Len(behind)) \o behind \o Zeros(precision - rounded))
Shortest(quarters) == \* type general, no precision
  LET behind == CASE quarters % 4 = 0 -> <<>> [] quarters % 4 = 1 -> <<".", "2", "5">>
                  [] quarters % 4 = 2 -> <<".", "5">> [] OTHER -> <<".", "7", "5">>
  IN Digits[quarters \div 4] \o behind

WriteFloatingSeconds(d, precision) ==
  LET fraction == CountFractionalDigits(d.num, d.den)
      digits == CASE precision >= 0 -> precision
                  [] fraction < 6 /\ Magnitude(d) % 4 # 0 -> 6
                  [] OTHER -> fraction
  IN Fixed(SecondsIn(d).value % 240, digits)

UnitOf(num, den) == \* get_units, or [num/den]s
  LET named == {<<<<1, 1000>>, "ms">>, <<<<1, 100>>, "cs">>, <<<<1, 10>>, "ds">>, <<<<1, 1>>, "s">>,
                <<<<60, 1>>, "min">>, <<<<3600, 1>>, "h">>, <<<<86400, 1>>, "d">>}
      units == {u \in named : u[1] = <<num, den>>}
  IN IF units # {} THEN <<(CHOOSE u \in units : TRUE)[2]>>
     ELSE <<"[">> \o Digits[num] \o (IF den = 1 THEN <<>> ELSE <<"/">> \o Digits[den]) \o <<"]", "s">>

DurationValue(d, precision) == \* format_duration_value of val
  CASE d.rep = "int" -> Digits[Magnitude(d)]
    [] precision >= 0 -> Fixed(Magnitude(d), precision)
    [] OTHER -> Shortest(Magnitude(d))

\* One call: acc is the text so far, the sign still to be written, and ok.
OnDuration(d, precision, classic, acc, call) ==
  LET Put(a, text) == [a EXCEPT !.text = @ \o text]
      Signed(a) == IF a.negative THEN [Put(a, <<"-">>) EXCEPT !.negative = FALSE] ELSE a
      WriteNumber(a, n, width, pad) ==
        IF ~ToNonnegativeInt(n, MaxInt).ok THEN [Signed(a) EXCEPT !.ok = FALSE]
        ELSE Put(Signed(a), PadWith(pad, width - Len(Digits[n])) \o Digits[n])
      \* The time of a call, by its fields; %r and %p have all three.
      In(calls, n) == IF call.on \in calls \cup {"12_hour_time", "am_pm"} THEN n ELSE 0
      hour == IF call.on = "12_hour" THEN DurationHour12(d) ELSE In({"24_hour"}, DurationHour(d))
      minute == In({"minute"}, DurationMinute(d))
      second == In({"second"}, DurationSecond(d))
      byTm == Put(acc, OnTm([tm |-> AtTime(hour, minute, second), classic |-> classic,
                             subsecs |-> <<>>], call))
      HourAndMinute(a) ==
        WriteNumber(Put(WriteNumber(a, DurationHour(d), 2, Unspecified), <<":">>),
                    DurationMinute(d), 2, Unspecified)
      Floating(a, text, pad) ==
        Put(a, (IF a.negative THEN <<"-">> ELSE <<>>)
                 \o (IF Len(text) < 2 \/ text[2] = "." THEN PadWith(pad, 1) ELSE <<>>) \o text)
      SecondOf(a, pad) ==
        IF d.rep = "int"
        THEN Put(WriteNumber(a, DurationSecond(d), 2, pad),
                 WriteFractionalSeconds(Magnitude(d), d.num, d.den, precision))
        ELSE Floating(a, WriteFloatingSeconds(d, precision), pad)
      fields == {"24_hour", "12_hour", "minute", "second"}
      special == <<d.rep>>
  IN CASE ~acc.ok -> acc
       [] call.on = "text" -> Put(acc, call.text)
       [] call.on = "duration_unit" -> Put(acc, UnitOf(d.num, d.den))
       [] IsSpecial(d) /\ call.on = "24_hour_time" -> Put(acc, special \o <<":">> \o special)
       [] IsSpecial(d) /\ call.on = "iso_time" ->
            Put(acc, special \o <<":">> \o special \o <<":">> \o special)
       [] IsSpecial(d) /\ call.on \in DurationCalls
                       /\ call.on \notin {"text", "duration_unit", "24_hour_time", "iso_time"} ->
            Put(acc, special)
       [] ~IsSpecial(d) /\ call.on = "day_of_year" ->
            WriteNumber(acc, InUnits(d, 86400), 0, Unspecified)
       [] ~IsSpecial(d) /\ \/ call.on \in {"12_hour_time", "am_pm"}
                           \/ call.on \in fields /\ call.ns = "alternative" -> byTm
       [] ~IsSpecial(d) /\ call.on = "second" /\ call.ns = "standard" -> SecondOf(acc, call.pad)
       [] ~IsSpecial(d) /\ call.on \in fields \ {"second"} /\ call.ns = "standard" ->
            WriteNumber(acc, hour + minute, 2, call.pad)
       [] ~IsSpecial(d) /\ call.on = "24_hour_time" -> HourAndMinute(acc)
       [] ~IsSpecial(d) /\ call.on = "iso_time" ->
            SecondOf(Put(HourAndMinute(acc), <<":">>), Unspecified)
       [] ~IsSpecial(d) /\ call.on = "duration_value" ->
            Put(Signed(acc), DurationValue(d, precision))
       [] OTHER -> acc \* the empty handlers of dates

FormatDuration(d, spec, precision, classic) ==
  LET start == [text |-> <<>>, negative |-> d.count < 0, ok |-> SecondsIn(d).ok]
      Step(acc, call) == OnDuration(d, precision, classic, acc, call)
      Result(done) == IF done.ok THEN done.text ELSE ThrownText
  IN IF spec = <<>> \* value and unit of d itself
     THEN (IF d.count < 0 THEN <<"-">> ELSE <<>>)
            \o (IF IsSpecial(d) THEN <<d.rep>> ELSE DurationValue(d, precision)) \o UnitOf(d.num, d.den)
     ELSE Result(FoldLeft(Step, start, ParseChronoFormat(spec)))

-----------------------------------------------------------------------------
(* The machine chooses what is formatted, or writes a format.              *)

ChronoInit == chrono = Nothing

FormatDate ==
  \E year \in Years, yday \in YearDays, time \in TimesOfDay, classic \in BOOLEAN :
    /\ chrono = Nothing
    /\ yday < YearLength(year)
    /\ chrono' = [what |-> "tm", tm |-> TmOf(year, yday, time.sec, time.gmtoff), classic |-> classic]

FormatPoint ==
  \E count \in Ticks, period \in Periods, local \in BOOLEAN :
    /\ chrono = Nothing
    /\ chrono' = [what |-> "time point", count |-> count, num |-> period[1], den |-> period[2],
                  local |-> local]

FormatAmount ==
  \E count \in Ticks, period \in Periods, rep \in {"int", "float", "nan", "inf"},
     precision \in Precisions :
    /\ chrono = Nothing
    /\ rep = "int" => count \in MinSigned..MaxSigned
    /\ rep # "int" => period[2] = 1 /\ period[1] <= 60 /\ count \in -9999..9999
    /\ chrono' = [what |-> "duration", precision |-> precision,
                  d |-> [rep |-> rep, count |-> count, num |-> period[1], den |-> period[2]]]

WriteSpec ==
  \E char \in SpecChars, precision \in Precisions :
    LET spec == IF chrono = Nothing THEN <<>> ELSE chrono.spec
    IN /\ chrono = Nothing \/ (chrono.what = "spec" /\ chrono.precision = precision)
       /\ Len(spec) < MaxSpec
       /\ chrono' = [what |-> "spec", spec |-> Append(spec, char), precision |-> precision]

ChronoNext == FormatDate \/ FormatPoint \/ FormatAmount \/ WriteSpec

-----------------------------------------------------------------------------

P(c) == <<"%", c>>
Joined(specs, between) ==
  FlattenSeq([i \in 1..(2 * Len(specs) - 1) |->
                IF i % 2 = 1 THEN P(specs[(i + 1) \div 2]) ELSE <<between>>])

\* The year and the number of the week with the Thursday nearest to a day.
WeekByThursday(tm) ==
  LET thursday == tm.yday + 4 - (IF tm.wday = 0 THEN 7 ELSE tm.wday)
      year == CASE thursday < 0 -> tm.year - 1 [] thursday >= YearLength(tm.year) -> tm.year + 1
                [] OTHER -> tm.year
      yday == CASE thursday < 0 -> YearLength(year) + thursday
                [] thursday >= YearLength(tm.year) -> thursday - YearLength(tm.year)
                [] OTHER -> thursday
  IN [year |-> year, week |-> (yday \div 7) + 1]
DaysSoFar(tm, wday) == Cardinality({y \in 0..tm.yday : WeekdayOf(tm.year, y) = wday})

\* A date and a time are the same in every notation chrono.h offers for it,
\* although each is computed on its own (tables, division by multiplying,
\* cut years): %C%y is the year %Y, in at least four characters; %F, %D, %T, %R, %r and
\* %c are their parts; %U and %W count the Sundays and Mondays of the year;
\* %G and %V are the year and week of the nearest Thursday; and a point in
\* time before 1970 with a fraction of a second is its whole second, rounded
\* down, and the fraction.  Not so, and left out: the weeks of years before 0,
\* where iso_year_weeks divides towards zero (chrono.h:1264), and local_time
\* before the epoch, whose negative fraction is written as unsigned (:2197).
CalendarReadsBack ==
  /\ chrono.what = "tm" =>
       LET w == [tm |-> chrono.tm, classic |-> chrono.classic, subsecs |-> <<>>]
           tm == chrono.tm
           same ==
             {<<P("C") \o P("y"), P("Y")>>, <<P("F"), Joined(<<"Y", "m", "d">>, "-")>>,
              <<P("D"), Joined(<<"m", "d", "y">>, "/")>>, <<P("T"), Joined(<<"R", "S">>, ":")>>}
             \cup (IF ~chrono.classic THEN {}
                   ELSE {<<P("r"), Joined(<<"I", "M", "S">>, ":") \o <<" ">> \o P("p")>>,
                         <<P("c"), Joined(<<"a", "b", "e", "T", "Y">>, " ")>>})
           WeekAs(week) == <<P("G") \o P("V"), WriteYear(week.year) \o Write2(week.week)>>
           texts ==
             {<<P("U") \o P("W"), Write2(DaysSoFar(tm, 0)) \o Write2(DaysSoFar(tm, 1))>>}
             \cup (IF chrono.classic
                   THEN {<<P("p"), <<IF tm.hour = Hour12(tm.hour) % 12 THEN "A" ELSE "P", "M">>>>}
                   ELSE {})
             \cup (IF tm.year >= 0 THEN {WeekAs(WeekByThursday(tm))} ELSE {})
       IN /\ \A pair \in same : DoFormat(w, pair[1]) = DoFormat(w, pair[2])
          /\ \A pair \in texts : DoFormat(w, pair[1]) = pair[2]
          /\ Len(DoFormat(w, P("Y"))) >= 4
  /\ chrono.what = "time point" =>
       LET second == (chrono.count * chrono.num) \div chrono.den
           fraction == (chrono.count * chrono.num) % chrono.den
           digits == CountFractionalDigits(chrono.num, chrono.den)
           representable ==
            \/ chrono.num = 1
            \/ chrono.count \in Quotient(MinSigned, chrono.num)..Quotient(MaxSigned, chrono.num)
       IN \/ representable /\ chrono.local /\ chrono.count < 0 /\ fraction # 0
          \/ FormatTimePoint(chrono, <<>>) =
               IF ~representable THEN ThrownText
               ELSE DoFormat([tm |-> Gmtime(second), classic |-> TRUE, subsecs |-> <<>>], <<>>)
                    \o (IF digits = 0 THEN <<>> ELSE <<".">> \o
                        [i \in 1..digits |-> Digit(((fraction * 10^i) \div chrono.den) % 10)])

\* The days, hours, minutes and seconds written of a duration are those of its
\* exact value, the smallest count of its type included, with the sign in
\* front and the fraction cut after the digits asked for; it is an error
\* exactly when the seconds do not fit the type or the days not an int.
\* Left out for a floating-point duration: its seconds, which are rounded, to
\* 60 at most, with a sign at every %S (chrono.h:1978); and %I in the hour after midnight
\* and noon, which is 00 for every time but the full hour (chrono.h:1857).
DurationsReadBack ==
  chrono.what = "duration" /\ ~IsSpecial(chrono.d) =>
    LET d == chrono.d
        size == IF d.count < 0 THEN -d.count ELSE d.count
        quarters == IF d.rep = "int" THEN 1 ELSE 4
        fits == d.num = 1 \/ d.rep # "int" \/ size <= MaxUnsigned \div d.num
        total == (size * d.num) \div (d.den * quarters)
        left == (size * d.num) % d.den
        digits == IF chrono.precision < 0 THEN CountFractionalDigits(d.num, d.den) ELSE chrono.precision
        exact == CountFractionalDigits(d.num, d.den)
        fraction == IF digits = 0 THEN <<>>
                    ELSE <<".">> \o [i \in 1..digits |-> IF i > exact THEN "0"
                                       ELSE Digit(((left * 10^i) \div d.den) % 10)]
        sign == IF d.count < 0 THEN <<"-">> ELSE <<>>
        daytime == sign \o Digits[total \div 86400] \o <<" ">> \o Write2((total \div 3600) % 24)
                     \o <<":">> \o Write2((total \div 60) % 60)
        texts ==
          IF ~fits \/ total \div 86400 > MaxInt THEN {<<Joined(<<"j", "T">>, " "), ThrownText>>}
          ELSE {<<Joined(<<"j", "R">>, " "), daytime>>,
                <<P("Q") \o P("q"), FormatDuration(d, <<>>, chrono.precision, TRUE)>>}
               \cup (IF d.rep # "int" THEN {}
                     ELSE {<<Joined(<<"j", "T">>, " "),
                             daytime \o <<":">> \o Write2(total % 60) \o fraction>>})
               \cup (IF d.rep = "float" /\ (total \div 3600) % 12 = 0 THEN {}
                     ELSE {<<P("I"), sign \o Write2(Hour12((total \div 3600) % 24))>>})
    IN \A pair \in texts : FormatDuration(d, pair[1], chrono.precision, TRUE) = pair[2]

\* No conversion is lost: whatever format the checker of a type accepts, for
\* a date or a duration, every conversion in it writes something (the formatter of durations
\* has an empty handler for each conversion of a date), and the literal
\* characters come out as they went in.
ConversionsWrite ==
  chrono.what = "spec" =>
    LET calls == ParseChronoFormat(chrono.spec)
        w == [tm |-> TmOf(2000, 0, 0, 0), classic |-> TRUE, subsecs |-> <<>>]
        d == [rep |-> "int", count |-> -1, num |-> 1, den |-> 1]
        start == [text |-> <<>>, negative |-> FALSE, ok |-> TRUE]
    IN \A i \in 1..Len(calls) :
         /\ AcceptedTm(calls) => OnTm(w, calls[i]) # <<>>
         /\ AcceptedDuration(calls, chrono.precision) =>
              OnDuration(d, chrono.precision, TRUE, start, calls[i]).text # <<>>
=============================================================================
