------------------------------ MODULE FmtBigint ------------------------------
(***************************************************************************)
(* The class bigint of format.h: a number is a sequence of bigits, the     *)
(* least significant first, times a power of the base.  One bigint is      *)
(* worked on as format_dragon does with its numerator, a second one is its *)
(* divisor; the numbers they stand for are kept beside them.               *)
(***************************************************************************)
EXTENDS Integers, Sequences, SequencesExt

CONSTANTS
  BigitBits,    \* the bits of a bigit
  Numbers,      \* the numbers assigned
  Multipliers,  \* the factors of *=
  Shifts,       \* the arguments of <<=
  Powers,       \* the exponents of assign_pow10
  MaxValue      \* bound on the number

VARIABLES
  big,       \* the bigint worked on
  divisor,   \* the other one
  value,     \* the number big stands for
  division   \* the last division: dividend, quotient

bigVars == <<big, divisor, value, division>>

Base == 2^BigitBits
NoDivision == [of |-> 0, quotient |-> 0]

ValueOf(n) == FoldLeft(LAMBDA v, b : Base * v + b, 0, Reverse(n.bigits)) * Base^n.exp

-----------------------------------------------------------------------------
NumBigits(n) == Len(n.bigits) + n.exp

RemoveLeadingZeros(bigits) ==
  LET top == CHOOSE k \in 1..Len(bigits) : (k = 1 \/ bigits[k] # 0) /\ \A j \in k + 1..Len(bigits) : bigits[j] = 0
  IN SubSeq(bigits, 1, top)

RECURSIVE BigitsOf(_)
BigitsOf(n) == IF n < Base THEN <<n>> ELSE <<n % Base>> \o BigitsOf(n \div Base)
Assign(n) == [bigits |-> BigitsOf(n), exp |-> 0]

\* Carries a state through the bigits: Step(carry, bigit) is the new bigit and carry.
Through(bigits, Step(_, _)) ==
  FoldLeft(LAMBDA a, b : LET s == Step(a.carry, b) IN [done |-> Append(a.done, s[1]), carry |-> s[2]],
           [done |-> <<>>, carry |-> 0], bigits)

\* A factor of the width of a bigit.
MultiplySmall(n, factor) ==
  LET r == Through(n.bigits, LAMBDA carry, b :
             LET p == b * factor + carry IN <<p % Base, p \div Base>>)
  IN [n EXCEPT !.bigits = IF r.carry # 0 THEN Append(r.done, r.carry) ELSE r.done]

\* A factor of two bigits: the carry has two bigits as well.
MultiplyWide(n, factor) ==
  LET lower == factor % Base
      upper == factor \div Base
      r == Through(n.bigits, LAMBDA carry, b :
             LET p == lower * b + (carry % Base)
             IN <<p % Base, upper * b + p \div Base + carry \div Base>>)
  IN [n EXCEPT !.bigits = IF r.carry # 0 THEN r.done \o BigitsOf(r.carry) ELSE r.done]

Multiply(n, factor) == IF factor < Base THEN MultiplySmall(n, factor) ELSE MultiplyWide(n, factor)

ShiftLeft(n, shift) ==
  LET s == shift % BigitBits
      r == Through(n.bigits, LAMBDA carry, b :
             <<((b * 2^s) % Base) + carry, b \div 2^(BigitBits - s)>>)
      moved == [n EXCEPT !.exp = @ + shift \div BigitBits]
  IN IF s = 0 THEN moved
     ELSE [moved EXCEPT !.bigits = IF r.carry # 0 THEN Append(r.done, r.carry) ELSE r.done]

Square(n) ==
  LET size == Len(n.bigits)
      cross(k) == {i \in 1..size : k + 1 - i \in 1..size} \* the terms of the bigit k
      sum[k \in 0..2 * size] ==
        IF k = 0 THEN 0
        ELSE sum[k - 1] \div Base
             + FoldLeft(LAMBDA t, i : t + n.bigits[i] * n.bigits[k + 1 - i], 0, SetToSeq(cross(k)))
  IN [bigits |-> RemoveLeadingZeros([k \in 1..2 * size |-> sum[k] % Base]), exp |-> 2 * n.exp]

\* pow(5, exp) by squaring, from the second highest bit of exp down; then the shift.
AssignPow10(exp) ==
  LET top == CHOOSE k \in 0..10 : 2^k <= exp /\ exp < 2^(k + 1)
      power[bit \in 0..top] == \* after the bits from top - 1 down to bit
        IF bit = top THEN Assign(5)
        ELSE LET squared == Square(power[bit + 1])
             IN IF (exp \div 2^bit) % 2 = 1 THEN Multiply(squared, 5) ELSE squared
  IN IF exp = 0 THEN Assign(1) ELSE ShiftLeft(power[0], exp)

-----------------------------------------------------------------------------
Sign(n) == IF n > 0 THEN 1 ELSE IF n < 0 THEN -1 ELSE 0

Compare(lhs, rhs) ==
  LET l == Len(lhs.bigits)
      r == Len(rhs.bigits)
      common == IF l < r THEN l ELSE r
      differ == {k \in 0..common - 1 : lhs.bigits[l - k] # rhs.bigits[r - k]}
      first == CHOOSE k \in differ : \A j \in differ : k <= j
  IN CASE NumBigits(lhs) # NumBigits(rhs) -> Sign(NumBigits(lhs) - NumBigits(rhs))
       [] NumBigits(lhs) = NumBigits(rhs) /\ differ # {} -> Sign(lhs.bigits[l - first] - rhs.bigits[r - first])
       [] OTHER -> Sign(l - r)

BigitAt(n, i) == IF i >= n.exp /\ i < NumBigits(n) THEN n.bigits[i - n.exp + 1] ELSE 0

Lower(a, b) == IF a < b THEN a ELSE b
Higher(a, b) == IF a > b THEN a ELSE b

AddCompare(lhs1, lhs2, rhs) == \* compare(lhs1 + lhs2, rhs)
  LET longest == Higher(NumBigits(lhs1), NumBigits(lhs2))
      minExp == Lower(Lower(lhs1.exp, lhs2.exp), rhs.exp)
      from[i \in minExp - 1..NumBigits(rhs) - 1, borrow \in 0..Base] ==
        IF i < minExp THEN IF borrow # 0 THEN -1 ELSE 0
        ELSE LET sum == BigitAt(lhs1, i) + BigitAt(lhs2, i)
                 have == BigitAt(rhs, i) + borrow
             IN CASE sum > have -> 1
                  [] have - sum > 1 -> -1
                  [] OTHER -> from[i - 1, (have - sum) * Base]
  IN CASE longest + 1 < NumBigits(rhs) -> -1
       [] longest > NumBigits(rhs) -> 1
       [] OTHER -> from[NumBigits(rhs) - 1, 0]

AlignTo(n, other) ==
  LET zeros == n.exp - other.exp
  IN IF zeros <= 0 THEN n
     ELSE [bigits |-> [k \in 1..zeros |-> 0] \o n.bigits, exp |-> other.exp]

\* n - other for n not less than other, other's exponent not below n's; the
\* borrow is the top bit of the difference in two bigits.
SubtractAligned(n, other) ==
  LET offset == other.exp - n.exp
      taken(k) == IF k - offset \in 1..Len(other.bigits) THEN other.bigits[k - offset] ELSE 0
      diff[k \in 0..Len(n.bigits)] ==
        IF k = 0 THEN [done |-> <<>>, borrow |-> 0]
        ELSE LET d == (n.bigits[k] - taken(k) - diff[k - 1].borrow) % (Base * Base)
             IN [done |-> Append(diff[k - 1].done, d % Base), borrow |-> d \div ((Base * Base) \div 2)]
  IN [n EXCEPT !.bigits = RemoveLeadingZeros(diff[Len(n.bigits)].done)]

RECURSIVE Subtract(_, _, _)
Subtract(n, by, quotient) ==
  IF Compare(n, by) >= 0 THEN Subtract(SubtractAligned(n, by), by, quotient + 1)
  ELSE [rest |-> n, quotient |-> quotient]

\* Fault: the numbers are not aligned.
DivmodLate(n, by) ==
  IF Compare(n, by) < 0 THEN [rest |-> n, quotient |-> 0] ELSE Subtract(n, by, 0)

DivmodAssign(n, by) ==
  IF Compare(n, by) < 0 THEN [rest |-> n, quotient |-> 0] ELSE Subtract(AlignTo(n, by), by, 0)

-----------------------------------------------------------------------------
BigInit ==
  /\ \E exp \in Powers, shift \in Shifts : divisor = ShiftLeft(AssignPow10(exp), shift)
  /\ big = Assign(1) /\ value = 1 /\ division = NoDivision

AssignNumber(n) ==
  /\ n <= MaxValue
  /\ big' = Assign(n) /\ value' = n /\ division' = NoDivision
  /\ UNCHANGED divisor

MultiplyBy(factor) ==
  /\ value > 0 /\ value * factor <= MaxValue
  /\ big' = Multiply(big, factor) /\ value' = value * factor /\ division' = NoDivision
  /\ UNCHANGED divisor

ShiftBy(shift) ==
  /\ value > 0 /\ value * 2^shift <= MaxValue
  /\ big' = ShiftLeft(big, shift) /\ value' = value * 2^shift /\ division' = NoDivision
  /\ UNCHANGED divisor

RaiseTen(exp) ==
  /\ 10^exp <= MaxValue
  /\ big' = AssignPow10(exp) /\ value' = 10^exp /\ division' = NoDivision
  /\ UNCHANGED divisor

Divide == \* format_dragon divides for one digit
  LET d == DivmodAssign(big, divisor)
  IN /\ value > 0 /\ value < 10 * ValueOf(divisor)
     /\ big' = d.rest
     /\ division' = [of |-> value, quotient |-> d.quotient]
     /\ value' = value - d.quotient * ValueOf(divisor)
     /\ UNCHANGED divisor

BigNext ==
  \/ \E n \in Numbers : AssignNumber(n)
  \/ \E factor \in Multipliers : MultiplyBy(factor)
  \/ \E shift \in Shifts : ShiftBy(shift)
  \/ \E exp \in Powers : RaiseTen(exp)
  \/ Divide

-----------------------------------------------------------------------------
(***************************************************************************)
(* Whatever sequence of operations made them, bigints are the integers     *)
(* they stand for: no borrow or carry is lost between bigits, comparisons  *)
(* and sums agree with those of the integers, also for numbers of          *)
(* different exponents, a division leaves less than the divisor.           *)
(* Of two equal numbers compare takes that with the smaller exponent as    *)
(* larger, so that a number is not divided by an equal one with a smaller  *)
(* exponent; and a zero left by a division may keep an exponent and then   *)
(* counts as large, as compare and add_compare go by the number of bigits  *)
(* first (format.h 2884 and 2907).                                         *)
(***************************************************************************)
BigintsAreIntegers ==
  LET bare == big.bigits = <<0>> /\ big.exp > 0
      by == ValueOf(divisor)
  IN /\ ValueOf(big) = value
     /\ \A i \in DOMAIN big.bigits : big.bigits[i] \in 0..Base - 1
     /\ value > 0 => big.bigits[Len(big.bigits)] # 0
     /\ ~bare => /\ Compare(big, divisor) =
                      IF value = by THEN Sign(divisor.exp - big.exp) ELSE Sign(value - by)
                 /\ Compare(divisor, big) = -Compare(big, divisor)
                 /\ AddCompare(big, big, divisor) = Sign(2 * value - by)
                 /\ AddCompare(big, divisor, Assign(7)) = Sign(value + by - 7)
                 /\ AddCompare(Assign(1), big, divisor) = Sign(1 + value - by)
     /\ ValueOf(Square(big)) = value * value
     /\ division # NoDivision =>
          \/ division.quotient = division.of \div by
          \/ division.quotient = 0 /\ division.of = by /\ divisor.exp < big.exp

=============================================================================
