------------------------------- MODULE Numbers --------------------------------
(***************************************************************************)
(* The number primitives of src/primitives.c and src/number.c on the        *)
(* target's 32-bit words.  An exact number is an imm_int of one word or a   *)
(* rational whose numerator and denominator share a word, one half of it    *)
(* each (PARTS = 2^16 in the code), with its sign in the type; a result     *)
(* that fits neither becomes a real.  The value of a real is not modelled:  *)
(* what depends on it is a choice.  The words of the intermediate results   *)
(* (imm_int_t, s64_t) keep their relative widths.                           *)
(*                                                                         *)
(* A primitive pops its operands x and y and pushes r; the program then     *)
(* uses r as an operand of the next one.                                    *)
(***************************************************************************)
EXTENDS Integers

CONSTANTS PARTS,      \* values of a numerator or a denominator, a power of two
          Literals    \* the number objects of the program's code

VARIABLES x, y,       \* the operands, on top of the value stack
          r,          \* what the primitive left there
          op          \* the primitive, "none" before the call

vars == <<x, y, r, op>>

Word == PARTS * PARTS                  \* values of an imm_int_t
PartMax == PARTS - 1                   \* MAX_REAL_NUMERATOR, MAX_REAL_DENOMINATOR
MinInt == -(Word \div 2)               \* MIN_INT32
MaxInt == Word \div 2 - 1
IntRange == MinInt .. MaxInt

Fixnum(i) == [type |-> "imm_int", num |-> i, den |-> 1]
Rational(sign, n, d) ==
  [type |-> IF sign > 0 THEN "rational_pos" ELSE "rational_neg", num |-> n, den |-> d]
RealNum == [type |-> "real", num |-> 0, den |-> 1]
Bool(b) == [type |-> "boolean", num |-> IF b THEN 1 ELSE 0, den |-> 1]
Nothing == [type |-> "none", num |-> 0, den |-> 1]

\* The machine stopped: a PANIC, or the processor's trap.
Stop(why) == [type |-> why, num |-> 0, den |-> 0]

Fractions == {"rational_pos", "rational_neg"}
IsInt(v) == v.type = "imm_int"
IsFraction(v) == v.type \in Fractions
IsReal(v) == v.type = "real"
IsExact(v) == IsInt(v) \/ IsFraction(v)
IsNumber(v) == IsExact(v) \/ IsReal(v)

\* xn, xd and x_sign: the magnitude and the sign the arithmetic starts from.
Abs(i) == IF i < 0 THEN -i ELSE i
Signum(v) == IF IsInt(v) THEN IF v.num > 0 THEN 1 ELSE -1
             ELSE IF v.type = "rational_pos" THEN 1 ELSE -1
Signed(v) == Signum(v) * Abs(v.num)

ExactNumbers ==
  {Fixnum(i) : i \in IntRange}
    \cup {Rational(s, n, d) : s \in {1, -1}, n \in 0 .. PartMax, d \in 0 .. PartMax}

\* A power of two is a number whose divisors are even.  No literal is a fraction
\* over zero.
ASSUME NumbersAssumption ==
  /\ PARTS \in Nat /\ PARTS > 2
  /\ \A k \in 2 .. Word : Word % k = 0 => k % 2 = 0
  /\ \A v \in Literals : (v \in ExactNumbers /\ v.den > 0) \/ v = RealNum

----------------------------------------------------------------------------
(* lib.h *)

\* The conversion to imm_int_t, and C's / and %.
Wrap(i) == ((i - MinInt) % Word) + MinInt
CDiv(a, b) == IF (a < 0) = (b < 0) THEN Abs(a) \div Abs(b) ELSE -(Abs(a) \div Abs(b))
CRem(a, b) == IF a < 0 THEN -(Abs(a) % Abs(b)) ELSE a % Abs(b)

\* while ((uu %= vv) && (vv %= uu)); return uu + vv, of a pair <<uu, vv>>
\* with vv # 0.
Euclid[p \in Int \X (Int \ {0})] ==
  LET uu == CRem(p[1], p[2])
      vv == CRem(p[2], uu)
  IN  IF uu = 0 THEN p[2] ELSE IF vv = 0 THEN uu ELSE Euclid[<<uu, vv>>]

\* For vv = 0 the first % is undefined: it traps (0 here) or, where the
\* processor divides by zero to zero, leaves uu.
CommonDivisors(u, v) == IF v = 0 THEN {0, u} ELSE {Euclid[<<u, v>>]}

\* gcd takes its arguments as imm_int_t, gcd64 as they are.
gcd(u, v) == CommonDivisors(Wrap(Abs(Wrap(u))), Wrap(Abs(Wrap(v))))
\* Variant: a gcd64 whose arguments are truncated like gcd's.
gcd64Truncated(u, v) == CommonDivisors(Abs(Wrap(u)), Abs(Wrap(v)))
gcd64(u, v) == CommonDivisors(Abs(u), Abs(v))

----------------------------------------------------------------------------
(* type_cast.c *)

only_16_bit_signed(a) == a \in -(PARTS) .. PartMax

\* Variant: a quotient that stays a rational when its denominator is 1.
PackAlways(sign, n, d) ==
  Rational(sign, IF d < 0 THEN PartMax ELSE n % PARTS, d % PARTS)

\* (n << 16) | d, back as an imm_int when the denominator part is 1.
Pack(sign, n, d) ==
  LET num == IF d < 0 THEN PartMax ELSE n % PARTS
      den == d % PARTS
  IN  IF den = 1 THEN Fixnum(sign * num) ELSE Rational(sign, num, den)

\* Variant: the type follows the sign, the numerator keeps it too.
CastKeepsSign(v) ==
  IF IsFraction(v) THEN v
  ELSE IF Abs(v.num) > PartMax THEN Stop("out_of_range")
  ELSE Rational(v.num, v.num % PARTS, 1)

cast_imm_int_to_rational(v) ==
  IF IsFraction(v) THEN v
  ELSE IF Abs(v.num) > PartMax THEN Stop("out_of_range")
  ELSE Rational(v.num, Abs(v.num), 1)

----------------------------------------------------------------------------
(* primitives.c *)

\* An exact result in lowest terms, or a real when a part is out of range.
Simplify(sign, n, d, g) ==
  IF g = 0 THEN Stop("trap")
  ELSE IF only_16_bit_signed(CDiv(n, g)) /\ only_16_bit_signed(CDiv(d, g))
  THEN Pack(sign, CDiv(n, g), CDiv(d, g))
  ELSE RealNum

\* Variant: no test for overflow.
IntUnchecked(i) == Fixnum(i)

IntOrReal(i) == IF i \in IntRange THEN Fixnum(i) ELSE RealNum

\* Variant: the sum of two magnitudes.
AddMagnitudes(u, v) ==
  IF IsReal(u) \/ IsReal(v) THEN {RealNum}
  ELSE IF IsInt(u) /\ IsInt(v) THEN {IntOrReal(u.num + v.num)}
  ELSE LET d == u.den * v.den
           n == Abs(u.num) * v.den + Abs(v.num) * u.den
       IN  {Simplify(Signum(u), n, d, g) : g \in gcd(d, n)}

_int_add(u, v) ==
  IF IsReal(u) \/ IsReal(v) THEN {RealNum}
  ELSE IF IsInt(u) /\ IsInt(v) THEN {IntOrReal(u.num + v.num)}
  ELSE LET d == u.den * v.den
           n == Signed(u) * v.den + Signed(v) * u.den
       IN  {Simplify(IF n > 0 THEN 1 ELSE -1, Abs(n), d, g) : g \in gcd(d, Abs(n))}

\* The opposite of MIN_INT32 is a real; a rational only changes its type.
Opposite(v) == IF IsReal(v) \/ v.num = MinInt THEN RealNum
               ELSE IF IsInt(v) THEN Fixnum(-v.num)
               ELSE Rational(-Signum(v), v.num, v.den)

_int_sub(u, v) == _int_add(u, Opposite(v))

_int_mul(u, v) ==
  IF IsReal(u) \/ IsReal(v) THEN {RealNum}
  ELSE IF IsInt(u) /\ IsInt(v) THEN {IntOrReal(u.num * v.num)}
  ELSE LET d == u.den * v.den
           n == Abs(u.num) * Abs(v.num)
       IN  {Simplify(Signum(u) * Signum(v), n, d, g) : g \in gcd64(d, n)}

DivBy0 == Stop("div_by_0")

\* The quotient as reals.
RealQuotient(v) == IF IsReal(v) THEN {DivBy0, RealNum}
                   ELSE IF v.num = 0 THEN {DivBy0} ELSE {RealNum}

\* Here the sign of 0 is 1.
DivSign(v) == IF v.num = 0 THEN 1 ELSE Signum(v)

\* nx * dy and dx * ny are products of imm_int_t; each part of the quotient has
\* the width of a rational's part.
_int_div(u, v) ==
  IF IsReal(u) \/ IsReal(v) \/ MinInt \in {u.num, v.num} THEN RealQuotient(v)
  ELSE IF IsInt(u) /\ v = Fixnum(0) THEN {DivBy0}
  ELSE LET nn == Wrap(Abs(u.num) * v.den)
           dd == Wrap(u.den * Abs(v.num))
           Part(a) == a \in -PartMax .. PartMax
           Quotient(g) ==
             IF g = 0 THEN {Stop("trap")}
             ELSE IF dd = 0 THEN {DivBy0}
             ELSE IF Part(Abs(nn) \div g) /\ Part(Abs(dd) \div g)
             THEN {Pack(DivSign(u) * DivSign(v), Abs(nn) \div g, Abs(dd) \div g)}
             ELSE RealQuotient(v)
       IN  IF MinInt \in {nn, dd} THEN {Stop("out_of_range")}
           ELSE UNION {Quotient(g) : g \in gcd64(nn, dd)}

BothInt(u, v, results) == IF IsInt(u) /\ IsInt(v) THEN results ELSE {Stop("type")}

\* y = 0 and MIN_INT32 % -1 trap, or leave x and 0.
Remainders(a, b) == IF b = 0 THEN {a} ELSE {CRem(a, b)}
Traps(a, b) == IF b = 0 \/ (a = MinInt /\ b = -1) THEN {Stop("trap")} ELSE {}

_int_remainder(u, v) ==
  BothInt(u, v, Traps(u.num, v.num) \cup {Fixnum(m) : m \in Remainders(u.num, v.num)})

\* Variant: modulo with the sign of the dividend.
ModuloTruncated(u, v) == _int_remainder(u, v)

_int_modulo(u, v) ==
  LET Adjust(m) == IF v.num < 0 THEN IF m <= 0 THEN m ELSE m + v.num
                   ELSE IF m >= 0 THEN m ELSE m + v.num
  IN  BothInt(u, v, Traps(u.num, v.num)
                      \cup {Fixnum(Adjust(m)) : m \in Remainders(u.num, v.num)})

----------------------------------------------------------------------------
(* Comparisons *)

Unknown == {Bool(TRUE), Bool(FALSE)}

_int_gt(u, v) ==
  IF IsReal(u) \/ IsReal(v) THEN Unknown
  ELSE IF IsInt(u) /\ IsInt(v) THEN {Bool(u.num > v.num)}
  ELSE LET a == cast_imm_int_to_rational(u)
           b == cast_imm_int_to_rational(v)
       IN  IF ~IsFraction(a) THEN {a} ELSE IF ~IsFraction(b) THEN {b}
           ELSE {Bool(Signum(a) * a.num * b.den > Signum(b) * b.num * a.den)}

\* Two fractions whose words are equal stop the machine, and so do two whose
\* types differ.
_int_eq(u, v) ==
  IF IsReal(u) \/ IsReal(v) THEN Unknown
  ELSE IF IsInt(u) /\ IsInt(v) THEN {Bool(u.num = v.num)}
  ELSE LET a == cast_imm_int_to_rational(u)
           b == cast_imm_int_to_rational(v)
       IN  IF ~IsFraction(b) THEN {b} ELSE IF ~IsFraction(a) THEN {a}
           ELSE IF a.type # b.type THEN {Stop("shall_not_reach")}
           ELSE IF a = b THEN {Stop("equal_rationals")}
           ELSE {Bool(FALSE)}

\* && and ||: the second test only where the first one leaves the answer open.
AndThen(first, go, second) ==
  UNION {IF f = Bool(go) THEN second ELSE {f} : f \in first}
Negated(results) == {IF f \in Unknown THEN Bool(f.num = 0) ELSE f : f \in results}

_int_lt(u, v) == AndThen(Negated(_int_eq(u, v)), TRUE, Negated(_int_gt(u, v)))
_int_le(u, v) == BothInt(u, v, Negated(_int_gt(u, v)))
_int_ge(u, v) == BothInt(u, v, AndThen(_int_eq(u, v), FALSE, _int_gt(u, v)))

_eqv(u, v) == IF u.type # v.type THEN {Bool(FALSE)}
              ELSE IF IsReal(u) THEN {Stop("type")} ELSE _int_eq(u, v)

----------------------------------------------------------------------------
(* number.c.  A fraction is rounded through a float, which holds the parts   *)
(* of a rational exactly and keeps its quotient on its side of an integer.   *)

\* The float of n/0 is no integer, and its conversion is undefined.
Rounded(v, i) == IF ~IsFraction(v) THEN {v}
                 ELSE IF v.den = 0 THEN {Fixnum(j) : j \in IntRange} ELSE {Fixnum(i)}

_floor(v) == Rounded(v, Signed(v) \div v.den)
_ceiling(v) == Rounded(v, -((-Signed(v)) \div v.den))
_round(v) == Rounded(v, Signum(v) * ((2 * Abs(v.num) + v.den) \div (2 * v.den)))

\* Variant: truncate without the test of the sign.
TruncateDown(v) == _floor(v)

_truncate(v) == UNION {IF f = Bool(TRUE) THEN _floor(v)
                       ELSE IF f = Bool(FALSE) THEN _ceiling(v) ELSE {f}
                         : f \in _int_gt(v, Fixnum(0))}

_is_zero(v) == IF IsFraction(v) THEN {Bool(v.num = 0)} ELSE _int_eq(Fixnum(0), v)
_is_positive(v) == _int_gt(v, Fixnum(0))
_is_negative(v) == _int_lt(v, Fixnum(0))

\* z & 1, of an imm_int only; a real may be an integer.
Parity(v, odd) == IF IsInt(v) THEN {Bool((v.num % 2 = 1) = odd)}
                  ELSE IF IsReal(v) THEN Unknown \cup {Stop("not_an_integer")}
                  ELSE {Stop("not_implemented")}
_is_odd(v) == Parity(v, TRUE)
_is_even(v) == Parity(v, FALSE)

prim_integer_p(v) == IF IsReal(v) THEN Unknown ELSE {Bool(IsInt(v))}
prim_rational_p(v) == {Bool(IsFraction(v))}

----------------------------------------------------------------------------
Arithmetic == {"+", "-", "*", "/", "modulo", "remainder"}
Comparison == {"=", "<", ">", "<=", ">=", "eqv?"}
Rounding == {"floor", "ceiling", "truncate", "round"}
Predicate == {"zero?", "positive?", "negative?", "odd?", "even?", "integer?", "rational?"}

\* What primitive p may leave for the operands u and v.
Binary(p, u, v) ==
  CASE p = "+" -> _int_add(u, v)
    [] p = "-" -> _int_sub(u, v)
    [] p = "*" -> _int_mul(u, v)
    [] p = "/" -> _int_div(u, v)
    [] p = "modulo" -> _int_modulo(u, v)
    [] p = "remainder" -> _int_remainder(u, v)
    [] p = "=" -> _int_eq(u, v)
    [] p = "<" -> _int_lt(u, v)
    [] p = ">" -> _int_gt(u, v)
    [] p = "<=" -> _int_le(u, v)
    [] p = ">=" -> _int_ge(u, v)
    [] p = "eqv?" -> _eqv(u, v)

Unary(p, u) ==
  CASE p = "floor" -> _floor(u)
    [] p = "ceiling" -> _ceiling(u)
    [] p = "truncate" -> _truncate(u)
    [] p = "round" -> _round(u)
    [] p = "zero?" -> _is_zero(u)
    [] p = "positive?" -> _is_positive(u)
    [] p = "negative?" -> _is_negative(u)
    [] p = "odd?" -> _is_odd(u)
    [] p = "even?" -> _is_even(u)
    [] p = "integer?" -> prim_integer_p(u)
    [] p = "rational?" -> prim_rational_p(u)

Init == x \in Literals /\ y \in Literals /\ r = Nothing /\ op = "none"

\* call_prim: pop the operands, push what the primitive returns.
CallBinary(p) == /\ op = "none"
                 /\ op' = p
                 /\ r' \in Binary(p, x, y)
                 /\ UNCHANGED <<x, y>>

CallUnary(p) == /\ op = "none"
                /\ op' = p
                /\ r' \in Unary(p, x)
                /\ UNCHANGED <<x, y>>

\* The program goes on with the result as an operand.
Operand == /\ op # "none"
           /\ IsNumber(r)
           /\ \/ x' = r /\ y' = y
              \/ x' = x /\ y' = r
           /\ r' = Nothing
           /\ op' = "none"

Next == \/ \E p \in Arithmetic \cup Comparison : CallBinary(p)
        \/ \E p \in Rounding \cup Predicate : CallUnary(p)
        \/ Operand

Spec == Init /\ [][Next]_vars

----------------------------------------------------------------------------
(* Properties.  n/d is the exact result, computed without bounds. *)

LowestTerms(n, d) == \A k \in 2 .. PartMax : ~(n % k = 0 /\ d % k = 0)

Stops == {Stop(w) : w \in {"trap", "type", "out_of_range", "div_by_0", "shall_not_reach",
                           "equal_rationals", "not_an_integer", "not_implemented"}}

\* Operands and results are number objects of one word: an overflow never
\* leaves an integer or a part that does not fit (_int_add, _int_mul, _int_div).
TypeOK ==
  /\ {x, y} \subseteq ExactNumbers \cup {RealNum}
  /\ r \in ExactNumbers \cup {RealNum, Nothing} \cup Unknown \cup Stops
  /\ op \in {"none"} \cup Arithmetic \cup Comparison \cup Rounding \cup Predicate

ExactOperands == IsExact(x) /\ IsExact(y)

\* r is a number equal to n/d, in lowest terms.
IsValue(n, d) == /\ Signed(r) * d = n * r.den
                 /\ IsFraction(r) => r.den > 1 /\ LowestTerms(r.num, r.den)

SumNum == Signed(x) * y.den + (IF op = "-" THEN -1 ELSE 1) * Signed(y) * x.den
SumDen == x.den * y.den

\* A sum or a difference that is an exact number is the exact one, in lowest
\* terms, as long as its unreduced parts fit the imm_int_t that gcd takes
\* (_int_add, _int_sub).
SumExactInRange ==
  /\ op \in {"+", "-"} /\ ExactOperands /\ IsExact(r)
  /\ {SumNum, SumDen} \subseteq (MinInt + 1) .. MaxInt
  => IsValue(SumNum, SumDen)

\* The comment in _int_add: nothing overflows there, so every exact sum is the
\* sum of its operands.
SumExact == op \in {"+", "-"} /\ ExactOperands /\ IsExact(r) => IsValue(SumNum, SumDen)

\* A product that is an exact number is the exact product (_int_mul).
ProductExact ==
  op = "*" /\ ExactOperands /\ IsExact(r) => IsValue(Signed(x) * Signed(y), x.den * y.den)

\* A quotient that is an exact number is the exact one, as long as nx * dy and
\* dx * ny fit an imm_int_t (_int_div).
QuotientExactInRange ==
  /\ op = "/" /\ ExactOperands /\ IsExact(r)
  /\ {Abs(x.num) * y.den, Abs(y.num) * x.den} \subseteq IntRange
  => /\ y.num # 0
     /\ Signed(r) * x.den * Signed(y) = Signed(x) * y.den * r.den
     /\ IsFraction(r) => r.den > 1 /\ LowestTerms(r.num, r.den)

\* What compilers write, and what the arithmetic leaves unless gcd was misled.
Canonical(v) == IsExact(v) /\ (IsFraction(v) => v.num > 0 /\ v.den > 1 /\ LowestTerms(v.num, v.den))

\* A comparison of canonical numbers that answers gives the order of their
\* values (_int_eq, _int_lt, _int_gt, _int_le, _int_ge, _is_zero, _is_positive,
\* _is_negative).
OrderExact ==
  LET left == Signed(x) * y.den
      right == Signed(y) * x.den
  IN  Canonical(x) /\ r \in Unknown =>
        /\ Canonical(y) =>
             /\ op = "=" => r = Bool(left = right)
             /\ op = "<" => r = Bool(left < right)
             /\ op = ">" => r = Bool(left > right)
             /\ op = "<=" => r = Bool(left <= right)
             /\ op = ">=" => r = Bool(left >= right)
        /\ op = "zero?" => r = Bool(Signed(x) = 0)
        /\ op = "positive?" => r = Bool(Signed(x) > 0)
        /\ op = "negative?" => r = Bool(Signed(x) < 0)

\* modulo has the sign of the divisor, remainder that of the dividend, and each
\* differs from the dividend by a multiple of the divisor (_int_modulo,
\* _int_remainder).
ModuloSound ==
  op \in {"modulo", "remainder"} /\ IsInt(r) /\ y.num # 0 =>
    /\ (x.num - r.num) % Abs(y.num) = 0
    /\ Abs(r.num) < Abs(y.num)
    /\ LET like == IF op = "modulo" THEN y.num ELSE x.num
       IN  IF like < 0 THEN r.num <= 0 ELSE r.num >= 0

\* A rounded fraction is the integer its primitive names (_floor, _ceiling,
\* _truncate, _round: a half goes away from zero).
RoundingSound ==
  op \in Rounding /\ IsFraction(x) /\ x.den > 0 =>
    LET less == Signed(x) - r.num * x.den       \* (x - r) * x.den
    IN  /\ IsInt(r)
        /\ op = "floor" => less \in 0 .. x.den - 1
        /\ op = "ceiling" => -less \in 0 .. x.den - 1
        /\ op = "truncate" => Signum(x) * less \in 0 .. x.den - 1
        /\ op = "round" => /\ 2 * Abs(less) <= x.den
                          /\ Signum(x) * less * 2 < x.den
=============================================================================
