-------------------------------- MODULE Tower --------------------------------
(***************************************************************************)
(* The numeric tower: flonums, ratnums and cplxnums, their conversions,    *)
(* comparisons and arithmetic in runtime.c and library.scm.  The exact     *)
(* integers are those of TLA+ here: the procedures on them that runtime.c  *)
(* calls are the operators of Bignums, which return what integers should.  *)
(*                                                                         *)
(* A flonum is m * 2^e with at most Precision bits of m, which is odd or   *)
(* zero; the sign of a zero is not kept.  A ratnum has no common divisor   *)
(* and a denominator above one; the parts of a cplxnum are both exact or   *)
(* both inexact.                                                           *)
(***************************************************************************)
EXTENDS Bignums

CONSTANTS
  Precision,     \* DBL_MANT_DIG
  MinExponent,   \* DBL_MIN_EXP - DBL_MANT_DIG: the last place of the smallest
  MaxExponent    \* DBL_MAX_EXP: what reaches 2^MaxExponent is infinite

ASSUME TowerAssumption ==
  /\ Precision \in Nat /\ Precision >= 2
  /\ MinExponent \in Int /\ MaxExponent \in Nat /\ MinExponent < 0

Exact(n) == [kind |-> "int", n |-> n]
Rat(n, d) == [kind |-> "rat", n |-> n, d |-> d]
Infinite(neg) == [kind |-> "inf", neg |-> neg]
NotANumber == [kind |-> "nan"]
Cplx(re, im) == [kind |-> "cplx", re |-> re, im |-> im]

IsInt(a) == a.kind = "int"
IsRat(a) == a.kind = "rat"
IsFlo(a) == a.kind = "flo"
IsFlonum(a) == a.kind \in {"flo", "inf", "nan"}
IsCplx(a) == a.kind = "cplx"
Inexact(a) == IsFlonum(a) \/ (IsCplx(a) /\ IsFlonum(a.re))

-----------------------------------------------------------------------------
(* Integers.                                                               *)
Smaller(a, b) == IF a < b THEN a ELSE b
Larger(a, b)  == IF a < b THEN b ELSE a
Bits(n) == CHOOSE b \in 0 .. 30 : n < 2^b /\ (b > 0 => n >= 2^(b - 1))
Shift(n, s) == IF s >= 0 THEN n * 2^s ELSE n \div 2^(-s)
Euclidean[a \in Nat, b \in Nat] == IF b = 0 THEN a ELSE Euclidean[b, a % b]
Gcd(a, b) == Euclidean[Magnitude(a), Magnitude(b)]
Rem(a, b) == a - Truncated(a, b) * b

-----------------------------------------------------------------------------
(* Flonums.                                                                *)

(* m * 2^e in its only form, or an infinity.                               *)
Flo(m, e) ==
  LET t == CHOOSE t \in 0 .. 30 : m % 2^t = 0 /\ m % 2^(t + 1) # 0
  IN IF m = 0 THEN [kind |-> "flo", m |-> 0, e |-> 0]
     ELSE IF Bits(Magnitude(m)) + e > MaxExponent THEN Infinite(m < 0)
     ELSE [kind |-> "flo", m |-> m \div 2^t, e |-> e + t]

(* Rounded to the nearest flonum, to an even one from the middle.          *)
RoundsUp(q, rest, half) == rest > half \/ (rest = half /\ q % 2 = 1)
Dropped(neg, a, e, drop) ==
  Flo(Signed(neg, a \div 2^drop + Bit(RoundsUp(a \div 2^drop, 2 * (a % 2^drop), 2^drop))),
      e + drop)
Rounded(m, e) ==
  LET drop == Larger(Bits(Magnitude(m)) - Precision, MinExponent - e)
  IN IF drop <= 0 THEN Flo(m, e)
     ELSE IF drop > Bits(Magnitude(m)) THEN Flo(0, 0)
     ELSE Dropped(m < 0, Magnitude(m), e, drop)

FloZero(a) == IsFlo(a) /\ a.m = 0
FloNegative(a) == IF IsFlo(a) THEN a.m < 0 ELSE a.kind = "inf" /\ a.neg
FloNegate(a) ==
  CASE a.kind = "flo" -> Flo(-a.m, a.e)
    [] a.kind = "inf" -> Infinite(~a.neg)
    [] a.kind = "nan" -> a
FloScale(a, k) == IF IsFlo(a) THEN Rounded(a.m, a.e + k) ELSE a

Aligned(a, b, e) == Rounded(Shift(a.m, a.e - e) + Shift(b.m, b.e - e), e)
FloPlus(a, b) ==
  IF "nan" \in {a.kind, b.kind} THEN NotANumber
  ELSE IF ~IsFlo(a) THEN IF ~IsFlo(b) /\ a # b THEN NotANumber ELSE a
  ELSE IF ~IsFlo(b) THEN b
  ELSE IF a.m = 0 THEN b ELSE IF b.m = 0 THEN a
  ELSE Aligned(a, b, Smaller(a.e, b.e))

FloMinus(a, b) == FloPlus(a, FloNegate(b))

FloTimes(a, b) ==
  IF "nan" \in {a.kind, b.kind} THEN NotANumber
  ELSE IF IsFlo(a) /\ IsFlo(b) THEN Rounded(a.m * b.m, a.e + b.e)
  ELSE IF FloZero(a) \/ FloZero(b) THEN NotANumber
  ELSE Infinite(FloNegative(a) # FloNegative(b))

(* A bit that stands for the rest of the quotient rounds it correctly.     *)
FloDivide(a, b) ==
  LET k == Precision + 3
      n == Magnitude(a.m) * 2^k
      d == Magnitude(b.m)
  IN IF "nan" \in {a.kind, b.kind} THEN NotANumber
     ELSE IF ~IsFlo(a) THEN IF ~IsFlo(b) THEN NotANumber
                            ELSE Infinite(a.neg # FloNegative(b))
     ELSE IF ~IsFlo(b) THEN Flo(0, 0)
     ELSE IF b.m = 0 THEN IF a.m = 0 THEN NotANumber ELSE Infinite(a.m < 0)
     ELSE Rounded(Signed((a.m < 0) # (b.m < 0), 2 * (n \div d) + Bit(n % d # 0)),
                  a.e - b.e - k - 1)

(* modf: the part before the point.                                        *)
IntegralPart(a) == IF ~IsFlo(a) \/ a.e >= 0 THEN a ELSE Flo(Truncated(a.m, 2^(-a.e)), 0)
FloIsInteger(a) == IsFlo(a) /\ a.e >= 0

(* C_a_i_flonum_round_proper                                               *)
FloRound(a) ==
  LET i == IntegralPart(a)  half == 2 * (Magnitude(a.m) % 2^(-a.e))
      up == half > 2^(-a.e) \/ (half = 2^(-a.e) /\ ~FloIsInteger(FloScale(i, -1)))
  IN IF ~IsFlo(a) \/ a.e >= 0 THEN a
     ELSE IF up THEN FloPlus(i, Flo(Signed(a.m < 0, 1), 0)) ELSE i

-----------------------------------------------------------------------------
(* Conversions.                                                            *)

(* C_bignum_to_double: the digits from the most significant on, every sum  *)
(* rounded.                                                                *)
WithSign(neg, a) == IF neg THEN FloNegate(a) ELSE a
DigitsToDouble(n) ==
  LET top == CHOOSE k \in 1 .. 5 : n < Base^k /\ n >= Base^(k - 1)
      sum[k \in 0 .. top] ==
        IF k = top THEN Flo(0, 0)
        ELSE FloPlus(FloScale(sum[k + 1], DigitBits), Rounded((n \div Base^k) % Base, 0))
  IN sum[0]
BignumToDouble(n) == WithSign(n < 0, DigitsToDouble(Magnitude(n)))

IntegerToFlo(n) == IF FitsFixnum(n) THEN Rounded(n, 0) ELSE BignumToDouble(n)

(* C_a_i_exact_to_inexact of a ratnum: both parts are brought to the same  *)
(* length and divided, and the remainder decides.  Up from the middle only *)
(* if the quotient is odd; and a rule that does not look at the middle.    *)
RoundedUpAlways(r, d, q) == 2 * r >= d
RoundedUp(r, d, q) == 2 * r > d \/ (2 * r = d /\ q % 2 = 1)

QuotientToFlo(n, d, e) ==
  LET q == Truncated(n, d)
  IN FloScale(FloPlus(IntegerToFlo(Magnitude(q)),
                      Flo(Bit(RoundedUp(Rem(n, d), d, q)), 0)), e)
WithPlaces(n, d, e, places) == QuotientToFlo(Shift(n, places), d, e - places)
Normalized(n, d, e) ==
  IF n < d THEN WithPlaces(2 * n, d, e - 1, Smaller(Precision - 1, e - 1 - MinExponent))
  ELSE WithPlaces(n, d, e, Smaller(Precision - 1, e - MinExponent))
RatToFlo(num, den) ==
  LET e == Bits(Magnitude(num)) - Bits(den)
  IN WithSign(num < 0, Normalized(IF e < 0 THEN Shift(num, -e) ELSE num,
                                  IF e > 0 THEN Shift(den, e) ELSE den, e))

RealToFlo(a) ==
  IF IsFlonum(a) THEN a ELSE IF IsRat(a) THEN RatToFlo(a.n, a.d) ELSE IntegerToFlo(a.n)

ExactToInexact(a) ==
  IF IsCplx(a) THEN Cplx(RealToFlo(a.re), RealToFlo(a.im)) ELSE RealToFlo(a)

(* C_s_a_u_i_flo_to_int: the digits of the fraction, from the top; none is *)
(* kept of what is behind the point.                                       *)
FloToInt(a) ==
  LET e == Bits(Magnitude(a.m)) + a.e
      digit(k) == Shift(Magnitude(a.m), a.e - k * DigitBits) % Base
      above[k \in 0 .. 5] == IF k * DigitBits >= e THEN 0 ELSE digit(k) + Base * above[k + 1]
  IN IF e <= 0 THEN 0 ELSE Signed(a.m < 0, above[0])

(* The ratnum of integers without a common divisor; of a sum or product.   *)
Ratnum(n, d) ==
  IF d = 1 THEN Exact(n)
  ELSE IF d = -1 THEN Exact(-n)
  ELSE IF d < 0 THEN Rat(-n, -d) ELSE Rat(n, d)
OverOne(n, d) == IF n = 0 \/ d = 1 THEN Exact(n) ELSE Rat(n, d)

MakeComplex(r, i) ==
  IF i = Exact(0) \/ FloZero(i) THEN r
  ELSE Cplx(IF IsFlonum(i) THEN RealToFlo(r) ELSE r,
            IF IsFlonum(r) THEN RealToFlo(i) ELSE i)

-----------------------------------------------------------------------------
(* Sums; sign is 1 or -1.                                                  *)

(* rat_plusmin_integer, integer_minus_rat                                  *)
RatPlusInteger(r, i, sign) == IF i = 0 THEN r ELSE Rat(r.n + sign * (r.d * i), r.d)
IntegerMinusRatSwapped(i, r) == RatPlusInteger(r, i, -1)
IntegerMinusRat(i, r) == IF i = 0 THEN Rat(-r.n, r.d) ELSE Rat(r.d * i - r.n, r.d)

(* The divisor of a sum of ratnums, and the one of a careless program.     *)
SumDivisorOne(sum, g1) == 1
SumDivisor(sum, g1) == Gcd(sum, g1)

(* rat_plusmin_rat: with the greatest common divisor of the denominators,  *)
(* and of that and the sum.                                                *)
RatPlusRat(a, b, sign) ==
  LET g1 == Gcd(a.d, b.d)
      xd == Truncated(a.d, g1)
      sum == a.n * Truncated(b.d, g1) + sign * (b.n * xd)
      g2 == SumDivisor(sum, g1)
  IN OverOne(Truncated(sum, g2), xd * Truncated(b.d, g2))

ExactSum(a, b, sign) ==
  IF IsRat(a) /\ IsRat(b) THEN RatPlusRat(a, b, sign)
  ELSE IF IsRat(a) THEN RatPlusInteger(a, b.n, sign)
  ELSE IF ~IsRat(b) THEN Exact(a.n + sign * b.n)
  ELSE IF sign = 1 THEN RatPlusInteger(b, a.n, 1) ELSE IntegerMinusRat(a.n, b)

FloSum(a, b, sign) == FloPlus(a, WithSign(sign = -1, b))
RealSum(a, b, sign) ==
  IF IsFlonum(a) \/ IsFlonum(b) THEN FloSum(RealToFlo(a), RealToFlo(b), sign)
  ELSE ExactSum(a, b, sign)
RealPlus(a, b) == RealSum(a, b, 1)
RealMinus(a, b) == RealSum(a, b, -1)

RealNegate(a) ==
  IF IsFlonum(a) THEN FloNegate(a) ELSE IF IsRat(a) THEN Rat(-a.n, a.d) ELSE Exact(-a.n)

(* The cplxnum cases of C_s_a_i_plus, C_s_a_i_minus.                       *)
WithImag(re, im) == Cplx(re, IF Inexact(re) THEN RealToFlo(im) ELSE im)
OrReal(re, im) == IF im = Exact(0) \/ FloZero(im) THEN re ELSE Cplx(re, im)
Sum(a, b, sign) ==
  IF IsCplx(a) /\ IsCplx(b) THEN OrReal(RealSum(a.re, b.re, sign), RealSum(a.im, b.im, sign))
  ELSE IF IsCplx(a) THEN WithImag(RealSum(a.re, b, sign), a.im)
  ELSE IF IsCplx(b)
  THEN WithImag(RealSum(a, b.re, sign), IF sign = 1 THEN b.im ELSE RealNegate(b.im))
  ELSE RealSum(a, b, sign)

Negate(a) == IF IsCplx(a) THEN Cplx(RealNegate(a.re), RealNegate(a.im)) ELSE RealNegate(a)

-----------------------------------------------------------------------------
(* Products and quotients.                                                 *)

(* rat_times_integer, rat_times_rat                                        *)
RatTimesInteger(r, i) ==
  LET g == Gcd(i, r.d)
  IN IF i = 0 THEN Exact(0)
     ELSE IF i = 1 THEN r
     ELSE IF i = -1 THEN Rat(-r.n, r.d)
     ELSE OverOne(Truncated(i, g) * r.n, Truncated(r.d, g))
RatTimesRat(a, b) ==
  LET g1 == Gcd(a.n, b.d)  g2 == Gcd(b.n, a.d)
  IN OverOne(Truncated(a.n, g1) * Truncated(b.n, g2), Truncated(a.d, g2) * Truncated(b.d, g1))

RealTimes(a, b) ==
  IF IsFlonum(a) \/ IsFlonum(b) THEN FloTimes(RealToFlo(a), RealToFlo(b))
  ELSE IF IsRat(a) /\ IsRat(b) THEN RatTimesRat(a, b)
  ELSE IF IsRat(a) THEN RatTimesInteger(a, b.n)
  ELSE IF IsRat(b) THEN RatTimesInteger(b, a.n)
  ELSE Exact(a.n * b.n)

(* cplx_times, C_s_a_i_times: the other part of a real number              *)
Real(a) == IF IsCplx(a) THEN a.re ELSE a
Imag(a) == IF IsCplx(a) THEN a.im ELSE IF IsFlonum(a) THEN Flo(0, 0) ELSE Exact(0)
Product(a, b) ==
  IF ~IsCplx(a) /\ ~IsCplx(b) THEN RealTimes(a, b)
  ELSE OrReal(RealMinus(RealTimes(Real(a), Real(b)), RealTimes(Imag(a), Imag(b))),
              RealPlus(RealTimes(Real(a), Imag(b)), RealTimes(Imag(a), Real(b))))

(* ##sys#/-2; b is not exactly zero                                        *)
RealDivide(a, b) ==
  LET g1 == Gcd(a.n, b.n)  g2 == Gcd(a.d, b.d)
  IN IF IsFlonum(a) \/ IsFlonum(b) THEN FloDivide(RealToFlo(a), RealToFlo(b))
     ELSE IF IsRat(a) /\ IsRat(b)
     THEN Ratnum(Truncated(a.n, g1) * Truncated(b.d, g2),
                 Truncated(a.d, g2) * Truncated(b.n, g1))
     ELSE IF IsRat(a) THEN Ratnum(Truncated(a.n, g1), a.d * Truncated(b.n, g1))
     ELSE IF IsRat(b) THEN Ratnum(Truncated(a.n, g1) * b.d, Truncated(b.n, g1))
     ELSE Ratnum(Truncated(a.n, g1), Truncated(b.n, g1))

Over(n1, n2, r) == MakeComplex(RealDivide(n1, r), RealDivide(n2, r))
DivideParts(re1, im1, re2, im2) ==
  Over(RealPlus(RealTimes(re1, re2), RealTimes(im1, im2)),
       RealMinus(RealTimes(im1, re2), RealTimes(re1, im2)),
       RealPlus(RealTimes(re2, re2), RealTimes(im2, im2)))
Divide(a, b) ==
  IF ~IsCplx(a) /\ ~IsCplx(b) THEN RealDivide(a, b)
  ELSE DivideParts(Real(a), Imag(a), Real(b), Imag(b))

(* C_plus, C_times, C_minus with any number of arguments                   *)
PlusAll(args)  == FoldLeft(LAMBDA r, a : Sum(r, a, 1), Exact(0), args)
TimesAll(args) == FoldLeft(Product, Exact(1), args)
MinusAll(args) ==
  IF Len(args) = 1 THEN Negate(args[1])
  ELSE FoldLeft(LAMBDA r, a : Sum(r, a, -1), Head(args), Tail(args))

-----------------------------------------------------------------------------
(* Comparisons; with a NaN there is no order.                              *)
Flip(c) == CASE c = "less" -> "more" [] c = "more" -> "less" [] OTHER -> c
Order(n) == IF n < 0 THEN "less" ELSE IF n > 0 THEN "more" ELSE "same"
NoInteger(a) ==
  CASE a.kind = "nan" -> "no" [] a.kind = "inf" -> IF a.neg THEN "more" ELSE "less"

(* rat_cmp: an integer is over one; products of numerators and denominators *)
Denominator(a) == IF IsRat(a) THEN a.d ELSE 1
RatCmp(a, b) == Order(a.n * Denominator(b) - b.n * Denominator(a))

(* int_flo_cmp: the fraction decides between equal integers.               *)
TieBroken(f) == f # IntegralPart(f)

IntFloCmp(i, f) ==
  LET c == i - FloToInt(IntegralPart(f))
  IN IF ~IsFlo(f) THEN NoInteger(f)
     ELSE IF c = 0 /\ TieBroken(f) THEN IF FloNegative(f) THEN "more" ELSE "less"
     ELSE Order(c)

(* rat_flo_cmp: signs first, then both are scaled to integers.             *)
RatFloCmp(r, f) ==
  LET s == IF f.e < 0 THEN -f.e ELSE 0
  IN IF ~IsFlo(f) THEN NoInteger(f)
     ELSE IF r.n < 0 /\ f.m >= 0 THEN "less"
     ELSE IF r.n > 0 /\ f.m <= 0 THEN "more"
     ELSE Order(Shift(r.n, s) - FloToInt(Flo(f.m, f.e + s)) * r.d)

(* basic_cmp of real numbers                                               *)
FloCmp(a, b) ==
  LET e == Smaller(a.e, b.e)
  IN IF "nan" \in {a.kind, b.kind} THEN "no"
     ELSE IF a = b THEN "same"
     ELSE IF IsFlo(a) /\ IsFlo(b) THEN Order(Shift(a.m, a.e - e) - Shift(b.m, b.e - e))
     ELSE IF FloNegative(FloMinus(a, b)) THEN "less" ELSE "more"

RealCmp(a, b) ==
  IF IsFlonum(a) /\ IsFlonum(b) THEN FloCmp(a, b)
  ELSE IF IsFlonum(b) THEN IF IsRat(a) THEN RatFloCmp(a, b) ELSE IntFloCmp(a.n, b)
  ELSE IF IsFlonum(a) THEN Flip(IF IsRat(b) THEN RatFloCmp(b, a) ELSE IntFloCmp(b.n, a))
  ELSE IF IsRat(a) \/ IsRat(b) THEN RatCmp(a, b)
  ELSE Order(a.n - b.n)

(* basic_cmp for =, which compares the parts of ratnums.                   *)
RealEqual(a, b) ==
  IF IsFlonum(a) \/ IsFlonum(b) THEN RealCmp(a, b) = "same" ELSE a = b

(* A cplxnum is different from every real number, but where it should be   *)
(* asked whether y is a bignum, it is asked whether x is: an error.        *)
IsBignum(a) == IsInt(a) /\ ~FitsFixnum(a.n)
Equal(a, b) ==
  IF IsCplx(a) /\ IsBignum(b) THEN "error"
  ELSE IF IsCplx(a) /\ IsCplx(b)
  THEN IF RealEqual(a.re, b.re) /\ RealEqual(a.im, b.im) THEN "equal" ELSE "different"
  ELSE IF ~IsCplx(a) /\ ~IsCplx(b) /\ RealEqual(a, b) THEN "equal" ELSE "different"

(* The predicates of many arguments stop at the first pair that fails, and *)
(* see no error behind it.  =, unlike the others, compares all with the    *)
(* first.                                                                  *)
Compare(a, b) == IF IsCplx(a) \/ IsCplx(b) THEN "error" ELSE RealCmp(a, b)
Outcome(found, wanted) ==
  LET failed == {i \in DOMAIN found : found[i] \notin wanted}
      first == CHOOSE i \in failed : \A j \in failed : i <= j
  IN IF failed = {} THEN "yes" ELSE IF found[first] = "error" THEN "error" ELSE "no"
Neighbours(args) == [i \in 1 .. Len(args) - 1 |-> Compare(args[i], args[i + 1])]
AllEqual(args)   == Outcome([i \in 1 .. Len(args) - 1 |-> Equal(args[1], args[i + 1])], {"equal"})
Increasing(args)    == Outcome(Neighbours(args), {"less"})
Decreasing(args)    == Outcome(Neighbours(args), {"more"})
NonDecreasing(args) == Outcome(Neighbours(args), {"less", "same"})
NonIncreasing(args) == Outcome(Neighbours(args), {"more", "same"})

-----------------------------------------------------------------------------
(* Integer division of real numbers that are integers, and roundings.      *)
IsIntegral(a) == IsInt(a) \/ FloIsInteger(a)
ToInteger(a) == IF IsFlonum(a) THEN FloToInt(a) ELSE a.n
Back(n, a, b) == IF IsFlonum(a) \/ IsFlonum(b) THEN IntegerToFlo(n) ELSE Exact(n)

(* C_quotient_and_remainder                                                *)
QuotientAndRemainder(a, b) ==
  LET q == IntegralPart(FloDivide(a, b))
  IN IF IsFlonum(a) /\ IsFlonum(b) THEN [q |-> q, r |-> FloMinus(a, FloTimes(q, b))]
     ELSE [q |-> Back(Truncated(ToInteger(a), ToInteger(b)), a, b),
           r |-> Back(Rem(ToInteger(a), ToInteger(b)), a, b)]

(* Predicates of real numbers; even? is one of integers.                   *)
Positive(a) ==
  CASE a.kind = "flo" -> a.m > 0
    [] a.kind \in {"int", "rat"} -> a.n > 0
    [] OTHER -> a = Infinite(FALSE)
BelowZero(a) == IF IsFlonum(a) THEN FloNegative(a) ELSE a.n < 0
IsZero(a) == a = Exact(0) \/ FloZero(a)
Even(a) == IF IsInt(a) THEN a.n % 2 = 0 ELSE a.m = 0 \/ a.e > 0

(* C_i_nanp, C_i_finitep, C_i_infinitep: of a part of a cplxnum.           *)
SomePart(a, kind) == kind \in {Real(a).kind, Imag(a).kind}
Finite(a) == ~SomePart(a, "nan") /\ ~SomePart(a, "inf")

(* C_s_a_i_abs, C_signum and, for ratnums, ##sys#extended-signum           *)
Abs(a) ==
  IF IsFlonum(a) THEN WithSign(FloNegative(a), a)
  ELSE IF IsRat(a) THEN Rat(Magnitude(a.n), a.d) ELSE Exact(Magnitude(a.n))
SignOf(n) == IF n > 0 THEN 1 ELSE IF n < 0 THEN -1 ELSE 0
Signum(a) ==
  CASE a.kind = "flo" -> Flo(SignOf(a.m), 0)
    [] a.kind = "inf" -> Flo(IF a.neg THEN -1 ELSE 1, 0)
    [] a.kind = "nan" -> a
    [] OTHER -> Exact(SignOf(a.n))

(* C_s_a_i_modulo: has the sign of the divisor.                            *)
WithSignOf(b, m) ==
  IF Positive(b) # Positive(m) /\ ~IsZero(m) THEN RealPlus(m, b) ELSE m
Modulo(a, b) == WithSignOf(b, QuotientAndRemainder(a, b).r)

(* floor, ceiling, truncate and round of the library                       *)
Truncate(a) ==
  IF IsInt(a) THEN a
  ELSE IF IsFlonum(a) THEN IntegralPart(a) ELSE Exact(Truncated(a.n, a.d))
Floor(a) ==
  LET i == IntegralPart(a)
  IN IF IsFlonum(a) THEN IF a # i /\ FloNegative(a) THEN FloMinus(i, Flo(1, 0)) ELSE i
     ELSE IF IsRat(a) /\ a.n < 0 THEN Exact(Truncate(a).n - 1) ELSE Truncate(a)
Ceiling(a) ==
  LET i == IntegralPart(a)
  IN IF IsFlonum(a) THEN IF a # i /\ ~FloNegative(a) THEN FloPlus(i, Flo(1, 0)) ELSE i
     ELSE IF IsRat(a) /\ a.n > 0 THEN Exact(Truncate(a).n + 1) ELSE Truncate(a)
RoundRat(above, f) == IF f = above /\ f.n % 2 = 1 THEN Exact(f.n - 1) ELSE f
Round(a) ==
  IF IsInt(a) THEN a
  ELSE IF IsFlonum(a) THEN FloRound(a)
  ELSE LET above == RealPlus(a, Rat(1, 2)) IN RoundRat(above, Floor(above))

(* flonum->ratnum: scaled by a power of two, and before that by another    *)
(* one if it is below 1; then divided by both.  A scaled flonum that is    *)
(* not finite is an error.                                                 *)
FractionLength(a) ==
  CHOOSE i \in 0 .. Precision - MinExponent :
    FloIsInteger(FloScale(a, i)) /\ \A j \in 0 .. i - 1 : ~FloIsInteger(FloScale(a, j))
Unscaled(scaled, q, d) ==
  IF Finite(scaled)
  THEN FoldLeft(LAMBDA n, m : RealDivide(n, Exact(m)), Exact(FloToInt(scaled)), <<q, d>>)
  ELSE NotANumber
Deliver(y, d) ==
  LET q == 2^FractionLength(y) IN Unscaled(FloTimes(y, IntegerToFlo(q)), q, d)
FlonumToRatnum(a) ==
  LET below == FloCmp(a, Flo(1, 0)) = "less" /\ FloCmp(a, Flo(-1, 0)) = "more"
      p == IF below THEN Precision ELSE 0
  IN Deliver(FloTimes(a, Flo(1, p)), 2^p)

(* inexact->exact of a finite number.                                      *)
FlonumToExact(a) == IF FloIsInteger(a) THEN Exact(FloToInt(a)) ELSE FlonumToRatnum(a)
InexactToExact(a) ==
  LET parts == IF IsCplx(a) THEN <<a.re, a.im>> ELSE <<a>>
      exact == [i \in DOMAIN parts |-> FlonumToExact(parts[i])]
  IN IF ~Inexact(a) THEN a
     ELSE IF IsCplx(a) THEN MakeComplex(exact[1], exact[2]) ELSE exact[1]

(* ##sys#exact-integer-sqrt: the root of the upper half of the bits, and    *)
(* the rest divided by twice that; the sum may be one too large.           *)
OneLess(s, r) == IF r < 0 THEN [s |-> s - 1, r |-> r + 2 * s - 1] ELSE [s |-> s, r |-> r]
WithLowerHalf(up, a, k) ==
  LET b == 2^k
      n == up.r * b + ((a \div b) % b)
      q == Truncated(n, 2 * up.s)
  IN OneLess(up.s * b + q, Rem(n, 2 * up.s) * b + (a % b) - q * q)
IntegerSqrt[a \in Nat] ==
  LET k == (Bits(a) + 1) \div 4
      root == IF a = 0 THEN 0 ELSE IF a < 4 THEN 1 ELSE 2
  IN IF a <= 4 THEN [s |-> root, r |-> a - root * root]
     ELSE WithLowerHalf(IntegerSqrt[a \div 2^(2 * k)], a, k)
=============================================================================
