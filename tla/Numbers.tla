------------------------------- MODULE Numbers -------------------------------
(***************************************************************************)
(* A program that calculates, one operation of the library in a step: on   *)
(* exact integers with the digits of Bignums, and on the numbers of Tower. *)
(***************************************************************************)
EXTENDS Tower, DigitCalculations

CONSTANTS
  TowerFamilies,    \* sets of numbers of every kind, to calculate with
  Radices           \* for number->string

Init ==
  /\ x \in UNION (IntegerFamilies \cup TowerFamilies) /\ y = Zero /\ room = 0
  /\ op = "none" /\ result = Zero

Numbers == Others(TowerFamilies)

-----------------------------------------------------------------------------
(* On integers.                                                            *)
IntegerCommonDivisor ==
  \E b \in Integers, r \in Rooms : Call("gcd", b, r, IntegerGcd(x, b, r))

IntegerBitwise ==
  \E b \in Integers :
    Call("bitwise", b, 0, [and |-> BitwiseAnd(x, b), ior |-> BitwiseIor(x, b),
                           xor |-> BitwiseXor(x, b), not |-> BitwiseNot(x),
                           length |-> IntegerLength(x)])

IntegerText ==
  \E radix \in Radices, r \in Rooms :
    Integers # {} /\ Call("text", Fix(radix), r, IntegerToString(x, radix, r))

-----------------------------------------------------------------------------
(* On numbers of every kind.                                               *)
CallPlus   == \E b \in Numbers : Call("plus", b, 0, PlusAll(<<x, b>>))
CallMinus  == \E b \in Numbers : Call("minus", b, 0, MinusAll(<<x, b>>))
CallTimes  == \E b \in Numbers : Call("times", b, 0, TimesAll(<<x, b>>))
CallDivide == \E b \in Numbers \ {Exact(0)} : Call("divide", b, 0, Divide(x, b))

CallCompare ==
  \E b \in Numbers :
    Call("compare", b, 0,
         [order |-> Compare(x, b), equal |-> Equal(x, b)])

CallCompareAll ==
  \E b, c \in Numbers :
    Call("chain", b, 0, [args |-> <<x, b, c>>, equal |-> AllEqual(<<x, b, c>>),
                         less |-> Increasing(<<x, b, c>>), more |-> Decreasing(<<x, b, c>>),
                         upto |-> NonDecreasing(<<x, b, c>>),
                         downto |-> NonIncreasing(<<x, b, c>>)])

CallPredicates ==
  /\ Numbers # {} /\ ~IsCplx(x)
  /\ Call("real", y, 0,
          [zero |-> IsZero(x), positive |-> Positive(x), negative |-> BelowZero(x),
           even |-> IsIntegral(x) /\ Even(x), abs |-> Abs(x), signum |-> Signum(x)])

CallIntegerDivision ==
  \E b \in Numbers :
    /\ IsIntegral(x) /\ IsIntegral(b) /\ ~IsZero(b)
    /\ Call("quotient", b, 0, [both |-> QuotientAndRemainder(x, b), mod |-> Modulo(x, b)])

CallExactToInexact == Numbers # {} /\ Call("inexact", y, 0, ExactToInexact(x))

CallInexactToExact ==
  /\ Numbers # {} /\ Finite(x)
  /\ Call("exact", y, 0, InexactToExact(x))

CallRound ==
  /\ Numbers # {} /\ ~IsCplx(x)
  /\ Call("round", y, 0, [floor |-> Floor(x), ceiling |-> Ceiling(x),
                          truncate |-> Truncate(x), round |-> Round(x)])

CallSqrt ==
  Numbers # {} /\ IsInt(x) /\ x.n >= 0 /\ Call("sqrt", y, 0, IntegerSqrt[x.n])

Next ==
  \/ DigitNext \/ IntegerCommonDivisor
  \/ IntegerBitwise \/ IntegerText
  \/ CallPlus \/ CallMinus \/ CallTimes \/ CallDivide \/ CallCompare
  \/ CallCompareAll \/ CallPredicates
  \/ CallIntegerDivision \/ CallExactToInexact \/ CallInexactToExact
  \/ CallRound \/ CallSqrt

Spec == Init /\ [][Next]_vars

-----------------------------------------------------------------------------
(* What the numbers mean: integers, fractions in lowest terms, and pairs   *)
(* of fractions.                                                           *)
Lowest(n, d) == <<Signed(d < 0, n) \div Gcd(n, d), Magnitude(d) \div Gcd(n, d)>>
Fraction(a) ==
  CASE a.kind = "int" -> <<a.n, 1>>
    [] a.kind = "rat" -> <<a.n, a.d>>
    [] a.kind = "flo" -> IF a.e < 0 THEN <<a.m, 2^(-a.e)>> ELSE <<a.m * 2^a.e, 1>>
FPlus(p, q)   == Lowest(p[1] * q[2] + q[1] * p[2], p[2] * q[2])
FMinus(p, q)  == FPlus(p, <<-q[1], q[2]>>)
FTimes(p, q)  == Lowest(p[1] * q[1], p[2] * q[2])
Parts(a) == IF IsCplx(a) THEN <<Fraction(a.re), Fraction(a.im)>> ELSE <<Fraction(a), <<0, 1>>>>
PSum(p, q, add(_, _)) == <<add(p[1], q[1]), add(p[2], q[2])>>
PTimes(p, q) == <<FMinus(FTimes(p[1], q[1]), FTimes(p[2], q[2])),
                  FPlus(FTimes(p[1], q[2]), FTimes(p[2], q[1]))>>
Below(p, q) == p[1] * q[2] < q[1] * p[2]
Distance(p, q) == LET d == FMinus(p, q) IN <<Magnitude(d[1]), d[2]>>

-----------------------------------------------------------------------------
(* The only form a number may have.                                        *)
RealStored(a) ==
  CASE a.kind = "rat" -> a.d > 1 /\ Gcd(a.n, a.d) = 1
    [] a.kind = "flo" -> a = Rounded(a.m, a.e)
    [] OTHER -> a.kind \in {"int", "inf", "nan"}
Stored(a) ==
  IF a.kind \in {"fix", "big"} THEN IntegerStored(a)
  ELSE IF IsCplx(a)
  THEN RealStored(a.re) /\ RealStored(a.im) /\ a.im # Exact(0) /\ Inexact(a.re) = Inexact(a.im)
  ELSE RealStored(a)

(* Every number an operation returns is stored in its only form: no zeros  *)
(* lead, no bignum fits a fixnum, no ratnum is an integer or not in lowest *)
(* terms, no exact cplxnum is real.  eqv? and the fixnum tests of the      *)
(* arithmetic itself rely on it.                                           *)
TypeOK ==
  /\ Stored(x) /\ (op \notin {"shift", "text"} => Stored(y))
  /\ op \in {"gcd", "plus", "minus", "times", "divide", "inexact", "exact"} =>
       Stored(result)
  /\ op = "bitwise" =>
       Stored(result.and) /\ Stored(result.ior) /\ Stored(result.xor) /\ Stored(result.not)
  /\ op = "quotient" => Stored(result.both.q) /\ Stored(result.both.r) /\ Stored(result.mod)
  /\ op = "round" => Stored(result.floor) /\ Stored(result.ceiling) /\ Stored(result.round)

DividesBoth(g) == \A n \in {x, y} : IntegerRemainder(n, g, 0) = Zero
IsCommonDivisor(g) == ~Negative(g) /\ g # Zero /\ DividesBoth(g)

(* The greatest common divisor of two integers, by Lehmer's method while   *)
(* they are long, divides both and is the greatest one, except that of     *)
(* most negative fixnums and zero: C_s_a_u_i_integer_gcd.                  *)
GcdExact ==
  op = "gcd" /\ ~({x, y} \subseteq {Zero, Fix(MostNegative)}) =>
    IF Short(x) /\ Short(y) THEN Value(result) = Gcd(Value(x), Value(y))
    ELSE IsCommonDivisor(result)

BitAt(n, i) == (n \div 2^i) % 2
TextValue(text, radix) == FoldLeft(LAMBDA v, c : radix * v + c, 0, text)
BitsHold(a, b) ==
  /\ Value(result.not) = -1 - a
  /\ -(2^result.length) <= a /\ a < 2^result.length
  /\ result.length > 0 => a >= 2^(result.length - 1) \/ a < -(2^(result.length - 1))
  /\ \A i \in 0 .. 4 * DigitBits + 1 :
       /\ BitAt(Value(result.and), i) = BitAt(a, i) * BitAt(b, i)
       /\ BitAt(Value(result.ior), i) = Larger(BitAt(a, i), BitAt(b, i))
       /\ BitAt(Value(result.xor), i) = (BitAt(a, i) + BitAt(b, i)) % 2

(* Bit for bit, a negative number is its endless two's complement.  The    *)
(* text of a number, written at once or in halves of halves, begins with   *)
(* no zero and is read back as the number with its sign, in every radix.   *)
BitsAndText ==
  /\ op = "bitwise" /\ Short(x) /\ Short(y) => BitsHold(Value(x), Value(y))
  /\ op = "text" =>
       /\ Short(x) => TextValue(result.text, y.n) = Magnitude(Value(x))
       /\ Len(result.text) > 1 => result.text[1] # 0
       /\ DigitsToInteger(result.text, result.neg, y.n) = x

OrderIs(a, b, c) ==
  IF Finite(a) /\ Finite(b)
  THEN c = IF Below(Fraction(a), Fraction(b)) THEN "less"
           ELSE IF Below(Fraction(b), Fraction(a)) THEN "more" ELSE "same"
  ELSE c = "no" <=> "nan" \in {a.kind, b.kind}
Pairwise(s, wanted) ==
  \A i, j \in DOMAIN s : i < j => RealCmp(s[i], s[j]) \in wanted
AllReal(s) == \A i \in DOMAIN s : ~IsCplx(s[i])
Chains(s) ==
  AllReal(s) =>
    /\ result.equal  = "yes" <=> Pairwise(s, {"same"})
    /\ result.less   = "yes" <=> Pairwise(s, {"less"})
    /\ result.more   = "yes" <=> Pairwise(s, {"more"})
    /\ result.upto   = "yes" <=> Pairwise(s, {"less", "same"})
    /\ result.downto = "yes" <=> Pairwise(s, {"more", "same"})

(* Sums, differences, products and quotients of exact numbers are the      *)
(* exact ones, also those of cplxnums.  Quotient, remainder and modulo of  *)
(* integers fit together, also when they come as flonums, unless both do.  *)
(* The integer square root is the largest whose square is not above.       *)
(* Comparisons are those of the exact values, between exact and inexact    *)
(* numbers too, and = agrees with them; only = of a cplxnum and a bignum   *)
(* is an error.  Of three numbers, the pairs that are not compared are in  *)
(* order too.  Predicates, abs and signum agree with comparisons to zero.  *)
TowerExact ==
  /\ op \in {"plus", "minus", "times", "divide"} /\ ~Inexact(x) /\ ~Inexact(y) =>
       LET p == Parts(x)  q == Parts(y)  r == Parts(result)
       IN CASE op = "plus"   -> r = PSum(p, q, FPlus)
            [] op = "minus"  -> r = PSum(p, q, FMinus)
            [] op = "times"  -> r = PTimes(p, q)
            [] op = "divide" -> p = PTimes(r, q)
  /\ op = "quotient" /\ ~(Inexact(x) /\ Inexact(y)) =>
       LET a == ToInteger(x)  b == ToInteger(y)  q == Truncated(a, b)
           down == a % Magnitude(b)
           m == IF down = 0 \/ b > 0 THEN down ELSE down + b
           as(n) == IF Inexact(x) \/ Inexact(y) THEN RealToFlo(Exact(n)) ELSE Exact(n)
       IN /\ result.both = [q |-> as(q), r |-> as(a - q * b)]
          /\ ~Inexact(x) /\ ~Inexact(y) => result.mod = Exact(m)
  /\ op = "sqrt" => result.s * result.s + result.r = x.n /\ result.r \in 0 .. 2 * result.s
  /\ op = "compare" =>
       IF IsCplx(x) \/ IsCplx(y)
       THEN result.equal = IF IsCplx(x) /\ IsBignum(y) THEN "error"
                           ELSE IF IsCplx(x) /\ IsCplx(y) /\ Parts(x) = Parts(y) THEN "equal"
                           ELSE "different"
       ELSE /\ OrderIs(x, y, result.order)
            /\ result.equal = IF result.order = "same" THEN "equal" ELSE "different"
  /\ op = "chain" => Chains(result.args)
  /\ op = "real" /\ x.kind # "nan" =>
       LET order == RealCmp(x, Exact(0))
       IN /\ result.zero = (order = "same") /\ result.positive = (order = "more")
          /\ result.negative = (order = "less")
          /\ RealEqual(RealTimes(result.signum, result.abs), x)
          /\ result.even => RealEqual(RealTimes(Exact(2), Floor(RealDivide(x, Exact(2)))), x)

(* The flonums as fractions, and which of them is nearest to a number.     *)
Fractions == {Fraction(a) : a \in {Flo(m, e) : m \in 0 .. 2^Precision - 1,
                                   e \in MinExponent .. MaxExponent - Precision}}
Mirrored(neg, p) == IF neg THEN <<-p[1], p[2]>> ELSE p
Between(v, w, f) == (Below(v, w) /\ Below(w, f)) \/ (Below(f, w) /\ Below(w, v))
NextTo(v, f) == \A g \in Fractions : ~Between(v, Mirrored(v[1] < 0, g), f)
MultipleOf(f, d) == (f[1] * d[2]) % (f[2] * d[1]) = 0
Nearest(v, f) ==
  \A h \in Fractions :
    LET g == Mirrored(v[1] < 0, h)  d == Distance(f, g)
    IN /\ ~Below(Distance(v, g), Distance(v, f))
       /\ g # f /\ Distance(v, g) = Distance(v, f) => MultipleOf(f, <<2 * d[1], d[2]>>)
RoundedParts(v, down, up, i) ==
  /\ ~Below(v, down) /\ Below(v, FPlus(down, <<1, 1>>))
  /\ up = IF v = down THEN down ELSE FPlus(down, <<1, 1>>)
  /\ Fraction(result.truncate) = IF v[1] < 0 THEN up ELSE down
  /\ ~Below(<<1, 2>>, Distance(v, i))
  /\ Distance(v, i) = <<1, 2>> => i[1] % 2 = 0

(* exact->inexact takes a flonum next to the number, and for a fixnum or   *)
(* a positive ratnum the nearest one, from the middle the even one, as its *)
(* comment says; negative ratnums and bignums are not rounded to the       *)
(* nearest.  inexact->exact loses nothing; floor and its like are exact,   *)
(* and round goes to even from the middle.                                 *)
ConversionsRound ==
  /\ op = "inexact" /\ IsFlo(result) /\ ~IsFlonum(x) =>
       /\ NextTo(Fraction(x), Fraction(result))
       /\ (IsInt(x) /\ FitsFixnum(x.n)) \/ (IsRat(x) /\ x.n > 0) =>
            Nearest(Fraction(x), Fraction(result))
  /\ op = "exact" /\ IsFlo(x) => ~Inexact(result) /\ Fraction(result) = Fraction(x)
  /\ op = "round" /\ Finite(x) =>
       RoundedParts(Fraction(x), Fraction(result.floor), Fraction(result.ceiling),
                    Fraction(result.round))
=============================================================================
