--------------------------- MODULE BignumQuotients ---------------------------
(***************************************************************************)
(* Quotients of exact integers, truncated: by half digits, or by the       *)
(* method of Burnikel and Ziegler, which divides numbers of half as many   *)
(* digits and calls itself for them while the C stack has room.  A result  *)
(* is [q |-> quotient, r |-> remainder].                                   *)
(***************************************************************************)
EXTENDS BignumProducts

CONSTANT BurnikelZieglerThreshold   \* C_BURNIKEL_ZIEGLER_THRESHOLD

ASSUME BurnikelZieglerAssumption == BurnikelZieglerThreshold \in Nat \ {0}

(* burnikel_ziegler_3n_div_2n: a quotient from the upper two thirds, then  *)
(* corrected while the remainder is negative; halve[<<a, b, n>>] divides a *)
(* of 2n digits by b of n.                                                 *)
UpperQuotient(a12, b1, n, halve) ==
  LET size == n * DigitBits
  IN IF IntegerCmp(ArithmeticShift(a12, -size), b1) = -1
     THEN halve[<<a12, b1, n>>]
     ELSE [q |-> IntegerMinus(ArithmeticShift(One, size), One),
           r |-> IntegerPlus(IntegerMinus(a12, ArithmeticShift(b1, size)), b1)]
IfNegative(p, b) ==
  IF Negative(p.r) THEN [q |-> IntegerMinus(p.q, One), r |-> IntegerPlus(p.r, b)] ELSE p
WhileNegative(p, b) == IfNegative(IfNegative(IfNegative(p, b), b), b)
WithLowerPart(upper, a3, b, b2, n, room) ==
  WhileNegative([q |-> upper.q,
                 r |-> IntegerMinus(IntegerPlus(ArithmeticShift(upper.r, n * DigitBits), a3),
                                    IntegerTimes(upper.q, b2, room))], b)
Divide3nBy2n(a12, a3, b, n, room, halve) ==
  WithLowerPart(UpperQuotient(a12, Extract(b, n, ToTheEnd), n, halve), a3, b,
                Extract(b, 0, n), n, room)

(* burnikel_ziegler_2n_div_1n: the upper three quarters, then what is left *)
(* with the lowest one.                                                    *)
JoinHalves(q, two, h) ==
  [q |-> IntegerPlus(ArithmeticShift(q, h * DigitBits), two.q), r |-> two.r]
SecondHalf(one, a, b, h, room, halve) ==
  JoinHalves(one.q, Divide3nBy2n(one.r, Extract(a, 0, h), b, h, room, halve), h)
InHalves(a, b, h, room, halve) ==
  SecondHalf(Divide3nBy2n(Extract(a, 2 * h, ToTheEnd), Extract(a, h, 2 * h), b, h, room, halve),
             a, b, h, room, halve)

(* bignum_divide_burnikel_ziegler: the parts, from the most significant on *)
PartsFrom(a, n, l, i) ==
  IF i = 1 THEN ArithmeticShift(a, -((l - 2) * n * DigitBits))
  ELSE Extract(a, n * (l - 1 - i), n * (l - i))
NextPart(p, a, b, n, l, i, halve) ==
  JoinHalves(p.q, halve[<<IntegerPlus(PartsFrom(a, n, l, i), ArithmeticShift(p.r, n * DigitBits)),
                          b, n>>], n)
ByPartsOf(a, b, n, l, halve) ==
  LET loop[i \in 0 .. l - 1] ==
        IF i = 0 THEN [q |-> Zero, r |-> Zero] ELSE NextPart(loop[i - 1], a, b, n, l, i, halve)
  IN loop[l - 1]
WithSigns(p, shift, qneg, rneg) ==
  [q |-> NegatedIf(qneg, p.q), r |-> NegatedIf(rneg, ArithmeticShift(p.r, -shift))]
PartCount(a, n) ==
  LET l == (Size(a) + n) \div n
      l1 == IF DigitBits * l = IntegerLengthAbs(a) THEN l + 1 ELSE l
  IN IF l1 < 2 THEN 2 ELSE l1
ByParts(a, b, n, halve) == ByPartsOf(a, b, n, PartCount(a, n), halve)
(* C_ilen of a number of digits                                            *)
BitsIn(n) ==
  CHOOSE b \in 0 .. n : n < Power(2, b) /\ (b > 0 => Power(2, b - 1) <= n)
NextMultiple(n, m) == ((n + m - 1) \div m) * m
PartSize(size) == NextMultiple(size, Power(2, BitsIn(size \div BurnikelZieglerThreshold)))
DivideShiftedParts(x, y, n, shift, halve) ==
  WithSigns(ByParts(ArithmeticShift(IntegerAbs(x), shift),
                    ArithmeticShift(IntegerAbs(y), shift), n, halve),
            shift, x.neg # y.neg, x.neg)
DivideByParts(x, y, halve) ==
  LET n == PartSize(Size(y))
  IN DivideShiftedParts(x, y, n, DigitBits * n - IntegerLengthAbs(y), halve)

(* bignum_divrem, bignum_divide_unsigned                                   *)
Simplified(p, qneg, rneg) == [q |-> Simplify(qneg, p.q), r |-> Simplify(rneg, p.r)]
BignumDivRem(x, y, room, halve) ==
  LET order == CmpDigits(x.d, y.d)  neg == x.neg # y.neg
  IN IF order = 0 THEN [q |-> Fix(IF neg THEN -1 ELSE 1), r |-> Zero]
     ELSE IF order = -1 THEN [q |-> Zero, r |-> x]
     ELSE IF /\ Size(y) > BurnikelZieglerThreshold
             /\ Size(x) - Size(y) > BurnikelZieglerThreshold /\ room > 0
     THEN DivideByParts(x, y, halve)
     ELSE Simplified(DivideFull(x.d, y.d), neg, x.neg)

(* C division truncates.                                                   *)
Truncated(a, b) ==
  LET q == Magnitude(a) \div Magnitude(b) IN IF (a < 0) # (b < 0) THEN -q ELSE q

(* integer_divrem; y is not zero                                           *)
DivRem(x, y, room, halve) ==
  IF IsFix(x) /\ IsFix(y)
  THEN [q |-> FromWord(Truncated(x.n, y.n)), r |-> Fix(x.n - Truncated(x.n, y.n) * y.n)]
  ELSE IF IsFix(x)
  THEN IF x.n = MostNegative /\ y = FromWord(-MostNegative)
       THEN [q |-> Fix(-1), r |-> Zero] ELSE [q |-> Zero, r |-> x]
  ELSE IF y = One THEN [q |-> x, r |-> Zero]
  ELSE IF y = Fix(-1) THEN [q |-> IntegerNegate(x), r |-> Zero]
  ELSE IF IsSmall(y) THEN DivideSmall(x, y.n) ELSE BignumDivRem(x, FixToBig(y), room, halve)

(* room is the number of procedures the C stack has room for:              *)
(* C_stack_check1.  Without room nothing is divided in halves.             *)
Divide2nBy1n(a, b, n, room, halve) ==
  IF room = 0 \/ n % 2 = 1 \/ n < BurnikelZieglerThreshold THEN DivRem(a, b, room, halve)
  ELSE InHalves(a, b, n \div 2, room - 1, halve)
Halvings(room) ==
  LET halve[r \in 0 .. room] ==
        [p \in ExactInteger \X ExactInteger \X Nat |->
           Divide2nBy1n(p[1], p[2], p[3], r, IF r = 0 THEN <<>> ELSE halve[r - 1])]
  IN halve[room]
IntegerDivRem(x, y, room) == DivRem(x, y, room, IF room = 0 THEN <<>> ELSE Halvings(room - 1))

(* integer_divrem without a quotient: the last digit, or a remainder that  *)
(* is carried from half digit to half digit.                               *)
RemainderSmall(x, y) ==
  LET m == Magnitude(y)
      rem == IF PowerOfTwo(m) THEN x.d[1] % m
             ELSE Downward([d \in Digit |-> [k \in HalfDigit |->
                             <<0, Combine(Combine(k, Hi(d)) % m, Lo(d)) % m>>]], 0, x.d)[2]
  IN Fix(IF x.neg THEN -rem ELSE rem)
IntegerRemainder(x, y, room) ==
  IF ~IsFix(x) /\ IsSmall(y) /\ Magnitude(y.n) # 1
  THEN RemainderSmall(x, y.n) ELSE IntegerDivRem(x, y, room).r
=============================================================================
