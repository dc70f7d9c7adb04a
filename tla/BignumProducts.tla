--------------------------- MODULE BignumProducts ---------------------------
(***************************************************************************)
(* Products of exact integers: by hand, half digit by half digit, or by    *)
(* Karatsuba's method, which multiplies three times numbers of half as     *)
(* many digits and calls itself for them while the C stack has room.       *)
(***************************************************************************)
EXTENDS BignumDigits

CONSTANT KaratsubaThreshold         \* C_KARATSUBA_THRESHOLD

ASSUME KaratsubaAssumption == KaratsubaThreshold \in Nat /\ KaratsubaThreshold >= 2

NegatedIf(neg, x) == IF neg THEN IntegerNegate(x) ELSE x

(* bignum_times_bignum_karatsuba, for size(x) <= size(y); times[<<a, b>>]  *)
(* is the product of two parts.                                            *)
Split(x, n) == [hi |-> Extract(x, n, ToTheEnd), lo |-> Extract(x, 0, n)]
FromThree(high, low, mid, bits) ==
  IntegerPlus(ArithmeticShift(high, 2 * bits),
    IntegerPlus(ArithmeticShift(IntegerPlus(low, IntegerMinus(high, mid)), bits), low))
ThreeProducts(x, y, bits, times) ==
  FromThree(times[<<x.hi, y.hi>>], times[<<x.lo, y.lo>>],
            times[<<IntegerMinus(x.hi, x.lo), IntegerMinus(y.hi, y.lo)>>], bits)
Karatsuba(x, y, neg, times) ==
  LET n == Size(y) \div 2
  IN NegatedIf(neg, ThreeProducts(Split(IntegerAbs(x), n), Split(IntegerAbs(y), n),
                                  n * DigitBits, times))

(* bignum_times_bignum_unsigned; without room there is no call of times.   *)
ByHand(x, y, neg) == Simplify(neg, MultiplyDigits(x.d, y.d))
TimesInOrder(x, y, neg, room, times) ==
  IF Size(x) >= KaratsubaThreshold /\ room > 0 THEN Karatsuba(x, y, neg, times)
  ELSE ByHand(x, y, neg)
TimesUnsigned(x, y, neg, room, times) ==
  TimesInOrder(IF Size(y) < Size(x) THEN y ELSE x, IF Size(y) < Size(x) THEN x ELSE y,
               neg, room, times)

(* C_s_a_u_i_integer_times.  room is the number of procedures the C stack  *)
(* has room for: C_stack_check1.                                           *)
TimesWithin(x, y, room, times) ==
  IF IsFix(x) /\ IsFix(y) THEN FixnumTimes(x.n, y.n)
  ELSE IF IsSmall(x) THEN SmallFactor(y, x.n)
  ELSE IF IsSmall(y) THEN SmallFactor(x, y.n)
  ELSE TimesUnsigned(FixToBig(x), FixToBig(y), Negative(x) # Negative(y), room, times)
Products(room) ==
  LET times[r \in 0 .. room] ==
        [p \in ExactInteger \X ExactInteger |->
           TimesWithin(p[1], p[2], r, IF r = 0 THEN <<>> ELSE times[r - 1])]
  IN times[room]
IntegerTimes(x, y, room) == Products(room)[<<x, y>>]
=============================================================================
