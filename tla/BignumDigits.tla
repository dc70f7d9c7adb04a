---------------------------- MODULE BignumDigits ----------------------------
(***************************************************************************)
(* The exact integers of runtime.c: fixnums of a word less two bits, and   *)
(* bignums of a sign and a sequence of digits of a word each, the least    *)
(* significant first.  Multiplication and division work on half digits.    *)
(*                                                                         *)
(* A word has DigitBits bits here.  Every operator does what the C code    *)
(* does to the digits; Value says which integer they stand for.            *)
(***************************************************************************)
EXTENDS Integers, Sequences, SequencesExt

CONSTANTS
  DigitBits,               \* C_WORD_SIZE = C_BIGNUM_DIGIT_LENGTH, even
  Half                     \* what half as many bits can count, 2^(DigitBits \div 2)

HalfBits == DigitBits \div 2

(* b to the n.                                                             *)
Power(b, n) ==
  LET p[i \in 0 .. n] == IF i = 0 THEN 1 ELSE b * p[i - 1] IN p[n]
TwoTo == [s \in 0 .. DigitBits |-> Power(2, s)]

ASSUME DigitAssumption ==
  /\ DigitBits \in Nat /\ DigitBits >= 4 /\ DigitBits % 2 = 0
  /\ Half = Power(2, HalfBits)

Base     == Half * Half
Digit     == 0 .. Base - 1
HalfDigit == 0 .. Half - 1
MostPositive == Base \div 4 - 1
MostNegative == -MostPositive - 1

Lo(n) == n % Half
Hi(n) == n \div Half
Combine(hi, lo) == hi * Half + lo
Magnitude(n) == IF n < 0 THEN -n ELSE n
FitsFixnum(n) == MostNegative <= n /\ n <= MostPositive
FitsHalf(n) == Hi(n) = 0

(* C_ilen: the bits in a word without its leading zeros.                   *)
Ilen(n) == CHOOSE b \in 0 .. DigitBits : n < TwoTo[b] /\ (b > 0 => n >= TwoTo[b - 1])
PowerOfTwo(n) == n > 0 /\ n = TwoTo[Ilen(n) - 1]

Fix(n) == [kind |-> "fix", n |-> n]
Big(neg, d) == [kind |-> "big", neg |-> neg, d |-> d]
IsFix(x) == x.kind = "fix"
Negative(x) == IF IsFix(x) THEN x.n < 0 ELSE x.neg
Size(x) == Len(x.d)
Zero == Fix(0)
One  == Fix(1)

ExactInteger ==
  [kind : {"fix"}, n : Int] \cup [kind : {"big"}, neg : BOOLEAN, d : Seq(Nat)]

(* C_fix of a word: the upper bits are lost.                               *)
Tagged(n) ==
  LET w == n % (Base \div 2) IN Fix(IF w > MostPositive THEN w - Base \div 2 ELSE w)

(* C_a_u_i_fix_to_big                                                      *)
FixToBig(x) ==
  IF ~IsFix(x) THEN x
  ELSE Big(x.n < 0, IF x.n = 0 THEN <<>> ELSE <<Magnitude(x.n)>>)

(* What fits the next fixnum, or a bignum of one digit.                    *)
FromWord(n) ==
  IF FitsFixnum(n) THEN Fix(n) ELSE Big(n < 0, <<Magnitude(n)>>)

(* C_bignum_simplify: without leading zeros, and a fixnum if it fits.      *)
Stripped(d) ==
  SubSeq(d, 1, CHOOSE n \in 0 .. Len(d) : (n > 0 => d[n] # 0)
                                          /\ \A i \in n + 1 .. Len(d) : d[i] = 0)
FixnumOr(big, n) == IF FitsFixnum(n) THEN Fix(n) ELSE big
InOneForm(neg, d) ==
  IF d = <<>> THEN Zero
  ELSE IF Len(d) > 1 THEN Big(neg, d)
  ELSE FixnumOr(Big(neg, d), IF neg THEN -d[1] ELSE d[1])
Simplify(neg, d) == InOneForm(neg, Stripped(d))


-----------------------------------------------------------------------------
(* Loops over the digits.  A step takes a digit and a carry and returns    *)
(* both; the result is the new digits and the last carry.                  *)
Upward(step, carry, d) ==
  LET loop[i \in 0 .. Len(d)] ==
        IF i = 0 THEN <<<<>>, carry>>
        ELSE LET p == loop[i - 1]  r == step[d[i]][p[2]]
             IN <<Append(p[1], r[1]), r[2]>>
  IN loop[Len(d)]
Downward(step, carry, d) ==
  LET r == Upward(step, carry, Reverse(d)) IN <<Reverse(r[1]), r[2]>>

DigitOf(d, i) == IF i <= Len(d) THEN d[i] ELSE 0
Zeros(n) == [i \in 1 .. n |-> 0]
Padded(d, n) == [i \in 1 .. n |-> DigitOf(d, i)]
Pairs(a, b, n) == [i \in 1 .. n |-> <<DigitOf(a, i), DigitOf(b, i)>>]
Halves(d) ==
  [i \in 1 .. 2 * Len(d) |->
     IF i % 2 = 1 THEN Lo(d[(i + 1) \div 2]) ELSE Hi(d[i \div 2])]
Digits(h) ==
  [i \in 1 .. Len(h) \div 2 |-> Combine(h[2 * i], h[2 * i - 1])]

(* bignum_digits_destructive_negate                                        *)
NegateDigits(d) ==
  Upward([x \in Digit |-> [c \in 0 .. 1 |->
            LET s == (Base - 1 - x + c) % Base
            IN <<s, IF c = 1 /\ s = 0 THEN 1 ELSE 0>>]], 1, d)[1]

(* bignum_digits_destructive_scale_up_with_carry                           *)
ScaleUp(d, factor, carry) ==
  Upward([x \in Digit |-> [c \in HalfDigit |->
            LET p == factor * Lo(x) + c
                q == factor * Hi(x) + Hi(p)
            IN <<Combine(Lo(q), Lo(p)), Hi(q)>>]], carry, d)

(* bignum_digits_destructive_scale_down                                    *)
ScaleDown(d, denominator) ==
  Downward([x \in Digit |-> [k \in HalfDigit |->
              LET h == Combine(k, Hi(x))
                  l == Combine(h % denominator, Lo(x))
              IN <<Combine(h \div denominator, l \div denominator),
                   l % denominator>>]], 0, d)

(* bignum_digits_destructive_shift_right, _left; by less than a digit.     *)
ShiftRight(d, s, neg) ==
  LET right == TwoTo[s]
      left == TwoTo[DigitBits - s]
      r == Downward([x \in Digit |-> [c \in Digit |->
                       <<(x \div right) + c, (x * left) % Base>>]],
                    IF neg THEN Base - left ELSE 0, d)
  IN <<r[1], r[2] \div left>>

ShiftLeft(d, s) ==
  LET left == TwoTo[s]
      right == TwoTo[DigitBits - s]
  IN Upward([x \in Digit |-> [c \in Digit |->
               <<((x * left) % Base) + c, x \div right>>]], 0, d)

(* bignum_digits_multiply, by half digits: row j adds x times one of them. *)
AddRow(r, x, yj, j) ==
  LET n == Len(x)
      row == Upward([p \in HalfDigit \X HalfDigit |-> [c \in HalfDigit |->
                       LET q == p[1] * yj + p[2] + c IN <<Lo(q), Hi(q)>>]],
                    0, [i \in 1 .. n |-> <<x[i], r[i + j]>>])
  IN [k \in DOMAIN r |-> IF k \in j + 1 .. j + n THEN row[1][k - j]
                         ELSE IF k = j + n + 1 THEN row[2] ELSE r[k]]
Rows(x, y) ==
  LET rows[j \in 0 .. Len(y)] ==
        IF j = 0 THEN Zeros(Len(x) + Len(y))
        ELSE IF y[j] = 0 THEN rows[j - 1]
        ELSE AddRow(rows[j - 1], x, y[j], j - 1)
  IN rows
MultiplyDigits(a, b) == Digits(Rows(Halves(a), Halves(b))[2 * Len(b)])


-----------------------------------------------------------------------------
(* Sums.                                                                   *)

(* The comparison that finds the carry in bignum_plus_unsigned.            *)
CarriedNoCarry(digit, sum, carry) == sum < digit
Carried(digit, sum, carry) == IF carry = 1 THEN sum <= digit ELSE sum < digit
Bit(b) == IF b THEN 1 ELSE 0

(* bignum_plus_unsigned                                                    *)
SumOfDigits(pairs) ==
  Upward([p \in Digit \X Digit |-> [c \in 0 .. 1 |->
            LET s == (p[1] + p[2] + c) % Base
            IN <<s, Bit(Carried(p[1], s, c))>>]], 0, pairs)[1]
PlusUnsigned(x, y, neg) ==
  Simplify(neg, SumOfDigits(IF Size(y) > Size(x) THEN Pairs(y.d, x.d, Size(y) + 1)
                            ELSE Pairs(x.d, y.d, Size(x) + 1)))

(* bignum_cmp_unsigned                                                     *)
CmpDigits(a, b) ==
  LET differ == {i \in 1 .. Len(a) : a[i] # b[i]}
      top == CHOOSE i \in differ : \A j \in differ : j <= i
  IN IF Len(a) # Len(b) THEN (IF Len(a) < Len(b) THEN -1 ELSE 1)
     ELSE IF differ = {} THEN 0
     ELSE IF a[top] < b[top] THEN -1 ELSE 1

(* bignum_minus_unsigned; order is that of the digits.                     *)
DifferenceOfDigits(pairs) ==
  Upward([p \in Digit \X Digit |-> [c \in 0 .. 1 |->
            LET d == (p[1] - p[2] - c) % Base
            IN <<d, Bit(Carried(d, p[1], c))>>]], 0, pairs)[1]
MinusOrdered(x, y, order) ==
  IF order = 0 THEN Zero
  ELSE Simplify(order = -1,
         DifferenceOfDigits(IF order = -1 THEN Pairs(y.d, x.d, Size(y))
                            ELSE Pairs(x.d, y.d, Size(x))))
MinusUnsigned(x, y) == MinusOrdered(x, y, CmpDigits(x.d, y.d))

(* C_s_a_u_i_integer_plus, _minus                                          *)
SignedSum(a, b, neg) ==     \* b with the sign neg
  IF a.neg = neg THEN PlusUnsigned(a, b, neg)
  ELSE MinusUnsigned(IF a.neg THEN b ELSE a, IF a.neg THEN a ELSE b)

IntegerPlus(x, y) ==
  IF IsFix(x) /\ IsFix(y) THEN FromWord(x.n + y.n)
  ELSE SignedSum(FixToBig(x), FixToBig(y), Negative(y))

IntegerMinus(x, y) ==
  IF IsFix(x) /\ IsFix(y) THEN FromWord(x.n - y.n)
  ELSE SignedSum(FixToBig(x), FixToBig(y), ~Negative(y))

(* C_s_a_u_i_integer_negate, _abs                                          *)
IntegerNegate(x) == IF IsFix(x) THEN FromWord(-x.n) ELSE Simplify(~x.neg, x.d)
IntegerAbs(x) == IF Negative(x) THEN IntegerNegate(x) ELSE x

(* C_i_bignum_cmp, and the comparisons of exact integers in basic_cmp.     *)
IntegerCmp(x, y) ==
  LET sign(n) == IF n < 0 THEN -1 ELSE IF n > 0 THEN 1 ELSE 0
  IN IF IsFix(x) THEN IF IsFix(y) THEN sign(x.n - y.n)
                      ELSE IF y.neg THEN 1 ELSE -1
     ELSE IF IsFix(y) THEN IF x.neg THEN -1 ELSE 1
     ELSE IF x.neg # y.neg THEN IF x.neg THEN -1 ELSE 1
     ELSE IF x.neg THEN CmpDigits(y.d, x.d) ELSE CmpDigits(x.d, y.d)

-----------------------------------------------------------------------------
(* Shifts and parts.                                                       *)

(* maybe_negate_bignum_for_bitwise_op: two's complement, size digits.      *)
Complement(x, n) == IF x.neg THEN NegateDigits(Padded(x.d, n)) ELSE x.d

FixnumLength(n) == Ilen(IF n < 0 THEN -1 - n ELSE n)

(* The shift of digits in C_s_a_i_arithmetic_shift.                        *)
ShiftUp(x, s) ==
  Simplify(x.neg, Zeros(s \div DigitBits)
                    \o IF s % DigitBits = 0 THEN x.d \o <<0>>
                       ELSE ShiftLeft(x.d \o <<0>>, s % DigitBits)[1])

KeptDigits(x, k) == SubSeq(Complement(x, Size(x) + 1), k + 1, Size(x))
Shifted(d, b, neg) == IF b = 0 THEN d ELSE ShiftRight(d, b, neg)[1]
FromComplement(d, neg) == Simplify(neg, IF neg THEN NegateDigits(d) ELSE d)
ShiftDown(x, s) ==
  IF Size(x) <= s \div DigitBits THEN Fix(IF x.neg THEN -1 ELSE 0)
  ELSE FromComplement(Shifted(KeptDigits(x, s \div DigitBits), s % DigitBits, x.neg), x.neg)

(* C_s_a_i_arithmetic_shift                                                *)
ArithmeticShift(x, s) ==
  IF s = 0 \/ x = Zero THEN x
  ELSE IF IsFix(x) /\ s < 0
  THEN Fix(IF -s < DigitBits THEN x.n \div TwoTo[-s]
           ELSE IF x.n < 0 THEN -1 ELSE 0)
  ELSE IF IsFix(x) /\ x.n > 0 /\ s < DigitBits - 2 /\ Ilen(x.n) + s < DigitBits - 2
  THEN Fix(x.n * TwoTo[s])
  ELSE IF s > 0 THEN ShiftUp(FixToBig(x), s) ELSE ShiftDown(x, -s)

(* bignum_extract_digits: the digits from start on, up to end or to the    *)
(* last one.                                                               *)
ToTheEnd == -1             \* C_SCHEME_FALSE
Extract(x, start, end) ==
  LET upto == IF end = ToTheEnd \/ end > Size(x) THEN Size(x) ELSE end
  IN IF IsFix(x) THEN IF start = 0 /\ end # 0 THEN x ELSE Zero
     ELSE IF start >= upto THEN Zero
     ELSE Simplify(x.neg, SubSeq(x.d, start + 1, upto))

(* integer_length_abs                                                      *)
IntegerLengthAbs(x) ==
  IF IsFix(x) THEN Ilen(Magnitude(x.n))
  ELSE (Size(x) - 1) * DigitBits + Ilen(x.d[Size(x)])

(* C_i_integer_length: one less for the negative of a power of two.        *)
IntegerLength(x) ==
  LET n == Size(x)  top == x.d[n]
  IN IF IsFix(x) THEN FixnumLength(x.n)
     ELSE IntegerLengthAbs(x)
          - Bit(x.neg /\ PowerOfTwo(top) /\ \A i \in 1 .. n - 1 : x.d[i] = 0)
-----------------------------------------------------------------------------
(* Products and quotients, as far as they are not made of smaller ones.    *)

(* C_a_i_fixnum_times: two half digits times two half digits.              *)
FixnumProduct(neg, hi, lo) ==
  IF hi # 0 THEN Big(neg, <<lo, hi>>)
  ELSE FixnumOr(Big(neg, <<lo>>), IF neg THEN -lo ELSE lo)
UpperProduct(neg, a, b, p, q, r) ==
  FixnumProduct(neg, Hi(a) * Hi(b) + Hi(r) + Hi(q), Combine(Lo(r), Lo(p)))
MiddleProduct(neg, a, b, p, q) == UpperProduct(neg, a, b, p, q, Lo(a) * Hi(b) + Lo(q))
LowerProduct(neg, a, b, p) == MiddleProduct(neg, a, b, p, Hi(a) * Lo(b) + Hi(p))
FixnumTimes(x, y) ==
  LowerProduct((x < 0) # (y < 0), Magnitude(x), Magnitude(y), Lo(Magnitude(x)) * Lo(Magnitude(y)))

(* Factors and divisors for which one pass over the digits is enough.      *)
Small(n) == FitsHalf(n) \/ (PowerOfTwo(n) /\ FitsFixnum(n))

(* bignum_times_bignum_unsigned with a small factor                        *)
WithCarry(r, neg) == Simplify(neg, Append(r[1], r[2]))
SmallFactor(x, y) ==
  LET m == Magnitude(y)
  IN IF y = 0 THEN Zero
     ELSE IF y = 1 THEN x
     ELSE IF y = -1 THEN IntegerNegate(x)
     ELSE WithCarry(IF PowerOfTwo(m) THEN ShiftLeft(x.d, Ilen(m) - 1) ELSE ScaleUp(x.d, m, 0),
                    x.neg # (y < 0))
IsSmall(x) == IsFix(x) /\ Small(Magnitude(x.n))

(* One round of bignum_destructive_divide_normalized: the digit j of the   *)
(* quotient of the half digits u and v, estimated from the leading ones    *)
(* and corrected before and after the subtraction.                         *)
Estimate(u, v, n, j) ==
  LET hat == Combine(u[j + n + 1], u[j + n])
      q == hat \div v[n]
      q1 == IF q >= Half THEN Half - 1 ELSE q
      r1 == hat - q1 * v[n]
      tooLarge(k) == /\ (q1 - k) * v[n - 1] > Combine(r1 + k * v[n], u[j + n - 1])
                     /\ r1 + k * v[n] < Half
  IN q1 - CHOOSE k \in 0 .. q1 :
            ~tooLarge(k) /\ \A i \in 0 .. k - 1 : tooLarge(i)

Replaced(u, j, part) ==
  [i \in DOMAIN u |-> IF i \in j + 1 .. j + Len(part) THEN part[i - j] ELSE u[i]]

(* Without the correction afterwards.                                      *)
AddBackNever(u, v, n, j, t) == FALSE

(* Subtracted too much?                                                    *)
AddBack(u, v, n, j, t) == t < 0

Subtracted(u, v, n, j, qhat) ==
  Upward([p \in HalfDigit \X HalfDigit |-> [k \in HalfDigit |->
            LET m == qhat * p[2]
                t == p[1] - k - Lo(m)
            IN <<Lo(t), Hi(m) - Hi(t)>>]],
         0, [i \in 1 .. n |-> <<u[i + j], v[i]>>])
Added(less, v, n) ==
  Upward([p \in HalfDigit \X HalfDigit |-> [k \in HalfDigit |->
            LET s == p[1] + p[2] + k IN <<Lo(s), Hi(s)>>]],
         0, [i \in 1 .. n |-> <<less[i], v[i]>>])
Restored(u, j, t, more) == Replaced(u, j, Append(more[1], Lo(Lo(t) + more[2])))
Corrected(u, v, n, j, qhat, less, t) ==
  IF AddBack(u, v, n, j, t)
  THEN [q |-> qhat - 1, u |-> Restored(u, j, t, Added(less, v, n))]
  ELSE [q |-> qhat, u |-> Replaced(u, j, Append(less, Lo(t)))]
AfterSubtraction(u, v, n, j, qhat, less) ==
  Corrected(u, v, n, j, qhat, less[1], u[j + n + 1] - less[2])
WithEstimate(u, v, n, j, qhat) ==
  AfterSubtraction(u, v, n, j, qhat, Subtracted(u, v, n, j, qhat))

QuotientDigit(u, v, n, j) ==
  IF u[j + n + 1] = 0 /\ u[j + n] = 0 THEN [q |-> 0, u |-> u]
  ELSE WithEstimate(u, v, n, j, Estimate(u, v, n, j))

(* bignum_destructive_divide_normalized                                    *)
QuotientDigits(u, v, n, m) ==
  LET loop[i \in 0 .. m + 1] ==
        IF i = 0 THEN [q |-> <<>>, u |-> u]
        ELSE LET p == loop[i - 1]  d == QuotientDigit(p.u, v, n, m + 1 - i)
             IN [q |-> <<d.q>> \o p.q, u |-> d.u]
  IN loop[m + 1]
EvenHalves(h) == IF Len(h) % 2 = 1 THEN Append(h, 0) ELSE h
FromHalves(p) == [q |-> Digits(EvenHalves(p.q)), r |-> Digits(p.u)]
DivideHalves(u, v, n) == FromHalves(QuotientDigits(u, v, n, Len(u) - 2 - n))
DivideNormalized(u, v) ==
  DivideHalves(Halves(u), Halves(v), 2 * Len(v) - Bit(Hi(Last(v)) = 0))

(* bignum_destructive_divide_full: shift so that the leading half digit of *)
(* the denominator is full, divide, and shift back.                        *)
ShiftedBack(p, s) ==
  IF s = 0 THEN p ELSE [q |-> p.q, r |-> ShiftRight(p.r, s, FALSE)[1]]
DivideShifted(num, den, s) ==
  ShiftedBack(DivideNormalized(IF s = 0 THEN num ELSE ShiftLeft(num, s)[1],
                               IF s = 0 THEN den ELSE ShiftLeft(den, s)[1]), s)
DivideFull(num, den) ==
  DivideShifted(Append(num, 0), den, (DigitBits - Ilen(Last(den))) % HalfBits)

(* bignum_destructive_divide_unsigned_small                                *)
SmallQuotient(x, neg, p) ==
  [q |-> Simplify(neg, p[1]), r |-> Fix(IF x.neg THEN -p[2] ELSE p[2])]
DivideSmall(x, y) ==
  LET m == Magnitude(y)
  IN SmallQuotient(x, x.neg # (y < 0),
                   IF PowerOfTwo(m) THEN ShiftRight(x.d, Ilen(m) - 1, FALSE)
                   ELSE ScaleDown(x.d, m))

-----------------------------------------------------------------------------
(* What the digits mean: the first n digits in base b, and an integer.     *)
DigitsValue(b, d, n) ==
  LET v[i \in 0 .. n] == IF i = 0 THEN 0 ELSE v[i - 1] + d[i] * Power(b, i - 1) IN v[n]
Signed(neg, n) == IF neg THEN -n ELSE n
Value(x) == IF IsFix(x) THEN x.n ELSE Signed(x.neg, DigitsValue(Base, x.d, Size(x)))

(* The only form an integer may have.                                      *)
IntegerStored(x) ==
  IF IsFix(x) THEN FitsFixnum(x.n)
  ELSE /\ x.d # <<>> /\ Last(x.d) # 0 /\ \A i \in DOMAIN x.d : x.d[i] \in Digit
       /\ ~(Size(x) = 1 /\ FitsFixnum(Signed(x.neg, x.d[1])))
=============================================================================
