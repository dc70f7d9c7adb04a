------------------------------- MODULE Bignums -------------------------------
(***************************************************************************)
(* What runtime.c makes of sums, products, quotients and shifts of exact   *)
(* integers: greatest common divisors, bitwise operations and text.  The   *)
(* reference values are in Numbers.                                        *)
(***************************************************************************)
EXTENDS BignumQuotients, Bitwise

CONSTANT RecursiveToStringThreshold   \* C_RECURSIVE_TO_STRING_THRESHOLD

(* So much that the upper part of a longer number is never zero.           *)
ASSUME RecursiveToStringAssumption ==
  RecursiveToStringThreshold \in Nat /\ RecursiveToStringThreshold >= 13

-----------------------------------------------------------------------------
(* Greatest common divisors.                                               *)
RECURSIVE FixnumGcd(_, _), LehmerStep(_, _, _, _, _, _, _), Euclid(_, _, _)

(* C_i_fixnum_gcd                                                          *)
FixnumGcd(x, y) ==
  IF y = 0 THEN Tagged(Magnitude(x)) ELSE FixnumGcd(Magnitude(y), Magnitude(x) % Magnitude(y))

(* The loop of lehmer_gcd, on the leading bits of two numbers: quotients   *)
(* are taken as long as they are certain to be those of the numbers.       *)
LehmerStep(uhat, vhat, xprev, yprev, xcurr, ycurr, even) ==
  LET q == uhat \div vhat
      xnext == xprev - q * xcurr
      ynext == yprev - q * ycurr
      v == uhat - q * vhat
      done == IF even THEN v < -ynext \/ vhat - v < xnext - xcurr
              ELSE v < -xnext \/ vhat - v < ynext - ycurr
  IN IF done THEN <<xprev, yprev, xcurr, ycurr>>
     ELSE LehmerStep(vhat, v, xcurr, ycurr, xnext, ynext, ~even)

(* lehmer_gcd                                                              *)
Combined(i, j, u, v, room) ==
  IntegerPlus(IntegerTimes(Fix(i), u, room), IntegerTimes(Fix(j), v, room))
WithCofactors(c, u, v, room) ==
  [i \in 1 .. 2 |-> Combined(c[2 * i - 1], c[2 * i], u, v, room)]
LehmerGcd(u, v, room) ==
  LET s == IntegerLengthAbs(u) - (DigitBits - 2)
  IN WithCofactors(LehmerStep(ArithmeticShift(u, -s).n, ArithmeticShift(v, -s).n,
                              1, 0, 0, 1, TRUE), u, v, room)

(* The loop of C_s_a_u_i_integer_gcd, for x >= y >= 0                      *)
OneStep(p, room) == Euclid(p[2], IntegerRemainder(p[1], p[2], room), room)

(* With the larger number as it was before Lehmer's steps.                 *)
EuclidStale(x, y, room) ==
  IF y = Zero THEN IntegerAbs(x)
  ELSE IF IsFix(x) THEN FixnumGcd(x.n, y.n)
  ELSE OneStep(<<x, IF IntegerLengthAbs(x) - IntegerLengthAbs(y) < HalfBits
                    THEN LehmerGcd(x, y, room)[2] ELSE y>>, room)

Euclid(x, y, room) ==
  IF y = Zero THEN IntegerAbs(x)
  ELSE IF IsFix(x) THEN FixnumGcd(x.n, y.n)
  ELSE OneStep(IF IntegerLengthAbs(x) - IntegerLengthAbs(y) < HalfBits
               THEN LehmerGcd(x, y, room) ELSE <<x, y>>, room)

InOrder(a, b, room) ==
  Euclid(IF IntegerCmp(a, b) = 1 THEN a ELSE b, IF IntegerCmp(a, b) = 1 THEN b ELSE a, room)
IntegerGcd(x, y, room) ==
  IF IsFix(x) /\ IsFix(y) THEN FixnumGcd(x.n, y.n)
  ELSE InOrder(IntegerAbs(x), IntegerAbs(y), room)

-----------------------------------------------------------------------------
(* Bitwise operations, on two's complements with a digit to spare.         *)
SignedWord(w) == IF w >= Base \div 2 THEN w - Base ELSE w

Bitwise2(op(_, _), x, y, neg, n) ==
  LET a == Complement(x, n)  b == Complement(y, n)
  IN FromComplement([i \in 1 .. n |-> op(DigitOf(a, i), DigitOf(b, i))], neg)

BitwiseOp(op(_, _), x, y, neg, n) ==
  IF IsFix(x) /\ IsFix(y) THEN Fix(SignedWord(op(x.n % Base, y.n % Base)))
  ELSE Bitwise2(op, FixToBig(x), FixToBig(y), neg, n)

SizeOf(x) == Size(FixToBig(x))
LargerSize(x, y)  == IF SizeOf(x) < SizeOf(y) THEN SizeOf(y) ELSE SizeOf(x)
SmallerSize(x, y) == IF SizeOf(x) < SizeOf(y) THEN SizeOf(x) ELSE SizeOf(y)

(* C_s_a_i_bitwise_and, _ior, _xor, _not                                   *)
BitwiseAnd(x, y) ==
  BitwiseOp(LAMBDA a, b : a & b, x, y, Negative(x) /\ Negative(y),
            IF Negative(x) \/ Negative(y) THEN LargerSize(x, y) + 1
            ELSE SmallerSize(x, y))

BitwiseIor(x, y) ==
  BitwiseOp(LAMBDA a, b : a | b, x, y, Negative(x) \/ Negative(y),
            LargerSize(x, y) + 1)

BitwiseXor(x, y) ==
  BitwiseOp(LAMBDA a, b : a ^^ b, x, y, Negative(x) # Negative(y),
            LargerSize(x, y) + 1)

BitwiseNot(x) == IntegerMinus(Fix(-1), x)

-----------------------------------------------------------------------------
(* Text: the characters are the values of the digits, in the order in      *)
(* which they are written.                                                 *)

(* How many characters fit a half digit.                                   *)
Steps(radix) == CHOOSE k \in 1 .. HalfBits : FitsHalf(radix^k) /\ ~FitsHalf(radix^(k + 1))

(* str_to_bignum for powers of two: every character adds its bits.         *)
ReadBits(text, shift) ==
  LET last == Reverse(text)
      loop[i \in 0 .. Len(text)] ==
        IF i = 0 THEN [d |-> <<>>, digit |-> 0, n |-> 0]
        ELSE LET p == loop[i - 1]
                 w == p.digit + ((last[i] * 2^p.n) % Base)
                 n == p.n + shift - DigitBits
             IN IF p.n + shift < DigitBits
                THEN [p EXCEPT !.digit = w, !.n = @ + shift]
                ELSE [d |-> Append(p.d, w), n |-> n,
                      digit |-> last[i] \div 2^(shift - n)]
      end == loop[Len(text)]
  IN IF end.n > 0 THEN Append(end.d, end.digit) ELSE end.d

(* For other radices: as many characters as fit a half digit at a time.    *)
ReadScaled(text, radix) ==
  LET k == Steps(radix)
      loop[i \in 0 .. (Len(text) + k - 1) \div k] ==
        IF i = 0 THEN <<>>
        ELSE LET upto == IF i * k < Len(text) THEN i * k ELSE Len(text)
                 part == SubSeq(text, (i - 1) * k + 1, upto)
                 r == ScaleUp(loop[i - 1], radix^Len(part),
                              FoldLeft(LAMBDA v, c : radix * v + c, 0, part))
             IN IF r[2] = 0 THEN r[1] ELSE Append(r[1], r[2])
  IN loop[(Len(text) + k - 1) \div k]

(* C_s_a_i_digits_to_integer; the size of the bignum is estimated before.  *)
DigitsToInteger(text, neg, radix) ==
  LET bits == Len(text) * Ilen(radix - 1)
      size == (bits + DigitBits - 1) \div DigitBits
  IN Simplify(neg, Padded(IF PowerOfTwo(radix) THEN ReadBits(text, Ilen(radix) - 1)
                          ELSE ReadScaled(text, radix), size))

(* bignum_to_str_2 for powers of two; a character may take its bits from   *)
(* two digits, the first n of them from the digit before.                  *)
CharsOf(word, radix, count) == [j \in 1 .. count |-> (word \div radix^(j - 1)) % radix]
NextChars(p, word, left, shift) ==
  [out |-> p.out \o CharsOf(word, 2^shift, left \div shift),
   digit |-> word \div 2^(shift * (left \div shift)), n |-> left % shift]
AfterSplit(p, digit, shift) ==
  IF p.n = 0 THEN NextChars(p, digit, DigitBits, shift)
  ELSE NextChars([p EXCEPT !.out = Append(@, (p.digit + digit * 2^p.n) % 2^shift)],
                 digit \div 2^(shift - p.n), DigitBits - (shift - p.n), shift)
LastChar(p) == IF p.digit # 0 THEN Append(p.out, p.digit) ELSE p.out
WriteBits(d, shift) ==
  LET loop[i \in 0 .. Len(d)] ==
        IF i = 0 THEN [out |-> <<>>, digit |-> 0, n |-> 0]
        ELSE AfterSplit(loop[i - 1], d[i], shift)
  IN LastChar(loop[Len(d)])

(* For other radices: scaled down until nothing is left.                   *)
WithoutTop(d) == IF Last(d) = 0 THEN Front(d) ELSE d
MoreChars(out, r, radix, k) == [out |-> out \o CharsOf(r[2], radix, k), d |-> WithoutTop(r[1])]
WriteScaled(d, radix) ==
  LET k == Steps(radix)
      loop[i \in 0 .. Len(d) * DigitBits] ==
        IF i = 0 THEN [out |-> <<>>, d |-> d]
        ELSE LET p == loop[i - 1]
             IN IF p.d = <<>> THEN p ELSE MoreChars(p.out, ScaleDown(p.d, radix^k), radix, k)
  IN loop[Len(d) * DigitBits].out

(* The room for the sign and the characters of a bignum.                   *)
TextLength(x, radix) ==
  LET s == Ilen(radix) - 1
  IN (IntegerLengthAbs(x) + s - 1) \div s + (IF x.neg THEN 1 ELSE 0)

Written(x, radix) ==
  IF PowerOfTwo(radix) THEN WriteBits(x.d, Ilen(radix) - 1) ELSE WriteScaled(x.d, radix)
AtMost(s, n) == IF Len(s) > n THEN SubSeq(s, 1, n) ELSE s
NoZeros(s) ==
  SubSeq(s, CHOOSE i \in DOMAIN s : s[i] # 0 /\ \A j \in 1 .. i - 1 : s[j] = 0, Len(s))

(* bignum_to_str_2: leading zeros are dropped, or the only one there can   *)
(* be makes room for the sign.                                             *)
WrittenOut(x, radix, chars) ==
  [neg |-> x.neg,
   text |-> IF ~PowerOfTwo(radix) THEN NoZeros(chars)
            ELSE IF x.neg /\ chars[1] = 0 THEN Tail(chars) ELSE chars]

(* ##sys#integer-power: a factor less, or the square of the half of them.  *)
IntegerPower(base, n, room) ==
  LET power[e \in 0 .. n] ==
        LET p == IF e % 2 = 0 THEN <<power[e \div 2], power[e \div 2]>> ELSE <<power[e - 1], base>>
        IN IF e = 0 THEN One ELSE IntegerTimes(p[1], p[2], room)
  IN power[n]

(* The lower part lacks the zeros it should begin with.                    *)
JoinedTight(hi, lo, halfsize) == [hi EXCEPT !.text = @ \o lo.text]
Joined(hi, lo, halfsize) ==
  [hi EXCEPT !.text = @ \o Zeros(halfsize - Len(lo.text)) \o lo.text]

(* ##sys#integer->string/recursive: the upper and the lower half of the    *)
(* characters, by a division.                                              *)
RECURSIVE IntegerToString(_, _, _)
TextOfParts(parts, radix, halfsize, room) ==
  Joined(IntegerToString(parts.q, radix, room),
         IntegerToString(IntegerAbs(parts.r), radix, room), halfsize)
InTwoParts(x, radix, halfsize, room) ==
  TextOfParts(IntegerDivRem(x, IntegerPower(FromWord(radix), halfsize, room), room),
              radix, halfsize, room)

(* C_number_to_string, C_integer_to_string: a sign and characters.         *)
IntegerToString(x, radix, room) ==
  LET word[n \in 0 .. MostPositive + 1] ==
        IF n < radix THEN <<n>> ELSE Append(word[n \div radix], n % radix)
  IN IF IsFix(x) THEN [neg |-> x.n < 0, text |-> word[Magnitude(x.n)]]
     ELSE IF TextLength(x, radix) > RecursiveToStringThreshold /\ ~PowerOfTwo(radix)
     THEN InTwoParts(x, radix, (TextLength(x, radix) + 1) \div 2, room)
     ELSE WrittenOut(x, radix, Reverse(AtMost(Written(x, radix), TextLength(x, radix))))
=============================================================================
