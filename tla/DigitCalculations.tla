-------------------------- MODULE DigitCalculations --------------------------
(***************************************************************************)
(* A program that calculates with exact integers: one of the operations    *)
(* of BignumDigits, BignumProducts and BignumQuotients in a step.  Numbers *)
(* adds what is made of them, and the other kinds of numbers.              *)
(***************************************************************************)
EXTENDS BignumQuotients

CONSTANTS
  IntegerFamilies,  \* sets of fixnums and bignums to calculate with
  Shifts,           \* distances for arithmetic-shift
  Rooms             \* what is left of the C stack

(* What a program holds was returned by an earlier operation.              *)
ASSUME IntegersAssumption ==
  /\ Shifts \subseteq Int /\ Rooms \subseteq Nat
  /\ \A F \in IntegerFamilies : \A n \in F : n \in ExactInteger /\ IntegerStored(n)

VARIABLES
  x, y,      \* the operands
  room,      \* of the C stack
  op,        \* the operation that was called, or "none"
  result     \* what it returned

vars == <<x, y, room, op, result>>

(* What x can be combined with: nothing any more after the operation.      *)
Others(families) == IF op = "none" THEN UNION {F \in families : x \in F} ELSE {}
Integers == Others(IntegerFamilies)
Call(name, b, r, value) ==
  op' = name /\ result' = value /\ y' = b /\ room' = r /\ UNCHANGED x

IntegerSum ==
  \E b \in Integers :
    Call("sum", b, 0, [plus |-> IntegerPlus(x, b), minus |-> IntegerMinus(x, b),
                       negated |-> IntegerNegate(x), order |-> IntegerCmp(x, b)])

IntegerShift ==
  \E s \in Shifts : Integers # {} /\ Call("shift", Fix(s), 0, ArithmeticShift(x, s))

IntegerProduct ==
  \E b \in Integers, r \in Rooms : Call("product", b, r, IntegerTimes(x, b, r))

IntegerDivision ==
  \E b \in Integers \ {Zero}, r \in Rooms :
    Call("division", b, r, [both |-> IntegerDivRem(x, b, r),
                            rem |-> IntegerRemainder(x, b, r)])

DigitInit ==
  /\ x \in UNION IntegerFamilies /\ y = Zero /\ room = 0 /\ op = "none" /\ result = Zero
DigitNext == IntegerSum \/ IntegerShift \/ IntegerProduct \/ IntegerDivision
DigitSpec == DigitInit /\ [][DigitNext]_vars

-----------------------------------------------------------------------------
(* The value of a short integer fits the integers of TLC; a longer one is  *)
(* the sum of two others if it is the difference the other way round.      *)
Short(a) == IsFix(a) \/ Size(a) <= 4
IsSum(s, a, b) ==
  IF Short(a) /\ Short(b) /\ Short(s) THEN Value(s) = Value(a) + Value(b)
  ELSE IntegerMinus(s, b) = a

(* Sums, differences and negations are the exact ones, without leading     *)
(* zeros, and fixnums whenever they fit; and a comparison has the sign of  *)
(* the difference: C_s_a_u_i_integer_plus, _minus, _negate, basic_cmp.     *)
SumsExact ==
  op = "sum" =>
    /\ \A s \in {result.plus, result.minus, result.negated} : IntegerStored(s)
    /\ IsSum(result.plus, x, y) /\ IsSum(x, result.minus, y) /\ IsSum(Zero, result.negated, x)
    /\ result.order = IF result.minus = Zero THEN 0
                      ELSE IF Negative(result.minus) THEN -1 ELSE 1

(* Products are those by hand, by whatever method and with whatever room:  *)
(* C_s_a_u_i_integer_times.                                                *)
School(a, b) == ByHand(FixToBig(a), FixToBig(b), Negative(a) # Negative(b))
ProductsExact ==
  op = "product" =>
    /\ IntegerStored(result) /\ result = School(x, y)
    /\ IsFix(x) /\ Short(result) /\ Short(y) => Value(result) = x.n * Value(y)

PowerOfBase2(n) == Simplify(FALSE, Append(Zeros(n \div DigitBits), TwoTo[n % DigitBits]))
RestIsPositive(rest, power) == ~Negative(rest) /\ IntegerCmp(rest, power) = -1
Rounds(s) ==
  IF s >= 0 THEN result = School(x, PowerOfBase2(s))
  ELSE RestIsPositive(IntegerMinus(x, School(result, PowerOfBase2(-s))), PowerOfBase2(-s))

(* A shift to the left multiplies, one to the right divides and rounds     *)
(* down: manual/Module (chicken bitwise).                                  *)
ShiftIsFloor == op = "shift" => Rounds(y.n)

(* What a shift to the right by whole digits leaves of the complement is   *)
(* all zeros: the carry of the digits that are gone would matter.          *)
CarryIsLost ==
  /\ ~IsFix(x) /\ Negative(x) /\ y.n < 0 /\ (-y.n) % DigitBits = 0
  /\ Size(x) > (-y.n) \div DigitBits
  /\ \A d \in Range(KeptDigits(x, (-y.n) \div DigitBits)) : d = 0

(* Shifts are as ShiftIsFloor says unless CarryIsLost, and their results   *)
(* are stored without leading zeros: C_s_a_i_arithmetic_shift.             *)
ShiftsExact == op = "shift" => IntegerStored(result) /\ (~CarryIsLost => Rounds(y.n))

SmallerThan(a, b) == IntegerCmp(IntegerAbs(a), IntegerAbs(b)) = -1
DivisionHolds(q, r) ==
  /\ IntegerPlus(School(q, y), r) = x
  /\ SmallerThan(r, y) /\ (r = Zero \/ Negative(r) = Negative(x))

(* Quotients and remainders are what they should be, whichever of the      *)
(* algorithms is taken and however little of the stack is left: the        *)
(* remainder is smaller than the divisor and has the sign of the dividend, *)
(* and it is the same when no quotient is asked for: integer_divrem.       *)
DivisionsExact ==
  op = "division" =>
    /\ IntegerStored(result.both.q) /\ IntegerStored(result.both.r)
    /\ DivisionHolds(result.both.q, result.both.r) /\ result.rem = result.both.r

(* The sums, products, shifts and quotients of exact integers.             *)
CalculationsExact == SumsExact /\ ProductsExact /\ ShiftsExact /\ DivisionsExact
=============================================================================
