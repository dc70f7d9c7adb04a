------------------------------ MODULE MCNumbers ------------------------------
(* Small words for TLC: six bits to a digit and three to a half digit.     *)
EXTENDS Numbers

DigitsOf(n) == LET size == CHOOSE k \in 0 .. 5 : n < Base^k
               IN [i \in 1 .. size |-> (n \div Base^(i - 1)) % Base]
Number(n) == Simplify(n < 0, DigitsOf(Magnitude(n)))
Both(S) == S \cup {IntegerNegate(n) : n \in S}

(* Around the borders of fixnums, digits, half digits and their powers.    *)
Borders ==
  Both({Number(n) : n \in {0, 1, 5, 9, 15, 16, 17, 63, 64, 65, 127, 128, 2047, 2048,
                           4032, 4095, 4096, 3969, 127487, 258048, 262143, 262144,
                           262145, 1044480}})

(* For division by parts, and for lengths the others do not have.          *)
Wide ==
  Both({Big(FALSE, d) : d \in {<<63, 63>>, <<1, 32>>, <<0, 0, 1>>, <<63, 0, 32>>,
          <<5, 0, 63, 7>>, <<63, 63, 63, 63, 63, 63>>, <<0, 0, 0, 0, 0, 1>>,
          <<9, 33, 0, 0, 62, 17>>, <<1, 0, 63, 32, 31, 30, 63>>}})

Reals ==
  {Exact(n) : n \in {0, 1, -1, 2, -3, 15, -16, 31, 65, -65, 700, -700}}
    \cup {Rat(1, 2), Rat(-1, 3), Rat(5, 6), Rat(-3, 2), Rat(7, 2), Rat(65, 64),
          Rat(-64, 65), Rat(1, 12), Rat(-127, 10), Rat(9, 8), Rat(11, 8),
          Rat(13, 4)}
    \cup {Flo(0, 0), Flo(1, 0), Flo(-1, 0), Flo(3, -1), Flo(-3, -1), Flo(1, -1), Flo(-5, -2),
          Flo(1, -4), Flo(7, 0), Flo(5, 2), Flo(-7, 3), Flo(1, 6),
          Infinite(FALSE), Infinite(TRUE), NotANumber}

Compound ==
  {Exact(n) : n \in {0, 1, -2, 16}} \cup {Rat(1, 2), Rat(-2, 3), Flo(3, -1), Flo(0, 0)}
    \cup {Cplx(Exact(1), Exact(1)), Cplx(Exact(-3), Exact(2)), Cplx(Exact(1), Exact(-1)),
          Cplx(Rat(1, 2), Exact(17)), Cplx(Exact(0), Rat(-1, 3)),
          Cplx(Flo(1, 0), Flo(-1, 0)), Cplx(Flo(3, -1), Flo(1, 0))}

Digitwise == {Borders, Wide}
RealsAndCompound == {Reals, Compound}
LeastExponent == -5
ShiftDistances == {-20, -13, -12, -11, -7, -6, -5, -1, 0, 1, 2, 3, 6, 7, 12}
=============================================================================
