-------------------------- MODULE CalculationProofs --------------------------
(***************************************************************************)
(* Integer division is exact, by every algorithm of C_i_bignum_divrem and  *)
(* for integers of any size; and so is everything DigitCalculations does   *)
(* with integers.                                                          *)
(***************************************************************************)
EXTENDS DigitCalculations, DigitProofs

(* A trial quotient of the three leading half digits num of the numerator  *)
(* by the two leading half digits den of the denominator.                  *)
IsTrial(e, num, den) ==
  /\ e \in HalfDigit /\ e * den <= num
  /\ e < Half - 1 => num < (e + 1) * den

(* The k-th correction of a first estimate q with its remainder r.         *)
TooLarge(q, r, k, d, d2, low) ==
  (q - k) * d2 > Combine(r + k * d, low) /\ r + k * d < Half
Corrections(q, r, d, d2, low) ==
  CHOOSE k \in 0 .. q : ~TooLarge(q, r, k, d, d2, low)
                        /\ \A i \in 0 .. k - 1 : TooLarge(q, r, i, d, d2, low)
FirstGuess(hat, d) == IF hat \div d >= Half THEN Half - 1 ELSE hat \div d
Trial(hat, d, d2, low) ==
  FirstGuess(hat, d)
    - Corrections(FirstGuess(hat, d), hat - FirstGuess(hat, d) * d, d, d2, low)

LEMMA EstimateIsTrial ==
  ASSUME NEW u, NEW v, NEW n, NEW j
  PROVE  Estimate(u, v, n, j)
           = Trial(Combine(u[j + n + 1], u[j + n]), v[n], v[n - 1], u[j + n - 1])
BY DEF Estimate, Trial, Corrections, TooLarge, FirstGuess

(* A correction is due as long as the product is above the numerator.      *)
LEMMA TooLargeMeans ==
  ASSUME NEW hat \in Nat, NEW d \in HalfDigit, NEW d2 \in HalfDigit, NEW low \in HalfDigit,
         NEW q \in HalfDigit, NEW r \in Int, r = hat - q * d, NEW k \in 0 .. q
  PROVE  TooLarge(q, r, k, d, d2, low) <=> (q - k) * Combine(d, d2) > Combine(hat, low)
<1> DEFINE e == q - k  s == r + k * d
<1>0. /\ Half \in Int /\ Half >= 4 /\ d \in Int /\ d2 \in Int /\ low \in Int /\ q \in Int /\ k \in Int
      /\ 0 <= d /\ 0 <= d2 /\ d2 <= Half - 1 /\ 0 <= low /\ low < Half /\ q <= Half - 1 /\ hat \in Int
      /\ 0 <= k /\ k <= q
  BY HalfFacts DEF HalfDigit
<1>1. e \in Int /\ s \in Int /\ 0 <= e /\ e <= Half - 1
  BY <1>0
<1>2. s = hat - e * d
  <2>1. (q - k) * d = q * d - k * d /\ q * d \in Int /\ k * d \in Int
    BY <1>0, Distribute
  <2> DEFINE a == q * d  b == k * d
  <2>2. a \in Int /\ b \in Int /\ e * d = a - b /\ r = hat - a /\ s = r + b
    BY <2>1
  <2> HIDE DEF a, b, e, s
  <2> QED
    BY <2>2, <1>0
<1>3. e * Combine(d, d2) = (e * d) * Half + e * d2
  BY <1>0, <1>1 DEF Combine
<1>4. Combine(hat, low) = (e * d) * Half + (s * Half + low)
  <2> DEFINE p == e * d
  <2>1. p \in Int /\ hat = p + s
    BY <1>0, <1>1, <1>2, Distribute
  <2> HIDE DEF p, s, e
  <2>2. hat * Half = p * Half + s * Half /\ p * Half \in Int /\ s * Half \in Int
    BY <1>0, <1>1, <2>1, Distribute
  <2> QED
    BY <1>0, <2>2 DEF Combine, p
<1>5. e * d2 <= (Half - 1) * (Half - 1)
  BY <1>0, <1>1
<1>6. s >= Half => s * Half >= Half * Half
  BY <1>0, <1>1, Monotone
<1>7. Combine(s, low) = s * Half + low
  BY DEF Combine
<1> DEFINE f == e * d2  g == s * Half  h == (e * d) * Half
<1>8. f \in Int /\ g \in Int /\ h \in Int
  BY <1>0, <1>1, Distribute
<1>9. (Half - 1) * (Half - 1) = Half * Half - 2 * Half + 1 /\ Half * Half \in Int
  BY <1>0
<1>10. TooLarge(q, r, k, d, d2, low) <=> f > g + low /\ s < Half
  BY <1>7 DEF TooLarge
<1> HIDE DEF e, s, f, g, h
<1>11. s >= Half => ~(f > g + low)
  <2> DEFINE w == Half * Half
  <2>1. w \in Int /\ f <= w - 2 * Half + 1 /\ (s >= Half => g >= w)
    BY <1>5, <1>6, <1>9 DEF f, g
  <2> HIDE DEF w
  <2> QED
    BY <2>1, <1>0, <1>8
<1>12. e * Combine(d, d2) > Combine(hat, low) <=> f > g + low
  BY <1>3, <1>4, <1>8, <1>0 DEF f, g, h
<1> QED
  BY <1>1, <1>10, <1>11, <1>12, <1>0 DEF e

LEMMA CorrectionsExact ==
  ASSUME NEW hat \in Nat, NEW d \in HalfDigit, NEW d2 \in HalfDigit, NEW low \in HalfDigit,
         NEW q \in HalfDigit, NEW r \in Int, r = hat - q * d
  PROVE  LET k == Corrections(q, r, d, d2, low)
         IN /\ k \in 0 .. q /\ (q - k) * Combine(d, d2) <= Combine(hat, low)
            /\ k > 0 => (q - k + 1) * Combine(d, d2) > Combine(hat, low)
<1> DEFINE large(k) == TooLarge(q, r, k, d, d2, low)  T == {k \in 0 .. q : ~large(k)}
           k0 == Corrections(q, r, d, d2, low)
<1>0. q \in Int /\ 0 <= q /\ d \in Int /\ d2 \in Int /\ Half \in Int /\ low \in Int /\ 0 <= low
  BY HalfFacts DEF HalfDigit
<1>1. q \in T
  <2>1. q \in 0 .. q
    BY <1>0
  <2>2. (q - q) * Combine(d, d2) = 0 /\ Combine(hat, low) >= 0
    <3>1. Combine(d, d2) \in Int /\ hat * Half >= 0 /\ hat * Half \in Int
      BY <1>0, HalfFacts DEF Combine
    <3> QED
      BY <1>0, <3>1 DEF Combine
  <2>4. Combine(hat, low) \in Int
    BY <1>0 DEF Combine
  <2> DEFINE a == Combine(hat, low)  b == (q - q) * Combine(d, d2)
  <2>3. large(q) <=> b > a
    BY <2>1, TooLargeMeans
  <2> HIDE DEF large
  <2>5. ~(b > a)
    <3>1. a \in Int /\ a >= 0 /\ b = 0
      BY <2>2, <2>4
    <3> HIDE DEF a, b
    <3> QED
      BY <3>1
  <2> QED
    BY <2>1, <2>3, <2>5
<1>2. PICK k \in T : \A m \in T : k <= m
  <2>1. T \subseteq Nat /\ T # {}
    BY <1>0, <1>1
  <2> HIDE DEF T
  <2> QED
    BY <2>1, Least
<1>3. k \in 0 .. q /\ ~large(k) /\ \A i \in 0 .. k - 1 : large(i)
  <2>1. k \in 0 .. q /\ ~large(k)
    BY <1>2
  <2>2. ASSUME NEW i \in 0 .. k - 1 PROVE large(i)
    <3>1. i \in 0 .. q /\ ~(k <= i)
      BY <1>0, <2>1, <2>2
    <3> HIDE DEF large
    <3> QED
      BY <1>2, <3>1
  <2> QED
    BY <2>1, <2>2
<1>4. /\ k0 \in 0 .. q /\ ~TooLarge(q, r, k0, d, d2, low)
      /\ \A i \in 0 .. k0 - 1 : TooLarge(q, r, i, d, d2, low)
  <2> HIDE DEF T, k0
  <2>1. k0 = CHOOSE m \in 0 .. q : ~large(m) /\ \A i \in 0 .. m - 1 : large(i)
    BY DEF Corrections, k0
  <2> HIDE DEF large
  <2>2. k0 \in 0 .. q /\ ~large(k0) /\ \A i \in 0 .. k0 - 1 : large(i)
    BY <1>3, <2>1
  <2> QED
    BY <2>2 DEF large
<1> HIDE DEF k0
<1>5. Combine(d, d2) \in Int /\ Combine(hat, low) \in Int /\ k0 \in Int
  BY <1>0, <1>4 DEF Combine
<1>6. (q - k0) * Combine(d, d2) <= Combine(hat, low)
  <2>1. ~((q - k0) * Combine(d, d2) > Combine(hat, low))
    BY <1>4, TooLargeMeans
  <2>2. (q - k0) * Combine(d, d2) \in Int
    BY <1>0, <1>5, Distribute
  <2> QED
    BY <1>5, <2>1, <2>2
<1>7. ASSUME k0 > 0 PROVE (q - k0 + 1) * Combine(d, d2) > Combine(hat, low)
  <2> DEFINE i == k0 - 1
  <2>1. i \in 0 .. k0 - 1 /\ i \in 0 .. q /\ q - i = q - k0 + 1
    BY <1>0, <1>4, <1>5, <1>7
  <2> HIDE DEF i
  <2>2. TooLarge(q, r, i, d, d2, low)
    BY <1>4, <2>1
  <2>3. (q - i) * Combine(d, d2) > Combine(hat, low)
    BY <2>1, <2>2, TooLargeMeans
  <2> QED
    BY <2>1, <2>3
<1> QED
  BY <1>4, <1>6, <1>7 DEF k0

(* bignum_destructive_divide_normalized: the estimate is the quotient of   *)
(* three half digits by two, or the largest half digit.                    *)
LEMMA TrialExact ==
  ASSUME NEW hat \in Nat, NEW d \in HalfDigit, d > 0, NEW d2 \in HalfDigit, NEW low \in HalfDigit
  PROVE  IsTrial(Trial(hat, d, d2, low), Combine(hat, low), Combine(d, d2))
<1> DEFINE p == hat \div d  q == FirstGuess(hat, d)  r == hat - q * d
           k == Corrections(q, r, d, d2, low)  N == Combine(hat, low)  D == Combine(d, d2)
<1>0. /\ Half \in Int /\ Half >= 4 /\ d \in Int /\ d2 \in Int /\ 0 <= d2 /\ low \in Int /\ 0 <= low
      /\ low < Half /\ hat \in Int /\ hat >= 0
  BY HalfFacts DEF HalfDigit
<1>1. p \in Int /\ hat = d * p + (hat % d) /\ (hat % d) \in 0 .. d - 1
  BY <1>0, DivMod
<1>2. p >= 0
  <2>1. CASE p <= -1
    <3>1. p * d <= (-1) * d /\ p * d = d * p /\ d * p \in Int
      BY <1>0, <1>1, <2>1, Monotone, Distribute
    <3> DEFINE a == d * p  b == hat % d
    <3>2. a \in Int /\ a <= -d /\ b \in 0 .. d - 1 /\ hat = a + b
      BY <3>1, <1>1, <1>0
    <3> HIDE DEF a, b
    <3> QED
      BY <3>2, <1>0
  <2> QED
    BY <1>1, <2>1
<1>3. q \in HalfDigit /\ q \in Int /\ (q < Half - 1 => q = p)
  BY <1>0, <1>1, <1>2 DEF FirstGuess, HalfDigit
<1> HIDE DEF q
<1>4. r \in Int
  BY <1>0, <1>3
<1> HIDE DEF r, k
<1>5. /\ k \in 0 .. q /\ (q - k) * D <= N /\ (k > 0 => (q - k + 1) * D > N)
  <2>1. r = hat - q * d
    BY DEF r
  <2> QED
    BY <1>3, <1>4, <2>1, CorrectionsExact DEF k
<1> DEFINE e == q - k
<1>6. Trial(hat, d, d2, low) = e
  BY DEF Trial, q, r, k
<1>7. e \in HalfDigit /\ e \in Int /\ k \in Int
  BY <1>3, <1>5, <1>0 DEF HalfDigit
<1>8. D \in Int /\ N \in Int
  BY <1>0 DEF Combine
<1>9. ASSUME e < Half - 1 PROVE N < (e + 1) * D
  <2>1. CASE k > 0
    <3>1. q - k + 1 = e + 1
      BY <1>3, <1>7
    <3>2. (e + 1) * D > N
      BY <1>5, <2>1, <3>1
    <3>3. (e + 1) * D \in Int
      BY <1>7, <1>8, Distribute
    <3> DEFINE f == (e + 1) * D
    <3> HIDE DEF f, N
    <3> QED
      BY <3>2, <3>3, <1>8 DEF f
  <2>2. CASE ~(k > 0)
    <3>1. e = p
      BY <1>3, <1>5, <1>7, <1>9, <2>2
    <3>2. (p + 1) * d >= hat + 1
      <4>1. (p + 1) * d = d * p + d /\ d * p \in Int
        BY <1>0, <1>1
      <4> DEFINE a == d * p  b == hat % d  c == (p + 1) * d
      <4>2. c = a + d /\ a \in Int /\ b \in 0 .. d - 1 /\ hat = a + b
        BY <4>1, <1>1
      <4> HIDE DEF a, b, c
      <4> QED
        BY <4>2, <1>0 DEF c
    <3> DEFINE a == (p + 1) * d  b == (p + 1) * d2
    <3>3. (p + 1) * D = a * Half + b /\ a \in Int /\ b \in Int /\ b >= 0
      BY <1>0, <1>1, <1>2 DEF Combine
    <3> HIDE DEF a, b, D
    <3>4. a * Half >= (hat + 1) * Half
      BY <3>2, <3>3, <1>0, Monotone DEF a
    <3>5. (hat + 1) * Half = hat * Half + Half /\ hat * Half \in Int /\ a * Half \in Int
      BY <1>0, <3>3
    <3> DEFINE f == a * Half  g == hat * Half  h == (p + 1) * D
    <3>6. h = f + b /\ f >= g + Half /\ f \in Int /\ g \in Int /\ N = g + low
      BY <3>3, <3>4, <3>5 DEF Combine
    <3> HIDE DEF f, g, h, N
    <3>7. N < h
      BY <3>3, <3>6, <1>0
    <3> QED
      BY <3>1, <3>7 DEF h
  <2> QED
    BY <2>1, <2>2
<1> HIDE DEF e
<1> QED
  BY <1>5, <1>6, <1>7, <1>9 DEF IsTrial, e

(* The half digits of u above place j.                                     *)
Segment(u, j, n) == DigitsValue(Half, [i \in 1 .. n |-> u[i + j]], n)

(* One half digit of the subtraction, and of the addition afterwards, in   *)
(* bignum_destructive_divide_normalized.                                   *)
SubtractStep(qhat) ==
  [p \in HalfDigit \X HalfDigit |-> [k \in HalfDigit |->
     LET m == qhat * p[2]
         t == p[1] - k - Lo(m)
     IN <<Lo(t), Hi(m) - Hi(t)>>]]
AddStep ==
  [p \in HalfDigit \X HalfDigit |-> [k \in HalfDigit |->
     LET s == p[1] + p[2] + k IN <<Lo(s), Hi(s)>>]]

LEMMA SubtractStepParts ==
  ASSUME NEW e \in HalfDigit, NEW p \in HalfDigit \X HalfDigit, NEW k \in HalfDigit
  PROVE  /\ SubtractStep(e)[p][k][1] \in HalfDigit /\ SubtractStep(e)[p][k][2] \in HalfDigit
         /\ SubtractStep(e)[p][k][1] - Half * SubtractStep(e)[p][k][2] = (p[1] - e * p[2]) - k
<1> DEFINE a == p[1]  b == p[2]  m == e * b  t == a - k - Lo(m)  c == Hi(m) - Hi(t)  o == Lo(t)
<1>1. a \in HalfDigit /\ b \in HalfDigit
  OBVIOUS
<1>2. SubtractStep(e)[p][k] = <<o, c>>
  BY DEF SubtractStep
<1> HIDE DEF a, b
<1>3. /\ a \in Int /\ b \in Int /\ e \in Int /\ k \in Int /\ Half \in Int /\ Half >= 4
      /\ 0 <= a /\ a <= Half - 1 /\ 0 <= b /\ b <= Half - 1 /\ 0 <= e /\ e <= Half - 1
      /\ 0 <= k /\ k <= Half - 1
  BY <1>1, HalfFacts DEF HalfDigit
<1>4. m \in Int /\ 0 <= m /\ m <= (Half - 1) * (Half - 1)
  BY <1>3
<1>5. (Half - 1) * (Half - 1) = (Half - 1) * Half - Half + 1 /\ (Half - 1) * Half \in Int
  BY <1>3
<1> HIDE DEF m
<1>6. Hi(m) \in Int /\ Lo(m) \in Int /\ m = Half * Hi(m) + Lo(m)
  BY <1>4, HiLo
<1>7. t \in Int
  BY <1>3, <1>6
<1> HIDE DEF t
<1>8. Hi(t) \in Int /\ o \in Int /\ o \in HalfDigit /\ 0 <= o /\ o < Half /\ t = Half * Hi(t) + o
  BY <1>7, HiLo
<1> HIDE DEF o
<1>9. c \in Int /\ Half * c = Half * Hi(m) - Half * Hi(t)
  BY <1>6, <1>8, <1>3
<1> HIDE DEF c
<1> DEFINE f == Half * c  g == Half * Hi(m)  h == Half * Hi(t)
<1>10. f \in Int /\ g \in Int /\ h \in Int /\ f = g - h /\ m = g + Lo(m) /\ t = h + o
  BY <1>3, <1>6, <1>8, <1>9
<1> HIDE DEF f, g, h
<1>11. o - f = (a - m) - k
  BY <1>3, <1>4, <1>6, <1>8, <1>10 DEF t
<1> DEFINE w == (Half - 1) * Half
<1>12. w \in Int /\ m <= w - Half + 1
  BY <1>4, <1>5
<1> HIDE DEF w
<1>13. f > -Half /\ f < w + Half
  BY <1>3, <1>4, <1>8, <1>10, <1>11, <1>12
<1>14. c >= 0
  <2>1. CASE c <= -1
    <3>1. c * Half <= (-1) * Half /\ c * Half = f
      BY <1>3, <1>9, <2>1, Monotone, Distribute DEF f
    <3> QED
      BY <3>1, <1>3, <1>10, <1>13
  <2> QED
    BY <1>9, <2>1
<1>15. c <= Half - 1
  <2>1. CASE c >= Half
    <3>1. Half * Half <= c * Half /\ c * Half = f
      BY <1>3, <1>9, <2>1, Monotone, Distribute DEF f
    <3>2. Half * Half = w + Half
      BY <1>3 DEF w
    <3> QED
      BY <3>1, <3>2, <1>3, <1>10, <1>12, <1>13
  <2> QED
    BY <1>3, <1>9, <2>1
<1>16. c \in HalfDigit
  BY <1>3, <1>9, <1>14, <1>15 DEF HalfDigit
<1> QED
  BY <1>2, <1>8, <1>11, <1>16 DEF f, m, a, b

LEMMA AddStepParts ==
  ASSUME NEW p \in HalfDigit \X HalfDigit, NEW k \in HalfDigit
  PROVE  /\ AddStep[p][k][1] \in HalfDigit /\ AddStep[p][k][2] \in HalfDigit
         /\ AddStep[p][k][1] + Half * AddStep[p][k][2] = (p[1] + p[2]) + k
<1> DEFINE a == p[1]  b == p[2]  s == a + b + k
<1>1. a \in HalfDigit /\ b \in HalfDigit
  OBVIOUS
<1>2. AddStep[p][k] = <<Lo(s), Hi(s)>>
  BY DEF AddStep
<1> HIDE DEF a, b
<1>3. /\ a \in Int /\ b \in Int /\ k \in Int /\ Half \in Int /\ Half >= 4
      /\ 0 <= a /\ a <= Half - 1 /\ 0 <= b /\ b <= Half - 1 /\ 0 <= k /\ k <= Half - 1
  BY <1>1, HalfFacts DEF HalfDigit
<1>4. s \in Int /\ 0 <= s /\ s < 4 * Half /\ s = (a + b) + k
  BY <1>3
<1> HIDE DEF s
<1>5. Lo(s) \in HalfDigit /\ Lo(s) \in Int /\ Hi(s) \in Int /\ s = Half * Hi(s) + Lo(s)
  BY <1>4, HiLo
<1>6. 0 <= Hi(s) /\ Hi(s) < 4
  <2>1. s < Half * 4 /\ 4 \in Int
    BY <1>3, <1>4
  <2> QED
    BY <1>4, <2>1, HiBounds
<1>7. Hi(s) \in HalfDigit
  BY <1>3, <1>5, <1>6 DEF HalfDigit
<1> DEFINE f == Half * Hi(s)
<1>8. f \in Int /\ s = f + Lo(s)
  BY <1>3, <1>5
<1> HIDE DEF f
<1>9. Lo(s) + f = (a + b) + k
  BY <1>4, <1>5, <1>8
<1> QED
  BY <1>2, <1>5, <1>7, <1>9 DEF f, a, b

(* A loop over pairs of half digits that adds m times the second, with     *)
(* carries f, to the first.                                                *)
Takes(r, u, j, v, n, m, s) ==
  /\ r[1] \in Seq(HalfDigit) /\ Len(r[1]) = n /\ r[2] \in HalfDigit
  /\ DigitsValue(Half, r[1], n) + (s * r[2]) * Power(Half, n)
       = Segment(u, j, n) + m * DigitsValue(Half, v, n)

LEMMA PairLoop ==
  ASSUME NEW n \in Nat, NEW j \in Nat, NEW u, NEW v, NEW m \in Int, NEW s \in Int, NEW step,
         \A i \in 1 .. n : u[i + j] \in HalfDigit /\ v[i] \in HalfDigit,
         \A p \in HalfDigit \X HalfDigit, k \in HalfDigit :
           /\ step[p][k][1] \in HalfDigit /\ step[p][k][2] \in HalfDigit
           /\ step[p][k][1] + Half * (s * step[p][k][2]) = (p[1] + m * p[2]) + s * k,
         NEW d, d = [i \in 1 .. n |-> <<u[i + j], v[i]>>]
  PROVE  Takes(Upward(step, 0, d), u, j, v, n, m, s)
<1> DEFINE D == HalfDigit \X HalfDigit  row == Upward(step, 0, d)
           in == [i \in 1 .. n |-> u[i + j] + m * v[i]]  seg == [i \in 1 .. n |-> u[i + j]]
<1>0. n \in Nat /\ Half \in Int /\ HalfDigit \subseteq Int /\ 0 \in HalfDigit
  BY HalfFacts DEF HalfDigit
<1> HIDE DEF row
<1>4. d \in Seq(D) /\ Len(d) = n
  <2>1. d \in [1 .. n -> D]
    OBVIOUS
  <2> HIDE DEF D
  <2> QED
    BY <1>0, <2>1
<1>6. \A i \in 1 .. n : d[i][1] = u[i + j] /\ d[i][2] = v[i] /\ d[i] \in D
  OBVIOUS
<1>5. \A p \in D, k \in HalfDigit : step[p][k][1] \in HalfDigit /\ step[p][k][2] \in HalfDigit
  OBVIOUS
<1>50. ASSUME NEW p \in D, NEW k \in HalfDigit
      PROVE step[p][k][1] + Half * (s * step[p][k][2]) = (p[1] + m * p[2]) + s * k
  BY <1>50
<1> HIDE DEF D
<1>7. Loops(Upward(step, 0, d), step, 0, d, HalfDigit, HalfDigit)
  BY <1>0, <1>4, <1>5, UpwardIsLoop
<1>8. PICK c : IsLoop(row[1], c, step, 0, d, HalfDigit, HalfDigit) /\ row[2] = c[Len(d)]
  BY <1>7 DEF Loops, row
<1>9. /\ row[1] \in Seq(HalfDigit) /\ Len(row[1]) = n /\ c \in [0 .. n -> HalfDigit] /\ c[0] = 0
      /\ \A i \in 1 .. n : row[1][i] = step[d[i]][c[i - 1]][1] /\ c[i] = step[d[i]][c[i - 1]][2]
      /\ row[2] = c[n]
  BY <1>4, <1>8 DEF IsLoop
<1>10. \A i \in 0 .. n : c[i] \in HalfDigit /\ c[i] \in Int
  BY <1>0, <1>9
<1>11. \A i \in 1 .. n : row[1][i] \in HalfDigit
  BY <1>9
<1>12. \A i \in 1 .. n : row[1][i] \in Int
  BY <1>11, <1>0
<1>13. \A i \in 1 .. n : in[i] = u[i + j] + m * v[i] /\ seg[i] = u[i + j]
  OBVIOUS
<1>15. \A i \in 1 .. n : v[i] \in Int /\ u[i + j] \in Int
  BY <1>0
<1> DEFINE f == [i \in 0 .. n |-> s * c[i]]
<1>21. \A i \in 0 .. n : f[i] = s * c[i] /\ f[i] \in Int
  BY <1>10, Distribute
<1> HIDE DEF in, seg, f
<1>14. ASSUME NEW i \in 1 .. n PROVE row[1][i] + Half * f[i] = in[i] + f[i - 1]
  <2>1. i - 1 \in 0 .. n /\ i \in 0 .. n
    BY <1>0
  <2>2. c[i - 1] \in HalfDigit /\ d[i] \in D
    BY <2>1, <1>6, <1>10
  <2>3. step[d[i]][c[i - 1]][1] + Half * (s * step[d[i]][c[i - 1]][2])
          = (d[i][1] + m * d[i][2]) + s * c[i - 1]
    BY <2>2, <1>50
  <2>4. f[i] = s * c[i] /\ f[i - 1] = s * c[i - 1]
    BY <2>1, <1>21
  <2> QED
    BY <2>3, <2>4, <1>6, <1>9, <1>13
<1>16. \A i \in 1 .. n : in[i] \in Int /\ seg[i] \in Int /\ v[i] \in Int /\ in[i] = seg[i] + m * v[i]
  BY <1>0, <1>13, <1>15
<1> DEFINE o == row[1]
<1>22. \A i \in 1 .. n : in[i] \in Int /\ o[i] \in Int
  BY <1>12, <1>16
<1>23. \A i \in 0 .. n : f[i] \in Int
  BY <1>21
<1>24. \A i \in 1 .. n : o[i] + Half * f[i] = in[i] + f[i - 1]
  BY <1>14
<1> HIDE DEF o
<1>17. SameValue(Half, n, in, o, f)
  BY <1>0, <1>22, <1>23, <1>24, LoopKeepsValue
<1>18. IsLinear(Half, in, seg, m, v, n)
  BY <1>0, <1>16, ValueLinear
<1>19. DigitsValue(Half, o, n) + f[n] * Power(Half, n) = DigitsValue(Half, in, n) + f[0]
  BY <1>0, <1>17 DEF SameValue
<1>20. DigitsValue(Half, in, n) \in Int
  BY <1>0, <1>16, ValueInt
<1>25. f[0] = 0 /\ f[n] = s * row[2]
  BY <1>0, <1>9, <1>21
<1>26. DigitsValue(Half, o, n) + (s * row[2]) * Power(Half, n)
         = DigitsValue(Half, seg, n) + m * DigitsValue(Half, v, n)
  BY <1>18, <1>19, <1>20, <1>25 DEF IsLinear
<1>27. row[2] \in HalfDigit
  BY <1>0, <1>9, <1>10
<1> QED
  BY <1>9, <1>26, <1>27 DEF Takes, Segment, o, seg, row

LEMMA TopTwo ==
  ASSUME NEW n \in Nat, NEW d, \A i \in 1 .. n + 2 : d[i] \in Int
  PROVE  /\ DigitsValue(Half, d, n + 2)
              = Combine(d[n + 2], d[n + 1]) * Power(Half, n) + DigitsValue(Half, d, n)
         /\ Combine(d[n + 2], d[n + 1]) \in Int
<1> DEFINE p == Power(Half, n)  v == DigitsValue(Half, d, n)  a == d[n + 1]  b == d[n + 2]
           v1 == DigitsValue(Half, d, n + 1)  v2 == DigitsValue(Half, d, n + 2)
<1>1. Half \in Int /\ p \in Int /\ a \in Int /\ b \in Int /\ n + 1 \in Nat /\ (n + 1) + 1 = n + 2
  BY HalfFacts, PowerInt
<1>2. v \in Int
  BY <1>1, ValueInt
<1>3. v1 = v + a * p
  BY <1>1, OneMoreDigit
<1>4. v2 = v1 + b * Power(Half, n + 1)
  BY <1>1, OneMoreDigit
<1>5. Power(Half, n + 1) = Half * p
  BY <1>1, PowerNext
<1> DEFINE q == Power(Half, n + 1)
<1> HIDE DEF p, v, a, b, v1, v2, q
<1>6. v2 = (v + a * p) + b * (Half * p)
  BY <1>3, <1>4, <1>5 DEF q
<1>7. (b * Half + a) * p = b * (Half * p) + a * p
  BY <1>1
<1>8. a * p \in Int /\ b * (Half * p) \in Int /\ b * Half + a \in Int
  BY <1>1
<1> DEFINE f == a * p  g == b * (Half * p)  h == (b * Half + a) * p
<1>9. v2 = (v + f) + g /\ h = g + f /\ f \in Int /\ g \in Int
  BY <1>6, <1>7, <1>8
<1> HIDE DEF f, g, h
<1>10. v2 = h + v
  BY <1>2, <1>9
<1> QED
  BY <1>8, <1>10 DEF Combine, h, v2, v, p, a, b

LEMMA TopThree ==
  ASSUME NEW n \in Nat, NEW d, \A i \in 1 .. n + 3 : d[i] \in Int
  PROVE  /\ DigitsValue(Half, d, n + 3)
              = Combine(Combine(d[n + 3], d[n + 2]), d[n + 1]) * Power(Half, n)
                + DigitsValue(Half, d, n)
         /\ Combine(Combine(d[n + 3], d[n + 2]), d[n + 1]) \in Int
<1> DEFINE p == Power(Half, n)  v == DigitsValue(Half, d, n)  a == d[n + 1]
           c == Combine(d[n + 3], d[n + 2])
           v1 == DigitsValue(Half, d, n + 1)  v3 == DigitsValue(Half, d, n + 3)
<1>1. Half \in Int /\ p \in Int /\ a \in Int /\ n + 1 \in Nat /\ (n + 1) + 1 = n + 2 /\ (n + 1) + 2 = n + 3
  BY HalfFacts, PowerInt
<1>2. v \in Int
  BY <1>1, ValueInt
<1>3. v1 = v + a * p
  BY <1>1, OneMoreDigit
<1> DEFINE k == n + 1
<1>4. v3 = c * Power(Half, n + 1) + v1 /\ c \in Int
  <2>1. k \in Nat /\ k + 2 = n + 3 /\ k + 1 = n + 2
    BY <1>1
  <2> HIDE DEF k
  <2>2. \A i \in 1 .. k + 2 : d[i] \in Int
    BY <2>1
  <2>3. /\ DigitsValue(Half, d, k + 2)
             = Combine(d[k + 2], d[k + 1]) * Power(Half, k) + DigitsValue(Half, d, k)
        /\ Combine(d[k + 2], d[k + 1]) \in Int
    BY <2>1, <2>2, TopTwo
  <2>4. /\ DigitsValue(Half, d, n + 3)
             = Combine(d[n + 3], d[n + 2]) * Power(Half, k) + DigitsValue(Half, d, k)
        /\ Combine(d[n + 3], d[n + 2]) \in Int
    BY <2>1, <2>3
  <2> QED
    BY <2>4 DEF k
<1>5. Power(Half, n + 1) = Half * p
  BY <1>1, PowerNext
<1> DEFINE q == Power(Half, n + 1)
<1> HIDE DEF p, v, a, c, v1, v3, q
<1>6. v3 = c * (Half * p) + (v + a * p)
  BY <1>3, <1>4, <1>5 DEF q
<1>7. (c * Half + a) * p = c * (Half * p) + a * p
  BY <1>1, <1>4
<1>8. a * p \in Int /\ c * (Half * p) \in Int /\ c * Half + a \in Int
  BY <1>1, <1>4
<1> DEFINE f == a * p  g == c * (Half * p)  h == (c * Half + a) * p
<1>9. v3 = g + (v + f) /\ h = g + f /\ f \in Int /\ g \in Int
  BY <1>6, <1>7, <1>8
<1> HIDE DEF f, g, h
<1>10. v3 = h + v
  BY <1>2, <1>9
<1> QED
  BY <1>8, <1>10 DEF Combine, h, v3, v, p, a, c

(* Knuth's theorem about the estimate: it is right, or one too large.      *)
LEMMA TrialBounds ==
  ASSUME NEW w \in Int, w > 0, NEW num \in Int, NEW den \in Int, NEW e, IsTrial(e, num, den),
         NEW low \in 0 .. w - 1, NEW low2 \in 0 .. w - 1, den >= Half,
         NEW U \in Int, U = num * w + low, NEW V \in Int, V = den * w + low2, U < Half * V
  PROVE  /\ e \in HalfDigit /\ e * V \in Int
         /\ -V < U - e * V /\ U - e * V < V
<1>0. Half \in Int /\ Half >= 4 /\ low \in Int /\ 0 <= low /\ low < w /\ low2 \in Int /\ 0 <= low2 /\ low2 < w
  BY HalfFacts
<1>1. e \in HalfDigit /\ e \in Int /\ 0 <= e /\ e <= Half - 1 /\ e * den <= num
      /\ (e < Half - 1 => num < (e + 1) * den)
  BY HalfFacts DEF IsTrial, HalfDigit
<1>2. e * V \in Int /\ e * V = (e * den) * w + e * low2
  BY <1>0, <1>1
<1>3. (e * den) * w <= num * w
  BY <1>0, <1>1, Monotone, Distribute
<1>4. e * low2 <= (Half - 1) * w
  <2>1. e * low2 <= (Half - 1) * low2
    BY <1>0, <1>1, Monotone
  <2>2. low2 * (Half - 1) <= w * (Half - 1)
    BY <1>0, Monotone
  <2>3. low2 * (Half - 1) = (Half - 1) * low2 /\ w * (Half - 1) = (Half - 1) * w
        /\ e * low2 \in Int /\ (Half - 1) * low2 \in Int /\ (Half - 1) * w \in Int
    BY <1>0, <1>1, Distribute
  <2> DEFINE a == e * low2  b == (Half - 1) * low2  c == (Half - 1) * w
  <2>4. a <= b /\ b <= c /\ a \in Int /\ b \in Int /\ c \in Int
    BY <2>1, <2>2, <2>3
  <2> HIDE DEF a, b, c
  <2>5. a <= c
    BY <2>4
  <2> QED
    BY <2>5 DEF a, c
<1>5. Half * w <= den * w
  BY <1>0, Monotone
<1>6. (Half - 1) * w = Half * w - w
  BY <1>0
<1> DEFINE A == (e * den) * w  B == num * w  C == e * low2  D == Half * w  F == den * w  E == e * V
<1>7. /\ A \in Int /\ B \in Int /\ C \in Int /\ D \in Int /\ F \in Int /\ E \in Int /\ E = A + C /\ A <= B
      /\ C <= D - w /\ D <= F /\ U = B + low /\ V = F + low2
  BY <1>0, <1>1, <1>2, <1>3, <1>4, <1>5, <1>6
<1>8. U - E < V
  <2>1. CASE e = Half - 1
    <3>1. E = Half * V - V /\ Half * V \in Int
      BY <1>0, <2>1
    <3> DEFINE z == Half * V
    <3> HIDE DEF E, z
    <3> QED
      BY <3>1, <1>7 DEF z
  <2>2. CASE e < Half - 1
    <3>1. num + 1 <= (e + 1) * den /\ (e + 1) * den \in Int
      BY <1>1, <2>2, Distribute
    <3> DEFINE g == (e + 1) * den
    <3>2. (num + 1) * w <= g * w
      <4>1. g \in Int /\ num + 1 \in Int /\ num + 1 <= g
        BY <3>1
      <4> HIDE DEF g
      <4> QED
        BY <4>1, <1>0, Monotone
    <3>3. (num + 1) * w = B + w
      BY <1>0
    <3>4. g * w = A + F
      BY <1>0, <1>1
    <3> DEFINE h == g * w
    <3>5. B + w <= h /\ h = A + F
      BY <3>2, <3>3, <3>4
    <3>6. C >= 0
      BY <1>0, <1>1
    <3> HIDE DEF A, B, C, D, E, F, h
    <3> QED
      BY <3>5, <3>6, <1>7, <1>0
  <2> QED
    BY <1>0, <1>1, <2>1, <2>2
<1>9. -V < U - E
  <2> HIDE DEF A, B, C, D, E, F
  <2> QED
    BY <1>0, <1>7
<1> QED
  BY <1>1, <1>2, <1>8, <1>9

LEMMA SegmentFacts ==
  ASSUME NEW size \in Nat, NEW u \in HalfDigits(size), NEW j \in Nat, NEW n \in Nat, j + n <= size
  PROVE  /\ \A i \in 1 .. n : u[i + j] \in HalfDigit /\ u[i + j] \in Int
         /\ Segment(u, j, n) \in 0 .. Power(Half, n) - 1 /\ Segment(u, j, n) \in Int
         /\ Power(Half, n) \in Int /\ Power(Half, n) > 0
<1> DEFINE d == [i \in 1 .. n |-> u[i + j]]
<1>0. Half \in Int /\ Half > 0
  BY HalfFacts
<1>1. \A k \in 1 .. size : u[k] \in HalfDigit /\ u[k] \in Int
  BY HalfDigitSequence
<1>2. \A i \in 1 .. n : u[i + j] \in HalfDigit /\ u[i + j] \in Int
  <2> TAKE i \in 1 .. n
  <2>1. i + j \in 1 .. size
    OBVIOUS
  <2> QED
    BY <1>1, <2>1
<1>3. \A i \in 1 .. n : d[i] \in 0 .. Half - 1
  BY <1>2 DEF HalfDigit
<1>4. Power(Half, n) \in Int /\ Power(Half, n) > 0
  BY <1>0, PowerPositive
<1> HIDE DEF d
<1>5. DigitsValue(Half, d, n) \in 0 .. Power(Half, n) - 1
  BY <1>0, <1>3, ValueBounds
<1> QED
  BY <1>2, <1>4, <1>5 DEF Segment, d

LEMMA SegmentSplits ==
  ASSUME NEW size \in Nat, NEW u \in HalfDigits(size), NEW j \in Nat, NEW l \in Nat, j + l <= size
  PROVE  /\ DigitsValue(Half, u, j + l)
              = DigitsValue(Half, u, j) + Power(Half, j) * Segment(u, j, l)
         /\ DigitsValue(Half, u, j) \in Int
<1> DEFINE e == [i \in 1 .. l |-> u[i + j]]
<1>0. Half \in Int
  BY HalfFacts
<1>1. \A k \in 1 .. size : u[k] \in Int
  BY HalfDigitSequence
<1>2. \A k \in 1 .. j + l : u[k] \in Int
  BY <1>1
<1>3. \A k \in 1 .. j : u[k] \in Int
  BY <1>1
<1>4. \A i \in 1 .. l : e[i] = u[j + i]
  OBVIOUS
<1> HIDE DEF e
<1>5. Splits(Half, u, e, j, l)
  BY <1>0, <1>2, <1>4, ValueSplits
<1>6. DigitsValue(Half, u, j) \in Int
  BY <1>0, <1>3, ValueInt
<1> QED
  BY <1>5, <1>6 DEF Splits, Segment, e

(* Half digits that only differ in a segment.                              *)
LEMMA SegmentAlone ==
  ASSUME NEW size \in Nat, NEW r \in HalfDigits(size), NEW s \in HalfDigits(size),
         NEW j \in Nat, NEW l \in Nat, j + l <= size,
         \A k \in 1 .. j : s[k] = r[k], \A k \in j + l + 1 .. size : s[k] = r[k]
  PROVE  Adds(r, s, Segment(r, j, l) - Segment(s, j, l), j, size)
<1> DEFINE t == j + l  P == Power(Half, j)  f == Segment(r, j, l)  g == Segment(s, j, l)
           V(d, k) == DigitsValue(Half, d, k)
<1>0. Half \in Int /\ t \in Nat /\ t <= size /\ P \in Int
  BY HalfFacts, PowerInt
<1>1. f \in Int /\ g \in Int
  BY SegmentFacts
<1>2. V(r, j + l) = V(r, j) + P * f /\ V(r, j) \in Int
  BY SegmentSplits
<1>3. V(s, j + l) = V(s, j) + P * g /\ V(s, j) \in Int
  BY SegmentSplits
<1>4. \A k \in 1 .. size : r[k] \in Int /\ s[k] \in Int
  BY HalfDigitSequence
<1>5. V(s, j) = V(r, j)
  <2>1. \A k \in 1 .. j : r[k] \in Int /\ s[k] = r[k]
    BY <1>0, <1>4
  <2>2. V(r, j) = V(s, j)
    BY <1>0, <2>1, SameDigits
  <2> QED
    BY <2>2
<1>6. V(r, size) - V(r, t) = V(s, size) - V(s, t)
  <2>1. \A k \in t + 1 .. size : r[k] = s[k]
    OBVIOUS
  <2> HIDE DEF t
  <2>2. RiseAlike(Half, r, s, t, size)
    BY <1>0, <1>4, <2>1, SameAbove
  <2> QED
    BY <2>2 DEF RiseAlike
<1>7. V(r, size) \in Int /\ V(s, size) \in Int
  BY <1>0, <1>4, ValueInt
<1> DEFINE a == V(r, size)  b == V(s, size)  c == V(r, t)  d == V(s, t)  z == V(r, j)
<1>8. (f - g) * P = P * f - P * g /\ P * f \in Int /\ P * g \in Int
  BY <1>0, <1>1
<1> DEFINE pf == P * f  pg == P * g  h == (f - g) * P
<1>9. /\ c = z + pf /\ d = z + pg /\ a - c = b - d /\ h = pf - pg /\ pf \in Int /\ pg \in Int
      /\ a \in Int /\ b \in Int /\ z \in Int
  BY <1>2, <1>3, <1>5, <1>6, <1>7, <1>8
<1> HIDE DEF a, b, c, d, z, pf, pg, h
<1>10. a = b + h
  BY <1>9
<1> QED
  BY <1>10 DEF Adds, a, b, h, f, g, P

(* A segment that is replaced by half digits with a zero above.            *)
IsReplaced(s, u, part, n, j, size) ==
  /\ s \in HalfDigits(size)
  /\ Adds(u, s, Segment(u, j, n + 1) - DigitsValue(Half, part, n), j, size)
  /\ Segment(s, j, n) = DigitsValue(Half, part, n)
  /\ s[j + n + 1] = 0 /\ \A k \in j + n + 2 .. size : s[k] = u[k]

LEMMA ReplacedExact ==
  ASSUME NEW size \in Nat, NEW u \in HalfDigits(size), NEW j \in Nat, NEW n \in Nat,
         j + n + 1 <= size, NEW part \in Seq(HalfDigit), Len(part) = n
  PROVE  IsReplaced(Replaced(u, j, Append(part, 0)), u, part, n, j, size)
<1> DEFINE e == Append(part, 0)  l == n + 1  s == Replaced(u, j, e)
<1>0. l \in Nat /\ 0 \in HalfDigit /\ HalfDigit \subseteq Int /\ Half \in Int
  BY HalfFacts DEF HalfDigit
<1>1. e \in Seq(HalfDigit) /\ Len(e) = l /\ e[l] = 0 /\ \A i \in 1 .. n : e[i] = part[i]
  BY <1>0
<1>2. \A i \in 1 .. l : e[i] \in HalfDigit
  BY <1>1
<1>3. u \in Seq(HalfDigit) /\ DOMAIN u = 1 .. size /\ \A k \in 1 .. size : u[k] \in HalfDigit
  BY HalfDigitSequence
<1>4. s = [i \in 1 .. size |-> IF i \in j + 1 .. j + l THEN e[i - j] ELSE u[i]]
  BY <1>1, <1>3 DEF Replaced
<1> HIDE DEF e, s
<1>5. ASSUME NEW k \in 1 .. size
      PROVE  /\ s[k] \in HalfDigit
             /\ k \in j + 1 .. j + l => s[k] = e[k - j]
             /\ k \notin j + 1 .. j + l => s[k] = u[k]
  <2>1. CASE k \in j + 1 .. j + l
    <3>1. k - j \in 1 .. l
      BY <1>0, <2>1
    <3>2. s[k] = e[k - j]
      BY <1>4, <2>1
    <3> QED
      BY <1>2, <2>1, <3>1, <3>2
  <2>2. CASE k \notin j + 1 .. j + l
    BY <1>3, <1>4, <2>2
  <2> QED
    BY <2>1, <2>2
<1>6. s \in HalfDigits(size)
  <2>1. s \in [1 .. size -> HalfDigit]
    BY <1>4, <1>5
  <2> QED
    BY <2>1 DEF HalfDigits
<1>7. (\A k \in 1 .. j : s[k] = u[k]) /\ (\A k \in j + l + 1 .. size : s[k] = u[k])
  BY <1>0, <1>5
<1>8. \A i \in 1 .. l : s[i + j] = e[i]
  <2> TAKE i \in 1 .. l
  <2>1. i + j \in 1 .. size /\ i + j \in j + 1 .. j + l /\ (i + j) - j = i
    BY <1>0
  <2>2. s[i + j] = e[(i + j) - j]
    BY <1>5, <2>1
  <2> QED
    BY <2>1, <2>2
<1>9. s[j + n + 1] = 0
  <2>1. l \in 1 .. l /\ l + j = j + n + 1
    BY <1>0
  <2>2. s[l + j] = e[l]
    BY <1>8, <2>1
  <2> QED
    BY <1>1, <2>1, <2>2
<1> DEFINE f == [i \in 1 .. n |-> s[i + j]]  g == [i \in 1 .. l |-> s[i + j]]
<1>10. \A i \in 1 .. n : part[i] \in Int /\ f[i] = part[i]
  <2> TAKE i \in 1 .. n
  <2>1. i \in 1 .. l /\ part[i] \in HalfDigit
    BY <1>0
  <2> QED
    BY <1>0, <1>1, <1>8, <2>1
<1>11. \A i \in 1 .. n + 1 : g[i] = e[i] /\ g[i] \in Int
  <2> TAKE i \in 1 .. n + 1
  <2>1. i \in 1 .. l
    OBVIOUS
  <2> QED
    BY <2>1, <1>0, <1>2, <1>8
<1>12. \A i \in 1 .. n : part[i] \in Int /\ g[i] = part[i]
  <2> TAKE i \in 1 .. n
  <2>1. i \in 1 .. n + 1
    OBVIOUS
  <2> HIDE DEF f, g
  <2> QED
    BY <2>1, <1>1, <1>10, <1>11
<1>13. g[n + 1] = 0
  BY <1>1, <1>11
<1>14. Segment(s, j, n) = DigitsValue(Half, f, n)
  BY DEF Segment
<1>15. Segment(s, j, l) = DigitsValue(Half, g, n + 1)
  BY DEF Segment
<1> HIDE DEF f, g
<1>16. DigitsValue(Half, part, n) = DigitsValue(Half, f, n)
  BY <1>0, <1>10, SameDigits
<1>17. DigitsValue(Half, part, n) = DigitsValue(Half, g, n)
  BY <1>0, <1>12, SameDigits
<1>18. DigitsValue(Half, g, n + 1) = DigitsValue(Half, g, n) + g[n + 1] * Power(Half, n)
  BY <1>0, <1>11, OneMoreDigit
<1>19. DigitsValue(Half, part, n) \in Int /\ Power(Half, n) \in Int
  BY <1>0, <1>10, ValueInt, PowerInt
<1>20. Segment(s, j, l) = DigitsValue(Half, part, n)
  BY <1>13, <1>15, <1>17, <1>18, <1>19
<1>21. Adds(u, s, Segment(u, j, l) - Segment(s, j, l), j, size)
  <2>1. j + l <= size
    OBVIOUS
  <2> HIDE DEF l
  <2> QED
    BY <1>0, <1>6, <1>7, <2>1, SegmentAlone
<1>22. \A k \in j + n + 2 .. size : s[k] = u[k]
  BY <1>7
<1> QED
  BY <1>6, <1>9, <1>14, <1>16, <1>20, <1>21, <1>22 DEF IsReplaced, s, e

LEMMA SegmentTop ==
  ASSUME NEW size \in Nat, NEW u \in HalfDigits(size), NEW j \in Nat, NEW n \in Nat,
         j + n + 1 <= size
  PROVE  /\ Segment(u, j, n + 1) = Segment(u, j, n) + u[j + n + 1] * Power(Half, n)
         /\ u[j + n + 1] \in HalfDigit
<1> DEFINE d == [i \in 1 .. n + 1 |-> u[i + j]]  c == [i \in 1 .. n |-> u[i + j]]  l == n + 1
<1>0. Half \in Int /\ n \in Nat
  BY HalfFacts
<1>1. l \in Nat /\ j + l <= size
  OBVIOUS
<1> HIDE DEF l
<1>2. \A i \in 1 .. l : u[i + j] \in HalfDigit /\ u[i + j] \in Int
  BY <1>1, SegmentFacts
<1>3. \A i \in 1 .. n + 1 : d[i] = u[i + j] /\ d[i] \in Int
  BY <1>2 DEF l
<1>4. \A i \in 1 .. n : c[i] \in Int /\ d[i] = c[i]
  <2> TAKE i \in 1 .. n
  <2>1. i \in 1 .. n + 1
    OBVIOUS
  <2> HIDE DEF d
  <2> QED
    BY <2>1, <1>3
<1>5. d[n + 1] = u[j + n + 1] /\ u[j + n + 1] \in HalfDigit
  <2>1. n + 1 \in 1 .. n + 1 /\ (n + 1) + j = j + n + 1
    OBVIOUS
  <2> HIDE DEF d
  <2> QED
    BY <2>1, <1>2, <1>3 DEF l
<1> HIDE DEF d, c
<1>6. DigitsValue(Half, d, n + 1) = DigitsValue(Half, d, n) + d[n + 1] * Power(Half, n)
  BY <1>0, <1>3, OneMoreDigit
<1>7. DigitsValue(Half, c, n) = DigitsValue(Half, d, n)
  BY <1>0, <1>4, SameDigits
<1>8. Segment(u, j, n + 1) = DigitsValue(Half, d, n + 1) /\ Segment(u, j, n) = DigitsValue(Half, c, n)
  BY DEF Segment, d, c
<1> QED
  BY <1>5, <1>6, <1>7, <1>8

LEMMA SubtractedExact ==
  ASSUME NEW n \in Nat, NEW j \in Nat, NEW u, NEW v, NEW e \in HalfDigit,
         \A i \in 1 .. n : u[i + j] \in HalfDigit /\ v[i] \in HalfDigit
  PROVE  Takes(Subtracted(u, v, n, j, e), u, j, v, n, -e, -1)
<1> DEFINE d == [i \in 1 .. n |-> <<u[i + j], v[i]>>]  step == SubtractStep(e)  m == -e  s == -1
<1>1. Subtracted(u, v, n, j, e) = Upward(step, 0, d)
  BY DEF Subtracted, SubtractStep
<1>2. m \in Int /\ s \in Int /\ e \in Int /\ Half \in Int
  BY HalfFacts
<1>3. ASSUME NEW p \in HalfDigit \X HalfDigit, NEW k \in HalfDigit
      PROVE  /\ step[p][k][1] \in HalfDigit /\ step[p][k][2] \in HalfDigit
             /\ step[p][k][1] + Half * (s * step[p][k][2]) = (p[1] + m * p[2]) + s * k
  <2> DEFINE a == step[p][k][1]  c == step[p][k][2]  f == p[1]  g == p[2]
  <2>1. a \in HalfDigit /\ c \in HalfDigit /\ a - Half * c = (f - e * g) - k
    BY SubtractStepParts
  <2>2. f \in HalfDigit /\ g \in HalfDigit
    OBVIOUS
  <2>3. a \in Int /\ c \in Int /\ f \in Int /\ g \in Int /\ k \in Int
    BY <2>1, <2>2, HalfFacts
  <2> HIDE DEF a, c, f, g, step
  <2>4. m * g = -(e * g) /\ Half * (s * c) = -(Half * c) /\ s * k = -k /\ e * g \in Int /\ Half * c \in Int
    BY <1>2, <2>3
  <2> DEFINE mg == m * g  eg == e * g  hc == Half * c  hs == Half * (s * c)  sk == s * k
  <2>5. mg = -eg /\ hs = -hc /\ sk = -k /\ eg \in Int /\ hc \in Int /\ a - hc = (f - eg) - k
    BY <2>1, <2>4
  <2> HIDE DEF mg, eg, hc, hs, sk
  <2>6. a + hs = (f + mg) + sk
    BY <2>3, <2>5
  <2> QED
    BY <2>1, <2>6 DEF hs, mg, sk, a, c, f, g
<1>4. d = [i \in 1 .. n |-> <<u[i + j], v[i]>>]
  OBVIOUS
<1>5. \A p \in HalfDigit \X HalfDigit, k \in HalfDigit :
        /\ step[p][k][1] \in HalfDigit /\ step[p][k][2] \in HalfDigit
        /\ step[p][k][1] + Half * (s * step[p][k][2]) = (p[1] + m * p[2]) + s * k
  BY <1>3
<1> HIDE DEF step, m, s, d
<1>6. Takes(Upward(step, 0, d), u, j, v, n, m, s)
  BY <1>2, <1>4, <1>5, PairLoop
<1> QED
  BY <1>1, <1>6 DEF m, s

LEMMA AddedExact ==
  ASSUME NEW n \in Nat, NEW less \in Seq(HalfDigit), Len(less) = n, NEW v,
         \A i \in 1 .. n : v[i] \in HalfDigit
  PROVE  Takes(Added(less, v, n), less, 0, v, n, 1, 1)
<1> DEFINE d == [i \in 1 .. n |-> <<less[i + 0], v[i]>>]  step == AddStep  one == 1  zero == 0
<1>1. Added(less, v, n) = Upward(step, 0, d)
  <2>1. d = [i \in 1 .. n |-> <<less[i], v[i]>>]
    OBVIOUS
  <2>2. Added(less, v, n) = Upward(step, 0, [i \in 1 .. n |-> <<less[i], v[i]>>])
    BY DEF Added, AddStep
  <2> HIDE DEF d, step
  <2> QED
    BY <2>1, <2>2
<1>2. one \in Int /\ zero \in Nat /\ Half \in Int
  BY HalfFacts
<1>3. ASSUME NEW p \in HalfDigit \X HalfDigit, NEW k \in HalfDigit
      PROVE  /\ step[p][k][1] \in HalfDigit /\ step[p][k][2] \in HalfDigit
             /\ step[p][k][1] + Half * (one * step[p][k][2]) = (p[1] + one * p[2]) + one * k
  <2> DEFINE a == step[p][k][1]  c == step[p][k][2]  f == p[1]  g == p[2]
  <2>1. a \in HalfDigit /\ c \in HalfDigit /\ a + Half * c = (f + g) + k
    BY AddStepParts
  <2>2. f \in HalfDigit /\ g \in HalfDigit
    OBVIOUS
  <2>3. a \in Int /\ c \in Int /\ f \in Int /\ g \in Int /\ k \in Int
    BY <2>1, <2>2, HalfFacts
  <2> HIDE DEF a, c, f, g, step
  <2>4. one * g = g /\ one * c = c /\ one * k = k
    BY <2>3
  <2> QED
    BY <2>1, <2>4 DEF a, c, f, g
<1>4. \A p \in HalfDigit \X HalfDigit, k \in HalfDigit :
        /\ step[p][k][1] \in HalfDigit /\ step[p][k][2] \in HalfDigit
        /\ step[p][k][1] + Half * (one * step[p][k][2]) = (p[1] + one * p[2]) + one * k
  BY <1>3
<1>5. \A i \in 1 .. n : less[i + zero] \in HalfDigit /\ v[i] \in HalfDigit
  <2> TAKE i \in 1 .. n
  <2>1. less[i] \in HalfDigit /\ i + zero = i
    OBVIOUS
  <2> QED
    BY <2>1
<1>6. d = [i \in 1 .. n |-> <<less[i + zero], v[i]>>]
  OBVIOUS
<1> HIDE DEF step, one, zero, d
<1>7. Takes(Upward(step, 0, d), less, zero, v, n, one, one)
  BY <1>2, <1>4, <1>5, <1>6, PairLoop
<1> QED
  BY <1>1, <1>7 DEF one, zero

LEMMA MinusOne == Lo(Lo(-1) + 1) = 0
<1>0. Half \in Int /\ Half >= 4
  BY HalfFacts
<1> DEFINE a == -1  r == Half - 1
<1>1. a \in Int /\ r \in 0 .. Half - 1 /\ a = Half * (-1) + r /\ -1 \in Int
  BY <1>0
<1> HIDE DEF a, r
<1>2. a % Half = r
  BY <1>0, <1>1, DivUnique
<1>3. Half % Half = 0
  <2>1. 0 \in 0 .. Half - 1 /\ Half = Half * 1 + 0 /\ 1 \in Int
    BY <1>0
  <2> QED
    BY <1>0, <2>1, DivUnique
<1>4. Lo(a) = r /\ r + 1 = Half
  BY <1>0, <1>2 DEF Lo, r
<1> QED
  BY <1>3, <1>4 DEF Lo, a

(* What a step of the division leaves: q times the denominator is taken    *)
(* from u at place j, and what is left above it is less than that.         *)
Advanced(d, u, V, n, j, size) ==
  /\ d.q \in HalfDigit /\ d.u \in HalfDigits(size)
  /\ Adds(u, d.u, d.q * V, j, size)
  /\ Segment(d.u, j, n) < V
  /\ \A k \in j + n + 1 .. size : d.u[k] = 0

LEMMA PlacedExact ==
  ASSUME NEW size \in Nat, NEW u \in HalfDigits(size), NEW j \in Nat, NEW n \in Nat, j + n + 1 <= size,
         \A k \in j + n + 2 .. size : u[k] = 0,
         NEW part \in Seq(HalfDigit), Len(part) = n, NEW q \in HalfDigit, NEW V \in Int, NEW z \in Int,
         z = q * V, DigitsValue(Half, part, n) = Segment(u, j, n + 1) - z,
         DigitsValue(Half, part, n) < V
  PROVE  Advanced([q |-> q, u |-> Replaced(u, j, Append(part, 0))], u, V, n, j, size)
<1> DEFINE s == Replaced(u, j, Append(part, 0))  d == [q |-> q, u |-> s]  U == Segment(u, j, n + 1)
           p == DigitsValue(Half, part, n)
<1>1. IsReplaced(s, u, part, n, j, size)
  BY ReplacedExact
<1> HIDE DEF s
<1>2. U \in Int
  BY SegmentFacts
<1>3. /\ s \in HalfDigits(size) /\ Adds(u, s, U - p, j, size) /\ Segment(s, j, n) = p
      /\ s[j + n + 1] = 0 /\ \A k \in j + n + 2 .. size : s[k] = u[k]
  BY <1>1 DEF IsReplaced
<1> HIDE DEF U, p
<1>4. U - p = z
  BY <1>2 DEF U, p
<1>5. \A k \in j + n + 1 .. size : s[k] = 0
  <2> TAKE k \in j + n + 1 .. size
  <2>1. k = j + n + 1 \/ k \in j + n + 2 .. size
    OBVIOUS
  <2> QED
    BY <2>1, <1>3
<1>6. d.q = q /\ d.u = s
  OBVIOUS
<1> HIDE DEF d
<1>7. Segment(s, j, n) < V
  BY <1>3 DEF p
<1> QED
  BY <1>3, <1>4, <1>5, <1>6, <1>7 DEF Advanced, d, s

(* The first carry out of the segment tells whether too much was taken.    *)
LEMMA CarryIsSign ==
  ASSUME NEW W \in Int, W > 0, NEW L \in 0 .. W - 1, NEW t \in Int, NEW R \in Int, R = L + t * W,
         NEW V \in Int, V < W, -V < R, R < V
  PROVE  (t < 0 <=> R < 0) /\ (t < 0 => t = -1) /\ (t >= 0 => t = 0)
<1>0. L \in Int /\ 0 <= L /\ L < W /\ t * W \in Int
  BY Distribute
<1>1. CASE t >= 1
  <2>1. 1 * W <= t * W
    BY <1>1, Monotone
  <2> DEFINE f == t * W
  <2>2. f \in Int /\ W <= f /\ R = L + f
    BY <1>0, <2>1
  <2> HIDE DEF f
  <2> QED
    BY <1>0, <2>2
<1>2. CASE t <= -2
  <2>1. t * W <= (-2) * W
    BY <1>2, Monotone
  <2> DEFINE f == t * W
  <2>2. f \in Int /\ f <= (-2) * W /\ R = L + f
    BY <1>0, <2>1
  <2> HIDE DEF f
  <2> QED
    BY <1>0, <2>2
<1>3. CASE t = 0
  BY <1>0, <1>3
<1>4. CASE t = -1
  BY <1>0, <1>4
<1> QED
  BY <1>1, <1>2, <1>3, <1>4

LEMMA WithEstimateExact ==
  ASSUME NEW size \in Nat, NEW u \in HalfDigits(size), NEW j \in Nat, NEW n \in Nat, j + n + 1 <= size,
         \A k \in j + n + 2 .. size : u[k] = 0,
         NEW v, \A i \in 1 .. n : v[i] \in HalfDigit,
         NEW V, V = DigitsValue(Half, v, n), NEW e \in HalfDigit,
         -V < Segment(u, j, n + 1) - e * V, Segment(u, j, n + 1) - e * V < V
  PROVE  Advanced(WithEstimate(u, v, n, j, e), u, V, n, j, size)
<1> DEFINE U == Segment(u, j, n + 1)  Z == e * V  R == U - Z  W == Power(Half, n)
           less == Subtracted(u, v, n, j, e)  L == DigitsValue(Half, less[1], n)
           b == u[j + n + 1]  t == b - less[2]  S == Segment(u, j, n)
<1>00. Half \in Int /\ Half > 0 /\ e \in Int /\ 0 <= e /\ e <= Half - 1 /\ HalfDigit \subseteq Int
  BY HalfFacts DEF HalfDigit
<1>1. /\ \A i \in 1 .. n : u[i + j] \in HalfDigit
      /\ S \in Int /\ W \in Int /\ W > 0
  <2>1. j + n <= size
    OBVIOUS
  <2> QED
    BY <2>1, SegmentFacts
<1>2. V \in 0 .. W - 1 /\ V \in Int /\ V < W
  <2>1. \A i \in 1 .. n : v[i] \in 0 .. Half - 1
    BY DEF HalfDigit
  <2>2. DigitsValue(Half, v, n) \in 0 .. Power(Half, n) - 1
    BY <1>00, <2>1, ValueBounds
  <2> QED
    BY <2>2, <1>1
<1>3. U \in Int /\ b \in HalfDigit /\ b \in Int /\ U = S + b * W
  <2>1. /\ Segment(u, j, n + 1) = Segment(u, j, n) + u[j + n + 1] * Power(Half, n)
        /\ u[j + n + 1] \in HalfDigit
    BY SegmentTop
  <2>2. u[j + n + 1] \in Int
    BY <2>1, <1>00
  <2>3. S + b * W \in Int
    BY <2>2, <1>1, Distribute
  <2> QED
    BY <2>1, <2>2, <2>3
<1>4. Z \in Int /\ R \in Int
  BY <1>00, <1>2, <1>3, Distribute
<1>5. Takes(less, u, j, v, n, -e, -1)
  BY <1>1, SubtractedExact
<1> HIDE DEF less
<1>6. /\ less[1] \in Seq(HalfDigit) /\ Len(less[1]) = n /\ less[2] \in HalfDigit
      /\ L + ((-1) * less[2]) * W = S + (-e) * V
  BY <1>5 DEF Takes
<1>7. less[2] \in Int /\ t \in Int
  <2>1. less[2] \in Int
    BY <1>00, <1>6
  <2> QED
    BY <1>3, <2>1
<1>8. L \in 0 .. W - 1 /\ L \in Int
  <2> DEFINE o == less[1]
  <2>1. \A i \in 1 .. n : o[i] \in HalfDigit
    BY <1>6
  <2>2. \A i \in 1 .. n : o[i] \in 0 .. Half - 1
    BY <2>1 DEF HalfDigit
  <2> HIDE DEF o
  <2>3. DigitsValue(Half, o, n) \in 0 .. Power(Half, n) - 1
    BY <1>00, <2>2, ValueBounds
  <2> QED
    BY <2>3, <1>1 DEF o
<1>9. R = L + t * W
  <2> DEFINE c == less[2]  bw == b * W  cw == c * W  nc == ((-1) * c) * W  ne == (-e) * V
  <2>1. t * W = bw - cw /\ nc = -cw /\ ne = -Z /\ bw \in Int /\ cw \in Int
    BY <1>00, <1>1, <1>2, <1>3, <1>7
  <2>2. L + nc = S + ne /\ U = S + bw
    BY <1>3, <1>6
  <2> DEFINE tw == t * W
  <2>3. tw = bw - cw
    BY <2>1
  <2> HIDE DEF bw, cw, nc, ne, L, S, Z, U, tw
  <2>4. U - Z = L + tw
    BY <2>1, <2>2, <2>3, <1>1, <1>3, <1>4, <1>8
  <2> QED
    BY <2>4 DEF tw
<1>10. -V < R /\ R < V
  OBVIOUS
<1> DEFINE out == WithEstimate(u, v, n, j, e)
<1>11. out = Corrected(u, v, n, j, e, less[1], t)
  BY DEF WithEstimate, AfterSubtraction, less
<1> HIDE DEF out, R, t, W, L, U, S
<1>12. (t < 0 <=> R < 0) /\ (t < 0 => t = -1) /\ (t >= 0 => t = 0)
  BY <1>1, <1>2, <1>4, <1>7, <1>8, <1>9, <1>10, CarryIsSign
<1>13. CASE t < 0
  <2> DEFINE lo == less[1]  more == Added(lo, v, n)  M == DigitsValue(Half, more[1], n)
  <2>1. out = [q |-> e - 1, u |-> Restored(u, j, t, more)]
    BY <1>11, <1>13 DEF Corrected, AddBack
  <2>2. lo \in Seq(HalfDigit) /\ Len(lo) = n /\ DigitsValue(Half, lo, n) = L
    BY <1>6 DEF L
  <2> HIDE DEF lo, more
  <2>3. Takes(more, lo, 0, v, n, 1, 1)
    BY <2>2, AddedExact DEF more
  <2>4. Segment(lo, 0, n) = L
    <3> DEFINE f == [i \in 1 .. n |-> lo[i + 0]]
    <3>1. \A i \in 1 .. n : lo[i] \in Int /\ f[i] = lo[i]
      <4> TAKE i \in 1 .. n
      <4>1. lo[i] \in HalfDigit /\ i + 0 = i
        BY <2>2
      <4> QED
        BY <4>1, <1>00
    <3>2. Segment(lo, 0, n) = DigitsValue(Half, f, n)
      BY DEF Segment
    <3> HIDE DEF f
    <3>3. DigitsValue(Half, lo, n) = DigitsValue(Half, f, n)
      BY <1>00, <3>1, SameDigits
    <3> QED
      BY <2>2, <3>2, <3>3
  <2>5. /\ more[1] \in Seq(HalfDigit) /\ Len(more[1]) = n /\ more[2] \in HalfDigit
        /\ M + (1 * more[2]) * W = L + 1 * V
    BY <2>3, <2>4 DEF Takes, W
  <2>6. M \in 0 .. W - 1 /\ M \in Int /\ more[2] \in Int
    <3> DEFINE o == more[1]
    <3>1. \A i \in 1 .. n : o[i] \in HalfDigit
      BY <2>5
    <3>2. \A i \in 1 .. n : o[i] \in 0 .. Half - 1
      BY <3>1 DEF HalfDigit
    <3> HIDE DEF o
    <3>3. DigitsValue(Half, o, n) \in 0 .. Power(Half, n) - 1
      BY <1>00, <3>2, ValueBounds
    <3>4. more[2] \in Int
      BY <1>00, <2>5
    <3> QED
      BY <3>3, <3>4, <1>1 DEF o, W
  <2>7. t = -1 /\ R < 0
    BY <1>12, <1>13
  <2>8. R = L - W
    <3>1. t * W = -W
      BY <2>7, <1>1
    <3> QED
      BY <1>9, <3>1, <1>1, <1>8
  <2> DEFINE c == more[2]
  <2>9. M + c * W = L + V /\ c \in Int
    <3>1. 1 * more[2] = more[2] /\ 1 * V = V
      BY <2>6, <1>2
    <3> QED
      BY <2>5, <2>6, <3>1
  <2> HIDE DEF c, M
  <2>10. c = 1
    <3>1. L + V >= W /\ L + V < 2 * W
      BY <1>1, <1>2, <1>4, <1>8, <1>10, <2>8
    <3>2. CASE c <= 0
      <4>1. c * W <= 0 * W
        BY <1>1, <2>9, <3>2, Monotone
      <4>2. c * W \in Int
        BY <1>1, <2>9, Distribute
      <4> DEFINE f == c * W
      <4> HIDE DEF f
      <4> QED
        BY <4>1, <4>2, <2>6, <2>9, <3>1, <1>1, <1>2, <1>8 DEF f
    <3>3. CASE c >= 2
      <4>1. 2 * W <= c * W
        BY <1>1, <2>9, <3>3, Monotone
      <4>2. c * W \in Int
        BY <1>1, <2>9, Distribute
      <4> DEFINE f == c * W
      <4> HIDE DEF f
      <4> QED
        BY <4>1, <4>2, <2>6, <2>9, <3>1, <1>1, <1>2, <1>8 DEF f
    <3> QED
      BY <2>9, <3>2, <3>3
  <2>11. M = R + V /\ M < V
    BY <2>6, <2>7, <2>8, <2>9, <2>10, <1>1, <1>2, <1>4, <1>8
  <2>12. Lo(Lo(t) + more[2]) = 0
    BY <2>7, <2>10, MinusOne DEF c
  <2> DEFINE part == more[1]
  <2>13. out = [q |-> e - 1, u |-> Replaced(u, j, Append(part, 0))]
    BY <2>1, <2>12 DEF Restored
  <2>14. e - 1 \in HalfDigit
    <3>1. CASE e = 0
      <4>1. Z = 0
        BY <3>1, <1>2
      <4>2. U >= 0
        <5> DEFINE l == n + 1
        <5>1. l \in Nat /\ j + l <= size
          OBVIOUS
        <5> HIDE DEF l
        <5>2. Segment(u, j, l) \in 0 .. Power(Half, l) - 1
          BY <5>1, SegmentFacts
        <5> QED
          BY <5>2 DEF U, l
      <4> QED
        BY <4>1, <4>2, <2>7, <1>3 DEF R
    <3> QED
      BY <3>1, <1>00 DEF HalfDigit
  <2>15. part \in Seq(HalfDigit) /\ Len(part) = n /\ DigitsValue(Half, part, n) = M
    BY <2>5 DEF M
  <2> DEFINE q == e - 1  z == Z - V
  <2>16. z = q * V /\ z \in Int
    BY <1>00, <1>2, <1>4
  <2>17. M = U - z
    BY <2>11, <1>2, <1>3, <1>4 DEF R
  <2>18. q \in HalfDigit
    BY <2>14
  <2> HIDE DEF q, z, part
  <2>19. DigitsValue(Half, part, n) = Segment(u, j, n + 1) - z /\ DigitsValue(Half, part, n) < V
    BY <2>11, <2>15, <2>17 DEF U
  <2>20. Advanced([q |-> q, u |-> Replaced(u, j, Append(part, 0))], u, V, n, j, size)
    BY <1>2, <2>15, <2>16, <2>18, <2>19, PlacedExact
  <2> QED
    BY <2>13, <2>20 DEF out, q
<1>14. CASE ~(t < 0)
  <2> DEFINE part == less[1]
  <2>1. out = [q |-> e, u |-> Replaced(u, j, Append(part, Lo(t)))]
    BY <1>11, <1>14 DEF Corrected, AddBack
  <2>2. t = 0
    BY <1>7, <1>12, <1>14
  <2>3. Lo(0) = 0
    <3>1. 0 \in 0 .. Half - 1 /\ 0 = Half * 0 + 0 /\ 0 \in Int
      BY <1>00
    <3> QED
      BY <3>1, <1>00, DivUnique DEF Lo
  <2>4. R = L
    BY <2>2, <1>1, <1>8, <1>9
  <2>5. part \in Seq(HalfDigit) /\ Len(part) = n /\ DigitsValue(Half, part, n) = L
    BY <1>6 DEF L
  <2> HIDE DEF part, Z
  <2>6. DigitsValue(Half, part, n) = Segment(u, j, n + 1) - Z /\ DigitsValue(Half, part, n) < V
    BY <2>4, <2>5, <1>10 DEF R, U
  <2>7. Z = e * V
    BY DEF Z
  <2>8. Advanced([q |-> e, u |-> Replaced(u, j, Append(part, 0))], u, V, n, j, size)
    BY <1>2, <1>4, <2>5, <2>6, <2>7, PlacedExact
  <2> QED
    BY <2>1, <2>2, <2>3, <2>8 DEF out
<1> QED
  BY <1>7, <1>13, <1>14 DEF out

(* The first n half digits of v make a denominator with the value V.       *)
IsDivisor(v, n, V) ==
  /\ n \in Nat /\ n >= 2 /\ \A i \in 1 .. n : v[i] \in HalfDigit
  /\ v[n] > 0 /\ V = DigitsValue(Half, v, n)

LEMMA DivisorBounds ==
  ASSUME NEW v, NEW n, NEW V, IsDivisor(v, n, V)
  PROVE  /\ n \in Nat /\ n >= 2 /\ V \in Int /\ V >= Power(Half, n - 1) /\ V < Power(Half, n)
         /\ Power(Half, n - 1) \in Int /\ Power(Half, n - 1) > 0 /\ V > 0
         /\ Power(Half, n) = Half * Power(Half, n - 1)
<1> DEFINE k == n - 1
<1>0. /\ n \in Nat /\ n >= 2 /\ \A i \in 1 .. n : v[i] \in HalfDigit
      /\ v[n] > 0 /\ V = DigitsValue(Half, v, n)
  BY DEF IsDivisor
<1>1. Half \in Int /\ Half > 0 /\ k \in Nat /\ k + 1 = n
  BY <1>0, HalfFacts
<1>2. \A i \in 1 .. n : v[i] \in 0 .. Half - 1
  BY <1>0 DEF HalfDigit
<1> HIDE DEF k
<1>3. (\A i \in 1 .. k + 1 : v[i] \in 0 .. Half - 1) /\ v[k + 1] # 0
  BY <1>0, <1>1, <1>2
<1>4. DigitsValue(Half, v, k + 1) >= Power(Half, k) /\ DigitsValue(Half, v, k + 1) \in Int
  BY <1>1, <1>3, TopDigit
<1>5. DigitsValue(Half, v, n) \in 0 .. Power(Half, n) - 1
  BY <1>0, <1>1, <1>2, ValueBounds
<1>6. Power(Half, k) \in Int /\ Power(Half, k) > 0
  BY <1>1, PowerPositive
<1>7. Power(Half, k + 1) = Half * Power(Half, k)
  BY <1>1, PowerNext
<1>8. Power(Half, n) \in Int
  BY <1>0, <1>1, PowerInt
<1> QED
  BY <1>0, <1>1, <1>4, <1>5, <1>6, <1>7, <1>8 DEF k

LEMMA SegmentBottom ==
  ASSUME NEW size \in Nat, NEW u \in HalfDigits(size), NEW j \in Nat, NEW n \in Nat,
         j + n + 1 <= size
  PROVE  /\ Segment(u, j, n + 1) = u[j + 1] + Half * Segment(u, j + 1, n)
         /\ u[j + 1] \in HalfDigit
<1> DEFINE l == n + 1  one == 1  d == [i \in 1 .. l |-> u[i + j]]  e == [i \in 1 .. n |-> u[i + (j + 1)]]
<1>0. Half \in Int /\ l \in Nat /\ j + l <= size /\ one \in Nat /\ one + n = l /\ n \in Nat
  BY HalfFacts
<1>1. Segment(u, j, n + 1) = DigitsValue(Half, d, l) /\ Segment(u, j + 1, n) = DigitsValue(Half, e, n)
  BY DEF Segment
<1>2. \A i \in 1 .. l : d[i] = u[i + j]
  OBVIOUS
<1>3. \A i \in 1 .. n : e[i] = d[one + i]
  OBVIOUS
<1> HIDE DEF l, d, e
<1>4. \A i \in 1 .. l : u[i + j] \in HalfDigit /\ u[i + j] \in Int
  BY <1>0, SegmentFacts
<1>5. \A i \in 1 .. one + n : d[i] \in Int
  BY <1>0, <1>2, <1>4
<1>6. d[1] = u[j + 1] /\ u[j + 1] \in HalfDigit /\ u[j + 1] \in Int
  <2>1. 1 \in 1 .. l /\ 1 + j = j + 1
    BY DEF l
  <2> QED
    BY <2>1, <1>2, <1>4
<1> HIDE DEF one
<1>7. Splits(Half, d, e, one, n)
  BY <1>0, <1>3, <1>5, ValueSplits
<1>8. DigitsValue(Half, d, l) = DigitsValue(Half, d, 1) + Power(Half, 1) * DigitsValue(Half, e, n)
  BY <1>0, <1>7 DEF Splits, one
<1>9. DigitsValue(Half, d, 1) = d[1]
  <2> DEFINE zero == 0
  <2>1. zero \in Nat /\ zero + 1 = 1
    OBVIOUS
  <2>2. \A i \in 1 .. zero + 1 : d[i] \in Int
    BY <1>6
  <2> HIDE DEF zero
  <2>3. DigitsValue(Half, d, zero + 1) = DigitsValue(Half, d, zero) + d[zero + 1] * Power(Half, zero)
    BY <1>0, <2>1, <2>2, OneMoreDigit
  <2>4. DigitsValue(Half, d, 0) = 0 /\ Power(Half, 0) = 1
    BY <1>0, NoDigits, PowerZero
  <2> QED
    BY <2>1, <2>3, <2>4, <1>6 DEF zero
<1>10. Power(Half, 1) = Half
  <2>1. Power(Half, 0 + 1) = Half * Power(Half, 0)
    BY <1>0, PowerNext
  <2>2. Power(Half, 0) = 1
    BY <1>0, PowerZero
  <2> QED
    BY <2>1, <2>2, <1>0
<1> QED
  BY <1>1, <1>6, <1>8, <1>9, <1>10

(* The estimate from three half digits of the numerator's segment.         *)
LEMMA EstimateExact ==
  ASSUME NEW size \in Nat, NEW u \in HalfDigits(size), NEW j \in Nat, NEW n \in Nat, j + n + 1 <= size,
         NEW v, NEW V, IsDivisor(v, n, V), Segment(u, j, n + 1) < Half * V
  PROVE  LET e == Estimate(u, v, n, j)
         IN /\ e \in HalfDigit /\ e * V \in Int
            /\ -V < Segment(u, j, n + 1) - e * V /\ Segment(u, j, n + 1) - e * V < V
<1> DEFINE k == n - 2  w == Power(Half, k)  U == Segment(u, j, n + 1)
           d == [i \in 1 .. n + 1 |-> u[i + j]]
           a == u[j + n + 1]  b == u[j + n]  c == u[j + n - 1]
           hat == Combine(a, b)  num == Combine(hat, c)  den == Combine(v[n], v[n - 1])
           e == Estimate(u, v, n, j)  low == DigitsValue(Half, d, k)  low2 == DigitsValue(Half, v, k)
<1>0. /\ Half \in Int /\ Half > 0 /\ n >= 2 /\ \A i \in 1 .. n : v[i] \in HalfDigit
      /\ v[n] > 0 /\ V = DigitsValue(Half, v, n) /\ HalfDigit \subseteq Int
  BY HalfFacts DEF IsDivisor
<1>1. k \in Nat /\ k + 2 = n /\ k + 3 = n + 1
  BY <1>0
<1>2. w \in Int /\ w > 0
  BY <1>0, <1>1, PowerPositive
<1>3. \A i \in 1 .. n + 1 : d[i] \in HalfDigit
  <2> DEFINE l == n + 1
  <2>1. l \in Nat /\ j + l <= size
    OBVIOUS
  <2> HIDE DEF l
  <2>2. \A i \in 1 .. l : u[i + j] \in HalfDigit
    BY <2>1, SegmentFacts
  <2> QED
    BY <2>2 DEF l
<1>4. d[n + 1] = a /\ d[n] = b /\ d[n - 1] = c
  BY <1>0
<1>5. a \in HalfDigit /\ b \in HalfDigit /\ c \in HalfDigit /\ v[n] \in HalfDigit /\ v[n - 1] \in HalfDigit
  <2>1. n + 1 \in 1 .. n + 1 /\ n \in 1 .. n + 1 /\ n - 1 \in 1 .. n + 1 /\ n \in 1 .. n /\ n - 1 \in 1 .. n
    BY <1>0
  <2> HIDE DEF a, b, c, d
  <2> QED
    BY <2>1, <1>0, <1>3, <1>4
<1>6. U = DigitsValue(Half, d, n + 1)
  BY DEF Segment
<1> HIDE DEF d, U, k
<1>7. U = num * w + low /\ num \in Int
  <2>1. \A i \in 1 .. k + 3 : d[i] \in Int
    BY <1>0, <1>1, <1>3
  <2>2. k + 2 = n /\ k + 1 = n - 1
    BY <1>1
  <2>3. /\ DigitsValue(Half, d, k + 3)
              = Combine(Combine(d[k + 3], d[k + 2]), d[k + 1]) * Power(Half, k) + DigitsValue(Half, d, k)
        /\ Combine(Combine(d[k + 3], d[k + 2]), d[k + 1]) \in Int
    BY <1>1, <2>1, TopThree
  <2> QED
    BY <1>1, <1>4, <1>6, <2>2, <2>3
<1>8. V = den * w + low2 /\ den \in Int
  <2>1. \A i \in 1 .. k + 2 : v[i] \in Int
    BY <1>0, <1>1
  <2>2. k + 2 = n /\ k + 1 = n - 1
    BY <1>1
  <2>3. /\ DigitsValue(Half, v, k + 2)
             = Combine(v[k + 2], v[k + 1]) * Power(Half, k) + DigitsValue(Half, v, k)
        /\ Combine(v[k + 2], v[k + 1]) \in Int
    BY <1>1, <2>1, TopTwo
  <2> QED
    BY <1>0, <2>2, <2>3
<1>9. low \in 0 .. w - 1 /\ low2 \in 0 .. w - 1
  <2>1. \A i \in 1 .. k : d[i] \in 0 .. Half - 1
    BY <1>1, <1>3 DEF HalfDigit
  <2>2. \A i \in 1 .. k : v[i] \in 0 .. Half - 1
    BY <1>0, <1>1 DEF HalfDigit
  <2>3. DigitsValue(Half, d, k) \in 0 .. Power(Half, k) - 1
    BY <1>0, <1>1, <2>1, ValueBounds
  <2>4. DigitsValue(Half, v, k) \in 0 .. Power(Half, k) - 1
    BY <1>0, <1>1, <2>2, ValueBounds
  <2> QED
    BY <2>3, <2>4
<1> DEFINE p == v[n]  q == v[n - 1]
<1>10. hat \in Nat
  <2>1. a \in Int /\ 0 <= a /\ b \in Int /\ 0 <= b
    BY <1>5, <1>0 DEF HalfDigit
  <2> HIDE DEF a, b
  <2>2. a * Half \in Int /\ 0 <= a * Half
    BY <2>1, <1>0
  <2> QED
    BY <2>1, <2>2 DEF Combine
<1>11. e = Trial(hat, p, q, c)
  BY EstimateIsTrial
<1>12. p \in HalfDigit /\ p > 0 /\ q \in HalfDigit /\ c \in HalfDigit
  BY <1>0, <1>5
<1> HIDE DEF hat, p, q, c, e
<1>13. IsTrial(e, num, Combine(p, q))
  BY <1>10, <1>11, <1>12, TrialExact
<1>14. IsTrial(e, num, den)
  BY <1>13 DEF p, q
<1>15. den >= Half
  <2>1. p \in Int /\ p >= 1 /\ q \in Int /\ q >= 0
    BY <1>0, <1>12 DEF HalfDigit
  <2>2. 1 * Half <= p * Half /\ p * Half \in Int
    BY <1>0, <2>1, Monotone, Distribute
  <2>3. den = p * Half + q
    BY DEF Combine, p, q
  <2> QED
    BY <1>0, <2>1, <2>2, <2>3
<1>16. U \in Int /\ V \in Int /\ U < Half * V
  <2>1. low \in Int /\ low2 \in Int
    BY <1>2, <1>9
  <2>2. U \in Int
    BY <1>2, <1>7, <2>1, Distribute
  <2>3. V \in Int
    BY <1>2, <1>8, <2>1, Distribute
  <2>4. U < Half * V
    BY DEF U
  <2> QED
    BY <2>2, <2>3, <2>4
<1> HIDE DEF num, den, low, low2, w
<1>17. e \in HalfDigit /\ e * V \in Int /\ -V < U - e * V /\ U - e * V < V
  BY <1>2, <1>7, <1>8, <1>9, <1>14, <1>15, <1>16, TrialBounds
<1> QED
  BY <1>17 DEF U, e

LEMMA QuotientDigitExact ==
  ASSUME NEW size \in Nat, NEW u \in HalfDigits(size), NEW j \in Nat, NEW n \in Nat, j + n + 1 <= size,
         \A k \in j + n + 2 .. size : u[k] = 0,
         NEW v, NEW V, IsDivisor(v, n, V), Segment(u, j + 1, n) < V
  PROVE  Advanced(QuotientDigit(u, v, n, j), u, V, n, j, size)
<1> DEFINE S == Segment(u, j + 1, n)  U == Segment(u, j, n + 1)
<1>0. Half \in Int /\ Half > 0 /\ 0 \in HalfDigit /\ HalfDigit \subseteq Int
  BY HalfFacts DEF HalfDigit
<1>1. V \in Int /\ V > 0 /\ n >= 2 /\ V >= Power(Half, n - 1)
  BY DivisorBounds
<1>2. CASE u[j + n + 1] = 0 /\ u[j + n] = 0
  <2> DEFINE d == [q |-> 0, u |-> u]  k == n - 1
  <2>1. QuotientDigit(u, v, n, j) = d
    BY <1>2 DEF QuotientDigit
  <2>2. d.q = 0 /\ d.u = u
    OBVIOUS
  <2>3. Adds(u, u, d.q * V, j, size)
    <3>1. 0 * V = 0 /\ 0 * Power(Half, j) = 0
      BY <1>0, <1>1, PowerInt
    <3>2. DigitsValue(Half, u, size) \in Int
      <4>1. \A i \in 1 .. size : u[i] \in Int
        BY HalfDigitSequence
      <4> QED
        BY <1>0, <4>1, ValueInt
    <3> QED
      BY <2>2, <3>1, <3>2 DEF Adds
  <2>4. Segment(u, j, n) < V
    <3>1. k \in Nat /\ j + k + 1 <= size /\ k + 1 = n /\ j + k <= size /\ j + k + 1 = j + n
      BY <1>1
    <3> HIDE DEF k
    <3>2. Segment(u, j, k + 1) = Segment(u, j, k) + u[j + k + 1] * Power(Half, k)
      BY <3>1, SegmentTop
    <3>3. /\ Segment(u, j, k) \in 0 .. Power(Half, k) - 1 /\ Segment(u, j, k) \in Int
          /\ Power(Half, k) \in Int
      BY <3>1, SegmentFacts
    <3>4. u[j + k + 1] = 0
      BY <1>2, <3>1
    <3>5. Segment(u, j, n) = Segment(u, j, k)
      BY <3>1, <3>2, <3>3, <3>4
    <3>6. Power(Half, k) <= V
      BY <1>1 DEF k
    <3> QED
      BY <3>3, <3>5, <3>6, <1>1
  <2>5. \A k1 \in j + n + 1 .. size : u[k1] = 0
    <3> TAKE k1 \in j + n + 1 .. size
    <3>1. k1 = j + n + 1 \/ k1 \in j + n + 2 .. size
      OBVIOUS
    <3> QED
      BY <1>2, <3>1
  <2> HIDE DEF d
  <2>6. Advanced(d, u, V, n, j, size)
    BY <1>0, <2>2, <2>3, <2>4, <2>5 DEF Advanced
  <2> QED
    BY <2>1, <2>6
<1>3. CASE ~(u[j + n + 1] = 0 /\ u[j + n] = 0)
  <2> DEFINE e == Estimate(u, v, n, j)
  <2>1. QuotientDigit(u, v, n, j) = WithEstimate(u, v, n, j, e)
    BY <1>3 DEF QuotientDigit
  <2>2. U = u[j + 1] + Half * S /\ u[j + 1] \in HalfDigit
    BY SegmentBottom
  <2>3. S \in Int
    <3> DEFINE l == j + 1
    <3>1. l \in Nat /\ l + n <= size
      OBVIOUS
    <3> HIDE DEF l
    <3>2. Segment(u, l, n) \in Int
      BY <3>1, SegmentFacts
    <3> QED
      BY <3>2 DEF l
  <2>4. U < Half * V
    <3>1. S + 1 <= V
      BY <1>1, <2>3
    <3> DEFINE a == u[j + 1]
    <3>2. a \in Int /\ a <= Half - 1
      BY <1>0, <2>2 DEF HalfDigit
    <3>3. (S + 1) * Half <= V * Half
      BY <1>0, <1>1, <2>3, <3>1, Monotone
    <3>4. (S + 1) * Half = Half * S + Half /\ V * Half = Half * V /\ Half * S \in Int /\ Half * V \in Int
      BY <1>0, <1>1, <2>3
    <3> DEFINE f == Half * S  g == Half * V
    <3>5. f \in Int /\ g \in Int /\ f + Half <= g /\ U = a + f
      BY <2>2, <3>3, <3>4
    <3> HIDE DEF f, g, a, U
    <3>6. U < g
      BY <3>2, <3>5, <1>0
    <3> QED
      BY <3>6 DEF g
  <2>5. /\ e \in HalfDigit /\ e * V \in Int
        /\ -V < Segment(u, j, n + 1) - e * V /\ Segment(u, j, n + 1) - e * V < V
    BY <2>4, EstimateExact
  <2>6. (\A i \in 1 .. n : v[i] \in HalfDigit) /\ V = DigitsValue(Half, v, n)
    BY DEF IsDivisor
  <2> HIDE DEF e, S, U
  <2>7. Advanced(WithEstimate(u, v, n, j, e), u, V, n, j, size)
    BY <2>5, <2>6, WithEstimateExact
  <2> QED
    BY <2>1, <2>7
<1> QED
  BY <1>2, <1>3

LEMMA PrependAmount ==
  ASSUME NEW d \in HalfDigit, NEW q \in Seq(HalfDigit)
  PROVE  /\ <<d>> \o q \in Seq(HalfDigit) /\ Len(<<d>> \o q) = Len(q) + 1
         /\ HalfAmount(<<d>> \o q) = d + Half * HalfAmount(q) /\ HalfAmount(q) \in Int
<1> DEFINE e == <<d>> \o q  n == Len(q)  one == 1
<1>0. Half \in Int /\ HalfDigit \subseteq Int /\ n \in Nat /\ one \in Nat
  BY HalfFacts
<1>1. e \in Seq(HalfDigit) /\ Len(e) = n + 1 /\ e[1] = d /\ \A i \in 1 .. n : e[i + 1] = q[i]
  OBVIOUS
<1>2. (\A i \in 1 .. n : q[i] \in HalfDigit) /\ (\A i \in 1 .. n + 1 : e[i] \in HalfDigit)
  BY <1>1
<1>3. (\A i \in 1 .. one + n : e[i] \in Int) /\ (\A i \in 1 .. n : q[i] \in Int /\ q[i] = e[one + i])
  <2>1. \A i \in 1 .. one + n : i \in 1 .. n + 1
    OBVIOUS
  <2>2. \A i \in 1 .. n : i + 1 = one + i
    OBVIOUS
  <2> HIDE DEF e, one
  <2> QED
    BY <2>1, <2>2, <1>0, <1>1, <1>2
<1> HIDE DEF e, n, one
<1>4. Splits(Half, e, q, one, n)
  BY <1>0, <1>3, ValueSplits
<1>5. DigitsValue(Half, e, n + 1) = DigitsValue(Half, e, 1) + Power(Half, 1) * DigitsValue(Half, q, n)
  <2>1. one + n = n + 1
    BY <1>0 DEF one
  <2> QED
    BY <1>4, <2>1 DEF Splits, one
<1>6. DigitsValue(Half, e, 1) = d
  <2> DEFINE zero == 0
  <2>1. zero \in Nat /\ zero + 1 = 1
    OBVIOUS
  <2>2. e[1] \in Int /\ \A i \in 1 .. zero + 1 : e[i] \in Int
    BY <1>0, <1>1
  <2> HIDE DEF zero
  <2>3. DigitsValue(Half, e, zero + 1) = DigitsValue(Half, e, zero) + e[zero + 1] * Power(Half, zero)
    BY <1>0, <2>1, <2>2, OneMoreDigit
  <2>4. DigitsValue(Half, e, 0) = 0 /\ Power(Half, 0) = 1
    BY <1>0, NoDigits, PowerZero
  <2> QED
    BY <2>1, <2>2, <2>3, <2>4, <1>1 DEF zero
<1>7. Power(Half, 1) = Half
  <2>1. Power(Half, 0 + 1) = Half * Power(Half, 0)
    BY <1>0, PowerNext
  <2>2. Power(Half, 0) = 1
    BY <1>0, PowerZero
  <2> QED
    BY <2>1, <2>2, <1>0
<1>8. DigitsValue(Half, q, n) \in Int
  BY <1>0, <1>3, ValueInt
<1>9. HalfAmount(e) = DigitsValue(Half, e, n + 1) /\ HalfAmount(q) = DigitsValue(Half, q, n)
  BY <1>1 DEF HalfAmount, n
<1> QED
  BY <1>1, <1>5, <1>6, <1>7, <1>8, <1>9 DEF e, n

(* The loop of bignum_destructive_divide_normalized, and what it keeps     *)
(* after the digits from m on, down to the one above j, have been found.   *)
Partial(size) == [q : Seq(HalfDigit), u : HalfDigits(size)]
NextPartial(p, v, n, j) ==
  [q |-> <<QuotientDigit(p.u, v, n, j).q>> \o p.q, u |-> QuotientDigit(p.u, v, n, j).u]
DividedTo(p, u, V, n, j, len, size) ==
  /\ Len(p.q) = len
  /\ DigitsValue(Half, u, size)
       = DigitsValue(Half, p.u, size) + (HalfAmount(p.q) * V) * Power(Half, j)
  /\ Segment(p.u, j, n) < V
  /\ \A k \in j + n + 1 .. size : p.u[k] = 0

LEMMA NextPartialExact ==
  ASSUME NEW size \in Nat, NEW u \in HalfDigits(size), NEW j \in Nat, NEW n \in Nat, j + n + 1 <= size,
         NEW v, NEW V, IsDivisor(v, n, V), NEW len \in Nat,
         NEW p \in Partial(size), DividedTo(p, u, V, n, j + 1, len, size)
  PROVE  /\ NextPartial(p, v, n, j) \in Partial(size)
         /\ DividedTo(NextPartial(p, v, n, j), u, V, n, j, len + 1, size)
<1> DEFINE w == p.u  d == QuotientDigit(w, v, n, j)  a == d.q  P == Power(Half, j)
           Q == HalfAmount(p.q)  s == d.u  e == <<a>> \o p.q  r == NextPartial(p, v, n, j)
<1>0. Half \in Int /\ HalfDigit \subseteq Int
  BY HalfFacts
<1>1. w \in HalfDigits(size) /\ p.q \in Seq(HalfDigit)
  BY DEF Partial
<1>2. /\ Len(p.q) = len
      /\ DigitsValue(Half, u, size) = DigitsValue(Half, w, size) + (Q * V) * Power(Half, j + 1)
      /\ Segment(w, j + 1, n) < V
      /\ \A k \in j + 1 + n + 1 .. size : w[k] = 0
  BY DEF DividedTo
<1>3. \A k \in j + n + 2 .. size : w[k] = 0
  BY <1>2
<1> HIDE DEF w, d
<1>4. Advanced(d, w, V, n, j, size)
  BY <1>1, <1>2, <1>3, QuotientDigitExact DEF d
<1>5. /\ a \in HalfDigit /\ s \in HalfDigits(size)
      /\ DigitsValue(Half, w, size) = DigitsValue(Half, s, size) + (a * V) * P
      /\ Segment(s, j, n) < V
      /\ \A k \in j + n + 1 .. size : s[k] = 0
  BY <1>4 DEF Advanced, Adds
<1>6. r = [q |-> e, u |-> s]
  BY DEF NextPartial, d, w
<1> HIDE DEF a, s, r
<1>7. /\ e \in Seq(HalfDigit) /\ Len(e) = Len(p.q) + 1
      /\ HalfAmount(e) = a + Half * Q /\ Q \in Int
  BY <1>1, <1>5, PrependAmount
<1>8. V \in Int /\ a \in Int /\ P \in Int
  BY <1>0, <1>5, DivisorBounds, PowerInt
<1>9. Power(Half, j + 1) = Half * P
  BY <1>0, PowerNext
<1> HIDE DEF e, Q, P
<1>10. DigitsValue(Half, u, size) = DigitsValue(Half, s, size) + (HalfAmount(e) * V) * P
  <2>1. ((a + Half * Q) * V) * P = (a * V) * P + (Q * V) * (Half * P)
    BY <1>0, <1>7, <1>8
  <2>2. (a * V) * P \in Int /\ (Q * V) * (Half * P) \in Int
    BY <1>0, <1>7, <1>8
  <2>3. DigitsValue(Half, s, size) \in Int
    <3>1. \A i \in 1 .. size : s[i] \in Int
      BY <1>5, HalfDigitSequence
    <3> QED
      BY <1>0, <3>1, ValueInt
  <2> DEFINE f == (a * V) * P  g == (Q * V) * (Half * P)  h == ((a + Half * Q) * V) * P
             x0 == DigitsValue(Half, u, size)  z == DigitsValue(Half, s, size)
  <2>4. h = f + g /\ x0 = (z + f) + g /\ f \in Int /\ g \in Int /\ z \in Int
    BY <1>2, <1>5, <1>9, <2>1, <2>2, <2>3
  <2> HIDE DEF f, g, h, x0, z
  <2>5. x0 = z + h
    BY <2>4
  <2> QED
    BY <2>5, <1>7 DEF x0, z, h
<1>11. r.q = e /\ r.u = s
  BY <1>6
<1>12. r \in Partial(size)
  BY <1>5, <1>6, <1>7 DEF Partial
<1>13. Len(e) = len + 1
  BY <1>2, <1>7
<1>14. DividedTo(r, u, V, n, j, len + 1, size)
  BY <1>5, <1>10, <1>11, <1>13 DEF DividedTo, P
<1> QED
  BY <1>12, <1>14 DEF r

(* The quotient q and the remainder u that replaces the numerator.         *)
IsDivision(r, u, V, len, size) ==
  /\ r \in Partial(size) /\ Len(r.q) = len
  /\ HalfAmount(u) = HalfAmount(r.q) * V + HalfAmount(r.u) /\ HalfAmount(r.u) < V

LEMMA QuotientDigitsExact ==
  ASSUME NEW m \in Nat, NEW n \in Nat, NEW size \in Nat, size = m + n + 2, NEW u \in HalfDigits(size),
         NEW v, NEW V, IsDivisor(v, n, V), Segment(u, m + 1, n) < V, u[size] = 0
  PROVE  IsDivision(QuotientDigits(u, v, n, m), u, V, m + 1, size)
<1> DEFINE N == m + 1  S == Partial(size)  start == [q |-> <<>>, u |-> u]
           inv(p, i) == DividedTo(p, u, V, n, m + 1 - i, i, size)
           h == [i \in 1 .. N |-> [p \in S |-> IF inv(p, i - 1) THEN NextPartial(p, v, n, m + 1 - i) ELSE p]]
           P(f) == f = [i \in 0 .. N |-> IF i = 0 THEN start ELSE NextPartial(f[i - 1], v, n, m + 1 - i)]
           g == CHOOSE f : P(f)
<1>0. N \in Nat /\ Half \in Int /\ HalfDigit \subseteq Int
  BY HalfFacts
<1>1. QuotientDigits(u, v, n, m) = g[N]
  BY DEF QuotientDigits, NextPartial
<1>2. start \in S /\ inv(start, 0)
  <2> DEFINE none == <<>>
  <2>1. none \in Seq(HalfDigit) /\ Len(none) = 0
    OBVIOUS
  <2>2. start.q = none /\ start.u = u
    OBVIOUS
  <2>3. start \in S
    BY <2>1 DEF Partial
  <2>4. HalfAmount(none) = 0
    BY <1>0, <2>1, NoDigits DEF HalfAmount
  <2>5. DigitsValue(Half, u, size) \in Int
    <3>1. \A i \in 1 .. size : u[i] \in Int
      BY HalfDigitSequence
    <3> QED
      BY <1>0, <3>1, ValueInt
  <2>6. (0 * V) * Power(Half, N) = 0
    <3>1. V \in Int /\ Power(Half, N) \in Int
      BY <1>0, DivisorBounds, PowerInt
    <3> QED
      BY <3>1
  <2>7. m + 1 - 0 = N /\ \A k \in N + n + 1 .. size : u[k] = 0
    <3> SUFFICES ASSUME NEW k \in N + n + 1 .. size PROVE u[k] = 0
      OBVIOUS
    <3>1. k = size
      BY <1>0
    <3> QED
      BY <3>1
  <2> HIDE DEF none, start
  <2>8. DigitsValue(Half, u, size)
          = DigitsValue(Half, start.u, size) + (HalfAmount(start.q) * V) * Power(Half, N)
    BY <2>2, <2>4, <2>5, <2>6
  <2> DEFINE zero == 0
  <2>9. DividedTo(start, u, V, n, N, 0, size)
    BY <2>1, <2>2, <2>7, <2>8 DEF DividedTo
  <2> QED
    BY <2>3, <2>7, <2>9
<1>3. ASSUME NEW i \in 1 .. N, NEW p \in S, inv(p, i - 1)
      PROVE  NextPartial(p, v, n, m + 1 - i) \in S /\ inv(NextPartial(p, v, n, m + 1 - i), i)
  <2> DEFINE j == m + 1 - i  len == i - 1
  <2>1. j \in Nat /\ j + n + 1 <= size /\ m + 1 - (i - 1) = j + 1 /\ len \in Nat /\ len + 1 = i
    BY <1>0
  <2>2. DividedTo(p, u, V, n, j + 1, len, size)
    BY <1>3, <2>1
  <2> HIDE DEF j, len
  <2>3. NextPartial(p, v, n, j) \in Partial(size)
        /\ DividedTo(NextPartial(p, v, n, j), u, V, n, j, len + 1, size)
    BY <2>1, <2>2, NextPartialExact
  <2> QED
    BY <2>1, <2>3 DEF j
<1> HIDE DEF inv, S, start, N
<1>4. \A i \in 1 .. N, p \in S : h[i][p] \in S
  BY <1>3
<1>5. \A i \in 1 .. N, p \in S : inv(p, i - 1) => h[i][p] = NextPartial(p, v, n, m + 1 - i)
  OBVIOUS
<1> HIDE DEF h
<1>6. PICK f : IsIteration(f, N, S, start, h)
  BY <1>0, <1>2, <1>4, Iteration
<1>7. f \in [0 .. N -> S] /\ f[0] = start /\ \A i \in 1 .. N : f[i] = h[i][f[i - 1]]
  BY <1>6 DEF IsIteration
<1>8. \A i \in 0 .. N : inv(f[i], i)
  <2> DEFINE T == {i \in 0 .. N : inv(f[i], i)}
  <2>1. 0 \in T
    BY <1>0, <1>2, <1>7
  <2>2. ASSUME NEW i \in 0 .. N - 1, i \in T PROVE i + 1 \in T
    <3>1. i + 1 \in 1 .. N /\ (i + 1) - 1 = i /\ inv(f[i], i) /\ i + 1 \in 0 .. N /\ i \in 0 .. N
      BY <1>0, <2>2
    <3>2. f[i] \in S
      BY <1>7, <3>1
    <3>3. f[i + 1] = NextPartial(f[i], v, n, m + 1 - (i + 1))
      BY <1>5, <1>7, <3>1, <3>2
    <3>4. inv(f[i + 1], i + 1)
      BY <1>3, <3>1, <3>2, <3>3
    <3> QED
      BY <3>1, <3>4
  <2> HIDE DEF T
  <2>3. \A i \in 0 .. N : i \in T
    BY <1>0, <2>1, <2>2, Induction
  <2> QED
    BY <2>3 DEF T
<1>9. \A i \in 1 .. N : f[i] = NextPartial(f[i - 1], v, n, m + 1 - i)
  <2> TAKE i \in 1 .. N
  <2>1. i - 1 \in 0 .. N
    BY <1>0
  <2> QED
    BY <2>1, <1>5, <1>7, <1>8
<1>10. P(f)
  BY <1>7, <1>9
<1> HIDE DEF P
<1>11. P(g)
  BY <1>10
<1> HIDE DEF g
<1>12. g[0] = start /\ \A i \in 1 .. N : g[i] = NextPartial(g[i - 1], v, n, m + 1 - i)
  BY <1>0, <1>11 DEF P
<1>13. \A i \in 0 .. N : g[i] \in S /\ inv(g[i], i)
  <2> DEFINE T == {i \in 0 .. N : g[i] \in S /\ inv(g[i], i)}
  <2>1. 0 \in T
    BY <1>0, <1>2, <1>12
  <2>2. ASSUME NEW i \in 0 .. N - 1, i \in T PROVE i + 1 \in T
    <3>1. i + 1 \in 1 .. N /\ (i + 1) - 1 = i /\ g[i] \in S /\ inv(g[i], i) /\ i + 1 \in 0 .. N
      BY <1>0, <2>2
    <3>2. g[i + 1] \in S /\ inv(g[i + 1], i + 1)
      BY <3>1, <1>3, <1>12
    <3> QED
      BY <3>1, <3>2
  <2> HIDE DEF T
  <2>3. \A i \in 0 .. N : i \in T
    BY <1>0, <2>1, <2>2, Induction
  <2> QED
    BY <2>3 DEF T
<1> DEFINE r == g[N]
<1>14. r \in Partial(size) /\ DividedTo(r, u, V, n, 0, N, size)
  <2>1. N \in 0 .. N /\ m + 1 - N = 0
    BY <1>0 DEF N
  <2> QED
    BY <2>1, <1>13 DEF inv, S
<1> HIDE DEF r
<1>15. /\ Len(r.q) = N
       /\ DigitsValue(Half, u, size) = DigitsValue(Half, r.u, size) + (HalfAmount(r.q) * V) * Power(Half, 0)
       /\ Segment(r.u, 0, n) < V
       /\ \A k \in 0 + n + 1 .. size : r.u[k] = 0
  BY <1>14 DEF DividedTo
<1>16. r.u \in HalfDigits(size) /\ r.q \in Seq(HalfDigit)
  BY <1>14 DEF Partial
<1> DEFINE w == r.u  Q == HalfAmount(r.q)
<1>17. /\ \A i \in 1 .. size : w[i] \in Int
       /\ w \in Seq(HalfDigit) /\ Len(w) = size /\ Len(u) = size
  <2>1. u \in HalfDigits(size)
    OBVIOUS
  <2> QED
    BY <1>16, <2>1, HalfDigitSequence
<1>18. n \in Nat /\ n <= size /\ \A k \in n + 1 .. size : w[k] = 0
  BY <1>15
<1> HIDE DEF w
<1>19. DigitsValue(Half, w, size) = DigitsValue(Half, w, n)
  BY <1>0, <1>17, <1>18, ZerosAbove
<1>20. Segment(w, 0, n) = DigitsValue(Half, w, n)
  <2> DEFINE e == [i \in 1 .. n |-> w[i + 0]]
  <2>1. \A i \in 1 .. n : w[i] \in Int /\ e[i] = w[i]
    <3> TAKE i \in 1 .. n
    <3>1. i \in 1 .. size /\ i + 0 = i
      BY <1>18
    <3> QED
      BY <1>17, <3>1
  <2>2. Segment(w, 0, n) = DigitsValue(Half, e, n)
    BY DEF Segment
  <2> HIDE DEF e
  <2> QED
    BY <1>0, <2>1, <2>2, SameDigits
<1>21. HalfAmount(w) = DigitsValue(Half, w, size) /\ HalfAmount(u) = DigitsValue(Half, u, size)
  BY <1>17 DEF HalfAmount
<1>22. Q * V \in Int /\ Power(Half, 0) = 1 /\ DigitsValue(Half, w, size) \in Int
  <2>1. V \in Int
    BY DivisorBounds
  <2>2. Q \in Int
    <3>1. 0 \in HalfDigit
      BY HalfFacts DEF HalfDigit
    <3>2. HalfAmount(r.q) \in Int
      BY <1>16, <3>1, PrependAmount
    <3> QED
      BY <3>2
  <2>3. Q * V \in Int
    BY <2>1, <2>2, Distribute
  <2>4. DigitsValue(Half, w, size) \in Int
    BY <1>0, <1>17, ValueInt
  <2> QED
    BY <1>0, <2>3, <2>4, PowerZero
<1> DEFINE Z == Q * V
<1>23. DigitsValue(Half, u, size) = DigitsValue(Half, w, size) + Z * 1
  BY <1>15, <1>22 DEF w
<1> HIDE DEF Z
<1>24. HalfAmount(u) = Z + HalfAmount(w)
  BY <1>21, <1>22, <1>23 DEF Z
<1>25. HalfAmount(w) < V
  BY <1>15, <1>19, <1>20, <1>21 DEF w
<1> QED
  BY <1>1, <1>14, <1>15, <1>24, <1>25 DEF IsDivision, r, w, N, Z

(* The quotient and the remainder of two amounts.                          *)
IsQuotientOf(p, a, b) ==
  /\ p.q \in Seq(Digit) /\ p.r \in Seq(Digit)
  /\ a = Amount(p.q) * b + Amount(p.r) /\ Amount(p.r) < b

LEMMA EvenHalvesExact ==
  ASSUME NEW h \in Seq(HalfDigit)
  PROVE  /\ EvenHalves(h) \in Seq(HalfDigit) /\ \E k \in Nat : Len(EvenHalves(h)) = 2 * k
         /\ HalfAmount(EvenHalves(h)) = HalfAmount(h)
<1> DEFINE n == Len(h)  e == Append(h, 0)
<1>0. Half \in Int /\ 0 \in HalfDigit /\ HalfDigit \subseteq Int /\ n \in Nat
  BY HalfFacts DEF HalfDigit
<1>1. CASE n % 2 = 1
  <2>1. EvenHalves(h) = e
    BY <1>1 DEF EvenHalves
  <2>2. /\ e \in Seq(HalfDigit) /\ Len(e) = n + 1 /\ e[n + 1] = 0
        /\ \A i \in 1 .. n : e[i] = h[i] /\ h[i] \in HalfDigit
    BY <1>0
  <2>3. \E k \in Nat : n + 1 = 2 * k
    <3>1. n = 2 * (n \div 2) + 1 /\ n \div 2 \in Nat
      BY <1>0, <1>1
    <3>2. n + 1 = 2 * (n \div 2 + 1) /\ n \div 2 + 1 \in Nat
      BY <3>1
    <3> QED
      BY <3>2
  <2> HIDE DEF e
  <2>4. /\ \A i \in 1 .. n + 1 : e[i] \in Int
        /\ \A i \in n + 1 .. n + 1 : e[i] = 0
        /\ n + 1 \in Nat /\ n <= n + 1
    <3>1. \A i \in 1 .. n + 1 : e[i] \in HalfDigit
      BY <2>2
    <3>2. \A i \in n + 1 .. n + 1 : i = n + 1
      BY <1>0
    <3>3. \A i \in n + 1 .. n + 1 : e[i] = 0
      BY <2>2, <3>2
    <3>4. \A i \in 1 .. n + 1 : e[i] \in Int
      BY <1>0, <3>1
    <3>5. n + 1 \in Nat /\ n <= n + 1
      BY <1>0
    <3> QED
      BY <3>3, <3>4, <3>5
  <2>5. DigitsValue(Half, e, n + 1) = DigitsValue(Half, e, n)
    <3> DEFINE l == n + 1
    <3>1. l \in Nat /\ n <= l /\ (\A i \in 1 .. l : e[i] \in Int) /\ \A i \in n + 1 .. l : e[i] = 0
      BY <2>4
    <3> HIDE DEF l
    <3>2. DigitsValue(Half, e, l) = DigitsValue(Half, e, n)
      BY <1>0, <3>1, ZerosAbove
    <3> QED
      BY <3>2 DEF l
  <2>6. DigitsValue(Half, h, n) = DigitsValue(Half, e, n)
    <3>1. \A i \in 1 .. n : h[i] \in Int /\ e[i] = h[i]
      BY <1>0, <2>2
    <3> QED
      BY <1>0, <3>1, SameDigits
  <2>7. HalfAmount(e) = DigitsValue(Half, e, n + 1) /\ HalfAmount(h) = DigitsValue(Half, h, n)
    BY <2>2 DEF HalfAmount, n
  <2>8. e \in Seq(HalfDigit) /\ \E k \in Nat : Len(e) = 2 * k
    <3>1. PICK k \in Nat : n + 1 = 2 * k
      BY <2>3
    <3> QED
      BY <2>2, <3>1
  <2>9. HalfAmount(e) = HalfAmount(h)
    BY <2>5, <2>6, <2>7
  <2> QED
    BY <2>1, <2>8, <2>9
<1>2. CASE n % 2 # 1
  <2>1. EvenHalves(h) = h
    BY <1>2 DEF EvenHalves
  <2>2. n = 2 * (n \div 2) /\ n \div 2 \in Nat
    BY <1>0, <1>2
  <2> QED
    BY <2>1, <2>2 DEF n
<1> QED
  BY <1>1, <1>2

(* FromHalves: the digits of the quotient and of the remainder.            *)
LEMMA FromHalvesExact ==
  ASSUME NEW size \in Nat, NEW k \in Nat, size = 2 * k, NEW len \in Nat, NEW V, NEW u, NEW r,
         IsDivision(r, u, V, len, size)
  PROVE  IsQuotientOf(FromHalves(r), HalfAmount(u), V)
<1> DEFINE e == EvenHalves(r.q)  w == r.u  q == Digits(e)  t == Digits(w)
<1>1. /\ r.q \in Seq(HalfDigit) /\ w \in HalfDigits(size)
      /\ HalfAmount(u) = HalfAmount(r.q) * V + HalfAmount(w) /\ HalfAmount(w) < V
  BY DEF IsDivision, Partial
<1>2. FromHalves(r) = [q |-> q, r |-> t]
  BY DEF FromHalves
<1>3. w \in Seq(HalfDigit) /\ Len(w) = 2 * k
  BY <1>1, HalfDigitSequence
<1>4. PICK l \in Nat : Len(e) = 2 * l
  BY <1>1, EvenHalvesExact
<1>5. e \in Seq(HalfDigit) /\ HalfAmount(e) = HalfAmount(r.q)
  BY <1>1, EvenHalvesExact
<1> HIDE DEF e, w
<1>6. q \in Seq(Digit) /\ Amount(q) = HalfAmount(e)
  BY <1>4, <1>5, DigitsExact
<1>7. t \in Seq(Digit) /\ Amount(t) = HalfAmount(w)
  BY <1>3, DigitsExact
<1> HIDE DEF q, t
<1> QED
  BY <1>1, <1>2, <1>5, <1>6, <1>7 DEF IsQuotientOf

(* A numerator below V * Half^(m + 1) has the room the loop needs.         *)
LEMMA LeadingSegment ==
  ASSUME NEW m \in Nat, NEW n \in Nat, NEW size \in Nat, size = m + n + 2, NEW u \in HalfDigits(size),
         NEW v, NEW V, IsDivisor(v, n, V), HalfAmount(u) < V * Power(Half, m + 1)
  PROVE  Segment(u, m + 1, n) < V /\ u[size] = 0
<1> DEFINE j == m + 1  l == j + n  P == Power(Half, j)  S == Segment(u, j, n)
           e == [i \in 1 .. n |-> u[i + j]]  A == HalfAmount(u)  R == Power(Half, n)
<1>0. /\ Half \in Int /\ Half > 0 /\ j \in Nat /\ l \in Nat /\ size = l + 1 /\ HalfDigit \subseteq Int
      /\ \A d \in HalfDigit : d \in 0 .. Half - 1
  BY HalfFacts DEF HalfDigit
<1>1. /\ u \in Seq(HalfDigit) /\ Len(u) = size /\ \A i \in 1 .. size : u[i] \in HalfDigit /\ u[i] \in Int
  BY HalfDigitSequence
<1>2. P \in Int /\ P > 0
  BY <1>0, PowerPositive
<1>3. V \in Int /\ V > 0 /\ V < R /\ R \in Int
  <2>1. V \in Int /\ V > 0 /\ V < Power(Half, n)
    BY DivisorBounds
  <2>2. Power(Half, n) \in Int
    BY <1>0, PowerInt
  <2> QED
    BY <2>1, <2>2
<1>4. A = DigitsValue(Half, u, size) /\ A < V * P
  BY <1>1 DEF HalfAmount
<1>5. Power(Half, l) = P * R
  BY <1>0, PowerSum
<1> HIDE DEF A, P, R, l, j
<1>6. V * P < P * R
  <2>1. V * P < R * P
    BY <1>2, <1>3, StrictlyMonotone
  <2>2. R * P = P * R
    BY <1>2, <1>3
  <2> QED
    BY <2>1, <2>2
<1>7. u[size] = 0
  <2> SUFFICES ASSUME u[size] # 0 PROVE FALSE
    OBVIOUS
  <2>1. (\A i \in 1 .. l + 1 : u[i] \in 0 .. Half - 1) /\ u[l + 1] # 0
    BY <1>0, <1>1
  <2>2. DigitsValue(Half, u, l + 1) >= Power(Half, l) /\ DigitsValue(Half, u, l + 1) \in Int
    BY <1>0, <2>1, TopDigit
  <2>3. A \in Int /\ A >= P * R
    BY <1>0, <1>4, <1>5, <2>2
  <2> DEFINE f == V * P  g == P * R
  <2>4. f \in Int /\ g \in Int /\ f < g /\ A < f /\ A >= g
    BY <1>2, <1>3, <1>4, <1>6, <2>3
  <2> HIDE DEF f, g
  <2> QED
    BY <2>3, <2>4
<1>8. A = DigitsValue(Half, u, l)
  <2>1. l <= size /\ (\A i \in 1 .. size : u[i] \in Int) /\ \A i \in l + 1 .. size : u[i] = 0
    <3>1. l <= size /\ \A i \in l + 1 .. size : i = size
      BY <1>0
    <3>2. \A i \in l + 1 .. size : u[i] = 0
      BY <1>7, <3>1
    <3> QED
      BY <1>1, <3>1, <3>2
  <2> QED
    BY <1>0, <1>4, <2>1, ZerosAbove
<1>9. (\A i \in 1 .. j + n : u[i] \in Int) /\ (\A i \in 1 .. n : e[i] = u[j + i] /\ e[i] \in Int)
      /\ \A i \in 1 .. j : u[i] \in 0 .. Half - 1
  <2>1. l <= size /\ l = j + n
    BY <1>0 DEF l, j
  <2>2. \A i \in 1 .. n : i + j \in 1 .. size /\ i + j = j + i
    BY <1>0, <2>1
  <2>3. (\A i \in 1 .. j + n : i \in 1 .. size) /\ \A i \in 1 .. j : i \in 1 .. size
    BY <1>0, <2>1
  <2> QED
    BY <1>0, <1>1, <2>2, <2>3
<1>10. S = DigitsValue(Half, e, n)
  BY DEF Segment
<1> HIDE DEF e, S
<1>11. DigitsValue(Half, u, j + n) = DigitsValue(Half, u, j) + Power(Half, j) * DigitsValue(Half, e, n)
  <2>1. Splits(Half, u, e, j, n)
    BY <1>0, <1>9, ValueSplits
  <2> QED
    BY <2>1 DEF Splits
<1>12. DigitsValue(Half, u, j) \in 0 .. Power(Half, j) - 1
  BY <1>0, <1>9, ValueBounds
<1>13. S \in Int
  BY <1>0, <1>9, <1>10, ValueInt
<1>14. S * P <= A /\ A \in Int
  <2> DEFINE low == DigitsValue(Half, u, j)  f == P * S
  <2>1. low \in Int /\ low >= 0 /\ f \in Int /\ A = low + f
    BY <1>2, <1>8, <1>10, <1>11, <1>12, <1>13 DEF P, l
  <2>2. S * P = f
    BY <1>2, <1>13
  <2> HIDE DEF low, f
  <2> QED
    BY <2>1, <2>2
<1>15. S < V
  <2> SUFFICES ASSUME V <= S PROVE FALSE
    BY <1>3, <1>13
  <2>1. V * P <= S * P
    BY <1>2, <1>3, <1>13, Monotone
  <2> DEFINE f == V * P  g == S * P
  <2>2. f \in Int /\ g \in Int /\ f <= g /\ g <= A /\ A < f
    BY <1>2, <1>3, <1>4, <1>13, <1>14, <2>1
  <2> HIDE DEF f, g
  <2> QED
    BY <1>14, <2>2
<1> QED
  BY <1>7, <1>15 DEF S, j

LEMMA DivideHalvesExact ==
  ASSUME NEW k \in Nat, NEW u \in Seq(HalfDigit), Len(u) = 2 * k, NEW n \in Nat, NEW v, NEW V,
         IsDivisor(v, n, V), n + 2 <= 2 * k, HalfAmount(u) < V * Power(Half, 2 * k - n - 1)
  PROVE  IsQuotientOf(DivideHalves(u, v, n), HalfAmount(u), V)
<1> DEFINE size == 2 * k  m == size - 2 - n  r == QuotientDigits(u, v, n, m)
<1>1. /\ size \in Nat /\ m \in Nat /\ size = m + n + 2 /\ m + 1 = 2 * k - n - 1 /\ size = 2 * k
      /\ Len(u) = size /\ m + 1 \in Nat
  OBVIOUS
<1>2. u \in HalfDigits(size)
  BY <1>1 DEF HalfDigits
<1>3. DivideHalves(u, v, n) = FromHalves(r)
  BY <1>1 DEF DivideHalves
<1> HIDE DEF size, m
<1>4. HalfAmount(u) < V * Power(Half, m + 1)
  BY <1>1
<1>5. Segment(u, m + 1, n) < V /\ u[size] = 0
  BY <1>1, <1>2, <1>4, LeadingSegment
<1>6. IsDivision(r, u, V, m + 1, size)
  BY <1>1, <1>2, <1>5, QuotientDigitsExact
<1> HIDE DEF r
<1>7. IsQuotientOf(FromHalves(r), HalfAmount(u), V)
  BY <1>1, <1>6, FromHalvesExact
<1> QED
  BY <1>3, <1>7

(* The half digits of a denominator without leading zeros.                 *)
HalfCount(d) == 2 * Len(d) - Bit(Hi(Last(d)) = 0)

LEMMA HalfCountIs ==
  ASSUME NEW d \in Seq(Digit), Len(d) > 0
  PROVE  /\ Last(d) = d[Len(d)] /\ Last(d) \in Digit /\ HalfCount(d) \in Nat
         /\ HalfCount(d) = IF Last(d) < Half THEN 2 * Len(d) - 1 ELSE 2 * Len(d)
<1> DEFINE t == Last(d)
<1>1. Len(d) \in Nat /\ t = d[Len(d)] /\ t \in Digit
  BY DigitSequence DEF Last
<1> HIDE DEF t
<1>2. /\ t \in Int /\ t = Half * Hi(t) + Lo(t) /\ Hi(t) \in Int /\ Lo(t) \in Int
      /\ 0 <= Hi(t) /\ 0 <= Lo(t) /\ Lo(t) < Half /\ Half \in Int /\ Half >= 4
  BY <1>1, DigitHalves, HalfFacts
<1>3. Hi(t) = 0 <=> t < Half
  <2>1. Hi(t) = 0 => t < Half
    BY <1>2
  <2>2. Hi(t) # 0 => t >= Half
    <3> SUFFICES ASSUME Hi(t) # 0 PROVE t >= Half
      OBVIOUS
    <3>1. 1 <= Hi(t) /\ 1 \in Int /\ Half >= 0
      BY <1>2
    <3>2. 1 * Half <= Hi(t) * Half
      BY <1>2, <3>1, Monotone
    <3> QED
      BY <1>2, <3>2
  <2> QED
    BY <1>2, <2>1, <2>2
<1>4. Bit(Hi(t) = 0) = IF t < Half THEN 1 ELSE 0
  BY <1>3 DEF Bit
<1>5. HalfCount(d) = 2 * Len(d) - IF t < Half THEN 1 ELSE 0
  BY <1>4 DEF HalfCount, t
<1> QED
  BY <1>1, <1>5 DEF t

LEMMA HalvesDivisor ==
  ASSUME NEW d \in Seq(Digit), Len(d) > 0, Last(d) # 0, HalfCount(d) >= 2
  PROVE  IsDivisor(Halves(d), HalfCount(d), Amount(d))
<1> DEFINE h == Halves(d)  n == HalfCount(d)  L == Len(d)  t == Last(d)  size == 2 * L
<1>0. Half \in Int /\ Half >= 4 /\ HalfDigit \subseteq Int /\ L \in Nat /\ L > 0 /\ size \in Nat
  BY HalfFacts
<1>1. t = d[L] /\ t \in Digit /\ n \in Nat /\ n = (IF t < Half THEN size - 1 ELSE size)
  BY HalfCountIs
<1>2. h \in Seq(HalfDigit) /\ Len(h) = size /\ HalfAmount(h) = Amount(d)
  BY HalvesExact DEF IsHalved
<1>3. \A i \in 1 .. size : h[i] \in HalfDigit
  BY <1>2
<1>4. h[size] = Hi(t) /\ h[size - 1] = Lo(t)
  <2>1. h = [i \in 1 .. size |-> IF i % 2 = 1 THEN Lo(d[(i + 1) \div 2]) ELSE Hi(d[i \div 2])]
    BY DEF Halves
  <2>2. /\ size \in 1 .. size /\ size % 2 = 0 /\ size \div 2 = L
        /\ size - 1 \in 1 .. size /\ (size - 1) % 2 = 1 /\ ((size - 1) + 1) \div 2 = L
    BY <1>0
  <2> HIDE DEF h, size, L, t
  <2> QED
    BY <2>1, <2>2, <1>1
<1>5. /\ t \in Int /\ t # 0 /\ t = Half * Hi(t) + Lo(t) /\ Hi(t) \in Int /\ Lo(t) \in Int
      /\ 0 <= Hi(t) /\ 0 <= Lo(t) /\ Lo(t) < Half
  BY <1>1, DigitHalves
<1>6. HalfAmount(h) = DigitsValue(Half, h, size)
  BY <1>2 DEF HalfAmount
<1>7. \A i \in 1 .. size : h[i] \in Int
  BY <1>0, <1>3
<1> HIDE DEF h, t, L, size, n
<1>8. CASE t < Half
  <2>1. n = size - 1 /\ n \in Nat /\ n <= size
    BY <1>0, <1>1, <1>8
  <2>2. Hi(t) = 0
    <3> SUFFICES ASSUME Hi(t) # 0 PROVE FALSE
      OBVIOUS
    <3>1. 1 <= Hi(t) /\ 1 \in Int /\ Half >= 0
      BY <1>0, <1>5
    <3>2. 1 * Half <= Hi(t) * Half
      BY <1>0, <1>5, <3>1, Monotone
    <3> QED
      BY <1>0, <1>5, <1>8, <3>2
  <2>3. h[n] = t /\ t > 0 /\ h[size] = 0
    BY <1>0, <1>4, <1>5, <2>1, <2>2
  <2>4. \A i \in n + 1 .. size : h[i] = 0
    <3>1. \A i \in n + 1 .. size : i = size
      BY <1>0, <2>1
    <3> QED
      BY <2>3, <3>1
  <2>5. DigitsValue(Half, h, size) = DigitsValue(Half, h, n)
    BY <1>0, <1>7, <2>1, <2>4, ZerosAbove
  <2>6. \A i \in 1 .. n : h[i] \in HalfDigit
    BY <1>0, <1>3, <2>1
  <2>7. n >= 2
    BY DEF n
  <2>8. IsDivisor(h, n, Amount(d))
    BY <1>2, <1>6, <2>1, <2>3, <2>5, <2>6, <2>7 DEF IsDivisor
  <2> QED
    BY <2>8 DEF h, n
<1>9. CASE ~(t < Half)
  <2>1. n = size
    BY <1>1, <1>9
  <2>2. Hi(t) # 0
    BY <1>0, <1>5, <1>9
  <2>3. h[n] > 0
    BY <1>4, <1>5, <2>1, <2>2
  <2>4. n >= 2 /\ n \in Nat
    BY <1>1 DEF n
  <2>5. \A i \in 1 .. n : h[i] \in HalfDigit
    BY <1>3, <2>1
  <2>6. Amount(d) = DigitsValue(Half, h, n)
    BY <1>2, <1>6, <2>1
  <2>7. IsDivisor(h, n, Amount(d))
    BY <2>3, <2>4, <2>5, <2>6 DEF IsDivisor
  <2> QED
    BY <2>7 DEF h, n
<1> QED
  BY <1>8, <1>9

LEMMA DivideNormalizedExact ==
  ASSUME NEW u \in Seq(Digit), NEW v \in Seq(Digit), Len(v) > 0, Last(v) # 0,
         NEW n \in Nat, n = HalfCount(v), n >= 2, n + 2 <= 2 * Len(u),
         Amount(u) < Amount(v) * Power(Half, 2 * Len(u) - n - 1)
  PROVE  IsQuotientOf(DivideNormalized(u, v), Amount(u), Amount(v))
<1> DEFINE h == Halves(u)  g == Halves(v)  k == Len(u)
<1>1. h \in Seq(HalfDigit) /\ Len(h) = 2 * k /\ HalfAmount(h) = Amount(u) /\ k \in Nat
  BY HalvesExact DEF IsHalved
<1>2. IsDivisor(g, n, Amount(v))
  BY HalvesDivisor
<1>3. DivideNormalized(u, v) = DivideHalves(h, g, n)
  BY DEF DivideNormalized, HalfCount
<1>4. n + 2 <= 2 * k /\ HalfAmount(h) < Amount(v) * Power(Half, 2 * k - n - 1)
  BY <1>1
<1> HIDE DEF h, g, k
<1>5. IsQuotientOf(DivideHalves(h, g, n), HalfAmount(h), Amount(v))
  BY <1>1, <1>2, <1>4, DivideHalvesExact
<1> QED
  BY <1>1, <1>3, <1>5

(* By how many bits bignum_destructive_divide_full shifts.                 *)
FullShift(t) == (DigitBits - Ilen(t)) % HalfBits

LEMMA FullShiftFits ==
  ASSUME NEW t \in Digit, t > 0, NEW s, s = FullShift(t), NEW M, M = Power(2, s)
  PROVE  /\ s \in Nat /\ s < HalfBits /\ s \in 0 .. DigitBits /\ M \in Int /\ M >= 1 /\ M <= Half
         /\ M * (t + 1) <= Base /\ (t < Half => M * (t + 1) <= Half)
<1> DEFINE l == Ilen(t)  P == Power(2, l)
<1>0. /\ HalfBits \in Nat /\ HalfBits >= 2 /\ DigitBits = HalfBits + HalfBits /\ Half = Power(2, HalfBits)
      /\ Half \in Int /\ Half >= 4 /\ Base = Power(2, DigitBits) /\ Base \in Int /\ Base >= 4 * Half
  BY BaseFacts, DigitAssumption
<1>1. t \in Int /\ t >= 1
  BY HalfFacts, DigitsAreInt
<1>2. l \in 0 .. DigitBits /\ t < P /\ (l > 0 => Power(2, l - 1) <= t)
  BY IlenFacts
<1>3. l \in Nat /\ l <= DigitBits
  BY <1>0, <1>2
<1>4. l >= 1
  <2> SUFFICES ASSUME l = 0 PROVE FALSE
    BY <1>3
  <2>1. Power(2, 0) = 1
    BY PowerZero
  <2> QED
    BY <1>1, <1>2, <2>1
<1>5. P \in Int /\ t + 1 <= P
  <2>1. P \in Int
    BY <1>3, PowerInt
  <2> HIDE DEF P
  <2> QED
    BY <1>1, <1>2, <2>1
<1>6. FullShift(t) = (DigitBits - l) % HalfBits
  BY DEF FullShift
<1> HIDE DEF l
<1>7. s \in Nat /\ s < HalfBits /\ s \in 0 .. DigitBits
  <2>1. s = (DigitBits - l) % HalfBits /\ DigitBits - l \in Int
    BY <1>0, <1>3, <1>6
  <2> DEFINE z == DigitBits - l
  <2> HIDE DEF z
  <2>2. z \in Int /\ s = z % HalfBits /\ HalfBits > 0 /\ HalfBits \in Int
    BY <1>0, <2>1 DEF z
  <2>3. z % HalfBits \in 0 .. HalfBits - 1
    BY <2>2, DivMod
  <2> QED
    BY <1>0, <2>2, <2>3
<1>8. M \in Int /\ M >= 1 /\ M <= Half
  <2>1. M \in Int /\ M > 0
    BY <1>7, PowerPositive
  <2>2. s <= HalfBits
    BY <1>0, <1>7
  <2>3. Power(2, s) <= Power(2, HalfBits)
    BY <1>0, <1>7, <2>2, PowerMonotone
  <2> QED
    BY <1>0, <2>1, <2>3
<1>9. s = IF l > HalfBits THEN DigitBits - l ELSE HalfBits - l
  <2> DEFINE one == 1  zero == 0  w == HalfBits
  <2>1. s = (DigitBits - l) % w /\ w \in Int /\ w > 0
    BY <1>0, <1>6
  <2>2. CASE l > w
    <3>1. DigitBits - l \in 0 .. w - 1 /\ zero \in Int /\ DigitBits - l \in Int
          /\ DigitBits - l = w * zero + (DigitBits - l)
      BY <1>0, <1>3, <2>2
    <3> DEFINE z == DigitBits - l
    <3> HIDE DEF w, zero, z
    <3>2. z % w = z
      BY <2>1, <3>1, DivUnique DEF z
    <3> QED
      BY <2>1, <2>2, <3>2 DEF w, z
  <2>3. CASE ~(l > w)
    <3>1. /\ w - l \in 0 .. w - 1 /\ one \in Int /\ w - l \in Int /\ DigitBits - l \in Int
          /\ DigitBits - l = w * one + (w - l)
      BY <1>0, <1>3, <1>4, <2>3
    <3> DEFINE z == DigitBits - l  r == w - l
    <3> HIDE DEF w, one, z, r
    <3>2. z \in Int /\ r \in 0 .. w - 1 /\ one \in Int /\ z = w * one + r /\ w \in Int /\ w > 0 /\ r \in Int
      BY <2>1, <3>1 DEF z, r
    <3>3. z % w = r
      BY <3>2, DivUnique
    <3> QED
      BY <2>1, <2>3, <3>3 DEF w, z, r
  <2> QED
    BY <2>2, <2>3 DEF w
<1>10. M * (t + 1) <= M * P
  <2>1. (t + 1) * M <= P * M
    <3> DEFINE z == t + 1
    <3>1. z \in Int /\ z <= P /\ M >= 0
      BY <1>1, <1>5, <1>8
    <3> HIDE DEF z, P
    <3>2. z * M <= P * M
      BY <1>5, <1>8, <3>1, Monotone
    <3> QED
      BY <3>2 DEF z
  <2> HIDE DEF P
  <2> QED
    BY <1>1, <1>5, <1>8, <2>1
<1>11. CASE l > HalfBits
  <2>1. s + l = DigitBits /\ s \in Nat /\ l \in Nat
    BY <1>0, <1>3, <1>7, <1>9, <1>11
  <2>2. Power(2, s + l) = M * P
    BY <2>1, PowerSum
  <2>3. M * (t + 1) <= Base
    BY <1>0, <1>10, <2>1, <2>2
  <2>4. ~(t < Half)
    <3> DEFINE k == l - 1
    <3>1. k \in Nat /\ HalfBits <= k
      BY <1>0, <1>3, <1>4, <1>11
    <3>2. Power(2, k) <= t
      BY <1>2, <1>4 DEF l
    <3> HIDE DEF k
    <3>3. Power(2, HalfBits) <= Power(2, k)
      BY <1>0, <3>1, PowerMonotone
    <3>4. Power(2, k) \in Int
      BY <3>1, PowerInt
    <3> QED
      BY <1>0, <1>1, <3>2, <3>3, <3>4
  <2> QED
    BY <1>7, <1>8, <2>3, <2>4
<1>12. CASE ~(l > HalfBits)
  <2>1. s + l = HalfBits /\ s \in Nat /\ l \in Nat
    BY <1>0, <1>3, <1>7, <1>9, <1>12
  <2>2. Power(2, s + l) = M * P
    BY <2>1, PowerSum
  <2>3. M * (t + 1) <= Half /\ M * (t + 1) \in Int
    BY <1>0, <1>1, <1>8, <1>10, <2>1, <2>2
  <2> QED
    BY <1>0, <1>7, <1>8, <2>3
<1> QED
  BY <1>11, <1>12

(* The shifted denominator e.                                              *)
IsNormalized(e, d, M) ==
  /\ e \in Seq(Digit) /\ Len(e) = Len(d) /\ Last(e) # 0 /\ HalfCount(e) = HalfCount(d)
  /\ Amount(e) = M * Amount(d)

LEMMA SplitTop ==
  ASSUME NEW d \in Seq(Digit), NEW k \in Nat, Len(d) = k + 1
  PROVE  \E low \in Int :
           /\ 0 <= low /\ low < Power(Base, k) /\ d[k + 1] \in Digit
           /\ Amount(d) = low + d[k + 1] * Power(Base, k)
<1> DEFINE low == DigitsValue(Base, d, k)
<1>1. Base \in Int /\ Base > 0 /\ (\A i \in 1 .. k + 1 : d[i] \in Digit /\ d[i] \in Int)
      /\ k + 1 \in 1 .. k + 1
  BY HalfFacts, DigitSequence
<1>2. DigitsValue(Base, d, k + 1) = DigitsValue(Base, d, k) + d[k + 1] * Power(Base, k)
  BY <1>1, OneMoreDigit
<1>3. \A i \in 1 .. k : d[i] \in 0 .. Base - 1
  <2>1. \A i \in 1 .. k : i \in 1 .. k + 1
    OBVIOUS
  <2> QED
    BY <1>1, <2>1 DEF Digit
<1>4. low \in 0 .. Power(Base, k) - 1
  BY <1>1, <1>3, ValueBounds
<1>5. Power(Base, k) \in Int
  BY <1>1, PowerInt
<1>6. Amount(d) = low + d[k + 1] * Power(Base, k)
  BY <1>2 DEF Amount
<1> HIDE DEF low
<1> QED
  BY <1>1, <1>4, <1>5, <1>6

(* Multiplying by M moves the leading digit by no more than M can.         *)
LEMMA TopMoves ==
  ASSUME NEW P \in Int, P > 0, NEW M \in Int, M >= 1, NEW t \in Int, t >= 0, NEW e \in Int,
         NEW c \in Int, c >= 0,
         NEW low \in Int, 0 <= low, low < P, NEW rest \in Int, 0 <= rest, rest < P,
         NEW B \in Int, M * (t + 1) <= B, e >= 0,
         (rest + e * P) + c * (B * P) = M * (low + t * P)
  PROVE  c = 0 /\ M * t <= e /\ e < M * (t + 1)
<1> DEFINE A == rest + e * P  N == M * (low + t * P)  top == M * (t + 1)
<1>1. /\ A \in Int /\ N \in Int /\ top \in Int /\ M * t \in Int /\ e * P \in Int /\ c * (B * P) \in Int
      /\ A >= e * P /\ A < (e + 1) * P /\ (e + 1) * P \in Int /\ top * P \in Int /\ (M * t) * P \in Int
  <2>1. (e + 1) * P = e * P + P /\ e * P \in Int /\ (e + 1) * P \in Int
    OBVIOUS
  <2>2. N \in Int /\ top \in Int /\ M * t \in Int /\ c * (B * P) \in Int /\ top * P \in Int
        /\ (M * t) * P \in Int
    OBVIOUS
  <2> DEFINE f == e * P
  <2> HIDE DEF f
  <2>3. f \in Int /\ A = rest + f /\ (e + 1) * P = f + P
    BY <2>1 DEF f
  <2>4. A \in Int /\ A >= f /\ A < f + P
    BY <2>3
  <2> QED
    BY <2>1, <2>2, <2>3, <2>4 DEF f
<1>2. N < top * P /\ N >= (M * t) * P
  <2>1. N = M * low + (M * t) * P /\ top * P = M * P + (M * t) * P
    OBVIOUS
  <2>2. low * M < P * M /\ 0 * M <= low * M
    BY StrictlyMonotone, Monotone
  <2> DEFINE f == M * low  g == M * P  h == (M * t) * P
  <2>3. f \in Int /\ g \in Int /\ h \in Int /\ f < g /\ 0 <= f /\ N = f + h /\ top * P = g + h
    BY <2>1, <2>2
  <2> HIDE DEF f, g, h, N, top
  <2> QED
    BY <2>3 DEF h
<1>3. top * P <= B * P /\ B * P \in Int
  BY Monotone
<1>4. A + c * (B * P) = N
  OBVIOUS
<1> HIDE DEF A, N, top
<1>5. c = 0
  <2> SUFFICES ASSUME c # 0 PROVE FALSE
    OBVIOUS
  <2>1. c >= 1
    OBVIOUS
  <2>2. 0 <= e * P
    <3>1. 0 * P <= e * P
      BY Monotone
    <3> QED
      BY <3>1
  <2> DEFINE g == B * P
  <2>3. g \in Int /\ N < g
    BY <1>1, <1>2, <1>3
  <2>4. 0 <= A /\ A \in Int
    BY <1>1, <2>2
  <2>5. 0 <= g
    <3>1. 0 * M <= t * M
      BY Monotone
    <3> DEFINE f == M * t
    <3>2. f \in Int /\ 0 <= f
      BY <3>1
    <3> HIDE DEF f
    <3>3. 0 * P <= f * P
      BY <3>2, Monotone
    <3>4. 0 <= N
      BY <1>1, <1>2, <3>3 DEF f
    <3> QED
      BY <1>1, <2>3, <3>4
  <2>6. 1 * g <= c * g
    BY <2>1, <2>3, <2>5, Monotone
  <2> QED
    BY <1>1, <1>4, <2>3, <2>4, <2>6
<1>6. A = N
  BY <1>1, <1>4, <1>5, <1>3
<1>7. e < top
  <2> SUFFICES ASSUME top <= e PROVE FALSE
    BY <1>1
  <2>1. top * P <= e * P
    BY <1>1, Monotone
  <2> QED
    BY <1>1, <1>2, <1>6, <2>1
<1>8. M * t <= e
  <2> SUFFICES ASSUME e + 1 <= M * t PROVE FALSE
    BY <1>1
  <2> DEFINE f == M * t
  <2>1. (e + 1) * P <= f * P
    BY <1>1, Monotone
  <2> QED
    BY <1>1, <1>2, <1>6, <2>1
<1> QED
  BY <1>5, <1>7, <1>8 DEF top

(* The denominator that the division works on.                             *)
NormalDenominator(den, s) == IF s = 0 THEN den ELSE ShiftLeft(den, s)[1]
NormalNumerator(num, s) == IF s = 0 THEN Append(num, 0) ELSE ShiftLeft(Append(num, 0), s)[1]

LEMMA DenominatorNormalized ==
  ASSUME NEW d \in Seq(Digit), Len(d) > 0, Last(d) # 0, NEW s, s = FullShift(Last(d))
  PROVE  IsNormalized(NormalDenominator(d, s), d, Power(2, s))
<1> DEFINE t == Last(d)  M == Power(2, s)  k == Len(d) - 1  P == Power(Base, k)  r == ShiftLeft(d, s)
           e == r[1]  c == r[2]  u == e[k + 1]
<1>0. /\ Base \in Int /\ Base > 0 /\ Half \in Int /\ Half >= 4 /\ k \in Nat /\ Len(d) = k + 1
      /\ Digit \subseteq Int /\ \A b \in Digit : 0 <= b
  <2>1. \A b \in Digit : 0 <= b
    BY HalfFacts DEF Digit
  <2> QED
    BY <2>1, HalfFacts, DigitsAreInt
<1>1. t = d[k + 1] /\ t \in Digit /\ t # 0
  BY <1>0, HalfCountIs
<1>2. t \in Int /\ t > 0
  <2> HIDE DEF t, k
  <2>1. t \in Int /\ 0 <= t
    BY <1>0, <1>1
  <2> QED
    BY <1>1, <2>1
<1>3. /\ s \in Nat /\ s \in 0 .. DigitBits /\ M \in Int /\ M >= 1 /\ M * (t + 1) <= Base
      /\ t < Half => M * (t + 1) <= Half
  <2>1. t \in Digit /\ t > 0 /\ s = FullShift(t) /\ M = Power(2, s)
    BY <1>1, <1>2
  <2> HIDE DEF t, M
  <2> QED
    BY <2>1, FullShiftFits
<1>4. CASE s = 0
  <2>1. NormalDenominator(d, s) = d /\ M = 1
    BY <1>4, PowerZero DEF NormalDenominator
  <2>2. Amount(d) \in Nat
    BY AmountBounds
  <2> QED
    BY <2>1, <2>2 DEF IsNormalized
<1>5. CASE s # 0
  <2>1. NormalDenominator(d, s) = e
    BY <1>5 DEF NormalDenominator
  <2>2. IsScaled(r, d, M, 0, 0 .. M - 1)
    BY <1>3, ShiftLeftExact
  <2>3. Power(Base, Len(d)) = Base * P
    BY <1>0, PowerNext
  <2>4. P \in Int /\ P > 0
    BY <1>0, PowerPositive
  <2> HIDE DEF r, P, M, t, k
  <2>5. /\ e \in Seq(Digit) /\ Len(e) = k + 1 /\ c \in 0 .. M - 1
        /\ Amount(e) + c * (Base * P) = M * Amount(d) + 0
    BY <1>0, <2>2, <2>3 DEF IsScaled
  <2> HIDE DEF e, c
  <2>6. PICK low \in Int : 0 <= low /\ low < P /\ Amount(d) = low + t * P
    BY <1>0, <1>1, SplitTop DEF P
  <2>7. PICK rest \in Int : 0 <= rest /\ rest < P /\ u \in Digit /\ Amount(e) = rest + u * P
    BY <1>0, <2>5, SplitTop DEF P
  <2> HIDE DEF u
  <2>8. u \in Int /\ u >= 0 /\ c \in Int /\ c >= 0
    BY <1>0, <1>3, <2>5, <2>7
  <2>9. (rest + u * P) + c * (Base * P) = M * (low + t * P)
    <3> DEFINE f == M * Amount(d)
    <3>1. f \in Int
      <4>1. Amount(d) \in Nat
        BY AmountBounds
      <4> QED
        BY <1>3, <4>1
    <3>2. Amount(e) + c * (Base * P) = f
      <4> HIDE DEF f
      <4>1. Amount(e) + c * (Base * P) = f + 0
        BY <2>5 DEF f
      <4> QED
        BY <3>1, <4>1
    <3> QED
      BY <2>6, <2>7, <3>2
  <2>10. c = 0 /\ M * t <= u /\ u < M * (t + 1)
    BY <1>0, <1>2, <1>3, <2>4, <2>6, <2>7, <2>8, <2>9, TopMoves
  <2>11. t <= u
    <3>1. 1 * t <= M * t
      BY <1>2, <1>3, Monotone
    <3> QED
      BY <1>2, <1>3, <2>8, <2>10, <3>1
  <2>12. u < Half <=> t < Half
    BY <1>0, <1>2, <1>3, <2>8, <2>10, <2>11
  <2>13. Last(e) = u
    BY <1>0, <2>5 DEF Last, u
  <2>14. HalfCount(e) = HalfCount(d) /\ Last(e) # 0
    <3>1. HalfCount(e) = IF u < Half THEN 2 * (k + 1) - 1 ELSE 2 * (k + 1)
      BY <1>0, <2>5, <2>13, HalfCountIs
    <3>2. HalfCount(d) = IF t < Half THEN 2 * (k + 1) - 1 ELSE 2 * (k + 1)
      BY <1>0, HalfCountIs DEF t
    <3>3. u # 0
      BY <1>2, <2>8, <2>11
    <3> QED
      BY <2>12, <2>13, <3>1, <3>2, <3>3
  <2>15. Amount(e) = M * Amount(d)
    <3> DEFINE f == rest + u * P
    <3>1. f \in Int /\ c * (Base * P) = 0
      BY <1>0, <2>4, <2>7, <2>8, <2>10
    <3> HIDE DEF f
    <3>2. f + 0 = M * (low + t * P)
      BY <2>9, <3>1 DEF f
    <3> QED
      BY <2>6, <2>7, <3>1, <3>2 DEF f
  <2> QED
    BY <1>0, <2>1, <2>5, <2>14, <2>15 DEF IsNormalized, M
<1> QED
  BY <1>4, <1>5

LEMMA NumeratorShifted ==
  ASSUME NEW d \in Seq(Digit), NEW s \in 0 .. DigitBits
  PROVE  /\ NormalNumerator(d, s) \in Seq(Digit) /\ Len(NormalNumerator(d, s)) = Len(d) + 1
         /\ Amount(NormalNumerator(d, s)) = Power(2, s) * Amount(d)
<1> DEFINE e == d \o <<0>>  n == Len(d)  r == ShiftLeft(e, s)
<1>1. e = Append(d, 0) /\ n \in Nat
  OBVIOUS
<1>2. e \in Seq(Digit) /\ Len(e) = n + 1 /\ Amount(e) = Amount(d)
  BY ZeroAbove
<1>3. CASE s = 0
  <2>1. NormalNumerator(d, s) = e /\ Power(2, s) = 1
    BY <1>1, <1>3, PowerZero DEF NormalNumerator
  <2>2. Amount(d) \in Nat
    BY AmountBounds
  <2> HIDE DEF e
  <2> QED
    BY <1>2, <2>1, <2>2
<1>4. CASE s # 0
  <2>1. NormalNumerator(d, s) = r[1]
    BY <1>1, <1>4 DEF NormalNumerator
  <2>2. IsMultiple(r[1], d, Power(2, s))
    BY ShiftLeftFits
  <2> HIDE DEF e
  <2>3. IsScaled(r, e, Power(2, s), 0, 0 .. Power(2, s) - 1)
    BY <1>2, ShiftLeftExact
  <2> HIDE DEF r
  <2>4. Len(r[1]) = Len(e)
    BY <2>3 DEF IsScaled
  <2> QED
    BY <1>2, <2>1, <2>2, <2>4 DEF IsMultiple
<1> QED
  BY <1>3, <1>4

(* What is divided fits: it is below the denominator times the room for    *)
(* the quotient.                                                           *)
LEMMA RoomForQuotient ==
  ASSUME NEW L \in Nat, NEW n \in Nat, n >= 2, n <= 2 * L, NEW M \in Int, M >= 1,
         NEW a \in Int, 0 <= a, a < Power(Base, L), NEW D \in Int, D >= Power(Half, n - 1)
  PROVE  M * a < (M * D) * Power(Half, 2 * (L + 1) - n - 1)
<1> DEFINE j == n - 1  k == 2 * (L + 1) - n - 1  size == 2 * L  P == Power(Half, j)  R == Power(Half, k)
           S == Power(Base, L)
<1>1. Half \in Int /\ Half > 0 /\ j \in Nat /\ k \in Nat /\ j + k = size
  BY HalfFacts
<1>2. P * R = S
  <2> DEFINE N == 2 * L
  <2>1. Power(Half, size) = S
    BY PowerOfHalves
  <2> HIDE DEF j, k, size
  <2>2. Power(Half, j + k) = Power(Half, j) * Power(Half, k)
    BY <1>1, PowerSum
  <2> QED
    BY <1>1, <2>1, <2>2
<1>3. P \in Int /\ P > 0 /\ R \in Int /\ R > 0
  <2> HIDE DEF j, k
  <2> QED
    BY <1>1, PowerPositive
<1>4. D >= P /\ a < S
  OBVIOUS
<1> HIDE DEF P, R, S, j
<1>5. P * R <= D * R
  BY <1>3, <1>4, Monotone
<1>6. a < D * R /\ D * R \in Int
  <2> DEFINE f == P * R  g == D * R
  <2>1. f \in Int /\ g \in Int /\ f <= g /\ f = S
    BY <1>2, <1>3, <1>5
  <2> HIDE DEF f, g
  <2> QED
    BY <1>4, <2>1 DEF g
<1> DEFINE g == D * R
<1>7. a * M < g * M
  <2>1. g \in Int /\ a < g
    BY <1>6
  <2> HIDE DEF g
  <2> QED
    BY <2>1, StrictlyMonotone
<1>8. (M * D) * R = g * M /\ M * a = a * M
  BY <1>3
<1> QED
  BY <1>7, <1>8 DEF R, k

(* The remainder is a multiple of what everything was multiplied by.       *)
LEMMA RemainderShiftedBack ==
  ASSUME NEW p, NEW a \in Nat, NEW D \in Nat, NEW s \in 0 .. DigitBits, NEW M, M = Power(2, s),
         IsQuotientOf(p, M * a, M * D)
  PROVE  IsQuotientOf(ShiftedBack(p, s), a, D)
<1> DEFINE q == Amount(p.q)  r == Amount(p.r)  R == a - q * D  o == ShiftRight(p.r, s, FALSE)
           t == Amount(o[1])
<1>1. s \in Nat /\ M \in Int /\ M > 0
  BY PowerPositive
<1>2. p.q \in Seq(Digit) /\ p.r \in Seq(Digit) /\ M * a = q * (M * D) + r /\ r < M * D
  BY DEF IsQuotientOf
<1>3. q \in Nat /\ r \in Nat
  BY <1>2, AmountBounds
<1>4. CASE s = 0
  <2>1. M = 1 /\ ShiftedBack(p, s) = p
    BY <1>4, PowerZero DEF ShiftedBack
  <2>2. 1 * a = a /\ 1 * D = D
    OBVIOUS
  <2> QED
    BY <2>1, <2>2
<1>5. CASE s # 0
  <2>1. ShiftedBack(p, s) = [q |-> p.q, r |-> o[1]]
    BY <1>5 DEF ShiftedBack
  <2>2. IsQuotient(o, p.r, M, 0)
    <3>1. IsQuotient(o, p.r, M, IF FALSE THEN M - 1 ELSE 0)
      BY <1>2, ShiftRightExact
    <3> QED
      BY <3>1
  <2>3. o[1] \in Seq(Digit) /\ o[2] \in 0 .. M - 1 /\ M * t + o[2] = r + 0 * Power(Base, Len(p.r))
    BY <2>2 DEF IsQuotient
  <2>4. t \in Nat
    BY <2>3, AmountBounds
  <2>5. 0 * Power(Base, Len(p.r)) = 0
    <3>1. Power(Base, Len(p.r)) \in Int
      BY <1>2, AmountBounds
    <3> QED
      BY <3>1
  <2> HIDE DEF o, t, q, r
  <2>6. M * t + o[2] = r /\ o[2] \in Int
    BY <1>1, <1>3, <2>3, <2>5
  <2>7. M * R = r /\ R \in Int
    <3>1. M * R = M * a - q * (M * D) /\ R \in Int
      BY <1>1, <1>3
    <3> DEFINE f == M * a  g == q * (M * D)
    <3> HIDE DEF R
    <3>2. f \in Int /\ g \in Int
      <4>1. M * D \in Int
        BY <1>1
      <4> QED
        BY <1>1, <1>3, <4>1
    <3>3. f = g + r /\ M * R = f - g
      BY <1>2, <3>1
    <3> HIDE DEF f, g
    <3> QED
      BY <1>3, <3>1, <3>2, <3>3
  <2> HIDE DEF R
  <2>8. R = t
    <3> DEFINE zero == 0
    <3>1. r = M * R + zero /\ zero \in 0 .. M - 1 /\ r \in Int
      BY <1>1, <1>3, <2>7
    <3> DEFINE rest == o[2]
    <3>2. r = M * t + rest /\ t \in Int /\ rest \in 0 .. M - 1 /\ r \in Int
      BY <1>3, <2>3, <2>4, <2>6
    <3> HIDE DEF zero, rest
    <3>3. r \div M = R
      BY <1>1, <2>7, <3>1, DivUnique
    <3>4. r \div M = t
      BY <1>1, <3>2, DivUnique
    <3> QED
      BY <3>3, <3>4
  <2>9. a = q * D + R
    <3> DEFINE f == q * D
    <3>1. f \in Int /\ R = a - f
      BY <1>3 DEF R
    <3> HIDE DEF f
    <3>2. a = f + R
      BY <3>1
    <3> QED
      BY <3>2 DEF f
  <2>10. R < D
    <3> SUFFICES ASSUME D <= R PROVE FALSE
      BY <2>7
    <3>1. D * M <= R * M
      BY <1>1, <2>7, Monotone
    <3>2. D * M = M * D /\ R * M = M * R /\ M * D \in Int
      BY <1>1, <2>7
    <3> QED
      BY <1>2, <1>3, <2>7, <3>1, <3>2
  <2> QED
    BY <1>2, <2>1, <2>3, <2>8, <2>9, <2>10 DEF IsQuotientOf, q, t
<1> QED
  BY <1>4, <1>5

(* bignum_destructive_divide_full: the quotient and the remainder of the   *)
(* digits, for a denominator of more than one half digit.                  *)
THEOREM DivideFullExact ==
  ASSUME NEW num \in Seq(Digit), NEW den \in Seq(Digit), Len(den) > 0, Last(den) # 0,
         Len(den) = 1 => ~FitsHalf(den[1]), Len(den) <= Len(num)
  PROVE  /\ DivideFull(num, den).q \in Seq(Digit) /\ DivideFull(num, den).r \in Seq(Digit)
         /\ Amount(num) = Amount(DivideFull(num, den).q) * Amount(den) + Amount(DivideFull(num, den).r)
         /\ Amount(DivideFull(num, den).r) < Amount(den)
<1> DEFINE L == Len(num)  n == HalfCount(den)  s == FullShift(Last(den))  M == Power(2, s)
           u == NormalNumerator(num, s)  v == NormalDenominator(den, s)
           a == Amount(num)  D == Amount(den)  p == DivideNormalized(u, v)
<1>1. DivideFull(num, den) = ShiftedBack(p, s)
  BY DEF DivideFull, DivideShifted, FullShift, NormalNumerator, NormalDenominator
<1>2. Last(den) = den[Len(den)] /\ Last(den) \in Digit /\ Last(den) > 0 /\ Len(den) \in Nat /\ L \in Nat
  <2>1. Last(den) = den[Len(den)] /\ Last(den) \in Digit
    BY HalfCountIs
  <2>2. Last(den) \in Int /\ 0 <= Last(den)
    BY <2>1, HalfFacts DEF Digit
  <2> QED
    BY <2>1, <2>2
<1>3. n \in Nat /\ n >= 2 /\ n <= 2 * L
  <2>1. n \in Nat /\ n = (IF Last(den) < Half THEN 2 * Len(den) - 1 ELSE 2 * Len(den))
    BY HalfCountIs
  <2>2. n >= 2
    <3>1. CASE Len(den) = 1
      <4>1. Hi(Last(den)) # 0
        BY <1>2, <3>1 DEF FitsHalf
      <4>2. Bit(Hi(Last(den)) = 0) = 0
        BY <4>1 DEF Bit
      <4> QED
        BY <3>1, <4>2 DEF HalfCount
    <3>2. CASE Len(den) # 1
      <4> DEFINE l == Len(den)
      <4>1. l \in Nat /\ l > 0 /\ l # 1 /\ n = (IF Last(den) < Half THEN 2 * l - 1 ELSE 2 * l)
        BY <1>2, <2>1, <3>2
      <4> HIDE DEF n, l
      <4>2. l \in Nat /\ l >= 2 /\ n = (IF Last(den) < Half THEN 2 * l - 1 ELSE 2 * l)
        BY <4>1
      <4> QED
        BY <4>2
    <3> QED
      BY <3>1, <3>2
  <2> QED
    BY <1>2, <2>1, <2>2
<1>4. s \in Nat /\ s \in 0 .. DigitBits /\ M \in Int /\ M >= 1
  <2> DEFINE t == Last(den)
  <2>1. t \in Digit /\ t > 0 /\ s = FullShift(t) /\ M = Power(2, s)
    BY <1>2
  <2> HIDE DEF s, M, t
  <2> QED
    BY <2>1, FullShiftFits
<1>5. IsNormalized(v, den, M)
  BY DenominatorNormalized
<1>6. a \in Nat /\ a < Power(Base, L) /\ D \in Nat /\ Power(Base, L) \in Int
  <2>1. Amount(num) \in 0 .. Power(Base, Len(num)) - 1 /\ Power(Base, Len(num)) \in Int /\ Amount(num) \in Nat
    BY AmountBounds
  <2>2. Amount(den) \in Nat
    BY AmountBounds
  <2> QED
    BY <2>1, <2>2
<1>7. D >= Power(Half, n - 1)
  <2>1. IsDivisor(Halves(den), n, D)
    BY <1>3, HalvesDivisor
  <2> QED
    BY <2>1, DivisorBounds
<1> HIDE DEF s, M
<1>8. u \in Seq(Digit) /\ Len(u) = L + 1 /\ Amount(u) = M * a
  BY <1>4, NumeratorShifted DEF M
<1>9. v \in Seq(Digit) /\ Len(v) > 0 /\ Last(v) # 0 /\ n = HalfCount(v) /\ Amount(v) = M * D
  BY <1>5 DEF IsNormalized
<1> HIDE DEF u, v, a, D, L, n
<1>10. M * a < (M * D) * Power(Half, 2 * (L + 1) - n - 1)
  <2>1. /\ L \in Nat /\ n \in Nat /\ n >= 2 /\ n <= 2 * L /\ M \in Int /\ M >= 1
        /\ a \in Int /\ 0 <= a /\ a < Power(Base, L) /\ D \in Int /\ D >= Power(Half, n - 1)
    BY <1>2, <1>3, <1>4, <1>6, <1>7
  <2> QED
    BY <2>1, RoomForQuotient
<1>11. n + 2 <= 2 * Len(u) /\ Amount(u) < Amount(v) * Power(Half, 2 * Len(u) - n - 1)
  BY <1>2, <1>3, <1>8, <1>9, <1>10
<1>12. IsQuotientOf(p, Amount(u), Amount(v))
  BY <1>3, <1>8, <1>9, <1>11, DivideNormalizedExact
<1>13. IsQuotientOf(p, M * a, M * D)
  BY <1>8, <1>9, <1>12
<1> HIDE DEF p
<1>14. IsQuotientOf(ShiftedBack(p, s), a, D)
  <2>1. M = Power(2, s)
    BY DEF M
  <2> HIDE DEF M
  <2> QED
    BY <1>4, <1>6, <1>13, <2>1, RemainderShiftedBack
<1> QED
  BY <1>1, <1>14 DEF IsQuotientOf, a, D

(* p is v divided by w, truncated: the remainder is smaller than the       *)
(* divisor and has the sign of the dividend.                               *)
Truncates(p, v, w) ==
  \E q, r \in Int :
    /\ IsExactly(p.q, q) /\ IsExactly(p.r, r)
    /\ v = q * w + r /\ Magnitude(r) < Magnitude(w) /\ (r = 0 \/ (r < 0 <=> v < 0))

(* The signs of a quotient and a remainder of magnitudes.                  *)
LEMMA SignsOfQuotient ==
  ASSUME NEW s \in BOOLEAN, NEW t \in BOOLEAN, NEW a \in Nat, NEW b \in Nat,
         NEW q \in Nat, NEW r \in Nat, a = q * b + r, r < b,
         NEW p, IsExactly(p.q, Signed(s # t, q)), IsExactly(p.r, Signed(s, r))
  PROVE  Truncates(p, Signed(s, a), Signed(t, b))
<1> DEFINE c == q * b  v == Signed(s, a)  w == Signed(t, b)  qq == Signed(s # t, q)  rr == Signed(s, r)
<1>1. c \in Int /\ c >= 0 /\ a = c + r
  <2>1. 0 * b <= q * b /\ 0 * b = 0 /\ q * b \in Int
    BY Monotone
  <2> QED
    BY <2>1
<1> DEFINE e == s # t  f == e # t
<1>2. e \in BOOLEAN /\ f = s
  OBVIOUS
<1>3. qq = Signed(e, q)
  OBVIOUS
<1>4. qq * w = Signed(s, c)
  <2> HIDE DEF e
  <2>1. Signed(e, q) * Signed(t, b) = Signed(e # t, q * b)
    BY <1>2, SignedProduct
  <2>2. Signed(e # t, q * b) = Signed(f, c)
    OBVIOUS
  <2> HIDE DEF f, c, qq, w
  <2>3. qq * w = Signed(f, c)
    BY <1>3, <2>1, <2>2 DEF w
  <2> QED
    BY <1>2, <2>3
<1>5. qq \in Int /\ rr \in Int
  <2>1. \A neg \in BOOLEAN, n \in Nat : Signed(neg, n) \in Int
    BY DEF Signed
  <2>2. (s # t) \in BOOLEAN
    OBVIOUS
  <2> QED
    BY <2>1, <2>2
<1>6. v = Signed(s, c) + rr
  <2> HIDE DEF c
  <2>1. CASE s = TRUE
    BY <1>1, <2>1 DEF Signed
  <2>2. CASE s = FALSE
    BY <1>1, <2>2 DEF Signed
  <2> QED
    BY <2>1, <2>2
<1>7. Magnitude(rr) = r /\ Magnitude(w) = b
  BY MagnitudeOfSigned
<1>8. rr = 0 \/ (rr < 0 <=> v < 0)
  <2> HIDE DEF c
  <2>1. CASE s = TRUE
    BY <1>1, <2>1 DEF Signed
  <2>2. CASE s = FALSE
    BY <1>1, <2>2 DEF Signed
  <2> QED
    BY <2>1, <2>2
<1>9. v = qq * w + rr
  BY <1>4, <1>6
<1> HIDE DEF c, qq, rr, w, v
<1>10. IsExactly(p.q, qq) /\ IsExactly(p.r, rr)
  BY DEF qq, rr
<1>11. Truncates(p, v, w)
  BY <1>5, <1>7, <1>8, <1>9, <1>10 DEF Truncates
<1> QED
  BY <1>11 DEF v, w

(* Negated words are integers.                                             *)
LEMMA NegatedWord ==
  ASSUME NEW neg \in BOOLEAN, NEW n \in Nat, FitsFixnum(n)
  PROVE  /\ Fix(IF neg THEN -n ELSE n) = Fix(Signed(neg, n)) /\ IsExactly(Fix(Signed(neg, n)), Signed(neg, n))
<1>1. Signed(neg, n) \in Int /\ FitsFixnum(Signed(neg, n))
  BY BaseFacts DEF Signed, FitsFixnum
<1>2. Fix(IF neg THEN -n ELSE n) = Fix(Signed(neg, n))
  BY DEF Signed
<1> QED
  BY <1>1, <1>2, FixIsExact

(* bignum_destructive_divide_unsigned_small and bignum_digits_destructive_ *)
(* shift_right: the quotient and the remainder of a bignum and a small     *)
(* fixnum.                                                                 *)
THEOREM DivideSmallExact ==
  ASSUME NEW x1, NEW v, IsExactly(x1, v), ~IsFix(x1),
         NEW y1 \in Int, FitsFixnum(y1), y1 # 0, Small(Magnitude(y1))
  PROVE  Truncates(DivideSmall(x1, y1), v, y1)
<1> DEFINE m == Magnitude(y1)  d == x1.d  neg == x1.neg  t == (y1 < 0)
           o == IF PowerOfTwo(m) THEN ShiftRight(d, Ilen(m) - 1, FALSE) ELSE ScaleDown(d, m)
           q == Amount(o[1])  r == o[2]  a == Amount(d)
<1>1. /\ neg \in BOOLEAN /\ d \in Seq(Digit) /\ v = Signed(neg, a)
  BY ExactCases
<1>2. m \in Digit /\ m \in Int /\ y1 = Signed(t, m) /\ t \in BOOLEAN
  BY FixnumIsDigit
<1>3. m > 0 /\ m \in Nat /\ m <= MostPositive + 1
  BY BaseFacts DEF Magnitude, FitsFixnum
<1>4. IsQuotient(o, d, m, 0)
  <2>1. CASE PowerOfTwo(m)
    <3> DEFINE s == Ilen(m) - 1
    <3>1. s \in 0 .. DigitBits - 1 /\ Power(2, s) = m
      BY <1>2, <2>1, ExponentOfPower
    <3>2. s \in 0 .. DigitBits
      BY <3>1, BaseFacts
    <3>3. o = ShiftRight(d, s, FALSE)
      BY <2>1
    <3> HIDE DEF s, o, m, d
    <3>4. IsQuotient(ShiftRight(d, s, FALSE), d, Power(2, s), IF FALSE THEN Power(2, s) - 1 ELSE 0)
      BY <1>1, <3>2, ShiftRightExact
    <3> QED
      BY <3>1, <3>3, <3>4
  <2>2. CASE ~PowerOfTwo(m)
    <3>1. FitsHalf(m)
      BY <2>2 DEF Small
    <3>2. m \in HalfDigit
      BY <1>2, <3>1, HalfMeansLow
    <3>3. o = ScaleDown(d, m)
      BY <2>2
    <3> HIDE DEF o, m, d
    <3> QED
      BY <1>1, <1>3, <3>2, <3>3, ScaleDownExact
  <2> QED
    BY <2>1, <2>2
<1>5. o[1] \in Seq(Digit) /\ r \in 0 .. m - 1 /\ m * q + r = a + 0 * Power(Base, Len(d))
  BY <1>4 DEF IsQuotient
<1>6. q \in Nat /\ a \in Nat /\ Power(Base, Len(d)) \in Int
  BY <1>1, <1>5, AmountBounds
<1>7. a = q * m + r /\ r < m /\ r \in Nat
  <2> DEFINE P == Power(Base, Len(d))  c == m * q
  <2>1. c + r = a + 0 * P
    BY <1>5
  <2> HIDE DEF P, a, r, q, m
  <2>2. 0 * P = 0 /\ c = q * m /\ c \in Int
    BY <1>2, <1>6 DEF P
  <2>3. r \in 0 .. m - 1
    BY <1>5
  <2> HIDE DEF c
  <2>4. a = c + r /\ r < m /\ r \in Nat
    BY <1>3, <1>6, <2>1, <2>2, <2>3
  <2> QED
    BY <2>2, <2>4
<1>8. FitsFixnum(r)
  <2> HIDE DEF r, m
  <2> QED
    BY <1>3, <1>7, BaseFacts DEF FitsFixnum
<1> DEFINE p == DivideSmall(x1, y1)
<1>9. p.q = Simplify(neg # t, o[1]) /\ p.r = Fix(IF neg THEN -r ELSE r)
  BY DEF DivideSmall, SmallQuotient
<1> HIDE DEF o, q, r, a, d, m, t, neg, p
<1>10. (neg # t) \in BOOLEAN
  OBVIOUS
<1>11. IsExactly(p.q, Signed(neg # t, q))
  <2> DEFINE e == neg # t
  <2> HIDE DEF e
  <2>1. e \in BOOLEAN /\ p.q = Simplify(e, o[1])
    BY <1>9, <1>10 DEF e
  <2>2. IsExactly(Simplify(e, o[1]), Signed(e, q))
    BY <1>5, <2>1, SimplifyExact DEF q
  <2> QED
    BY <2>1, <2>2 DEF e
<1>12. IsExactly(p.r, Signed(neg, r))
  BY <1>1, <1>7, <1>8, <1>9, NegatedWord
<1>13. Truncates(p, Signed(neg, a), Signed(t, m))
  BY <1>1, <1>2, <1>3, <1>6, <1>7, <1>11, <1>12, SignsOfQuotient
<1> QED
  BY <1>1, <1>2, <1>13 DEF p

(* C division of fixnums.                                                  *)
LEMMA TruncatedWords ==
  ASSUME NEW n \in Int, NEW m \in Int, m # 0, NEW q, NEW r,
         q = Magnitude(n) \div Magnitude(m), r = Magnitude(n) % Magnitude(m)
  PROVE  /\ q \in Nat /\ r \in Nat /\ Magnitude(n) = q * Magnitude(m) + r
         /\ r < Magnitude(m) /\ q <= Magnitude(n)
         /\ Truncated(n, m) = Signed((n < 0) # (m < 0), q)
         /\ n - Truncated(n, m) * m = Signed(n < 0, r)
<1> DEFINE a == Magnitude(n)  b == Magnitude(m)  s == (n < 0)  t == (m < 0)  e == s # t  f == e # t
           T == Truncated(n, m)  c == q * b
<1>1. a \in Nat /\ b \in Nat /\ b > 0 /\ n = Signed(s, a) /\ m = Signed(t, b) /\ s \in BOOLEAN
      /\ t \in BOOLEAN
  BY DEF Magnitude, Signed
<1>2. q \in Int /\ r \in 0 .. b - 1 /\ a = b * q + r
  <2> HIDE DEF a, b
  <2>1. q = a \div b /\ r = a % b
    BY DEF a, b
  <2>2. a \in Int /\ b \in Int /\ b > 0
    BY <1>1
  <2> HIDE DEF c, e, f, s, t, T
  <2>3. a \div b \in Int /\ a % b \in 0 .. b - 1 /\ a = b * (a \div b) + (a % b)
    BY <2>2, DivMod
  <2> QED
    BY <2>1, <2>3
<1>3. T = Signed(e, q)
  BY DEF Truncated, Signed
<1>4. e \in BOOLEAN /\ f = s
  <2> HIDE DEF s, t
  <2> QED
    BY <1>1
<1> HIDE DEF a, b, T, e, f, c, s, t
<1>5. q >= 0
  <2> SUFFICES ASSUME q <= -1 PROVE FALSE
    BY <1>2
  <2>1. q * b <= (-1) * b /\ q * b = b * q /\ (-1) * b = -b /\ b * q \in Int
    BY <1>1, <1>2, Monotone
  <2> QED
    BY <1>1, <1>2, <2>1
<1>6. c \in Int /\ a = c + r /\ c >= q
  <2>1. 1 * q <= b * q /\ b * q = c /\ b * q \in Int
    BY <1>1, <1>2, <1>5, Monotone DEF c
  <2> QED
    BY <1>1, <1>2, <2>1
<1>7. T * m = Signed(s, c)
  <2>1. Signed(e, q) * Signed(t, b) = Signed(e # t, q * b)
    BY <1>1, <1>2, <1>4, SignedProduct
  <2>2. Signed(e # t, q * b) = Signed(f, c)
    BY DEF f, c
  <2> QED
    BY <1>1, <1>3, <1>4, <2>1, <2>2
<1>8. n - T * m = Signed(s, r)
  <2>1. CASE s = TRUE
    BY <1>1, <1>2, <1>6, <1>7, <2>1 DEF Signed
  <2>2. CASE s = FALSE
    BY <1>1, <1>2, <1>6, <1>7, <2>2 DEF Signed
  <2> QED
    BY <1>1, <2>1, <2>2
<1>9. /\ q \in Nat /\ r \in Nat /\ a = q * b + r /\ r < b /\ q <= a
  BY <1>1, <1>2, <1>5, <1>6 DEF c
<1>10. T = Signed((n < 0) # (m < 0), q)
  BY <1>3 DEF e, s, t
<1> QED
  BY <1>8, <1>9, <1>10 DEF a, b, s, T

LEMMA FixnumDivRem ==
  ASSUME NEW n \in Int, NEW m \in Int, FitsFixnum(n), FitsFixnum(m), m # 0, NEW p,
         p = [q |-> FromWord(Truncated(n, m)), r |-> Fix(n - Truncated(n, m) * m)]
  PROVE  Truncates(p, n, m)
<1> DEFINE a == Magnitude(n)  b == Magnitude(m)  s == (n < 0)  t == (m < 0)
           q == a \div b  r == a % b  e == s # t
<1>1. /\ q \in Nat /\ r \in Nat /\ a = q * b + r
      /\ r < b /\ q <= a
      /\ Truncated(n, m) = Signed(e, q)
      /\ n - Truncated(n, m) * m = Signed(s, r)
  BY TruncatedWords
<1>2. a \in Nat /\ b \in Nat /\ n = Signed(s, a) /\ m = Signed(t, b) /\ s \in BOOLEAN /\ t \in BOOLEAN
  BY DEF Magnitude, Signed
<1>3. e \in BOOLEAN /\ a <= MostPositive + 1 /\ b <= MostPositive + 1
  BY BaseFacts DEF Magnitude, FitsFixnum
<1> HIDE DEF a, b, q, r, e, s, t
<1>4. IsExactly(FromWord(Signed(e, q)), Signed(e, q))
  <2>1. Signed(e, q) \in Int /\ Magnitude(Signed(e, q)) = q
    BY <1>1, <1>3, MagnitudeOfSigned DEF Signed
  <2>2. q < Base
    BY <1>1, <1>2, <1>3, BaseFacts
  <2> QED
    BY <2>1, <2>2, FromWordExact
<1>5. IsExactly(Fix(Signed(s, r)), Signed(s, r))
  <2>1. FitsFixnum(r)
    BY <1>1, <1>2, <1>3, BaseFacts DEF FitsFixnum
  <2> QED
    BY <1>1, <1>2, <2>1, NegatedWord
<1>6. p.q = FromWord(Signed(e, q)) /\ p.r = Fix(Signed(s, r))
  BY <1>1
<1>7. IsExactly(p.q, Signed(s # t, q)) /\ IsExactly(p.r, Signed(s, r))
  BY <1>4, <1>5, <1>6 DEF e
<1>8. Truncates(p, Signed(s, a), Signed(t, b))
  BY <1>1, <1>2, <1>7, SignsOfQuotient
<1> QED
  BY <1>2, <1>8

(* A quotient of zero or one.                                              *)
LEMMA NothingToDivide ==
  ASSUME NEW x1, NEW v, NEW w \in Int, IsExactly(x1, v), Magnitude(v) < Magnitude(w), NEW p,
         p = [q |-> Zero, r |-> x1]
  PROVE  Truncates(p, v, w)
<1> DEFINE zero == 0
<1>1. v \in Int /\ zero \in Int /\ IsExactly(p.q, zero) /\ IsExactly(p.r, v)
  BY ExactInt, ZeroIsExact
<1>2. v = zero * w + v
  BY <1>1
<1> HIDE DEF zero
<1> QED
  BY <1>1, <1>2 DEF Truncates

LEMMA DividesEvenly ==
  ASSUME NEW v \in Int, NEW w \in Int, NEW q \in Int, v = q * w, w # 0, NEW p,
         IsExactly(p.q, q), p.r = Zero
  PROVE  Truncates(p, v, w)
<1> DEFINE zero == 0
<1>1. zero \in Int /\ IsExactly(p.r, zero) /\ v = q * w + zero
  BY ZeroIsExact
<1>2. Magnitude(zero) < Magnitude(w) /\ zero = 0
  BY DEF Magnitude
<1> HIDE DEF zero
<1> QED
  BY <1>1, <1>2 DEF Truncates

(* A fixnum divided by a bignum.                                           *)
LEMMA FixnumByBignum ==
  ASSUME NEW n \in Int, FitsFixnum(n), NEW y1, NEW w, IsExactly(y1, w), ~IsFix(y1), NEW p,
         p = IF n = MostNegative /\ y1 = FromWord(-MostNegative)
             THEN [q |-> Fix(-1), r |-> Zero] ELSE [q |-> Zero, r |-> Fix(n)]
  PROVE  Truncates(p, n, w)
<1> DEFINE top == MostPositive + 1
<1>1. /\ top \in Int /\ top >= 4 /\ MostNegative = -top /\ -MostNegative = top /\ -top <= n /\ n <= top - 1
      /\ w \in Int /\ (w < -top \/ w > top - 1) /\ IsExactly(Fix(n), n)
  BY BaseFacts, BigIsLarge, ExactInt, FixIsExact DEF FitsFixnum
<1>2. CASE n = MostNegative /\ y1 = FromWord(-MostNegative)
  <2>1. IsExactly(FromWord(top), top)
    <3>1. Magnitude(top) < Base
      BY <1>1, BaseFacts DEF Magnitude
    <3> QED
      BY <1>1, <3>1, FromWordExact
  <2>2. w = top
    <3>1. IsExactly(y1, top)
      BY <1>1, <1>2, <2>1
    <3> QED
      BY <3>1 DEF IsExactly
  <2>3. FitsFixnum(-1) /\ IsExactly(Fix(-1), -1) /\ p.q = Fix(-1) /\ p.r = Zero
    BY <1>2, FixIsExact, BaseFacts DEF FitsFixnum
  <2>4. n = (-1) * w /\ w # 0
    BY <1>1, <1>2, <2>2
  <2> QED
    BY <1>1, <2>3, <2>4, DividesEvenly
<1>3. CASE ~(n = MostNegative /\ y1 = FromWord(-MostNegative))
  <2>1. Magnitude(n) < Magnitude(w)
    <3> SUFFICES ASSUME ~(Magnitude(n) < Magnitude(w)) PROVE FALSE
      OBVIOUS
    <3>1. n = -top /\ w = top
      BY <1>1 DEF Magnitude
    <3>2. Magnitude(top) < Base
      BY <1>1, BaseFacts DEF Magnitude
    <3>3. IsExactly(FromWord(top), top)
      BY <1>1, <3>2, FromWordExact
    <3>4. y1 = FromWord(top)
      BY <3>1, <3>3, OneForm
    <3> QED
      BY <1>1, <1>3, <3>1, <3>4
  <2>2. p = [q |-> Zero, r |-> Fix(n)]
    BY <1>3
  <2> QED
    BY <1>1, <2>1, <2>2, NothingToDivide
<1> QED
  BY <1>2, <1>3

(* The parts of the digits.                                                *)
LEMMA PartBounds ==
  ASSUME NEW d \in Seq(Digit), NEW b \in 0 .. Len(d), NEW a \in 0 .. b
  PROVE  PartValue(d, a, b) \in Nat /\ PartValue(d, a, b) \in 0 .. Power(Base, b - a) - 1
<1> DEFINE e == [i \in 1 .. b - a |-> d[a + i]]  k == b - a
<1>0. Len(d) \in Nat /\ k \in Nat /\ a \in Nat /\ b \in Nat /\ b <= Len(d) /\ Base \in Int /\ Base > 0
  BY HalfFacts
<1>1. \A i \in 1 .. k : e[i] \in 0 .. Base - 1
  <2>1. \A i \in 1 .. k : e[i] = d[a + i] /\ a + i \in 1 .. Len(d)
    BY <1>0
  <2>2. \A i \in 1 .. Len(d) : d[i] \in Digit
    OBVIOUS
  <2> QED
    BY <2>1, <2>2 DEF Digit
<1>2. PartValue(d, a, b) = DigitsValue(Base, e, k)
  BY DEF PartValue
<1> HIDE DEF e, k
<1>3. DigitsValue(Base, e, k) \in 0 .. Power(Base, k) - 1 /\ Power(Base, k) \in Int
  BY <1>0, <1>1, ValueBounds, PowerInt
<1>4. DigitsValue(Base, e, k) \in Nat
  BY <1>3
<1> QED
  BY <1>2, <1>3, <1>4 DEF k

LEMMA PartSplit ==
  ASSUME NEW d \in Seq(Digit), NEW c \in 0 .. Len(d), NEW b \in 0 .. c, NEW a \in 0 .. b
  PROVE  PartValue(d, a, c) = PartValue(d, b, c) * Power(Base, b - a) + PartValue(d, a, b)
<1> DEFINE e == [i \in 1 .. c - a |-> d[a + i]]  f == [i \in 1 .. c - b |-> d[b + i]]
           g == [i \in 1 .. b - a |-> d[a + i]]  m == b - a  n == c - b  k == c - a
<1>0. /\ Len(d) \in Nat /\ m \in Nat /\ n \in Nat /\ k = m + n /\ a \in Nat /\ b \in Nat /\ b = a + m
      /\ c = b + n /\ c <= Len(d) /\ Base \in Int
  BY HalfFacts
<1>1. \A i \in 1 .. Len(d) : d[i] \in Int
  BY DigitSequence
<1>2. \A i \in 1 .. k : e[i] = d[a + i] /\ e[i] \in Int
  BY <1>0, <1>1
<1>3. \A i \in 1 .. n : f[i] = d[b + i]
  OBVIOUS
<1>4. \A i \in 1 .. m : g[i] = d[a + i]
  OBVIOUS
<1>5. /\ PartValue(d, a, c) = DigitsValue(Base, e, k) /\ PartValue(d, b, c) = DigitsValue(Base, f, n)
      /\ PartValue(d, a, b) = DigitsValue(Base, g, m)
  BY DEF PartValue
<1> HIDE DEF e, f, g, m, n, k
<1>6. \A i \in 1 .. n : f[i] = e[m + i]
  <2> TAKE i \in 1 .. n
  <2>1. m + i \in 1 .. k /\ a + (m + i) = b + i
    BY <1>0
  <2> QED
    BY <1>2, <1>3, <2>1
<1>7. \A i \in 1 .. m + n : e[i] \in Int
  BY <1>0, <1>2
<1>8. Splits(Base, e, f, m, n)
  BY <1>0, <1>6, <1>7, ValueSplits
<1>9. DigitsValue(Base, e, m) = DigitsValue(Base, g, m)
  <2>1. \A i \in 1 .. m : e[i] \in Int /\ g[i] = e[i]
    BY <1>0, <1>2, <1>4
  <2> QED
    BY <1>0, <2>1, SameDigits
<1> DEFINE P == Power(Base, m)  F == DigitsValue(Base, f, n)  G == DigitsValue(Base, g, m)
           E == DigitsValue(Base, e, k)
<1>10. E = G + P * F
  BY <1>0, <1>8, <1>9 DEF Splits
<1>11. P \in Int /\ F \in Int /\ G \in Int
  <2>1. \A i \in 1 .. n : f[i] \in Int
    BY <1>0, <1>6, <1>7
  <2>2. \A i \in 1 .. m : g[i] \in Int
    BY <1>0, <1>2, <1>4
  <2> QED
    BY <1>0, <2>1, <2>2, PowerInt, ValueInt
<1> HIDE DEF P, F, G, E
<1>12. E = F * P + G
  <2>1. P * F = F * P /\ F * P \in Int
    BY <1>11
  <2> QED
    BY <1>10, <1>11, <2>1
<1> QED
  BY <1>5, <1>12 DEF P, F, G, E, m

(* The digits of a number that are parts of it.                            *)
LEMMA PositiveBig ==
  ASSUME NEW x1, NEW v, IsExactly(x1, v), v >= 0, ~IsFix(x1)
  PROVE  x1.neg = FALSE /\ x1.d \in Seq(Digit) /\ v = Amount(x1.d)
<1>1. v \in Int /\ ~FitsFixnum(v) /\ x1.neg \in BOOLEAN /\ Amount(x1.d) \in Nat
      /\ v = Signed(x1.neg, Amount(x1.d))
  BY ExactInt, BigIsLarge
<1>2. x1.d \in Seq(Digit)
  BY ExactCases
<1>3. v # 0
  BY <1>1, BaseFacts DEF FitsFixnum
<1>4. x1.neg = FALSE
  <2> SUFFICES ASSUME x1.neg = TRUE PROVE FALSE
    BY <1>1
  <2>1. v = -Amount(x1.d)
    BY <1>1 DEF Signed
  <2> QED
    BY <1>1, <1>3, <2>1
<1> QED
  BY <1>1, <1>2, <1>4 DEF Signed

LEMMA ExtractIsPart ==
  ASSUME NEW x1, NEW v, IsExactly(x1, v), v >= 0, ~IsFix(x1), NEW d, d = x1.d, NEW a \in Nat, NEW b,
         b \in Nat \/ b = ToTheEnd, NEW c, c = IF b = ToTheEnd \/ b > Len(d) THEN Len(d) ELSE b
  PROVE  /\ a >= c => Extract(x1, a, b) = Zero
         /\ a <= c => /\ IsExactly(Extract(x1, a, b), PartValue(d, a, c)) /\ c \in 0 .. Len(d)
                      /\ a \in 0 .. c
<1>0. x1.neg = FALSE /\ x1.d \in Seq(Digit) /\ v = Amount(x1.d)
  BY PositiveBig
<1>1. x1.neg = FALSE /\ d \in Seq(Digit) /\ v = Amount(d) /\ Len(d) \in Nat
  BY <1>0
<1>2. Extract(x1, a, b) = PartOf(FALSE, d, a, c)
  BY <1>1 DEF Extract, PartOf, Size
<1>3. a >= c => PartOf(FALSE, d, a, c) = Zero
  BY DEF PartOf
<1>4. c \in 0 .. Len(d)
  BY <1>1 DEF ToTheEnd
<1>5. ASSUME a <= c PROVE IsExactly(PartOf(FALSE, d, a, c), PartValue(d, a, c)) /\ a \in 0 .. c
  <2>1. a \in 0 .. c
    BY <1>4, <1>5
  <2>2. IsExactly(PartOf(FALSE, d, a, c), Signed(FALSE, PartValue(d, a, c)))
    BY <1>1, <1>4, <2>1, PartExact
  <2> QED
    BY <2>1, <2>2 DEF Signed
<1> QED
  BY <1>2, <1>3, <1>4, <1>5

LEMMA WholeExact ==
  ASSUME NEW x1, NEW v, IsExactly(x1, v), v >= 0
  PROVE  IsExactly(Extract(x1, 0, ToTheEnd), v)
<1>1. CASE IsFix(x1)
  BY <1>1 DEF Extract, ToTheEnd
<1>2. CASE ~IsFix(x1)
  <2> DEFINE d == x1.d  n == Len(d)  zero == 0
  <2>0. x1.neg = FALSE /\ x1.d \in Seq(Digit) /\ v = Amount(x1.d)
    BY <1>2, PositiveBig
  <2>1. d \in Seq(Digit) /\ v = Amount(d) /\ n \in Nat
    BY <2>0
  <2>2. n = (IF ToTheEnd = ToTheEnd \/ ToTheEnd > Len(d) THEN Len(d) ELSE ToTheEnd)
        /\ zero \in Nat /\ zero <= n
    BY <2>1
  <2>3. PartValue(d, zero, n) = v
    <3>1. PartValue(d, zero, n) = DigitsValue(Base, [i \in 1 .. n |-> d[i]], n)
      <4>1. n - 0 = n /\ \A i \in 1 .. n : 0 + i = i
        BY <2>1
      <4> QED
        BY <4>1 DEF PartValue
    <3>2. [i \in 1 .. n |-> d[i]] = d
      BY <2>1
    <3> QED
      BY <2>1, <3>1, <3>2 DEF Amount
  <2> HIDE DEF zero, n
  <2>4. IsExactly(Extract(x1, zero, ToTheEnd), PartValue(d, zero, n))
    BY <1>2, <2>2, ExtractIsPart
  <2> QED
    BY <2>3, <2>4 DEF zero
<1> QED
  BY <1>1, <1>2

(* What is above a is what is above b, and what is between them.           *)
AreMiddle(hi, mid, top, p) ==
  \E h, g \in Nat, m \in 0 .. p - 1 :
    IsExactly(hi, h) /\ IsExactly(mid, m) /\ IsExactly(top, g) /\ h = g * p + m

LEMMA NothingMiddle ==
  ASSUME NEW h \in Nat, NEW hi, NEW mid, NEW top, NEW p \in Nat, h < p,
         IsExactly(hi, h), IsExactly(mid, h), top = Zero
  PROVE  AreMiddle(hi, mid, top, p)
<1> DEFINE zero == 0
<1>1. zero \in Nat /\ IsExactly(top, zero) /\ h = zero * p + h /\ h \in 0 .. p - 1
  BY ZeroIsExact
<1> HIDE DEF zero
<1> QED
  BY <1>1 DEF AreMiddle

LEMMA MiddleOfFixnum ==
  ASSUME NEW x1, NEW v, IsExactly(x1, v), v >= 0, IsFix(x1), NEW b \in Nat, NEW a \in 0 .. b
  PROVE  AreMiddle(Extract(x1, a, ToTheEnd), Extract(x1, a, b), Extract(x1, b, ToTheEnd), Power(Base, b - a))
<1> DEFINE p == Power(Base, b - a)
<1>0. v \in Nat /\ v < Base /\ Base \in Int /\ Base > 0
  BY ExactCases, BaseFacts DEF FitsFixnum
<1>1. p \in Nat /\ p >= 1
  BY PositivePowers
<1>2. CASE a = 0 /\ b = 0
  <2> DEFINE zero == 0
  <2>1. Extract(x1, a, ToTheEnd) = x1 /\ Extract(x1, a, b) = Zero /\ Extract(x1, b, ToTheEnd) = x1
    BY <1>2 DEF Extract, ToTheEnd
  <2>2. p = 1
    BY <1>0, <1>2, PowerZero
  <2>3. v = v * p + zero /\ zero \in 0 .. p - 1 /\ IsExactly(Zero, zero)
    BY <1>0, <2>2, ZeroIsExact
  <2> HIDE DEF p, zero
  <2> QED
    BY <1>0, <2>1, <2>3 DEF AreMiddle, p
<1>3. CASE a = 0 /\ b # 0
  <2>1. Extract(x1, a, ToTheEnd) = x1 /\ Extract(x1, a, b) = x1 /\ Extract(x1, b, ToTheEnd) = Zero
    BY <1>3 DEF Extract, ToTheEnd
  <2>2. v < p
    <3>1. Power(Base, 1) <= Power(Base, b)
      BY <1>0, <1>3, PowerMonotone
    <3>2. Power(Base, 0 + 1) = Base * Power(Base, 0) /\ Power(Base, 0) = 1
      BY <1>0, PowerNext, PowerZero
    <3>3. p = Power(Base, b) /\ Power(Base, 1) = Base
      BY <1>0, <1>3, <3>2
    <3> QED
      BY <1>0, <1>1, <3>1, <3>3
  <2> HIDE DEF p
  <2> QED
    BY <1>0, <1>1, <2>1, <2>2, NothingMiddle DEF p
<1>4. CASE a # 0
  <2> DEFINE zero == 0
  <2>1. Extract(x1, a, ToTheEnd) = Zero /\ Extract(x1, a, b) = Zero /\ Extract(x1, b, ToTheEnd) = Zero
    BY <1>4 DEF Extract, ToTheEnd
  <2>2. zero \in Nat /\ zero < p /\ IsExactly(Zero, zero)
    BY <1>1, ZeroIsExact
  <2> HIDE DEF p, zero
  <2> QED
    BY <1>1, <2>1, <2>2, NothingMiddle DEF p
<1> QED
  BY <1>2, <1>3, <1>4

LEMMA MiddleExact ==
  ASSUME NEW x1, NEW v, IsExactly(x1, v), v >= 0, NEW b \in Nat, NEW a \in 0 .. b
  PROVE  AreMiddle(Extract(x1, a, ToTheEnd), Extract(x1, a, b), Extract(x1, b, ToTheEnd), Power(Base, b - a))
<1> DEFINE p == Power(Base, b - a)  d == x1.d  n == Len(d)
<1>0. p \in Nat /\ p >= 1 /\ a \in Nat /\ a <= b
  BY PositivePowers
<1> SUFFICES ASSUME ~IsFix(x1)
             PROVE  AreMiddle(Extract(x1, a, ToTheEnd), Extract(x1, a, b), Extract(x1, b, ToTheEnd), p)
  BY MiddleOfFixnum
<1>1. d \in Seq(Digit) /\ n \in Nat
  <2>1. x1.neg = FALSE /\ x1.d \in Seq(Digit) /\ v = Amount(x1.d)
    BY PositiveBig
  <2> QED
    BY <2>1
<1>2. \A k \in Nat : /\ k >= n => Extract(x1, k, ToTheEnd) = Zero
                     /\ k <= n => IsExactly(Extract(x1, k, ToTheEnd), PartValue(d, k, n)) /\ k \in 0 .. n
  <2> TAKE k \in Nat
  <2>1. n = IF ToTheEnd = ToTheEnd \/ ToTheEnd > Len(d) THEN Len(d) ELSE ToTheEnd
    OBVIOUS
  <2> HIDE DEF n, d
  <2>2. d = x1.d
    BY DEF d
  <2> QED
    BY <2>1, <2>2, ExtractIsPart
<1>3. CASE a >= n
  <2> DEFINE zero == 0
  <2>1. Extract(x1, a, ToTheEnd) = Zero /\ Extract(x1, b, ToTheEnd) = Zero
    BY <1>0, <1>1, <1>2, <1>3
  <2>2. Extract(x1, a, b) = Zero
    <3> DEFINE c == IF b = ToTheEnd \/ b > Len(d) THEN Len(d) ELSE b
    <3>1. a >= c
      BY <1>0, <1>1, <1>3
    <3> HIDE DEF c, d
    <3>2. d = x1.d /\ c = IF b = ToTheEnd \/ b > Len(d) THEN Len(d) ELSE b
      BY DEF c, d
    <3> QED
      BY <1>0, <3>1, <3>2, ExtractIsPart
  <2>3. zero \in Nat /\ zero < p /\ IsExactly(Zero, zero)
    BY <1>0, ZeroIsExact
  <2> HIDE DEF p, zero
  <2> QED
    BY <1>0, <2>1, <2>2, <2>3, NothingMiddle
<1>4. CASE a < n
  <2> DEFINE c == IF b = ToTheEnd \/ b > Len(d) THEN Len(d) ELSE b  h == PartValue(d, a, n)
             m == PartValue(d, a, c)
  <2>1. a <= c /\ c \in 0 .. n /\ a \in 0 .. c
    BY <1>0, <1>1, <1>4 DEF ToTheEnd
  <2>2. IsExactly(Extract(x1, a, ToTheEnd), h) /\ h \in Nat
    <3>1. a \in 0 .. n /\ n \in 0 .. Len(d)
      BY <1>0, <1>1, <1>4
    <3>2. h \in Nat
      <4> HIDE DEF d
      <4> QED
        BY <1>1, <3>1, PartBounds
    <3> QED
      BY <1>0, <1>2, <1>4, <3>2
  <2>3. IsExactly(Extract(x1, a, b), m)
    <3> HIDE DEF c, d
    <3>1. d = x1.d /\ c = IF b = ToTheEnd \/ b > Len(d) THEN Len(d) ELSE b
      BY DEF c, d
    <3> QED
      BY <1>0, <2>1, <3>1, ExtractIsPart
  <2>4. m \in Nat /\ m \in 0 .. Power(Base, c - a) - 1
    <3> HIDE DEF c, d
    <3> QED
      BY <1>1, <2>1, PartBounds
  <2>5. CASE b > n
    <3>1. c = n /\ m = h
      BY <1>1, <2>5
    <3>2. h < p
      <4> DEFINE q == Power(Base, c - a)
      <4>1. q <= p /\ q \in Int
        <5> DEFINE j == c - a  k == b - a
        <5>1. j \in Nat /\ k \in Nat /\ j <= k /\ Base \in Int /\ Base > 0
          BY <1>0, <1>1, <2>1, <2>5, <3>1, HalfFacts
        <5> HIDE DEF j, k
        <5>2. Power(Base, j) <= Power(Base, k) /\ Power(Base, j) \in Int
          BY <5>1, PowerMonotone, PowerInt
        <5> QED
          BY <5>2 DEF j, k
      <4>2. m \in 0 .. q - 1
        BY <2>4
      <4> HIDE DEF q, p, m, h
      <4> QED
        BY <1>0, <3>1, <4>1, <4>2
    <3>3. Extract(x1, b, ToTheEnd) = Zero
      BY <1>1, <1>2, <2>5
    <3> HIDE DEF p, h, m
    <3> QED
      BY <1>0, <2>2, <2>3, <3>1, <3>2, <3>3, NothingMiddle
  <2>6. CASE b <= n
    <3> DEFINE g == PartValue(d, b, n)
    <3>1. c = b /\ b \in 0 .. n /\ a \in 0 .. b /\ n \in 0 .. Len(d)
      BY <1>0, <1>1, <2>6 DEF ToTheEnd
    <3>2. IsExactly(Extract(x1, b, ToTheEnd), g) /\ g \in Nat
      <4>1. g \in Nat
        <5> HIDE DEF d
        <5> QED
          BY <1>1, <3>1, PartBounds
      <4> QED
        BY <1>2, <2>6, <4>1
    <3>3. h = g * p + m
      <4> HIDE DEF d, n, c
      <4> QED
        BY <1>1, <3>1, PartSplit
    <3>4. m \in 0 .. p - 1
      BY <2>4, <3>1
    <3> HIDE DEF p, h, m, g
    <3> QED
      BY <2>2, <2>3, <3>2, <3>3, <3>4 DEF AreMiddle
  <2> QED
    BY <1>1, <2>5, <2>6
<1> QED
  BY <1>0, <1>1, <1>3, <1>4

(* A quotient and a remainder that is not negative.                        *)
Leaves(p, a, b) ==
  \E q, r \in Nat : IsExactly(p.q, q) /\ IsExactly(p.r, r) /\ a = q * b + r /\ r < b

(* A quotient that may be too large by k at most.                          *)
LeavesLess(p, a, b, k) ==
  \E q, r \in Int :
    IsExactly(p.q, q) /\ IsExactly(p.r, r) /\ a = q * b + r /\ -(k * b) <= r /\ r < b

(* The loop of burnikel_ziegler_3n_div_2n takes one from the quotient and  *)
(* adds the divisor to a remainder that is negative.                       *)
LEMMA OneCorrection ==
  ASSUME NEW p, NEW a \in Int, NEW b \in Int, b > 0, NEW y1, IsExactly(y1, b), NEW k \in Nat,
         LeavesLess(p, a, b, k + 1)
  PROVE  LeavesLess(IfNegative(p, y1), a, b, k)
<1>1. PICK q \in Int, r \in Int : /\ IsExactly(p.q, q) /\ IsExactly(p.r, r) /\ a = q * b + r
                                  /\ -((k + 1) * b) <= r /\ r < b
  BY DEF LeavesLess
<1> DEFINE c == q * b  j == k * b
<1>2. c \in Int /\ j \in Int /\ j >= 0 /\ (k + 1) * b = j + b /\ (q - 1) * b = c - b
  <2>1. 0 * b <= k * b /\ 0 * b = 0
    BY Monotone
  <2>2. (k + 1) * b = k * b + 1 * b /\ (q - 1) * b = q * b - 1 * b /\ 1 * b = b
    BY Distribute
  <2> QED
    BY <2>1, <2>2
<1>3. (Negative(p.r) <=> r < 0)
  BY <1>1, NegativeSign
<1>4. CASE r >= 0
  <2>1. IfNegative(p, y1) = p
    BY <1>1, <1>3, <1>4 DEF IfNegative
  <2>2. -(k * b) <= r
    <3> HIDE DEF c
    <3> QED
      BY <1>1, <1>2, <1>4
  <2> QED
    BY <1>1, <2>1, <2>2 DEF LeavesLess
<1>5. CASE r < 0
  <2> DEFINE o == IfNegative(p, y1)  qq == q - 1  rr == r + b
  <2>1. o = [q |-> IntegerMinus(p.q, One), r |-> IntegerPlus(p.r, y1)]
    BY <1>1, <1>3, <1>5 DEF IfNegative
  <2>2. IsExactly(One, 1)
    BY FixIsExact, BaseFacts DEF One, FitsFixnum
  <2>3. IsExactly(o.q, qq)
    <3> DEFINE one == 1
    <3>1. IsExactly(One, one) /\ IsExactly(p.q, q) /\ o.q = IntegerMinus(p.q, One)
      BY <1>1, <2>1, <2>2
    <3> HIDE DEF one, o
    <3>2. IsExactly(o.q, q - one)
      BY <3>1, MinusExact
    <3> QED
      BY <3>2 DEF one
  <2>4. IsExactly(o.r, rr)
    BY <1>1, <2>1, PlusExact
  <2> HIDE DEF o
  <2>5. a = qq * b + rr /\ -(k * b) <= rr /\ rr < b /\ qq \in Int /\ rr \in Int
    <3>1. qq * b = c - b
      BY <1>2
    <3>2. a = c + r /\ -(j + b) <= r
      BY <1>1, <1>2
    <3> HIDE DEF c, qq
    <3>3. a = qq * b + rr
      BY <1>1, <1>2, <3>1, <3>2
    <3>4. -j <= rr /\ rr < b
      <4> HIDE DEF j
      <4> QED
        BY <1>1, <1>2, <1>5, <3>2
    <3> QED
      BY <1>1, <3>3, <3>4 DEF qq
  <2> HIDE DEF qq, rr
  <2>6. LeavesLess(o, a, b, k)
    BY <2>3, <2>4, <2>5 DEF LeavesLess
  <2> QED
    BY <2>6 DEF o
<1> QED
  BY <1>1, <1>4, <1>5

LEMMA CorrectionsEnd ==
  ASSUME NEW p, NEW a \in Nat, NEW b \in Nat, b > 0, NEW y1, IsExactly(y1, b), LeavesLess(p, a, b, 3)
  PROVE  Leaves(WhileNegative(p, y1), a, b)
<1> DEFINE o == IfNegative(p, y1)  s == IfNegative(o, y1)  t == IfNegative(s, y1)
           zero == 0  one == 1  two == 2  three == 3
<1>1. zero \in Nat /\ one \in Nat /\ two \in Nat /\ one = zero + 1 /\ two = one + 1 /\ three = two + 1
  OBVIOUS
<1>2. LeavesLess(p, a, b, three) /\ WhileNegative(p, y1) = t
  BY DEF WhileNegative
<1> HIDE DEF zero, one, two, three
<1>3. LeavesLess(p, a, b, two + 1)
  BY <1>1, <1>2
<1>4. LeavesLess(o, a, b, two)
  BY <1>1, <1>3, OneCorrection
<1> HIDE DEF o
<1>5. LeavesLess(o, a, b, one + 1)
  BY <1>1, <1>4
<1>6. LeavesLess(s, a, b, one)
  BY <1>1, <1>5, OneCorrection
<1> HIDE DEF s
<1>7. LeavesLess(s, a, b, zero + 1)
  BY <1>1, <1>6
<1>8. LeavesLess(t, a, b, zero)
  BY <1>1, <1>7, OneCorrection
<1> HIDE DEF t
<1>9. PICK q \in Int, r \in Int : /\ IsExactly(t.q, q) /\ IsExactly(t.r, r) /\ a = q * b + r
                                  /\ -(zero * b) <= r /\ r < b
  BY <1>8 DEF LeavesLess
<1>10. 0 <= r
  <2>1. zero * b = 0
    BY DEF zero
  <2> QED
    BY <1>9, <2>1
<1>11. q >= 0
  <2> SUFFICES ASSUME q <= -1 PROVE FALSE
    BY <1>9
  <2>1. q * b <= (-1) * b /\ (-1) * b = -b /\ q * b \in Int
    BY <1>9, Monotone
  <2> DEFINE c == q * b
  <2>2. a = c + r /\ c \in Int /\ c <= -b
    BY <1>9, <2>1
  <2> HIDE DEF c
  <2> QED
    BY <1>9, <2>2
<1>12. q \in Nat /\ r \in Nat
  BY <1>9, <1>10, <1>11
<1> QED
  BY <1>2, <1>9, <1>12 DEF Leaves

LEMMA NoShift == ASSUME NEW k \in Nat, k <= 0 PROVE -k = 0
OBVIOUS

(* A shift to the right of a number that is not negative.                  *)
LEMMA FloorShift ==
  ASSUME NEW x1, NEW v, IsExactly(x1, v), v >= 0, NEW k \in Nat, NEW m, m = Power(2, k)
  PROVE  \E u \in Nat, t \in 0 .. m - 1 : IsExactly(ArithmeticShift(x1, -k), u) /\ v = u * m + t
<1>0. v \in Int /\ m \in Nat /\ m >= 1
  BY ExactInt, PositivePowers
<1>1. CASE k = 0
  <2> DEFINE zero == 0
  <2>1. ArithmeticShift(x1, -k) = x1
    <3> DEFINE s == -k
    <3>1. s = 0
      <4>1. k <= 0
        BY <1>1
      <4> QED
        BY <4>1, NoShift
    <3> HIDE DEF s
    <3>2. ArithmeticShift(x1, s) = x1
      BY <3>1 DEF ArithmeticShift
    <3> QED
      BY <3>2 DEF s
  <2>2. m = 1 /\ v = v * m + zero /\ zero \in 0 .. m - 1 /\ v \in Nat
    <3>1. m = 1
      BY <1>1, PowerZero
    <3>2. v * 1 = v /\ v \in Nat
      BY <1>0
    <3>3. v * m = v
      BY <3>1, <3>2
    <3> QED
      BY <1>0, <3>1, <3>2, <3>3
  <2> HIDE DEF zero
  <2> QED
    BY <2>1, <2>2
<1>2. CASE k # 0
  <2> DEFINE s == -k
  <2>1. s \in Int /\ s < 0 /\ k = -s
    BY <1>2
  <2> HIDE DEF s
  <2>2. ~LosesCarry(x1, k)
    <3>1. ~Negative(x1)
      BY <1>0, NegativeSign
    <3> QED
      BY <3>1 DEF LosesCarry, KeepsZeros
  <2>3. IsFloor(ArithmeticShift(x1, s), v, Power(2, k))
    BY <2>1, <2>2, RightShiftExact
  <2>4. PICK u \in Int, t \in 0 .. m - 1 : IsExactly(ArithmeticShift(x1, s), u) /\ v = u * m + t
    BY <2>3 DEF IsFloor
  <2>5. u >= 0
    <3> SUFFICES ASSUME u <= -1 PROVE FALSE
      BY <2>4
    <3> DEFINE c == u * m
    <3>1. c <= (-1) * m /\ (-1) * m = -m /\ c \in Int
      BY <1>0, Monotone
    <3>2. v = c + t /\ t \in Int /\ t < m
      BY <1>0, <2>4
    <3> HIDE DEF c
    <3> QED
      BY <1>0, <3>1, <3>2
  <2> QED
    BY <2>4, <2>5 DEF s
<1> QED
  BY <1>1, <1>2

(* The bits of n digits.                                                   *)
LEMMA BitsOfDigits ==
  ASSUME NEW n \in Nat
  PROVE  n * DigitBits \in Nat /\ Power(2, n * DigitBits) = Power(Base, n) /\ Power(Base, n) \in Nat
         /\ Power(Base, n) >= 1
<1>1. n * DigitBits = DigitBits * n /\ n * DigitBits \in Nat
  BY BaseFacts
<1>2. Power(2, DigitBits * n) = Power(Base, n)
  BY PowerOfBase
<1>3. Power(Base, n) \in Nat /\ Power(Base, n) >= 1
  <2>1. Power(Base, n) \in Int /\ Power(Base, n) > 0
    BY PowerPositive, HalfFacts
  <2> QED
    BY <2>1
<1> QED
  BY <1>1, <1>2, <1>3

(* The divisor of n digits is normalized: its leading bit is set; and the  *)
(* quotient has n digits.                                                  *)
IsHalf(a, b, n, v, w) ==
  /\ n \in Nat /\ IsExactly(a, v) /\ IsExactly(b, w) /\ v \in Nat /\ w \in Nat
  /\ v < w * Power(Base, n) /\ w < Power(Base, n) /\ Power(Base, n) <= 2 * w
Halving(halve) == \A a, b, n, v, w : IsHalf(a, b, n, v, w) => Leaves(halve[<<a, b, n>>], v, w)

(* A quotient of the upper digits by the upper digits of the divisor.      *)
IsUpperQuotient(u, v, w, p) ==
  \E q, r \in Nat : /\ IsExactly(u.q, q) /\ IsExactly(u.r, r) /\ v = q * w + r
                    /\ q < p /\ (r < w \/ q = p - 1)

LEMMA LargestQuotient ==
  ASSUME NEW n \in Nat, NEW p, p = Power(Base, n), NEW x1, NEW v \in Nat, NEW y1, NEW w \in Nat,
         IsExactly(x1, v), IsExactly(y1, w), w * p <= v, NEW u,
         u = [q |-> IntegerMinus(ArithmeticShift(One, n * DigitBits), One),
              r |-> IntegerPlus(IntegerMinus(x1, ArithmeticShift(y1, n * DigitBits)), y1)]
  PROVE  IsUpperQuotient(u, v, w, p)
<1> DEFINE size == n * DigitBits  one == 1  c == w * p  d == one * p
<1>0. size \in Nat /\ Power(2, size) = p /\ p \in Nat /\ p >= 1 /\ one \in Int
  BY BitsOfDigits
<1>1. IsExactly(One, one)
  BY FixIsExact, BaseFacts DEF One, FitsFixnum
<1>2. c \in Int /\ d = p /\ d \in Int
  BY <1>0
<1> HIDE DEF size, one
<1>3. IsExactly(ArithmeticShift(One, size), d) /\ IsExactly(ArithmeticShift(y1, size), c)
  <2>1. IsExactly(ArithmeticShift(One, size), one * Power(2, size))
    BY <1>0, <1>1, LeftShiftExact
  <2>2. IsExactly(ArithmeticShift(y1, size), w * Power(2, size))
    BY <1>0, LeftShiftExact
  <2> QED
    BY <1>0, <2>1, <2>2
<1>4. IsExactly(u.q, d - one)
  <2>1. u.q = IntegerMinus(ArithmeticShift(One, size), One)
    BY DEF size
  <2> HIDE DEF d
  <2> QED
    BY <1>1, <1>3, <2>1, MinusExact
<1>5. IsExactly(u.r, (v - c) + w)
  <2>1. u.r = IntegerPlus(IntegerMinus(x1, ArithmeticShift(y1, size)), y1)
    BY DEF size
  <2> HIDE DEF c
  <2>2. IsExactly(IntegerMinus(x1, ArithmeticShift(y1, size)), v - c)
    BY <1>3, MinusExact
  <2> QED
    BY <2>1, <2>2, PlusExact
<1> DEFINE q == d - one  r == (v - c) + w
<1>6. q = p - 1 /\ q \in Nat
  <2>1. one = 1
    BY DEF one
  <2> QED
    BY <1>0, <1>2, <2>1
<1>7. r \in Nat
  BY <1>2
<1>8. v = q * w + r
  <2>1. (p - 1) * w = p * w - 1 * w /\ p * w = w * p /\ 1 * w = w
    BY <1>0, Distribute
  <2>2. q * w = c - w
    BY <1>2, <1>6, <2>1
  <2> HIDE DEF q, c
  <2> QED
    BY <1>2, <2>2
<1> HIDE DEF q, r
<1> QED
  BY <1>0, <1>4, <1>5, <1>6, <1>7, <1>8 DEF IsUpperQuotient, q, r

LEMMA UpperQuotientExact ==
  ASSUME NEW n \in Nat, NEW p, p = Power(Base, n), NEW x1, NEW v \in Nat, NEW y1, NEW w \in Nat,
         IsExactly(x1, v), IsExactly(y1, w), w < p, p <= 2 * w, NEW halve, Halving(halve)
  PROVE  IsUpperQuotient(UpperQuotient(x1, y1, n, halve), v, w, p)
<1> DEFINE size == n * DigitBits  s == ArithmeticShift(x1, -size)  u == UpperQuotient(x1, y1, n, halve)
<1>0. size \in Nat /\ Power(2, size) = p /\ p \in Nat /\ p >= 1
  BY BitsOfDigits
<1>1. PICK top \in Nat, t \in 0 .. p - 1 : IsExactly(s, top) /\ v = top * p + t
  <2> HIDE DEF size
  <2> QED
    BY <1>0, FloorShift
<1> DEFINE c == top * p  d == w * p
<1>2. (IntegerCmp(s, y1) = -1) <=> top < w
  <2> HIDE DEF s
  <2>1. Compares(IntegerCmp(s, y1), top, w)
    BY <1>1, CmpExact
  <2> QED
    BY <2>1 DEF Compares
<1>3. c \in Int /\ d \in Int /\ v = c + t /\ t \in Int /\ 0 <= t /\ t < p
  BY <1>0, <1>1
<1>4. CASE top < w
  <2>1. u = halve[<<x1, y1, n>>]
    BY <1>2, <1>4 DEF UpperQuotient
  <2>2. v < d
    <3>1. (top + 1) * p <= w * p
      <4>1. top + 1 <= w /\ top + 1 \in Int /\ w \in Int
        BY <1>1, <1>4
      <4> DEFINE k == top + 1
      <4> HIDE DEF k
      <4>2. k * p <= w * p
        BY <1>0, <4>1, Monotone DEF k
      <4> QED
        BY <4>2 DEF k
    <3>2. (top + 1) * p = c + p
      <4>1. (top + 1) * p = top * p + 1 * p /\ 1 * p = p
        BY <1>0, <1>1, Distribute
      <4> QED
        BY <4>1
    <3> HIDE DEF c
    <3> QED
      BY <1>0, <1>3, <3>1, <3>2
  <2>3. IsHalf(x1, y1, n, v, w)
    BY <2>2 DEF IsHalf
  <2> HIDE DEF u, d
  <2>4. Leaves(u, v, w)
    BY <2>1, <2>3 DEF Halving
  <2>5. PICK q \in Nat, r \in Nat : IsExactly(u.q, q) /\ IsExactly(u.r, r) /\ v = q * w + r /\ r < w
    BY <2>4 DEF Leaves
  <2>6. q < p
    <3> SUFFICES ASSUME p <= q PROVE FALSE
      BY <1>0
    <3>1. p * w <= q * w /\ p * w = d /\ q * w \in Int
      BY <1>0, Monotone DEF d
    <3> DEFINE f == q * w
    <3>2. v = f + r /\ f \in Int /\ d <= f
      BY <2>5, <3>1
    <3> HIDE DEF f
    <3> QED
      BY <1>3, <2>2, <3>2
  <2> QED
    BY <2>5, <2>6 DEF IsUpperQuotient, u
<1>5. CASE w <= top
  <2>1. u = [q |-> IntegerMinus(ArithmeticShift(One, n * DigitBits), One),
             r |-> IntegerPlus(IntegerMinus(x1, ArithmeticShift(y1, n * DigitBits)), y1)]
    BY <1>2, <1>5 DEF UpperQuotient
  <2>2. d <= v
    <3>1. d <= c
      BY <1>0, <1>5, Monotone
    <3> HIDE DEF c, d
    <3> QED
      BY <1>3, <3>1
  <2> HIDE DEF u
  <2>3. w * p <= v
    BY <2>2
  <2>4. IsUpperQuotient(u, v, w, p)
    BY <2>1, <2>3, LargestQuotient
  <2> QED
    BY <2>4 DEF u
<1> QED
  BY <1>1, <1>4, <1>5

(* The upper digits of a normalized divisor are normalized.                *)
LEMMA EvenPower ==
  ASSUME NEW n \in Nat, NEW p, p = Power(Base, n)
  PROVE  p = 1 \/ \E k \in Nat : p = 2 * k
<1>1. CASE n = 0
  BY <1>1, PowerZero, HalfFacts
<1>2. CASE n # 0
  <2> DEFINE m == n - 1  P == Power(Base, m)  k == 2 * (MostPositive + 1) * P
  <2>1. m \in Nat /\ n = m + 1
    BY <1>2
  <2> HIDE DEF m
  <2>2. p = Base * P /\ P \in Nat
    <3>1. Power(Base, m + 1) = Base * Power(Base, m)
      BY <2>1, HalfFacts, PowerNext
    <3>2. P \in Nat
      BY <2>1, PositivePowers
    <3> QED
      BY <2>1, <3>1, <3>2
  <2>3. MostPositive \in Nat /\ Base = 2 * (2 * (MostPositive + 1))
    BY BaseFacts
  <2> DEFINE h == 2 * (MostPositive + 1)
  <2>4. h \in Nat /\ Base = 2 * h
    BY <2>3
  <2> HIDE DEF P, h
  <2>5. p = 2 * (h * P) /\ h * P \in Nat
    <3>1. (2 * h) * P = 2 * (h * P) /\ h * P \in Int
      BY <2>2, <2>4
    <3>2. 0 * P <= h * P /\ 0 * P = 0
      BY <2>2, <2>4, Monotone
    <3> QED
      BY <2>2, <2>4, <3>1, <3>2
  <2> QED
    BY <2>5
<1> QED
  BY <1>1, <1>2

LEMMA UpperNormalized ==
  ASSUME NEW p \in Nat, p >= 1, p = 1 \/ \E k \in Nat : p = 2 * k,
         NEW g \in Nat, NEW h \in Nat, h < p, NEW w, w = g * p + h, w < p * p, p * p <= 2 * w
  PROVE  g < p /\ p <= 2 * g
<1> DEFINE c == g * p  d == p * p
<1>1. c \in Int /\ d \in Int /\ w = c + h /\ w < d /\ d <= 2 * w
  OBVIOUS
<1>2. g < p
  <2> SUFFICES ASSUME p <= g PROVE FALSE
    OBVIOUS
  <2>1. d <= c
    BY Monotone
  <2> HIDE DEF c, d
  <2> QED
    BY <1>1, <2>1
<1>3. p <= 2 * g
  <2> SUFFICES ASSUME 2 * g < p PROVE FALSE
    OBVIOUS
  <2> DEFINE e == (2 * g + 2) * p
  <2>1. e = 2 * c + 2 * p /\ e \in Int
    OBVIOUS
  <2>2. CASE p = 1
    <3>1. d = 1 /\ c = g
      BY <2>2
    <3>2. g = 0 /\ h = 0
      BY <2>2
    <3> HIDE DEF c, d, e
    <3> QED
      BY <1>1, <3>1, <3>2
  <2>3. CASE \E k \in Nat : p = 2 * k
    <3>1. 2 * g + 2 <= p
      BY <2>3
    <3>2. e <= d
      <4> DEFINE i == 2 * g + 2
      <4>1. i \in Int /\ i <= p
        BY <3>1
      <4> HIDE DEF i
      <4>2. i * p <= p * p
        BY <4>1, Monotone
      <4> QED
        BY <4>2 DEF i
    <3> HIDE DEF c, d, e
    <3> QED
      BY <1>1, <2>1, <3>2
  <2> QED
    BY <2>2, <2>3
<1> QED
  BY <1>2, <1>3

(* A quotient by the upper digits of the divisor is too large by two at    *)
(* most: g and h are the upper and the lower digits of the divisor, c the  *)
(* lowest ones of the dividend.                                            *)
LEMMA FewCorrections ==
  ASSUME NEW p \in Nat, p >= 1, NEW g \in Nat, NEW h \in Nat, h < p, NEW w \in Nat, w = g * p + h,
         p * p <= 2 * w, NEW v \in Nat, NEW c \in Nat, c < p, v * p + c < w * p,
         NEW q \in Nat, NEW r \in Nat, v = q * g + r, q < p, r < g \/ q = p - 1,
         NEW rest, rest = (r * p + c) - q * h
  PROVE  v * p + c = q * w + rest /\ -(3 * w) <= rest /\ rest < w /\ rest \in Int
<1> DEFINE G == g * p  R == r * p  H == q * h  Q == q * w  V == v * p  D == p * p  W == w * p
<1>1. G \in Int /\ R \in Int /\ H \in Int /\ Q \in Int /\ V \in Int /\ D \in Int /\ W \in Int
  OBVIOUS
<1>2. V + c = Q + ((R + c) - H)
  <2>1. (q * g + r) * p = (q * g) * p + r * p
    BY Distribute
  <2>2. q * (g * p + h) = q * (g * p) + q * h /\ q * (g * p) = (q * g) * p
    BY Distribute
  <2> DEFINE E == (q * g) * p
  <2>3. V = E + R /\ Q = E + H /\ E \in Int
    BY <2>1, <2>2
  <2> HIDE DEF V, E, R, Q, H
  <2> QED
    BY <1>1, <2>3
<1>3. H <= D /\ 0 <= H
  <2>1. q * h <= p * h
    BY Monotone
  <2>2. h * p <= p * p /\ p * h = h * p
    BY Monotone
  <2>3. 0 * h <= q * h /\ 0 * h = 0
    BY Monotone
  <2> QED
    BY <2>1, <2>2, <2>3
<1>4. 0 <= R
  <2>1. 0 * p <= r * p /\ 0 * p = 0
    BY Monotone
  <2> QED
    BY <2>1
<1>5. rest = (R + c) - H /\ D <= 2 * w /\ w = G + h /\ V + c < W
  OBVIOUS
<1>6. CASE r < g
  <2>1. R + p <= G
    <3>1. r + 1 <= g /\ r + 1 \in Int
      BY <1>6
    <3> DEFINE i == r + 1
    <3>2. i \in Int /\ i <= g
      BY <3>1
    <3>3. i * p = R + p
      OBVIOUS
    <3> HIDE DEF i, R
    <3>4. i * p <= g * p
      BY <3>2, Monotone
    <3> QED
      BY <3>3, <3>4
  <2> HIDE DEF G, R, H, D
  <2> QED
    BY <1>1, <1>2, <1>3, <1>5, <2>1
<1>7. CASE q = p - 1
  <2>1. Q = W - w
    <3>1. (p - 1) * w = p * w - 1 * w /\ p * w = w * p /\ 1 * w = w
      BY Distribute
    <3> QED
      BY <1>7, <3>1
  <2> HIDE DEF V, Q, W, H, D, R
  <2> QED
    BY <1>1, <1>2, <1>3, <1>5, <2>1
<1>8. -(3 * w) <= rest /\ rest \in Int
  <2> HIDE DEF D, R, H
  <2> QED
    BY <1>1, <1>3, <1>4, <1>5
<1> QED
  BY <1>2, <1>5, <1>6, <1>7, <1>8

(* burnikel_ziegler_3n_div_2n: x1 are the upper digits of the dividend.    *)
LEMMA ThreeByTwoExact ==
  ASSUME NEW n \in Nat, NEW p, p = Power(Base, n), NEW room1 \in Nat, NEW halve, Halving(halve),
         NEW x1, NEW v \in Nat, IsExactly(x1, v), NEW x2, NEW c \in Nat, IsExactly(x2, c), c < p,
         NEW y1, NEW w \in Nat, IsExactly(y1, w), w < p * p, p * p <= 2 * w, v * p + c < w * p
  PROVE  Leaves(Divide3nBy2n(x1, x2, y1, n, room1, halve), v * p + c, w)
<1> DEFINE size == n * DigitBits  hi == Extract(y1, n, ToTheEnd)  lo == Extract(y1, 0, n)
           u == UpperQuotient(x1, hi, n, halve)
           a == IntegerPlus(ArithmeticShift(u.r, size), x2)  b == IntegerTimes(u.q, lo, room1)
           o == [q |-> u.q, r |-> IntegerMinus(a, b)]
           total == v * p + c
<1>0. size \in Nat /\ Power(2, size) = p /\ p \in Nat /\ p >= 1 /\ total \in Nat
  <2>1. size \in Nat /\ Power(2, size) = p /\ p \in Nat /\ p >= 1
    BY BitsOfDigits
  <2>2. 0 * p <= v * p /\ 0 * p = 0 /\ v * p \in Int
    BY <2>1, Monotone
  <2> QED
    BY <2>1, <2>2
<1>1. PICK g \in Nat, h \in Nat : IsExactly(hi, g) /\ IsExactly(lo, h) /\ h < p /\ w = g * p + h
  <2> DEFINE zero == 0
  <2>1. zero \in 0 .. n /\ n - zero = n
    OBVIOUS
  <2>2. IsExactly(Extract(y1, zero, ToTheEnd), w)
    BY WholeExact
  <2> HIDE DEF zero
  <2>3. AreMiddle(Extract(y1, zero, ToTheEnd), Extract(y1, zero, n), Extract(y1, n, ToTheEnd),
                  Power(Base, n - zero))
    BY <2>1, MiddleExact
  <2>4. AreMiddle(Extract(y1, zero, ToTheEnd), lo, hi, p)
    BY <2>1, <2>3 DEF zero
  <2> HIDE DEF hi, lo
  <2>5. PICK k \in Nat, g \in Nat, h \in 0 .. p - 1 :
          IsExactly(Extract(y1, zero, ToTheEnd), k) /\ IsExactly(lo, h) /\ IsExactly(hi, g) /\ k = g * p + h
    BY <2>4 DEF AreMiddle
  <2>6. k = w
    BY <2>2, <2>5 DEF IsExactly
  <2>7. h \in Nat /\ h < p
    BY <1>0, <2>5
  <2> QED
    BY <2>5, <2>6, <2>7
<1>2. g < p /\ p <= 2 * g
  <2>1. p = 1 \/ \E k \in Nat : p = 2 * k
    BY EvenPower
  <2> QED
    BY <1>0, <1>1, <2>1, UpperNormalized
<1> HIDE DEF hi, lo, size
<1>3. PICK q \in Nat, r \in Nat : /\ IsExactly(u.q, q) /\ IsExactly(u.r, r) /\ v = q * g + r
                                  /\ q < p /\ (r < g \/ q = p - 1)
  <2>1. IsUpperQuotient(u, v, g, p)
    BY <1>1, <1>2, UpperQuotientExact
  <2> QED
    BY <2>1 DEF IsUpperQuotient
<1> HIDE DEF u
<1> DEFINE rest == (r * p + c) - q * h
<1>4. total = q * w + rest /\ -(3 * w) <= rest /\ rest < w /\ rest \in Int
  <2>0. rest = (r * p + c) - q * h
    OBVIOUS
  <2>1. /\ p \in Nat /\ p >= 1 /\ g \in Nat /\ h \in Nat /\ h < p /\ w \in Nat /\ w = g * p + h
        /\ p * p <= 2 * w /\ c < p /\ v * p + c < w * p /\ q \in Nat /\ r \in Nat /\ v = q * g + r
        /\ q < p /\ (r < g \/ q = p - 1)
    BY <1>0, <1>1, <1>3
  <2> HIDE DEF rest, total
  <2>2. v * p + c = q * w + rest /\ -(3 * w) <= rest /\ rest < w /\ rest \in Int
    BY <2>0, <2>1, FewCorrections
  <2> QED
    BY <2>2 DEF total
<1>5. IsExactly(o.r, rest)
  <2> DEFINE R == r * p  H == q * h
  <2>1. IsExactly(ArithmeticShift(u.r, size), R)
    <3>1. IsExactly(ArithmeticShift(u.r, size), r * Power(2, size))
      BY <1>0, <1>3, LeftShiftExact
    <3> QED
      BY <1>0, <3>1
  <2>2. IsExactly(b, H)
    BY <1>1, <1>3, TimesExact
  <2> HIDE DEF R, H, b
  <2>3. IsExactly(a, R + c)
    BY <2>1, PlusExact
  <2> HIDE DEF a
  <2>4. IsExactly(IntegerMinus(a, b), (R + c) - H)
    BY <2>2, <2>3, MinusExact
  <2> QED
    BY <2>4 DEF R, H
<1>6. IsExactly(o.q, q)
  BY <1>3
<1> HIDE DEF rest, o, total
<1>7. LeavesLess(o, total, w, 3)
  <2>1. q \in Int
    BY <1>3
  <2> QED
    BY <1>4, <1>5, <1>6, <2>1 DEF LeavesLess
<1>8. w > 0
  <2>1. p * p > 0
    <3>1. 0 * p < p * p /\ 0 * p = 0
      BY <1>0, StrictlyMonotone
    <3> QED
      BY <3>1
  <2> DEFINE D == p * p
  <2>2. D <= 2 * w /\ D > 0 /\ D \in Int
    BY <1>0, <2>1
  <2> HIDE DEF D
  <2> QED
    BY <2>2
<1>9. Leaves(WhileNegative(o, y1), total, w)
  BY <1>0, <1>7, <1>8, CorrectionsEnd
<1>10. Divide3nBy2n(x1, x2, y1, n, room1, halve) = WhileNegative(o, y1)
  BY DEF Divide3nBy2n, WithLowerPart, o, a, b, size, hi, lo, u
<1> QED
  BY <1>9, <1>10 DEF total

(* A quotient of the upper digits and one of what they leave, with the     *)
(* digits below.                                                           *)
LEMMA JoinedQuotients ==
  ASSUME NEW n \in Nat, NEW p, p = Power(Base, n), NEW q \in Nat, NEW r \in Nat, NEW w \in Nat,
         NEW v \in Nat, v = q * w + r, NEW c \in Nat, NEW x1, IsExactly(x1, q),
         NEW two, Leaves(two, r * p + c, w)
  PROVE  Leaves(JoinHalves(x1, two, n), v * p + c, w)
<1> DEFINE size == n * DigitBits  o == JoinHalves(x1, two, n)
<1>0. size \in Nat /\ Power(2, size) = p /\ p \in Nat
  BY BitsOfDigits
<1>1. PICK q2 \in Nat, r2 \in Nat :
        IsExactly(two.q, q2) /\ IsExactly(two.r, r2) /\ r * p + c = q2 * w + r2 /\ r2 < w
  BY DEF Leaves
<1> DEFINE k == q * p
<1>2. IsExactly(o.q, k + q2) /\ o.r = two.r
  <2>1. o = [q |-> IntegerPlus(ArithmeticShift(x1, size), two.q), r |-> two.r]
    BY DEF JoinHalves
  <2> HIDE DEF o, size
  <2>2. IsExactly(ArithmeticShift(x1, size), q * Power(2, size))
    BY <1>0, LeftShiftExact
  <2>3. IsExactly(ArithmeticShift(x1, size), k)
    BY <1>0, <2>2
  <2> HIDE DEF k
  <2>4. IsExactly(IntegerPlus(ArithmeticShift(x1, size), two.q), k + q2)
    BY <1>1, <2>3, PlusExact
  <2> QED
    BY <2>1, <2>4
<1>3. k \in Nat
  <2>1. 0 * p <= q * p /\ 0 * p = 0 /\ q * p \in Int
    BY <1>0, Monotone
  <2> QED
    BY <2>1
<1>4. v * p + c = (k + q2) * w + r2
  <2> DEFINE V == v * p  R == r * p  E == (q * w) * p  Q == q2 * w
  <2>1. (q * w + r) * p = (q * w) * p + r * p /\ q * w \in Int
    BY <1>0, Distribute
  <2>2. V = E + R
    BY <2>1
  <2>3. (q * p + q2) * w = (q * p) * w + q2 * w
    BY <1>0, <1>3, Distribute
  <2>4. (q * p) * w = (q * w) * p
    <3>1. (q * p) * w = q * (p * w) /\ p * w = w * p /\ q * (w * p) = (q * w) * p
      BY <1>0, Distribute
    <3> QED
      BY <3>1
  <2>5. (k + q2) * w = E + Q
    BY <2>3, <2>4
  <2>6. R + c = Q + r2
    BY <1>1
  <2>7. V \in Int /\ E \in Int /\ R \in Int /\ Q \in Int
    BY <1>0, <2>1
  <2> HIDE DEF V, E, R, Q, k
  <2>8. V + c = (E + Q) + r2
    BY <2>2, <2>6, <2>7
  <2> QED
    BY <2>5, <2>8 DEF V
<1> HIDE DEF o, k
<1> DEFINE s == k + q2
<1>5. IsExactly(o.q, s) /\ IsExactly(o.r, r2) /\ s \in Nat /\ v * p + c = s * w + r2
  BY <1>1, <1>2, <1>3, <1>4
<1> HIDE DEF s
<1>6. Leaves(o, v * p + c, w)
  BY <1>1, <1>5 DEF Leaves
<1> QED
  BY <1>6 DEF o

(* What is left of the upper digits, with the digits below, is below the   *)
(* divisor times the weight of these digits.                               *)
LEMMA StaysBelow ==
  ASSUME NEW p \in Nat, NEW w \in Nat, NEW r \in Nat, r < w, NEW c \in Nat, c < p
  PROVE  r * p + c \in Nat /\ r * p + c < w * p
<1> DEFINE R == r * p  W == w * p  i == r + 1
<1>1. R \in Int /\ R >= 0
  <2>1. 0 * p <= r * p /\ 0 * p = 0
    BY Monotone
  <2> QED
    BY <2>1
<1>2. i * p = R + p /\ i \in Int /\ i <= w /\ W \in Int
  OBVIOUS
<1> HIDE DEF i, R
<1>3. i * p <= w * p
  BY <1>2, Monotone
<1> HIDE DEF W
<1>4. R + p <= W
  BY <1>2, <1>3 DEF W
<1>5. R + c \in Nat /\ R + c < W
  BY <1>1, <1>2, <1>4
<1> QED
  BY <1>5 DEF R, W

(* burnikel_ziegler_2n_div_1n                                              *)
LEMMA InHalvesExact ==
  ASSUME NEW h \in Nat, NEW n, n = h + h, NEW x1, NEW y1, NEW v, NEW w, IsHalf(x1, y1, n, v, w),
         NEW room1 \in Nat, NEW halve, Halving(halve)
  PROVE  Leaves(InHalves(x1, y1, h, room1, halve), v, w)
<1> DEFINE p == Power(Base, h)  upper == Extract(x1, 2 * h, ToTheEnd)  third == Extract(x1, h, 2 * h)
           last == Extract(x1, 0, h)  rest == Extract(x1, h, ToTheEnd)
           one == Divide3nBy2n(upper, third, y1, h, room1, halve)
           two == Divide3nBy2n(one.r, last, y1, h, room1, halve)
<1>0. /\ p \in Nat /\ p >= 1 /\ Power(Base, n) = p * p /\ n \in Nat /\ 2 * h = n
      /\ IsExactly(x1, v) /\ IsExactly(y1, w) /\ v \in Nat /\ w \in Nat
      /\ v < w * (p * p) /\ w < p * p /\ p * p <= 2 * w
  <2>1. p \in Nat /\ p >= 1
    BY PositivePowers
  <2>2. Power(Base, h + h) = Power(Base, h) * Power(Base, h)
    BY HalfFacts, PowerSum
  <2>3. n \in Nat /\ 2 * h = n
    OBVIOUS
  <2> HIDE DEF p
  <2>4. Power(Base, n) = p * p
    BY <2>2 DEF p
  <2> QED
    BY <2>1, <2>3, <2>4 DEF IsHalf
<1>1. PICK a \in Nat, c \in Nat : IsExactly(rest, a) /\ IsExactly(last, c) /\ c < p /\ v = a * p + c
  <2> DEFINE zero == 0
  <2>1. zero \in 0 .. h /\ h - zero = h /\ v >= 0
    BY <1>0
  <2>2. IsExactly(Extract(x1, zero, ToTheEnd), v)
    BY <1>0, <2>1, WholeExact
  <2> HIDE DEF zero
  <2>3. AreMiddle(Extract(x1, zero, ToTheEnd), Extract(x1, zero, h), Extract(x1, h, ToTheEnd),
                  Power(Base, h - zero))
    BY <1>0, <2>1, MiddleExact
  <2>4. AreMiddle(Extract(x1, zero, ToTheEnd), last, rest, p)
    BY <2>1, <2>3 DEF zero
  <2> HIDE DEF last, rest
  <2>5. PICK k \in Nat, g \in Nat, m \in 0 .. p - 1 :
          IsExactly(Extract(x1, zero, ToTheEnd), k) /\ IsExactly(last, m) /\ IsExactly(rest, g)
          /\ k = g * p + m
    BY <2>4 DEF AreMiddle
  <2>6. k = v
    BY <2>2, <2>5 DEF IsExactly
  <2>7. m \in Nat /\ m < p
    BY <1>0, <2>5
  <2> QED
    BY <2>5, <2>6, <2>7
<1>2. PICK b \in Nat, d \in Nat : IsExactly(upper, b) /\ IsExactly(third, d) /\ d < p /\ a = b * p + d
  <2> DEFINE k2 == 2 * h
  <2>1. k2 \in Nat /\ h \in 0 .. k2 /\ k2 - h = h /\ v >= 0
    BY <1>0
  <2> HIDE DEF k2
  <2>2. AreMiddle(Extract(x1, h, ToTheEnd), Extract(x1, h, k2), Extract(x1, k2, ToTheEnd),
                  Power(Base, k2 - h))
    BY <1>0, <2>1, MiddleExact
  <2>3. AreMiddle(rest, third, upper, p)
    BY <2>1, <2>2 DEF k2
  <2> HIDE DEF rest, third, upper
  <2>4. PICK k \in Nat, g \in Nat, m \in 0 .. p - 1 :
          IsExactly(rest, k) /\ IsExactly(third, m) /\ IsExactly(upper, g) /\ k = g * p + m
    BY <2>3 DEF AreMiddle
  <2>5. k = a
    BY <1>1, <2>4 DEF IsExactly
  <2>6. m \in Nat /\ m < p
    BY <1>0, <2>4
  <2> QED
    BY <2>4, <2>5, <2>6
<1>3. b * p + d < w * p
  <2> SUFFICES ASSUME w * p <= a PROVE FALSE
    <3>1. w * p \in Int
      BY <1>0
    <3> QED
      BY <1>2, <3>1
  <2> DEFINE W == w * p
  <2>1. W \in Int /\ W <= a
    BY <1>0
  <2>2. W * p = w * (p * p)
    BY <1>0, Distribute
  <2> HIDE DEF W
  <2>3. W * p <= a * p /\ a * p \in Int /\ W * p \in Int
    BY <1>0, <2>1, Monotone
  <2> DEFINE A == a * p  D == W * p
  <2>4. A \in Int /\ D \in Int /\ D <= A /\ v = A + c /\ v < D
    BY <1>0, <1>1, <2>2, <2>3
  <2> HIDE DEF A, D
  <2> QED
    BY <1>1, <2>4
<1> HIDE DEF upper, third, last, rest, p
<1>4. Leaves(one, a, w)
  <2> HIDE DEF one
  <2>1. Leaves(one, b * p + d, w)
    BY <1>0, <1>2, <1>3, ThreeByTwoExact DEF one, p
  <2> QED
    BY <1>2, <2>1
<1> HIDE DEF one
<1>5. PICK q \in Nat, r \in Nat : IsExactly(one.q, q) /\ IsExactly(one.r, r) /\ a = q * w + r /\ r < w
  BY <1>4 DEF Leaves
<1>6. r * p + c < w * p
  BY <1>0, <1>1, <1>5, StaysBelow
<1>7. Leaves(two, r * p + c, w)
  <2>1. p = Power(Base, h)
    BY DEF p
  <2> QED
    BY <1>0, <1>1, <1>5, <1>6, <2>1, ThreeByTwoExact
<1> HIDE DEF two
<1>8. Leaves(JoinHalves(one.q, two, h), a * p + c, w)
  <2>1. p = Power(Base, h)
    BY DEF p
  <2> QED
    BY <1>0, <1>1, <1>5, <1>7, <2>1, JoinedQuotients
<1>9. InHalves(x1, y1, h, room1, halve) = JoinHalves(one.q, two, h)
  BY DEF InHalves, SecondHalf, one, two, upper, third, last
<1> QED
  BY <1>1, <1>8, <1>9

(* One round of the loop over the parts.                                   *)
LEMMA NextPartExact ==
  ASSUME NEW n \in Nat, NEW p, p = Power(Base, n), NEW y1, NEW w \in Nat, IsExactly(y1, w),
         w < p, p <= 2 * w, NEW halve, Halving(halve),
         NEW one, NEW q \in Nat, NEW r \in Nat, IsExactly(one.q, q), IsExactly(one.r, r),
         NEW v \in Nat, v = q * w + r, NEW part, NEW c \in Nat, IsExactly(part, c),
         r * p + c < w * p
  PROVE  Leaves(JoinHalves(one.q,
                           halve[<<IntegerPlus(part, ArithmeticShift(one.r, n * DigitBits)), y1, n>>],
                           n),
                v * p + c, w)
<1> DEFINE size == n * DigitBits  k == r * p
           sum == IntegerPlus(part, ArithmeticShift(one.r, size))  two == halve[<<sum, y1, n>>]
<1>0. size \in Nat /\ Power(2, size) = p /\ p \in Nat
  BY BitsOfDigits
<1>1. k \in Nat
  <2>1. 0 * p <= r * p /\ 0 * p = 0 /\ r * p \in Int
    BY <1>0, Monotone
  <2> QED
    BY <2>1
<1>2. IsExactly(sum, k + c)
  <2> HIDE DEF size
  <2>1. IsExactly(ArithmeticShift(one.r, size), r * Power(2, size))
    BY <1>0, LeftShiftExact
  <2>2. IsExactly(ArithmeticShift(one.r, size), k)
    BY <1>0, <2>1
  <2> HIDE DEF k
  <2>3. IsExactly(sum, c + k)
    BY <2>2, PlusExact
  <2>4. c + k = k + c
    BY <1>1
  <2> QED
    BY <2>3, <2>4
<1> HIDE DEF sum
<1>3. k + c < w * p /\ k + c \in Nat
  BY <1>1
<1> DEFINE s == k + c
<1>4. Leaves(two, s, w)
  <2>1. IsExactly(sum, s) /\ s \in Nat /\ s < w * Power(Base, n) /\ w < Power(Base, n)
        /\ Power(Base, n) <= 2 * w
    BY <1>2, <1>3
  <2> HIDE DEF s
  <2>2. IsHalf(sum, y1, n, s, w)
    BY <2>1 DEF IsHalf
  <2> QED
    BY <2>2 DEF Halving
<1>5. Leaves(two, r * p + c, w)
  BY <1>4
<1> HIDE DEF two, s, k
<1>6. Leaves(JoinHalves(one.q, two, n), v * p + c, w)
  BY <1>5, JoinedQuotients
<1> QED
  BY <1>6 DEF two, sum, size

(* The loop, as a function of the rounds.                                  *)
IsParting(f, m, a, b, n, l, halve) ==
  f = [i \in 0 .. m |->
         IF i = 0 THEN [q |-> Zero, r |-> Zero] ELSE NextPart(f[i - 1], a, b, n, l, i, halve)]

LEMMA PartingExists ==
  ASSUME NEW m \in Nat, NEW a, NEW b, NEW n, NEW l, NEW halve
  PROVE  \E f : IsParting(f, m, a, b, n, l, halve)
<1> DEFINE none == [q |-> Zero, r |-> Zero]  T == {k \in 0 .. m : \E f : IsParting(f, k, a, b, n, l, halve)}
           Next(f, i) == NextPart(f, a, b, n, l, i, halve)
<1>1. 0 \in T
  <2> DEFINE f0 == [r \in 0 .. 0 |-> none]
  <2> HIDE DEF none
  <2>1. f0 = [r \in 0 .. 0 |-> IF r = 0 THEN none ELSE Next(f0[r - 1], r)]
    OBVIOUS
  <2> HIDE DEF f0
  <2>2. IsParting(f0, 0, a, b, n, l, halve)
    BY <2>1 DEF IsParting, none
  <2> QED
    BY <2>2
<1>2. ASSUME NEW k \in 0 .. m - 1, k \in T PROVE k + 1 \in T
  <2>1. PICK f : IsParting(f, k, a, b, n, l, halve)
    BY <1>2
  <2> HIDE DEF none
  <2> DEFINE g == [i \in 0 .. k + 1 |-> IF i <= k THEN f[i] ELSE Next(f[k], k + 1)]
             h == [r \in 0 .. k + 1 |-> IF r = 0 THEN none ELSE Next(g[r - 1], r)]
  <2>2. f = [r \in 0 .. k |-> IF r = 0 THEN none ELSE Next(f[r - 1], r)]
    BY <2>1 DEF IsParting, none
  <2> HIDE DEF Next
  <2>3. \A i \in 0 .. k : g[i] = f[i]
    OBVIOUS
  <2>4. g[k + 1] = Next(f[k], k + 1)
    OBVIOUS
  <2>5. DOMAIN g = 0 .. k + 1 /\ g = [i \in 0 .. k + 1 |-> g[i]]
    OBVIOUS
  <2> HIDE DEF g
  <2>6. ASSUME NEW r \in 0 .. k + 1 PROVE g[r] = IF r = 0 THEN none ELSE Next(g[r - 1], r)
    <3>1. CASE r = 0
      BY <2>2, <2>3, <3>1
    <3>2. CASE r \in 1 .. k
      <4>1. g[r] = f[r] /\ g[r - 1] = f[r - 1] /\ r # 0
        BY <2>3, <3>2
      <4>2. f[r] = Next(f[r - 1], r)
        BY <2>2, <3>2
      <4> QED
        BY <4>1, <4>2
    <3>3. CASE r = k + 1
      <4>1. g[r - 1] = f[k] /\ r # 0
        BY <2>3, <3>3
      <4> QED
        BY <2>4, <3>3, <4>1
    <3> QED
      BY <3>1, <3>2, <3>3
  <2>7. g = h
    BY <2>5, <2>6
  <2>8. g = [r \in 0 .. k + 1 |-> IF r = 0 THEN none ELSE Next(g[r - 1], r)]
    BY <2>7
  <2>9. IsParting(g, k + 1, a, b, n, l, halve)
    BY <2>8 DEF IsParting, none, Next
  <2> QED
    BY <2>9
<1> HIDE DEF T
<1>3. m \in T
  <2>1. \A i \in 0 .. m : i \in T
    BY <1>1, <1>2, Induction
  <2> QED
    BY <2>1
<1> QED
  BY <1>3 DEF T

(* What is above the lowest k digits of a number that is not negative, and *)
(* the same by a shift.                                                    *)
HasUpper(x1, v, k, m) ==
  \E u \in Nat, t \in 0 .. m - 1 :
    /\ IsExactly(Extract(x1, k, ToTheEnd), u) /\ IsExactly(ArithmeticShift(x1, -(k * DigitBits)), u)
    /\ v = u * m + t

LEMMA UpperExact ==
  ASSUME NEW x1, NEW v, IsExactly(x1, v), v >= 0, NEW k \in Nat, NEW m, m = Power(Base, k)
  PROVE  HasUpper(x1, v, k, m)
<1> DEFINE zero == 0  s == k * DigitBits
<1>0. m \in Nat /\ m >= 1 /\ s \in Nat /\ m = Power(2, s) /\ zero \in 0 .. k /\ k - zero = k
  BY BitsOfDigits
<1>1. IsExactly(Extract(x1, zero, ToTheEnd), v)
  BY WholeExact
<1> HIDE DEF zero, s
<1>2. AreMiddle(Extract(x1, zero, ToTheEnd), Extract(x1, zero, k), Extract(x1, k, ToTheEnd),
                Power(Base, k - zero))
  BY <1>0, MiddleExact
<1>3. PICK h \in Nat, g \in Nat, t \in 0 .. m - 1 :
        IsExactly(Extract(x1, zero, ToTheEnd), h) /\ IsExactly(Extract(x1, k, ToTheEnd), g) /\ h = g * m + t
  BY <1>0, <1>2 DEF AreMiddle
<1>4. v = g * m + t
  BY <1>1, <1>3 DEF IsExactly
<1>5. PICK u \in Nat, z \in 0 .. m - 1 : IsExactly(ArithmeticShift(x1, -s), u) /\ v = u * m + z
  BY <1>0, FloorShift
<1>6. u = g
  <2>1. g * m = m * g /\ u * m = m * u /\ v \in Int /\ g \in Int /\ u \in Int /\ m \in Int /\ m > 0
    BY <1>0, <1>3, <1>5, ExactInt
  <2>2. v \div m = g
    <3>1. v = m * g + t /\ m \in Int /\ m > 0 /\ g \in Int /\ t \in 0 .. m - 1 /\ v \in Int
      BY <1>4, <2>1
    <3> QED
      BY <3>1, DivUnique
  <2>3. v \div m = u
    <3>1. v = m * u + z /\ m \in Int /\ m > 0 /\ u \in Int /\ z \in 0 .. m - 1 /\ v \in Int
      BY <1>5, <2>1
    <3> QED
      BY <3>1, DivUnique
  <2> QED
    BY <2>2, <2>3
<1> QED
  BY <1>3, <1>4, <1>5, <1>6 DEF s, HasUpper

(* After a round, the upper digits are divided.                            *)
Parted(one, x1, k, w) == \E u \in Nat : IsExactly(Extract(x1, k, ToTheEnd), u) /\ Leaves(one, u, w)

LEMMA FirstPart ==
  ASSUME NEW n \in Nat, NEW p, p = Power(Base, n), NEW y1, NEW w \in Nat, IsExactly(y1, w),
         w < p, p <= 2 * w, NEW halve, Halving(halve), NEW x1, NEW v \in Nat, IsExactly(x1, v),
         NEW l \in Nat, NEW k \in Nat, PartsFrom(x1, n, l, 1) = ArithmeticShift(x1, -(k * DigitBits)),
         v < (w * p) * Power(Base, k)
  PROVE  Parted(NextPart([q |-> Zero, r |-> Zero], x1, y1, n, l, 1, halve), x1, k, w)
<1> DEFINE one == [q |-> Zero, r |-> Zero]  m == Power(Base, k)  zero == 0
           part == ArithmeticShift(x1, -(k * DigitBits))
<1>0. k \in Nat /\ m \in Nat /\ m >= 1 /\ p \in Nat
  BY PositivePowers
<1> HIDE DEF m
<1>1. PICK u \in Nat, t \in 0 .. m - 1 :
        IsExactly(Extract(x1, k, ToTheEnd), u) /\ IsExactly(part, u) /\ v = u * m + t
  <2>1. v >= 0 /\ k \in Nat /\ m = Power(Base, k)
    BY <1>0 DEF m
  <2>2. HasUpper(x1, v, k, m)
    BY <2>1, UpperExact
  <2> QED
    BY <2>2 DEF HasUpper
<1>2. u < w * p
  <2> DEFINE W == w * p
  <2>1. W \in Int
    BY <1>0
  <2> SUFFICES ASSUME W <= u PROVE FALSE
    BY <2>1
  <2> HIDE DEF W
  <2>2. W * m <= u * m
    BY <1>0, <2>1, Monotone
  <2> DEFINE A == W * m  B == u * m
  <2>3. A \in Int /\ B \in Int /\ A <= B /\ v < A /\ v = B + t /\ t >= 0
    BY <1>0, <1>1, <2>1, <2>2 DEF W, m
  <2> HIDE DEF A, B
  <2> QED
    BY <2>3
<1>3. zero \in Nat /\ IsExactly(one.q, zero) /\ IsExactly(one.r, zero) /\ zero = zero * w + zero
      /\ zero * p + u = u /\ zero * p + u < w * p
  BY <1>0, <1>2, ZeroIsExact
<1> DEFINE o == JoinHalves(one.q,
                           halve[<<IntegerPlus(part, ArithmeticShift(one.r, n * DigitBits)), y1, n>>], n)
<1>4. NextPart(one, x1, y1, n, l, 1, halve) = o
  <2> QED
    BY DEF NextPart, part
<1> HIDE DEF one, part, zero
<1>5. Leaves(o, zero * p + u, w)
  BY <1>0, <1>1, <1>3, NextPartExact
<1> HIDE DEF o
<1>6. Parted(o, x1, k, w)
  BY <1>1, <1>3, <1>5 DEF Parted
<1> QED
  BY <1>4, <1>6 DEF one

LEMMA LaterPart ==
  ASSUME NEW n \in Nat, NEW p, p = Power(Base, n), NEW y1, NEW w \in Nat, IsExactly(y1, w),
         w < p, p <= 2 * w, NEW halve, Halving(halve), NEW x1, NEW v \in Nat, IsExactly(x1, v),
         NEW l \in Nat, NEW i \in 2 .. l - 1, NEW one, Parted(one, x1, n * (l - i), w)
  PROVE  Parted(NextPart(one, x1, y1, n, l, i, halve), x1, n * (l - 1 - i), w)
<1> DEFINE j == l - 1 - i  a == n * j  b == n * (l - i)
<1>0. j \in Nat /\ a \in Nat /\ b = a + n /\ b \in Nat /\ a \in 0 .. b /\ b - a = n /\ p \in Nat
  <2>1. j \in Nat /\ l - i = j + 1
    OBVIOUS
  <2> HIDE DEF j
  <2>2. n * (j + 1) = n * j + n
    BY <2>1
  <2>3. 0 * n <= j * n /\ 0 * n = 0 /\ j * n = n * j /\ n * j \in Int
    BY <2>1, Monotone
  <2>4. a \in Nat /\ b = a + n
    BY <2>1, <2>2, <2>3
  <2>5. p \in Nat
    BY PositivePowers
  <2> HIDE DEF a, b
  <2> QED
    BY <2>1, <2>4, <2>5
<1> DEFINE part == Extract(x1, a, b)
<1>1. PICK u \in Nat : IsExactly(Extract(x1, b, ToTheEnd), u) /\ Leaves(one, u, w)
  BY DEF Parted
<1>2. PICK q \in Nat, r \in Nat : IsExactly(one.q, q) /\ IsExactly(one.r, r) /\ u = q * w + r /\ r < w
  BY <1>1 DEF Leaves
<1> DEFINE o == JoinHalves(one.q,
                           halve[<<IntegerPlus(part, ArithmeticShift(one.r, n * DigitBits)), y1, n>>], n)
<1>3. NextPart(one, x1, y1, n, l, i, halve) = o
  <2>1. PartsFrom(x1, n, l, i) = part
    BY DEF PartsFrom
  <2> HIDE DEF part
  <2> QED
    BY <2>1 DEF NextPart
<1> HIDE DEF a, b
<1>4. AreMiddle(Extract(x1, a, ToTheEnd), Extract(x1, a, b), Extract(x1, b, ToTheEnd), Power(Base, b - a))
  BY <1>0, MiddleExact
<1>5. PICK h \in Nat, g \in Nat, c \in 0 .. p - 1 :
        IsExactly(Extract(x1, a, ToTheEnd), h) /\ IsExactly(part, c) /\ IsExactly(Extract(x1, b, ToTheEnd), g)
        /\ h = g * p + c
  BY <1>0, <1>4 DEF AreMiddle
<1>6. g = u
  BY <1>1, <1>5 DEF IsExactly
<1>7. c \in Nat /\ c < p
  BY <1>0, <1>5
<1> HIDE DEF part
<1>8. r * p + c < w * p
  BY <1>0, <1>2, <1>7, StaysBelow
<1>9. Leaves(o, u * p + c, w)
  BY <1>0, <1>1, <1>2, <1>5, <1>7, <1>8, NextPartExact
<1> HIDE DEF o
<1>10. Leaves(o, h, w)
  BY <1>5, <1>6, <1>9
<1>11. Parted(o, x1, a, w)
  BY <1>5, <1>10 DEF Parted
<1> QED
  BY <1>3, <1>11 DEF a

(* bignum_divide_burnikel_ziegler without the shifts.                      *)
LEMMA ByPartsOfExact ==
  ASSUME NEW n \in Nat, NEW p, p = Power(Base, n), NEW y1, NEW w \in Nat, IsExactly(y1, w),
         w < p, p <= 2 * w, NEW halve, Halving(halve), NEW x1, NEW v \in Nat, IsExactly(x1, v),
         NEW l \in Nat, l >= 2, v < (w * p) * Power(Base, n * (l - 2))
  PROVE  Leaves(ByPartsOf(x1, y1, n, l, halve), v, w)
<1> DEFINE f == CHOOSE g : IsParting(g, l - 1, x1, y1, n, l, halve)
           T == {i \in 0 .. l - 2 : Parted(f[i + 1], x1, n * (l - 1 - (i + 1)), w)}  zero == 0
<1>1. ByPartsOf(x1, y1, n, l, halve) = f[l - 1]
  BY DEF ByPartsOf, IsParting
<1>2. IsParting(f, l - 1, x1, y1, n, l, halve)
  BY PartingExists
<1> HIDE DEF f
<1>3. /\ f[0] = [q |-> Zero, r |-> Zero]
      /\ \A i \in 1 .. l - 1 : f[i] = NextPart(f[i - 1], x1, y1, n, l, i, halve)
  BY <1>2 DEF IsParting
<1>4. 0 \in T
  <2>1. f[1] = NextPart([q |-> Zero, r |-> Zero], x1, y1, n, l, 1, halve)
    BY <1>3
  <2> DEFINE k == n * (l - 2)
  <2> HIDE DEF k
  <2>2. v < (w * p) * Power(Base, k) /\ k = n * (l - 2)
    BY DEF k
  <2>3. PartsFrom(x1, n, l, 1) = ArithmeticShift(x1, -(k * DigitBits))
    <3>1. (l - 2) * n * DigitBits = k * DigitBits
      BY DEF k
    <3> QED
      BY <3>1 DEF PartsFrom
  <2>4. k \in Nat
    <3>1. l - 2 \in Nat
      OBVIOUS
    <3> DEFINE j == l - 2
    <3> HIDE DEF j
    <3>2. 0 * n <= j * n /\ 0 * n = 0 /\ j * n = n * j /\ n * j \in Int
      BY <3>1, Monotone DEF j
    <3> QED
      BY <3>2 DEF k, j
  <2>5. Parted(NextPart([q |-> Zero, r |-> Zero], x1, y1, n, l, 1, halve), x1, k, w)
    BY <2>2, <2>3, <2>4, FirstPart
  <2>6. Parted(f[1], x1, k, w)
    BY <2>1, <2>5
  <2>7. l - 1 - (0 + 1) = l - 2 /\ 0 + 1 = 1 /\ 0 \in 0 .. l - 2
    OBVIOUS
  <2> QED
    BY <2>6, <2>7 DEF k
<1>5. ASSUME NEW i \in 0 .. (l - 2) - 1, i \in T PROVE i + 1 \in T
  <2> DEFINE j == i + 2
  <2>1. j \in 2 .. l - 1 /\ j \in 1 .. l - 1 /\ j - 1 = i + 1 /\ l - 1 - (i + 1) = l - j
        /\ i + 1 \in 0 .. l - 2 /\ (i + 1) + 1 = j
    OBVIOUS
  <2> HIDE DEF j
  <2>2. f[j] = NextPart(f[i + 1], x1, y1, n, l, j, halve)
    BY <1>3, <2>1
  <2>3. Parted(f[i + 1], x1, n * (l - j), w)
    BY <1>5, <2>1
  <2>4. Parted(f[j], x1, n * (l - 1 - j), w)
    BY <2>1, <2>2, <2>3, LaterPart
  <2> QED
    BY <2>1, <2>4
<1>6. l - 2 \in T
  <2> DEFINE m == l - 2
  <2>1. m \in Nat
    OBVIOUS
  <2> HIDE DEF T
  <2>2. 0 \in T /\ \A i \in 0 .. m - 1 : i \in T => i + 1 \in T
    BY <1>4, <1>5
  <2> HIDE DEF m
  <2>3. \A i \in 0 .. m : i \in T
    BY <2>1, <2>2, Induction
  <2>4. m \in T
    BY <2>1, <2>3
  <2> QED
    BY <2>4 DEF m
<1>7. Parted(f[l - 1], x1, zero, w)
  <2>1. (l - 2) + 1 = l - 1 /\ l - 1 - (l - 1) = 0 /\ n * 0 = 0
    OBVIOUS
  <2> QED
    BY <1>6, <2>1
<1>8. IsExactly(Extract(x1, zero, ToTheEnd), v)
  <2>1. v >= 0
    OBVIOUS
  <2> QED
    BY <2>1, WholeExact
<1>9. Leaves(f[l - 1], v, w)
  <2>1. PICK u \in Nat : IsExactly(Extract(x1, zero, ToTheEnd), u) /\ Leaves(f[l - 1], u, w)
    BY <1>7 DEF Parted
  <2>2. u = v
    BY <1>8, <2>1 DEF IsExactly
  <2> QED
    BY <2>1, <2>2
<1> QED
  BY <1>1, <1>9

(* A multiple that covers the rest.                                        *)
LEMMA CoversAll ==
  ASSUME NEW a \in Nat, NEW n \in Nat, n > 0, NEW q, q = a \div n
  PROVE  q \in Nat /\ q * n <= a /\ a <= q * n + (n - 1)
<1> DEFINE r == a % n  c == n * q
<1>1. q \in Int /\ r \in 0 .. n - 1 /\ a = n * q + r
  <2>1. a \in Int /\ n \in Int /\ n > 0
    OBVIOUS
  <2>2. a \div n \in Int /\ r \in 0 .. n - 1 /\ a = n * (a \div n) + r
    BY <2>1, DivMod
  <2> QED
    BY <2>2
<1>2. c \in Int /\ q * n = c
  BY <1>1
<1> HIDE DEF r, c
<1>3. c <= a /\ a <= c + (n - 1)
  BY <1>1, <1>2 DEF c
<1>4. q >= 0
  <2> SUFFICES ASSUME q <= -1 PROVE FALSE
    BY <1>1
  <2>1. q * n <= ((-1) * n) /\ ((-1) * n) = -n
    BY <1>1, Monotone
  <2> QED
    BY <1>2, <1>3, <2>1
<1> QED
  BY <1>1, <1>2, <1>3, <1>4

LEMMA NextMultipleCovers ==
  ASSUME NEW n \in Nat, NEW m \in Nat, m > 0
  PROVE  NextMultiple(n, m) \in Nat /\ n <= NextMultiple(n, m)
<1> DEFINE a == n + m - 1  q == a \div m  c == q * m
<1>1. a \in Nat
  OBVIOUS
<1> HIDE DEF a
<1>2. q \in Nat /\ q * m <= a /\ a <= q * m + (m - 1)
  BY <1>1, CoversAll
<1> HIDE DEF q
<1>3. 0 * m <= q * m /\ 0 * m = 0 /\ c \in Int
  BY <1>2, Monotone
<1>4. a = n + m - 1
  BY DEF a
<1>5. c \in Nat /\ n <= c
  BY <1>2, <1>3, <1>4
<1> QED
  BY <1>5 DEF NextMultiple, c, q, a

(* C_ilen of a number of digits                                            *)
LEMMA BelowPower ==
  ASSUME NEW n \in Nat PROVE n < Power(2, n) /\ Power(2, n) \in Int
<1> DEFINE T == {i \in 0 .. n : i < Power(2, i) /\ Power(2, i) \in Int}  two == 2
<1>1. 0 \in T
  <2>1. Power(two, 0) = 1
    BY PowerZero
  <2> QED
    BY <2>1
<1>2. ASSUME NEW i \in 0 .. n - 1, i \in T PROVE i + 1 \in T
  <2>1. i \in Nat /\ i < Power(2, i) /\ Power(2, i) \in Int /\ i + 1 \in 0 .. n
    BY <1>2
  <2>2. Power(2, i + 1) = 2 * Power(2, i)
    BY <2>1, PowerNext
  <2>3. i + 1 < Power(2, i + 1) /\ Power(2, i + 1) \in Int
    BY <2>1, <2>2
  <2> QED
    BY <2>1, <2>3
<1> HIDE DEF T
<1>3. \A i \in 0 .. n : i \in T
  BY <1>1, <1>2, Induction
<1>4. n \in T
  BY <1>3
<1> QED
  BY <1>4 DEF T

LEMMA BitsInExact ==
  ASSUME NEW n \in Nat
  PROVE  /\ BitsIn(n) \in 0 .. n /\ n < Power(2, BitsIn(n))
         /\ BitsIn(n) > 0 => Power(2, BitsIn(n) - 1) <= n
<1> DEFINE T == {b \in Nat : n < Power(2, b)}
           P(b) == n < Power(2, b) /\ (b > 0 => Power(2, b - 1) <= n)
<1>1. n \in T
  BY BelowPower
<1>2. PICK b \in T : \A m \in T : b <= m
  <2>1. T \subseteq Nat /\ T # {}
    BY <1>1
  <2> HIDE DEF T
  <2> QED
    BY <2>1, Least
<1>3. b \in 0 .. n
  BY <1>1, <1>2
<1>4. P(b)
  <2>1. n < Power(2, b)
    BY <1>2
  <2>2. ASSUME b > 0 PROVE Power(2, b - 1) <= n
    <3>1. b - 1 \in Nat /\ b - 1 \notin T
      BY <1>2, <1>3, <2>2
    <3>2. Power(2, b - 1) \in Int
      BY <3>1, PowerInt
    <3> QED
      BY <3>1, <3>2
  <2> QED
    BY <2>1, <2>2
<1> HIDE DEF P
<1>5. BitsIn(n) = CHOOSE k \in 0 .. n : P(k)
  BY DEF BitsIn, P
<1>6. BitsIn(n) \in 0 .. n /\ P(BitsIn(n))
  BY <1>3, <1>4, <1>5
<1> QED
  BY <1>6 DEF P

(* The parts of a size are not fewer than its digits.                      *)
LEMMA PartSizeCovers ==
  ASSUME NEW size \in Nat PROVE PartSize(size) \in Nat /\ size <= PartSize(size)
<1> DEFINE t == BurnikelZieglerThreshold  k == size \div t  b == BitsIn(k)  m == Power(2, b)
<1>1. t \in Nat /\ t > 0
  BY BurnikelZieglerAssumption
<1>2. k \in Nat
  BY <1>1, CoversAll
<1> HIDE DEF k
<1>3. b \in Nat
  BY <1>2, BitsInExact
<1> HIDE DEF b
<1>4. m \in Nat /\ m > 0
  <2>1. Power(2, b) \in Nat /\ Power(2, b) >= 1
    BY <1>3, PositivePowers
  <2> QED
    BY <2>1
<1> HIDE DEF m
<1>5. NextMultiple(size, m) \in Nat /\ size <= NextMultiple(size, m)
  BY <1>4, NextMultipleCovers
<1> QED
  BY <1>5 DEF PartSize, m, b, k

(* At least two parts, with room above the leading digit.                  *)
LEMMA EnoughParts ==
  ASSUME NEW x1, NEW n \in Nat, n > 0, NEW s \in Nat, Size(x1) = s, NEW l, l = PartCount(x1, n)
  PROVE  l \in Nat /\ l >= 2 /\ s + 1 <= n * l /\ n * l \in Nat
<1> DEFINE a == s + n  k == a \div n
<1>1. a \in Nat
  OBVIOUS
<1> HIDE DEF a
<1>2. k \in Nat /\ k * n <= a /\ a <= k * n + (n - 1)
  BY <1>1, CoversAll
<1> HIDE DEF k
<1>3. l \in Nat /\ l >= 2 /\ k <= l
  <2> DEFINE l1 == IF DigitBits * k = IntegerLengthAbs(x1) THEN k + 1 ELSE k
  <2>1. l = IF l1 < 2 THEN 2 ELSE l1
    BY DEF PartCount, k, a
  <2>2. l1 \in Nat /\ k <= l1
    BY <1>2
  <2> HIDE DEF l1
  <2> QED
    BY <1>2, <2>1, <2>2
<1>4. k * n <= l * n /\ l * n = n * l /\ n * l \in Int
  BY <1>2, <1>3, Monotone
<1> DEFINE c == k * n  d == n * l
<1>5. c \in Int /\ d \in Int /\ c <= d /\ a <= c + (n - 1) /\ a = s + n
  BY <1>2, <1>4 DEF a
<1> HIDE DEF c, d
<1>6. s + 1 <= d /\ d \in Nat
  BY <1>5
<1> QED
  BY <1>3, <1>6 DEF d

(* A number of fewer digits than n * l is below half the weight of these   *)
(* digits, and so below the divisor times the weight of all but one part.  *)
LEMMA BelowParts ==
  ASSUME NEW n \in Nat, NEW p, p = Power(Base, n), NEW w \in Nat, p <= 2 * w,
         NEW l \in Nat, l >= 2, NEW s \in Nat, s + 1 <= n * l, NEW v \in Nat, v < Power(Base, s)
  PROVE  v < (w * p) * Power(Base, n * (l - 2))
<1> DEFINE k == n * (l - 2)  e == n * l  P == Power(Base, k)  W == (w * p) * P  B == Power(Base, e)
           D == Power(Base, s)  Q == p * p
<1>1. k \in Nat /\ e = (n + n) + k /\ e \in Nat
  <2>1. l - 2 \in Nat
    OBVIOUS
  <2> DEFINE j == l - 2
  <2>2. n * l = n * j + (n + n)
    OBVIOUS
  <2> HIDE DEF j
  <2>3. 0 * n <= j * n /\ 0 * n = 0 /\ j * n = n * j /\ n * j \in Int
    BY <2>1, Monotone DEF j
  <2>4. n * j \in Nat
    BY <2>3
  <2> DEFINE c == n * j
  <2>5. c \in Nat /\ e = c + (n + n)
    BY <2>2, <2>4
  <2> HIDE DEF c, e
  <2>6. e = (n + n) + c /\ e \in Nat
    BY <2>5
  <2> QED
    BY <2>5, <2>6 DEF c, j
<1>2. p \in Nat /\ P \in Nat /\ D \in Nat /\ D >= 1
  <2> HIDE DEF k
  <2> QED
    BY <1>1, PositivePowers
<1>3. B = Q * P
  <2> HIDE DEF k, e
  <2>1. Power(Base, (n + n) + k) = Power(Base, n + n) * Power(Base, k)
    BY <1>1, HalfFacts, PowerSum
  <2>2. Power(Base, n + n) = Power(Base, n) * Power(Base, n)
    BY HalfFacts, PowerSum
  <2> QED
    BY <1>1, <2>1, <2>2
<1> HIDE DEF k, P
<1>4. B <= 2 * W /\ B \in Int /\ W \in Int
  <2> DEFINE c == 2 * w  d == p * P
  <2>1. c \in Int /\ d \in Int /\ p <= c /\ d >= 0
    <3>1. 0 * P <= p * P /\ 0 * P = 0
      BY <1>2, Monotone
    <3> QED
      BY <1>2, <3>1
  <2> HIDE DEF c, d
  <2>2. p * d <= c * d
    BY <1>2, <2>1, Monotone
  <2>3. p * d = Q * P
    BY <1>2, Distribute DEF d
  <2>4. c * d = 2 * W
    <3>1. w * (p * P) = (w * p) * P /\ w * d \in Int
      BY <1>2, <2>1, Distribute
    <3>2. (2 * w) * d = 2 * (w * d)
      BY <2>1, Distribute
    <3>3. w * d = W
      BY <3>1 DEF d
    <3> QED
      BY <3>2, <3>3 DEF c
  <2>5. W \in Int /\ B \in Int
    <3>1. w * p \in Int /\ Q \in Int
      BY <1>2
    <3> QED
      BY <1>2, <1>3, <3>1
  <2> QED
    BY <1>3, <2>2, <2>3, <2>4, <2>5
<1>5. 2 * D <= B
  <2> HIDE DEF e
  <2>1. s + 1 <= e
    BY DEF e
  <2>2. Power(Base, s + 1) <= B
    BY <1>1, <2>1, HalfFacts, PowerMonotone
  <2>3. Power(Base, s + 1) = Base * D
    BY HalfFacts, PowerNext
  <2>4. 2 * D <= Base * D
    <3>1. 2 <= Base /\ Base \in Int /\ D \in Int /\ D >= 0
      BY <1>2, BaseFacts
    <3> HIDE DEF D
    <3> QED
      BY <3>1, Monotone
  <2>5. Base * D \in Int
    BY <1>2, BaseFacts
  <2> QED
    BY <1>2, <1>4, <2>2, <2>3, <2>4, <2>5
<1>6. v < D
  OBVIOUS
<1> HIDE DEF B, D, W
<1>7. v < W
  BY <1>2, <1>4, <1>5, <1>6
<1> QED
  BY <1>7 DEF W, P, k

LEMMA ByPartsExact ==
  ASSUME NEW n \in Nat, n > 0, NEW p, p = Power(Base, n), NEW y1, NEW w \in Nat, IsExactly(y1, w),
         w < p, p <= 2 * w, NEW halve, Halving(halve), NEW x1, NEW v \in Nat, IsExactly(x1, v),
         ~IsFix(x1)
  PROVE  Leaves(ByParts(x1, y1, n, halve), v, w)
<1> DEFINE d == x1.d  s == Len(d)  l == PartCount(x1, n)
<1>1. d \in Seq(Digit) /\ v = Amount(d) /\ Size(x1) = s /\ s \in Nat
  <2>1. x1.d \in Seq(Digit) /\ v = Amount(x1.d)
    <3>1. v >= 0
      OBVIOUS
    <3> QED
      BY <3>1, PositiveBig
  <2> QED
    BY <2>1 DEF Size
<1>2. v < Power(Base, s)
  BY <1>1, AmountBounds
<1> HIDE DEF d, s
<1>3. l \in Nat /\ l >= 2 /\ s + 1 <= n * l
  BY <1>1, EnoughParts
<1> HIDE DEF l
<1>4. v < (w * p) * Power(Base, n * (l - 2))
  BY <1>1, <1>2, <1>3, BelowParts
<1>5. Leaves(ByPartsOf(x1, y1, n, l, halve), v, w)
  BY <1>3, <1>4, ByPartsOfExact
<1> QED
  BY <1>5 DEF ByParts, l

(* integer_length_abs counts the bits without the leading zeros.           *)
LEMMA LengthBounds ==
  ASSUME NEW x1, NEW v, IsExactly(x1, v), ~IsFix(x1), NEW a, a = Magnitude(v),
         NEW b, b = IntegerLengthAbs(x1)
  PROVE  /\ b \in Nat /\ b > 0 /\ b <= DigitBits * Size(x1) /\ Size(x1) \in Nat /\ Size(x1) > 0
         /\ a < Power(2, b) /\ Power(2, b - 1) <= a /\ a \in Nat
<1> DEFINE d == x1.d  s == Len(d)  k == s - 1  top == d[s]  i == Ilen(top)  P == Power(Base, k)
           low == DigitsValue(Base, d, k)  w == DigitBits
<1>1. /\ d \in Seq(Digit) /\ s > 0 /\ top # 0 /\ a = Amount(d) /\ s \in Nat /\ Size(x1) = s
      /\ b = k * w + i
  <2>1. /\ x1.neg \in BOOLEAN /\ x1.d \in Seq(Digit) /\ Len(x1.d) > 0 /\ Normal(x1.d)
        /\ v = Signed(x1.neg, Amount(x1.d))
    BY ExactCases
  <2>2. Amount(d) \in Nat
    BY <2>1, AmountBounds
  <2>3. a = Amount(d)
    BY <2>1, <2>2, MagnitudeOfSigned
  <2> QED
    BY <2>1, <2>3 DEF Normal, Size, IntegerLengthAbs
<1>2. k \in Nat /\ s = k + 1 /\ w \in Nat /\ Base \in Int /\ Base > 0
  <2>1. s \in Nat /\ s > 0
    BY <1>1
  <2> HIDE DEF s
  <2>2. k \in Nat /\ s = k + 1
    BY <2>1
  <2> QED
    BY <2>2, BaseFacts
<1>3. \A j \in 1 .. s : d[j] \in Digit /\ d[j] \in Int
  BY <1>1, DigitSequence
<1>4. top \in Digit /\ top \in Int /\ top > 0
  <2>1. top \in Digit /\ top \in Int
    BY <1>1, <1>3
  <2> QED
    BY <1>1, <2>1, DigitsAreInt
<1>5. i \in 0 .. w /\ top < Power(2, i) /\ (i > 0 => Power(2, i - 1) <= top)
  BY <1>4, IlenFacts
<1>6. i > 0
  <2> SUFFICES ASSUME i = 0 PROVE FALSE
    BY <1>2, <1>5
  <2> DEFINE two == 2
  <2>1. Power(two, 0) = 1
    BY PowerZero
  <2> QED
    BY <1>4, <1>5, <2>1
<1>7. a = low + top * P
  <2>1. \A j \in 1 .. k + 1 : d[j] \in Int
    BY <1>2, <1>3
  <2>2. DigitsValue(Base, d, k + 1) = DigitsValue(Base, d, k) + d[k + 1] * Power(Base, k)
    BY <1>2, <2>1, OneMoreDigit
  <2> QED
    BY <1>1, <1>2, <2>2 DEF Amount
<1>8. low \in 0 .. P - 1 /\ P \in Int /\ P > 0
  <2>1. \A j \in 1 .. k : d[j] \in 0 .. Base - 1
    BY <1>2, <1>3 DEF Digit
  <2> QED
    BY <1>2, <2>1, ValueBounds, PowerPositive
<1> DEFINE h == i - 1  U == Power(2, i)  L == Power(2, h)  c == k * w
<1>9. /\ c \in Nat /\ Power(2, c) = P /\ h \in Nat /\ i \in Nat /\ U \in Int /\ L \in Int
      /\ L <= top /\ top + 1 <= U
  <2>1. c \in Nat /\ Power(2, c) = P
    BY <1>2, BitsOfDigits
  <2>2. h \in Nat /\ i \in Nat
    BY <1>2, <1>5, <1>6
  <2>3. U \in Int /\ L \in Int
    <3> HIDE DEF i, h
    <3> QED
      BY <2>2, PowerInt
  <2> QED
    BY <1>4, <1>5, <1>6, <2>1, <2>2, <2>3
<1>10. Power(2, b) = P * U /\ Power(2, b - 1) = P * L
  <2>1. b = c + i /\ b - 1 = c + h
    BY <1>1, <1>9
  <2> HIDE DEF c, h, i
  <2>2. Power(2, c + i) = Power(2, c) * Power(2, i)
    BY <1>9, PowerSum
  <2>3. Power(2, c + h) = Power(2, c) * Power(2, h)
    BY <1>9, PowerSum
  <2> QED
    BY <1>9, <2>1, <2>2, <2>3
<1>11. b \in Nat /\ b > 0 /\ b <= DigitBits * s
  <2>1. b = c + i
    BY <1>1
  <2>2. w * s = c + w
    <3> HIDE DEF k
    <3>1. w * (k + 1) = w * k + w /\ w * k = k * w
      BY <1>2
    <3> QED
      BY <1>2, <3>1
  <2> HIDE DEF c, i
  <2>3. b \in Nat /\ b > 0 /\ b <= c + w
    BY <1>2, <1>5, <1>6, <1>9, <2>1
  <2> QED
    BY <2>2, <2>3
<1> HIDE DEF U, L, P, low, top
<1>12. a < P * U /\ P * L <= a
  <2> DEFINE t == top + 1  T == top * P  A == P * U  C == P * L
  <2>1. t \in Int /\ t <= U /\ T \in Int /\ A \in Int /\ C \in Int /\ t * P = T + P
    BY <1>4, <1>8, <1>9
  <2> HIDE DEF t
  <2>2. t * P <= U * P /\ U * P = P * U
    BY <1>8, <1>9, <2>1, Monotone
  <2>3. L * P <= top * P /\ L * P = P * L
    BY <1>4, <1>8, <1>9, Monotone
  <2> HIDE DEF T, A, C
  <2>4. T + P <= A /\ C <= T /\ a = low + T /\ low \in Int /\ 0 <= low /\ low < P
    BY <1>7, <1>8, <2>1, <2>2, <2>3 DEF T, A, C
  <2>5. a < A /\ C <= a
    BY <1>8, <2>1, <2>4
  <2> QED
    BY <2>5 DEF A, C
<1>13. a \in Nat
  BY <1>1, AmountBounds
<1> QED
  BY <1>1, <1>10, <1>11, <1>12, <1>13

(* The remainder of shifted numbers, shifted back.                         *)
LEMMA UnshiftedExact ==
  ASSUME NEW p, NEW s \in Nat, NEW m, m = Power(2, s), NEW a \in Nat, NEW b \in Nat, Leaves(p, a * m, b * m)
  PROVE  \E q, r \in Nat :
           IsExactly(p.q, q) /\ IsExactly(ArithmeticShift(p.r, -s), r) /\ a = q * b + r /\ r < b
<1>0. m \in Nat /\ m >= 1
  BY PositivePowers
<1>1. PICK q \in Nat, t \in Nat :
        IsExactly(p.q, q) /\ IsExactly(p.r, t) /\ a * m = q * (b * m) + t /\ t < b * m
  BY DEF Leaves
<1> DEFINE c == q * b  r == a - c  A == a * m  C == c * m  B == b * m  R == r * m
<1>2. c \in Int /\ r \in Int /\ A \in Int /\ C \in Int /\ B \in Int /\ R = A - C /\ R \in Int /\ a = q * b + r
  <2>1. c \in Int /\ r \in Int /\ A \in Int /\ C \in Int /\ B \in Int
    BY <1>0
  <2>2. (a - c) * m = a * m - c * m
    BY <1>0, <2>1, Distribute
  <2> HIDE DEF A, C, B, c
  <2>3. a = c + r /\ R = A - C /\ R \in Int
    BY <2>1, <2>2 DEF A, C
  <2> QED
    BY <2>1, <2>3 DEF c
<1>3. q * (b * m) = C
  BY <1>0, Distribute
<1>4. R = t /\ R < B /\ R >= 0
  <2>1. A = C + t /\ t < B
    BY <1>1, <1>3
  <2> HIDE DEF A, B, C, R, c, r
  <2> QED
    BY <1>2, <2>1
<1> HIDE DEF c, C, A
<1>5. r < b
  <2> SUFFICES ASSUME b <= r PROVE FALSE
    BY <1>2
  <2> HIDE DEF r
  <2>1. b * m <= r * m
    BY <1>0, <1>2, Monotone
  <2> HIDE DEF B, R
  <2> QED
    BY <1>2, <1>4, <2>1 DEF B, R
<1>6. r >= 0
  <2> SUFFICES ASSUME r <= -1 PROVE FALSE
    BY <1>2
  <2> HIDE DEF r
  <2>1. r * m <= ((-1) * m) /\ ((-1) * m) = -m
    BY <1>0, <1>2, Monotone
  <2> HIDE DEF R
  <2> QED
    BY <1>0, <1>2, <1>4, <2>1 DEF R
<1> HIDE DEF r, R, B
<1>7. r \in Nat
  BY <1>2, <1>6
<1>8. IsExactly(ArithmeticShift(p.r, -s), r)
  <2>1. t >= 0
    OBVIOUS
  <2>2. PICK u \in Nat, z \in 0 .. m - 1 : IsExactly(ArithmeticShift(p.r, -s), u) /\ t = u * m + z
    BY <1>1, <2>1, FloorShift
  <2> DEFINE zero == 0
  <2>3. t = m * u + z /\ m \in Int /\ m > 0 /\ u \in Int /\ z \in 0 .. m - 1 /\ t \in Int
    BY <1>0, <2>2
  <2>4. t \div m = u
    BY <2>3, DivUnique
  <2>5. t = m * r + zero /\ m \in Int /\ m > 0 /\ r \in Int /\ zero \in 0 .. m - 1 /\ t \in Int
    <3>1. r * m = m * r /\ t = r * m /\ m * r \in Int
      BY <1>0, <1>4, <1>7 DEF R
    <3> QED
      BY <1>0, <1>7, <3>1
  <2> HIDE DEF zero
  <2>6. t \div m = r
    BY <2>5, DivUnique
  <2> QED
    BY <2>2, <2>4, <2>6
<1> QED
  BY <1>1, <1>2, <1>5, <1>7, <1>8

LEMMA NegatedIfExact ==
  ASSUME NEW neg \in BOOLEAN, NEW x1, NEW v, IsExactly(x1, v)
  PROVE  IsExactly(NegatedIf(neg, x1), Signed(neg, v))
<1>1. CASE neg = TRUE
  BY <1>1, NegateExact DEF NegatedIf, Signed
<1>2. CASE neg = FALSE
  BY <1>2 DEF NegatedIf, Signed
<1> QED
  BY <1>1, <1>2

(* The shift that sets the leading bit of the divisor.                     *)
LEMMA ShiftNormalizes ==
  ASSUME NEW y1, NEW w, IsExactly(y1, w), ~IsFix(y1), NEW b, b = Magnitude(w),
         NEW n \in Nat, Size(y1) <= n, NEW s, s = DigitBits * n - IntegerLengthAbs(y1),
         NEW m, m = Power(2, s), NEW p, p = Power(Base, n)
  PROVE  s \in Nat /\ n > 0 /\ b \in Nat /\ b * m \in Nat /\ b * m < p /\ p <= 2 * (b * m)
<1> DEFINE e == IntegerLengthAbs(y1)  f == e - 1  U == Power(2, e)  L == Power(2, f)  k == DigitBits * n
           z == Size(y1)
<1>1. /\ e \in Nat /\ e > 0 /\ e <= DigitBits * z /\ z \in Nat /\ z > 0
      /\ b < U /\ L <= b /\ b \in Nat
  BY LengthBounds
<1>2. k \in Nat /\ Power(2, k) = p /\ e <= k
  <2>1. k \in Nat /\ Power(2, k) = p
    BY PowerOfBase
  <2> HIDE DEF z
  <2> DEFINE w1 == DigitBits
  <2>2. w1 \in Nat
    BY BaseFacts
  <2> HIDE DEF w1
  <2>3. z * w1 <= n * w1 /\ z * w1 = w1 * z /\ n * w1 = w1 * n /\ w1 * z \in Int /\ w1 * n \in Int
    BY <1>1, <2>2, Monotone DEF z
  <2> DEFINE c == w1 * z  d == w1 * n
  <2>4. c <= d /\ c \in Int /\ d \in Int /\ e <= c /\ k = d
    BY <1>1, <2>3 DEF w1
  <2> HIDE DEF c, d, e, k
  <2>5. e <= k
    BY <1>1, <2>4
  <2> QED
    BY <2>1, <2>5
<1> HIDE DEF e, k
<1>3. s \in Nat /\ k = e + s /\ f \in Nat /\ e = f + 1
  <2>1. s = k - e
    BY DEF e, k
  <2> QED
    BY <1>1, <1>2, <2>1
<1> HIDE DEF f
<1>4. p = U * m /\ U = 2 * L /\ U \in Int /\ L \in Int /\ m \in Nat /\ m >= 1 /\ L >= 0
  <2>1. Power(2, e + s) = Power(2, e) * Power(2, s)
    BY <1>1, <1>3, PowerSum
  <2>2. Power(2, f + 1) = 2 * Power(2, f)
    BY <1>3, PowerNext
  <2>3. U \in Int /\ L \in Int /\ L >= 0
    BY <1>1, <1>3, PositivePowers
  <2>4. m \in Nat /\ m >= 1
    BY <1>3, PositivePowers
  <2> QED
    BY <1>2, <1>3, <2>1, <2>2, <2>3, <2>4
<1> HIDE DEF U, L
<1> DEFINE B == b * m  C == L * m  D == U * m
<1>5. B \in Int /\ C \in Int /\ D \in Int /\ D = 2 * C /\ p = D
  <2>1. (2 * L) * m = 2 * (L * m)
    BY <1>4, Distribute
  <2> QED
    BY <1>1, <1>4, <2>1
<1>6. b * m < U * m
  BY <1>1, <1>4, StrictlyMonotone
<1>7. L * m <= b * m
  BY <1>1, <1>4, Monotone
<1>8. 0 * m <= b * m /\ 0 * m = 0
  BY <1>1, <1>4, Monotone
<1>9. n > 0
  BY <1>1 DEF z
<1>10. B < D /\ C <= B /\ 0 <= B
  BY <1>6, <1>7, <1>8
<1> HIDE DEF B, C, D
<1>11. B < p /\ p <= 2 * B /\ B \in Nat
  BY <1>5, <1>10
<1> QED
  BY <1>1, <1>3, <1>9, <1>11 DEF B

(* A bignum shifted up is a bignum.                                        *)
LEMMA ShiftedIsBig ==
  ASSUME NEW x1, NEW v, IsExactly(x1, v), ~IsFix(x1), NEW a, a = Magnitude(v),
         NEW s \in Nat, NEW m, m = Power(2, s)
  PROVE  a \in Nat /\ IsExactly(ArithmeticShift(IntegerAbs(x1), s), a * m)
         /\ ~IsFix(ArithmeticShift(IntegerAbs(x1), s)) /\ a * m \in Nat
<1> DEFINE o == ArithmeticShift(IntegerAbs(x1), s)  A == a * m  M == MostPositive
<1>0. m \in Nat /\ m >= 1
  BY PositivePowers
<1>1. a \in Nat /\ a > M /\ M \in Int
  <2>1. v \in Int /\ ~FitsFixnum(v)
    BY ExactInt, BigIsLarge
  <2>2. a \in Nat
    BY <2>1 DEF Magnitude
  <2>3. M \in Int /\ (v < -(M + 1) \/ v > M)
    BY <2>1, BaseFacts, FixnumRange
  <2> HIDE DEF M
  <2>4. a > M
    BY <2>1, <2>3 DEF Magnitude
  <2> QED
    BY <2>2, <2>3, <2>4
<1>2. IsExactly(o, A)
  <2>1. IsExactly(IntegerAbs(x1), a)
    BY AbsExact
  <2>2. IsExactly(o, a * Power(2, s))
    BY <2>1, LeftShiftExact
  <2> QED
    BY <2>2
<1>3. A \in Nat /\ A > M
  <2>1. 1 * a <= m * a /\ 1 * a = a /\ m * a = a * m /\ a * m \in Int
    BY <1>0, <1>1, Monotone
  <2> QED
    BY <1>1, <2>1
<1> HIDE DEF o, A, M
<1>4. ~IsFix(o)
  <2> SUFFICES ASSUME IsFix(o) PROVE FALSE
    OBVIOUS
  <2>1. FitsFixnum(A)
    BY <1>2, ExactCases
  <2> QED
    BY <1>1, <1>3, <2>1 DEF FitsFixnum, M
<1> QED
  BY <1>1, <1>2, <1>3, <1>4 DEF o, A

(* bignum_divide_burnikel_ziegler                                          *)
LEMMA DivideByPartsExact ==
  ASSUME NEW x1, NEW v, IsExactly(x1, v), ~IsFix(x1), NEW y1, NEW w, IsExactly(y1, w), ~IsFix(y1),
         NEW halve, Halving(halve)
  PROVE  Truncates(DivideByParts(x1, y1, halve), v, w)
<1> DEFINE a == Magnitude(v)  b == Magnitude(w)  z == Size(y1)  n == PartSize(z)
           s == DigitBits * n - IntegerLengthAbs(y1)  m == Power(2, s)  p == Power(Base, n)
           xs == ArithmeticShift(IntegerAbs(x1), s)  ys == ArithmeticShift(IntegerAbs(y1), s)
           A == a * m  B == b * m  one == ByParts(xs, ys, n, halve)  o == DivideByParts(x1, y1, halve)
<1>1. z \in Nat
  BY LengthBounds
<1> HIDE DEF z
<1>2. n \in Nat /\ z <= n
  BY <1>1, PartSizeCovers
<1> HIDE DEF n
<1>3. s \in Nat /\ n > 0 /\ b \in Nat /\ b * m \in Nat /\ b * m < p /\ p <= 2 * (b * m)
  BY <1>2, ShiftNormalizes DEF z
<1> HIDE DEF s
<1>4. a \in Nat /\ IsExactly(xs, a * m) /\ ~IsFix(xs) /\ a * m \in Nat
  BY <1>3, ShiftedIsBig
<1>5. IsExactly(ys, b * m)
  BY <1>3, ShiftedIsBig
<1> HIDE DEF xs, ys, A, B, a, b
<1>6. Leaves(one, A, B)
  <2>1. A \in Nat /\ B \in Nat /\ B < p /\ p <= 2 * B /\ IsExactly(xs, A) /\ IsExactly(ys, B)
    BY <1>3, <1>4, <1>5 DEF A, B
  <2> QED
    BY <1>2, <1>3, <1>4, <2>1, ByPartsExact
<1> HIDE DEF one
<1>7. Leaves(one, a * m, b * m)
  BY <1>6 DEF A, B
<1>8. PICK q \in Nat, r \in Nat :
        IsExactly(one.q, q) /\ IsExactly(ArithmeticShift(one.r, -s), r) /\ a = q * b + r /\ r < b
  BY <1>3, <1>4, <1>7, UnshiftedExact
<1> DEFINE sx == x1.neg  sy == y1.neg  e == sx # sy
<1>9. sx \in BOOLEAN /\ v = Signed(sx, a) /\ sy \in BOOLEAN /\ w = Signed(sy, b)
  <2>1. /\ x1.neg \in BOOLEAN /\ Amount(x1.d) \in Nat /\ v = Signed(x1.neg, Amount(x1.d))
        /\ y1.neg \in BOOLEAN /\ Amount(y1.d) \in Nat /\ w = Signed(y1.neg, Amount(y1.d))
    BY BigIsLarge
  <2>2. a = Amount(x1.d) /\ b = Amount(y1.d)
    BY <2>1, MagnitudeOfSigned DEF a, b
  <2> QED
    BY <2>1, <2>2
<1>10. o.q = NegatedIf(e, one.q) /\ o.r = NegatedIf(sx, ArithmeticShift(one.r, -s))
  BY DEF DivideByParts, DivideShiftedParts, WithSigns, one, xs, ys, s, n, z
<1> HIDE DEF o, sx, sy
<1>11. IsExactly(o.q, Signed(sx # sy, q))
  <2>1. e \in BOOLEAN
    OBVIOUS
  <2>2. o.q = NegatedIf(e, one.q)
    BY <1>10
  <2> HIDE DEF e
  <2>3. IsExactly(o.q, Signed(e, q))
    BY <1>8, <2>1, <2>2, NegatedIfExact
  <2> QED
    BY <2>3 DEF e
<1>12. IsExactly(o.r, Signed(sx, r))
  BY <1>8, <1>9, <1>10, NegatedIfExact
<1>13. Truncates(o, Signed(sx, a), Signed(sy, b))
  BY <1>3, <1>4, <1>8, <1>9, <1>11, <1>12, SignsOfQuotient
<1> QED
  BY <1>9, <1>13 DEF o

(* What cannot be divided by half a digit has a leading digit that is      *)
(* large enough for the school method.                                     *)
LEMMA LongDivisor ==
  ASSUME NEW y1, NEW w, IsExactly(y1, w), w # 0, ~IsSmall(y1), NEW d, d = FixToBig(y1).d
  PROVE  /\ d \in Seq(Digit) /\ Normal(d) /\ Len(d) > 0 /\ Last(d) # 0
         /\ Len(d) = 1 => ~FitsHalf(d[1])
         /\ Amount(d) = Magnitude(w) /\ w \in Int
<1>1. IsOperand(FixToBig(y1), w) /\ w \in Int
  BY FixToBigExact, ExactInt
<1>2. d \in Seq(Digit) /\ Normal(d) /\ Amount(d) = Magnitude(w) /\ Amount(d) \in Nat
  BY <1>1, OperandMagnitude DEF IsOperand
<1>3. Len(d) > 0
  <2> SUFFICES ASSUME Len(d) = 0 PROVE FALSE
    BY <1>2
  <2>1. Amount(d) = 0
    BY NoDigits, HalfFacts DEF Amount
  <2> QED
    BY <1>1, <1>2, <2>1 DEF Magnitude
<1>4. Last(d) # 0
  BY <1>2, <1>3 DEF Normal, Last
<1>5. ASSUME Len(d) = 1 PROVE ~FitsHalf(d[1])
  <2>1. CASE IsFix(y1)
    <3>1. y1 = Fix(w) /\ y1.n = w
      BY <2>1, ExactCases
    <3>2. d = <<Magnitude(w)>>
      BY <2>1, <3>1, <1>1 DEF FixToBig, Big
    <3>3. d[1] = Magnitude(w)
      BY <3>2
    <3>4. ~Small(Magnitude(w))
      BY <2>1, <3>1 DEF IsSmall
    <3> QED
      BY <3>3, <3>4 DEF Small
  <2>2. CASE ~IsFix(y1)
    <3>1. d = y1.d
      BY <2>2 DEF FixToBig
    <3>2. d[1] \in Digit /\ d[1] \in Int
      BY <1>2, <1>5, DigitSequence
    <3>3. y1.neg \in BOOLEAN /\ ~FitsFixnum(Signed(y1.neg, d[1]))
      BY <1>5, <2>2, <3>1, ExactCases
    <3> SUFFICES ASSUME FitsHalf(d[1]) PROVE FALSE
      OBVIOUS
    <3>4. d[1] \in HalfDigit
      BY <3>2, HalfMeansLow
    <3>5. 0 <= d[1] /\ d[1] <= MostPositive /\ MostPositive \in Int /\ MostNegative = -MostPositive - 1
      BY <3>4, BaseFacts DEF HalfDigit
    <3>6. CASE y1.neg = TRUE
      BY <3>2, <3>3, <3>5, <3>6 DEF Signed, FitsFixnum
    <3>7. CASE y1.neg = FALSE
      BY <3>2, <3>3, <3>5, <3>7 DEF Signed, FitsFixnum
    <3> QED
      BY <3>3, <3>6, <3>7
  <2> QED
    BY <2>1, <2>2
<1> QED
  BY <1>1, <1>2, <1>3, <1>4, <1>5

(* A quotient and a remainder of digits, with signs.                       *)
LEMMA SimplifiedExact ==
  ASSUME NEW x1, NEW y1, NEW v, NEW w, IsOperand(x1, v), IsOperand(y1, w), NEW p,
         p.q \in Seq(Digit), p.r \in Seq(Digit),
         Amount(x1.d) = Amount(p.q) * Amount(y1.d) + Amount(p.r), Amount(p.r) < Amount(y1.d)
  PROVE  Truncates(Simplified(p, x1.neg # y1.neg, x1.neg), v, w)
<1> DEFINE sx == x1.neg  sy == y1.neg  e == sx # sy  o == Simplified(p, e, sx)
           a == Amount(x1.d)  b == Amount(y1.d)  q == Amount(p.q)  r == Amount(p.r)
<1>1. sx \in BOOLEAN /\ sy \in BOOLEAN /\ v = Signed(sx, a) /\ w = Signed(sy, b) /\ a \in Nat /\ b \in Nat
      /\ q \in Nat /\ r \in Nat
  <2>1. x1.d \in Seq(Digit) /\ y1.d \in Seq(Digit)
    BY DEF IsOperand
  <2>2. a \in Nat /\ b \in Nat /\ q \in Nat /\ r \in Nat
    BY <2>1, AmountBounds
  <2> QED
    BY <2>2 DEF IsOperand
<1>2. a = q * b + r /\ r < b
  OBVIOUS
<1>3. o.q = Simplify(e, p.q) /\ o.r = Simplify(sx, p.r)
  BY DEF Simplified
<1> HIDE DEF o, sx, sy, a, b
<1>4. IsExactly(o.q, Signed(sx # sy, q))
  <2>1. e \in BOOLEAN
    OBVIOUS
  <2>2. o.q = Simplify(e, p.q)
    BY <1>3
  <2> HIDE DEF e
  <2>3. IsExactly(o.q, Signed(e, q))
    BY <2>1, <2>2, SimplifyExact
  <2> QED
    BY <2>3 DEF e
<1>5. IsExactly(o.r, Signed(sx, r))
  BY <1>1, <1>3, SimplifyExact
<1> HIDE DEF q, r
<1>6. Truncates(o, Signed(sx, a), Signed(sy, b))
  BY <1>1, <1>2, <1>4, <1>5, SignsOfQuotient
<1> QED
  BY <1>1, <1>6 DEF o, sx, sy

(* Numbers of the same magnitude.                                          *)
LEMMA SameMagnitude ==
  ASSUME NEW x1, NEW y1, NEW v, NEW w, IsOperand(x1, v), IsOperand(y1, w), x1.d = y1.d, Amount(y1.d) > 0,
         NEW p, p = [q |-> Fix(IF x1.neg # y1.neg THEN -1 ELSE 1), r |-> Zero]
  PROVE  Truncates(p, v, w)
<1> DEFINE sx == x1.neg  sy == y1.neg  e == sx # sy  b == Amount(y1.d)  one == 1  zero == 0
<1>1. sx \in BOOLEAN /\ sy \in BOOLEAN /\ v = Signed(sx, b) /\ w = Signed(sy, b) /\ b \in Nat
  BY AmountBounds DEF IsOperand
<1>2. one \in Nat /\ zero \in Nat /\ b = one * b + zero /\ zero < b
  BY <1>1
<1>3. p.q = Fix(IF e THEN -one ELSE one) /\ p.r = Zero
  OBVIOUS
<1> HIDE DEF b, sx, sy
<1>4. IsExactly(p.r, Signed(sx, zero))
  <2>1. zero \in Int /\ zero + zero = 0
    OBVIOUS
  <2>2. IsExactly(Zero, zero)
    BY ZeroIsExact
  <2> HIDE DEF zero
  <2>3. Signed(sx, zero) = zero
    BY <1>1, <2>1, SignedZero
  <2> QED
    BY <1>3, <2>2, <2>3
<1>5. IsExactly(p.q, Signed(sx # sy, one))
  <2>1. e \in BOOLEAN
    OBVIOUS
  <2>2. FitsFixnum(one)
    BY BaseFacts DEF FitsFixnum
  <2> HIDE DEF e, one
  <2>3. Fix(IF e THEN -one ELSE one) = Fix(Signed(e, one)) /\ IsExactly(Fix(Signed(e, one)), Signed(e, one))
    BY <1>2, <2>1, <2>2, NegatedWord
  <2>4. IsExactly(p.q, Signed(e, one))
    BY <1>3, <2>3
  <2> QED
    BY <2>4 DEF e
<1> HIDE DEF one, zero
<1>6. Truncates(p, Signed(sx, b), Signed(sy, b))
  BY <1>1, <1>2, <1>4, <1>5, SignsOfQuotient
<1> QED
  BY <1>1, <1>6

(* bignum_divrem                                                           *)
LEMMA BignumDivRemExact ==
  ASSUME NEW x1, NEW v, IsExactly(x1, v), ~IsFix(x1), NEW y1, NEW w, IsExactly(y1, w), w # 0, ~IsSmall(y1),
         NEW room1 \in Nat, NEW halve, room1 > 0 => Halving(halve)
  PROVE  Truncates(BignumDivRem(x1, FixToBig(y1), room1, halve), v, w)
<1> DEFINE b == FixToBig(y1)  d == x1.d  e == b.d  order == CmpDigits(d, e)  neg == x1.neg # b.neg
           parts == Size(b) > BurnikelZieglerThreshold
                    /\ Size(x1) - Size(b) > BurnikelZieglerThreshold /\ room1 > 0
           o == BignumDivRem(x1, b, room1, halve)
<1>1. /\ e \in Seq(Digit) /\ Normal(e) /\ Len(e) > 0 /\ Last(e) # 0 /\ w \in Int
      /\ Amount(e) = Magnitude(w)
  BY LongDivisor
<1>2. Len(e) = 1 => ~FitsHalf(e[1])
  BY LongDivisor
<1>3. IsOperand(b, w)
  BY FixToBigExact
<1>4. IsOperand(x1, v) /\ d \in Seq(Digit) /\ Normal(d) /\ v \in Int
  <2>1. /\ x1.neg \in BOOLEAN /\ x1.d \in Seq(Digit) /\ Normal(x1.d)
        /\ v = Signed(x1.neg, Amount(x1.d))
    BY ExactCases
  <2> QED
    BY <2>1, ExactInt DEF IsOperand
<1>5. IsOrder(order, d, e)
  BY <1>1, <1>4, CmpDigitsExact
<1>6. Amount(e) > 0 /\ Amount(d) = Magnitude(v)
  <2>1. Magnitude(w) > 0
    BY <1>1 DEF Magnitude
  <2> QED
    BY <1>1, <1>4, <2>1, OperandMagnitude
<1> HIDE DEF b, parts, order
<1>7. o = IF order = 0 THEN [q |-> Fix(IF neg THEN -1 ELSE 1), r |-> Zero]
          ELSE IF order = -1 THEN [q |-> Zero, r |-> x1]
          ELSE IF parts THEN DivideByParts(x1, b, halve)
          ELSE Simplified(DivideFull(d, e), neg, x1.neg)
  BY DEF BignumDivRem, order, parts
<1> HIDE DEF o
<1>8. CASE order = 0
  <2>1. x1.d = b.d /\ Amount(b.d) > 0
    BY <1>5, <1>6, <1>8 DEF IsOrder
  <2>2. o = [q |-> Fix(IF x1.neg # b.neg THEN -1 ELSE 1), r |-> Zero]
    BY <1>7, <1>8
  <2> QED
    BY <1>3, <1>4, <2>1, <2>2, SameMagnitude DEF o, b
<1>9. CASE order = -1
  <2>1. o = [q |-> Zero, r |-> x1]
    BY <1>7, <1>9
  <2>2. Magnitude(v) < Magnitude(w)
    BY <1>1, <1>5, <1>6, <1>9 DEF IsOrder
  <2> QED
    BY <1>1, <2>1, <2>2, NothingToDivide DEF o, b
<1>10. CASE order = 1 /\ parts
  <2>1. o = DivideByParts(x1, b, halve)
    BY <1>7, <1>10
  <2>2. Size(FixToBig(y1)) >= 2
    <3>1. Size(b) \in Nat /\ Size(b) = Size(FixToBig(y1))
      BY <1>1 DEF Size, b
    <3>2. BurnikelZieglerThreshold \in Nat \ {0} /\ Size(b) > BurnikelZieglerThreshold
      BY <1>10, BurnikelZieglerAssumption DEF parts
    <3> QED
      BY <3>1, <3>2
  <2>3. ~IsFix(y1) /\ b = y1
    BY <2>2, LongIsBig DEF b
  <2>4. Halving(halve)
    BY <1>10 DEF parts
  <2>5. Truncates(DivideByParts(x1, y1, halve), v, w)
    BY <2>3, <2>4, DivideByPartsExact
  <2> QED
    BY <2>1, <2>3, <2>5 DEF o, b
<1>11. CASE order = 1 /\ ~parts
  <2> DEFINE p == DivideFull(d, e)
  <2>1. o = Simplified(p, x1.neg # b.neg, x1.neg)
    BY <1>7, <1>11
  <2>2. Len(e) <= Len(d)
    BY <1>5, <1>11 DEF IsOrder
  <2>3. /\ p.q \in Seq(Digit) /\ p.r \in Seq(Digit)
        /\ Amount(d) = Amount(p.q) * Amount(e) + Amount(p.r)
        /\ Amount(p.r) < Amount(e)
    BY <1>1, <1>2, <1>4, <2>2, DivideFullExact
  <2> HIDE DEF p
  <2>4. Truncates(Simplified(p, x1.neg # b.neg, x1.neg), v, w)
    BY <1>3, <1>4, <2>3, SimplifiedExact
  <2> QED
    BY <2>1, <2>4 DEF o, b
<1> QED
  BY <1>5, <1>8, <1>9, <1>10, <1>11 DEF IsOrder

(* integer_divrem, when what divides in halves does                        *)
LEMMA DivRemWithin ==
  ASSUME NEW x1, NEW v, IsExactly(x1, v), NEW y1, NEW w, IsExactly(y1, w), w # 0,
         NEW room1 \in Nat, NEW halve, room1 > 0 => Halving(halve)
  PROVE  Truncates(DivRem(x1, y1, room1, halve), v, w)
<1> DEFINE o == DivRem(x1, y1, room1, halve)  one == 1
<1>0. v \in Int /\ w \in Int
  BY ExactInt
<1>1. CASE IsFix(x1) /\ IsFix(y1)
  <2>1. FitsFixnum(v) /\ FitsFixnum(w) /\ x1.n = v /\ y1.n = w
    BY <1>1, ExactCases
  <2>2. o = [q |-> FromWord(Truncated(v, w)), r |-> Fix(v - Truncated(v, w) * w)]
    BY <1>1, <2>1 DEF DivRem
  <2> HIDE DEF o
  <2> QED
    BY <1>0, <2>1, <2>2, FixnumDivRem DEF o
<1>2. CASE IsFix(x1) /\ ~IsFix(y1)
  <2>1. FitsFixnum(v) /\ x1.n = v /\ x1 = Fix(v)
    BY <1>2, ExactCases
  <2>2. o = IF v = MostNegative /\ y1 = FromWord(-MostNegative)
            THEN [q |-> Fix(-1), r |-> Zero] ELSE [q |-> Zero, r |-> Fix(v)]
    BY <1>2, <2>1 DEF DivRem
  <2> HIDE DEF o
  <2> QED
    BY <1>0, <1>2, <2>1, <2>2, FixnumByBignum DEF o
<1>3. CASE ~IsFix(x1) /\ y1 = One
  <2>1. o = [q |-> x1, r |-> Zero]
    BY <1>3 DEF DivRem, One, Fix, IsFix
  <2> HIDE DEF o
  <2>2. w = 1
    BY <1>3, ExactCases DEF One, Fix, IsFix
  <2>3. v = v * w /\ IsExactly(o.q, v) /\ o.r = Zero
    BY <1>0, <2>1, <2>2
  <2> QED
    BY <1>0, <2>3, DividesEvenly DEF o
<1>4. CASE ~IsFix(x1) /\ y1 = Fix(-1) /\ y1 # One
  <2>1. o = [q |-> IntegerNegate(x1), r |-> Zero]
    BY <1>4 DEF DivRem, Fix, IsFix
  <2> HIDE DEF o
  <2>2. w = -1
    BY <1>4, ExactCases DEF Fix, IsFix
  <2>3. IsExactly(o.q, -v) /\ o.r = Zero
    BY <2>1, NegateExact
  <2> DEFINE k == -v
  <2>4. k \in Int /\ v = k * w
    BY <1>0, <2>2
  <2> HIDE DEF k
  <2>5. IsExactly(o.q, k)
    BY <2>3 DEF k
  <2> QED
    BY <1>0, <2>3, <2>4, <2>5, DividesEvenly DEF o
<1>5. CASE ~IsFix(x1) /\ y1 # One /\ y1 # Fix(-1) /\ IsSmall(y1)
  <2>1. IsFix(y1) /\ y1.n = w /\ FitsFixnum(w) /\ Small(Magnitude(w))
    BY <1>5, ExactCases DEF IsSmall
  <2>2. o = DivideSmall(x1, w)
    BY <1>5, <2>1 DEF DivRem
  <2> HIDE DEF o
  <2>3. Truncates(DivideSmall(x1, w), v, w)
    BY <1>0, <1>5, <2>1, DivideSmallExact
  <2> QED
    BY <2>2, <2>3 DEF o
<1>6. CASE ~IsFix(x1) /\ y1 # One /\ y1 # Fix(-1) /\ ~IsSmall(y1)
  <2>1. o = BignumDivRem(x1, FixToBig(y1), room1, halve)
    BY <1>6 DEF DivRem
  <2> HIDE DEF o
  <2>2. Truncates(BignumDivRem(x1, FixToBig(y1), room1, halve), v, w)
    BY <1>6, BignumDivRemExact
  <2> QED
    BY <2>1, <2>2 DEF o
<1> QED
  BY <1>1, <1>2, <1>3, <1>4, <1>5, <1>6

(* A truncated quotient of natural numbers.                                *)
LEMMA TruncatesNatural ==
  ASSUME NEW p, NEW v \in Nat, NEW w \in Nat, w > 0, Truncates(p, v, w) PROVE Leaves(p, v, w)
<1>1. PICK q \in Int, r \in Int :
        /\ IsExactly(p.q, q) /\ IsExactly(p.r, r)
        /\ v = q * w + r /\ Magnitude(r) < Magnitude(w) /\ (r = 0 \/ (r < 0 <=> v < 0))
  BY DEF Truncates
<1> DEFINE c == q * w
<1>2. r \in Nat /\ r < w /\ c \in Int /\ v = c + r
  <2>1. r >= 0
    BY <1>1
  <2>2. r < w
    BY <1>1, <2>1 DEF Magnitude
  <2>3. c \in Int /\ v = c + r
    BY <1>1
  <2> QED
    BY <2>1, <2>2, <2>3
<1>3. q >= 0
  <2> SUFFICES ASSUME q <= -1 PROVE FALSE
    BY <1>1
  <2>1. q * w <= ((-1) * w) /\ ((-1) * w) = -w
    BY <1>1, Monotone
  <2> HIDE DEF c
  <2>2. c <= -w
    BY <2>1 DEF c
  <2> QED
    BY <1>2, <2>2
<1>4. q \in Nat
  BY <1>1, <1>3
<1> QED
  BY <1>1, <1>2, <1>4 DEF Leaves

(* burnikel_ziegler_2n_div_1n, with whatever divides numbers of half as    *)
(* many digits                                                             *)
LEMMA HalvedExact ==
  ASSUME NEW x1, NEW y1, NEW n, NEW v, NEW w, IsHalf(x1, y1, n, v, w),
         NEW room1 \in Nat, NEW halve, room1 > 0 => Halving(halve)
  PROVE  Leaves(Divide2nBy1n(x1, y1, n, room1, halve), v, w)
<1> DEFINE direct == room1 = 0 \/ n % 2 = 1 \/ n < BurnikelZieglerThreshold  h == n \div 2  next == room1 - 1
<1>1. /\ n \in Nat /\ IsExactly(x1, v) /\ IsExactly(y1, w) /\ v \in Nat /\ w \in Nat
      /\ Power(Base, n) <= 2 * w
  BY DEF IsHalf
<1>2. w > 0
  <2>1. Power(Base, n) >= 1 /\ Power(Base, n) \in Nat
    BY <1>1, PositivePowers
  <2> QED
    BY <1>1, <2>1
<1>3. CASE direct
  <2>1. Divide2nBy1n(x1, y1, n, room1, halve) = DivRem(x1, y1, room1, halve)
    BY <1>3 DEF Divide2nBy1n
  <2>2. w # 0
    BY <1>2
  <2>3. Truncates(DivRem(x1, y1, room1, halve), v, w)
    BY <1>1, <2>2, DivRemWithin
  <2> QED
    BY <1>1, <1>2, <2>1, <2>3, TruncatesNatural
<1>4. CASE ~direct
  <2>1. Divide2nBy1n(x1, y1, n, room1, halve) = InHalves(x1, y1, h, next, halve)
    BY <1>4 DEF Divide2nBy1n
  <2>2. room1 > 0 /\ next \in Nat /\ n % 2 # 1
    BY <1>4
  <2>3. h \in Nat /\ n = h + h
    BY <1>1, <2>2
  <2>4. Halving(halve)
    BY <2>2
  <2> HIDE DEF h, next
  <2>5. Leaves(InHalves(x1, y1, h, next, halve), v, w)
    BY <2>2, <2>3, <2>4, InHalvesExact
  <2> QED
    BY <2>1, <2>5
<1> QED
  BY <1>3, <1>4

(* What Halvings(room) computes for one room from what it computes for the *)
(* room before.                                                            *)
HalvingTable(room1, halve) ==
  [p \in ExactInteger \X ExactInteger \X Nat |-> Divide2nBy1n(p[1], p[2], p[3], room1, halve)]
HalvingTables(f, n) ==
  f = [r \in 0 .. n |-> HalvingTable(r, IF r = 0 THEN <<>> ELSE f[r - 1])]

LEMMA HalvingTablesExist ==
  ASSUME NEW n \in Nat PROVE \E f : HalvingTables(f, n)
<1> DEFINE none == <<>>  T == {k \in 0 .. n : \E f : HalvingTables(f, k)}
<1>1. 0 \in T
  <2> DEFINE f0 == [r \in 0 .. 0 |-> HalvingTable(r, none)]
  <2>1. f0 = [r \in 0 .. 0 |-> HalvingTable(r, IF r = 0 THEN none ELSE f0[r - 1])]
    OBVIOUS
  <2> HIDE DEF f0
  <2>2. HalvingTables(f0, 0)
    BY <2>1 DEF HalvingTables
  <2> QED
    BY <2>2
<1>2. ASSUME NEW k \in 0 .. n - 1, k \in T PROVE k + 1 \in T
  <2>1. PICK f : HalvingTables(f, k)
    BY <1>2
  <2> HIDE DEF none
  <2> DEFINE g == [i \in 0 .. k + 1 |-> IF i <= k THEN f[i] ELSE HalvingTable(k + 1, f[k])]
             h == [r \in 0 .. k + 1 |-> HalvingTable(r, IF r = 0 THEN none ELSE g[r - 1])]
  <2>2. ASSUME NEW r \in 0 .. k PROVE f[r] = HalvingTable(r, IF r = 0 THEN none ELSE f[r - 1])
    BY <2>1 DEF HalvingTables, none
  <2>3. \A i \in 0 .. k : g[i] = f[i]
    OBVIOUS
  <2>4. g[k + 1] = HalvingTable(k + 1, f[k])
    OBVIOUS
  <2>5. DOMAIN g = 0 .. k + 1 /\ g = [i \in 0 .. k + 1 |-> g[i]]
    OBVIOUS
  <2> HIDE DEF g
  <2>6. ASSUME NEW r \in 0 .. k + 1 PROVE g[r] = HalvingTable(r, IF r = 0 THEN none ELSE g[r - 1])
    <3>1. CASE r = 0
      BY <2>2, <2>3, <3>1
    <3>2. CASE r \in 1 .. k
      <4>1. g[r] = f[r] /\ g[r - 1] = f[r - 1] /\ r # 0
        BY <2>3, <3>2
      <4>2. f[r] = HalvingTable(r, f[r - 1])
        BY <2>2, <3>2
      <4> QED
        BY <4>1, <4>2
    <3>3. CASE r = k + 1
      <4>1. g[r - 1] = f[k] /\ r # 0
        BY <2>3, <3>3
      <4> QED
        BY <2>4, <3>3, <4>1
    <3> QED
      BY <3>1, <3>2, <3>3
  <2>7. g = h
    BY <2>5, <2>6
  <2>8. HalvingTables(g, k + 1)
    BY <2>7 DEF HalvingTables, none
  <2> QED
    BY <2>8
<1> HIDE DEF T
<1>3. n \in T
  <2>1. \A i \in 0 .. n : i \in T
    BY <1>1, <1>2, Induction
  <2> QED
    BY <2>1
<1> QED
  BY <1>3 DEF T

LEMMA TableHalves ==
  ASSUME NEW room1 \in Nat, NEW halve, room1 > 0 => Halving(halve)
  PROVE  Halving(HalvingTable(room1, halve))
<1> DEFINE t == HalvingTable(room1, halve)
<1>1. ASSUME NEW a, NEW b, NEW n, NEW v, NEW w, IsHalf(a, b, n, v, w)
      PROVE  Leaves(t[<<a, b, n>>], v, w)
  <2>1. t[<<a, b, n>>] = Divide2nBy1n(a, b, n, room1, halve)
    <3> DEFINE p == <<a, b, n>>
    <3>1. a \in ExactInteger /\ b \in ExactInteger /\ n \in Nat
      BY <1>1 DEF IsHalf, IsExactly
    <3>2. p \in ExactInteger \X ExactInteger \X Nat /\ p[1] = a /\ p[2] = b /\ p[3] = n
      BY <3>1
    <3> HIDE DEF p
    <3>3. t[p] = Divide2nBy1n(p[1], p[2], p[3], room1, halve)
      BY <3>2 DEF HalvingTable
    <3> QED
      BY <3>2, <3>3 DEF p
  <2>2. Leaves(Divide2nBy1n(a, b, n, room1, halve), v, w)
    BY <1>1, HalvedExact
  <2> QED
    BY <2>1, <2>2
<1> HIDE DEF t
<1>2. Halving(t)
  BY <1>1 DEF Halving
<1> QED
  BY <1>2 DEF t

LEMMA HalvingsHalve ==
  ASSUME NEW room1 \in Nat PROVE Halving(Halvings(room1))
<1> DEFINE q == CHOOSE f : HalvingTables(f, room1)  T == {i \in 0 .. room1 : Halving(q[i])}
<1>1. Halvings(room1) = q[room1]
  BY DEF Halvings, HalvingTables, HalvingTable
<1>2. HalvingTables(q, room1)
  BY HalvingTablesExist
<1> HIDE DEF q
<1>3. ASSUME NEW r \in 0 .. room1 PROVE q[r] = HalvingTable(r, IF r = 0 THEN <<>> ELSE q[r - 1])
  BY <1>2 DEF HalvingTables
<1>4. 0 \in T
  <2> DEFINE none == <<>>
  <2>1. q[0] = HalvingTable(0, none)
    BY <1>3
  <2> HIDE DEF none
  <2>2. 0 \in Nat /\ ~(0 > 0)
    OBVIOUS
  <2>3. Halving(HalvingTable(0, none))
    BY <2>2, TableHalves
  <2> QED
    BY <2>1, <2>3
<1>5. ASSUME NEW k \in 0 .. room1 - 1, k \in T PROVE k + 1 \in T
  <2> DEFINE r == k + 1
  <2>1. r \in 0 .. room1 /\ r \in Nat /\ r # 0 /\ r - 1 = k
    OBVIOUS
  <2> HIDE DEF r
  <2>2. q[r] = HalvingTable(r, q[k])
    BY <1>3, <2>1
  <2>3. Halving(q[k])
    BY <1>5
  <2>4. Halving(HalvingTable(r, q[k]))
    BY <2>1, <2>3, TableHalves
  <2>5. r \in T
    BY <2>1, <2>2, <2>4
  <2> QED
    BY <2>5 DEF r
<1> HIDE DEF T
<1>6. room1 \in T
  <2>1. \A i \in 0 .. room1 : i \in T
    BY <1>4, <1>5, Induction
  <2> QED
    BY <2>1
<1> QED
  BY <1>1, <1>6 DEF T

(* integer_divrem divides, truncated, by whatever method and with whatever *)
(* room on the C stack: C_s_a_u_i_integer_quotient.                        *)
THEOREM DivRemExact ==
  ASSUME NEW x1, NEW v, IsExactly(x1, v), NEW y1, NEW w, IsExactly(y1, w), w # 0, NEW room1 \in Nat
  PROVE  Truncates(IntegerDivRem(x1, y1, room1), v, w)
<1> DEFINE none == <<>>  halve == IF room1 = 0 THEN none ELSE Halvings(room1 - 1)
<1>1. IntegerDivRem(x1, y1, room1) = DivRem(x1, y1, room1, halve)
  BY DEF IntegerDivRem
<1>2. ASSUME room1 > 0 PROVE Halving(halve)
  <2> DEFINE k == room1 - 1
  <2>1. k \in Nat /\ room1 # 0
    BY <1>2
  <2> HIDE DEF k
  <2>2. Halving(Halvings(k))
    BY <2>1, HalvingsHalve
  <2> QED
    BY <2>1, <2>2 DEF k
<1> HIDE DEF halve
<1>3. Truncates(DivRem(x1, y1, room1, halve), v, w)
  BY <1>2, DivRemWithin
<1> QED
  BY <1>1, <1>3

(* A remainder that is carried from half digit to half digit is the one of *)
(* the division.                                                           *)
RemainderStep(m) ==
  [d \in Digit |-> [k \in HalfDigit |-> <<0, Combine(Combine(k, Hi(d)) % m, Lo(d)) % m>>]]

LEMMA RemainderStepParts ==
  ASSUME NEW m \in HalfDigit, m > 0, NEW x1 \in Digit, NEW k \in 0 .. m - 1
  PROVE  RemainderStep(m)[x1][k][1] = 0 /\ RemainderStep(m)[x1][k][2] = DownStep(m)[x1][k][2]
<1>1. k \in HalfDigit
  BY HalfFacts DEF HalfDigit
<1> QED
  BY <1>1 DEF RemainderStep, DownStep

LEMMA SameCarries ==
  ASSUME NEW d \in Seq(Digit), NEW m \in HalfDigit, m > 0
  PROVE  Downward(RemainderStep(m), 0, d)[2] = ScaleDown(d, m)[2]
<1> DEFINE s == RemainderStep(m)  t == DownStep(m)  C == 0 .. m - 1  n == Len(d)  E == {0}
           u == Downward(s, 0, d)  v == Downward(t, 0, d)
<1>1. m \in Int /\ 0 \in C /\ n \in Nat /\ \A i \in 1 .. n : d[i] \in Digit
  BY HalfFacts
<1>2. \A x1 \in Digit, c \in C : t[x1][c][1] \in Digit /\ t[x1][c][2] \in C
  BY DownStepParts DEF Divides
<1>3. \A x1 \in Digit, c \in C : s[x1][c][1] \in E /\ s[x1][c][2] \in C
  <2> SUFFICES ASSUME NEW x1 \in Digit, NEW c \in C PROVE s[x1][c][1] \in E /\ s[x1][c][2] \in C
    OBVIOUS
  <2>1. s[x1][c][1] = 0 /\ s[x1][c][2] = t[x1][c][2]
    BY RemainderStepParts
  <2> HIDE DEF s, t, C
  <2> QED
    BY <1>2, <2>1
<1>4. \A x1 \in Digit, c \in C : s[x1][c][2] = t[x1][c][2]
  BY RemainderStepParts
<1> HIDE DEF s, t, C, E
<1>5. LoopsDown(Downward(s, 0, d), s, 0, d, E, C)
  BY <1>1, <1>3, DownwardIsLoop
<1>6. LoopsDown(Downward(t, 0, d), t, 0, d, Digit, C)
  BY <1>1, <1>2, DownwardIsLoop
<1>7. PICK c : IsLoopDown(u[1], c, s, 0, d, E, C) /\ u[2] = c[0]
  BY <1>5 DEF LoopsDown
<1>8. PICK e : IsLoopDown(v[1], e, t, 0, d, Digit, C) /\ v[2] = e[0]
  BY <1>6 DEF LoopsDown
<1>9. /\ \A i \in 0 .. n : c[i] \in C /\ e[i] \in C
      /\ c[n] = 0 /\ e[n] = 0
      /\ \A i \in 1 .. n : c[i - 1] = s[d[i]][c[i]][2] /\ e[i - 1] = t[d[i]][e[i]][2]
  BY <1>7, <1>8 DEF IsLoopDown
<1> DEFINE T == {i \in 0 .. n : c[n - i] = e[n - i]}
<1> HIDE DEF n
<1>10. 0 \in T
  <2>1. n - 0 = n /\ 0 \in 0 .. n
    BY <1>1
  <2> QED
    BY <1>9, <2>1
<1>11. ASSUME NEW i \in 0 .. n - 1, i \in T PROVE i + 1 \in T
  <2> DEFINE j == n - i
  <2>1. j \in 1 .. n /\ j \in 0 .. n /\ n - (i + 1) = j - 1 /\ i + 1 \in 0 .. n /\ c[j] = e[j]
    BY <1>1, <1>11
  <2> HIDE DEF j
  <2>2. c[j - 1] = s[d[j]][c[j]][2] /\ e[j - 1] = t[d[j]][c[j]][2]
    BY <1>9, <2>1
  <2>3. d[j] \in Digit /\ c[j] \in C
    BY <1>1, <1>9, <2>1
  <2>4. c[j - 1] = e[j - 1]
    BY <1>4, <2>2, <2>3
  <2> QED
    BY <2>1, <2>4
<1>12. c[0] = e[0]
  <2> HIDE DEF T
  <2>1. \A i \in 0 .. n : i \in T
    BY <1>1, <1>10, <1>11, Induction
  <2>2. n \in T /\ n - n = 0
    BY <1>1, <2>1
  <2> QED
    BY <2>2 DEF T
<1> QED
  BY <1>7, <1>8, <1>12 DEF ScaleDown, DownStep, s, t, u, v

(* The remainder of a power of two is that of the last digit.              *)
LEMMA LastDigitDecides ==
  ASSUME NEW d \in Seq(Digit), Len(d) > 0, NEW j \in 0 .. DigitBits, NEW m, m = Power(2, j)
  PROVE  Amount(d) % m = d[1] % m
<1> DEFINE k == DigitBits - j  K == Power(2, k)  n == Len(d) - 1  e == [i \in 1 .. n |-> d[1 + i]]
           a == Amount(d)  f == d[1]  E == DigitsValue(Base, e, n)  q == f \div m  r == f % m
<1>1. DigitBits \in Nat /\ j \in Nat /\ k \in Nat /\ j + k = DigitBits /\ n \in Nat
      /\ 1 + n = Len(d) /\ Base \in Int
  BY BaseFacts
<1>2. m \in Int /\ m > 0 /\ K \in Int /\ Base = m * K
  <2> HIDE DEF k
  <2>1. Power(2, j + k) = Power(2, j) * Power(2, k)
    BY <1>1, PowerSum
  <2>2. Power(2, DigitBits) = Base
    BY BaseFacts
  <2>3. m \in Nat /\ m >= 1 /\ K \in Nat
    BY <1>1, PositivePowers
  <2> QED
    BY <1>1, <2>1, <2>2, <2>3
<1>3. \A i \in 1 .. 1 + n : d[i] \in Int
  BY <1>1, DigitSequence
<1>4. \A i \in 1 .. n : e[i] = d[1 + i] /\ e[i] \in Int
  BY <1>1, <1>3
<1>5. f \in Int
  BY <1>1, <1>3
<1> HIDE DEF e, n, K, k
<1>6. a = f + Base * E /\ E \in Int
  <2> DEFINE one == 1
  <2>1. one \in Nat /\ \A i \in 1 .. one + n : d[i] \in Int
    BY <1>3
  <2>2. \A i \in 1 .. n : e[i] = d[one + i]
    BY <1>4
  <2> HIDE DEF one
  <2>3. DigitsValue(Base, d, one + n) = DigitsValue(Base, d, one) + Power(Base, one) * DigitsValue(Base, e, n)
    <3>1. Splits(Base, d, e, one, n)
      BY <1>1, <2>1, <2>2, ValueSplits
    <3> QED
      BY <3>1 DEF Splits
  <2>4. Power(Base, one) = Base /\ DigitsValue(Base, d, one) = f
    <3> DEFINE zero == 0  P == Power(Base, zero)  D == DigitsValue(Base, d, zero)
    <3>1. one = zero + 1 /\ zero \in Nat
      BY DEF one
    <3>2. \A i \in 1 .. zero + 1 : d[i] \in Int
      BY <1>1, <1>3
    <3>3. d[zero + 1] = f
      OBVIOUS
    <3>4. P = 1
      BY <1>1, PowerZero
    <3>5. D = 0
      BY <1>1, NoDigits
    <3> HIDE DEF zero, f
    <3>6. Power(Base, zero + 1) = Base * P
      BY <1>1, <3>1, PowerNext
    <3>7. DigitsValue(Base, d, zero + 1) = D + d[zero + 1] * P
      BY <1>1, <3>1, <3>2, OneMoreDigit
    <3> HIDE DEF P, D
    <3>8. Power(Base, one) = Base * P /\ DigitsValue(Base, d, one) = D + f * P
      BY <3>1, <3>3, <3>6, <3>7
    <3> QED
      BY <1>1, <1>5, <3>4, <3>5, <3>8
  <2>5. E \in Int
    BY <1>1, <1>4, ValueInt
  <2> HIDE DEF E, f
  <2>6. a = f + Base * E
    BY <1>1, <2>3, <2>4 DEF Amount, one, E
  <2> QED
    BY <2>5, <2>6
<1> HIDE DEF a, f, E
<1>7. q \in Int /\ r \in 0 .. m - 1 /\ f = m * q + r
  BY <1>2, <1>5, DivMod
<1> HIDE DEF q, r
<1> DEFINE g == q + K * E
<1>8. g \in Int /\ a = m * g + r /\ a \in Int
  <2> DEFINE D == K * E
  <2>1. D \in Int /\ m * (K * E) = (m * K) * E
    BY <1>2, <1>6, Distribute
  <2>2. m * D = Base * E
    BY <1>2, <2>1
  <2> HIDE DEF D
  <2>3. m * (q + D) = m * q + m * D
    BY <1>2, <1>7, <2>1, Distribute
  <2>4. a = m * (q + D) + r
    <3> DEFINE u == m * q  z == Base * E
    <3>1. u \in Int /\ z \in Int /\ a = f + z /\ f = u + r
      <4>1. u \in Int
        BY <1>2, <1>7
      <4>2. z \in Int /\ a = f + z
        BY <1>1, <1>6
      <4> QED
        BY <1>7, <4>1, <4>2
    <3>4. r \in Int
      BY <1>2, <1>7
    <3>2. m * (q + D) = u + z
      BY <2>2, <2>3
    <3> HIDE DEF u, z
    <3>3. a = (u + z) + r
      BY <3>1, <3>4
    <3> QED
      BY <3>2, <3>3
  <2>5. q + D \in Int /\ a \in Int
    <3> DEFINE z == Base * E
    <3>1. z \in Int /\ a = f + z
      BY <1>1, <1>6
    <3> HIDE DEF z
    <3> QED
      BY <1>5, <1>7, <2>1, <3>1
  <2> QED
    BY <2>4, <2>5 DEF D
<1> HIDE DEF g
<1>9. a % m = r
  <2>1. m \in Int /\ m > 0 /\ g \in Int /\ r \in 0 .. m - 1 /\ a \in Int /\ a = m * g + r
    BY <1>2, <1>7, <1>8
  <2> DEFINE mm == m
  <2>3. mm = m
    OBVIOUS
  <2> HIDE DEF mm
  <2>4. mm \in Int /\ mm > 0 /\ g \in Int /\ r \in 0 .. mm - 1 /\ a \in Int /\ a = mm * g + r
    BY <2>1, <2>3
  <2>5. a \div mm = g /\ a % mm = r
    BY <2>4, DivUnique
  <2>2. a \div m = g /\ a % m = r
    BY <2>3, <2>5
  <2> QED
    BY <2>2
<1> QED
  BY <1>9 DEF a, r, f

(* The remainder without a quotient, by one fixnum.                        *)
LEMMA SmallRemainders ==
  ASSUME NEW x1, NEW v, IsExactly(x1, v), ~IsFix(x1),
         NEW y1 \in Int, FitsFixnum(y1), y1 # 0, Small(Magnitude(y1))
  PROVE  RemainderSmall(x1, y1) = DivideSmall(x1, y1).r
<1> DEFINE m == Magnitude(y1)  d == x1.d  neg == x1.neg  s == Ilen(m) - 1  a == Amount(d)
           o == IF PowerOfTwo(m) THEN ShiftRight(d, s, FALSE) ELSE ScaleDown(d, m)
           t == IF PowerOfTwo(m) THEN d[1] % m ELSE Downward(RemainderStep(m), 0, d)[2]
<1>1. d \in Seq(Digit) /\ Len(d) > 0
  BY ExactCases
<1>2. m \in Digit /\ m \in Int
  BY FixnumIsDigit
<1>3. m > 0
  BY DEF Magnitude
<1>4. DivideSmall(x1, y1).r = Fix(IF neg THEN -(o[2]) ELSE o[2])
  BY DEF DivideSmall, SmallQuotient
<1>5. RemainderSmall(x1, y1) = Fix(IF neg THEN -t ELSE t)
  BY DEF RemainderSmall, RemainderStep
<1>6. t = o[2]
  <2>1. CASE PowerOfTwo(m)
    <3>1. s \in 0 .. DigitBits - 1 /\ Power(2, s) = m
      BY <1>2, <2>1, ExponentOfPower
    <3>2. s \in 0 .. DigitBits
      BY <3>1, BaseFacts
    <3>3. o = ShiftRight(d, s, FALSE) /\ t = d[1] % m
      BY <2>1
    <3> HIDE DEF s, o, m, d, t
    <3>4. IsQuotient(ShiftRight(d, s, FALSE), d, Power(2, s), IF FALSE THEN Power(2, s) - 1 ELSE 0)
      BY <1>1, <3>2, ShiftRightExact
    <3>5. IsQuotient(o, d, m, 0)
      BY <3>1, <3>3, <3>4
    <3> DEFINE q == Amount(o[1])  r == o[2]  P == Power(Base, Len(d))
    <3>6. o[1] \in Seq(Digit) /\ r \in 0 .. m - 1 /\ m * q + r = a + 0 * P
      BY <3>5 DEF IsQuotient
    <3>7. q \in Int /\ a \in Int /\ P \in Int
      BY <1>1, <3>6, AmountBounds
    <3> HIDE DEF q, r, a, P
    <3>8. a = m * q + r
      BY <3>6, <3>7
    <3>9. a % m = r
      BY <1>2, <1>3, <3>6, <3>7, <3>8, DivUnique
    <3>10. Amount(d) % m = d[1] % m
      BY <1>1, <3>1, <3>2, LastDigitDecides
    <3> QED
      BY <3>3, <3>9, <3>10 DEF r, a
  <2>2. CASE ~PowerOfTwo(m)
    <3>1. FitsHalf(m)
      BY <2>2 DEF Small
    <3>2. m \in HalfDigit
      BY <1>2, <3>1, HalfMeansLow
    <3>3. o = ScaleDown(d, m) /\ t = Downward(RemainderStep(m), 0, d)[2]
      BY <2>2
    <3> HIDE DEF o, m, d, t
    <3> QED
      BY <1>1, <1>3, <3>2, <3>3, SameCarries
  <2> QED
    BY <2>1, <2>2
<1> HIDE DEF o, t, neg, m, d, s, a
<1> QED
  BY <1>4, <1>5, <1>6

(* integer_divrem without a quotient has the remainder of integer_divrem   *)
(* with both: C_s_a_u_i_integer_remainder.                                 *)
THEOREM RemaindersAgree ==
  ASSUME NEW x1, NEW v, IsExactly(x1, v), NEW y1, NEW w, IsExactly(y1, w), w # 0, NEW room1 \in Nat
  PROVE  IntegerRemainder(x1, y1, room1) = IntegerDivRem(x1, y1, room1).r
<1> DEFINE small == ~IsFix(x1) /\ IsSmall(y1) /\ Magnitude(y1.n) # 1
<1>1. CASE small
  <2>1. IsFix(y1) /\ y1.n = w /\ w \in Int /\ FitsFixnum(w) /\ y1 = Fix(w) /\ Small(Magnitude(w))
        /\ Magnitude(w) # 1 /\ ~IsFix(x1)
    BY <1>1, ExactCases DEF IsSmall
  <2>2. y1 # One /\ y1 # Fix(-1)
    <3>1. w # 1 /\ w # -1
      BY <2>1 DEF Magnitude
    <3> QED
      BY <2>1, <3>1 DEF One, Fix
  <2>3. IntegerDivRem(x1, y1, room1) = DivideSmall(x1, w)
    BY <1>1, <2>1, <2>2 DEF IntegerDivRem, DivRem
  <2>4. IntegerRemainder(x1, y1, room1) = RemainderSmall(x1, w)
    BY <1>1, <2>1 DEF IntegerRemainder
  <2>5. RemainderSmall(x1, w) = DivideSmall(x1, w).r
    BY <2>1, SmallRemainders
  <2> QED
    BY <2>3, <2>4, <2>5
<1>2. CASE ~small
  BY <1>2 DEF IntegerRemainder
<1> QED
  BY <1>1, <1>2

-----------------------------------------------------------------------------
(* The calculations.                                                       *)

LEMMA StoredIsExact ==
  ASSUME NEW s, s \in ExactInteger, IntegerStored(s)
  PROVE  IsExactly(s, Value(s))
BY DEF IsExactly

LEMMA OperandsAreExact ==
  ASSUME NEW b \in Integers PROVE IsExactly(x, Value(x)) /\ IsExactly(b, Value(b))
<1>1. PICK F \in IntegerFamilies : x \in F /\ b \in F
  BY DEF Integers, Others
<1>2. x \in ExactInteger /\ IntegerStored(x) /\ b \in ExactInteger /\ IntegerStored(b)
  BY <1>1, IntegersAssumption
<1> QED
  BY <1>2, StoredIsExact

(* What IsSum says when the sum is exact, of integers of any length.       *)
LEMMA SumHolds ==
  ASSUME NEW s, NEW a, NEW b, NEW u, NEW v, NEW w,
         IsExactly(s, u), IsExactly(a, v), IsExactly(b, w), u = v + w
  PROVE  IsSum(s, a, b)
<1>1. u \in Int /\ v \in Int /\ w \in Int /\ u - w = v
  BY ExactInt
<1>2. Value(s) = Value(a) + Value(b)
  BY DEF IsExactly
<1>3. IntegerMinus(s, b) = a
  <2>1. IsExactly(IntegerMinus(s, b), u - w)
    BY MinusExact
  <2> QED
    BY <1>1, <2>1, OneForm
<1> QED
  BY <1>2, <1>3 DEF IsSum

LEMMA SumStepExact ==
  ASSUME IntegerSum PROVE SumsExact'
<1>1. PICK b \in Integers :
        Call("sum", b, 0, [plus |-> IntegerPlus(x, b), minus |-> IntegerMinus(x, b),
                           negated |-> IntegerNegate(x), order |-> IntegerCmp(x, b)])
  BY DEF IntegerSum
<1>2. /\ op' = "sum" /\ y' = b /\ x' = x
      /\ result' = [plus |-> IntegerPlus(x, b), minus |-> IntegerMinus(x, b),
                    negated |-> IntegerNegate(x), order |-> IntegerCmp(x, b)]
  BY <1>1 DEF Call
<1> DEFINE p == IntegerPlus(x, b)
           m == IntegerMinus(x, b)
           n == IntegerNegate(x)
           o == IntegerCmp(x, b)
           v == Value(x)
           w == Value(b)
<1>3. result'.plus = p /\ result'.minus = m /\ result'.negated = n /\ result'.order = o
  BY <1>2
<1>4. IsExactly(x, v) /\ IsExactly(b, w)
  BY <1>1, OperandsAreExact
<1> HIDE DEF v, w
<1>5. IsExactly(p, v + w) /\ IsExactly(m, v - w) /\ IsExactly(n, -v) /\ Compares(o, v, w)
  BY <1>4, PlusExact, MinusExact, NegateExact, CmpExact
<1>6. v \in Int /\ w \in Int
  BY <1>4, ExactInt
<1> HIDE DEF p, m, n, o
<1>7. IntegerStored(p) /\ IntegerStored(m) /\ IntegerStored(n)
  BY <1>5 DEF IsExactly
<1>8. IsSum(p, x, b)
  BY <1>4, <1>5, SumHolds
<1>9. IsSum(x, m, b)
  <2>1. v = (v - w) + w
    BY <1>6
  <2> QED
    BY <1>4, <1>5, <2>1, SumHolds
<1>10. IsSum(Zero, n, x)
  <2>1. 0 = -v + v
    BY <1>6
  <2> QED
    BY <1>4, <1>5, <2>1, ZeroIsExact, SumHolds
<1>11. o = IF m = Zero THEN 0 ELSE IF Negative(m) THEN -1 ELSE 1
  <2>1. (Negative(m) <=> v - w < 0) /\ (m = Zero <=> v - w = 0)
    BY <1>5, NegativeSign
  <2>2. o \in {-1, 0, 1} /\ (o = -1 <=> v < w) /\ (o = 0 <=> v = w) /\ (o = 1 <=> w < v)
    BY <1>5 DEF Compares
  <2>3. (v - w < 0 <=> v < w) /\ (v - w = 0 <=> v = w)
    BY <1>6
  <2>4. CASE m = Zero
    BY <2>1, <2>2, <2>3, <2>4
  <2>5. CASE m # Zero /\ Negative(m)
    BY <2>1, <2>2, <2>3, <2>5
  <2>6. CASE m # Zero /\ ~Negative(m)
    <3>1. o = 1
      BY <1>6, <2>1, <2>2, <2>3, <2>6
    <3> QED
      BY <3>1, <2>6
  <2> QED
    BY <2>4, <2>5, <2>6
<1> QED
  BY <1>2, <1>3, <1>7, <1>8, <1>9, <1>10, <1>11 DEF SumsExact

(* The product that School finds by hand.                                  *)
LEMMA SchoolExact ==
  ASSUME NEW a, NEW b, NEW v, NEW w, IsExactly(a, v), IsExactly(b, w)
  PROVE  IsExactly(School(a, b), v * w)
<1> DEFINE p == Negative(a)  q == Negative(b)  neg == p # q  m == Magnitude(v)  n == Magnitude(w)
           c == FixToBig(a)  d == FixToBig(b)
<1>1. p \in BOOLEAN /\ q \in BOOLEAN /\ v = Signed(p, m) /\ w = Signed(q, n) /\ m \in Int /\ n \in Int
  BY AbsExact
<1>2. IsOperand(c, v) /\ IsOperand(d, w)
  BY FixToBigExact
<1>3. School(a, b) = ByHand(c, d, neg)
  BY DEF School
<1> HIDE DEF p, q, c, d
<1>4. neg \in BOOLEAN
  OBVIOUS
<1>5. Signed(p, m) * Signed(q, n) = Signed(neg, m * n)
  <2> HIDE DEF m, n
  <2> QED
    BY <1>1, SignedProduct
<1> HIDE DEF neg
<1>6. IsExactly(ByHand(c, d, neg), Signed(neg, m * n))
  BY <1>2, <1>4, ByHandExact
<1> QED
  BY <1>1, <1>3, <1>5, <1>6

LEMMA ProductStepExact ==
  ASSUME IntegerProduct PROVE ProductsExact'
<1>1. PICK b \in Integers, r \in Rooms : Call("product", b, r, IntegerTimes(x, b, r))
  BY DEF IntegerProduct
<1> DEFINE p == IntegerTimes(x, b, r)  v == Value(x)  w == Value(b)
<1>2. op' = "product" /\ y' = b /\ x' = x /\ result' = p
  BY <1>1 DEF Call
<1>3. IsExactly(x, v) /\ IsExactly(b, w) /\ r \in Nat
  BY <1>1, OperandsAreExact, IntegersAssumption
<1>4. IsExactly(p, v * w)
  <2> HIDE DEF v, w
  <2> QED
    BY <1>3, TimesExact
<1>5. IsExactly(School(x, b), v * w)
  <2> HIDE DEF v, w
  <2> QED
    BY <1>3, SchoolExact
<1>6. p = School(x, b)
  BY <1>4, <1>5, OneForm
<1>7. IntegerStored(p) /\ Value(p) = v * w
  BY <1>4 DEF IsExactly
<1>8. IsFix(x) => v = x.n
  BY DEF Value
<1> HIDE DEF p
<1>9. /\ IntegerStored(p) /\ p = School(x, b)
      /\ IsFix(x) /\ Short(p) /\ Short(b) => Value(p) = x.n * Value(b)
  BY <1>6, <1>7, <1>8
<1>10. School(x, b) = ByHand(FixToBig(x), FixToBig(b), Negative(x) # Negative(b))
  BY DEF School
<1> QED
  BY <1>2, <1>9, <1>10 DEF ProductsExact, School

LEMMA PowerOfBase2Exact ==
  ASSUME NEW n \in Nat PROVE IsExactly(PowerOfBase2(n), Power(2, n))
BY PowerDigits DEF PowerOfBase2

LEMMA ShiftRounds ==
  ASSUME NEW a, NEW v, IsExactly(a, v), NEW s \in Int, NEW r, r = ArithmeticShift(a, s)
  PROVE  /\ IntegerStored(r)
         /\ s >= 0 => r = School(a, PowerOfBase2(s))
         /\ s < 0 /\ ~LosesCarry(a, -s)
              => RestIsPositive(IntegerMinus(a, School(r, PowerOfBase2(-s))), PowerOfBase2(-s))
<1>1. CASE s >= 0
  <2> DEFINE p == PowerOfBase2(s)  m == Power(2, s)
  <2>1. s \in Nat
    BY <1>1
  <2>2. IsExactly(r, v * m) /\ IsExactly(p, m)
    BY <2>1, LeftShiftExact, PowerOfBase2Exact
  <2> HIDE DEF p, m
  <2>3. IsExactly(School(a, p), v * m)
    BY <2>2, SchoolExact
  <2>4. r = School(a, p) /\ IntegerStored(r)
    BY <2>2, <2>3, OneForm DEF IsExactly
  <2> QED
    BY <1>1, <2>4 DEF p
<1>2. CASE s < 0
  <2> DEFINE k == -s  p == PowerOfBase2(k)  m == Power(2, k)
  <2>1. k \in Nat
    BY <1>2
  <2> HIDE DEF k
  <2>2. /\ \E u : IsExactly(r, u)
        /\ ~LosesCarry(a, k) => IsFloor(r, v, m)
    BY <1>2, <2>1, RightShiftExact DEF k
  <2>3. IsExactly(p, m) /\ m \in Nat
    BY <2>1, PowerOfBase2Exact, PositivePowers
  <2> HIDE DEF p, m
  <2>4. IntegerStored(r)
    BY <2>2 DEF IsExactly
  <2>5. ASSUME ~LosesCarry(a, k) PROVE RestIsPositive(IntegerMinus(a, School(r, p)), p)
    <3>1. PICK u \in Int, t \in 0 .. m - 1 : IsExactly(r, u) /\ v = u * m + t
      BY <2>2, <2>5 DEF IsFloor
    <3> DEFINE q == School(r, p)  rest == IntegerMinus(a, q)  n == u * m
    <3>2. IsExactly(q, n)
      BY <2>3, <3>1, SchoolExact
    <3>3. n \in Int /\ v - n = t /\ t \in Int /\ 0 <= t /\ t < m
      BY <2>3, <3>1
    <3> HIDE DEF q, n
    <3>4. IsExactly(rest, v - n)
      BY <3>2, MinusExact
    <3>5. IsExactly(rest, t)
      BY <3>3, <3>4
    <3> HIDE DEF rest
    <3>6. ~Negative(rest)
      BY <3>3, <3>5, NegativeSign
    <3>7. IntegerCmp(rest, p) = -1
      <4>1. Compares(IntegerCmp(rest, p), t, m)
        BY <2>3, <3>5, CmpExact
      <4> QED
        BY <3>3, <4>1 DEF Compares
    <3> QED
      BY <3>6, <3>7 DEF RestIsPositive, rest, q
  <2> QED
    BY <1>2, <2>4, <2>5 DEF p, k
<1> QED
  BY <1>1, <1>2

LEMMA ShiftStepExact ==
  ASSUME IntegerShift PROVE ShiftsExact'
<1>1. PICK s \in Shifts : Integers # {} /\ Call("shift", Fix(s), 0, ArithmeticShift(x, s))
  BY DEF IntegerShift
<1> DEFINE r == ArithmeticShift(x, s)
<1>2. op' = "shift" /\ y' = Fix(s) /\ x' = x /\ result' = r /\ y'.n = s
  BY <1>1 DEF Call, Fix
<1>3. s \in Int
  BY IntegersAssumption
<1>4. IsExactly(x, Value(x))
  <2>1. PICK b \in Integers : TRUE
    BY <1>1
  <2> QED
    BY <2>1, OperandsAreExact
<1>5. /\ IntegerStored(r)
      /\ s >= 0 => r = School(x, PowerOfBase2(s))
      /\ s < 0 /\ ~LosesCarry(x, -s)
           => RestIsPositive(IntegerMinus(x, School(r, PowerOfBase2(-s))), PowerOfBase2(-s))
  BY <1>3, <1>4, ShiftRounds
<1> HIDE DEF r
<1>6. CarryIsLost' <=> s < 0 /\ LosesCarry(x, -s)
  <2>1. s < 0 => -s \in Nat /\ (-s) \div DigitBits \in Int
    BY <1>3, WordsAndBits
  <2>2. CASE IsFix(x)
    BY <1>2, <2>2 DEF CarryIsLost, LosesCarry
  <2>3. CASE ~IsFix(x)
    <3>1. Size(x) \in Nat
      BY <1>4, <2>3, ExactCases DEF Size
    <3> QED
      BY <1>2, <2>1, <2>3, <3>1 DEF CarryIsLost, LosesCarry, KeepsZeros
  <2> QED
    BY <2>2, <2>3
<1>7. (Rounds(y.n))' <=> IF s >= 0 THEN r = School(x, PowerOfBase2(s))
                         ELSE RestIsPositive(IntegerMinus(x, School(r, PowerOfBase2(-s))), PowerOfBase2(-s))
  BY <1>2 DEF Rounds
<1> QED
  BY <1>2, <1>3, <1>5, <1>6, <1>7 DEF ShiftsExact

(* What DivisionHolds says of a quotient and a remainder that are exact.   *)
LEMMA DivisionHeld ==
  ASSUME NEW p, NEW a, NEW b, NEW v, NEW w, IsExactly(a, v), IsExactly(b, w), Truncates(p, v, w)
  PROVE  /\ IntegerStored(p.q) /\ IntegerStored(p.r)
         /\ IntegerPlus(School(p.q, b), p.r) = a
         /\ SmallerThan(p.r, b) /\ (p.r = Zero \/ Negative(p.r) = Negative(a))
<1>1. PICK q \in Int, r \in Int :
        /\ IsExactly(p.q, q) /\ IsExactly(p.r, r)
        /\ v = q * w + r /\ Magnitude(r) < Magnitude(w) /\ (r = 0 \/ (r < 0 <=> v < 0))
  BY DEF Truncates
<1>2. IntegerStored(p.q) /\ IntegerStored(p.r)
  BY <1>1 DEF IsExactly
<1> DEFINE c == q * w  s == School(p.q, b)  m == Magnitude(r)  n == Magnitude(w)
<1>3. IsExactly(s, c)
  BY <1>1, SchoolExact
<1>4. v = c + r
  BY <1>1
<1> HIDE DEF c, s
<1>5. IntegerPlus(s, p.r) = a
  <2>1. IsExactly(IntegerPlus(s, p.r), c + r)
    BY <1>1, <1>3, PlusExact
  <2> QED
    BY <1>4, <2>1, OneForm
<1>6. SmallerThan(p.r, b)
  <2>1. IsExactly(IntegerAbs(p.r), m) /\ IsExactly(IntegerAbs(b), n)
    BY <1>1, AbsExact
  <2>2. m < n
    BY <1>1
  <2> HIDE DEF m, n
  <2>3. Compares(IntegerCmp(IntegerAbs(p.r), IntegerAbs(b)), m, n)
    BY <2>1, CmpExact
  <2> QED
    BY <2>2, <2>3 DEF Compares, SmallerThan
<1>7. p.r = Zero \/ Negative(p.r) = Negative(a)
  <2>1. (Negative(p.r) <=> r < 0) /\ (p.r = Zero <=> r = 0) /\ (Negative(a) <=> v < 0)
    BY <1>1, NegativeSign
  <2>2. Negative(p.r) \in BOOLEAN /\ Negative(a) \in BOOLEAN
    BY <1>1, AbsExact
  <2> QED
    BY <1>1, <2>1, <2>2
<1> QED
  BY <1>2, <1>5, <1>6, <1>7 DEF s

LEMMA DivisionStepExact ==
  ASSUME IntegerDivision PROVE DivisionsExact'
<1>1. PICK b \in Integers \ {Zero}, r \in Rooms :
        Call("division", b, r, [both |-> IntegerDivRem(x, b, r), rem |-> IntegerRemainder(x, b, r)])
  BY DEF IntegerDivision
<1> DEFINE p == IntegerDivRem(x, b, r)  t == IntegerRemainder(x, b, r)  v == Value(x)  w == Value(b)
<1>2. op' = "division" /\ y' = b /\ x' = x /\ result'.both = p /\ result'.rem = t
  BY <1>1 DEF Call
<1>3. IsExactly(x, v) /\ IsExactly(b, w) /\ r \in Nat
  BY <1>1, OperandsAreExact, IntegersAssumption
<1> HIDE DEF v, w
<1>4. w # 0
  BY <1>1, <1>3, NegativeSign
<1>5. Truncates(p, v, w) /\ t = p.r
  BY <1>3, <1>4, DivRemExact, RemaindersAgree
<1> HIDE DEF p, t
<1>6. /\ IntegerStored(p.q) /\ IntegerStored(p.r)
      /\ IntegerPlus(School(p.q, b), p.r) = x
      /\ SmallerThan(p.r, b) /\ (p.r = Zero \/ Negative(p.r) = Negative(x))
  BY <1>3, <1>5, DivisionHeld
<1> QED
  BY <1>2, <1>5, <1>6 DEF DivisionsExact, DivisionHolds, School, SmallerThan

LEMMA OnlyOneResult ==
  ASSUME [DigitNext]_vars
  PROVE  /\ IntegerSum => op' = "sum"
         /\ IntegerShift => op' = "shift"
         /\ IntegerProduct => op' = "product"
         /\ IntegerDivision => op' = "division"
         /\ \/ IntegerSum \/ IntegerShift \/ IntegerProduct \/ IntegerDivision
            \/ UNCHANGED <<x, y, op, result>>
BY DEF DigitNext, vars, IntegerSum, IntegerShift, IntegerProduct, IntegerDivision, Call

(* Whatever the length of the integers and of the words: sums, differences *)
(* and negations are exact and stored in their only form, and comparisons  *)
(* agree with the differences.                                             *)
THEOREM SumsAreExact == DigitSpec => []SumsExact
<1>1. DigitInit => SumsExact
  BY DEF DigitInit, SumsExact
<1>2. SumsExact /\ [DigitNext]_vars => SumsExact'
  <2> SUFFICES ASSUME SumsExact, [DigitNext]_vars PROVE SumsExact'
    OBVIOUS
  <2>1. CASE IntegerSum
    BY <2>1, SumStepExact
  <2>2. CASE IntegerShift \/ IntegerProduct \/ IntegerDivision
    BY <2>2, OnlyOneResult DEF SumsExact
  <2>3. CASE UNCHANGED <<x, y, op, result>>
    BY <2>3 DEF SumsExact
  <2> QED
    BY <2>1, <2>2, <2>3, OnlyOneResult
<1> QED
  BY <1>1, <1>2, PTL DEF DigitSpec

(* Products are those by hand, which are exact, by whatever method and     *)
(* with whatever room on the C stack.                                      *)
THEOREM ProductsAreExact == DigitSpec => []ProductsExact
<1>1. DigitInit => ProductsExact
  BY DEF DigitInit, ProductsExact
<1>2. ProductsExact /\ [DigitNext]_vars => ProductsExact'
  <2> SUFFICES ASSUME ProductsExact, [DigitNext]_vars PROVE ProductsExact'
    OBVIOUS
  <2>1. CASE IntegerProduct
    BY <2>1, ProductStepExact
  <2>2. CASE IntegerSum \/ IntegerShift \/ IntegerDivision
    BY <2>2, OnlyOneResult DEF ProductsExact
  <2>3. CASE UNCHANGED <<x, y, op, result>>
    BY <2>3 DEF ProductsExact, School
  <2> QED
    BY <2>1, <2>2, <2>3, OnlyOneResult
<1> QED
  BY <1>1, <1>2, PTL DEF DigitSpec

(* Shifts multiply by a power of two or divide by it and round down,       *)
(* unless the carry of digits that are gone is lost.                       *)
THEOREM ShiftsAreExact == DigitSpec => []ShiftsExact
<1>1. DigitInit => ShiftsExact
  BY DEF DigitInit, ShiftsExact
<1>2. ShiftsExact /\ [DigitNext]_vars => ShiftsExact'
  <2> SUFFICES ASSUME ShiftsExact, [DigitNext]_vars PROVE ShiftsExact'
    OBVIOUS
  <2>1. CASE IntegerShift
    BY <2>1, ShiftStepExact
  <2>2. CASE IntegerSum \/ IntegerProduct \/ IntegerDivision
    BY <2>2, OnlyOneResult DEF ShiftsExact
  <2>3. CASE UNCHANGED <<x, y, op, result>>
    BY <2>3 DEF ShiftsExact, CarryIsLost, Rounds
  <2> QED
    BY <2>1, <2>2, <2>3, OnlyOneResult
<1> QED
  BY <1>1, <1>2, PTL DEF DigitSpec

(* Quotients and remainders are those of the values, rounded towards zero, *)
(* by whatever algorithm and with whatever room on the C stack, and        *)
(* integer_divrem has the same remainder when no quotient is asked for.    *)
THEOREM DivisionsAreExact == DigitSpec => []DivisionsExact
<1>1. DigitInit => DivisionsExact
  BY DEF DigitInit, DivisionsExact
<1>2. DivisionsExact /\ [DigitNext]_vars => DivisionsExact'
  <2> SUFFICES ASSUME DivisionsExact, [DigitNext]_vars PROVE DivisionsExact'
    OBVIOUS
  <2>1. CASE IntegerDivision
    BY <2>1, DivisionStepExact
  <2>2. CASE IntegerSum \/ IntegerShift \/ IntegerProduct
    BY <2>2, OnlyOneResult DEF DivisionsExact
  <2>3. CASE UNCHANGED <<x, y, op, result>>
    BY <2>3 DEF DivisionsExact, DivisionHolds, School, SmallerThan
  <2> QED
    BY <2>1, <2>2, <2>3, OnlyOneResult
<1> QED
  BY <1>1, <1>2, PTL DEF DigitSpec

(* Everything a program calculates with the integers of BignumDigits,      *)
(* BignumProducts and BignumQuotients, of any size, is what the invariant  *)
(* of the runs says.                                                       *)
THEOREM CalculationsAreExact == DigitSpec => []CalculationsExact
<1>1. SumsExact /\ ProductsExact /\ ShiftsExact /\ DivisionsExact => CalculationsExact
  BY DEF CalculationsExact
<1> QED
  BY <1>1, SumsAreExact, ProductsAreExact, ShiftsAreExact, DivisionsAreExact, PTL
==============================================================================
