----------------------------- MODULE DigitProofs -----------------------------
(***************************************************************************)
(* The arithmetic on digits is exact, for words of any even number of bits *)
(* and integers of any size.  Induction over the digits is by sets of      *)
(* numbers: see Induction and Iteration.                                   *)
(***************************************************************************)
EXTENDS BignumProducts, WellFoundedInduction, SequenceTheorems, TLAPS

(* Arithmetic that the solvers want spelled out.                           *)
LEMMA Distribute ==
  ASSUME NEW a \in Int, NEW b \in Int, NEW c \in Int
  PROVE  /\ (a + b) * c = a * c + b * c
         /\ c * (a + b) = c * a + c * b
         /\ (a - b) * c = a * c - b * c
         /\ c * (a - b) = c * a - c * b
         /\ a * (b * c) = (a * b) * c
         /\ a * b = b * a
         /\ a * b \in Int
OBVIOUS

LEMMA Monotone ==
  ASSUME NEW a \in Int, NEW b \in Int, NEW c \in Int, a <= b, c >= 0
  PROVE  a * c <= b * c
OBVIOUS

LEMMA StrictlyMonotone ==
  ASSUME NEW a \in Int, NEW b \in Int, NEW c \in Int, a < b, c > 0
  PROVE  a * c < b * c
OBVIOUS

LEMMA DivMod ==
  ASSUME NEW n \in Int, NEW b \in Int, b > 0
  PROVE  /\ n \div b \in Int /\ n % b \in 0 .. b - 1
         /\ n = b * (n \div b) + (n % b)
OBVIOUS

LEMMA DivUnique ==
  ASSUME NEW b \in Int, b > 0, NEW q \in Int, NEW r \in 0 .. b - 1, NEW n \in Int, n = b * q + r
  PROVE  n \div b = q /\ n % b = r
<1> DEFINE p == n \div b
           s == n % b
<1>1. p \in Int /\ s \in 0 .. b - 1 /\ n = b * p + s
  BY DivMod
<1> SUFFICES p = q /\ s = r
  OBVIOUS
<1> HIDE DEF p, s
<1>2. CASE q > p
  <2>1. b * (q - p) = s - r
    BY <1>1, Distribute
  <2>2. b * (q - p) >= b
    BY <1>1, <1>2
  <2> QED
    BY <2>1, <2>2, <1>1
<1>3. CASE q < p
  <2>1. b * (p - q) = r - s
    BY <1>1, Distribute
  <2>2. b * (p - q) >= b
    BY <1>1, <1>3
  <2> QED
    BY <2>1, <2>2, <1>1
<1>4. CASE q = p
  BY <1>1, <1>4
<1> QED
  BY <1>1, <1>2, <1>3, <1>4

(* Induction, on sets of numbers.                                          *)
LEMMA Least ==
  ASSUME NEW T, T \subseteq Nat, T # {}
  PROVE  \E n \in T : \A m \in T : n <= m
<1> DEFINE R == OpToRel(<, Nat)
<1>1. IsWellFoundedOn(R, Nat)
  BY NatLessThanWellFounded
<1>2. \A m, n \in Nat : m < n => <<m, n>> \in R
  BY DEF OpToRel
<1> HIDE DEF R
<1>3. PICK n \in T : \A m \in T : ~(<<m, n>> \in R)
  BY <1>1, WFMin
<1>4. \A m \in T : ~(m < n)
  BY <1>2, <1>3
<1>5. n \in Nat /\ \A m \in T : m \in Nat
  BY <1>3
<1>6. \A m \in T : n <= m
  BY <1>4, <1>5
<1> QED
  BY <1>3, <1>6

LEMMA Induction ==
  ASSUME NEW n \in Nat, NEW T, 0 \in T, \A i \in 0 .. n - 1 : i \in T => i + 1 \in T
  PROVE  \A i \in 0 .. n : i \in T
<1> DEFINE F == (0 .. n) \ T
<1>1. CASE F = {}
  BY <1>1
<1>2. CASE F # {}
  <2>1. F \subseteq Nat
    OBVIOUS
  <2> HIDE DEF F
  <2>2. PICK i \in F : \A m \in F : i <= m
    BY <1>2, <2>1, Least
  <2> USE DEF F
  <2>3. i \in 0 .. n /\ i \notin T /\ i # 0
    OBVIOUS
  <2>4. i - 1 \in 0 .. n - 1 /\ i - 1 \in T
    BY <2>2, <2>3
  <2>5. (i - 1) + 1 \in T
    BY <2>4
  <2> QED
    BY <2>3, <2>5
<1> QED
  BY <1>1, <1>2

(* A recursive function on 0 .. n: f[i] is h[i] of f[i - 1].               *)
IsIteration(f, n, S, a, h) ==
  /\ f \in [0 .. n -> S] /\ f[0] = a
  /\ \A i \in 1 .. n : f[i] = h[i][f[i - 1]]

LEMMA Iteration ==
  ASSUME NEW n \in Nat, NEW S, NEW a \in S, NEW h, \A i \in 1 .. n, s \in S : h[i][s] \in S
  PROVE  \E f : IsIteration(f, n, S, a, h)
<1> DEFINE T == {k \in 0 .. n : \E f : IsIteration(f, k, S, a, h)}
<1>1. 0 \in T
  <2> DEFINE f0 == [i \in 0 .. 0 |-> a]
  <2>1. IsIteration(f0, 0, S, a, h)
    BY DEF IsIteration
  <2> HIDE DEF f0
  <2> QED
    BY <2>1
<1>2. ASSUME NEW k \in 0 .. n - 1, k \in T PROVE k + 1 \in T
  <2>1. PICK f : IsIteration(f, k, S, a, h)
    BY <1>2
  <2> DEFINE g == [i \in 0 .. k + 1 |-> IF i <= k THEN f[i] ELSE h[k + 1][f[k]]]
  <2>2. h[k + 1][f[k]] \in S
    BY <2>1 DEF IsIteration
  <2>3. g \in [0 .. k + 1 -> S] /\ g[0] = a
    BY <2>1, <2>2 DEF IsIteration
  <2>4. ASSUME NEW i \in 1 .. k + 1 PROVE g[i] = h[i][g[i - 1]]
    <3>1. CASE i <= k
      BY <2>1, <3>1 DEF IsIteration
    <3>2. CASE i = k + 1
      BY <2>1, <3>2 DEF IsIteration
    <3> QED
      BY <3>1, <3>2
  <2> HIDE DEF g
  <2>5. IsIteration(g, k + 1, S, a, h)
    BY <2>3, <2>4 DEF IsIteration
  <2> QED
    BY <2>5
<1> HIDE DEF T
<1>3. \A k \in 0 .. n : k \in T
  BY <1>1, <1>2, Induction
<1>4. n \in T
  BY <1>3
<1> QED
  BY <1>4 DEF T

IsPowers(p, b, n) ==
  p \in [0 .. n -> Int] /\ p[0] = 1 /\ \A i \in 1 .. n : p[i] = b * p[i - 1]

LEMMA PowerFunction ==
  ASSUME NEW b \in Int, NEW n \in Nat
  PROVE  \E p : IsPowers(p, b, n) /\ Power(b, n) = p[n]
<1> DEFINE P(p) == p = [i \in 0 .. n |-> IF i = 0 THEN 1 ELSE b * p[i - 1]]
           h == [i \in 1 .. n |-> [s \in Int |-> b * s]]
           q == CHOOSE p : P(p)
           Z == Int
<1>1. \A i \in 1 .. n, s \in Int : h[i][s] = b * s
  OBVIOUS
<1> HIDE DEF h
<1>2. PICK f : IsIteration(f, n, Z, 1, h)
  <2>1. 1 \in Z /\ \A i \in 1 .. n, s \in Z : h[i][s] \in Z
    BY <1>1
  <2> HIDE DEF Z
  <2> QED
    BY <2>1, Iteration
<1>3. IsPowers(f, b, n)
  <2>1. f \in [0 .. n -> Int] /\ f[0] = 1 /\ \A i \in 1 .. n : f[i] = h[i][f[i - 1]]
    BY <1>2 DEF IsIteration
  <2>2. ASSUME NEW i \in 1 .. n PROVE f[i] = b * f[i - 1]
    <3>1. f[i - 1] \in Int
      BY <2>1
    <3> QED
      BY <3>1, <1>1, <2>1
  <2> QED
    BY <2>1, <2>2 DEF IsPowers
<1>4. P(f)
  BY <1>3 DEF IsPowers
<1>5. Power(b, n) = q[n]
  BY DEF Power
<1> HIDE DEF P
<1>6. P(q)
  BY <1>4
<1> HIDE DEF q
<1>7. DOMAIN q = 0 .. n /\ q[0] = 1 /\ \A i \in 1 .. n : q[i] = b * q[i - 1]
  BY <1>6 DEF P
<1> DEFINE T == {i \in 0 .. n : q[i] = f[i]}
<1>8. 0 \in T
  BY <1>3, <1>7 DEF IsPowers
<1>9. ASSUME NEW i \in 0 .. n - 1, i \in T PROVE i + 1 \in T
  <2>1. i + 1 \in 1 .. n /\ (i + 1) - 1 = i /\ q[i] = f[i]
    BY <1>9
  <2> QED
    BY <2>1, <1>3, <1>7 DEF IsPowers
<1> HIDE DEF T
<1>10. \A i \in 0 .. n : i \in T
  BY <1>8, <1>9, Induction
<1>11. q[n] = f[n]
  BY <1>10 DEF T
<1> QED
  BY <1>3, <1>5, <1>11

LEMMA SamePowers ==
  ASSUME NEW b \in Int, NEW n \in Nat, NEW m \in Nat, n <= m,
         NEW p, IsPowers(p, b, n), NEW q, IsPowers(q, b, m)
  PROVE  p[n] = q[n]
<1> DEFINE T == {i \in 0 .. n : q[i] = p[i]}
<1>1. 0 \in T
  BY DEF IsPowers
<1>2. ASSUME NEW i \in 0 .. n - 1, i \in T PROVE i + 1 \in T
  <2>1. i + 1 \in 1 .. n /\ i + 1 \in 1 .. m /\ (i + 1) - 1 = i /\ q[i] = p[i]
    BY <1>2
  <2> QED
    BY <2>1 DEF IsPowers
<1> HIDE DEF T
<1>3. \A i \in 0 .. n : i \in T
  BY <1>1, <1>2, Induction
<1> QED
  BY <1>3 DEF T

(* b to the n + 1 is b times b to the n.                                   *)
LEMMA PowerZero == ASSUME NEW b \in Int PROVE Power(b, 0) = 1
BY PowerFunction DEF IsPowers

LEMMA PowerInt == ASSUME NEW b \in Int, NEW n \in Nat PROVE Power(b, n) \in Int
BY PowerFunction DEF IsPowers

LEMMA PowerNext ==
  ASSUME NEW b \in Int, NEW n \in Nat PROVE Power(b, n + 1) = b * Power(b, n)
<1>1. PICK p : IsPowers(p, b, n) /\ Power(b, n) = p[n]
  BY PowerFunction
<1>2. PICK q : IsPowers(q, b, n + 1) /\ Power(b, n + 1) = q[n + 1]
  BY PowerFunction
<1>3. p[n] = q[n]
  BY <1>1, <1>2, SamePowers
<1>4. q[n + 1] = b * q[n]
  <2>1. n + 1 \in 1 .. n + 1 /\ (n + 1) - 1 = n
    OBVIOUS
  <2> QED
    BY <2>1, <1>2 DEF IsPowers
<1> QED
  BY <1>1, <1>2, <1>3, <1>4

LEMMA PowerPositive ==
  ASSUME NEW b \in Int, b > 0, NEW n \in Nat PROVE Power(b, n) \in Int /\ Power(b, n) > 0
<1> DEFINE T == {i \in 0 .. n : Power(b, i) > 0}
<1>1. 0 \in T
  BY PowerZero
<1>2. ASSUME NEW i \in 0 .. n - 1, i \in T PROVE i + 1 \in T
  <2>1. i \in Nat /\ Power(b, i) > 0 /\ Power(b, i) \in Int
    BY <1>2, PowerInt
  <2>2. Power(b, i + 1) = b * Power(b, i)
    BY <2>1, PowerNext
  <2>3. b * Power(b, i) > 0
    BY <2>1
  <2> QED
    BY <2>2, <2>3
<1> HIDE DEF T
<1>3. n \in T
  BY <1>1, <1>2, Induction
<1> QED
  BY <1>3, PowerInt DEF T

LEMMA PowerSum ==
  ASSUME NEW b \in Int, NEW m \in Nat, NEW n \in Nat
  PROVE  Power(b, m + n) = Power(b, m) * Power(b, n)
<1> DEFINE T == {i \in 0 .. n : Power(b, m + i) = Power(b, m) * Power(b, i)}
<1>1. 0 \in T
  BY PowerZero, PowerInt
<1>2. ASSUME NEW i \in 0 .. n - 1, i \in T PROVE i + 1 \in T
  <2>1. i \in Nat /\ m + i \in Nat /\ Power(b, m + i) = Power(b, m) * Power(b, i)
    BY <1>2
  <2>2. Power(b, i) \in Int /\ Power(b, m) \in Int /\ Power(b, m + i) \in Int
    BY <2>1, PowerInt
  <2>3. Power(b, i + 1) = b * Power(b, i)
    BY <2>1, PowerNext
  <2>4. Power(b, (m + i) + 1) = b * Power(b, m + i)
    BY <2>1, PowerNext
  <2>5. m + (i + 1) = (m + i) + 1
    BY <2>1
  <2>6. b * (Power(b, m) * Power(b, i)) = Power(b, m) * (b * Power(b, i))
    BY <2>2
  <2>7. Power(b, m + (i + 1)) = Power(b, m) * Power(b, i + 1)
    BY <2>1, <2>3, <2>4, <2>5, <2>6
  <2> QED
    BY <2>7
<1> HIDE DEF T
<1>3. n \in T
  BY <1>1, <1>2, Induction
<1> QED
  BY <1>3 DEF T

(* The value of the first n digits.                                        *)
IsValues(v, b, d, n) ==
  /\ v \in [0 .. n -> Int] /\ v[0] = 0
  /\ \A i \in 1 .. n : v[i] = v[i - 1] + d[i] * Power(b, i - 1)

LEMMA ValueFunction ==
  ASSUME NEW b \in Int, NEW n \in Nat, NEW d, \A i \in 1 .. n : d[i] \in Int
  PROVE  \E v : IsValues(v, b, d, n) /\ DigitsValue(b, d, n) = v[n]
<1> DEFINE P(v) == v = [i \in 0 .. n |-> IF i = 0 THEN 0 ELSE v[i - 1] + d[i] * Power(b, i - 1)]
           h == [i \in 1 .. n |-> [s \in Int |-> s + d[i] * Power(b, i - 1)]]
           q == CHOOSE v : P(v)
           Z == Int
<1>1. ASSUME NEW i \in 1 .. n PROVE d[i] * Power(b, i - 1) \in Int
  <2>1. i - 1 \in Nat
    OBVIOUS
  <2>2. Power(b, i - 1) \in Int
    BY <2>1, PowerInt
  <2> QED
    BY <2>2
<1>2. \A i \in 1 .. n, s \in Int : h[i][s] = s + d[i] * Power(b, i - 1) /\ h[i][s] \in Int
  BY <1>1
<1> HIDE DEF h
<1>3. PICK f : IsIteration(f, n, Z, 0, h)
  <2>1. 0 \in Z /\ \A i \in 1 .. n, s \in Z : h[i][s] \in Z
    BY <1>2
  <2> HIDE DEF Z
  <2> QED
    BY <2>1, Iteration
<1>4. IsValues(f, b, d, n)
  <2>1. f \in [0 .. n -> Int] /\ f[0] = 0 /\ \A i \in 1 .. n : f[i] = h[i][f[i - 1]]
    BY <1>3 DEF IsIteration
  <2>2. ASSUME NEW i \in 1 .. n PROVE f[i] = f[i - 1] + d[i] * Power(b, i - 1)
    <3>1. f[i - 1] \in Int
      BY <2>1
    <3>2. h[i][f[i - 1]] = f[i - 1] + d[i] * Power(b, i - 1)
      BY <3>1, <1>2
    <3> QED
      BY <3>2, <2>1
  <2> QED
    BY <2>1, <2>2 DEF IsValues
<1>5. P(f)
  BY <1>4 DEF IsValues
<1>6. DigitsValue(b, d, n) = q[n]
  BY DEF DigitsValue
<1> HIDE DEF P
<1>7. P(q)
  BY <1>5
<1> HIDE DEF q
<1>8. /\ DOMAIN q = 0 .. n /\ q[0] = 0
      /\ \A i \in 1 .. n : q[i] = q[i - 1] + d[i] * Power(b, i - 1)
  BY <1>7 DEF P
<1> DEFINE T == {i \in 0 .. n : q[i] = f[i]}
<1>9. 0 \in T
  BY <1>4, <1>8 DEF IsValues
<1>10. ASSUME NEW i \in 0 .. n - 1, i \in T PROVE i + 1 \in T
  <2>1. i + 1 \in 1 .. n /\ (i + 1) - 1 = i /\ q[i] = f[i]
    BY <1>10
  <2> QED
    BY <2>1, <1>4, <1>8 DEF IsValues
<1> HIDE DEF T
<1>11. \A i \in 0 .. n : i \in T
  BY <1>9, <1>10, Induction
<1>12. q[n] = f[n]
  BY <1>11 DEF T
<1> QED
  BY <1>4, <1>6, <1>12

LEMMA SameValues ==
  ASSUME NEW b \in Int, NEW n \in Nat, NEW m \in Nat, n <= m, NEW d, NEW e,
         \A i \in 1 .. n : d[i] = e[i],
         NEW p, IsValues(p, b, d, n), NEW q, IsValues(q, b, e, m)
  PROVE  p[n] = q[n]
<1> DEFINE T == {i \in 0 .. n : q[i] = p[i]}
<1>1. 0 \in T
  BY DEF IsValues
<1>2. ASSUME NEW i \in 0 .. n - 1, i \in T PROVE i + 1 \in T
  <2>1. i + 1 \in 1 .. n /\ i + 1 \in 1 .. m /\ (i + 1) - 1 = i /\ q[i] = p[i]
    BY <1>2
  <2> QED
    BY <2>1 DEF IsValues
<1> HIDE DEF T
<1>3. \A i \in 0 .. n : i \in T
  BY <1>1, <1>2, Induction
<1> QED
  BY <1>3 DEF T

LEMMA NoDigits ==
  ASSUME NEW b \in Int, NEW d PROVE DigitsValue(b, d, 0) = 0
BY ValueFunction DEF IsValues

LEMMA ValueInt ==
  ASSUME NEW b \in Int, NEW n \in Nat, NEW d, \A i \in 1 .. n : d[i] \in Int
  PROVE  DigitsValue(b, d, n) \in Int
BY ValueFunction DEF IsValues

(* Only the digits below n count.                                          *)
LEMMA SameDigits ==
  ASSUME NEW b \in Int, NEW n \in Nat, NEW d, NEW e, \A i \in 1 .. n : d[i] \in Int /\ e[i] = d[i]
  PROVE  DigitsValue(b, d, n) = DigitsValue(b, e, n)
<1>1. PICK p : IsValues(p, b, d, n) /\ DigitsValue(b, d, n) = p[n]
  BY ValueFunction
<1>2. \A i \in 1 .. n : e[i] \in Int
  OBVIOUS
<1>3. PICK q : IsValues(q, b, e, n) /\ DigitsValue(b, e, n) = q[n]
  BY <1>2, ValueFunction
<1> QED
  BY <1>1, <1>3, SameValues

LEMMA OneMoreDigit ==
  ASSUME NEW b \in Int, NEW n \in Nat, NEW d, \A i \in 1 .. n + 1 : d[i] \in Int
  PROVE  DigitsValue(b, d, n + 1) = DigitsValue(b, d, n) + d[n + 1] * Power(b, n)
<1>1. \A i \in 1 .. n : d[i] \in Int
  OBVIOUS
<1>2. PICK p : IsValues(p, b, d, n) /\ DigitsValue(b, d, n) = p[n]
  BY <1>1, ValueFunction
<1> DEFINE m == n + 1
<1>3. PICK q : IsValues(q, b, d, m) /\ DigitsValue(b, d, m) = q[m]
  <2>1. m \in Nat /\ \A i \in 1 .. m : d[i] \in Int
    OBVIOUS
  <2> HIDE DEF m
  <2> QED
    BY <2>1, ValueFunction
<1>4. p[n] = q[n]
  <2>1. m \in Nat /\ n <= m
    OBVIOUS
  <2> HIDE DEF m
  <2> QED
    BY <1>2, <1>3, <2>1, SameValues
<1>5. q[n + 1] = q[n] + d[n + 1] * Power(b, n)
  <2>1. n + 1 \in 1 .. n + 1 /\ (n + 1) - 1 = n
    OBVIOUS
  <2> QED
    BY <2>1, <1>3 DEF IsValues
<1> QED
  BY <1>2, <1>3, <1>4, <1>5

(* What a loop over digits in D with carries in C computes: the digits out *)
(* in E, with the carry c[i] after digit i.                                *)
IsLoop(out, c, step, carry, d, E, C) ==
  /\ out \in Seq(E) /\ Len(out) = Len(d)
  /\ c \in [0 .. Len(d) -> C] /\ c[0] = carry
  /\ \A i \in 1 .. Len(d) : out[i] = step[d[i]][c[i - 1]][1] /\ c[i] = step[d[i]][c[i - 1]][2]

(* A round of the loop.                                                    *)
Round(p, x1, step) == <<Append(p[1], step[x1][p[2]][1]), step[x1][p[2]][2]>>

IsRound(r, p, x1, step, E, C) ==
  /\ r \in Seq(E) \X C
  /\ r[2] = step[x1][p[2]][2]
  /\ Len(r[1]) = Len(p[1]) + 1
  /\ r[1][Len(p[1]) + 1] = step[x1][p[2]][1]
  /\ \A k \in 1 .. Len(p[1]) : r[1][k] = p[1][k]

LEMMA RoundParts ==
  ASSUME NEW D, NEW C, NEW E, NEW step,
         \A x1 \in D, c \in C : step[x1][c][1] \in E /\ step[x1][c][2] \in C,
         NEW p \in Seq(E) \X C, NEW x1 \in D
  PROVE  IsRound(Round(p, x1, step), p, x1, step, E, C)
<1>1. PICK s \in Seq(E), c \in C : p = <<s, c>>
  OBVIOUS
<1> DEFINE e == step[x1][c][1]
           k2 == step[x1][c][2]
<1>2. e \in E /\ k2 \in C
  OBVIOUS
<1>3. Round(p, x1, step) = <<Append(s, e), k2>>
  BY <1>1 DEF Round
<1> HIDE DEF e, k2
<1> DEFINE t == Append(s, e)
<1>4. t \in Seq(E) /\ Len(t) = Len(s) + 1 /\ t[Len(s) + 1] = e /\ \A k \in 1 .. Len(s) : t[k] = s[k]
  BY <1>2
<1> HIDE DEF t
<1>5. p[1] = s /\ p[2] = c
  BY <1>1
<1>6. Round(p, x1, step) = <<t, k2>>
  BY <1>3 DEF t
<1>7. Round(p, x1, step)[1] = t /\ Round(p, x1, step)[2] = k2 /\ Round(p, x1, step) \in Seq(E) \X C
  BY <1>6, <1>2, <1>4
<1> QED
  BY <1>4, <1>5, <1>7 DEF e, k2, IsRound

Loops(r, step, carry, d, E, C) ==
  \E c : IsLoop(r[1], c, step, carry, d, E, C) /\ r[2] = c[Len(d)]

LEMMA UpwardIsLoop ==
  ASSUME NEW D, NEW C, NEW E, NEW d \in Seq(D), NEW carry \in C, NEW step,
         \A x1 \in D, c \in C : step[x1][c][1] \in E /\ step[x1][c][2] \in C
  PROVE  Loops(Upward(step, carry, d), step, carry, d, E, C)
<1> DEFINE n == Len(d)
           S == Seq(E) \X C
           none == <<>>
           start == <<none, carry>>
           h == [i \in 1 .. n |-> [p \in S |-> Round(p, d[i], step)]]
           P(f) == f = [i \in 0 .. n |-> IF i = 0 THEN start ELSE Round(f[i - 1], d[i], step)]
           q == CHOOSE f : P(f)
<1>1. n \in Nat /\ \A i \in 1 .. n : d[i] \in D
  OBVIOUS
<1>2. Upward(step, carry, d) = q[n]
  BY DEF Upward, Round
<1> HIDE DEF n
<1>3. start \in S /\ Len(start[1]) = 0 /\ start[2] = carry
  <2>1. none \in Seq(E) /\ Len(none) = 0
    OBVIOUS
  <2> HIDE DEF none
  <2> QED
    BY <2>1
<1> HIDE DEF start
<1>4. ASSUME NEW p \in S, NEW x1 \in D
      PROVE  /\ Round(p, x1, step) \in S
             /\ Round(p, x1, step)[2] = step[x1][p[2]][2]
             /\ Len(Round(p, x1, step)[1]) = Len(p[1]) + 1
             /\ Round(p, x1, step)[1][Len(p[1]) + 1] = step[x1][p[2]][1]
             /\ \A k \in 1 .. Len(p[1]) : Round(p, x1, step)[1][k] = p[1][k]
  <2>1. p \in Seq(E) \X C
    OBVIOUS
  <2>2. IsRound(Round(p, x1, step), p, x1, step, E, C)
    BY <2>1, RoundParts
  <2> QED
    BY <2>2 DEF IsRound
<1>5. \A p \in S : p[1] \in Seq(E) /\ p[2] \in C
  OBVIOUS
<1> HIDE DEF S
<1>6. \A i \in 1 .. n, p \in S : h[i][p] = Round(p, d[i], step) /\ h[i][p] \in S
  BY <1>1, <1>4
<1> HIDE DEF h
<1>7. PICK f : IsIteration(f, n, S, start, h)
  BY <1>1, <1>3, <1>6, Iteration
<1>8. f \in [0 .. n -> S] /\ f[0] = start /\ \A i \in 1 .. n : f[i] = h[i][f[i - 1]]
  BY <1>7 DEF IsIteration
<1>9. ASSUME NEW i \in 1 .. n PROVE f[i - 1] \in S /\ f[i] \in S /\ f[i] = Round(f[i - 1], d[i], step)
  <2>1. f[i - 1] \in S /\ f[i] \in S
    BY <1>1, <1>8
  <2> QED
    BY <2>1, <1>6, <1>8
<1>10. P(f)
  BY <1>8, <1>9
<1> HIDE DEF P
<1>11. P(q)
  BY <1>10
<1> HIDE DEF q
<1>12. q[0] = start /\ \A i \in 1 .. n : q[i] = Round(q[i - 1], d[i], step)
  BY <1>1, <1>11 DEF P
<1>13. q[n] = f[n]
  <2> DEFINE T == {i \in 0 .. n : q[i] = f[i]}
  <2>1. 0 \in T
    BY <1>1, <1>8, <1>12
  <2>2. ASSUME NEW i \in 0 .. n - 1, i \in T PROVE i + 1 \in T
    <3>1. i + 1 \in 1 .. n /\ (i + 1) - 1 = i /\ q[i] = f[i] /\ i + 1 \in 0 .. n
      BY <1>1, <2>2
    <3>2. q[i + 1] = f[i + 1]
      BY <3>1, <1>9, <1>12
    <3> QED
      BY <3>1, <3>2
  <2> HIDE DEF T
  <2>3. \A i \in 0 .. n : i \in T
    BY <1>1, <2>1, <2>2, Induction
  <2> QED
    BY <1>1, <2>3 DEF T
<1> DEFINE c == [i \in 0 .. n |-> f[i][2]]
           O(i, k) == f[i][1][k] = step[d[k]][c[k - 1]][1]
           R == {i \in 0 .. n : Len(f[i][1]) = i /\ \A k \in 1 .. i : O(i, k)}
<1>14. \A i \in 0 .. n : c[i] = f[i][2] /\ c[i] \in C
  BY <1>5, <1>8
<1>15. c \in [0 .. n -> C] /\ c[0] = carry
  BY <1>1, <1>3, <1>8, <1>14
<1> HIDE DEF c
<1>16. ASSUME NEW i \in 1 .. n PROVE c[i] = step[d[i]][c[i - 1]][2]
  <2>1. Round(f[i - 1], d[i], step)[2] = step[d[i]][f[i - 1][2]][2]
    BY <1>1, <1>4, <1>9
  <2>2. c[i] = f[i][2] /\ c[i - 1] = f[i - 1][2]
    BY <1>1, <1>14
  <2> QED
    BY <2>1, <2>2, <1>9
<1>17. 0 \in R
  BY <1>1, <1>3, <1>8
<1>18. ASSUME NEW i \in 0 .. n - 1, i \in R PROVE i + 1 \in R
  <2>1. i + 1 \in 1 .. n /\ (i + 1) - 1 = i /\ i + 1 \in 0 .. n /\ i \in 0 .. n /\ Len(f[i][1]) = i
    BY <1>1, <1>18
  <2>2. f[i] \in S /\ f[i + 1] = Round(f[i], d[i + 1], step) /\ d[i + 1] \in D
    BY <2>1, <1>1, <1>9
  <2>3. /\ Len(f[i + 1][1]) = i + 1
        /\ f[i + 1][1][i + 1] = step[d[i + 1]][f[i][2]][1]
        /\ \A k \in 1 .. i : f[i + 1][1][k] = f[i][1][k]
    <3> DEFINE r == Round(f[i], d[i + 1], step)
    <3>1. /\ Len(r[1]) = Len(f[i][1]) + 1
          /\ r[1][Len(f[i][1]) + 1] = step[d[i + 1]][f[i][2]][1]
          /\ \A k \in 1 .. Len(f[i][1]) : r[1][k] = f[i][1][k]
      BY <1>4, <2>2
    <3> QED
      BY <3>1, <2>1, <2>2
  <2>4. ASSUME NEW k \in 1 .. i + 1 PROVE O(i + 1, k)
    <3>1. CASE k = i + 1
      BY <3>1, <2>1, <2>3, <1>14
    <3>2. CASE k \in 1 .. i
      <4>1. O(i, k)
        BY <1>18, <3>2
      <4> QED
        BY <4>1, <3>2, <2>3
    <3> QED
      BY <3>1, <3>2, <2>1
  <2> HIDE DEF O
  <2> QED
    BY <2>1, <2>3, <2>4
<1> HIDE DEF R
<1>19. \A i \in 0 .. n : i \in R
  BY <1>1, <1>17, <1>18, Induction
<1>20. Len(f[n][1]) = n /\ \A k \in 1 .. n : f[n][1][k] = step[d[k]][c[k - 1]][1]
  BY <1>1, <1>19 DEF R
<1>21. f[n][1] \in Seq(E)
  BY <1>1, <1>5, <1>8
<1> DEFINE out == f[n][1]
<1>22. out \in Seq(E) /\ Len(out) = n /\ \A k \in 1 .. n : out[k] = step[d[k]][c[k - 1]][1]
  BY <1>20, <1>21
<1>23. Upward(step, carry, d)[1] = out /\ Upward(step, carry, d)[2] = c[n]
  BY <1>1, <1>2, <1>13, <1>14
<1> HIDE DEF out
<1>24. IsLoop(out, c, step, carry, d, E, C)
  BY <1>15, <1>16, <1>22 DEF IsLoop, n
<1> QED
  BY <1>23, <1>24 DEF n, Loops

(* A carry that weighs b keeps the value.                                  *)
SameValue(b, n, in, out, c) ==
  \A k \in 0 .. n :
    DigitsValue(b, out, k) + c[k] * Power(b, k) = DigitsValue(b, in, k) + c[0]

LEMMA LoopKeepsValue ==
  ASSUME NEW b \in Int, NEW n \in Nat, NEW in, NEW out, NEW c,
         \A i \in 1 .. n : in[i] \in Int /\ out[i] \in Int,
         \A i \in 0 .. n : c[i] \in Int,
         \A i \in 1 .. n : out[i] + b * c[i] = in[i] + c[i - 1]
  PROVE  SameValue(b, n, in, out, c)
<1> DEFINE T == {k \in 0 .. n :
                   DigitsValue(b, out, k) + c[k] * Power(b, k) = DigitsValue(b, in, k) + c[0]}
<1>1. 0 \in T
  BY PowerZero, NoDigits
<1>2. ASSUME NEW k \in 0 .. n - 1, k \in T PROVE k + 1 \in T
  <2> DEFINE w == Power(b, k)
             o == DigitsValue(b, out, k)
             v == DigitsValue(b, in, k)
  <2>1. k \in Nat /\ k + 1 \in 1 .. n /\ k + 1 \in 0 .. n /\ (k + 1) - 1 = k
    OBVIOUS
  <2>2. w \in Int /\ Power(b, k + 1) = b * w
    BY <2>1, PowerInt, PowerNext
  <2>3. \A i \in 1 .. k + 1 : in[i] \in Int /\ out[i] \in Int
    BY <2>1
  <2>4. v \in Int /\ o \in Int
    BY <2>1, <2>3, ValueInt
  <2>5. DigitsValue(b, out, k + 1) = o + out[k + 1] * w
    BY <2>1, <2>3, OneMoreDigit
  <2>6. DigitsValue(b, in, k + 1) = v + in[k + 1] * w
    BY <2>1, <2>3, OneMoreDigit
  <2>7. o + c[k] * w = v + c[0]
    BY <1>2
  <2> HIDE DEF w, o, v
  <2>8. c[k] \in Int /\ c[k + 1] \in Int /\ c[0] \in Int /\ in[k + 1] \in Int /\ out[k + 1] \in Int
    BY <2>1
  <2>9. out[k + 1] + b * c[k + 1] = in[k + 1] + c[k]
    BY <2>1
  <2>10. out[k + 1] * w + c[k + 1] * (b * w) = in[k + 1] * w + c[k] * w
    <3>1. (out[k + 1] + b * c[k + 1]) * w = out[k + 1] * w + (b * c[k + 1]) * w
      BY <2>2, <2>8, Distribute
    <3>2. (in[k + 1] + c[k]) * w = in[k + 1] * w + c[k] * w
      BY <2>2, <2>8, Distribute
    <3>3. (b * c[k + 1]) * w = c[k + 1] * (b * w)
      BY <2>2, <2>8
    <3> QED
      BY <3>1, <3>2, <3>3, <2>9
  <2>11. DigitsValue(b, out, k + 1) + c[k + 1] * Power(b, k + 1) = DigitsValue(b, in, k + 1) + c[0]
    <3>1. out[k + 1] * w \in Int /\ c[k + 1] * (b * w) \in Int /\ in[k + 1] * w \in Int /\ c[k] * w \in Int
      BY <2>2, <2>8
    <3> DEFINE x1 == out[k + 1] * w
               y1 == c[k + 1] * (b * w)
               z == in[k + 1] * w
               t == c[k] * w
    <3>2. x1 + y1 = z + t /\ o + t = v + c[0] /\ x1 \in Int /\ y1 \in Int /\ z \in Int /\ t \in Int
      BY <3>1, <2>7, <2>10
    <3> HIDE DEF x1, y1, z, t
    <3>3. (o + x1) + y1 = (v + z) + c[0]
      BY <3>2, <2>4, <2>8
    <3> USE DEF x1, y1, z
    <3> QED
      BY <3>3, <2>2, <2>5, <2>6
  <2> QED
    BY <2>1, <2>11
<1> HIDE DEF T
<1>3. \A k \in 0 .. n : k \in T
  BY <1>1, <1>2, Induction
<1> QED
  BY <1>3 DEF T, SameValue

(* The value is linear in the digits.                                      *)
IsLinear(b, s, p, m, q, n) ==
  DigitsValue(b, s, n) = DigitsValue(b, p, n) + m * DigitsValue(b, q, n)

LEMMA ValueLinear ==
  ASSUME NEW b \in Int, NEW n \in Nat, NEW m \in Int, NEW s, NEW p, NEW q,
         \A i \in 1 .. n : p[i] \in Int /\ q[i] \in Int /\ s[i] = p[i] + m * q[i]
  PROVE  IsLinear(b, s, p, m, q, n)
<1> DEFINE T == {k \in 0 .. n : DigitsValue(b, s, k) = DigitsValue(b, p, k) + m * DigitsValue(b, q, k)}
<1>0. \A i \in 1 .. n : s[i] \in Int
  OBVIOUS
<1>1. 0 \in T
  BY NoDigits
<1>2. ASSUME NEW k \in 0 .. n - 1, k \in T PROVE k + 1 \in T
  <2> DEFINE w == Power(b, k)
             vs == DigitsValue(b, s, k)
             vp == DigitsValue(b, p, k)
             vq == DigitsValue(b, q, k)
  <2>1. k \in Nat /\ k + 1 \in 1 .. n /\ k + 1 \in 0 .. n /\ vs = vp + m * vq
    BY <1>2
  <2>2. \A i \in 1 .. k + 1 : s[i] \in Int /\ p[i] \in Int /\ q[i] \in Int
    BY <1>0, <2>1
  <2>3. w \in Int /\ vs \in Int /\ vp \in Int /\ vq \in Int
    BY <2>1, <2>2, PowerInt, ValueInt
  <2>4. /\ DigitsValue(b, s, k + 1) = vs + s[k + 1] * w
        /\ DigitsValue(b, p, k + 1) = vp + p[k + 1] * w
        /\ DigitsValue(b, q, k + 1) = vq + q[k + 1] * w
    BY <2>1, <2>2, OneMoreDigit
  <2> HIDE DEF w, vs, vp, vq
  <2> DEFINE x1 == p[k + 1]
             y1 == q[k + 1]
  <2>5. x1 \in Int /\ y1 \in Int /\ s[k + 1] = x1 + m * y1
    BY <2>1
  <2> HIDE DEF x1, y1
  <2>6. (x1 + m * y1) * w = x1 * w + m * (y1 * w)
    <3>1. m * y1 \in Int /\ y1 * w \in Int
      BY <2>3, <2>5
    <3>2. (x1 + m * y1) * w = x1 * w + (m * y1) * w
      BY <2>3, <2>5, <3>1, Distribute
    <3>3. m * (y1 * w) = (m * y1) * w
      BY <2>3, <2>5, Distribute
    <3> QED
      BY <3>2, <3>3
  <2>7. m * (vq + y1 * w) = m * vq + m * (y1 * w)
    BY <2>3, <2>5, Distribute
  <2>8. /\ m * vq \in Int /\ x1 * w \in Int /\ m * (y1 * w) \in Int
    BY <2>3, <2>5
  <2>9. (vp + m * vq) + (x1 + m * y1) * w = (vp + x1 * w) + m * (vq + y1 * w)
    <3> DEFINE t1 == m * vq
               t2 == x1 * w
               t3 == m * (y1 * w)
    <3>1. t1 \in Int /\ t2 \in Int /\ t3 \in Int /\ (x1 + m * y1) * w = t2 + t3
          /\ m * (vq + y1 * w) = t1 + t3
      BY <2>6, <2>7, <2>8
    <3> HIDE DEF t1, t2, t3
    <3>2. (vp + t1) + (t2 + t3) = (vp + t2) + (t1 + t3)
      BY <3>1, <2>3
    <3> QED
      BY <3>1, <3>2 DEF t1, t2
  <2>10. /\ DigitsValue(b, s, k + 1) = (vp + m * vq) + (x1 + m * y1) * w
         /\ DigitsValue(b, p, k + 1) = vp + x1 * w
         /\ DigitsValue(b, q, k + 1) = vq + y1 * w
    <3>1. p[k + 1] = x1 /\ q[k + 1] = y1
      BY DEF x1, y1
    <3> QED
      BY <3>1, <2>1, <2>4, <2>5
  <2>11. DigitsValue(b, s, k + 1) = DigitsValue(b, p, k + 1) + m * DigitsValue(b, q, k + 1)
    BY <2>9, <2>10
  <2> QED
    BY <2>1, <2>11
<1> HIDE DEF T
<1>3. n \in T
  <2>1. \A i \in 0 .. n : i \in T
    BY <1>1, <1>2, Induction
  <2> QED
    BY <2>1
<1> QED
  BY <1>3 DEF T, IsLinear

(* n digits stand for less than b to the n.                                *)
LEMMA ValueBounds ==
  ASSUME NEW b \in Int, b > 0, NEW n \in Nat, NEW d, \A i \in 1 .. n : d[i] \in 0 .. b - 1
  PROVE  DigitsValue(b, d, n) \in 0 .. Power(b, n) - 1
<1> DEFINE T == {k \in 0 .. n : DigitsValue(b, d, k) \in 0 .. Power(b, k) - 1}
<1>1. 0 \in T
  BY NoDigits, PowerZero
<1>2. ASSUME NEW k \in 0 .. n - 1, k \in T PROVE k + 1 \in T
  <2> DEFINE w == Power(b, k)
             v == DigitsValue(b, d, k)
             x1 == d[k + 1]
  <2>1. k \in Nat /\ k + 1 \in 1 .. n /\ k + 1 \in 0 .. n /\ v \in 0 .. w - 1 /\ x1 \in 0 .. b - 1
    BY <1>2
  <2>2. \A i \in 1 .. k + 1 : d[i] \in Int
    BY <2>1
  <2>3. DigitsValue(b, d, k + 1) = v + x1 * w
    BY <2>1, <2>2, OneMoreDigit
  <2>4. w \in Int /\ w > 0 /\ Power(b, k + 1) = b * w /\ Power(b, k + 1) \in Int
    BY <2>1, PowerPositive, PowerNext, PowerInt
  <2> HIDE DEF w, v, x1
  <2>5. x1 * w <= (b - 1) * w /\ 0 * w <= x1 * w /\ (b - 1) * w = b * w - w
    <3>1. x1 \in Int /\ b - 1 \in Int /\ x1 <= b - 1 /\ 0 <= x1 /\ w >= 0 /\ 0 \in Int
      BY <2>1, <2>4
    <3>2. x1 * w <= (b - 1) * w
      BY <3>1, <2>4, Monotone
    <3>3. 0 * w <= x1 * w
      BY <3>1, <2>4, Monotone
    <3>4. (b - 1) * w = b * w - 1 * w
      BY <3>1, <2>4, Distribute
    <3> QED
      BY <3>2, <3>3, <3>4, <2>4
  <2>6. v + x1 * w \in 0 .. b * w - 1
    <3> DEFINE t == x1 * w
               u == b * w
    <3>1. t \in Int /\ u \in Int /\ t <= u - w /\ 0 <= t
      BY <2>1, <2>4, <2>5
    <3> HIDE DEF t, u
    <3>2. v + t \in 0 .. u - 1
      BY <3>1, <2>1, <2>4
    <3> QED
      BY <3>2 DEF t, u
  <2> QED
    BY <2>1, <2>3, <2>4, <2>6
<1> HIDE DEF T
<1>3. n \in T
  <2>1. \A i \in 0 .. n : i \in T
    BY <1>1, <1>2, Induction
  <2> QED
    BY <2>1
<1> QED
  BY <1>3 DEF T

(* What equal digits above t add to the value.                             *)
RiseAlike(b, d, e, t, n) ==
  DigitsValue(b, d, n) - DigitsValue(b, d, t) = DigitsValue(b, e, n) - DigitsValue(b, e, t)

LEMMA SameAbove ==
  ASSUME NEW b \in Int, NEW t \in Nat, NEW n \in Nat, t <= n, NEW d, NEW e,
         \A i \in 1 .. n : d[i] \in Int /\ e[i] \in Int, \A i \in t + 1 .. n : d[i] = e[i]
  PROVE  RiseAlike(b, d, e, t, n)
<1> DEFINE T == {k \in 0 .. n - t : DigitsValue(b, d, t + k) - DigitsValue(b, d, t)
                                      = DigitsValue(b, e, t + k) - DigitsValue(b, e, t)}
<1>0. n - t \in Nat
  OBVIOUS
<1>1. 0 \in T
  <2>1. t + 0 = t /\ 0 \in 0 .. n - t
    BY <1>0
  <2>2. DigitsValue(b, d, t) \in Int /\ DigitsValue(b, e, t) \in Int
    <3>1. \A i \in 1 .. t : d[i] \in Int /\ e[i] \in Int
      OBVIOUS
    <3> QED
      BY <3>1, ValueInt
  <2> QED
    BY <2>1, <2>2
<1>2. ASSUME NEW k \in 0 .. (n - t) - 1, k \in T PROVE k + 1 \in T
  <2> DEFINE m == t + k
             w == Power(b, m)
  <2>1. k \in Nat /\ k + 1 \in 0 .. n - t /\ m \in Nat /\ m + 1 \in 1 .. n /\ m + 1 \in t + 1 .. n
        /\ t + (k + 1) = m + 1
    BY <1>0
  <2>2. DigitsValue(b, d, m) - DigitsValue(b, d, t) = DigitsValue(b, e, m) - DigitsValue(b, e, t)
    BY <1>2
  <2>3. /\ \A i \in 1 .. m + 1 : d[i] \in Int /\ e[i] \in Int
        /\ \A i \in 1 .. m : d[i] \in Int /\ e[i] \in Int
        /\ \A i \in 1 .. t : d[i] \in Int /\ e[i] \in Int
    BY <2>1
  <2>4. DigitsValue(b, d, m) \in Int /\ DigitsValue(b, d, t) \in Int
        /\ DigitsValue(b, e, m) \in Int /\ DigitsValue(b, e, t) \in Int
    BY <2>1, <2>3, ValueInt
  <2>5. w \in Int
    BY <2>1, PowerInt
  <2>6. /\ DigitsValue(b, d, m + 1) = DigitsValue(b, d, m) + d[m + 1] * w
        /\ DigitsValue(b, e, m + 1) = DigitsValue(b, e, m) + e[m + 1] * w
    <3>1. m \in Nat
      BY <2>1
    <3> HIDE DEF m
    <3> QED
      BY <3>1, <2>3, OneMoreDigit
  <2>7. d[m + 1] = e[m + 1] /\ d[m + 1] \in Int
    BY <2>1
  <2> HIDE DEF m, w
  <2> DEFINE z == d[m + 1] * w
  <2>8. z \in Int
    BY <2>5, <2>7
  <2>9. /\ DigitsValue(b, d, m + 1) = DigitsValue(b, d, m) + z
        /\ DigitsValue(b, e, m + 1) = DigitsValue(b, e, m) + z
    BY <2>6, <2>7
  <2> HIDE DEF z
  <2>10. DigitsValue(b, d, m + 1) - DigitsValue(b, d, t) = DigitsValue(b, e, m + 1) - DigitsValue(b, e, t)
    BY <2>2, <2>4, <2>8, <2>9
  <2> QED
    BY <2>1, <2>10
<1> HIDE DEF T
<1>3. n - t \in T
  <2>1. \A i \in 0 .. n - t : i \in T
    BY <1>0, <1>1, <1>2, Induction
  <2> QED
    BY <1>0, <2>1
<1>4. t + (n - t) = n
  OBVIOUS
<1> QED
  BY <1>3, <1>4 DEF T, RiseAlike

(* Zeros above t add nothing.                                              *)
LEMMA ValueOfZeros ==
  ASSUME NEW b \in Int, NEW n \in Nat, NEW d, \A i \in 1 .. n : d[i] = 0
  PROVE  DigitsValue(b, d, n) = 0
<1> DEFINE T == {k \in 0 .. n : DigitsValue(b, d, k) = 0}
<1>1. 0 \in T
  BY NoDigits
<1>2. ASSUME NEW k \in 0 .. n - 1, k \in T PROVE k + 1 \in T
  <2>1. k \in Nat /\ k + 1 \in 1 .. n /\ k + 1 \in 0 .. n /\ DigitsValue(b, d, k) = 0
    BY <1>2
  <2>2. \A i \in 1 .. k + 1 : d[i] \in Int
    BY <2>1
  <2>3. DigitsValue(b, d, k + 1) = 0 + d[k + 1] * Power(b, k)
    BY <2>1, <2>2, OneMoreDigit
  <2>4. d[k + 1] = 0 /\ Power(b, k) \in Int
    BY <2>1, PowerInt
  <2> QED
    BY <2>1, <2>3, <2>4
<1> HIDE DEF T
<1>3. n \in T
  <2>1. \A i \in 0 .. n : i \in T
    BY <1>1, <1>2, Induction
  <2> QED
    BY <2>1
<1> QED
  BY <1>3 DEF T

LEMMA ZerosAbove ==
  ASSUME NEW b \in Int, NEW t \in Nat, NEW n \in Nat, t <= n, NEW d,
         \A i \in 1 .. n : d[i] \in Int, \A i \in t + 1 .. n : d[i] = 0
  PROVE  DigitsValue(b, d, n) = DigitsValue(b, d, t)
<1> DEFINE z == [i \in 1 .. n |-> 0]
<1>1. /\ \A i \in 1 .. n : d[i] \in Int /\ z[i] \in Int
      /\ \A i \in t + 1 .. n : d[i] = z[i]
      /\ \A i \in 1 .. n : z[i] = 0
      /\ \A i \in 1 .. t : z[i] = 0
  OBVIOUS
<1> HIDE DEF z
<1>2. DigitsValue(b, d, n) - DigitsValue(b, d, t) = DigitsValue(b, z, n) - DigitsValue(b, z, t)
  BY <1>1, SameAbove DEF RiseAlike
<1>3. DigitsValue(b, z, n) = 0 /\ DigitsValue(b, z, t) = 0
  BY <1>1, ValueOfZeros
<1>4. \A i \in 1 .. t : d[i] \in Int
  OBVIOUS
<1>5. DigitsValue(b, d, n) \in Int /\ DigitsValue(b, d, t) \in Int
  BY <1>1, <1>4, ValueInt
<1> QED
  BY <1>2, <1>3, <1>5

(* The digits above m weigh Power(b, m).                                   *)
LEMMA ValueSplit ==
  ASSUME NEW b \in Int, NEW m \in Nat, NEW n \in Nat, NEW d, NEW e,
         \A i \in 1 .. m + n : d[i] \in Int, \A i \in 1 .. n : e[i] = d[m + i]
  PROVE  DigitsValue(b, d, m + n) = DigitsValue(b, d, m) + Power(b, m) * DigitsValue(b, e, n)
<1> DEFINE v == DigitsValue(b, d, m)
           w == Power(b, m)
           T == {k \in 0 .. n : DigitsValue(b, d, m + k) = v + w * DigitsValue(b, e, k)}
<1>1. w \in Int /\ v \in Int
  <2>1. \A i \in 1 .. m : d[i] \in Int
    OBVIOUS
  <2> QED
    BY <2>1, PowerInt, ValueInt
<1>2. 0 \in T
  BY <1>1, NoDigits
<1>3. ASSUME NEW k \in 0 .. n - 1, k \in T PROVE k + 1 \in T
  <2> DEFINE l == m + k
             y1 == Power(b, k)
             ve == DigitsValue(b, e, k)
             x1 == e[k + 1]
  <2>1. k \in Nat /\ k + 1 \in 1 .. n /\ k + 1 \in 0 .. n /\ l \in Nat /\ m + (k + 1) = l + 1
        /\ DigitsValue(b, d, l) = v + w * ve
    BY <1>3
  <2>2. /\ \A i \in 1 .. l + 1 : d[i] \in Int
        /\ \A i \in 1 .. k + 1 : e[i] \in Int
        /\ \A i \in 1 .. k : e[i] \in Int
    <3>1. \A i \in 1 .. n : d[m + i] \in Int
      OBVIOUS
    <3> QED
      BY <2>1, <3>1
  <2>3. d[l + 1] = x1 /\ x1 \in Int
    BY <2>1, <2>2
  <2>4. ve \in Int /\ y1 \in Int
    BY <2>1, <2>2, ValueInt, PowerInt
  <2>5. DigitsValue(b, e, k + 1) = ve + x1 * y1
    BY <2>1, <2>2, OneMoreDigit
  <2>6. Power(b, l) = w * y1
    BY <2>1, PowerSum
  <2>7. DigitsValue(b, d, l + 1) = DigitsValue(b, d, l) + d[l + 1] * Power(b, l)
    <3>1. l \in Nat
      BY <2>1
    <3> HIDE DEF l
    <3> QED
      BY <3>1, <2>2, OneMoreDigit
  <2> HIDE DEF l, y1, ve, x1, v, w
  <2>8. DigitsValue(b, d, l + 1) = (v + w * ve) + x1 * (w * y1)
    BY <2>1, <2>3, <2>6, <2>7
  <2>9. x1 * (w * y1) = w * (x1 * y1) /\ w * (ve + x1 * y1) = w * ve + w * (x1 * y1)
    <3>1. x1 * y1 \in Int /\ w * y1 \in Int
      BY <2>3, <2>4, <1>1
    <3>2. w * (ve + x1 * y1) = w * ve + w * (x1 * y1)
      BY <3>1, <2>4, <1>1, Distribute
    <3>3. x1 * (w * y1) = (x1 * w) * y1 /\ w * (x1 * y1) = (w * x1) * y1 /\ x1 * w = w * x1
      BY <2>3, <2>4, <1>1, Distribute
    <3> QED
      BY <3>2, <3>3
  <2>10. w * ve \in Int /\ w * (x1 * y1) \in Int
    BY <2>3, <2>4, <1>1
  <2>11. (v + w * ve) + x1 * (w * y1) = v + w * (ve + x1 * y1)
    <3> DEFINE t1 == w * ve
               t2 == w * (x1 * y1)
    <3>1. t1 \in Int /\ t2 \in Int /\ x1 * (w * y1) = t2 /\ w * (ve + x1 * y1) = t1 + t2
      BY <2>9, <2>10
    <3> HIDE DEF t1, t2
    <3>2. (v + t1) + t2 = v + (t1 + t2)
      BY <3>1, <1>1
    <3> QED
      BY <3>1, <3>2 DEF t1
  <2>12. DigitsValue(b, d, m + (k + 1)) = v + w * DigitsValue(b, e, k + 1)
    BY <2>1, <2>5, <2>8, <2>11
  <2> QED
    BY <2>1, <2>12
<1> HIDE DEF T
<1>4. n \in T
  <2>1. \A i \in 0 .. n : i \in T
    BY <1>2, <1>3, Induction
  <2> QED
    BY <2>1
<1> QED
  BY <1>4 DEF T

(* A digit at the top weighs at least its place.                           *)
LEMMA TopDigit ==
  ASSUME NEW b \in Int, b > 0, NEW n \in Nat, NEW d, \A i \in 1 .. n + 1 : d[i] \in 0 .. b - 1,
         d[n + 1] # 0
  PROVE  DigitsValue(b, d, n + 1) >= Power(b, n) /\ DigitsValue(b, d, n + 1) \in Int
<1> DEFINE w == Power(b, n)
           v == DigitsValue(b, d, n)
           x1 == d[n + 1]
<1>1. /\ \A i \in 1 .. n + 1 : d[i] \in Int
      /\ \A i \in 1 .. n : d[i] \in 0 .. b - 1
      /\ x1 \in Int /\ x1 >= 1
  OBVIOUS
<1>2. DigitsValue(b, d, n + 1) = v + x1 * w
  BY <1>1, OneMoreDigit
<1>3. w \in Int /\ w > 0 /\ v \in 0 .. w - 1
  BY <1>1, PowerPositive, ValueBounds
<1> HIDE DEF w, v, x1
<1>4. 1 * w <= x1 * w
  BY <1>1, <1>3, Monotone
<1>5. x1 * w \in Int
  BY <1>1, <1>3
<1>6. v + x1 * w >= w
  <2> DEFINE t == x1 * w
  <2>1. t \in Int /\ w <= t
    BY <1>3, <1>4, <1>5
  <2> HIDE DEF t
  <2>2. v + t >= w
    BY <2>1, <1>3
  <2> QED
    BY <2>2 DEF t
<1> QED
  BY <1>2, <1>3, <1>5, <1>6 DEF w

(* Words and digits.                                                       *)
LEMMA BaseFacts ==
  /\ HalfBits \in Nat /\ HalfBits >= 2 /\ DigitBits = HalfBits + HalfBits
  /\ Half \in Int /\ Half >= 4 /\ Base = Half * Half
  /\ Base \in Int /\ Base >= 4 * Half /\ Base >= 16 /\ Base = Power(2, DigitBits)
  /\ MostPositive \in Int /\ MostPositive >= 3 /\ Base = 4 * (MostPositive + 1)
  /\ MostNegative = -MostPositive - 1
<1>1. HalfBits \in Nat /\ HalfBits >= 2 /\ DigitBits = HalfBits + HalfBits /\ DigitBits \in Nat
  BY DigitAssumption DEF HalfBits
<1>2. Power(2, 1) = 2 /\ Power(2, 2) = 4
  <2>1. Power(2, 0) = 1
    BY PowerZero
  <2>2. Power(2, 0 + 1) = 2 * Power(2, 0) /\ Power(2, 1 + 1) = 2 * Power(2, 1)
    BY PowerNext
  <2>3. 0 + 1 = 1 /\ 1 + 1 = 2
    OBVIOUS
  <2> QED
    BY <2>1, <2>2, <2>3
<1>3. \A k \in Nat : Power(2, 2 + k) = 4 * Power(2, k) /\ Power(2, k) \in Int /\ Power(2, k) >= 1
  <2> TAKE k \in Nat
  <2>1. Power(2, 2 + k) = Power(2, 2) * Power(2, k)
    BY PowerSum
  <2>2. Power(2, k) \in Int /\ Power(2, k) > 0
    BY PowerPositive
  <2> QED
    BY <2>1, <2>2, <1>2
<1>4. Half \in Int /\ Half >= 4
  <2>1. HalfBits - 2 \in Nat /\ 2 + (HalfBits - 2) = HalfBits
    BY <1>1
  <2> QED
    BY <2>1, <1>3, DigitAssumption
<1>5. Base = Half * Half /\ Base \in Int /\ Base >= 4 * Half /\ Base >= 16
  <2>1. Base = Half * Half
    BY DEF Base
  <2>2. 4 * Half <= Half * Half /\ Half * Half \in Int
    BY <1>4, Monotone
  <2> QED
    BY <2>1, <2>2, <1>4
<1>6. Base = Power(2, DigitBits)
  BY <1>1, PowerSum, DigitAssumption DEF Base
<1>7. MostPositive \in Int /\ MostPositive >= 3 /\ Base = 4 * (MostPositive + 1)
  <2> DEFINE k == DigitBits - 2
  <2>1. k \in Nat /\ 2 + k = DigitBits
    BY <1>1
  <2> HIDE DEF k
  <2>2. Base = 4 * Power(2, k) /\ Power(2, k) \in Int
    BY <2>1, <1>3, <1>6
  <2> DEFINE p == Power(2, k)
  <2>3. Base = 4 * p + 0 /\ p \in Int
    BY <2>2
  <2> HIDE DEF p
  <2>4. Base \div 4 = p
    BY <2>3, <1>5, DivUnique
  <2> QED
    BY <2>3, <2>4, <1>5 DEF MostPositive
<1> QED
  BY <1>1, <1>4, <1>5, <1>6, <1>7 DEF MostNegative

(* The number that all the digits stand for.                               *)
Amount(d) == DigitsValue(Base, d, Len(d))

LEMMA AmountBounds ==
  ASSUME NEW d \in Seq(Digit)
  PROVE  /\ Amount(d) \in 0 .. Power(Base, Len(d)) - 1 /\ Amount(d) \in Nat
         /\ Power(Base, Len(d)) \in Int /\ Power(Base, Len(d)) > 0
<1>1. Base \in Int /\ Base > 0 /\ Len(d) \in Nat
  BY BaseFacts
<1>2. \A i \in 1 .. Len(d) : d[i] \in 0 .. Base - 1
  <2>1. \A i \in 1 .. Len(d) : d[i] \in Digit
    OBVIOUS
  <2> QED
    BY <2>1 DEF Digit
<1>3. Power(Base, Len(d)) \in Int /\ Power(Base, Len(d)) > 0
  BY <1>1, PowerPositive
<1>4. DigitsValue(Base, d, Len(d)) \in 0 .. Power(Base, Len(d)) - 1
  BY <1>1, <1>2, ValueBounds
<1> QED
  BY <1>3, <1>4 DEF Amount

(* Without the leading zeros.                                              *)
IsStripped(s, d) ==
  /\ Len(s) <= Len(d) /\ \A i \in 1 .. Len(s) : s[i] = d[i]
  /\ \A i \in Len(s) + 1 .. Len(d) : d[i] = 0
  /\ Len(s) > 0 => s[Len(s)] # 0

LEMMA StrippedDigits ==
  ASSUME NEW D, NEW d \in Seq(D) PROVE Stripped(d) \in Seq(D) /\ IsStripped(Stripped(d), d)
<1> DEFINE n == Len(d)
           P(k) == (k > 0 => d[k] # 0) /\ \A i \in k + 1 .. n : d[i] = 0
           T == {j \in 0 .. n : \E k \in 0 .. n - j : P(k)
                                  \/ \A i \in n - j + 1 .. n : d[i] = 0}
           Z == {j \in 0 .. n : (\A i \in (n - j) + 1 .. n : d[i] = 0) \/ \E k \in 0 .. n : P(k)}
<1>1. n \in Nat
  OBVIOUS
<1> HIDE DEF n
<1>2. 0 \in Z
  BY <1>1
<1>3. ASSUME NEW j \in 0 .. n - 1, j \in Z PROVE j + 1 \in Z
  <2>1. CASE \E k \in 0 .. n : P(k)
    BY <2>1, <1>1
  <2>2. CASE \A i \in (n - j) + 1 .. n : d[i] = 0
    <3>1. CASE d[n - j] = 0
      <4>1. \A i \in (n - (j + 1)) + 1 .. n : i = n - j \/ i \in (n - j) + 1 .. n
        BY <1>1
      <4> QED
        BY <4>1, <3>1, <2>2, <1>1
    <3>2. CASE d[n - j] # 0
      <4>1. n - j \in 0 .. n /\ P(n - j)
        BY <3>2, <2>2, <1>1
      <4> QED
        BY <4>1, <1>1
    <3> QED
      BY <3>1, <3>2
  <2> QED
    BY <2>1, <2>2, <1>3
<1> HIDE DEF Z
<1>4. \A j \in 0 .. n : j \in Z
  BY <1>1, <1>2, <1>3, Induction
<1>5. \E k \in 0 .. n : P(k)
  <2>1. n \in Z /\ n - n = 0
    BY <1>1, <1>4
  <2>2. CASE \A i \in 0 + 1 .. n : d[i] = 0
    <3>1. P(0)
      BY <2>2
    <3> QED
      BY <3>1, <1>1
  <2> QED
    BY <2>1, <2>2 DEF Z
<1> DEFINE c == CHOOSE k \in 0 .. n : P(k)
<1>6. Stripped(d) = SubSeq(d, 1, c)
  BY DEF Stripped, n
<1>7. c \in 0 .. n /\ P(c)
  BY <1>5
<1> HIDE DEF c
<1> DEFINE s == SubSeq(d, 1, c)
<1>8. s \in Seq(D) /\ Len(s) = c /\ \A i \in 1 .. c : s[i] = d[i]
  BY <1>7, SubSeqProperties DEF n
<1> HIDE DEF s
<1>9. IsStripped(s, d)
  BY <1>1, <1>7, <1>8 DEF IsStripped, n
<1> QED
  BY <1>6, <1>8, <1>9 DEF s

LEMMA StrippedAmount ==
  ASSUME NEW d \in Seq(Digit), NEW s \in Seq(Digit), IsStripped(s, d)
  PROVE  Amount(s) = Amount(d)
<1>1. Base \in Int /\ Len(s) \in Nat /\ Len(d) \in Nat /\ Len(s) <= Len(d)
      /\ \A i \in 1 .. Len(s) : s[i] \in Int /\ d[i] = s[i]
  BY BaseFacts DEF Digit, IsStripped
<1>2. \A i \in 1 .. Len(d) : d[i] \in Int
  BY BaseFacts DEF Digit
<1>3. DigitsValue(Base, s, Len(s)) = DigitsValue(Base, d, Len(s))
  BY <1>1, SameDigits
<1>4. DigitsValue(Base, d, Len(d)) = DigitsValue(Base, d, Len(s))
  <2>1. \A i \in Len(s) + 1 .. Len(d) : d[i] = 0
    BY DEF IsStripped
  <2> QED
    BY <1>1, <1>2, <2>1, ZerosAbove
<1> QED
  BY <1>3, <1>4 DEF Amount

LEMMA OneDigit ==
  ASSUME NEW d \in Seq(Digit), Len(d) = 1 PROVE Amount(d) = d[1] /\ d[1] \in Digit /\ d[1] \in Int
<1>0. d[1] \in Digit
  OBVIOUS
<1>1. Base \in Int /\ d[1] \in Digit /\ d[1] \in Int
  BY <1>0, BaseFacts DEF Digit
<1>2. DigitsValue(Base, d, 0 + 1) = DigitsValue(Base, d, 0) + d[0 + 1] * Power(Base, 0)
  <2>1. \A i \in 1 .. 0 + 1 : d[i] \in Int
    BY <1>1
  <2> QED
    BY <1>1, <2>1, OneMoreDigit
<1>3. DigitsValue(Base, d, 0) = 0 /\ Power(Base, 0) = 1 /\ 0 + 1 = 1
  BY <1>1, NoDigits, PowerZero
<1>4. Amount(d) = DigitsValue(Base, d, 1)
  BY DEF Amount
<1>5. DigitsValue(Base, d, 1) = 0 + d[1] * 1
  BY <1>2, <1>3
<1> QED
  BY <1>1, <1>4, <1>5

-----------------------------------------------------------------------------
(* r is the integer n, in its only form.                                   *)
IsExactly(r, n) == r \in ExactInteger /\ IntegerStored(r) /\ Value(r) = n

LEMMA FixIsExact ==
  ASSUME NEW n \in Int, FitsFixnum(n) PROVE IsExactly(Fix(n), n)
BY DEF IsExactly, Fix, IsFix, IntegerStored, Value, ExactInteger

LEMMA BigIsExact ==
  ASSUME NEW neg \in BOOLEAN, NEW d \in Seq(Digit), Len(d) > 0, d[Len(d)] # 0,
         Len(d) = 1 => ~FitsFixnum(Signed(neg, d[1]))
  PROVE  IsExactly(Big(neg, d), Signed(neg, Amount(d)))
<1> DEFINE x1 == Big(neg, d)
<1>1. x1.kind = "big" /\ x1.neg = neg /\ x1.d = d /\ ~IsFix(x1) /\ Size(x1) = Len(d)
  BY DEF Big, IsFix, Size
<1>2. x1 \in ExactInteger
  <2>1. Digit \subseteq Nat
    BY BaseFacts DEF Digit
  <2>2. d \in Seq(Nat)
    <3>1. \A i \in 1 .. Len(d) : d[i] \in Nat
      <4>1. \A i \in 1 .. Len(d) : d[i] \in Digit
        OBVIOUS
      <4> QED
        BY <4>1, <2>1
    <3> QED
      BY <3>1, SeqDef
  <2> QED
    BY <2>2 DEF Big, ExactInteger
<1> HIDE DEF x1
<1>3. IntegerStored(x1)
  <2>1. d # <<>> /\ Last(d) # 0 /\ \A i \in DOMAIN d : d[i] \in Digit
    BY DEF Last
  <2> QED
    BY <1>1, <2>1 DEF IntegerStored
<1>4. Value(x1) = Signed(neg, Amount(d))
  BY <1>1 DEF Value, Amount
<1> QED
  BY <1>2, <1>3, <1>4 DEF IsExactly, x1

LEMMA InOneFormExact ==
  ASSUME NEW neg \in BOOLEAN, NEW d \in Seq(Digit), Len(d) > 0 => d[Len(d)] # 0
  PROVE  IsExactly(InOneForm(neg, d), Signed(neg, Amount(d)))
<1>1. CASE Len(d) = 0
  <2>1. d = <<>>
    BY <1>1
  <2>2. Amount(d) = 0
    BY <1>1, BaseFacts, NoDigits DEF Amount
  <2>3. FitsFixnum(0)
    BY BaseFacts DEF FitsFixnum
  <2>4. IsExactly(Fix(0), 0)
    BY <2>3, FixIsExact
  <2>5. InOneForm(neg, d) = Fix(0)
    BY <2>1 DEF InOneForm, Zero
  <2> QED
    BY <2>2, <2>4, <2>5 DEF Signed
<1>2. CASE Len(d) = 1
  <2>1. Amount(d) = d[1] /\ d[1] \in Int
    BY <1>2, OneDigit
  <2>2. d # <<>> /\ ~(Len(d) > 1)
    BY <1>2
  <2>3. InOneForm(neg, d) = FixnumOr(Big(neg, d), Signed(neg, d[1]))
    BY <2>2 DEF InOneForm, Signed
  <2>4. Signed(neg, d[1]) \in Int
    BY <2>1 DEF Signed
  <2>5. CASE FitsFixnum(Signed(neg, d[1]))
    BY <2>1, <2>3, <2>4, <2>5, FixIsExact DEF FixnumOr
  <2>6. CASE ~FitsFixnum(Signed(neg, d[1]))
    BY <1>2, <2>3, <2>6, BigIsExact DEF FixnumOr
  <2> QED
    BY <2>5, <2>6
<1>3. CASE Len(d) > 1
  <2>1. InOneForm(neg, d) = Big(neg, d)
    BY <1>3 DEF InOneForm
  <2>2. Len(d) # 1 /\ Len(d) > 0
    BY <1>3
  <2> QED
    BY <2>1, <2>2, BigIsExact
<1>4. Len(d) \in Nat
  OBVIOUS
<1>5. Len(d) = 0 \/ Len(d) = 1 \/ Len(d) > 1
  <2> DEFINE n == Len(d)
  <2>1. n \in Nat
    BY <1>4
  <2> HIDE DEF n
  <2>2. n = 0 \/ n = 1 \/ n > 1
    BY <2>1
  <2> QED
    BY <2>2 DEF n
<1> QED
  BY <1>1, <1>2, <1>3, <1>5

(* C_bignum_simplify keeps the integer and finds its only form.            *)
THEOREM SimplifyExact ==
  ASSUME NEW neg \in BOOLEAN, NEW d \in Seq(Digit)
  PROVE  IsExactly(Simplify(neg, d), Signed(neg, Amount(d)))
<1> DEFINE s == Stripped(d)
<1>1. s \in Seq(Digit) /\ IsStripped(s, d)
  BY StrippedDigits
<1>2. Simplify(neg, d) = InOneForm(neg, s)
  BY DEF Simplify
<1> HIDE DEF s
<1>3. Amount(s) = Amount(d)
  BY <1>1, StrippedAmount
<1>4. Len(s) > 0 => s[Len(s)] # 0
  BY <1>1 DEF IsStripped
<1>5. IsExactly(InOneForm(neg, s), Signed(neg, Amount(s)))
  BY <1>1, <1>4, InOneFormExact
<1> QED
  BY <1>2, <1>3, <1>5

LEMMA FromWordExact ==
  ASSUME NEW n \in Int, Magnitude(n) < Base PROVE IsExactly(FromWord(n), n)
<1>1. CASE FitsFixnum(n)
  BY <1>1, FixIsExact DEF FromWord
<1>2. CASE ~FitsFixnum(n)
  <2> DEFINE d == <<Magnitude(n)>>
             neg == n < 0
  <2>1. Magnitude(n) \in Digit /\ Magnitude(n) # 0 /\ Signed(neg, Magnitude(n)) = n
    BY <1>2, BaseFacts DEF Magnitude, Digit, FitsFixnum, Signed
  <2>2. d \in Seq(Digit) /\ Len(d) = 1 /\ d[1] = Magnitude(n)
    BY <2>1
  <2>3. FromWord(n) = Big(neg, d) /\ neg \in BOOLEAN
    BY <1>2 DEF FromWord
  <2> HIDE DEF d, neg
  <2>4. Amount(d) = Magnitude(n)
    BY <2>2, OneDigit
  <2>5. IsExactly(Big(neg, d), Signed(neg, Amount(d)))
    BY <2>1, <2>2, <2>3, <1>2, BigIsExact
  <2> QED
    BY <2>1, <2>3, <2>4, <2>5
<1> QED
  BY <1>1, <1>2

(* Sums of digits.                                                         *)
Added1(p) == [i \in DOMAIN p |-> p[i][1]]
Added2(p) == [i \in DOMAIN p |-> p[i][2]]

SumStep ==
  [p \in Digit \X Digit |-> [c \in 0 .. 1 |->
     LET s == (p[1] + p[2] + c) % Base IN <<s, Bit(Carried(p[1], s, c))>>]]

LEMMA SumOfTwo ==
  ASSUME NEW x1 \in Digit, NEW y1 \in Digit, NEW c \in 0 .. 1, NEW s, s = (x1 + y1 + c) % Base
  PROVE  /\ s \in Digit /\ Bit(Carried(x1, s, c)) \in 0 .. 1
         /\ s + Base * Bit(Carried(x1, s, c)) = x1 + y1 + c
<1>1. Base \in Int /\ Base >= 16 /\ x1 \in 0 .. Base - 1 /\ y1 \in 0 .. Base - 1
  BY BaseFacts DEF Digit
<1> DEFINE t == x1 + y1 + c
<1>2. t \in Int /\ 0 <= t /\ t <= 2 * Base - 1
  BY <1>1
<1>3. CASE t < Base
  <2>1. t \in 0 .. Base - 1 /\ t = Base * 0 + t
    BY <1>1, <1>2, <1>3
  <2>2. s = t
    <3> HIDE DEF t
    <3>1. t % Base = t
      BY <1>1, <1>2, <2>1, DivUnique
    <3> QED
      BY <3>1 DEF t
  <2>3. ~Carried(x1, s, c)
    BY <2>2, <1>1 DEF Carried
  <2> QED
    BY <2>1, <2>2, <2>3, <1>1 DEF Digit, Bit
<1>4. CASE t >= Base
  <2> DEFINE r == t - Base
  <2>1. r \in 0 .. Base - 1 /\ t = Base * 1 + r
    BY <1>1, <1>2, <1>4
  <2>2. s = r
    <3> HIDE DEF t, r
    <3>1. t % Base = r
      BY <1>1, <1>2, <2>1, DivUnique
    <3> QED
      BY <3>1 DEF t
  <2>3. Carried(x1, s, c)
    BY <2>2, <1>1, <1>4 DEF Carried
  <2> QED
    BY <2>1, <2>2, <2>3, <1>1 DEF Digit, Bit
<1> QED
  BY <1>2, <1>1, <1>3, <1>4

LEMMA SumStepParts ==
  ASSUME NEW p \in Digit \X Digit, NEW c \in 0 .. 1
  PROVE  /\ SumStep[p][c][1] \in Digit /\ SumStep[p][c][2] \in 0 .. 1
         /\ SumStep[p][c][1] + Base * SumStep[p][c][2] = p[1] + p[2] + c
<1> DEFINE s == (p[1] + p[2] + c) % Base
           k == Bit(Carried(p[1], s, c))
<1>1. SumStep[p][c] = <<s, k>>
  BY DEF SumStep
<1>2. p[1] \in Digit /\ p[2] \in Digit
  OBVIOUS
<1>3. s \in Digit /\ k \in 0 .. 1 /\ s + Base * k = p[1] + p[2] + c
  BY <1>2, SumOfTwo
<1> HIDE DEF s, k
<1>4. SumStep[p][c][1] = s /\ SumStep[p][c][2] = k
  BY <1>1
<1> QED
  BY <1>3, <1>4

LEMMA DigitsAreInt == Digit \subseteq Int /\ Digit \subseteq Nat /\ 0 \in Digit
BY BaseFacts DEF Digit

LEMMA DigitSequence ==
  ASSUME NEW d \in Seq(Digit)
  PROVE  Len(d) \in Nat /\ \A i \in 1 .. Len(d) : d[i] \in Digit /\ d[i] \in Int
<1>1. Len(d) \in Nat /\ \A i \in 1 .. Len(d) : d[i] \in Digit
  OBVIOUS
<1> QED
  BY <1>1, DigitsAreInt

AddsUp(out, n, u, v) ==
  /\ out \in Seq(Digit) /\ Len(out) = n
  /\ Amount(out) = DigitsValue(Base, u, n) + DigitsValue(Base, v, n)

(* Sums digit by digit, when the last carry is zero.                       *)
LEMMA SumOfPairs ==
  ASSUME NEW n \in Nat, NEW d \in Seq(Digit \X Digit), Len(d) = n, NEW u, NEW v,
         \A i \in 1 .. n : d[i][1] = u[i] /\ d[i][2] = v[i],
         DigitsValue(Base, u, n) + DigitsValue(Base, v, n) < Power(Base, n)
  PROVE  AddsUp(SumOfDigits(d), n, u, v)
<1> DEFINE out == Upward(SumStep, 0, d)[1]
           P == Digit \X Digit
           C == 0 .. 1
           in == [i \in 1 .. n |-> u[i] + v[i]]
<1>1. SumOfDigits(d) = out
  BY DEF SumOfDigits, SumStep
<1>2. \A x1 \in P, c \in C : SumStep[x1][c][1] \in Digit /\ SumStep[x1][c][2] \in C
  BY SumStepParts
<1>3. PICK c : IsLoop(out, c, SumStep, 0, d, Digit, C)
  <2>1. 0 \in C /\ d \in Seq(P)
    OBVIOUS
  <2> HIDE DEF C, P
  <2>2. Loops(Upward(SumStep, 0, d), SumStep, 0, d, Digit, C)
    BY <1>2, <2>1, UpwardIsLoop
  <2> QED
    BY <2>2 DEF Loops
<1> HIDE DEF out
<1>4. /\ out \in Seq(Digit) /\ Len(out) = n
      /\ c \in [0 .. n -> 0 .. 1] /\ c[0] = 0
      /\ \A i \in 1 .. n : out[i] = SumStep[d[i]][c[i - 1]][1] /\ c[i] = SumStep[d[i]][c[i - 1]][2]
  BY <1>3 DEF IsLoop
<1>5. ASSUME NEW i \in 1 .. n
      PROVE  /\ u[i] \in Digit /\ v[i] \in Digit /\ u[i] \in Int /\ v[i] \in Int
             /\ c[i - 1] \in 0 .. 1 /\ c[i] \in 0 .. 1
             /\ out[i] + Base * c[i] = u[i] + v[i] + c[i - 1]
  <2>1. d[i] \in Digit \X Digit
    OBVIOUS
  <2>2. c[i - 1] \in 0 .. 1 /\ c[i] \in 0 .. 1
    BY <1>4
  <2>3. SumStep[d[i]][c[i - 1]][1] + Base * SumStep[d[i]][c[i - 1]][2] = d[i][1] + d[i][2] + c[i - 1]
    BY <2>1, <2>2, SumStepParts
  <2>4. u[i] \in Digit /\ v[i] \in Digit
    BY <2>1
  <2> QED
    BY <2>2, <2>3, <2>4, <1>4, DigitsAreInt
<1>6. \A i \in 1 .. n : out[i] \in Digit /\ out[i] \in Int
  BY <1>4, DigitSequence
<1>7. Base \in Int
  BY BaseFacts
<1>8. \A k \in 0 .. n : DigitsValue(Base, out, k) + c[k] * Power(Base, k) = DigitsValue(Base, in, k) + c[0]
  <2>1. \A i \in 1 .. n : in[i] \in Int /\ out[i] \in Int
    BY <1>5, <1>6
  <2>2. \A i \in 0 .. n : c[i] \in Int
    BY <1>4
  <2>3. \A i \in 1 .. n : out[i] + Base * c[i] = in[i] + c[i - 1]
    BY <1>5
  <2> HIDE DEF in
  <2>4. SameValue(Base, n, in, out, c)
    BY <1>7, <2>1, <2>2, <2>3, LoopKeepsValue
  <2> QED
    BY <2>4 DEF SameValue
<1>9. DigitsValue(Base, in, n) = DigitsValue(Base, u, n) + DigitsValue(Base, v, n)
  <2>1. \A i \in 1 .. n : u[i] \in Int /\ v[i] \in Int /\ in[i] = u[i] + 1 * v[i]
    BY <1>5
  <2> HIDE DEF in
  <2>2. DigitsValue(Base, in, n) = DigitsValue(Base, u, n) + 1 * DigitsValue(Base, v, n)
    BY <1>7, <2>1, ValueLinear DEF IsLinear
  <2>3. DigitsValue(Base, v, n) \in Int
    BY <1>7, <2>1, ValueInt
  <2> QED
    BY <2>2, <2>3
<1> HIDE DEF in
<1>10. DigitsValue(Base, out, n) + c[n] * Power(Base, n) = DigitsValue(Base, in, n)
  <2>1. n \in 0 .. n
    OBVIOUS
  <2>2. DigitsValue(Base, out, n) + c[n] * Power(Base, n) = DigitsValue(Base, in, n) + 0
    BY <1>4, <1>8, <2>1
  <2>3. DigitsValue(Base, u, n) \in Int /\ DigitsValue(Base, v, n) \in Int
    BY <1>5, <1>7, ValueInt
  <2> QED
    BY <2>2, <2>3, <1>9
<1>11. c[n] = 0
  <2>1. Amount(out) \in Nat /\ Power(Base, n) \in Int /\ Power(Base, n) > 0 /\ c[n] \in 0 .. 1
    BY <1>4, AmountBounds
  <2>2. Amount(out) + c[n] * Power(Base, n) < Power(Base, n)
    BY <1>4, <1>9, <1>10 DEF Amount
  <2> QED
    BY <2>1, <2>2
<1>12. Amount(out) = DigitsValue(Base, in, n)
  <2>1. Amount(out) \in Int /\ Power(Base, n) \in Int
    BY <1>4, AmountBounds
  <2>2. Amount(out) + 0 * Power(Base, n) = DigitsValue(Base, in, n)
    BY <1>4, <1>10, <1>11 DEF Amount
  <2> QED
    BY <2>1, <2>2
<1> QED
  BY <1>1, <1>4, <1>9, <1>12 DEF AddsUp

(* Digits with zeros above them.                                           *)
LEMMA PaddedAmount ==
  ASSUME NEW a \in Seq(Digit), NEW n \in Nat, Len(a) <= n, NEW u,
         \A i \in 1 .. n : u[i] = DigitOf(a, i)
  PROVE  /\ DigitsValue(Base, u, n) = Amount(a)
         /\ \A i \in 1 .. n : u[i] \in Digit /\ u[i] \in Int
<1>1. Base \in Int /\ Len(a) \in Nat /\ \A i \in 1 .. Len(a) : a[i] \in Digit /\ a[i] \in Int
  BY BaseFacts, DigitSequence
<1>2. \A i \in 1 .. n : u[i] \in Digit /\ u[i] \in Int
  BY <1>1, DigitsAreInt DEF DigitOf
<1>3. \A i \in 1 .. Len(a) : u[i] = a[i]
  BY <1>1 DEF DigitOf
<1>4. \A i \in Len(a) + 1 .. n : u[i] = 0
  BY <1>1 DEF DigitOf
<1>5. DigitsValue(Base, u, n) = DigitsValue(Base, u, Len(a))
  BY <1>1, <1>2, <1>4, ZerosAbove
<1>6. DigitsValue(Base, a, Len(a)) = DigitsValue(Base, u, Len(a))
  BY <1>1, <1>3, SameDigits
<1> QED
  BY <1>2, <1>5, <1>6 DEF Amount

LEMMA PairsOfDigits ==
  ASSUME NEW a \in Seq(Digit), NEW b \in Seq(Digit), NEW n \in Nat
  PROVE  /\ Pairs(a, b, n) \in Seq(Digit \X Digit) /\ Len(Pairs(a, b, n)) = n
         /\ \A i \in 1 .. n : Pairs(a, b, n)[i][1] = DigitOf(a, i) /\ Pairs(a, b, n)[i][2] = DigitOf(b, i)
<1> DEFINE p == [i \in 1 .. n |-> <<DigitOf(a, i), DigitOf(b, i)>>]
<1>1. \A i \in 1 .. n : DigitOf(a, i) \in Digit /\ DigitOf(b, i) \in Digit
  BY DigitSequence, DigitsAreInt DEF DigitOf
<1>2. \A i \in 1 .. n : p[i] = <<DigitOf(a, i), DigitOf(b, i)>>
  OBVIOUS
<1>3. \A i \in 1 .. n : p[i] \in Digit \X Digit /\ p[i][1] = DigitOf(a, i) /\ p[i][2] = DigitOf(b, i)
  BY <1>1, <1>2
<1>4. DOMAIN p = 1 .. n /\ p = [i \in 1 .. n |-> p[i]]
  OBVIOUS
<1> HIDE DEF p
<1> DEFINE D == Digit \X Digit
<1>5. \A i \in 1 .. n : p[i] \in D
  BY <1>3
<1> HIDE DEF D
<1>6. p \in [1 .. n -> D]
  BY <1>4, <1>5
<1>7. p \in Seq(D) /\ Len(p) = n
  BY <1>6
<1> QED
  BY <1>3, <1>7 DEF p, Pairs, D

DifferenceStep ==
  [p \in Digit \X Digit |-> [c \in 0 .. 1 |->
     LET d == (p[1] - p[2] - c) % Base IN <<d, Bit(Carried(d, p[1], c))>>]]

LEMMA DifferenceOfTwo ==
  ASSUME NEW x1 \in Digit, NEW y1 \in Digit, NEW c \in 0 .. 1, NEW s, s = (x1 - y1 - c) % Base
  PROVE  /\ s \in Digit /\ Bit(Carried(s, x1, c)) \in 0 .. 1
         /\ s - Base * Bit(Carried(s, x1, c)) = x1 - y1 - c
<1>1. Base \in Int /\ Base >= 16 /\ x1 \in 0 .. Base - 1 /\ y1 \in 0 .. Base - 1
  BY BaseFacts DEF Digit
<1> DEFINE t == x1 - y1 - c
<1>2. t \in Int /\ -Base <= t /\ t < Base
  BY <1>1
<1>3. CASE t >= 0
  <2>1. t \in 0 .. Base - 1 /\ t = Base * 0 + t
    BY <1>1, <1>2, <1>3
  <2>2. s = t
    <3> HIDE DEF t
    <3>1. t % Base = t
      BY <1>1, <1>2, <2>1, DivUnique
    <3> QED
      BY <3>1 DEF t
  <2>3. ~Carried(s, x1, c)
    BY <2>2, <1>1 DEF Carried
  <2> QED
    BY <2>1, <2>2, <2>3, <1>1 DEF Digit, Bit
<1>4. CASE t < 0
  <2> DEFINE r == t + Base
  <2>1. r \in 0 .. Base - 1 /\ t = Base * (-1) + r
    BY <1>1, <1>2, <1>4
  <2>2. s = r
    <3> HIDE DEF t, r
    <3>1. t % Base = r
      BY <1>1, <1>2, <2>1, DivUnique
    <3> QED
      BY <3>1 DEF t
  <2>3. Carried(s, x1, c)
    BY <2>2, <1>1, <1>4 DEF Carried
  <2> QED
    BY <2>1, <2>2, <2>3, <1>1 DEF Digit, Bit
<1> QED
  BY <1>2, <1>1, <1>3, <1>4

LEMMA DifferenceStepParts ==
  ASSUME NEW p \in Digit \X Digit, NEW c \in 0 .. 1
  PROVE  /\ DifferenceStep[p][c][1] \in Digit /\ DifferenceStep[p][c][2] \in 0 .. 1
         /\ DifferenceStep[p][c][1] - Base * DifferenceStep[p][c][2] = p[1] - p[2] - c
<1> DEFINE s == (p[1] - p[2] - c) % Base
           k == Bit(Carried(s, p[1], c))
<1>1. DifferenceStep[p][c] = <<s, k>>
  BY DEF DifferenceStep
<1>2. p[1] \in Digit /\ p[2] \in Digit
  OBVIOUS
<1>3. s \in Digit /\ k \in 0 .. 1 /\ s - Base * k = p[1] - p[2] - c
  BY <1>2, DifferenceOfTwo
<1> HIDE DEF s, k
<1>4. DifferenceStep[p][c][1] = s /\ DifferenceStep[p][c][2] = k
  BY <1>1
<1> QED
  BY <1>3, <1>4

IsDifference(out, n, u, v) ==
  /\ out \in Seq(Digit) /\ Len(out) = n
  /\ Amount(out) = DigitsValue(Base, u, n) - DigitsValue(Base, v, n)

LEMMA DifferenceOfPairs ==
  ASSUME NEW n \in Nat, NEW d \in Seq(Digit \X Digit), Len(d) = n, NEW u, NEW v,
         \A i \in 1 .. n : d[i][1] = u[i] /\ d[i][2] = v[i],
         DigitsValue(Base, v, n) <= DigitsValue(Base, u, n)
  PROVE  IsDifference(DifferenceOfDigits(d), n, u, v)
<1> DEFINE out == Upward(DifferenceStep, 0, d)[1]
           P == Digit \X Digit
           C == 0 .. 1
           in == [i \in 1 .. n |-> u[i] - v[i]]
<1>1. DifferenceOfDigits(d) = out
  BY DEF DifferenceOfDigits, DifferenceStep
<1>2. \A x1 \in P, c \in C : DifferenceStep[x1][c][1] \in Digit /\ DifferenceStep[x1][c][2] \in C
  BY DifferenceStepParts
<1>3. PICK c : IsLoop(out, c, DifferenceStep, 0, d, Digit, C)
  <2>1. 0 \in C /\ d \in Seq(P)
    OBVIOUS
  <2> HIDE DEF C, P
  <2>2. Loops(Upward(DifferenceStep, 0, d), DifferenceStep, 0, d, Digit, C)
    BY <1>2, <2>1, UpwardIsLoop
  <2> QED
    BY <2>2 DEF Loops
<1> HIDE DEF out
<1>4. /\ out \in Seq(Digit) /\ Len(out) = n
      /\ c \in [0 .. n -> 0 .. 1] /\ c[0] = 0
      /\ \A i \in 1 .. n : out[i] = DifferenceStep[d[i]][c[i - 1]][1]
                           /\ c[i] = DifferenceStep[d[i]][c[i - 1]][2]
  BY <1>3 DEF IsLoop
<1> DEFINE borrow == [i \in 0 .. n |-> -c[i]]
<1>5. ASSUME NEW i \in 1 .. n
      PROVE  /\ u[i] \in Digit /\ v[i] \in Digit /\ u[i] \in Int /\ v[i] \in Int
             /\ c[i - 1] \in 0 .. 1 /\ c[i] \in 0 .. 1
             /\ out[i] - Base * c[i] = u[i] - v[i] - c[i - 1]
  <2>1. d[i] \in Digit \X Digit
    OBVIOUS
  <2>2. c[i - 1] \in 0 .. 1 /\ c[i] \in 0 .. 1
    BY <1>4
  <2>3. DifferenceStep[d[i]][c[i - 1]][1] - Base * DifferenceStep[d[i]][c[i - 1]][2]
          = d[i][1] - d[i][2] - c[i - 1]
    BY <2>1, <2>2, DifferenceStepParts
  <2>4. u[i] \in Digit /\ v[i] \in Digit
    BY <2>1
  <2> QED
    BY <2>2, <2>3, <2>4, <1>4, DigitsAreInt
<1>6. \A i \in 1 .. n : out[i] \in Digit /\ out[i] \in Int
  BY <1>4, DigitSequence
<1>7. Base \in Int
  BY BaseFacts
<1>8. \A k \in 0 .. n : DigitsValue(Base, out, k) + borrow[k] * Power(Base, k)
                          = DigitsValue(Base, in, k) + borrow[0]
  <2>1. \A i \in 1 .. n : in[i] \in Int /\ out[i] \in Int
    BY <1>5, <1>6
  <2>2. \A i \in 0 .. n : borrow[i] \in Int
    BY <1>4
  <2>3. ASSUME NEW i \in 1 .. n PROVE out[i] + Base * borrow[i] = in[i] + borrow[i - 1]
    <3>1. borrow[i] = -c[i] /\ borrow[i - 1] = -c[i - 1] /\ in[i] = u[i] - v[i]
      OBVIOUS
    <3>0. \A x1 \in Int, y1 \in Int : x1 * (-y1) = -(x1 * y1) /\ x1 * y1 \in Int
      OBVIOUS
    <3>2. c[i] \in Int /\ c[i - 1] \in Int /\ out[i] \in Int /\ Base * (-c[i]) = -(Base * c[i])
          /\ Base * c[i] \in Int
      <4>1. c[i] \in Int /\ c[i - 1] \in Int /\ out[i] \in Int
        BY <1>5, <1>6
      <4> QED
        BY <4>1, <3>0, <1>7
    <3>3. out[i] - Base * c[i] = u[i] - v[i] - c[i - 1] /\ u[i] \in Int /\ v[i] \in Int
      BY <1>5
    <3> DEFINE t == Base * c[i]
               a == c[i - 1]
    <3> HIDE DEF t, a, borrow, in
    <3>4. out[i] + (-t) = (u[i] - v[i]) + (-a)
      BY <3>2, <3>3 DEF t, a
    <3>5. Base * borrow[i] = -t /\ borrow[i - 1] = -a
      BY <3>1, <3>2 DEF t, a
    <3> QED
      BY <3>1, <3>4, <3>5
  <2> HIDE DEF in, borrow
  <2>4. SameValue(Base, n, in, out, borrow)
    BY <1>7, <2>1, <2>2, <2>3, LoopKeepsValue
  <2> QED
    BY <2>4 DEF SameValue
<1>9. DigitsValue(Base, in, n) = DigitsValue(Base, u, n) - DigitsValue(Base, v, n)
  <2> DEFINE m == -1
  <2>1. m \in Int /\ \A i \in 1 .. n : u[i] \in Int /\ v[i] \in Int /\ in[i] = u[i] + m * v[i]
    BY <1>5
  <2> HIDE DEF in, m
  <2>2. DigitsValue(Base, in, n) = DigitsValue(Base, u, n) + m * DigitsValue(Base, v, n)
    <3>1. IsLinear(Base, in, u, m, v, n)
      BY <1>7, <2>1, ValueLinear
    <3> QED
      BY <3>1 DEF IsLinear
  <2>3. DigitsValue(Base, v, n) \in Int /\ DigitsValue(Base, u, n) \in Int
    BY <1>7, <2>1, ValueInt
  <2> QED
    BY <2>2, <2>3 DEF m
<1>10. borrow[n] = -c[n] /\ borrow[0] = 0 /\ c[n] \in 0 .. 1 /\ n \in 0 .. n
  BY <1>4
<1> HIDE DEF in, borrow
<1>11. Amount(out) + borrow[n] * Power(Base, n) = DigitsValue(Base, in, n) + 0
  BY <1>4, <1>8, <1>10 DEF Amount
<1>12. /\ Amount(out) \in Nat /\ Amount(out) < Power(Base, n)
       /\ Power(Base, n) \in Int /\ Power(Base, n) > 0
  <2>1. Amount(out) \in 0 .. Power(Base, Len(out)) - 1 /\ Power(Base, Len(out)) \in Int
        /\ Power(Base, Len(out)) > 0
    BY <1>4, AmountBounds
  <2> QED
    BY <2>1, <1>4
<1>13. DigitsValue(Base, u, n) \in Int /\ DigitsValue(Base, v, n) \in Int
  BY <1>5, <1>7, ValueInt
<1>14. c[n] = 0
  <2>1. CASE c[n] = 1
    <3>1. Amount(out) + (-1) * Power(Base, n) = DigitsValue(Base, in, n)
      BY <1>9, <1>10, <1>11, <1>13, <2>1
    <3>2. DigitsValue(Base, in, n) >= 0
      BY <1>9, <1>13
    <3> QED
      BY <3>1, <3>2, <1>12
  <2> QED
    BY <2>1, <1>10
<1>15. Amount(out) = DigitsValue(Base, in, n)
  BY <1>9, <1>10, <1>11, <1>12, <1>13, <1>14
<1> QED
  BY <1>1, <1>4, <1>9, <1>15 DEF IsDifference

-----------------------------------------------------------------------------
(* The order of digits is that of their amounts.                           *)
Normal(d) == Len(d) > 0 => d[Len(d)] # 0

LEMMA PowerMonotone ==
  ASSUME NEW b \in Int, b > 0, NEW m \in Nat, NEW n \in Nat, m <= n
  PROVE  Power(b, m) <= Power(b, n)
<1> DEFINE k == n - m
<1>1. k \in Nat /\ m + k = n
  OBVIOUS
<1> HIDE DEF k
<1>2. Power(b, n) = Power(b, m) * Power(b, k)
  BY <1>1, PowerSum
<1>3. Power(b, m) \in Int /\ Power(b, m) > 0 /\ Power(b, k) \in Int /\ Power(b, k) > 0
  BY <1>1, PowerPositive
<1> DEFINE p == Power(b, m)
           q == Power(b, k)
<1>4. p \in Int /\ q \in Int /\ p >= 0 /\ 1 <= q
  BY <1>3
<1> HIDE DEF p, q
<1>5. 1 * p <= q * p
  BY <1>4, Monotone
<1>6. q * p = p * q
  BY <1>4
<1> QED
  BY <1>2, <1>4, <1>5, <1>6 DEF p, q

LEMMA ShorterIsLess ==
  ASSUME NEW a \in Seq(Digit), NEW b \in Seq(Digit), Normal(b), Len(a) < Len(b)
  PROVE  Amount(a) < Amount(b)
<1> DEFINE n == Len(b) - 1
<1>1. n \in Nat /\ Len(b) = n + 1 /\ Len(a) <= n /\ Len(a) \in Nat /\ Base \in Int /\ Base > 0
  BY BaseFacts
<1>2. b[n + 1] # 0
  BY <1>1 DEF Normal
<1> HIDE DEF n
<1>3. \A i \in 1 .. n + 1 : b[i] \in 0 .. Base - 1
  <2>1. \A i \in 1 .. n + 1 : b[i] \in Digit
    BY <1>1
  <2> QED
    BY <2>1 DEF Digit
<1>4. DigitsValue(Base, b, n + 1) >= Power(Base, n) /\ DigitsValue(Base, b, n + 1) \in Int
  BY <1>1, <1>2, <1>3, TopDigit
<1>5. Power(Base, Len(a)) <= Power(Base, n)
  BY <1>1, PowerMonotone
<1>6. Amount(a) \in 0 .. Power(Base, Len(a)) - 1 /\ Power(Base, Len(a)) \in Int
  BY AmountBounds
<1>7. Power(Base, n) \in Int
  BY <1>1, PowerInt
<1> QED
  BY <1>1, <1>4, <1>5, <1>6, <1>7 DEF Amount

LEMMA TopDecides ==
  ASSUME NEW n \in Nat, NEW a \in Seq(Digit), NEW b \in Seq(Digit), Len(a) = n, Len(b) = n,
         NEW t \in 1 .. n, a[t] < b[t], \A i \in t + 1 .. n : a[i] = b[i]
  PROVE  Amount(a) < Amount(b)
<1> DEFINE k == t - 1
           w == Power(Base, k)
<1>1. k \in Nat /\ k + 1 = t /\ Base \in Int /\ Base > 0 /\ t \in Nat /\ t <= n
  BY BaseFacts
<1>2. \A i \in 1 .. n : a[i] \in Digit /\ b[i] \in Digit /\ a[i] \in Int /\ b[i] \in Int
  BY DigitSequence
<1> HIDE DEF k
<1>3. /\ \A i \in 1 .. k + 1 : a[i] \in Int /\ b[i] \in Int
      /\ \A i \in 1 .. k : a[i] \in 0 .. Base - 1 /\ b[i] \in 0 .. Base - 1
  BY <1>1, <1>2 DEF Digit
<1>4. /\ DigitsValue(Base, a, k + 1) = DigitsValue(Base, a, k) + a[k + 1] * w
      /\ DigitsValue(Base, b, k + 1) = DigitsValue(Base, b, k) + b[k + 1] * w
  BY <1>1, <1>3, OneMoreDigit
<1>5. w \in Int /\ w > 0
  BY <1>1, PowerPositive
<1>6. DigitsValue(Base, a, k) \in 0 .. w - 1 /\ DigitsValue(Base, b, k) \in 0 .. w - 1
  BY <1>1, <1>3, ValueBounds
<1> HIDE DEF w
<1>7. a[t] \in Int /\ b[t] \in Int /\ a[t] + 1 <= b[t]
  BY <1>2
<1>8. (a[t] + 1) * w <= b[t] * w /\ (a[t] + 1) * w = a[t] * w + 1 * w
  BY <1>5, <1>7, Monotone, Distribute
<1>9. a[t] * w \in Int /\ b[t] * w \in Int
  BY <1>5, <1>7
<1>10. DigitsValue(Base, a, t) < DigitsValue(Base, b, t)
       /\ DigitsValue(Base, a, t) \in Int /\ DigitsValue(Base, b, t) \in Int
  <2> DEFINE p == a[t] * w
             q == b[t] * w
             va == DigitsValue(Base, a, k)
             vb == DigitsValue(Base, b, k)
  <2>1. p \in Int /\ q \in Int /\ p + w <= q /\ va \in 0 .. w - 1 /\ vb \in 0 .. w - 1
    BY <1>5, <1>6, <1>8, <1>9
  <2>2. DigitsValue(Base, a, t) = va + p /\ DigitsValue(Base, b, t) = vb + q
    BY <1>1, <1>4
  <2> HIDE DEF p, q, va, vb
  <2> QED
    BY <2>1, <2>2, <1>5
<1>11. DigitsValue(Base, a, n) - DigitsValue(Base, a, t) = DigitsValue(Base, b, n) - DigitsValue(Base, b, t)
  <2>1. /\ \A i \in 1 .. n : a[i] \in Int /\ b[i] \in Int
        /\ \A i \in t + 1 .. n : a[i] = b[i]
    BY <1>2
  <2>2. Base \in Int /\ t \in Nat /\ t <= n
    BY <1>1
  <2>3. RiseAlike(Base, a, b, t, n)
    BY <2>1, <2>2, SameAbove
  <2> QED
    BY <2>3 DEF RiseAlike
<1>12. DigitsValue(Base, a, n) \in Int /\ DigitsValue(Base, b, n) \in Int
  BY <1>1, <1>2, ValueInt
<1> QED
  BY <1>10, <1>11, <1>12 DEF Amount

LEMMA Greatest ==
  ASSUME NEW n \in Nat, NEW T, T \subseteq 1 .. n, T # {}
  PROVE  \E t \in T : \A i \in T : i <= t
<1> DEFINE R == {k \in 0 .. n : n - k \in T}
<1>1. R \subseteq Nat
  OBVIOUS
<1>2. R # {}
  <2>1. PICK t \in T : TRUE
    OBVIOUS
  <2>2. n - t \in 0 .. n /\ n - (n - t) = t
    BY <2>1
  <2>3. n - t \in R
    BY <2>1, <2>2
  <2> QED
    BY <2>3
<1> HIDE DEF R
<1>3. PICK k \in R : \A m \in R : k <= m
  BY <1>1, <1>2, Least
<1>4. k \in 0 .. n /\ n - k \in T
  BY <1>3 DEF R
<1>5. ASSUME NEW i \in T PROVE i <= n - k
  <2>1. i \in 1 .. n /\ n - i \in 0 .. n /\ n - (n - i) = i
    OBVIOUS
  <2>2. n - i \in R
    BY <2>1 DEF R
  <2>3. k <= n - i
    BY <2>2, <1>3
  <2> QED
    BY <2>1, <2>3, <1>4
<1> QED
  BY <1>4, <1>5

(* What CmpDigits says, o, about a and b.                                  *)
IsOrder(o, a, b) ==
  /\ o \in {-1, 0, 1}
  /\ o = 0 => a = b
  /\ o = -1 => Len(a) <= Len(b) /\ Amount(a) < Amount(b)
  /\ o = 1 => Len(b) <= Len(a) /\ Amount(b) < Amount(a)

LEMMA CmpDigitsExact ==
  ASSUME NEW a \in Seq(Digit), NEW b \in Seq(Digit), Normal(a), Normal(b)
  PROVE  IsOrder(CmpDigits(a, b), a, b)
<1> DEFINE differ == {i \in 1 .. Len(a) : a[i] # b[i]}
           top == CHOOSE i \in differ : \A j \in differ : j <= i
<1>1. CmpDigits(a, b) = IF Len(a) # Len(b) THEN (IF Len(a) < Len(b) THEN -1 ELSE 1)
                        ELSE IF differ = {} THEN 0 ELSE IF a[top] < b[top] THEN -1 ELSE 1
  BY DEF CmpDigits
<1>2. Len(a) \in Nat /\ Len(b) \in Nat
  OBVIOUS
<1>3. CASE Len(a) < Len(b)
  <2>1. Amount(a) < Amount(b)
    BY <1>3, ShorterIsLess
  <2>2. CmpDigits(a, b) = -1
    BY <1>1, <1>2, <1>3
  <2> QED
    BY <2>1, <2>2, <1>2, <1>3 DEF IsOrder
<1>4. CASE Len(b) < Len(a)
  <2>1. Amount(b) < Amount(a)
    BY <1>4, ShorterIsLess
  <2>2. CmpDigits(a, b) = 1
    BY <1>1, <1>2, <1>4
  <2> QED
    BY <2>1, <2>2, <1>2, <1>4 DEF IsOrder
<1>5. CASE Len(a) = Len(b) /\ differ = {}
  <2>1. a = b
    <3>1. \A i \in 1 .. Len(a) : a[i] = b[i]
      BY <1>5
    <3> QED
      BY <3>1, <1>5, SeqEqual
  <2>2. CmpDigits(a, b) = 0
    BY <1>1, <1>5
  <2> QED
    BY <2>1, <2>2 DEF IsOrder
<1>6. CASE Len(a) = Len(b) /\ differ # {}
  <2>1. CmpDigits(a, b) = IF a[top] < b[top] THEN -1 ELSE 1
    BY <1>1, <1>6
  <2>2. differ \subseteq 1 .. Len(a) /\ (\A k \in 1 .. Len(a) : k \notin differ => a[k] = b[k])
        /\ \A k \in differ : a[k] # b[k]
    OBVIOUS
  <2> HIDE DEF differ
  <2>0. \E k \in differ : \A j \in differ : j <= k
    <3> DEFINE n == Len(a)
    <3>1. n \in Nat /\ differ \subseteq 1 .. n /\ differ # {}
      BY <1>2, <1>6, <2>2
    <3> HIDE DEF n
    <3> QED
      BY <3>1, Greatest
  <2>3. top \in differ /\ \A j \in differ : j <= top
    BY <2>0
  <2> HIDE DEF top
  <2>4. top \in 1 .. Len(a) /\ a[top] # b[top]
    BY <2>2, <2>3
  <2>5. \A i \in top + 1 .. Len(a) : a[i] = b[i]
    <3> TAKE k \in top + 1 .. Len(a)
    <3>2. k \in 1 .. Len(a) /\ ~(k <= top)
      BY <2>4, <1>2
    <3> QED
      BY <3>2, <2>2, <2>3
  <2>6. a[top] \in Int /\ b[top] \in Int
    BY <2>4, <1>6, DigitSequence
  <2>7. CASE a[top] < b[top]
    <3>1. Amount(a) < Amount(b)
      BY <2>4, <2>5, <2>7, <1>2, <1>6, TopDecides
    <3> QED
      BY <3>1, <2>1, <2>7, <1>2, <1>6 DEF IsOrder
  <2>8. CASE b[top] < a[top]
    <3>1. Amount(b) < Amount(a)
      BY <2>4, <2>5, <2>8, <1>2, <1>6, TopDecides
    <3>2. ~(a[top] < b[top])
      BY <2>6, <2>8
    <3> QED
      BY <3>1, <3>2, <2>1, <1>2, <1>6 DEF IsOrder
  <2> QED
    BY <2>4, <2>6, <2>7, <2>8
<1> QED
  BY <1>2, <1>3, <1>4, <1>5, <1>6

(* a is a bignum, perhaps temporary, that stands for v.                    *)
IsOperand(a, v) ==
  /\ a.neg \in BOOLEAN /\ a.d \in Seq(Digit) /\ Normal(a.d)
  /\ v = Signed(a.neg, Amount(a.d))

LEMMA ExactCases ==
  ASSUME NEW x1, NEW v, IsExactly(x1, v)
  PROVE  \/ /\ IsFix(x1) /\ x1.n \in Int /\ FitsFixnum(x1.n) /\ v = x1.n /\ x1 = Fix(x1.n)
         \/ /\ ~IsFix(x1) /\ x1.neg \in BOOLEAN /\ x1.d \in Seq(Digit) /\ Len(x1.d) > 0 /\ Normal(x1.d)
            /\ x1 = Big(x1.neg, x1.d) /\ v = Signed(x1.neg, Amount(x1.d))
            /\ Len(x1.d) = 1 => ~FitsFixnum(Signed(x1.neg, x1.d[1]))
<1>1. x1 \in ExactInteger /\ IntegerStored(x1) /\ Value(x1) = v
  BY DEF IsExactly
<1>2. CASE x1 \in [kind : {"fix"}, n : Int]
  <2>1. IsFix(x1) /\ x1.n \in Int /\ x1 = Fix(x1.n)
    BY <1>2 DEF IsFix, Fix
  <2>2. FitsFixnum(x1.n)
    BY <1>1, <2>1 DEF IntegerStored
  <2>3. v = x1.n
    BY <1>1, <2>1 DEF Value
  <2> QED
    BY <2>1, <2>2, <2>3
<1>3. CASE x1 \in [kind : {"big"}, neg : BOOLEAN, d : Seq(Nat)]
  <2>1. ~IsFix(x1) /\ x1.neg \in BOOLEAN /\ x1.d \in Seq(Nat) /\ x1 = Big(x1.neg, x1.d)
    BY <1>3 DEF IsFix, Big
  <2> DEFINE d == x1.d
  <2>2. /\ d # <<>> /\ Last(d) # 0 /\ \A i \in DOMAIN d : d[i] \in Digit
        /\ ~(Len(d) = 1 /\ FitsFixnum(Signed(x1.neg, d[1])))
    BY <1>1, <2>1 DEF IntegerStored, Size
  <2>3. d \in Seq(Nat)
    BY <2>1
  <2>4. v = Signed(x1.neg, Amount(d))
    BY <1>1, <2>1 DEF Value, Amount, Size
  <2> HIDE DEF d
  <2>5. Len(d) \in Nat /\ Len(d) > 0 /\ DOMAIN d = 1 .. Len(d) /\ d[Len(d)] # 0
    BY <2>2, <2>3 DEF Last
  <2>6. d \in Seq(Digit)
    <3>1. \A i \in 1 .. Len(d) : d[i] \in Digit
      BY <2>2, <2>5
    <3> QED
      BY <2>3, <2>5, <3>1, SeqDef
  <2>7. Normal(d)
    BY <2>5 DEF Normal
  <2> QED
    BY <2>1, <2>2, <2>4, <2>5, <2>6, <2>7 DEF d
<1> QED
  BY <1>1, <1>2, <1>3 DEF ExactInteger

(* C_a_u_i_fix_to_big: a fixnum as one digit.                              *)
LEMMA FixToBigExact ==
  ASSUME NEW x1, NEW v, IsExactly(x1, v)
  PROVE  IsOperand(FixToBig(x1), v) /\ FixToBig(x1).neg = Negative(x1)
<1>1. CASE IsFix(x1)
  <2>1. x1.n \in Int /\ FitsFixnum(x1.n) /\ v = x1.n
    BY <1>1, ExactCases
  <2> DEFINE d == IF x1.n = 0 THEN <<>> ELSE <<Magnitude(x1.n)>>
             neg == x1.n < 0
  <2>2. FixToBig(x1) = Big(neg, d) /\ neg \in BOOLEAN
    BY <1>1 DEF FixToBig
  <2>3. d \in Seq(Digit) /\ Normal(d) /\ v = Signed(neg, Amount(d))
    <3>1. CASE x1.n = 0
      <4>1. d = <<>> /\ Len(d) = 0 /\ d \in Seq(Digit)
        BY <3>1
      <4> HIDE DEF d
      <4>2. Amount(d) = 0
        BY <4>1, BaseFacts, NoDigits DEF Amount
      <4> QED
        BY <4>1, <4>2, <2>1, <3>1 DEF Normal, Signed
    <3>2. CASE x1.n # 0
      <4>1. Magnitude(x1.n) \in Digit /\ Magnitude(x1.n) # 0 /\ Signed(neg, Magnitude(x1.n)) = x1.n
        BY <2>1, <3>2, BaseFacts DEF Magnitude, Digit, FitsFixnum, Signed
      <4>2. d = <<Magnitude(x1.n)>>
        BY <3>2
      <4>3. d \in Seq(Digit) /\ Len(d) = 1 /\ d[1] = Magnitude(x1.n)
        BY <4>1, <4>2
      <4> HIDE DEF d
      <4>4. Amount(d) = Magnitude(x1.n)
        BY <4>3, OneDigit
      <4> QED
        BY <4>1, <4>3, <4>4, <2>1 DEF Normal
    <3> QED
      BY <3>1, <3>2
  <2> HIDE DEF d, neg
  <2>4. Big(neg, d).neg = neg /\ Big(neg, d).d = d
    BY DEF Big
  <2>5. Negative(x1) = neg
    BY <1>1 DEF Negative, neg
  <2> QED
    BY <2>2, <2>3, <2>4, <2>5 DEF IsOperand
<1>2. CASE ~IsFix(x1)
  <2>1. FixToBig(x1) = x1 /\ Negative(x1) = x1.neg
    BY <1>2 DEF FixToBig, Negative
  <2>2. x1.neg \in BOOLEAN /\ x1.d \in Seq(Digit) /\ Normal(x1.d) /\ v = Signed(x1.neg, Amount(x1.d))
    BY <1>2, ExactCases
  <2> QED
    BY <2>1, <2>2 DEF IsOperand
<1> QED
  BY <1>1, <1>2

-----------------------------------------------------------------------------
HasSum(s, a, b) == s \in Seq(Digit) /\ Amount(s) = Amount(a) + Amount(b)
HasDifference(s, a, b) == s \in Seq(Digit) /\ Amount(s) = Amount(a) - Amount(b)

LEMMA SumFits ==
  ASSUME NEW a \in Seq(Digit), NEW b \in Seq(Digit), Len(b) <= Len(a)
  PROVE  HasSum(SumOfDigits(Pairs(a, b, Len(a) + 1)), a, b)
<1> DEFINE n == Len(a) + 1
           d == Pairs(a, b, n)
           u == [i \in 1 .. n |-> DigitOf(a, i)]
           v == [i \in 1 .. n |-> DigitOf(b, i)]
<1>1. n \in Nat /\ Len(a) <= n /\ Len(b) <= n /\ Len(a) \in Nat /\ Len(b) \in Nat
  OBVIOUS
<1>2. Power(Base, n) = Base * Power(Base, Len(a))
  BY <1>1, BaseFacts, PowerNext
<1> HIDE DEF n
<1>3. d \in Seq(Digit \X Digit) /\ Len(d) = n
      /\ \A i \in 1 .. n : d[i][1] = u[i] /\ d[i][2] = v[i]
  BY <1>1, PairsOfDigits
<1>4. /\ \A i \in 1 .. n : u[i] = DigitOf(a, i)
      /\ \A i \in 1 .. n : v[i] = DigitOf(b, i)
  OBVIOUS
<1> HIDE DEF u, v, d
<1>5. DigitsValue(Base, u, n) = Amount(a) /\ DigitsValue(Base, v, n) = Amount(b)
  BY <1>1, <1>4, PaddedAmount
<1>6. Amount(a) + Amount(b) < Power(Base, n)
  <2> DEFINE p == Power(Base, Len(a))
  <2>1. Amount(a) \in 0 .. p - 1 /\ p \in Int /\ p > 0
    BY AmountBounds
  <2>2. Amount(b) \in 0 .. Power(Base, Len(b)) - 1 /\ Power(Base, Len(b)) \in Int
    BY AmountBounds
  <2>3. Power(Base, Len(b)) <= p
    BY <1>1, BaseFacts, PowerMonotone
  <2>0. Base \in Int /\ 2 <= Base
    BY BaseFacts
  <2>4. 2 * p <= Base * p
    <3> HIDE DEF p
    <3>1. p >= 0
      BY <2>1
    <3> QED
      BY <2>0, <2>1, <3>1, Monotone
  <2>5. Base * p \in Int
    BY <2>1, BaseFacts
  <2> DEFINE q == Base * p
  <2>6. q \in Int /\ 2 * p <= q /\ Power(Base, n) = q
    BY <2>4, <2>5, <1>2
  <2> HIDE DEF p, q
  <2> QED
    BY <2>1, <2>2, <2>3, <2>6
<1>7. AddsUp(SumOfDigits(d), n, u, v)
  BY <1>1, <1>3, <1>5, <1>6, SumOfPairs
<1>8. HasSum(SumOfDigits(d), a, b)
  BY <1>5, <1>7 DEF AddsUp, HasSum
<1> QED
  BY <1>8 DEF d, n

(* bignum_plus_unsigned: the sum of the magnitudes, with the sign asked    *)
(* for.                                                                    *)
LEMMA PlusUnsignedExact ==
  ASSUME NEW x1, NEW y1, NEW neg \in BOOLEAN, x1.d \in Seq(Digit), y1.d \in Seq(Digit)
  PROVE  IsExactly(PlusUnsigned(x1, y1, neg), Signed(neg, Amount(x1.d) + Amount(y1.d)))
<1>1. Len(x1.d) \in Nat /\ Len(y1.d) \in Nat /\ Size(x1) = Len(x1.d) /\ Size(y1) = Len(y1.d)
  BY DEF Size
<1>2. Amount(x1.d) \in Nat /\ Amount(y1.d) \in Nat
  BY AmountBounds
<1>3. CASE Len(y1.d) > Len(x1.d)
  <2> DEFINE s == SumOfDigits(Pairs(y1.d, x1.d, Len(y1.d) + 1))
  <2>1. s \in Seq(Digit) /\ Amount(s) = Amount(y1.d) + Amount(x1.d)
    BY <1>1, <1>3, SumFits DEF HasSum
  <2>2. PlusUnsigned(x1, y1, neg) = Simplify(neg, s)
    BY <1>1, <1>3 DEF PlusUnsigned
  <2> HIDE DEF s
  <2>3. Amount(s) = Amount(x1.d) + Amount(y1.d)
    BY <1>2, <2>1
  <2> QED
    BY <2>1, <2>2, <2>3, SimplifyExact
<1>4. CASE ~(Len(y1.d) > Len(x1.d))
  <2> DEFINE s == SumOfDigits(Pairs(x1.d, y1.d, Len(x1.d) + 1))
  <2>1. s \in Seq(Digit) /\ Amount(s) = Amount(x1.d) + Amount(y1.d)
    <3>1. Len(y1.d) <= Len(x1.d)
      BY <1>1, <1>4
    <3>2. HasSum(s, x1.d, y1.d)
      BY <3>1, SumFits
    <3> QED
      BY <3>2 DEF HasSum
  <2>2. PlusUnsigned(x1, y1, neg) = Simplify(neg, s)
    BY <1>1, <1>4 DEF PlusUnsigned
  <2> HIDE DEF s
  <2> QED
    BY <2>1, <2>2, SimplifyExact
<1> QED
  BY <1>3, <1>4

LEMMA DifferenceFits ==
  ASSUME NEW a \in Seq(Digit), NEW b \in Seq(Digit), Len(b) <= Len(a), Amount(b) <= Amount(a)
  PROVE  HasDifference(DifferenceOfDigits(Pairs(a, b, Len(a))), a, b)
<1> DEFINE n == Len(a)
           d == Pairs(a, b, n)
           u == [i \in 1 .. n |-> DigitOf(a, i)]
           v == [i \in 1 .. n |-> DigitOf(b, i)]
<1>1. n \in Nat /\ Len(a) <= n /\ Len(b) <= n
  OBVIOUS
<1> HIDE DEF n
<1>3. d \in Seq(Digit \X Digit) /\ Len(d) = n
      /\ \A i \in 1 .. n : d[i][1] = u[i] /\ d[i][2] = v[i]
  BY <1>1, PairsOfDigits
<1>4. /\ \A i \in 1 .. n : u[i] = DigitOf(a, i)
      /\ \A i \in 1 .. n : v[i] = DigitOf(b, i)
  OBVIOUS
<1> HIDE DEF u, v, d
<1>5. DigitsValue(Base, u, n) = Amount(a) /\ DigitsValue(Base, v, n) = Amount(b)
  BY <1>1, <1>4, PaddedAmount
<1>6. IsDifference(DifferenceOfDigits(d), n, u, v)
  BY <1>1, <1>3, <1>5, DifferenceOfPairs
<1>7. HasDifference(DifferenceOfDigits(d), a, b)
  BY <1>5, <1>6 DEF IsDifference, HasDifference
<1> QED
  BY <1>7 DEF d, n

LEMMA ZeroIsExact == IsExactly(Zero, 0)
BY FixIsExact, BaseFacts DEF Zero, FitsFixnum

(* bignum_minus_unsigned: the difference of the magnitudes, with its sign. *)
LEMMA MinusUnsignedExact ==
  ASSUME NEW x1, NEW y1, x1.d \in Seq(Digit), y1.d \in Seq(Digit), Normal(x1.d), Normal(y1.d)
  PROVE  IsExactly(MinusUnsigned(x1, y1), Amount(x1.d) - Amount(y1.d))
<1> DEFINE o == CmpDigits(x1.d, y1.d)
<1>1. IsOrder(o, x1.d, y1.d)
  BY CmpDigitsExact
<1>2. MinusUnsigned(x1, y1) = MinusOrdered(x1, y1, o)
  BY DEF MinusUnsigned
<1> HIDE DEF o
<1>3. Amount(x1.d) \in Nat /\ Amount(y1.d) \in Nat
  BY AmountBounds
<1>4. CASE o = 0
  <2>1. Amount(x1.d) - Amount(y1.d) = 0
    BY <1>1, <1>3, <1>4 DEF IsOrder
  <2>2. MinusOrdered(x1, y1, o) = Zero
    BY <1>4 DEF MinusOrdered
  <2> QED
    BY <1>2, <2>1, <2>2, ZeroIsExact
<1>5. CASE o = -1
  <2> DEFINE s == DifferenceOfDigits(Pairs(y1.d, x1.d, Len(y1.d)))
  <2>1. Len(x1.d) <= Len(y1.d) /\ Amount(x1.d) < Amount(y1.d)
    BY <1>1, <1>5 DEF IsOrder
  <2>2. s \in Seq(Digit) /\ Amount(s) = Amount(y1.d) - Amount(x1.d)
    <3>1. Len(x1.d) <= Len(y1.d) /\ Amount(x1.d) <= Amount(y1.d)
      BY <1>3, <2>1
    <3>2. HasDifference(s, y1.d, x1.d)
      BY <3>1, DifferenceFits
    <3> QED
      BY <3>2 DEF HasDifference
  <2>3. MinusOrdered(x1, y1, o) = Simplify(TRUE, s)
    <3>1. (o = -1) = TRUE /\ o # 0
      BY <1>5
    <3>2. MinusOrdered(x1, y1, o) = Simplify(o = -1, s)
      BY <1>5, <3>1 DEF MinusOrdered, Size
    <3> QED
      BY <3>1, <3>2
  <2> HIDE DEF s
  <2>4. IsExactly(Simplify(TRUE, s), Signed(TRUE, Amount(s)))
    BY <2>2, SimplifyExact
  <2>5. Signed(TRUE, Amount(s)) = Amount(x1.d) - Amount(y1.d)
    BY <1>3, <2>2 DEF Signed
  <2> QED
    BY <1>2, <2>3, <2>4, <2>5
<1>6. CASE o = 1
  <2> DEFINE s == DifferenceOfDigits(Pairs(x1.d, y1.d, Len(x1.d)))
  <2>1. Len(y1.d) <= Len(x1.d) /\ Amount(y1.d) < Amount(x1.d)
    BY <1>1, <1>6 DEF IsOrder
  <2>2. s \in Seq(Digit) /\ Amount(s) = Amount(x1.d) - Amount(y1.d)
    <3>1. Len(y1.d) <= Len(x1.d) /\ Amount(y1.d) <= Amount(x1.d)
      BY <1>3, <2>1
    <3>2. HasDifference(s, x1.d, y1.d)
      BY <3>1, DifferenceFits
    <3> QED
      BY <3>2 DEF HasDifference
  <2>3. MinusOrdered(x1, y1, o) = Simplify(FALSE, s)
    <3>1. (o = -1) = FALSE /\ o # 0
      BY <1>6
    <3>2. MinusOrdered(x1, y1, o) = Simplify(o = -1, s)
      BY <1>6, <3>1 DEF MinusOrdered, Size
    <3> QED
      BY <3>1, <3>2
  <2> HIDE DEF s
  <2>4. IsExactly(Simplify(FALSE, s), Signed(FALSE, Amount(s)))
    BY <2>2, SimplifyExact
  <2>5. Signed(FALSE, Amount(s)) = Amount(x1.d) - Amount(y1.d)
    BY <1>3, <2>2 DEF Signed
  <2> QED
    BY <1>2, <2>3, <2>4, <2>5
<1> QED
  BY <1>1, <1>4, <1>5, <1>6 DEF IsOrder

LEMMA SignedSumExact ==
  ASSUME NEW a, NEW b, NEW v, NEW w, IsOperand(a, v), IsOperand(b, w), NEW neg \in BOOLEAN
  PROVE  IsExactly(SignedSum(a, b, neg), v + Signed(neg, Amount(b.d)))
<1>1. /\ a.neg \in BOOLEAN /\ a.d \in Seq(Digit) /\ Normal(a.d) /\ v = Signed(a.neg, Amount(a.d))
      /\ b.d \in Seq(Digit) /\ Normal(b.d)
  BY DEF IsOperand
<1>2. Amount(a.d) \in Nat /\ Amount(b.d) \in Nat
  BY <1>1, AmountBounds
<1>3. CASE a.neg = neg
  <2>1. SignedSum(a, b, neg) = PlusUnsigned(a, b, neg)
    BY <1>3 DEF SignedSum
  <2>2. IsExactly(PlusUnsigned(a, b, neg), Signed(neg, Amount(a.d) + Amount(b.d)))
    BY <1>1, PlusUnsignedExact
  <2>3. Signed(neg, Amount(a.d) + Amount(b.d)) = v + Signed(neg, Amount(b.d))
    BY <1>1, <1>2, <1>3 DEF Signed
  <2> QED
    BY <2>1, <2>2, <2>3
<1>4. CASE a.neg # neg /\ a.neg
  <2>1. SignedSum(a, b, neg) = MinusUnsigned(b, a)
    BY <1>4 DEF SignedSum
  <2>2. IsExactly(MinusUnsigned(b, a), Amount(b.d) - Amount(a.d))
    BY <1>1, MinusUnsignedExact
  <2>3. Amount(b.d) - Amount(a.d) = v + Signed(neg, Amount(b.d))
    <3>1. a.neg = TRUE /\ neg = FALSE
      BY <1>1, <1>4
    <3> QED
      BY <3>1, <1>1, <1>2 DEF Signed
  <2> QED
    BY <2>1, <2>2, <2>3
<1>5. CASE a.neg # neg /\ ~a.neg
  <2>1. SignedSum(a, b, neg) = MinusUnsigned(a, b)
    BY <1>5 DEF SignedSum
  <2>2. IsExactly(MinusUnsigned(a, b), Amount(a.d) - Amount(b.d))
    BY <1>1, MinusUnsignedExact
  <2>3. Amount(a.d) - Amount(b.d) = v + Signed(neg, Amount(b.d))
    <3>1. a.neg = FALSE /\ neg = TRUE
      BY <1>1, <1>5
    <3> QED
      BY <3>1, <1>1, <1>2 DEF Signed
  <2> QED
    BY <2>1, <2>2, <2>3
<1> QED
  BY <1>3, <1>4, <1>5

LEMMA FixnumRange ==
  ASSUME NEW n \in Int
  PROVE  FitsFixnum(n) <=> -(MostPositive + 1) <= n /\ n <= MostPositive
BY BaseFacts DEF FitsFixnum

(* C_s_a_u_i_integer_plus: the sum, for fixnums and bignums of any size.   *)
THEOREM PlusExact ==
  ASSUME NEW x1, NEW y1, NEW v, NEW w, IsExactly(x1, v), IsExactly(y1, w)
  PROVE  IsExactly(IntegerPlus(x1, y1), v + w)
<1>1. CASE IsFix(x1) /\ IsFix(y1)
  <2>1. x1.n \in Int /\ FitsFixnum(x1.n) /\ v = x1.n /\ y1.n \in Int /\ FitsFixnum(y1.n) /\ w = y1.n
    BY <1>1, ExactCases
  <2>2. IntegerPlus(x1, y1) = FromWord(x1.n + y1.n)
    BY <1>1 DEF IntegerPlus
  <2>3. x1.n + y1.n \in Int /\ Magnitude(x1.n + y1.n) < Base
    BY <2>1, FixnumRange, BaseFacts DEF Magnitude
  <2> QED
    BY <2>1, <2>2, <2>3, FromWordExact
<1>2. CASE ~(IsFix(x1) /\ IsFix(y1))
  <2> DEFINE a == FixToBig(x1)
             b == FixToBig(y1)
             neg == Negative(y1)
  <2>1. IntegerPlus(x1, y1) = SignedSum(a, b, neg)
    BY <1>2 DEF IntegerPlus
  <2>2. IsOperand(a, v) /\ IsOperand(b, w) /\ b.neg = neg
    BY FixToBigExact
  <2> HIDE DEF a, b, neg
  <2>3. neg \in BOOLEAN /\ Signed(neg, Amount(b.d)) = w
    BY <2>2 DEF IsOperand
  <2>4. IsExactly(SignedSum(a, b, neg), v + Signed(neg, Amount(b.d)))
    BY <2>2, <2>3, SignedSumExact
  <2> QED
    BY <2>1, <2>3, <2>4
<1> QED
  BY <1>1, <1>2

(* C_s_a_u_i_integer_minus: the difference.                                *)
THEOREM MinusExact ==
  ASSUME NEW x1, NEW y1, NEW v, NEW w, IsExactly(x1, v), IsExactly(y1, w)
  PROVE  IsExactly(IntegerMinus(x1, y1), v - w)
<1>1. CASE IsFix(x1) /\ IsFix(y1)
  <2>1. x1.n \in Int /\ FitsFixnum(x1.n) /\ v = x1.n /\ y1.n \in Int /\ FitsFixnum(y1.n) /\ w = y1.n
    BY <1>1, ExactCases
  <2>2. IntegerMinus(x1, y1) = FromWord(x1.n - y1.n)
    BY <1>1 DEF IntegerMinus
  <2>3. x1.n - y1.n \in Int /\ Magnitude(x1.n - y1.n) < Base
    BY <2>1, FixnumRange, BaseFacts DEF Magnitude
  <2> QED
    BY <2>1, <2>2, <2>3, FromWordExact
<1>2. CASE ~(IsFix(x1) /\ IsFix(y1))
  <2> DEFINE a == FixToBig(x1)
             b == FixToBig(y1)
             neg == ~Negative(y1)
  <2>1. IntegerMinus(x1, y1) = SignedSum(a, b, neg)
    BY <1>2 DEF IntegerMinus
  <2>2. IsOperand(a, v) /\ IsOperand(b, w) /\ b.neg = Negative(y1)
    BY FixToBigExact
  <2> HIDE DEF a, b
  <2>3. b.neg \in BOOLEAN /\ w = Signed(b.neg, Amount(b.d)) /\ b.d \in Seq(Digit)
    BY <2>2 DEF IsOperand
  <2>4. Amount(b.d) \in Nat
    BY <2>3, AmountBounds
  <2>5. neg \in BOOLEAN /\ neg = ~b.neg
    BY <2>2, <2>3
  <2> HIDE DEF neg
  <2>6. Signed(neg, Amount(b.d)) = -w /\ w \in Int
    <3>1. CASE b.neg = TRUE
      <4>1. neg = FALSE
        BY <2>5, <3>1
      <4> QED
        BY <2>3, <2>4, <3>1, <4>1 DEF Signed
    <3>2. CASE b.neg = FALSE
      <4>1. neg = TRUE
        BY <2>5, <3>2
      <4> QED
        BY <2>3, <2>4, <3>2, <4>1 DEF Signed
    <3> QED
      BY <2>3, <3>1, <3>2
  <2>7. IsExactly(SignedSum(a, b, neg), v + Signed(neg, Amount(b.d)))
    BY <2>2, <2>5, SignedSumExact
  <2>8. v \in Int
    <3>1. a.neg \in BOOLEAN /\ a.d \in Seq(Digit) /\ v = Signed(a.neg, Amount(a.d))
      BY <2>2 DEF IsOperand
    <3>2. Amount(a.d) \in Nat
      BY <3>1, AmountBounds
    <3> QED
      BY <3>1, <3>2 DEF Signed
  <2>9. v + Signed(neg, Amount(b.d)) = v - w
    BY <2>6, <2>8
  <2> QED
    BY <2>1, <2>7, <2>9
<1> QED
  BY <1>1, <1>2

LEMMA ExactInt ==
  ASSUME NEW x1, NEW v, IsExactly(x1, v) PROVE v \in Int
<1>1. PICK a : IsOperand(a, v)
  BY FixToBigExact
<1>2. a.neg \in BOOLEAN /\ a.d \in Seq(Digit) /\ v = Signed(a.neg, Amount(a.d))
  BY <1>1 DEF IsOperand
<1>3. Amount(a.d) \in Nat
  BY <1>2, AmountBounds
<1> QED
  BY <1>2, <1>3 DEF Signed

(* C_s_a_u_i_integer_negate: of the most negative fixnum a bignum.         *)
THEOREM NegateExact ==
  ASSUME NEW x1, NEW v, IsExactly(x1, v)
  PROVE  IsExactly(IntegerNegate(x1), -v)
<1>1. CASE IsFix(x1)
  <2>1. x1.n \in Int /\ FitsFixnum(x1.n) /\ v = x1.n
    BY <1>1, ExactCases
  <2>2. IntegerNegate(x1) = FromWord(-x1.n)
    BY <1>1 DEF IntegerNegate
  <2>3. -x1.n \in Int /\ Magnitude(-x1.n) < Base
    BY <2>1, FixnumRange, BaseFacts DEF Magnitude
  <2> QED
    BY <2>1, <2>2, <2>3, FromWordExact
<1>2. CASE ~IsFix(x1)
  <2>1. x1.neg \in BOOLEAN /\ x1.d \in Seq(Digit) /\ v = Signed(x1.neg, Amount(x1.d))
    BY <1>2, ExactCases
  <2>2. IntegerNegate(x1) = Simplify(~x1.neg, x1.d)
    BY <1>2 DEF IntegerNegate
  <2>3. Amount(x1.d) \in Nat
    BY <2>1, AmountBounds
  <2>4. CASE x1.neg = TRUE
    <3>1. IntegerNegate(x1) = Simplify(FALSE, x1.d)
      BY <2>2, <2>4
    <3>2. Signed(FALSE, Amount(x1.d)) = -v
      BY <2>1, <2>3, <2>4 DEF Signed
    <3>3. IsExactly(Simplify(FALSE, x1.d), Signed(FALSE, Amount(x1.d)))
      BY <2>1, SimplifyExact
    <3> QED
      BY <3>1, <3>2, <3>3
  <2>5. CASE x1.neg = FALSE
    <3>1. IntegerNegate(x1) = Simplify(TRUE, x1.d)
      BY <2>2, <2>5
    <3>2. Signed(TRUE, Amount(x1.d)) = -v
      BY <2>1, <2>3, <2>5 DEF Signed
    <3>3. IsExactly(Simplify(TRUE, x1.d), Signed(TRUE, Amount(x1.d)))
      BY <2>1, SimplifyExact
    <3> QED
      BY <3>1, <3>2, <3>3
  <2> QED
    BY <2>1, <2>4, <2>5
<1> QED
  BY <1>1, <1>2

-----------------------------------------------------------------------------
(* A bignum is larger than every fixnum.                                   *)
LEMMA BigIsLarge ==
  ASSUME NEW x1, NEW v, IsExactly(x1, v), ~IsFix(x1)
  PROVE  /\ ~FitsFixnum(v) /\ x1.neg \in BOOLEAN /\ Amount(x1.d) \in Nat
         /\ v = Signed(x1.neg, Amount(x1.d))
<1>1. /\ x1.neg \in BOOLEAN /\ x1.d \in Seq(Digit) /\ Len(x1.d) > 0 /\ Normal(x1.d)
      /\ v = Signed(x1.neg, Amount(x1.d)) /\ (Len(x1.d) = 1 => ~FitsFixnum(Signed(x1.neg, x1.d[1])))
  BY ExactCases
<1>2. Amount(x1.d) \in Nat
  BY <1>1, AmountBounds
<1>3. CASE Len(x1.d) = 1
  <2>1. Amount(x1.d) = x1.d[1]
    BY <1>1, <1>3, OneDigit
  <2> QED
    BY <1>1, <1>2, <1>3, <2>1
<1>4. CASE Len(x1.d) > 1
  <2> DEFINE one == <<Base - 1>>
  <2>1. Base - 1 \in Digit
    BY BaseFacts DEF Digit
  <2>2. one \in Seq(Digit) /\ Len(one) = 1 /\ one[1] = Base - 1
    BY <2>1
  <2> HIDE DEF one
  <2>3. Amount(one) < Amount(x1.d)
    BY <1>1, <1>4, <2>2, ShorterIsLess
  <2>4. Amount(one) = Base - 1
    BY <2>2, OneDigit
  <2>0. Base \in Int /\ MostPositive \in Int /\ MostPositive >= 3 /\ Base = 4 * (MostPositive + 1)
    BY BaseFacts
  <2>5. Amount(x1.d) >= Base
    BY <1>2, <2>0, <2>3, <2>4
  <2>6. v \in Int /\ (v = Amount(x1.d) \/ v = -Amount(x1.d))
    BY <1>1, <1>2 DEF Signed
  <2>7. ~FitsFixnum(v)
    <3>1. FitsFixnum(v) => -(MostPositive + 1) <= v /\ v <= MostPositive
      BY <2>6, FixnumRange
    <3> QED
      BY <2>0, <2>5, <2>6, <1>2, <3>1
  <2> QED
    BY <1>1, <1>2, <2>7
<1>5. Len(x1.d) = 1 \/ Len(x1.d) > 1
  <2> DEFINE n == Len(x1.d)
  <2>1. n \in Nat /\ n > 0
    BY <1>1
  <2> HIDE DEF n
  <2>2. n = 1 \/ n > 1
    BY <2>1
  <2> QED
    BY <2>2 DEF n
<1> QED
  BY <1>3, <1>4, <1>5

(* Every integer has one form only: eqv? on bignums and eq? on fixnums     *)
(* need not look at anything else.                                         *)
THEOREM OneForm ==
  ASSUME NEW x1, NEW y1, NEW v, IsExactly(x1, v), IsExactly(y1, v)
  PROVE  x1 = y1
<1>1. CASE IsFix(x1) /\ IsFix(y1)
  BY <1>1, ExactCases
<1>2. CASE IsFix(x1) /\ ~IsFix(y1)
  <2>1. FitsFixnum(v)
    BY <1>2, ExactCases
  <2> QED
    BY <1>2, <2>1, BigIsLarge
<1>3. CASE ~IsFix(x1) /\ IsFix(y1)
  <2>1. FitsFixnum(v)
    BY <1>3, ExactCases
  <2> QED
    BY <1>3, <2>1, BigIsLarge
<1>4. CASE ~IsFix(x1) /\ ~IsFix(y1)
  <2>1. /\ x1.neg \in BOOLEAN /\ x1.d \in Seq(Digit) /\ Normal(x1.d) /\ x1 = Big(x1.neg, x1.d)
        /\ y1.neg \in BOOLEAN /\ y1.d \in Seq(Digit) /\ Normal(y1.d) /\ y1 = Big(y1.neg, y1.d)
    BY <1>4, ExactCases
  <2>2. /\ ~FitsFixnum(v) /\ Amount(x1.d) \in Nat /\ Amount(y1.d) \in Nat
        /\ v = Signed(x1.neg, Amount(x1.d)) /\ v = Signed(y1.neg, Amount(y1.d))
    BY <1>4, BigIsLarge
  <2>3. v # 0
    <3>1. FitsFixnum(0)
      BY BaseFacts DEF FitsFixnum
    <3>2. ~FitsFixnum(v)
      BY <2>2
    <3> QED
      BY <3>1, <3>2
  <2>4. x1.neg = y1.neg /\ Amount(x1.d) = Amount(y1.d)
    <3>1. CASE x1.neg = TRUE /\ y1.neg = TRUE
      <4>1. v = -Amount(x1.d)
        BY <2>2, <3>1 DEF Signed
      <4>2. v = -Amount(y1.d)
        BY <2>2, <3>1 DEF Signed
      <4>3. Amount(x1.d) = Amount(y1.d)
        BY <2>2, <4>1, <4>2
      <4> QED
        BY <3>1, <4>3
    <3>2. CASE x1.neg = FALSE /\ y1.neg = FALSE
      BY <2>2, <3>2 DEF Signed
    <3>3. CASE x1.neg = TRUE /\ y1.neg = FALSE
      BY <2>2, <2>3, <3>3 DEF Signed
    <3>4. CASE x1.neg = FALSE /\ y1.neg = TRUE
      BY <2>2, <2>3, <3>4 DEF Signed
    <3> QED
      BY <2>1, <3>1, <3>2, <3>3, <3>4
  <2> DEFINE o == CmpDigits(x1.d, y1.d)
  <2>5. IsOrder(o, x1.d, y1.d)
    BY <2>1, CmpDigitsExact
  <2> HIDE DEF o
  <2>6. x1.d = y1.d
    BY <2>2, <2>4, <2>5 DEF IsOrder
  <2> QED
    BY <2>1, <2>4, <2>6
<1> QED
  BY <1>1, <1>2, <1>3, <1>4

(* What a comparison of two integers returns.                              *)
Compares(o, v, w) ==
  o \in {-1, 0, 1} /\ (o = -1 <=> v < w) /\ (o = 0 <=> v = w) /\ (o = 1 <=> w < v)

(* basic_cmp and C_i_bignum_cmp order exact integers by their values.      *)
THEOREM CmpExact ==
  ASSUME NEW x1, NEW y1, NEW v, NEW w, IsExactly(x1, v), IsExactly(y1, w)
  PROVE  Compares(IntegerCmp(x1, y1), v, w)
<1>0. v \in Int /\ w \in Int
  BY ExactInt
<1>1. CASE IsFix(x1) /\ IsFix(y1)
  <2>1. v = x1.n /\ w = y1.n
    BY <1>1, ExactCases
  <2>2. IntegerCmp(x1, y1) = IF v - w < 0 THEN -1 ELSE IF v - w > 0 THEN 1 ELSE 0
    BY <1>1, <2>1 DEF IntegerCmp
  <2> QED
    BY <1>0, <2>2 DEF Compares
<1>2. CASE IsFix(x1) /\ ~IsFix(y1)
  <2>1. FitsFixnum(v)
    BY <1>2, ExactCases
  <2>2. ~FitsFixnum(w) /\ y1.neg \in BOOLEAN /\ Amount(y1.d) \in Nat /\ w = Signed(y1.neg, Amount(y1.d))
    BY <1>2, BigIsLarge
  <2>3. IntegerCmp(x1, y1) = IF y1.neg THEN 1 ELSE -1
    BY <1>2 DEF IntegerCmp
  <2>4. CASE y1.neg = TRUE
    <3>1. w <= 0
      BY <2>2, <2>4 DEF Signed
    <3>2. w < v
      BY <1>0, <2>1, <2>2, <3>1, FixnumRange, BaseFacts
    <3> QED
      BY <1>0, <2>3, <2>4, <3>2 DEF Compares
  <2>5. CASE y1.neg = FALSE
    <3>1. w >= 0
      BY <2>2, <2>5 DEF Signed
    <3>2. v < w
      BY <1>0, <2>1, <2>2, <3>1, FixnumRange, BaseFacts
    <3> QED
      BY <1>0, <2>3, <2>5, <3>2 DEF Compares
  <2> QED
    BY <2>2, <2>4, <2>5
<1>3. CASE ~IsFix(x1) /\ IsFix(y1)
  <2>1. FitsFixnum(w)
    BY <1>3, ExactCases
  <2>2. ~FitsFixnum(v) /\ x1.neg \in BOOLEAN /\ Amount(x1.d) \in Nat /\ v = Signed(x1.neg, Amount(x1.d))
    BY <1>3, BigIsLarge
  <2>3. IntegerCmp(x1, y1) = IF x1.neg THEN -1 ELSE 1
    BY <1>3 DEF IntegerCmp
  <2>4. CASE x1.neg = TRUE
    <3>1. v <= 0
      BY <2>2, <2>4 DEF Signed
    <3>2. v < w
      BY <1>0, <2>1, <2>2, <3>1, FixnumRange, BaseFacts
    <3> QED
      BY <1>0, <2>3, <2>4, <3>2 DEF Compares
  <2>5. CASE x1.neg = FALSE
    <3>1. v >= 0
      BY <2>2, <2>5 DEF Signed
    <3>2. w < v
      BY <1>0, <2>1, <2>2, <3>1, FixnumRange, BaseFacts
    <3> QED
      BY <1>0, <2>3, <2>5, <3>2 DEF Compares
  <2> QED
    BY <2>2, <2>4, <2>5
<1>4. CASE ~IsFix(x1) /\ ~IsFix(y1)
  <2>1. x1.d \in Seq(Digit) /\ Normal(x1.d) /\ y1.d \in Seq(Digit) /\ Normal(y1.d)
    BY <1>4, ExactCases
  <2>2. /\ ~FitsFixnum(v) /\ x1.neg \in BOOLEAN /\ Amount(x1.d) \in Nat /\ v = Signed(x1.neg, Amount(x1.d))
        /\ ~FitsFixnum(w) /\ y1.neg \in BOOLEAN /\ Amount(y1.d) \in Nat /\ w = Signed(y1.neg, Amount(y1.d))
    BY <1>4, BigIsLarge
  <2>3. v # 0 /\ w # 0
    <3>1. FitsFixnum(0)
      BY BaseFacts DEF FitsFixnum
    <3> QED
      BY <2>2, <3>1
  <2> DEFINE o == CmpDigits(x1.d, y1.d)
             p == CmpDigits(y1.d, x1.d)
  <2>4. IsOrder(o, x1.d, y1.d) /\ IsOrder(p, y1.d, x1.d)
    BY <2>1, CmpDigitsExact
  <2>5. IntegerCmp(x1, y1) = IF x1.neg # y1.neg THEN IF x1.neg THEN -1 ELSE 1
                           ELSE IF x1.neg THEN p ELSE o
    BY <1>4 DEF IntegerCmp
  <2> HIDE DEF o, p
  <2>6. CASE x1.neg = TRUE /\ y1.neg = FALSE
    <3>1. v < w
      BY <2>2, <2>3, <2>6 DEF Signed
    <3>2. IntegerCmp(x1, y1) = -1
      BY <2>5, <2>6
    <3> QED
      BY <1>0, <3>1, <3>2 DEF Compares
  <2>7. CASE x1.neg = FALSE /\ y1.neg = TRUE
    <3>1. w < v
      BY <2>2, <2>3, <2>7 DEF Signed
    <3>2. IntegerCmp(x1, y1) = 1
      BY <2>5, <2>7
    <3> QED
      BY <1>0, <3>1, <3>2 DEF Compares
  <2>8. CASE x1.neg = TRUE /\ y1.neg = TRUE
    <3>1. v = -Amount(x1.d) /\ w = -Amount(y1.d) /\ IntegerCmp(x1, y1) = p
      BY <2>2, <2>5, <2>8 DEF Signed
    <3>2. /\ p \in {-1, 0, 1}
          /\ p = 0 => Amount(x1.d) = Amount(y1.d)
          /\ p = -1 => Amount(y1.d) < Amount(x1.d)
          /\ p = 1 => Amount(x1.d) < Amount(y1.d)
      BY <2>4 DEF IsOrder
    <3> QED
      BY <2>2, <3>1, <3>2 DEF Compares
  <2>9. CASE x1.neg = FALSE /\ y1.neg = FALSE
    <3>1. v = Amount(x1.d) /\ w = Amount(y1.d) /\ IntegerCmp(x1, y1) = o
      BY <2>2, <2>5, <2>9 DEF Signed
    <3>2. /\ o \in {-1, 0, 1}
          /\ o = 0 => Amount(x1.d) = Amount(y1.d)
          /\ o = 1 => Amount(y1.d) < Amount(x1.d)
          /\ o = -1 => Amount(x1.d) < Amount(y1.d)
      BY <2>4 DEF IsOrder
    <3> QED
      BY <2>2, <3>1, <3>2 DEF Compares
  <2> QED
    BY <2>2, <2>6, <2>7, <2>8, <2>9
<1> QED
  BY <1>1, <1>2, <1>3, <1>4

(* Quotients by b of numbers between 0 and b * k.                          *)
LEMMA DivBounds ==
  ASSUME NEW n \in Int, NEW b \in Int, b > 0, NEW k \in Int, 0 <= n, n < b * k
  PROVE  n \div b \in 0 .. k - 1
<1> DEFINE q == n \div b
<1>1. q \in Int /\ n % b \in 0 .. b - 1 /\ n = b * q + (n % b)
  BY DivMod
<1> DEFINE r == n % b
<1>2. r \in Int /\ 0 <= r /\ r < b /\ n = b * q + r /\ q \in Int
  BY <1>1
<1> HIDE DEF q, r
<1>3. ~ (k <= q)
  <2> SUFFICES ASSUME k <= q PROVE FALSE
    OBVIOUS
  <2>1. k * b <= q * b
    BY <1>2, Monotone
  <2>2. k * b = b * k /\ q * b = b * q
    BY <1>2, Distribute
  <2> QED
    BY <2>1, <2>2, <1>2
<1>4. ~ (q <= -1)
  <2> SUFFICES ASSUME q <= -1 PROVE FALSE
    OBVIOUS
  <2> DEFINE m == -1
  <2>0. m \in Int /\ q <= m /\ m * b = -b
    OBVIOUS
  <2> HIDE DEF m
  <2>1. q * b <= m * b
    BY <1>2, <2>0, Monotone
  <2>2. q * b = b * q
    BY <1>2, Distribute
  <2> QED
    BY <2>0, <2>1, <2>2, <1>2
<1> QED
  BY <1>2, <1>3, <1>4 DEF q

(* A word and its halves.                                                  *)
LEMMA HalfFacts ==
  /\ Half \in Int /\ Half >= 4 /\ Base = Half * Half /\ Base \in Int /\ Base >= 16
  /\ HalfDigit \subseteq Int /\ HalfDigit \subseteq Digit
BY BaseFacts DEF HalfDigit, Digit

LEMMA HiLo ==
  ASSUME NEW n \in Int
  PROVE  /\ Hi(n) \in Int /\ Lo(n) \in Int /\ Lo(n) \in HalfDigit /\ 0 <= Lo(n) /\ Lo(n) < Half
         /\ n = Half * Hi(n) + Lo(n)
<1>1. n \div Half \in Int /\ n % Half \in 0 .. Half - 1 /\ n = Half * (n \div Half) + (n % Half)
  BY HalfFacts, DivMod
<1> QED
  BY <1>1, HalfFacts DEF Hi, Lo, HalfDigit

LEMMA HiBounds ==
  ASSUME NEW n \in Int, NEW k \in Int, 0 <= n, n < Half * k
  PROVE  Hi(n) \in Int /\ 0 <= Hi(n) /\ Hi(n) < k
<1>1. n \div Half \in 0 .. k - 1
  BY HalfFacts, DivBounds
<1> QED
  BY <1>1 DEF Hi

LEMMA DigitHalves ==
  ASSUME NEW x1 \in Digit
  PROVE  /\ x1 \in Int /\ Hi(x1) \in HalfDigit /\ Lo(x1) \in HalfDigit /\ x1 = Half * Hi(x1) + Lo(x1)
         /\ Hi(x1) \in Int /\ Lo(x1) \in Int /\ 0 <= Hi(x1) /\ Hi(x1) < Half /\ 0 <= Lo(x1) /\ Lo(x1) < Half
<1>1. x1 \in Int /\ 0 <= x1 /\ x1 < Half * Half
  BY HalfFacts DEF Digit
<1>2. Hi(x1) \in Int /\ 0 <= Hi(x1) /\ Hi(x1) < Half
  BY <1>1, HalfFacts, HiBounds
<1> QED
  BY <1>1, <1>2, HiLo, HalfFacts DEF HalfDigit

LEMMA CombineHalves ==
  ASSUME NEW hi \in HalfDigit, NEW lo \in HalfDigit
  PROVE  Combine(hi, lo) \in Digit /\ Hi(Combine(hi, lo)) = hi /\ Lo(Combine(hi, lo)) = lo
<1>0. hi \in Int /\ lo \in Int /\ 0 <= hi /\ hi <= Half - 1 /\ 0 <= lo /\ lo < Half /\ lo \in 0 .. Half - 1
  BY HalfFacts DEF HalfDigit
<1>1. hi * Half <= (Half - 1) * Half /\ hi * Half = Half * hi /\ hi * Half \in Int
  BY <1>0, HalfFacts, Monotone, Distribute
<1>2. (Half - 1) * Half = Half * Half - 1 * Half
  BY HalfFacts, Distribute
<1>3. 0 * Half <= hi * Half
  BY <1>0, HalfFacts, Monotone
<1> DEFINE p == hi * Half  s == Half * Half  n == hi * Half + lo
<1>4. p \in Int /\ s \in Int /\ p <= s - Half /\ 0 <= p /\ Base = s
  BY <1>1, <1>2, <1>3, HalfFacts
<1>5. n \in Int /\ n = Half * hi + lo
  BY <1>0, <1>1
<1>6. n \div Half = hi /\ n % Half = lo
  BY <1>5, <1>0, HalfFacts, DivUnique
<1>7. n = p + lo
  OBVIOUS
<1>8. Combine(hi, lo) = n
  BY DEF Combine
<1> HIDE DEF p, s, n
<1>9. n \in 0 .. s - 1
  BY <1>4, <1>7, <1>0, HalfFacts
<1> QED
  BY <1>4, <1>6, <1>8, <1>9 DEF Hi, Lo, Digit

(* A half digit times a half digit, and a carry or two.                    *)
LEMMA HalfProduct ==
  ASSUME NEW a \in HalfDigit, NEW b \in HalfDigit, NEW c \in Int, 0 <= c, c <= 2 * Half - 2
  PROVE  a * b + c \in Int /\ 0 <= a * b + c /\ Hi(a * b + c) \in HalfDigit /\ Lo(a * b + c) \in HalfDigit
<1>0. a \in Int /\ b \in Int /\ 0 <= a /\ a <= Half - 1 /\ 0 <= b /\ b <= Half - 1
  BY HalfFacts DEF HalfDigit
<1>1. a * b <= (Half - 1) * b /\ 0 * b <= a * b /\ a * b \in Int
  BY <1>0, HalfFacts, Monotone, Distribute
<1>2. b * (Half - 1) <= (Half - 1) * (Half - 1) /\ b * (Half - 1) = (Half - 1) * b
  BY <1>0, HalfFacts, Monotone, Distribute
<1>3. (Half - 1) * (Half - 1) = Half * Half - 2 * Half + 1
  <2>1. (Half - 1) * (Half - 1) = Half * (Half - 1) - 1 * (Half - 1)
    BY HalfFacts, Distribute
  <2>2. Half * (Half - 1) = Half * Half - Half * 1
    BY HalfFacts, Distribute
  <2> QED
    BY <2>1, <2>2, HalfFacts
<1> DEFINE p == a * b  s == Half * Half  r == (Half - 1) * b  t == (Half - 1) * (Half - 1)
<1>4. p \in Int /\ s \in Int /\ p <= r /\ 0 <= p /\ r <= t /\ t = s - 2 * Half + 1
  BY <1>0, <1>1, <1>2, <1>3, HalfFacts
<1>5. r \in Int /\ t \in Int
  BY <1>0, HalfFacts
<1> HIDE DEF p, r, t
<1>6. p + c \in Int /\ 0 <= p + c /\ p + c < s
  BY <1>4, <1>5, HalfFacts
<1>7. p + c < Half * Half
  BY <1>6 DEF s
<1> HIDE DEF s
<1>8. Hi(p + c) \in Int /\ 0 <= Hi(p + c) /\ Hi(p + c) < Half
  BY <1>6, <1>7, HalfFacts, HiBounds
<1>9. Lo(p + c) \in HalfDigit
  BY <1>6, HiLo
<1>10. p + c \in Int /\ 0 <= p + c /\ Hi(p + c) \in HalfDigit /\ Lo(p + c) \in HalfDigit
  BY <1>6, <1>8, <1>9, HalfFacts DEF HalfDigit
<1> QED
  BY <1>10 DEF p

(* bignum_digits_destructive_scale_up_with_carry: one digit.               *)
ScaleStep(factor) ==
  [x1 \in Digit |-> [c \in HalfDigit |->
     LET p == factor * Lo(x1) + c
         q == factor * Hi(x1) + Hi(p)
     IN <<Combine(Lo(q), Lo(p)), Hi(q)>>]]

Scales(r, factor, x1, c, C) ==
  r[1] \in Digit /\ r[2] \in C /\ r[1] + Base * r[2] = factor * x1 + c

LEMMA ScaleStepParts ==
  ASSUME NEW factor \in HalfDigit, NEW x1 \in Digit, NEW c \in HalfDigit
  PROVE  Scales(ScaleStep(factor)[x1][c], factor, x1, c, HalfDigit)
<1> DEFINE h == Hi(x1)  l == Lo(x1)  p == factor * l + c  q == factor * h + Hi(p)
<1>1. /\ h \in HalfDigit /\ l \in HalfDigit /\ x1 = Half * h + l /\ h \in Int /\ l \in Int
      /\ factor \in Int /\ c \in Int /\ 0 <= c /\ c <= 2 * Half - 2 /\ Half \in Int /\ Base = Half * Half
  BY DigitHalves, HalfFacts DEF HalfDigit
<1> HIDE DEF h, l
<1>2. p \in Int /\ Hi(p) \in HalfDigit /\ Lo(p) \in HalfDigit
  BY <1>1, HalfProduct
<1>3. p = Half * Hi(p) + Lo(p)
  BY <1>2, HiLo
<1>4. Hi(p) \in Int /\ 0 <= Hi(p) /\ Hi(p) <= 2 * Half - 2
  BY <1>2, HalfFacts DEF HalfDigit
<1>5. q \in Int /\ Hi(q) \in HalfDigit /\ Lo(q) \in HalfDigit
  BY <1>1, <1>4, HalfProduct
<1>6. q = Half * Hi(q) + Lo(q) /\ Hi(q) \in Int /\ Lo(q) \in Int /\ Lo(p) \in Int
  BY <1>5, <1>2, HiLo
<1>7. ScaleStep(factor)[x1][c] = <<Combine(Lo(q), Lo(p)), Hi(q)>>
  BY DEF ScaleStep, h, l
<1>8. Combine(Lo(q), Lo(p)) \in Digit /\ Combine(Lo(q), Lo(p)) = Lo(q) * Half + Lo(p)
  BY <1>5, <1>2, CombineHalves DEF Combine
<1>9. Lo(q) * Half + Lo(p) + Base * Hi(q) = factor * x1 + c
  <2> DEFINE ql == Lo(q)  qh == Hi(q)  pl == Lo(p)  ph == Hi(p)
  <2>1. /\ factor * l + c = Half * ph + pl /\ factor * h + ph = Half * qh + ql
        /\ ql \in Int /\ qh \in Int /\ pl \in Int /\ ph \in Int
    BY <1>3, <1>4, <1>6
  <2> HIDE DEF ql, qh, pl, ph, p, q
  <2>2. Half * (factor * h + ph) = Half * (Half * qh + ql)
    BY <2>1
  <2>3. ql * Half + pl + (Half * Half) * qh = factor * (Half * h + l) + c
    BY <1>1, <2>1, <2>2
  <2> QED
    BY <2>3, <1>1 DEF ql, qh, pl
<1> QED
  BY <1>5, <1>7, <1>8, <1>9 DEF Scales

(* d times the factor, and a carry: the digits and what is left over.      *)
IsScaled(r, d, factor, carry, C) ==
  /\ r[1] \in Seq(Digit) /\ Len(r[1]) = Len(d) /\ r[2] \in C
  /\ Amount(r[1]) + r[2] * Power(Base, Len(d)) = factor * Amount(d) + carry

LEMMA ScalingLoop ==
  ASSUME NEW d \in Seq(Digit), NEW factor \in Int, NEW C, C \subseteq Int, NEW carry \in C, NEW step,
         \A x1 \in Digit, c \in C : Scales(step[x1][c], factor, x1, c, C)
  PROVE  IsScaled(Upward(step, carry, d), d, factor, carry, C)
<1> DEFINE r == Upward(step, carry, d)  n == Len(d)
           s == [i \in 1 .. n |-> factor * d[i]]  z == [i \in 1 .. n |-> 0]
<1>3. \A x1 \in Digit, c \in C : step[x1][c][1] \in Digit /\ step[x1][c][2] \in C
  BY DEF Scales
<1>4. Loops(Upward(step, carry, d), step, carry, d, Digit, C)
  BY <1>3, UpwardIsLoop
<1> HIDE DEF r
<1>5. Loops(r, step, carry, d, Digit, C)
  BY <1>4 DEF r
<1>6. PICK c : IsLoop(r[1], c, step, carry, d, Digit, C) /\ r[2] = c[Len(d)]
  BY <1>5 DEF Loops
<1>7. /\ r[1] \in Seq(Digit) /\ Len(r[1]) = n /\ c \in [0 .. n -> C] /\ c[0] = carry
      /\ \A i \in 1 .. n : r[1][i] = step[d[i]][c[i - 1]][1] /\ c[i] = step[d[i]][c[i - 1]][2]
  BY <1>6 DEF IsLoop
<1>8. n \in Nat /\ \A i \in 1 .. n : d[i] \in Digit /\ d[i] \in Int
  BY DigitSequence
<1>9. Base \in Int /\ factor \in Int /\ carry \in Int /\ C \subseteq Int
  BY HalfFacts
<1>10. \A i \in 1 .. n : r[1][i] \in Digit /\ r[1][i] \in Int
  BY <1>7, DigitSequence
<1>11. \A i \in 0 .. n : c[i] \in C /\ c[i] \in Int
  BY <1>7, <1>9
<1> HIDE DEF n
<1>12. ASSUME NEW i \in 1 .. n PROVE r[1][i] + Base * c[i] = s[i] + c[i - 1]
  <2>1. i - 1 \in 0 .. n /\ d[i] \in Digit /\ c[i - 1] \in C
    BY <1>8, <1>11
  <2>2. Scales(step[d[i]][c[i - 1]], factor, d[i], c[i - 1], C)
    BY <2>1
  <2> QED
    BY <2>2, <1>7 DEF Scales
<1>13. \A i \in 1 .. n : s[i] \in Int /\ z[i] \in Int /\ s[i] = z[i] + factor * d[i]
  BY <1>8, <1>9
<1>14. \A i \in 1 .. n : z[i] = 0
  OBVIOUS
<1> HIDE DEF s, z
<1>15. SameValue(Base, n, s, r[1], c)
  BY <1>8, <1>9, <1>10, <1>11, <1>12, <1>13, LoopKeepsValue
<1>16. IsLinear(Base, s, z, factor, d, n)
  BY <1>8, <1>9, <1>13, ValueLinear
<1>17. DigitsValue(Base, z, n) = 0
  BY <1>8, <1>9, <1>14, ValueOfZeros
<1>18. DigitsValue(Base, r[1], n) + c[n] * Power(Base, n) = DigitsValue(Base, s, n) + c[0]
  BY <1>15, <1>8 DEF SameValue
<1>19. DigitsValue(Base, d, n) \in Int
  BY <1>8, <1>9, ValueInt
<1>20. DigitsValue(Base, s, n) = factor * DigitsValue(Base, d, n)
  BY <1>16, <1>17, <1>19, <1>9 DEF IsLinear
<1>21. r[2] = c[n] /\ r[2] \in C
  BY <1>6, <1>8, <1>11 DEF n
<1> QED
  BY <1>7, <1>18, <1>20, <1>21 DEF IsScaled, Amount, r, n

LEMMA ScaleUpExact ==
  ASSUME NEW d \in Seq(Digit), NEW factor \in HalfDigit, NEW carry \in HalfDigit
  PROVE  IsScaled(ScaleUp(d, factor, carry), d, factor, carry, HalfDigit)
<1> DEFINE step == ScaleStep(factor)
<1>1. ScaleUp(d, factor, carry) = Upward(step, carry, d)
  BY DEF ScaleUp, ScaleStep
<1>2. \A x1 \in Digit, c \in HalfDigit : Scales(step[x1][c], factor, x1, c, HalfDigit)
  BY ScaleStepParts
<1> HIDE DEF step
<1>3. factor \in Int /\ HalfDigit \subseteq Int
  BY HalfFacts
<1>4. IsScaled(Upward(step, carry, d), d, factor, carry, HalfDigit)
  BY <1>2, <1>3, ScalingLoop
<1> QED
  BY <1>1, <1>4

(* bignum_digits_destructive_shift_left: one digit.                        *)
LeftStep(left, right) ==
  [x1 \in Digit |-> [c \in Digit |-> <<((x1 * left) % Base) + c, x1 \div right>>]]

LEMMA LeftStepParts ==
  ASSUME NEW left \in Int, left > 0, NEW right \in Int, right > 0, left * right = Base,
         NEW x1 \in Digit, NEW c \in 0 .. left - 1
  PROVE  Scales(LeftStep(left, right)[x1][c], left, x1, c, 0 .. left - 1)
<1> DEFINE u == x1 \div right  v == x1 % right
<1>0. x1 \in Int /\ 0 <= x1 /\ x1 < Base /\ c \in Int /\ 0 <= c /\ c < left /\ Base \in Int /\ Base > 0
  BY HalfFacts DEF Digit
<1>1. u \in Int /\ v \in 0 .. right - 1 /\ x1 = right * u + v
  BY <1>0, DivMod
<1>2. right * left = Base /\ x1 < right * left
  BY <1>0, Distribute
<1>3. u \in 0 .. left - 1
  BY <1>0, <1>2, DivBounds
<1> HIDE DEF u, v
<1>4. v \in Int /\ 0 <= v /\ v <= right - 1
  BY <1>1
<1>5. v * left <= (right - 1) * left /\ 0 * left <= v * left /\ v * left \in Int
  BY <1>4, Monotone, Distribute
<1>6. (right - 1) * left = right * left - 1 * left
  BY Distribute
<1> DEFINE w == v * left  t == (right - 1) * left
<1>7. w \in Int /\ 0 <= w /\ w <= t /\ t = Base - left
  BY <1>5, <1>6, <1>2
<1>8. x1 * left = Base * u + w
  <2>1. x1 * left = (right * u + v) * left
    BY <1>1
  <2>2. (right * u + v) * left = (right * left) * u + v * left
    BY <1>1, <1>4
  <2> QED
    BY <2>1, <2>2, <1>2
<1> DEFINE p == x1 * left
<1> HIDE DEF t, w, p
<1>9. p \in Int
  BY <1>0, Distribute DEF p
<1>10. w \in 0 .. Base - 1
  BY <1>7, <1>0
<1>11. p % Base = w
  BY <1>0, <1>1, <1>8, <1>9, <1>10, DivUnique DEF p
<1>12. w + c \in Digit
  BY <1>7, <1>0 DEF Digit
<1>13. c \in Digit
  BY <1>0, <1>7 DEF Digit
<1>14. LeftStep(left, right)[x1][c] = <<(p % Base) + c, u>>
  BY <1>13 DEF LeftStep, p, u
<1>15. (w + c) + Base * u = left * x1 + c
  <2>1. p = left * x1 /\ p = Base * u + w
    BY <1>0, <1>8, Distribute DEF p
  <2> DEFINE a == Base * u  b == left * x1
  <2>2. a \in Int /\ b \in Int /\ p = b /\ p = a + w
    BY <2>1, <1>0, <1>1
  <2> HIDE DEF a, b
  <2>3. (w + c) + a = b + c
    BY <2>2, <1>7, <1>0, <1>9
  <2> QED
    BY <2>3 DEF a, b
<1> QED
  BY <1>3, <1>11, <1>12, <1>14, <1>15 DEF Scales

(* Two powers that make a word.                                            *)
LEMMA WordSplit ==
  ASSUME NEW s \in 0 .. DigitBits
  PROVE  /\ Power(2, s) \in Int /\ Power(2, s) > 0
         /\ Power(2, DigitBits - s) \in Int /\ Power(2, DigitBits - s) > 0
         /\ Power(2, s) * Power(2, DigitBits - s) = Base
<1>1. s \in Nat /\ DigitBits - s \in Nat /\ s + (DigitBits - s) = DigitBits
  BY BaseFacts
<1>2. Power(2, s + (DigitBits - s)) = Power(2, s) * Power(2, DigitBits - s)
  BY <1>1, PowerSum
<1>3. Power(2, DigitBits) = Base
  BY BaseFacts
<1> QED
  BY <1>1, <1>2, <1>3, PowerPositive

LEMMA TwoToIs ==
  ASSUME NEW s \in 0 .. DigitBits
  PROVE  TwoTo[s] = Power(2, s) /\ TwoTo[DigitBits - s] = Power(2, DigitBits - s)
<1>1. DigitBits - s \in 0 .. DigitBits
  BY BaseFacts
<1> QED
  BY <1>1 DEF TwoTo

(* bignum_digits_destructive_shift_left                                    *)
LEMMA ShiftLeftExact ==
  ASSUME NEW d \in Seq(Digit), NEW s \in 0 .. DigitBits
  PROVE  IsScaled(ShiftLeft(d, s), d, Power(2, s), 0, 0 .. Power(2, s) - 1)
<1> DEFINE left == Power(2, s)  right == Power(2, DigitBits - s)  step == LeftStep(left, right)
           C == 0 .. left - 1
<1>1. left \in Int /\ left > 0 /\ right \in Int /\ right > 0 /\ left * right = Base
  BY WordSplit
<1>2. ShiftLeft(d, s) = Upward(step, 0, d)
  BY TwoToIs DEF ShiftLeft, LeftStep
<1> HIDE DEF left, right
<1>3. \A x1 \in Digit, c \in C : Scales(step[x1][c], left, x1, c, C)
  BY <1>1, LeftStepParts
<1>4. 0 \in C /\ C \subseteq Int
  BY <1>1
<1> HIDE DEF step, C
<1>5. IsScaled(Upward(step, 0, d), d, left, 0, C)
  BY <1>1, <1>3, <1>4, ScalingLoop
<1> QED
  BY <1>2, <1>5 DEF left, C

LEMMA AppendAmount ==
  ASSUME NEW d \in Seq(Digit), NEW x1 \in Digit
  PROVE  /\ Append(d, x1) \in Seq(Digit)
         /\ Amount(Append(d, x1)) = Amount(d) + x1 * Power(Base, Len(d))
<1> DEFINE n == Len(d)  e == Append(d, x1)
<1>1. n \in Nat /\ (\A i \in 1 .. n : d[i] \in Digit /\ d[i] \in Int) /\ Base \in Int
  BY DigitSequence, HalfFacts
<1>2. e \in Seq(Digit) /\ Len(e) = n + 1 /\ e[n + 1] = x1 /\ \A i \in 1 .. n : e[i] = d[i]
  OBVIOUS
<1>3. \A i \in 1 .. Len(e) : e[i] \in Digit /\ e[i] \in Int
  BY <1>2, DigitSequence
<1> HIDE DEF n, e
<1>4. \A i \in 1 .. n + 1 : e[i] \in Int
  BY <1>2, <1>3
<1>5. DigitsValue(Base, e, n + 1) = DigitsValue(Base, e, n) + e[n + 1] * Power(Base, n)
  BY <1>1, <1>4, OneMoreDigit
<1>6. \A i \in 1 .. n : d[i] \in Int /\ e[i] = d[i]
  BY <1>1, <1>2
<1>7. DigitsValue(Base, d, n) = DigitsValue(Base, e, n)
  BY <1>1, <1>6, SameDigits
<1>8. Amount(e) = DigitsValue(Base, e, n + 1)
  BY <1>2 DEF Amount
<1>9. Amount(d) = DigitsValue(Base, d, n)
  BY DEF Amount, n
<1> QED
  BY <1>2, <1>5, <1>7, <1>8, <1>9 DEF n, e

LEMMA DigitAmount ==
  ASSUME NEW x1 \in Digit
  PROVE  <<x1>> \in Seq(Digit) /\ Len(<<x1>>) = 1 /\ Amount(<<x1>>) = x1 /\ <<x1>>[1] = x1
<1> DEFINE d == <<x1>>
<1>1. d \in Seq(Digit)
  OBVIOUS
<1>2. Len(d) = 1 /\ d[1] = x1
  OBVIOUS
<1> HIDE DEF d
<1>3. Amount(d) = d[1]
  BY <1>1, <1>2, OneDigit
<1> QED
  BY <1>1, <1>2, <1>3 DEF d

LEMMA TwoDigitAmount ==
  ASSUME NEW lo \in Digit, NEW hi \in Digit
  PROVE  /\ <<lo, hi>> \in Seq(Digit) /\ Len(<<lo, hi>>) = 2 /\ <<lo, hi>>[2] = hi
         /\ Amount(<<lo, hi>>) = lo + Base * hi
<1> DEFINE d == <<lo, hi>>
<1>1. d \in Seq(Digit)
  OBVIOUS
<1>2. Len(d) = 2 /\ d[1] = lo /\ d[2] = hi
  OBVIOUS
<1> HIDE DEF d
<1>3. lo \in Int /\ hi \in Int /\ Base \in Int /\ \A i \in 1 .. 2 : d[i] \in Int
  BY <1>2, DigitsAreInt, HalfFacts
<1>4. DigitsValue(Base, d, 1 + 1) = DigitsValue(Base, d, 1) + d[1 + 1] * Power(Base, 1)
  BY <1>3, OneMoreDigit
<1>5. DigitsValue(Base, d, 0 + 1) = DigitsValue(Base, d, 0) + d[0 + 1] * Power(Base, 0)
  BY <1>3, OneMoreDigit
<1>6. Power(Base, 0 + 1) = Base * Power(Base, 0) /\ Power(Base, 0) = 1 /\ DigitsValue(Base, d, 0) = 0
  BY <1>3, PowerNext, PowerZero, NoDigits
<1>7. DigitsValue(Base, d, 2) = lo + hi * Base
  BY <1>2, <1>3, <1>4, <1>5, <1>6
<1>8. hi * Base = Base * hi
  BY <1>3, Distribute
<1>9. Amount(d) = lo + Base * hi
  BY <1>2, <1>7, <1>8 DEF Amount
<1> QED
  BY <1>1, <1>2, <1>9 DEF d

LEMMA FixnumIsDigit ==
  ASSUME NEW n \in Int, FitsFixnum(n)
  PROVE  Magnitude(n) \in Digit /\ Magnitude(n) \in Int /\ n = Signed(n < 0, Magnitude(n))
BY BaseFacts DEF FitsFixnum, Magnitude, Digit, Signed

(* The product of signs and magnitudes.                                    *)
LEMMA SignedProduct ==
  ASSUME NEW p \in BOOLEAN, NEW q \in BOOLEAN, NEW a \in Int, NEW b \in Int
  PROVE  Signed(p, a) * Signed(q, b) = Signed(p # q, a * b)
<1>1. a * (-b) = -(a * b) /\ (-a) * b = -(a * b) /\ (-a) * (-b) = a * b
  OBVIOUS
<1>2. CASE p = TRUE /\ q = TRUE
  BY <1>1, <1>2 DEF Signed
<1>3. CASE p = TRUE /\ q = FALSE
  BY <1>1, <1>3 DEF Signed
<1>4. CASE p = FALSE /\ q = TRUE
  BY <1>1, <1>4 DEF Signed
<1>5. CASE p = FALSE /\ q = FALSE
  BY <1>1, <1>5 DEF Signed
<1> QED
  BY <1>2, <1>3, <1>4, <1>5

(* The last step of C_a_i_fixnum_times.                                    *)
LEMMA FixnumProductExact ==
  ASSUME NEW neg \in BOOLEAN, NEW hi \in Digit, NEW lo \in Digit
  PROVE  IsExactly(FixnumProduct(neg, hi, lo), Signed(neg, lo + Base * hi))
<1>1. CASE hi # 0
  <2> DEFINE d == <<lo, hi>>
  <2>1. d \in Seq(Digit) /\ Len(d) = 2 /\ d[2] = hi /\ Amount(d) = lo + Base * hi
    BY TwoDigitAmount
  <2>2. FixnumProduct(neg, hi, lo) = Big(neg, d)
    BY <1>1 DEF FixnumProduct
  <2> HIDE DEF d
  <2>3. Len(d) > 0 /\ d[Len(d)] # 0 /\ Len(d) # 1
    BY <1>1, <2>1
  <2>4. IsExactly(Big(neg, d), Signed(neg, Amount(d)))
    BY <2>1, <2>3, BigIsExact
  <2> QED
    BY <2>1, <2>2, <2>4
<1>2. CASE hi = 0
  <2> DEFINE m == IF neg THEN -lo ELSE lo
  <2>1. lo \in Int /\ lo + Base * hi = lo /\ m = Signed(neg, lo) /\ m \in Int
    BY <1>2, DigitsAreInt, HalfFacts DEF Signed
  <2>2. FixnumProduct(neg, hi, lo) = FixnumOr(Big(neg, <<lo>>), m)
    BY <1>2 DEF FixnumProduct
  <2> HIDE DEF m
  <2>3. CASE FitsFixnum(m)
    BY <2>1, <2>2, <2>3, FixIsExact DEF FixnumOr
  <2>4. CASE ~FitsFixnum(m)
    <3>1. lo # 0
      BY <2>1, <2>4, BaseFacts DEF FitsFixnum, Signed
    <3> DEFINE d == <<lo>>
    <3>2. d \in Seq(Digit) /\ Len(d) = 1 /\ d[1] = lo /\ Amount(d) = lo
      BY DigitAmount
    <3>3. FixnumProduct(neg, hi, lo) = Big(neg, d)
      BY <2>2, <2>4 DEF FixnumOr
    <3> HIDE DEF d
    <3>4. Len(d) > 0 /\ d[Len(d)] # 0 /\ ~FitsFixnum(Signed(neg, d[1]))
      BY <2>1, <2>4, <3>1, <3>2
    <3>5. IsExactly(Big(neg, d), Signed(neg, Amount(d)))
      BY <3>2, <3>4, BigIsExact
    <3> QED
      BY <2>1, <3>2, <3>3, <3>5
  <2> QED
    BY <2>3, <2>4
<1> QED
  BY <1>1, <1>2

(* The product of two words by their halves.                               *)
LEMMA ProductOfHalves ==
  ASSUME NEW h \in Int, NEW ah \in Int, NEW al \in Int, NEW bh \in Int, NEW bl \in Int,
         NEW ph \in Int, NEW pl \in Int, NEW qh \in Int, NEW ql \in Int, NEW rh \in Int, NEW rl \in Int,
         al * bl = h * ph + pl, ah * bl + ph = h * qh + ql, al * bh + ql = h * rh + rl
  PROVE  (h * ah + al) * (h * bh + bl) = (rl * h + pl) + (h * h) * (ah * bh + rh + qh)
<1>1. (h * ah + al) * (h * bh + bl) = (h * h) * (ah * bh) + h * (ah * bl) + h * (al * bh) + al * bl
  OBVIOUS
<1>2. ah * bl = h * qh + ql - ph
  OBVIOUS
<1>3. al * bh = h * rh + rl - ql
  OBVIOUS
<1>4. h * (ah * bl) = (h * h) * qh + h * ql - h * ph
  BY <1>2
<1>5. h * (al * bh) = (h * h) * rh + h * rl - h * ql
  BY <1>3
<1>6. (h * h) * (ah * bh + rh + qh) = (h * h) * (ah * bh) + (h * h) * rh + (h * h) * qh
  OBVIOUS
<1>7. rl * h = h * rl
  OBVIOUS
<1> QED
  BY <1>1, <1>4, <1>5, <1>6, <1>7

(* C_a_i_fixnum_times                                                      *)
THEOREM FixnumTimesExact ==
  ASSUME NEW x1 \in Int, NEW y1 \in Int, FitsFixnum(x1), FitsFixnum(y1)
  PROVE  IsExactly(FixnumTimes(x1, y1), x1 * y1)
<1> DEFINE a == Magnitude(x1)  b == Magnitude(y1)  neg == (x1 < 0) # (y1 < 0)
           ah == Hi(a)  al == Lo(a)  bh == Hi(b)  bl == Lo(b)
           p == al * bl  q == ah * bl + Hi(p)  r == al * bh + Lo(q)
           hi == ah * bh + Hi(r) + Hi(q)  lo == Combine(Lo(r), Lo(p))
<1>1. a \in Digit /\ b \in Digit /\ x1 = Signed(x1 < 0, a) /\ y1 = Signed(y1 < 0, b) /\ neg \in BOOLEAN
  BY FixnumIsDigit
<1>2. FixnumTimes(x1, y1) = FixnumProduct(neg, hi, lo)
  BY DEF FixnumTimes, LowerProduct, MiddleProduct, UpperProduct
<1>3. x1 * y1 = Signed(neg, a * b)
  <2> DEFINE u == x1 < 0  v == y1 < 0
  <2>1. u \in BOOLEAN /\ v \in BOOLEAN /\ x1 = Signed(u, a) /\ y1 = Signed(v, b) /\ neg = (u # v)
    BY <1>1
  <2>2. a \in Int /\ b \in Int
    BY <1>1, DigitsAreInt
  <2> HIDE DEF u, v, a, b, neg
  <2>3. Signed(u, a) * Signed(v, b) = Signed(u # v, a * b)
    BY <2>1, <2>2, SignedProduct
  <2> QED
    BY <2>1, <2>3
<1> HIDE DEF a, b, neg
<1>4. /\ ah \in HalfDigit /\ al \in HalfDigit /\ a = Half * ah + al /\ ah \in Int /\ al \in Int
      /\ bh \in HalfDigit /\ bl \in HalfDigit /\ b = Half * bh + bl /\ bh \in Int /\ bl \in Int
  BY <1>1, DigitHalves
<1> HIDE DEF ah, al, bh, bl
<1>5. p \in Int /\ Hi(p) \in HalfDigit /\ Lo(p) \in HalfDigit
  <2>1. al * bl + 0 \in Int /\ Hi(al * bl + 0) \in HalfDigit /\ Lo(al * bl + 0) \in HalfDigit
    BY <1>4, HalfFacts, HalfProduct
  <2>2. al * bl + 0 = p
    BY <1>4
  <2> QED
    BY <2>1, <2>2
<1>6. p = Half * Hi(p) + Lo(p) /\ Hi(p) \in Int /\ 0 <= Hi(p) /\ Hi(p) <= 2 * Half - 2 /\ Lo(p) \in Int
  BY <1>5, HiLo, HalfFacts DEF HalfDigit
<1>7. q \in Int /\ Hi(q) \in HalfDigit /\ Lo(q) \in HalfDigit
  BY <1>4, <1>6, HalfProduct
<1>8. q = Half * Hi(q) + Lo(q) /\ Hi(q) \in Int /\ 0 <= Lo(q) /\ Lo(q) <= 2 * Half - 2 /\ Lo(q) \in Int
  BY <1>7, HiLo, HalfFacts DEF HalfDigit
<1>9. r \in Int /\ Hi(r) \in HalfDigit /\ Lo(r) \in HalfDigit
  BY <1>4, <1>8, HalfProduct
<1>10. r = Half * Hi(r) + Lo(r) /\ Hi(r) \in Int /\ Lo(r) \in Int
  BY <1>9, HiLo
<1> DEFINE ph == Hi(p)  pl == Lo(p)  qh == Hi(q)  ql == Lo(q)  rh == Hi(r)  rl == Lo(r)
<1>11. /\ ph \in HalfDigit /\ pl \in HalfDigit /\ qh \in HalfDigit /\ ql \in HalfDigit
       /\ rh \in HalfDigit /\ rl \in HalfDigit
  BY <1>5, <1>7, <1>9
<1>12. al * bl = Half * ph + pl /\ ah * bl + ph = Half * qh + ql /\ al * bh + ql = Half * rh + rl
  BY <1>6, <1>8, <1>10
<1>13. hi = ah * bh + rh + qh /\ lo = Combine(rl, pl)
  OBVIOUS
<1> HIDE DEF p, q, r, ph, pl, qh, ql, rh, rl, hi, lo
<1>14. lo \in Digit /\ lo = rl * Half + pl
  BY <1>11, <1>13, CombineHalves DEF Combine
<1>15. ph \in Int /\ pl \in Int /\ qh \in Int /\ ql \in Int /\ rh \in Int /\ rl \in Int /\ Half \in Int
  BY <1>11, HalfFacts
<1>16. a * b = (rl * Half + pl) + (Half * Half) * (ah * bh + rh + qh)
  <2>1. (Half * ah + al) * (Half * bh + bl) = (rl * Half + pl) + (Half * Half) * (ah * bh + rh + qh)
    BY <1>4, <1>12, <1>15, ProductOfHalves
  <2> QED
    BY <2>1, <1>4
<1>17. a * b = lo + Base * hi
  BY <1>13, <1>14, <1>16, HalfFacts
<1>18. hi \in Digit
  <2>1. hi \in Int /\ a \in Int /\ b \in Int /\ 0 <= a /\ a < Base /\ 0 <= b /\ b < Base /\ lo \in Int
    BY <1>1, <1>4, <1>13, <1>14, <1>15, HalfFacts DEF Digit
  <2>2. ah * bh \in Int /\ 0 <= ah * bh
    <3>1. 0 * bh <= ah * bh
      BY <1>4, Monotone DEF HalfDigit
    <3> QED
      BY <3>1, <1>4, Distribute
  <2>3. 0 <= hi
    BY <2>2, <1>11, <1>13, <1>15 DEF HalfDigit
  <2>4. ~(Base <= hi)
    <3> SUFFICES ASSUME Base <= hi PROVE FALSE
      OBVIOUS
    <3>1. Base * Base <= hi * Base /\ hi * Base = Base * hi
      BY <2>1, HalfFacts, Monotone, Distribute
    <3>2. a * b <= Base * b /\ b * Base <= Base * Base /\ b * Base = Base * b
      BY <2>1, HalfFacts, Monotone, Distribute
    <3>3. a * b < Base * Base
      <4>1. CASE b = 0
        <5>1. a * b = 0
          BY <4>1, <2>1
        <5>2. 0 * Base < Base * Base
          BY HalfFacts, StrictlyMonotone
        <5> QED
          BY <5>1, <5>2, HalfFacts
      <4>2. CASE b > 0
        <5>1. b * Base < Base * Base
          BY <2>1, HalfFacts, StrictlyMonotone
        <5> DEFINE s == a * b  t == Base * b  u == b * Base  w == Base * Base
        <5>2. s \in Int /\ t \in Int /\ u \in Int /\ w \in Int /\ s <= t /\ u = t /\ u < w
          BY <2>1, <3>2, <5>1, HalfFacts
        <5> HIDE DEF s, t, u, w
        <5>3. s < w
          BY <5>2
        <5> QED
          BY <5>3 DEF s, w
      <4> QED
        BY <4>1, <4>2, <2>1
    <3> DEFINE s == a * b  w == Base * Base  t == Base * hi
    <3>4. s \in Int /\ w \in Int /\ t \in Int /\ s < w /\ w <= t /\ s = lo + t /\ 0 <= lo
      BY <2>1, <3>1, <3>3, <1>14, <1>17, HalfFacts DEF Digit
    <3> HIDE DEF s, w, t
    <3> QED
      BY <3>4, <2>1
  <2> QED
    BY <2>1, <2>3, <2>4, HalfFacts DEF Digit
<1>19. neg \in BOOLEAN
  BY <1>1
<1>20. IsExactly(FixnumProduct(neg, hi, lo), Signed(neg, lo + Base * hi))
  BY <1>14, <1>18, <1>19, FixnumProductExact
<1> QED
  BY <1>2, <1>3, <1>17, <1>20

(* C_ilen of a word.                                                       *)
LEMMA IlenFacts ==
  ASSUME NEW n \in Digit
  PROVE  /\ Ilen(n) \in 0 .. DigitBits /\ n < Power(2, Ilen(n))
         /\ Ilen(n) > 0 => Power(2, Ilen(n) - 1) <= n
<1> DEFINE T == {b \in Nat : n < Power(2, b)}
           P(b) == n < TwoTo[b] /\ (b > 0 => n >= TwoTo[b - 1])
<1>1. DigitBits \in Nat /\ n \in Int /\ n < Base /\ Base = Power(2, DigitBits)
  BY BaseFacts DEF Digit
<1>2. DigitBits \in T
  BY <1>1
<1>3. PICK b \in T : \A m \in T : b <= m
  <2>1. T \subseteq Nat /\ T # {}
    BY <1>2
  <2> HIDE DEF T
  <2> QED
    BY <2>1, Least
<1>4. b \in 0 .. DigitBits
  BY <1>1, <1>2, <1>3
<1>5. b > 0 => n >= Power(2, b - 1)
  <2> SUFFICES ASSUME b > 0 PROVE n >= Power(2, b - 1)
    OBVIOUS
  <2>1. b - 1 \in Nat /\ b - 1 \notin T
    BY <1>3, <1>4, <1>1
  <2>2. Power(2, b - 1) \in Int
    BY <2>1, PowerInt
  <2> QED
    BY <1>1, <2>1, <2>2
<1>6. P(b)
  <2>1. TwoTo[b] = Power(2, b) /\ (b > 0 => TwoTo[b - 1] = Power(2, b - 1))
    BY <1>1, <1>4 DEF TwoTo
  <2> QED
    BY <1>3, <1>5, <2>1
<1>7. Ilen(n) = CHOOSE k \in 0 .. DigitBits : P(k)
  BY DEF Ilen
<1> HIDE DEF P
<1>8. Ilen(n) \in 0 .. DigitBits /\ P(Ilen(n))
  BY <1>4, <1>6, <1>7
<1>9. Ilen(n) > 0 => Power(2, Ilen(n) - 1) <= n
  <2> SUFFICES ASSUME Ilen(n) > 0 PROVE Power(2, Ilen(n) - 1) <= n
    OBVIOUS
  <2>1. Ilen(n) - 1 \in Nat /\ TwoTo[Ilen(n) - 1] = Power(2, Ilen(n) - 1)
    BY <1>1, <1>8 DEF TwoTo
  <2>2. Power(2, Ilen(n) - 1) \in Int
    BY <2>1, PowerInt
  <2> QED
    BY <1>1, <1>8, <2>1, <2>2 DEF P
<1>10. TwoTo[Ilen(n)] = Power(2, Ilen(n))
  BY <1>8, TwoToIs
<1> QED
  BY <1>8, <1>9, <1>10 DEF P

LEMMA ExponentOfPower ==
  ASSUME NEW n \in Digit, PowerOfTwo(n)
  PROVE  Ilen(n) - 1 \in 0 .. DigitBits - 1 /\ Power(2, Ilen(n) - 1) = n
<1>1. n \in Int /\ n > 0 /\ n = TwoTo[Ilen(n) - 1] /\ DigitBits \in Int
  BY DigitsAreInt, BaseFacts DEF PowerOfTwo
<1>2. Ilen(n) \in 0 .. DigitBits /\ n < Power(2, Ilen(n))
  BY IlenFacts
<1>3. Ilen(n) # 0
  BY <1>1, <1>2, PowerZero
<1>4. Ilen(n) - 1 \in 0 .. DigitBits - 1 /\ Ilen(n) - 1 \in 0 .. DigitBits
  BY <1>1, <1>2, <1>3
<1>5. TwoTo[Ilen(n) - 1] = Power(2, Ilen(n) - 1)
  BY <1>4, TwoToIs
<1> QED
  BY <1>1, <1>4, <1>5

LEMMA HalfMeansLow ==
  ASSUME NEW n \in Digit, FitsHalf(n) PROVE n \in HalfDigit
<1>1. n = Half * Hi(n) + Lo(n) /\ Lo(n) \in HalfDigit /\ Hi(n) = 0 /\ Lo(n) \in Int
  BY DigitHalves DEF FitsHalf
<1>2. n = Lo(n)
  BY <1>1, HalfFacts
<1> QED
  BY <1>1, <1>2

(* The digits of a scaled number and what is left over.                    *)
LEMMA WithCarryExact ==
  ASSUME NEW r, NEW d \in Seq(Digit), NEW factor \in Int, NEW C, C \subseteq Digit,
         IsScaled(r, d, factor, 0, C), NEW neg \in BOOLEAN
  PROVE  IsExactly(WithCarry(r, neg), Signed(neg, factor * Amount(d)))
<1>1. /\ r[1] \in Seq(Digit) /\ Len(r[1]) = Len(d) /\ r[2] \in Digit
      /\ Amount(r[1]) + r[2] * Power(Base, Len(d)) = factor * Amount(d) + 0
  BY DEF IsScaled
<1>2. /\ Append(r[1], r[2]) \in Seq(Digit)
      /\ Amount(Append(r[1], r[2])) = Amount(r[1]) + r[2] * Power(Base, Len(r[1]))
  BY <1>1, AppendAmount
<1>3. Amount(d) \in Nat
  BY AmountBounds
<1> DEFINE s == factor * Amount(d)
<1>4. s \in Int
  BY <1>3
<1> HIDE DEF s
<1>5. Amount(Append(r[1], r[2])) = s
  BY <1>1, <1>2, <1>4 DEF s
<1>6. IsExactly(Simplify(neg, Append(r[1], r[2])), Signed(neg, Amount(Append(r[1], r[2]))))
  BY <1>2, SimplifyExact
<1> QED
  BY <1>5, <1>6 DEF WithCarry, s

(* A bignum times a small factor: one pass over the digits, or a shift.    *)
THEOREM SmallFactorExact ==
  ASSUME NEW x1, NEW v, IsExactly(x1, v), ~IsFix(x1),
         NEW y1 \in Int, FitsFixnum(y1), Small(Magnitude(y1))
  PROVE  IsExactly(SmallFactor(x1, y1), v * y1)
<1> DEFINE m == Magnitude(y1)  neg == x1.neg # (y1 < 0)
<1>0. x1.neg \in BOOLEAN /\ x1.d \in Seq(Digit) /\ v = Signed(x1.neg, Amount(x1.d)) /\ v \in Int
  BY ExactCases, ExactInt
<1>1. m \in Digit /\ y1 = Signed(y1 < 0, m) /\ Small(m) /\ neg \in BOOLEAN
  BY FixnumIsDigit
<1>2. CASE y1 = 0
  <2>1. v * y1 = 0 /\ SmallFactor(x1, y1) = Zero
    BY <1>0, <1>2 DEF SmallFactor
  <2> QED
    BY <2>1, ZeroIsExact
<1>3. CASE y1 = 1
  <2>1. v * y1 = v /\ SmallFactor(x1, y1) = x1
    BY <1>0, <1>3 DEF SmallFactor
  <2> QED
    BY <2>1
<1>4. CASE y1 = -1
  <2>1. v * y1 = -v /\ SmallFactor(x1, y1) = IntegerNegate(x1)
    BY <1>0, <1>4 DEF SmallFactor
  <2>2. IsExactly(IntegerNegate(x1), -v)
    BY NegateExact
  <2> QED
    BY <2>1, <2>2
<1>5. CASE y1 # 0 /\ y1 # 1 /\ y1 # -1
  <2> DEFINE r == IF PowerOfTwo(m) THEN ShiftLeft(x1.d, Ilen(m) - 1) ELSE ScaleUp(x1.d, m, 0)
             a == Amount(x1.d)
  <2>1. SmallFactor(x1, y1) = WithCarry(r, neg)
    BY <1>5 DEF SmallFactor
  <2>2. m \in Int /\ a \in Int
    <3>1. m \in Int
      BY <1>1, DigitsAreInt
    <3>2. Amount(x1.d) \in Nat
      BY <1>0, AmountBounds
    <3> QED
      BY <3>1, <3>2
  <2>3. v * y1 = Signed(neg, m * a)
    <3> DEFINE u == y1 < 0
    <3>1. u \in BOOLEAN /\ y1 = Signed(u, m) /\ neg = (x1.neg # u)
      BY <1>1
    <3> DEFINE w == x1.neg
    <3>0. w \in BOOLEAN
      BY <1>0
    <3> HIDE DEF u, m, a, neg, w
    <3>2. Signed(w, a) * Signed(u, m) = Signed(w # u, a * m)
      BY <3>0, <3>1, <2>2, SignedProduct
    <3>3. a * m = m * a
      BY <2>2, Distribute
    <3> QED
      BY <3>1, <3>2, <3>3, <1>0 DEF a, w
  <2> HIDE DEF m, neg
  <2>4. CASE PowerOfTwo(m)
    <3> DEFINE s == Ilen(m) - 1  C == 0 .. Power(2, s) - 1
    <3>1. s \in 0 .. DigitBits - 1 /\ Power(2, s) = m
      BY <1>1, <2>4, ExponentOfPower
    <3>2. s \in 0 .. DigitBits /\ C \subseteq Digit
      BY <3>1, <1>1, BaseFacts DEF Digit
    <3>3. r = ShiftLeft(x1.d, s)
      BY <2>4
    <3> HIDE DEF s, r
    <3>4. IsScaled(ShiftLeft(x1.d, s), x1.d, Power(2, s), 0, 0 .. Power(2, s) - 1)
      BY <1>0, <3>2, ShiftLeftExact
    <3>5. IsScaled(r, x1.d, m, 0, C)
      BY <3>1, <3>3, <3>4
    <3> HIDE DEF C
    <3>6. IsExactly(WithCarry(r, neg), Signed(neg, m * Amount(x1.d)))
      BY <1>0, <1>1, <2>2, <3>2, <3>5, WithCarryExact
    <3> QED
      BY <2>1, <2>3, <3>6
  <2>5. CASE ~PowerOfTwo(m)
    <3>1. m \in HalfDigit /\ 0 \in HalfDigit /\ HalfDigit \subseteq Digit
      BY <1>1, <2>5, HalfMeansLow, HalfFacts DEF Small, HalfDigit
    <3>2. r = ScaleUp(x1.d, m, 0)
      BY <2>5
    <3> HIDE DEF r
    <3>3. IsScaled(r, x1.d, m, 0, HalfDigit)
      BY <1>0, <3>1, <3>2, ScaleUpExact
    <3>4. IsExactly(WithCarry(r, neg), Signed(neg, m * Amount(x1.d)))
      BY <1>0, <1>1, <2>2, <3>1, <3>3, WithCarryExact
    <3> QED
      BY <2>1, <2>3, <3>4
  <2> QED
    BY <2>4, <2>5
<1> QED
  BY <1>2, <1>3, <1>4, <1>5

(* Digits and half digits of the same number.                              *)
LEMMA PowerOfHalves ==
  ASSUME NEW n \in Nat PROVE Power(Half, 2 * n) = Power(Base, n)
<1> DEFINE T == {i \in 0 .. n : Power(Half, 2 * i) = Power(Base, i)}
<1>0. Half \in Int /\ Base \in Int /\ Base = Half * Half
  BY HalfFacts
<1>1. 0 \in T
  BY <1>0, PowerZero
<1>2. ASSUME NEW i \in 0 .. n - 1, i \in T PROVE i + 1 \in T
  <2>1. i \in Nat /\ 2 * i \in Nat /\ 2 * i + 1 \in Nat /\ i + 1 \in 0 .. n
    OBVIOUS
  <2>2. Power(Half, 2 * i + 1) = Half * Power(Half, 2 * i)
    BY <1>0, <2>1, PowerNext
  <2>3. Power(Half, (2 * i + 1) + 1) = Half * Power(Half, 2 * i + 1)
    BY <1>0, <2>1, PowerNext
  <2>4. Power(Base, i + 1) = Base * Power(Base, i)
    BY <1>0, <2>1, PowerNext
  <2>5. (2 * i + 1) + 1 = 2 * (i + 1)
    BY <2>1
  <2>6. Power(Base, i) = Power(Half, 2 * i)
    BY <1>2
  <2> DEFINE p == Power(Half, 2 * i)
  <2>7. p \in Int
    BY <1>0, <2>1, PowerInt
  <2> HIDE DEF p
  <2>8. Half * (Half * p) = (Half * Half) * p
    BY <1>0, <2>7, Distribute
  <2>9. Power(Half, 2 * (i + 1)) = Power(Base, i + 1)
    BY <1>0, <2>2, <2>3, <2>4, <2>5, <2>6, <2>8 DEF p
  <2> QED
    BY <2>1, <2>9
<1> HIDE DEF T
<1>3. \A i \in 0 .. n : i \in T
  BY <1>1, <1>2, Induction
<1> QED
  BY <1>3 DEF T

LEMMA HalvesValue ==
  ASSUME NEW n \in Nat, NEW h, NEW d,
         \A i \in 1 .. 2 * n : h[i] \in Int,
         \A i \in 1 .. n : d[i] \in Int /\ d[i] = Combine(h[2 * i], h[2 * i - 1])
  PROVE  DigitsValue(Half, h, 2 * n) = DigitsValue(Base, d, n)
<1> DEFINE T == {i \in 0 .. n : DigitsValue(Half, h, 2 * i) = DigitsValue(Base, d, i)}
<1>0. Half \in Int /\ Base \in Int /\ Base = Half * Half
  BY HalfFacts
<1>1. 0 \in T
  BY <1>0, NoDigits
<1>2. ASSUME NEW i \in 0 .. n - 1, i \in T PROVE i + 1 \in T
  <2>1. /\ i \in Nat /\ 2 * i \in Nat /\ 2 * i + 1 \in Nat /\ i + 1 \in 0 .. n /\ i + 1 \in 1 .. n
        /\ 2 * i + 1 \in 1 .. 2 * n /\ 2 * i + 2 \in 1 .. 2 * n
    OBVIOUS
  <2>2. \A k \in 1 .. (2 * i + 1) + 1 : h[k] \in Int
    BY <2>1
  <2>3. \A k \in 1 .. 2 * i + 1 : h[k] \in Int
    BY <2>1
  <2>4. \A k \in 1 .. i + 1 : d[k] \in Int
    BY <2>1
  <2>5. DigitsValue(Half, h, (2 * i + 1) + 1)
          = DigitsValue(Half, h, 2 * i + 1) + h[(2 * i + 1) + 1] * Power(Half, 2 * i + 1)
    BY <1>0, <2>1, <2>2, OneMoreDigit
  <2>6. DigitsValue(Half, h, 2 * i + 1) = DigitsValue(Half, h, 2 * i) + h[2 * i + 1] * Power(Half, 2 * i)
    BY <1>0, <2>1, <2>3, OneMoreDigit
  <2>7. DigitsValue(Base, d, i + 1) = DigitsValue(Base, d, i) + d[i + 1] * Power(Base, i)
    BY <1>0, <2>1, <2>4, OneMoreDigit
  <2>8. Power(Half, 2 * i + 1) = Half * Power(Half, 2 * i)
    BY <1>0, <2>1, PowerNext
  <2>9. Power(Half, 2 * i) = Power(Base, i)
    BY <2>1, PowerOfHalves
  <2>10. (2 * i + 1) + 1 = 2 * (i + 1) /\ 2 * (i + 1) - 1 = 2 * i + 1 /\ 2 * (i + 1) = 2 * i + 2
    BY <2>1
  <2> DEFINE p == Power(Base, i)  hi == h[2 * (i + 1)]  lo == h[2 * i + 1]  v == DigitsValue(Base, d, i)
  <2>11. d[i + 1] = hi * Half + lo
    BY <2>1, <2>10 DEF Combine
  <2>12. p \in Int /\ hi \in Int /\ lo \in Int /\ v \in Int
    <3>1. \A k \in 1 .. i : d[k] \in Int
      BY <2>1
    <3>2. v \in Int
      BY <1>0, <2>1, <3>1, ValueInt
    <3> QED
      BY <3>2, <1>0, <2>1, <2>10, PowerInt
  <2>13. DigitsValue(Half, h, 2 * i) = v
    BY <1>2
  <2>14. DigitsValue(Half, h, 2 * (i + 1)) = (v + lo * p) + hi * (Half * p)
    BY <2>5, <2>6, <2>8, <2>9, <2>10, <2>13
  <2>15. DigitsValue(Base, d, i + 1) = v + (hi * Half + lo) * p
    BY <2>7, <2>11
  <2> HIDE DEF p, hi, lo, v
  <2>16. (hi * Half + lo) * p = hi * (Half * p) + lo * p
    BY <1>0, <2>12
  <2>17. DigitsValue(Half, h, 2 * (i + 1)) = DigitsValue(Base, d, i + 1)
    BY <1>0, <2>12, <2>14, <2>15, <2>16
  <2> QED
    BY <2>1, <2>17
<1> HIDE DEF T
<1>3. \A i \in 0 .. n : i \in T
  BY <1>1, <1>2, Induction
<1> QED
  BY <1>3 DEF T

(* The number of half digits.                                              *)
HalfAmount(h) == DigitsValue(Half, h, Len(h))
IsHalved(h, d) ==
  h \in Seq(HalfDigit) /\ Len(h) = 2 * Len(d) /\ HalfAmount(h) = Amount(d)

LEMMA HalvesExact ==
  ASSUME NEW d \in Seq(Digit) PROVE IsHalved(Halves(d), d)
<1> DEFINE n == Len(d)  h == Halves(d)
<1>1. n \in Nat /\ \A i \in 1 .. n : d[i] \in Digit /\ d[i] \in Int
  BY DigitSequence
<1>2. \A i \in 1 .. n : /\ Hi(d[i]) \in HalfDigit /\ Lo(d[i]) \in HalfDigit
                        /\ d[i] = Half * Hi(d[i]) + Lo(d[i])
                        /\ Hi(d[i]) \in Int /\ Lo(d[i]) \in Int
  BY <1>1, DigitHalves
<1>3. h = [i \in 1 .. 2 * n |-> IF i % 2 = 1 THEN Lo(d[(i + 1) \div 2]) ELSE Hi(d[i \div 2])]
  BY DEF Halves
<1> HIDE DEF n, h
<1>4. ASSUME NEW i \in 1 .. 2 * n PROVE h[i] \in HalfDigit
  <2>1. CASE i % 2 = 1
    <3>1. (i + 1) \div 2 \in 1 .. n
      BY <1>1, <2>1
    <3> QED
      BY <1>2, <1>3, <2>1, <3>1
  <2>2. CASE i % 2 # 1
    <3>1. i \div 2 \in 1 .. n
      BY <1>1, <2>2
    <3> QED
      BY <1>2, <1>3, <2>2, <3>1
  <2> QED
    BY <2>1, <2>2
<1>5. h \in Seq(HalfDigit) /\ Len(h) = 2 * n
  <2>1. 2 * n \in Nat
    BY <1>1
  <2>2. h \in [1 .. 2 * n -> HalfDigit]
    BY <1>3, <1>4
  <2> QED
    BY <2>1, <2>2
<1>6. \A i \in 1 .. 2 * n : h[i] \in Int
  BY <1>4, HalfFacts
<1>7. ASSUME NEW i \in 1 .. n PROVE d[i] = Combine(h[2 * i], h[2 * i - 1])
  <2>1. 2 * i \in 1 .. 2 * n /\ 2 * i - 1 \in 1 .. 2 * n
    BY <1>1
  <2>2. (2 * i) % 2 = 0 /\ (2 * i) \div 2 = i
    BY <1>1
  <2>3. (2 * i - 1) % 2 = 1 /\ ((2 * i - 1) + 1) \div 2 = i
    BY <1>1
  <2>4. h[2 * i] = Hi(d[i]) /\ h[2 * i - 1] = Lo(d[i])
    BY <1>3, <2>1, <2>2, <2>3
  <2>5. Half * Hi(d[i]) = Hi(d[i]) * Half
    BY <1>2, HalfFacts, Distribute
  <2> QED
    BY <1>2, <2>4, <2>5 DEF Combine
<1>8. DigitsValue(Half, h, 2 * n) = DigitsValue(Base, d, n)
  BY <1>1, <1>6, <1>7, HalvesValue
<1> QED
  BY <1>5, <1>8 DEF IsHalved, HalfAmount, Amount, h, n

LEMMA DigitsExact ==
  ASSUME NEW h \in Seq(HalfDigit), NEW n \in Nat, Len(h) = 2 * n
  PROVE  Digits(h) \in Seq(Digit) /\ Len(Digits(h)) = n /\ Amount(Digits(h)) = HalfAmount(h)
<1> DEFINE d == Digits(h)
<1>0. \A i \in 1 .. 2 * n : h[i] \in HalfDigit
  OBVIOUS
<1>1. \A i \in 1 .. 2 * n : h[i] \in HalfDigit /\ h[i] \in Int
  BY <1>0, HalfFacts
<1>2. (2 * n) \div 2 = n
  OBVIOUS
<1>3. d = [i \in 1 .. n |-> Combine(h[2 * i], h[2 * i - 1])]
  BY <1>2 DEF Digits
<1> HIDE DEF d
<1>4. ASSUME NEW i \in 1 .. n PROVE Combine(h[2 * i], h[2 * i - 1]) \in Digit
  <2>1. 2 * i \in 1 .. 2 * n /\ 2 * i - 1 \in 1 .. 2 * n
    OBVIOUS
  <2> QED
    BY <1>1, <2>1, CombineHalves
<1>5. d \in Seq(Digit) /\ Len(d) = n
  <2>1. d \in [1 .. n -> Digit]
    BY <1>3, <1>4
  <2> QED
    BY <2>1
<1>6. \A i \in 1 .. n : d[i] \in Int /\ d[i] = Combine(h[2 * i], h[2 * i - 1])
  BY <1>3, <1>4, DigitsAreInt
<1>7. DigitsValue(Half, h, 2 * n) = DigitsValue(Base, d, n)
  BY <1>1, <1>6, HalvesValue
<1> QED
  BY <1>5, <1>7 DEF HalfAmount, Amount, d

(* One half digit of bignum_digits_multiply.                               *)
RowStep(yj) ==
  [p \in HalfDigit \X HalfDigit |-> [c \in HalfDigit |->
     LET q == p[1] * yj + p[2] + c IN <<Lo(q), Hi(q)>>]]

LEMMA RowStepParts ==
  ASSUME NEW yj \in HalfDigit, NEW p \in HalfDigit \X HalfDigit, NEW c \in HalfDigit
  PROVE  /\ RowStep(yj)[p][c][1] \in HalfDigit /\ RowStep(yj)[p][c][2] \in HalfDigit
         /\ RowStep(yj)[p][c][1] + Half * RowStep(yj)[p][c][2] = (p[2] + yj * p[1]) + c
<1> DEFINE a == p[1]  b == p[2]  e == b + c  q == a * yj + b + c
<1>1. /\ a \in HalfDigit /\ b \in HalfDigit /\ a \in Int /\ b \in Int /\ yj \in Int /\ c \in Int
      /\ e \in Int /\ 0 <= e /\ e <= 2 * Half - 2 /\ Half \in Int
  BY HalfFacts DEF HalfDigit
<1>2. RowStep(yj)[p][c] = <<Lo(q), Hi(q)>>
  BY DEF RowStep
<1> HIDE DEF a, b
<1>3. a * yj \in Int /\ a * yj = yj * a
  BY <1>1, Distribute
<1>4. q = a * yj + e
  BY <1>1, <1>3
<1> HIDE DEF e, q
<1>5. q \in Int /\ Hi(q) \in HalfDigit /\ Lo(q) \in HalfDigit
  BY <1>1, <1>4, HalfProduct
<1>6. q = Half * Hi(q) + Lo(q) /\ Hi(q) \in Int /\ Lo(q) \in Int
  BY <1>5, HiLo
<1> DEFINE t == Half * Hi(q)  s == yj * a
<1>7. t \in Int /\ s \in Int /\ q = t + Lo(q) /\ q = s + e
  BY <1>1, <1>3, <1>4, <1>6
<1> HIDE DEF t, s
<1>8. Lo(q) + t = (b + s) + c
  BY <1>1, <1>6, <1>7 DEF e
<1> QED
  BY <1>2, <1>5, <1>8 DEF t, s, a, b

(* A row: x times yj on top of the half digits r from j on.                *)
Row(r, x1, yj, j) ==
  Upward(RowStep(yj), 0, [i \in 1 .. Len(x1) |-> <<x1[i], r[i + j]>>])
IsRow(row, r, x1, yj, j) ==
  /\ row[1] \in Seq(HalfDigit) /\ Len(row[1]) = Len(x1) /\ row[2] \in HalfDigit
  /\ DigitsValue(Half, row[1], Len(x1)) + row[2] * Power(Half, Len(x1))
       = DigitsValue(Half, [i \in 1 .. Len(x1) |-> r[i + j]], Len(x1)) + yj * HalfAmount(x1)

LEMMA RowExact ==
  ASSUME NEW x1 \in Seq(HalfDigit), NEW j \in Nat, NEW yj \in HalfDigit, NEW r,
         \A k \in j + 1 .. j + Len(x1) : r[k] \in HalfDigit
  PROVE  IsRow(Row(r, x1, yj, j), r, x1, yj, j)
<1> DEFINE n == Len(x1)  d == [i \in 1 .. n |-> <<x1[i], r[i + j]>>]  step == RowStep(yj)
           D == HalfDigit \X HalfDigit  row == Row(r, x1, yj, j)
           in == [i \in 1 .. n |-> r[i + j] + yj * x1[i]]  seg == [i \in 1 .. n |-> r[i + j]]
<1>0. n \in Nat /\ Half \in Int /\ yj \in Int /\ HalfDigit \subseteq Int /\ 0 \in HalfDigit
  BY HalfFacts DEF HalfDigit
<1>1. \A i \in 1 .. n : x1[i] \in HalfDigit
  OBVIOUS
<1>2. ASSUME NEW i \in 1 .. n PROVE r[i + j] \in HalfDigit
  <2>1. i + j \in j + 1 .. j + Len(x1)
    BY <1>0
  <2> QED
    BY <2>1
<1>3. row = Upward(step, 0, d)
  BY DEF Row
<1> HIDE DEF n, step, row
<1>4. d \in Seq(D) /\ Len(d) = n
  <2>1. d \in [1 .. n -> D]
    BY <1>1, <1>2
  <2> HIDE DEF d, D
  <2> QED
    BY <1>0, <2>1
<1>5. ASSUME NEW p \in D, NEW c \in HalfDigit
      PROVE  /\ step[p][c][1] \in HalfDigit /\ step[p][c][2] \in HalfDigit
             /\ step[p][c][1] + Half * step[p][c][2] = (p[2] + yj * p[1]) + c
  BY <1>5, RowStepParts DEF step
<1>6. \A i \in 1 .. n : d[i][1] = x1[i] /\ d[i][2] = r[i + j] /\ d[i] \in D
  BY <1>1, <1>2
<1> HIDE DEF d, D
<1>7. Loops(Upward(step, 0, d), step, 0, d, HalfDigit, HalfDigit)
  BY <1>0, <1>4, <1>5, UpwardIsLoop
<1>8. PICK c : IsLoop(row[1], c, step, 0, d, HalfDigit, HalfDigit) /\ row[2] = c[Len(d)]
  BY <1>3, <1>7 DEF Loops
<1>9. /\ row[1] \in Seq(HalfDigit) /\ Len(row[1]) = n /\ c \in [0 .. n -> HalfDigit] /\ c[0] = 0
      /\ \A i \in 1 .. n : row[1][i] = step[d[i]][c[i - 1]][1] /\ c[i] = step[d[i]][c[i - 1]][2]
      /\ row[2] = c[n]
  BY <1>4, <1>8 DEF IsLoop
<1>10. \A i \in 0 .. n : c[i] \in HalfDigit /\ c[i] \in Int
  BY <1>0, <1>9
<1>11. \A i \in 1 .. n : row[1][i] \in HalfDigit
  BY <1>9
<1>12. \A i \in 1 .. n : row[1][i] \in Int
  BY <1>11, <1>0
<1>13. \A i \in 1 .. n : in[i] = r[i + j] + yj * x1[i] /\ seg[i] = r[i + j]
  OBVIOUS
<1> HIDE DEF in
<1>14. ASSUME NEW i \in 1 .. n PROVE row[1][i] + Half * c[i] = in[i] + c[i - 1]
  <2>1. i - 1 \in 0 .. n
    BY <1>0
  <2>2. c[i - 1] \in HalfDigit /\ d[i] \in D
    BY <2>1, <1>6, <1>10
  <2>3. step[d[i]][c[i - 1]][1] + Half * step[d[i]][c[i - 1]][2] = (d[i][2] + yj * d[i][1]) + c[i - 1]
    BY <2>2, <1>5
  <2> QED
    BY <2>3, <1>6, <1>9, <1>13
<1>15. \A i \in 1 .. n : x1[i] \in Int /\ r[i + j] \in Int
  BY <1>0, <1>1, <1>2
<1>16. \A i \in 1 .. n : in[i] \in Int /\ seg[i] \in Int /\ x1[i] \in Int /\ in[i] = seg[i] + yj * x1[i]
  BY <1>0, <1>13, <1>15
<1> HIDE DEF seg
<1>17. SameValue(Half, n, in, row[1], c)
  BY <1>0, <1>10, <1>12, <1>14, <1>16, LoopKeepsValue
<1>18. IsLinear(Half, in, seg, yj, x1, n)
  BY <1>0, <1>16, ValueLinear
<1>19. DigitsValue(Half, row[1], n) + c[n] * Power(Half, n) = DigitsValue(Half, in, n) + 0
  BY <1>0, <1>9, <1>17 DEF SameValue
<1>20. DigitsValue(Half, in, n) \in Int
  BY <1>0, <1>16, ValueInt
<1>21. DigitsValue(Half, row[1], n) + row[2] * Power(Half, n)
         = DigitsValue(Half, seg, n) + yj * DigitsValue(Half, x1, n)
  BY <1>9, <1>18, <1>19, <1>20 DEF IsLinear
<1>22. row[2] \in HalfDigit
  BY <1>0, <1>9, <1>10
<1> QED
  BY <1>9, <1>21, <1>22 DEF IsRow, HalfAmount, n, seg, row

HalfDigits(n) == {r \in Seq(HalfDigit) : Len(r) = n}

LEMMA HalfDigitSequence ==
  ASSUME NEW n \in Nat, NEW r \in HalfDigits(n)
  PROVE  /\ r \in Seq(HalfDigit) /\ Len(r) = n /\ DOMAIN r = 1 .. n
         /\ \A k \in 1 .. n : r[k] \in HalfDigit /\ r[k] \in Int
<1>1. r \in Seq(HalfDigit) /\ Len(r) = n /\ DOMAIN r = 1 .. n
  BY DEF HalfDigits
<1>2. \A k \in 1 .. n : r[k] \in HalfDigit
  BY <1>1
<1> QED
  BY <1>1, <1>2, HalfFacts

(* s is r with the row in place of its part from j on.                     *)
HasRow(s, row, r, n, j, size) ==
  /\ s \in HalfDigits(size)
  /\ \A k \in 1 .. size :
       /\ k \in j + 1 .. j + n => s[k] = row[1][k - j]
       /\ k = j + n + 1 => s[k] = row[2]
       /\ k \in 1 .. j \/ k > j + n + 1 => s[k] = r[k]

LEMMA AddRowParts ==
  ASSUME NEW x1 \in Seq(HalfDigit), NEW j \in Nat, NEW yj \in HalfDigit, NEW size \in Nat,
         NEW r \in HalfDigits(size), j + Len(x1) + 1 <= size
  PROVE  /\ IsRow(Row(r, x1, yj, j), r, x1, yj, j)
         /\ HasRow(AddRow(r, x1, yj, j), Row(r, x1, yj, j), r, Len(x1), j, size)
<1> DEFINE n == Len(x1)  s == AddRow(r, x1, yj, j)  row == Row(r, x1, yj, j)
<1>0. n \in Nat
  OBVIOUS
<1>1. /\ r \in Seq(HalfDigit) /\ DOMAIN r = 1 .. size
      /\ \A k \in 1 .. size : r[k] \in HalfDigit /\ r[k] \in Int
  BY HalfDigitSequence
<1>2. s = [k \in DOMAIN r |-> IF k \in j + 1 .. j + n THEN row[1][k - j]
                              ELSE IF k = j + n + 1 THEN row[2] ELSE r[k]]
  BY DEF AddRow, Row, RowStep
<1>3. IsRow(row, r, x1, yj, j)
  <2>1. \A k \in j + 1 .. j + Len(x1) : r[k] \in HalfDigit
    BY <1>0, <1>1
  <2> QED
    BY <2>1, RowExact
<1>4. row[1] \in Seq(HalfDigit) /\ Len(row[1]) = n /\ row[2] \in HalfDigit
  BY <1>3 DEF IsRow
<1> HIDE DEF row, s
<1>5. \A i \in 1 .. n : row[1][i] \in HalfDigit
  BY <1>4
<1>6. ASSUME NEW k \in 1 .. size
      PROVE  /\ s[k] \in HalfDigit
             /\ k \in j + 1 .. j + n => s[k] = row[1][k - j]
             /\ k = j + n + 1 => s[k] = row[2]
             /\ k \in 1 .. j \/ k > j + n + 1 => s[k] = r[k]
  <2>1. CASE k \in j + 1 .. j + n
    <3>1. k - j \in 1 .. n
      BY <1>0, <2>1
    <3>2. s[k] = row[1][k - j]
      BY <1>1, <1>2, <2>1
    <3> QED
      BY <1>0, <1>5, <2>1, <3>1, <3>2
  <2>2. CASE k = j + n + 1
    <3>0. k \notin j + 1 .. j + n /\ k \in DOMAIN r
      BY <1>0, <1>1, <2>2
    <3>1. s[k] = row[2]
      BY <1>2, <2>2, <3>0
    <3> QED
      BY <1>0, <1>4, <2>2, <3>1
  <2>3. CASE k \notin j + 1 .. j + n /\ k # j + n + 1
    <3>1. s[k] = r[k]
      BY <1>1, <1>2, <2>3
    <3> QED
      BY <1>0, <1>1, <2>3, <3>1
  <2> QED
    BY <2>1, <2>2, <2>3
<1>7. s \in HalfDigits(size)
  <2>1. DOMAIN s = 1 .. size
    BY <1>1, <1>2
  <2>2. s \in [1 .. size -> HalfDigit]
    BY <1>1, <1>2, <1>6, <2>1
  <2> QED
    BY <2>2 DEF HalfDigits
<1> QED
  BY <1>3, <1>6, <1>7 DEF HasRow, n, s, row

(* d is its first m digits, and e.                                        *)
Splits(b, d, e, m, n) ==
  DigitsValue(b, d, m + n) = DigitsValue(b, d, m) + Power(b, m) * DigitsValue(b, e, n)

LEMMA ValueSplits ==
  ASSUME NEW b \in Int, NEW m \in Nat, NEW n \in Nat, NEW d, NEW e,
         \A i \in 1 .. m + n : d[i] \in Int, \A i \in 1 .. n : e[i] = d[m + i]
  PROVE  Splits(b, d, e, m, n)
BY ValueSplit DEF Splits

(* s is r and m at place j.                                                *)
Adds(s, r, m, j, n) == DigitsValue(Half, s, n) = DigitsValue(Half, r, n) + m * Power(Half, j)

LEMMA AddRowExact ==
  ASSUME NEW x1 \in Seq(HalfDigit), NEW j \in Nat, NEW yj \in HalfDigit, NEW size \in Nat,
         NEW r \in HalfDigits(size), j + Len(x1) + 1 <= size,
         \A k \in j + Len(x1) + 1 .. size : r[k] = 0
  PROVE  Adds(AddRow(r, x1, yj, j), r, yj * HalfAmount(x1), j, size)
<1> DEFINE n == Len(x1)  s == AddRow(r, x1, yj, j)  row == Row(r, x1, yj, j)  t == j + (n + 1)
           e == [i \in 1 .. n + 1 |-> s[j + i]]  f == [i \in 1 .. n + 1 |-> r[j + i]]
           seg == [i \in 1 .. n |-> r[i + j]]
           V(d, k) == DigitsValue(Half, d, k)
<1>0. n \in Nat /\ n + 1 \in Nat /\ Half \in Int /\ t \in Nat /\ t <= size
  BY HalfFacts
<1>1. /\ s \in HalfDigits(size) /\ IsRow(row, r, x1, yj, j)
      /\ \A k \in 1 .. size :
           /\ k \in j + 1 .. j + n => s[k] = row[1][k - j]
           /\ k = j + n + 1 => s[k] = row[2]
           /\ k \in 1 .. j \/ k > j + n + 1 => s[k] = r[k]
  <2>1. IsRow(Row(r, x1, yj, j), r, x1, yj, j)
    BY AddRowParts
  <2>2. HasRow(AddRow(r, x1, yj, j), Row(r, x1, yj, j), r, Len(x1), j, size)
    BY AddRowParts
  <2> QED
    BY <2>1, <2>2 DEF HasRow
<1>2. \A k \in 1 .. size : r[k] \in Int /\ s[k] \in Int
  BY <1>1, HalfDigitSequence
<1>3. /\ row[1] \in Seq(HalfDigit) /\ Len(row[1]) = n /\ row[2] \in HalfDigit
      /\ V(row[1], n) + row[2] * Power(Half, n) = V(seg, n) + yj * HalfAmount(x1)
  BY <1>1 DEF IsRow
<1>4. r[t] = 0
  BY <1>0
<1> HIDE DEF n, s, row
<1>5. \A i \in 1 .. n + 1 : j + i \in 1 .. size
  BY <1>0 DEF t
<1>6. \A i \in 1 .. n + 1 : e[i] = s[j + i] /\ f[i] = r[j + i] /\ e[i] \in Int /\ f[i] \in Int
  BY <1>2, <1>5
<1>7. \A i \in 1 .. n : e[i] = row[1][i]
  <2> TAKE i \in 1 .. n
  <2>1. i \in 1 .. n + 1 /\ j + i \in j + 1 .. j + n /\ (j + i) - j = i
    BY <1>0
  <2>2. s[j + i] = row[1][(j + i) - j]
    BY <1>1, <1>5, <2>1
  <2> QED
    BY <1>6, <2>1, <2>2
<1>8. e[n + 1] = row[2] /\ f[n + 1] = 0
  <2>1. n + 1 \in 1 .. n + 1 /\ j + (n + 1) = j + n + 1
    BY <1>0
  <2>2. j + (n + 1) \in 1 .. size
    BY <1>5, <2>1
  <2>3. s[j + (n + 1)] = row[2]
    BY <1>1, <2>1, <2>2
  <2> QED
    BY <1>4, <1>6, <2>1, <2>3
<1>9. \A i \in 1 .. n : f[i] = seg[i]
  <2> TAKE i \in 1 .. n
  <2>1. i \in 1 .. n + 1 /\ j + i = i + j
    BY <1>0
  <2> QED
    BY <1>6, <2>1
<1>10. \A k \in 1 .. j : s[k] = r[k] /\ k \in 1 .. size
  BY <1>0, <1>1
<1>11. \A k \in t + 1 .. size : s[k] = r[k]
  BY <1>0, <1>1
<1>12. \A k \in 1 .. t : s[k] \in Int /\ r[k] \in Int
  BY <1>0, <1>2
<1> DEFINE P == Power(Half, j)
<1> DEFINE l == n + 1
<1> HIDE DEF l
<1>35. l \in Nat /\ Half \in Int
  BY <1>0 DEF l
<1>30. t = j + l
  BY <1>0 DEF l
<1>31. (\A k \in 1 .. j + l : s[k] \in Int) /\ (\A k \in 1 .. j + l : r[k] \in Int)
  BY <1>12, <1>30
<1>32. (\A i \in 1 .. l : e[i] = s[j + i]) /\ (\A i \in 1 .. l : f[i] = r[j + i])
  BY <1>6 DEF l
<1> HIDE DEF e, f, seg
<1>13. V(s, t) = V(s, j) + P * V(e, n + 1)
  <2>1. Splits(Half, s, e, j, l)
    BY <1>35, <1>31, <1>32, ValueSplits
  <2> QED
    BY <1>30, <2>1 DEF l, Splits
<1>14. V(r, t) = V(r, j) + P * V(f, n + 1)
  <2>1. Splits(Half, r, f, j, l)
    BY <1>35, <1>31, <1>32, ValueSplits
  <2> QED
    BY <1>30, <2>1 DEF l, Splits
<1>15. V(e, n + 1) = V(e, n) + e[n + 1] * Power(Half, n)
  BY <1>0, <1>6, OneMoreDigit
<1>16. V(f, n + 1) = V(f, n) + f[n + 1] * Power(Half, n)
  BY <1>0, <1>6, OneMoreDigit
<1>17. V(e, n) = V(row[1], n)
  <2>1. \A i \in 1 .. n : e[i] \in Int
    BY <1>0, <1>6
  <2>2. \A i \in 1 .. n : row[1][i] \in Int /\ e[i] = row[1][i]
    BY <2>1, <1>7
  <2> DEFINE rr == row[1]
  <2>3. \A i \in 1 .. n : rr[i] \in Int /\ e[i] = rr[i]
    BY <2>2
  <2> HIDE DEF rr
  <2>4. V(rr, n) = V(e, n)
    BY <1>0, <2>3, SameDigits
  <2> QED
    BY <2>4 DEF rr
<1>18. V(f, n) = V(seg, n)
  <2>1. \A i \in 1 .. n : f[i] \in Int
    BY <1>0, <1>6
  <2>2. \A i \in 1 .. n : seg[i] \in Int /\ f[i] = seg[i]
    BY <2>1, <1>9
  <2>3. V(seg, n) = V(f, n)
    BY <1>0, <2>2, SameDigits
  <2> QED
    BY <2>3
<1>19. V(s, j) = V(r, j)
  <2>1. \A k \in 1 .. j : r[k] \in Int /\ s[k] = r[k]
    BY <1>2, <1>10
  <2>2. V(r, j) = V(s, j)
    BY <1>0, <2>1, SameDigits
  <2> QED
    BY <2>2
<1>20. V(s, size) - V(s, t) = V(r, size) - V(r, t)
  <2>1. RiseAlike(Half, s, r, t, size)
    BY <1>0, <1>2, <1>11, SameAbove
  <2> QED
    BY <2>1 DEF RiseAlike
<1> DEFINE m == yj * HalfAmount(x1)  g == V(seg, n)  w == Power(Half, n)
<1>21. m \in Int /\ g \in Int /\ P \in Int /\ w \in Int
  <2>1. \A i \in 1 .. n : x1[i] \in HalfDigit
    BY DEF n
  <2>2. \A i \in 1 .. n : x1[i] \in Int
    BY <2>1, HalfFacts
  <2>3. V(x1, n) \in Int
    BY <1>0, <2>2, ValueInt
  <2>4. HalfAmount(x1) \in Int
    BY <2>3 DEF HalfAmount, n
  <2>5. \A i \in 1 .. n : f[i] \in Int
    BY <1>0, <1>6
  <2>6. \A i \in 1 .. n : seg[i] \in Int
    BY <2>5, <1>9
  <2>7. V(seg, n) \in Int
    BY <1>0, <2>6, ValueInt
  <2>8. yj \in Int
    BY HalfFacts
  <2>9. yj * HalfAmount(x1) \in Int
    BY <2>4, <2>8, Distribute
  <2>10. P \in Int
    BY <1>0, PowerInt
  <2>11. w \in Int
    BY <1>0, PowerInt
  <2> QED
    BY <2>7, <2>9, <2>10, <2>11
<1>22. V(s, size) \in Int /\ V(r, size) \in Int /\ V(s, t) \in Int /\ V(r, t) \in Int /\ V(r, j) \in Int
  <2>1. \A k \in 1 .. j : r[k] \in Int
    BY <1>2, <1>10
  <2> QED
    BY <1>0, <1>2, <1>12, <2>1, ValueInt
<1>23. V(e, n + 1) = g + m
  BY <1>3, <1>8, <1>15, <1>17
<1>24. V(f, n + 1) = g
  <2>1. 0 * w = 0
    BY <1>21
  <2> QED
    BY <1>8, <1>16, <1>18, <1>21, <2>1
<1> DEFINE a == V(s, size)  b == V(r, size)  c == V(s, t)  d == V(r, t)  z == V(r, j)
<1>25. c = z + P * (g + m) /\ d = z + P * g /\ a - c = b - d
  BY <1>13, <1>14, <1>19, <1>20, <1>23, <1>24
<1> HIDE DEF a, b, c, d, z, g, m, P
<1>26. P * (g + m) = P * g + P * m /\ P * m = m * P /\ P * m \in Int /\ P * g \in Int
  BY <1>21, Distribute
<1> DEFINE u == P * (g + m)  u1 == P * g  u2 == P * m  u3 == m * P
<1>28. c = z + u /\ d = z + u1 /\ u = u1 + u2 /\ u2 = u3 /\ u1 \in Int /\ u2 \in Int
  BY <1>25, <1>26
<1>29. a \in Int /\ b \in Int /\ c \in Int /\ d \in Int /\ z \in Int
  BY <1>22 DEF a, b, c, d, z
<1> HIDE DEF u, u1, u2, u3
<1>33. a = b + u3
  BY <1>25, <1>28, <1>29
<1>27. a = b + m * P
  BY <1>33 DEF u3
<1> QED
  BY <1>27 DEF Adds, a, b, m, P, s

(* The rows one after the other; a half digit 0 adds none.                 *)
RowsOf(r, x1, yj, j) == IF yj = 0 THEN r ELSE AddRow(r, x1, yj, j)
IsRows(q, x1, y1) ==
  /\ q[0] = Zeros(Len(x1) + Len(y1))
  /\ \A j \in 1 .. Len(y1) : q[j] = RowsOf(q[j - 1], x1, y1[j], j - 1)
  /\ \A j \in 0 .. Len(y1) : q[j] \in HalfDigits(Len(x1) + Len(y1))

LEMMA ZeroHalfDigits ==
  ASSUME NEW size \in Nat
  PROVE  Zeros(size) \in HalfDigits(size) /\ \A k \in 1 .. size : Zeros(size)[k] = 0
<1>1. 0 \in HalfDigit
  BY HalfFacts DEF HalfDigit
<1>2. Zeros(size) = [k \in 1 .. size |-> 0]
  BY DEF Zeros
<1>3. Zeros(size) \in [1 .. size -> HalfDigit]
  BY <1>1, <1>2
<1> QED
  BY <1>2, <1>3 DEF HalfDigits

LEMMA RowsAreRows ==
  ASSUME NEW x1 \in Seq(HalfDigit), NEW y1 \in Seq(HalfDigit)
  PROVE  IsRows(Rows(x1, y1), x1, y1)
<1> DEFINE n == Len(x1)  m == Len(y1)  size == n + m  S == HalfDigits(size)  start == Zeros(size)
           h == [i \in 1 .. m |-> [s \in S |-> RowsOf(s, x1, y1[i], i - 1)]]
           P(f) == f = [j \in 0 .. m |-> IF j = 0 THEN start
                                         ELSE IF y1[j] = 0 THEN f[j - 1]
                                         ELSE AddRow(f[j - 1], x1, y1[j], j - 1)]
           q == CHOOSE f : P(f)
<1>0. n \in Nat /\ m \in Nat /\ size \in Nat
  OBVIOUS
<1>1. \A i \in 1 .. m : y1[i] \in HalfDigit
  OBVIOUS
<1>2. Rows(x1, y1) = q
  BY DEF Rows
<1>3. start \in S
  BY <1>0, ZeroHalfDigits
<1>4. ASSUME NEW i \in 1 .. m, NEW s \in S PROVE RowsOf(s, x1, y1[i], i - 1) \in S
  <2> DEFINE j == i - 1
  <2>1. j \in Nat /\ j + Len(x1) + 1 <= size /\ y1[i] \in HalfDigit
    BY <1>0, <1>1
  <2> HIDE DEF j
  <2>2. HasRow(AddRow(s, x1, y1[i], j), Row(s, x1, y1[i], j), s, Len(x1), j, size)
    BY <1>0, <2>1, AddRowParts
  <2> QED
    BY <2>2 DEF RowsOf, HasRow, j
<1> HIDE DEF n, m, size, S, start
<1>5. \A i \in 1 .. m, s \in S : h[i][s] = RowsOf(s, x1, y1[i], i - 1) /\ h[i][s] \in S
  BY <1>4
<1> HIDE DEF h
<1>6. PICK f : IsIteration(f, m, S, start, h)
  BY <1>0, <1>3, <1>5, Iteration
<1>7. f \in [0 .. m -> S] /\ f[0] = start /\ \A i \in 1 .. m : f[i] = h[i][f[i - 1]]
  BY <1>6 DEF IsIteration
<1>8. ASSUME NEW i \in 1 .. m PROVE f[i - 1] \in S /\ f[i] \in S /\ f[i] = RowsOf(f[i - 1], x1, y1[i], i - 1)
  <2>1. f[i - 1] \in S /\ f[i] \in S
    BY <1>0, <1>7
  <2> QED
    BY <2>1, <1>5, <1>7
<1>9. P(f)
  BY <1>7, <1>8 DEF RowsOf
<1> HIDE DEF P
<1>10. P(q)
  BY <1>9
<1> HIDE DEF q
<1>11. q[0] = start /\ \A i \in 1 .. m : q[i] = RowsOf(q[i - 1], x1, y1[i], i - 1)
  BY <1>0, <1>10 DEF P, RowsOf
<1>12. \A i \in 0 .. m : q[i] \in S
  <2> DEFINE T == {i \in 0 .. m : q[i] \in S}
  <2>1. 0 \in T
    BY <1>0, <1>3, <1>11
  <2>2. ASSUME NEW i \in 0 .. m - 1, i \in T PROVE i + 1 \in T
    <3>1. i + 1 \in 1 .. m /\ (i + 1) - 1 = i /\ q[i] \in S /\ i + 1 \in 0 .. m
      BY <1>0, <2>2
    <3>2. q[i + 1] \in S
      BY <3>1, <1>4, <1>11
    <3> QED
      BY <3>1, <3>2
  <2> HIDE DEF T
  <2>3. \A i \in 0 .. m : i \in T
    BY <1>0, <2>1, <2>2, Induction
  <2> QED
    BY <2>3 DEF T
<1> QED
  BY <1>2, <1>11, <1>12 DEF IsRows, m, n, S, start, size

(* What the first j rows make: so much, and nothing above.                 *)
Covers(r, x1, y1, j) ==
  /\ DigitsValue(Half, r, Len(x1) + Len(y1)) = HalfAmount(x1) * DigitsValue(Half, y1, j)
  /\ \A k \in Len(x1) + j + 1 .. Len(x1) + Len(y1) : r[k] = 0

LEMMA RowCovers ==
  ASSUME NEW x1 \in Seq(HalfDigit), NEW y1 \in Seq(HalfDigit), NEW j \in Nat, j + 1 <= Len(y1),
         NEW r \in HalfDigits(Len(x1) + Len(y1)), Covers(r, x1, y1, j)
  PROVE  Covers(RowsOf(r, x1, y1[j + 1], j), x1, y1, j + 1)
<1> DEFINE n == Len(x1)  m == Len(y1)  size == n + m  yj == y1[j + 1]  s == AddRow(r, x1, yj, j)
           V(d) == DigitsValue(Half, d, size)  a == HalfAmount(x1)  v == DigitsValue(Half, y1, j)
           P == Power(Half, j)
<1>0. n \in Nat /\ m \in Nat /\ size \in Nat /\ Half \in Int /\ j + Len(x1) + 1 <= size
  BY HalfFacts
<1>1. \A i \in 1 .. m : y1[i] \in HalfDigit
  OBVIOUS
<1>2. \A i \in 1 .. n : x1[i] \in HalfDigit
  OBVIOUS
<1>3. j + 1 \in 1 .. m
  BY <1>0
<1>4. yj \in HalfDigit /\ yj \in Int
  BY <1>1, <1>3, HalfFacts
<1>5. \A i \in 1 .. j + 1 : y1[i] \in Int
  <2>1. \A i \in 1 .. j + 1 : i \in 1 .. m
    BY <1>0
  <2> QED
    BY <2>1, <1>1, HalfFacts
<1>6. DigitsValue(Half, y1, j + 1) = v + yj * P
  BY <1>0, <1>5, OneMoreDigit
<1>7. a \in Int
  <2>1. \A i \in 1 .. n : x1[i] \in Int
    BY <1>2, HalfFacts
  <2> QED
    BY <1>0, <2>1, ValueInt DEF HalfAmount
<1>8. v \in Int
  <2>1. \A i \in 1 .. j : y1[i] \in Int
    BY <1>5
  <2> QED
    BY <1>0, <2>1, ValueInt
<1>9. P \in Int
  BY <1>0, PowerInt
<1>10. V(r) = a * v /\ \A k \in n + j + 1 .. size : r[k] = 0
  BY DEF Covers
<1>11. CASE yj = 0
  <2>1. DigitsValue(Half, y1, j + 1) = v
    <3>1. 0 * P = 0
      BY <1>9
    <3> QED
      BY <1>6, <1>8, <1>11, <3>1
  <2>2. \A k \in n + (j + 1) + 1 .. size : r[k] = 0
    <3>1. \A k \in n + (j + 1) + 1 .. size : k \in n + j + 1 .. size
      BY <1>0
    <3> QED
      BY <3>1, <1>10
  <2>3. RowsOf(r, x1, yj, j) = r
    BY <1>11 DEF RowsOf
  <2> QED
    BY <2>1, <2>2, <2>3, <1>10 DEF Covers
<1>12. CASE yj # 0
  <2>1. RowsOf(r, x1, yj, j) = s
    BY <1>12 DEF RowsOf
  <2> HIDE DEF yj
  <2>2. \A k \in j + Len(x1) + 1 .. size : r[k] = 0
    <3>1. j + Len(x1) + 1 = n + j + 1
      BY <1>0
    <3> QED
      BY <3>1, <1>10
  <2>3. Adds(s, r, yj * a, j, size)
    BY <1>0, <1>4, <2>2, AddRowExact
  <2>4. \A k \in 1 .. size : k > j + Len(x1) + 1 => s[k] = r[k]
    <3>1. HasRow(s, Row(r, x1, yj, j), r, Len(x1), j, size)
      BY <1>0, <1>4, AddRowParts
    <3> QED
      BY <3>1 DEF HasRow
  <2>5. \A k \in n + (j + 1) + 1 .. size : s[k] = 0
    <3>1. \A k \in n + (j + 1) + 1 .. size :
            k \in 1 .. size /\ k > j + Len(x1) + 1 /\ k \in n + j + 1 .. size
      BY <1>0
    <3> QED
      BY <3>1, <2>4, <1>10
  <2>6. V(s) = a * v + (yj * a) * P
    BY <2>3, <1>10 DEF Adds
  <2> HIDE DEF a, v, P
  <2>7. (yj * a) * P = a * (yj * P)
    <3>1. yj * a = a * yj
      BY <1>4, <1>7, Distribute
    <3>2. a * (yj * P) = (a * yj) * P
      BY <1>4, <1>7, <1>9, Distribute
    <3> QED
      BY <3>1, <3>2
  <2> DEFINE p == yj * P
  <2>8. p \in Int
    BY <1>4, <1>9, Distribute
  <2> HIDE DEF p
  <2>9. a * (v + p) = a * v + a * p
    BY <1>7, <1>8, <2>8, Distribute
  <2>10. V(s) = a * DigitsValue(Half, y1, j + 1)
    BY <2>6, <2>7, <2>9, <1>6 DEF p
  <2> QED
    BY <2>1, <2>5, <2>10 DEF Covers, a, yj
<1> QED
  BY <1>11, <1>12

IsProduct(r, x1, y1) ==
  r \in HalfDigits(Len(x1) + Len(y1)) /\ HalfAmount(r) = HalfAmount(x1) * HalfAmount(y1)

LEMMA RowsExact ==
  ASSUME NEW x1 \in Seq(HalfDigit), NEW y1 \in Seq(HalfDigit)
  PROVE  IsProduct(Rows(x1, y1)[Len(y1)], x1, y1)
<1> DEFINE m == Len(y1)  size == Len(x1) + m  q == Rows(x1, y1)
           T == {j \in 0 .. m : Covers(q[j], x1, y1, j)}
<1>0. m \in Nat /\ size \in Nat /\ Half \in Int
  BY HalfFacts
<1>1. /\ q[0] = Zeros(size)
      /\ \A j \in 1 .. m : q[j] = RowsOf(q[j - 1], x1, y1[j], j - 1)
      /\ \A j \in 0 .. m : q[j] \in HalfDigits(size)
  BY RowsAreRows DEF IsRows
<1>2. 0 \in T
  <2>1. \A k \in 1 .. size : q[0][k] = 0
    BY <1>0, <1>1, ZeroHalfDigits
  <2> DEFINE z == q[0]
  <2>2. \A k \in 1 .. size : z[k] = 0
    BY <2>1
  <2> HIDE DEF z
  <2>3. DigitsValue(Half, z, size) = 0
    BY <1>0, <2>2, ValueOfZeros
  <2>4. DigitsValue(Half, y1, 0) = 0
    BY <1>0, NoDigits
  <2>5. HalfAmount(x1) * 0 = 0
    <3>1. \A i \in 1 .. Len(x1) : x1[i] \in HalfDigit
      OBVIOUS
    <3>2. \A i \in 1 .. Len(x1) : x1[i] \in Int
      BY <3>1, HalfFacts
    <3>3. HalfAmount(x1) \in Int
      BY <1>0, <3>2, ValueInt DEF HalfAmount
    <3> QED
      BY <3>3
  <2>6. \A k \in Len(x1) + 0 + 1 .. Len(x1) + Len(y1) : k \in 1 .. size
    BY <1>0
  <2>7. Covers(z, x1, y1, 0)
    BY <2>2, <2>3, <2>4, <2>5, <2>6 DEF Covers
  <2> QED
    BY <1>0, <2>7 DEF z
<1> HIDE DEF q
<1>3. ASSUME NEW j \in 0 .. m - 1, j \in T PROVE j + 1 \in T
  <2>1. j \in Nat /\ j + 1 \in 1 .. m /\ (j + 1) - 1 = j /\ j + 1 \in 0 .. m /\ j + 1 <= Len(y1)
    BY <1>0
  <2>2. q[j] \in HalfDigits(Len(x1) + Len(y1)) /\ Covers(q[j], x1, y1, j)
    BY <1>1, <1>3
  <2>3. q[j + 1] = RowsOf(q[j], x1, y1[j + 1], j)
    BY <1>1, <2>1
  <2> DEFINE r == q[j]
  <2> HIDE DEF r
  <2>4. Covers(RowsOf(r, x1, y1[j + 1], j), x1, y1, j + 1)
    BY <2>1, <2>2, RowCovers DEF r
  <2> QED
    BY <2>1, <2>3, <2>4 DEF r
<1> HIDE DEF T
<1>4. \A j \in 0 .. m : j \in T
  BY <1>0, <1>2, <1>3, Induction
<1>5. m \in T /\ q[m] \in HalfDigits(size)
  BY <1>0, <1>1, <1>4
<1>6. Len(q[m]) = size
  BY <1>5 DEF HalfDigits
<1> QED
  BY <1>5, <1>6 DEF T, Covers, IsProduct, HalfAmount, q, m, size

(* bignum_digits_multiply by half digits is exact, for any two lengths.    *)
THEOREM MultiplyDigitsExact ==
  ASSUME NEW a \in Seq(Digit), NEW b \in Seq(Digit)
  PROVE  /\ MultiplyDigits(a, b) \in Seq(Digit) /\ Len(MultiplyDigits(a, b)) = Len(a) + Len(b)
         /\ Amount(MultiplyDigits(a, b)) = Amount(a) * Amount(b)
<1> DEFINE x1 == Halves(a)  y1 == Halves(b)  r == Rows(x1, y1)[2 * Len(b)]  n == Len(a) + Len(b)
<1>1. IsHalved(x1, a) /\ IsHalved(y1, b)
  BY HalvesExact
<1>2. /\ x1 \in Seq(HalfDigit) /\ Len(x1) = 2 * Len(a) /\ HalfAmount(x1) = Amount(a)
      /\ y1 \in Seq(HalfDigit) /\ Len(y1) = 2 * Len(b) /\ HalfAmount(y1) = Amount(b)
  BY <1>1 DEF IsHalved
<1> HIDE DEF x1, y1
<1>3. IsProduct(r, x1, y1)
  BY <1>2, RowsExact
<1>4. r \in Seq(HalfDigit) /\ Len(r) = Len(x1) + Len(y1) /\ HalfAmount(r) = Amount(a) * Amount(b)
  BY <1>2, <1>3 DEF IsProduct, HalfDigits
<1>5. n \in Nat /\ Len(r) = 2 * n
  BY <1>2, <1>4
<1>6. MultiplyDigits(a, b) = Digits(r)
  BY DEF MultiplyDigits, x1, y1
<1> HIDE DEF r, n
<1>7. Digits(r) \in Seq(Digit) /\ Len(Digits(r)) = n /\ Amount(Digits(r)) = HalfAmount(r)
  BY <1>4, <1>5, DigitsExact
<1> QED
  BY <1>4, <1>6, <1>7 DEF n

(* Shifts to the left.                                                     *)
LEMMA PowerOfBase ==
  ASSUME NEW n \in Nat PROVE DigitBits * n \in Nat /\ Power(2, DigitBits * n) = Power(Base, n)
<1> DEFINE w == DigitBits  T == {i \in 0 .. n : w * i \in Nat /\ Power(2, w * i) = Power(Base, i)}
<1>0. w \in Nat /\ Base = Power(2, w) /\ Base \in Int /\ 2 \in Int
  BY BaseFacts
<1> HIDE DEF w
<1>1. 0 \in T
  <2>1. w * 0 = 0
    BY <1>0
  <2> QED
    BY <1>0, <2>1, PowerZero
<1>2. ASSUME NEW i \in 0 .. n - 1, i \in T PROVE i + 1 \in T
  <2> DEFINE a == w * i
  <2>1. i \in Nat /\ i + 1 \in 0 .. n /\ a \in Nat /\ Power(2, a) = Power(Base, i)
    BY <1>2
  <2>2. w * (i + 1) = a + w
    BY <1>0, <2>1
  <2> HIDE DEF a
  <2>3. Power(2, a + w) = Power(2, a) * Power(2, w)
    BY <1>0, <2>1, PowerSum
  <2>4. Power(Base, i + 1) = Base * Power(Base, i)
    BY <1>0, <2>1, PowerNext
  <2> DEFINE p == Power(Base, i)
  <2>5. p \in Int
    BY <1>0, <2>1, PowerInt
  <2> HIDE DEF p
  <2>6. p * Base = Base * p
    BY <1>0, <2>5, Distribute
  <2>7. Power(2, w * (i + 1)) = Power(Base, i + 1)
    BY <2>1, <2>2, <2>3, <2>4, <2>6, <1>0 DEF p
  <2>8. w * (i + 1) \in Nat
    BY <1>0, <2>1, <2>2
  <2> QED
    BY <2>1, <2>7, <2>8
<1> HIDE DEF T
<1>3. \A i \in 0 .. n : i \in T
  BY <1>1, <1>2, Induction
<1> QED
  BY <1>3 DEF T, w

(* d times m, in digits.                                                   *)
IsMultiple(e, d, m) == e \in Seq(Digit) /\ Amount(e) = m * Amount(d)

LEMMA ZerosBelow ==
  ASSUME NEW d \in Seq(Digit), NEW k \in Nat
  PROVE  IsMultiple(Zeros(k) \o d, d, Power(Base, k))
<1> DEFINE n == Len(d)  e == Zeros(k) \o d
<1>1. n \in Nat /\ (\A i \in 1 .. n : d[i] \in Digit /\ d[i] \in Int) /\ Base \in Int
  BY DigitSequence, HalfFacts
<1>2. Zeros(k) \in Seq(Digit) /\ Len(Zeros(k)) = k /\ \A i \in 1 .. k : Zeros(k)[i] = 0
  BY DigitsAreInt DEF Zeros
<1>3. /\ e \in Seq(Digit) /\ Len(e) = k + n
      /\ \A i \in 1 .. k : e[i] = 0
      /\ \A i \in 1 .. n : e[k + i] = d[i]
  <2> DEFINE z == Zeros(k)
  <2>1. z \in Seq(Digit) /\ Len(z) = k /\ \A i \in 1 .. k : z[i] = 0
    BY <1>2
  <2> HIDE DEF z
  <2>2. z \o d \in Seq(Digit) /\ Len(z \o d) = k + n
    BY <2>1
  <2>3. \A i \in 1 .. k : (z \o d)[i] = z[i]
    BY <2>1
  <2>4. \A i \in 1 .. n : (z \o d)[k + i] = d[i]
    BY <2>1
  <2> QED
    BY <2>1, <2>2, <2>3, <2>4 DEF z
<1> HIDE DEF e, n
<1>4. \A i \in 1 .. k + n : e[i] \in Int
  BY <1>1, <1>3, DigitSequence
<1>5. \A i \in 1 .. n : d[i] = e[k + i]
  BY <1>3
<1>6. Splits(Base, e, d, k, n)
  BY <1>1, <1>4, <1>5, ValueSplits
<1>7. DigitsValue(Base, e, k) = 0
  BY <1>1, <1>3, ValueOfZeros
<1>8. DigitsValue(Base, d, n) \in Int
  BY <1>1, ValueInt
<1>9. Power(Base, k) \in Int
  BY <1>1, PowerInt
<1>10. Power(Base, k) * DigitsValue(Base, d, n) \in Int
  BY <1>8, <1>9, Distribute
<1>11. DigitsValue(Base, e, k + n) = Power(Base, k) * DigitsValue(Base, d, n)
  BY <1>6, <1>7, <1>10 DEF Splits
<1> QED
  BY <1>3, <1>11 DEF IsMultiple, Amount, e, n

LEMMA ZeroAbove ==
  ASSUME NEW d \in Seq(Digit)
  PROVE  d \o <<0>> \in Seq(Digit) /\ Len(d \o <<0>>) = Len(d) + 1 /\ Amount(d \o <<0>>) = Amount(d)
<1>1. d \o <<0>> = Append(d, 0)
  OBVIOUS
<1>2. Append(d, 0) \in Seq(Digit) /\ Amount(Append(d, 0)) = Amount(d) + 0 * Power(Base, Len(d))
  BY AppendAmount, DigitsAreInt
<1>3. Amount(d) \in Int /\ Power(Base, Len(d)) \in Int
  BY AmountBounds
<1>4. Amount(Append(d, 0)) = Amount(d)
  <2> DEFINE q == Power(Base, Len(d))  a == Amount(d)
  <2>1. q \in Int /\ a \in Int /\ Amount(Append(d, 0)) = a + 0 * q
    BY <1>2, <1>3
  <2> HIDE DEF q, a
  <2>2. Amount(Append(d, 0)) = a
    BY <2>1
  <2> QED
    BY <2>2 DEF a
<1>5. Len(Append(d, 0)) = Len(d) + 1
  OBVIOUS
<1> QED
  BY <1>1, <1>2, <1>4, <1>5

(* There is room for the carry.                                            *)
LEMMA ShiftLeftFits ==
  ASSUME NEW d \in Seq(Digit), NEW s \in 0 .. DigitBits
  PROVE  IsMultiple(ShiftLeft(d \o <<0>>, s)[1], d, Power(2, s))
<1> DEFINE e == d \o <<0>>  n == Len(d)  r == ShiftLeft(e, s)  m == Power(2, s)  a == Amount(d)
           p == Power(Base, n)  o == Amount(r[1])  c == r[2]
<1>1. e \in Seq(Digit) /\ Len(e) = n + 1 /\ Amount(e) = a
  BY ZeroAbove
<1> HIDE DEF e
<1>2. IsScaled(r, e, m, 0, 0 .. m - 1)
  BY <1>1, ShiftLeftExact
<1>3. m \in Int /\ m > 0 /\ Power(2, DigitBits - s) \in Int /\ Power(2, DigitBits - s) > 0
      /\ m * Power(2, DigitBits - s) = Base
  BY WordSplit
<1>4. n \in Nat /\ Base \in Int
  BY HalfFacts
<1>5. a \in Int /\ 0 <= a /\ a < p /\ p \in Int /\ p > 0
  BY AmountBounds
<1>6. Power(Base, n + 1) = Base * p
  BY <1>4, PowerNext
<1> DEFINE q == Power(2, DigitBits - s)
<1>7. q \in Int /\ q > 0 /\ m * q = Base
  BY <1>3
<1> HIDE DEF r, m, a, p, n, q
<1>8. r[1] \in Seq(Digit) /\ c \in 0 .. m - 1 /\ o + c * Power(Base, n + 1) = m * a + 0
  BY <1>1, <1>2 DEF IsScaled
<1>9. o \in Nat
  BY <1>8, AmountBounds
<1> HIDE DEF o, c
<1>10. m <= Base
  BY <1>3, <1>7
<1>11. m * a < Base * p
  <2>1. a * m < p * m
    BY <1>3, <1>5, StrictlyMonotone
  <2>2. m * p <= Base * p
    BY <1>3, <1>4, <1>5, <1>10, Monotone
  <2>3. a * m = m * a /\ p * m = m * p
    BY <1>3, <1>5, Distribute
  <2> DEFINE u == a * m  v == p * m  w == Base * p
  <2>4. u \in Int /\ v \in Int /\ w \in Int
    BY <1>3, <1>4, <1>5, Distribute
  <2>5. u < v /\ v <= w
    BY <2>1, <2>2, <2>3
  <2> HIDE DEF u, v, w
  <2>6. u < w
    BY <2>4, <2>5
  <2> QED
    BY <2>3, <2>6 DEF u, w
<1>12. m * a \in Int /\ Base * p \in Int
  BY <1>3, <1>4, <1>5, Distribute
<1>13. c = 0
  <2> DEFINE w == Base * p  u == m * a
  <2>1. w \in Int /\ u \in Int /\ u < w /\ o + c * w = u + 0
    BY <1>6, <1>8, <1>11, <1>12
  <2> HIDE DEF w, u
  <2>2. CASE c >= 1
    <3>0. c \in Int /\ 1 \in Int /\ w >= 0
      BY <1>8, <1>9, <2>1, <1>4, <1>5, <1>3, <1>10, Monotone DEF w
    <3>1. 1 * w <= c * w
      BY <2>1, <2>2, <3>0, Monotone
    <3> DEFINE t == c * w
    <3>2. t \in Int /\ w <= t /\ o + t = u + 0
      BY <2>1, <3>0, <3>1, Distribute
    <3> HIDE DEF t
    <3> QED
      BY <2>1, <3>2, <1>9
  <2> QED
    BY <1>3, <1>8, <2>2
<1>14. o = m * a
  <2>1. c * Power(Base, n + 1) = 0
    BY <1>6, <1>12, <1>13
  <2> QED
    BY <1>8, <1>9, <1>12, <2>1
<1> QED
  BY <1>8, <1>14 DEF IsMultiple, o, m, a, r, e

LeftDigits(d, s) ==
  Zeros(s \div DigitBits) \o IF s % DigitBits = 0 THEN d \o <<0>>
                             ELSE ShiftLeft(d \o <<0>>, s % DigitBits)[1]

LEMMA LeftDigitsExact ==
  ASSUME NEW d \in Seq(Digit), NEW s \in Nat
  PROVE  IsMultiple(LeftDigits(d, s), d, Power(2, s))
<1> DEFINE w == DigitBits  k == s \div DigitBits  b == s % DigitBits
           e == IF s % DigitBits = 0 THEN d \o <<0>> ELSE ShiftLeft(d \o <<0>>, s % DigitBits)[1]
           a == Amount(d)
<1>0. w \in Nat /\ w > 0 /\ s \in Int
  BY BaseFacts
<1>1. k \in Int /\ b \in 0 .. w - 1 /\ s = w * k + b
  BY <1>0, DivMod
<1>2. k \in Nat
  BY <1>0, <1>1
<1>3. a \in Int
  BY AmountBounds
<1>4. LeftDigits(d, s) = Zeros(k) \o e
  BY DEF LeftDigits
<1>5. IsMultiple(e, d, Power(2, b))
  <2>1. CASE b = 0
    <3>1. Power(2, b) = 1
      BY <2>1, PowerZero
    <3>2. e = d \o <<0>>
      BY <2>1
    <3>3. 1 * a = a
      BY <1>3
    <3> QED
      BY <3>1, <3>2, <3>3, ZeroAbove DEF IsMultiple
  <2>2. CASE b # 0
    <3>1. e = ShiftLeft(d \o <<0>>, b)[1] /\ b \in 0 .. w
      BY <1>0, <1>1, <2>2
    <3> HIDE DEF b, e
    <3> QED
      BY <3>1, ShiftLeftFits
  <2> QED
    BY <2>1, <2>2
<1> HIDE DEF k, b, e, w
<1>6. e \in Seq(Digit) /\ Amount(e) = Power(2, b) * a
  BY <1>5 DEF IsMultiple
<1>7. IsMultiple(Zeros(k) \o e, e, Power(Base, k))
  BY <1>2, <1>6, ZerosBelow
<1>8. Power(2, s) = Power(2, w * k) * Power(2, b) /\ Power(2, w * k) = Power(Base, k)
  <2>1. w * k \in Nat /\ Power(2, w * k) = Power(Base, k)
    BY <1>2, PowerOfBase DEF w
  <2> DEFINE t == w * k
  <2> HIDE DEF t
  <2>2. t \in Nat /\ b \in Nat /\ s = t + b
    BY <1>0, <1>1, <2>1 DEF t
  <2>3. Power(2, t + b) = Power(2, t) * Power(2, b)
    BY <2>2, PowerSum
  <2> QED
    BY <2>1, <2>2, <2>3 DEF t
<1>9. Power(Base, k) \in Int /\ Power(2, b) \in Int
  <2>1. Base \in Int /\ b \in Nat /\ 2 \in Int
    BY <1>0, <1>1, HalfFacts
  <2>2. Power(Base, k) \in Int
    BY <1>2, <2>1, PowerInt
  <2>3. Power(2, b) \in Int
    BY <2>1, PowerInt
  <2> QED
    BY <2>2, <2>3
<1> DEFINE p == Power(Base, k)  q == Power(2, b)
<1>10. p * (q * a) = (p * q) * a
  BY <1>3, <1>9, Distribute
<1> QED
  BY <1>4, <1>6, <1>7, <1>8, <1>10 DEF IsMultiple

LEMMA ShiftUpExact ==
  ASSUME NEW x1, NEW v, IsOperand(x1, v), NEW s \in Nat
  PROVE  IsExactly(ShiftUp(x1, s), v * Power(2, s))
<1> DEFINE e == LeftDigits(x1.d, s)  m == Power(2, s)  d == x1.d  neg == x1.neg  a == Amount(d)
<1>1. neg \in BOOLEAN /\ d \in Seq(Digit) /\ v = Signed(neg, a)
  BY DEF IsOperand
<1>2. ShiftUp(x1, s) = Simplify(neg, e)
  BY DEF ShiftUp, LeftDigits
<1> HIDE DEF d, neg
<1>3. IsMultiple(LeftDigits(d, s), d, m)
  BY <1>1, LeftDigitsExact
<1>4. e \in Seq(Digit) /\ Amount(e) = m * a
  BY <1>3 DEF IsMultiple, d
<1>5. a \in Int
  BY <1>1, AmountBounds
<1>6. m \in Int
  BY PowerInt
<1> HIDE DEF e, m, a
<1>7. IsExactly(Simplify(neg, e), Signed(neg, Amount(e)))
  BY <1>1, <1>4, SimplifyExact
<1>8. Signed(neg, m * a) = v * m
  <2>1. Signed(neg, a) * Signed(FALSE, m) = Signed(neg # FALSE, a * m)
    BY <1>1, <1>5, <1>6, SignedProduct
  <2>2. a * m = m * a /\ Signed(FALSE, m) = m /\ (neg # FALSE) = neg
    BY <1>1, <1>5, <1>6, Distribute DEF Signed
  <2> QED
    BY <1>1, <2>1, <2>2
<1> QED
  BY <1>2, <1>4, <1>7, <1>8 DEF m

(* A fixnum whose length leaves room for the shift.                        *)
LEMMA SmallShiftFits ==
  ASSUME NEW n \in Digit, NEW s \in Nat, Ilen(n) + s < DigitBits - 2
  PROVE  n * Power(2, s) \in Int /\ 0 <= n * Power(2, s) /\ n * Power(2, s) <= MostPositive
<1> DEFINE l == Ilen(n)  w == DigitBits  p == Power(2, l)  q == Power(2, s)
           f == Power(2, w - 2)  t == w - 2
<1>0. /\ w \in Nat /\ w >= 4 /\ 2 \in Int /\ Base = Power(2, w) /\ MostPositive \in Int
      /\ Base = 4 * (MostPositive + 1)
      /\ Base \in Int
  BY BaseFacts
<1>1. l \in 0 .. w /\ n < p
  BY IlenFacts
<1>2. n \in Int /\ 0 <= n
  BY DigitsAreInt DEF Digit
<1> HIDE DEF l, w
<1>3. l \in Nat /\ t \in Nat /\ l + s \in Nat /\ l + s <= t /\ w = t + 2
  BY <1>0, <1>1 DEF l, w
<1> HIDE DEF t
<1>4. p \in Int /\ p > 0 /\ q \in Int /\ q > 0
  <2>1. 2 \in Int /\ 2 > 0
    OBVIOUS
  <2>2. p \in Int /\ p > 0
    BY <1>3, <2>1, PowerPositive
  <2>3. q \in Int /\ q > 0
    BY <2>1, PowerPositive
  <2> QED
    BY <2>2, <2>3
<1>5. Power(2, l + s) = p * q
  BY <1>0, <1>3, PowerSum
<1>6. Power(2, l + s) <= Power(2, t)
  BY <1>0, <1>3, PowerMonotone
<1>7. Power(2, t) = MostPositive + 1
  <2> DEFINE u == Power(2, t)
  <2>1. Power(2, t + 2) = u * Power(2, 2)
    BY <1>0, <1>3, PowerSum
  <2>2. Power(2, 2) = 4
    <3>1. Power(2, 0 + 1) = 2 * Power(2, 0) /\ Power(2, 1 + 1) = 2 * Power(2, 1) /\ Power(2, 0) = 1
      BY PowerNext, PowerZero
    <3> QED
      BY <3>1
  <2>3. u \in Int
    BY <1>0, <1>3, PowerInt
  <2> HIDE DEF u
  <2>4. u * 4 = 4 * (MostPositive + 1)
    BY <1>0, <1>3, <2>1, <2>2
  <2>5. u = MostPositive + 1
    BY <1>0, <2>3, <2>4
  <2> QED
    BY <2>5 DEF u
<1> HIDE DEF p, q
<1>8. n * q < p * q /\ 0 * q <= n * q /\ n * q \in Int /\ p * q \in Int /\ 0 * q = 0
  BY <1>1, <1>2, <1>4, StrictlyMonotone, Monotone, Distribute
<1> DEFINE u == n * q  v == p * q
<1>9. u \in Int /\ 0 <= u /\ u < v /\ v \in Int /\ v <= MostPositive + 1
  BY <1>5, <1>6, <1>7, <1>8
<1> HIDE DEF u, v
<1>10. u <= MostPositive
  BY <1>0, <1>9
<1> QED
  BY <1>9, <1>10 DEF u, q

(* C_s_a_i_arithmetic_shift to the left multiplies by a power of two.      *)
THEOREM LeftShiftExact ==
  ASSUME NEW x1, NEW v, IsExactly(x1, v), NEW s \in Nat
  PROVE  IsExactly(ArithmeticShift(x1, s), v * Power(2, s))
<1> DEFINE m == Power(2, s)
<1>0. v \in Int /\ m \in Int
  BY ExactInt, PowerInt
<1>1. CASE s = 0
  <2>1. m = 1 /\ v * 1 = v
    BY <1>0, <1>1, PowerZero
  <2>2. ArithmeticShift(x1, s) = x1
    BY <1>1 DEF ArithmeticShift
  <2> QED
    BY <2>1, <2>2
<1>2. CASE x1 = Zero
  <2>1. v = 0
    BY <1>2, ZeroIsExact DEF IsExactly
  <2>2. ArithmeticShift(x1, s) = Zero
    BY <1>2 DEF ArithmeticShift
  <2>3. v * m = 0
    BY <1>0, <2>1
  <2> QED
    BY <2>2, <2>3, ZeroIsExact
<1> DEFINE small == IsFix(x1) /\ x1.n > 0 /\ s < DigitBits - 2 /\ Ilen(x1.n) + s < DigitBits - 2
<1>3. CASE s # 0 /\ x1 # Zero /\ small
  <2>1. x1.n \in Int /\ FitsFixnum(x1.n) /\ v = x1.n
    BY <1>3, ExactCases
  <2>2. x1.n \in Digit
    BY <2>1, <1>3, FixnumIsDigit DEF Magnitude
  <2>3. s \in 0 .. DigitBits
    BY <1>3, BaseFacts
  <2>4. ArithmeticShift(x1, s) = Fix(x1.n * TwoTo[s])
    BY <1>3 DEF ArithmeticShift
  <2>5. TwoTo[s] = m
    BY <2>3, TwoToIs
  <2> DEFINE n == x1.n
  <2>6. n \in Digit /\ Ilen(n) + s < DigitBits - 2 /\ v = n
    BY <1>3, <2>1, <2>2
  <2> HIDE DEF n
  <2>7. n * m \in Int /\ 0 <= n * m /\ n * m <= MostPositive
    BY <2>6, SmallShiftFits
  <2> DEFINE u == n * m
  <2> HIDE DEF u
  <2>8. FitsFixnum(u) /\ u \in Int
    BY <2>7, FixnumRange, BaseFacts DEF u
  <2>9. IsExactly(Fix(u), u)
    BY <2>8, FixIsExact
  <2> QED
    BY <2>4, <2>5, <2>6, <2>9 DEF u, n
<1>4. CASE s # 0 /\ x1 # Zero /\ ~small
  <2>1. ArithmeticShift(x1, s) = ShiftUp(FixToBig(x1), s)
    BY <1>4 DEF ArithmeticShift
  <2>2. IsOperand(FixToBig(x1), v)
    BY FixToBigExact
  <2> QED
    BY <2>1, <2>2, ShiftUpExact
<1> QED
  BY <1>1, <1>2, <1>3, <1>4

(* Parts of numbers.                                                       *)
PartValue(d, a, b) == DigitsValue(Base, [i \in 1 .. b - a |-> d[a + i]], b - a)
PartOf(neg, d, a, b) == IF a >= b THEN Zero ELSE Simplify(neg, SubSeq(d, a + 1, b))

LEMMA SignedZero ==
  ASSUME NEW neg \in BOOLEAN, NEW z \in Int, z + z = 0 PROVE Signed(neg, z) = z
BY DEF Signed

LEMMA PartExact ==
  ASSUME NEW neg \in BOOLEAN, NEW d \in Seq(Digit), NEW b \in 0 .. Len(d), NEW a \in 0 .. b
  PROVE  IsExactly(PartOf(neg, d, a, b), Signed(neg, PartValue(d, a, b))) /\ PartValue(d, a, b) \in Int
<1> DEFINE n == Len(d)  e == [i \in 1 .. b - a |-> d[a + i]]
<1>0. n \in Nat /\ Base \in Int /\ b - a \in Nat /\ a \in Nat /\ b \in Nat /\ b <= n
  BY HalfFacts
<1>1. \A i \in 1 .. n : d[i] \in Digit
  OBVIOUS
<1>2. \A i \in 1 .. b - a : a + i \in 1 .. n
  BY <1>0
<1>3. \A i \in 1 .. b - a : e[i] = d[a + i] /\ e[i] \in Digit
  BY <1>1, <1>2
<1> DEFINE k == b - a
<1>9. e \in [1 .. k -> Digit] /\ k \in Nat
  BY <1>0, <1>3
<1>4. e \in Seq(Digit) /\ Len(e) = b - a
  <2> HIDE DEF e, k
  <2>1. e \in Seq(Digit) /\ Len(e) = k
    BY <1>9
  <2> QED
    BY <2>1 DEF k
<1>5. PartValue(d, a, b) = Amount(e)
  BY <1>4 DEF PartValue, Amount
<1>6. Amount(e) \in Int
  <2> HIDE DEF e
  <2> QED
    BY <1>4, AmountBounds
<1>7. CASE a >= b
  <2>1. PartOf(neg, d, a, b) = Zero
    BY <1>7 DEF PartOf
  <2>2. b - a = 0
    BY <1>0, <1>7
  <2>3. Amount(e) = 0
    <3> HIDE DEF e
    <3>1. Len(e) = 0
      BY <1>4, <2>2
    <3> QED
      BY <1>0, <3>1, NoDigits DEF Amount
  <2> DEFINE z == Amount(e)
  <2>4. z \in Int /\ z + z = 0 /\ z = 0
    BY <1>6, <2>3
  <2> HIDE DEF z
  <2>5. Signed(neg, z) = z
    BY <2>4, SignedZero
  <2>6. PartValue(d, a, b) = z
    BY <1>5 DEF z
  <2> QED
    BY <2>1, <2>4, <2>5, <2>6, ZeroIsExact
<1>8. CASE a < b
  <2>1. PartOf(neg, d, a, b) = Simplify(neg, SubSeq(d, a + 1, b))
    BY <1>0, <1>8 DEF PartOf
  <2>2. SubSeq(d, a + 1, b) = e
    <3>1. a + 1 \in 1 .. n /\ b \in 1 .. n
      BY <1>0, <1>8
    <3>2. SubSeq(d, a + 1, b) = [i \in 1 .. (1 + b - (a + 1)) |-> d[i + (a + 1) - 1]]
      BY <3>1
    <3>3. 1 + b - (a + 1) = b - a /\ \A i \in 1 .. b - a : i + (a + 1) - 1 = a + i
      BY <1>0
    <3> QED
      BY <3>2, <3>3
  <2> HIDE DEF e
  <2>3. IsExactly(Simplify(neg, e), Signed(neg, Amount(e)))
    BY <1>4, SimplifyExact
  <2> QED
    BY <1>5, <1>6, <2>1, <2>2, <2>3
<1> QED
  BY <1>0, <1>7, <1>8

(* A number is its upper part and its lower part.                          *)
AreParts(hi, lo, v, n) ==
  \E h, l \in Int : IsExactly(hi, h) /\ IsExactly(lo, l) /\ v = h * Power(Base, n) + l

LEMMA SplitsDigits ==
  ASSUME NEW neg \in BOOLEAN, NEW d \in Seq(Digit), NEW n \in 0 .. Len(d)
  PROVE  AreParts(PartOf(neg, d, n, Len(d)), PartOf(neg, d, 0, n), Signed(neg, Amount(d)), n)
<1> DEFINE m == Len(d)  k == m - n  H == PartValue(d, n, m)  L == PartValue(d, 0, n)  P == Power(Base, n)
           hi == PartOf(neg, d, n, m)  lo == PartOf(neg, d, 0, n)
           e == [i \in 1 .. k |-> d[n + i]]  f == [i \in 1 .. n - 0 |-> d[0 + i]]
<1>0. m \in Nat /\ n \in Nat /\ k \in Nat /\ m = n + k /\ Base \in Int /\ n - 0 = n
  BY HalfFacts
<1>1. \A i \in 1 .. m : d[i] \in Int
  BY DigitSequence
<1>2. IsExactly(hi, Signed(neg, H)) /\ H \in Int
  <2>1. m \in 0 .. Len(d) /\ n \in 0 .. m
    BY <1>0
  <2> QED
    BY <2>1, PartExact
<1>3. IsExactly(lo, Signed(neg, L)) /\ L \in Int
  <2>1. 0 \in 0 .. n
    BY <1>0
  <2> QED
    BY <2>1, PartExact
<1>4. H = DigitsValue(Base, e, k) /\ L = DigitsValue(Base, f, n)
  BY <1>0 DEF PartValue
<1>5. (\A i \in 1 .. k : e[i] = d[n + i]) /\ \A i \in 1 .. n : f[i] = d[i]
  BY <1>0
<1>6. Amount(d) = DigitsValue(Base, d, n + k)
  BY <1>0 DEF Amount
<1> HIDE DEF m, k, e, f, hi, lo, H, L
<1>7. \A i \in 1 .. n + k : d[i] \in Int
  BY <1>0, <1>1
<1>8. Splits(Base, d, e, n, k)
  BY <1>0, <1>5, <1>7, ValueSplits
<1>9. DigitsValue(Base, d, n) = L
  <2>1. \A i \in 1 .. n : d[i] \in Int /\ f[i] = d[i]
    BY <1>0, <1>5, <1>7
  <2>2. DigitsValue(Base, d, n) = DigitsValue(Base, f, n)
    BY <1>0, <2>1, SameDigits
  <2> QED
    BY <1>4, <2>2
<1>10. Amount(d) = L + P * H
  BY <1>4, <1>6, <1>8, <1>9 DEF Splits
<1>11. P \in Int
  BY <1>0, PowerInt
<1> DEFINE a == Amount(d)  q == P * H
<1> HIDE DEF P
<1>12. q \in Int /\ q = H * P /\ (-H) * P = -(H * P)
  <2>1. q = H * P /\ q \in Int
    BY <1>2, <1>11, Distribute
  <2>2. (0 - H) * P = 0 * P - H * P /\ 0 * P = 0
    BY <1>2, <1>11, Distribute
  <2>3. 0 - H = -H /\ 0 - H * P = -(H * P)
    BY <1>2, <2>1
  <2> QED
    BY <2>1, <2>2, <2>3
<1> DEFINE z == H * P
<1>13. a = L + z /\ z \in Int /\ (-H) * P = -z
  BY <1>10, <1>12
<1>14. Signed(neg, a) = Signed(neg, H) * P + Signed(neg, L)
  <2> HIDE DEF a, z
  <2>1. CASE neg
    BY <1>3, <1>13, <2>1 DEF Signed
  <2>2. CASE ~neg
    BY <1>3, <1>13, <2>2 DEF Signed, z
  <2> QED
    BY <2>1, <2>2
<1>15. Signed(neg, H) \in Int /\ Signed(neg, L) \in Int
  BY <1>2, <1>3 DEF Signed
<1> QED
  BY <1>2, <1>3, <1>14, <1>15 DEF AreParts, P, hi, lo, m

LEMMA SplitExact ==
  ASSUME NEW x1, NEW v, IsExactly(x1, v), NEW n \in Nat
  PROVE  AreParts(Extract(x1, n, ToTheEnd), Extract(x1, 0, n), v, n)
<1> DEFINE P == Power(Base, n)
<1>0. v \in Int /\ P \in Int
  BY ExactInt, HalfFacts, PowerInt
<1>1. CASE IsFix(x1)
  <2>1. CASE n = 0
    <3>1. Extract(x1, n, ToTheEnd) = x1 /\ Extract(x1, 0, n) = Zero
      BY <1>1, <2>1 DEF Extract, ToTheEnd
    <3>2. P = 1
      BY <2>1, HalfFacts, PowerZero
    <3>3. v = v * P + 0
      BY <1>0, <3>2
    <3> QED
      BY <1>0, <3>1, <3>3, ZeroIsExact DEF AreParts
  <2>2. CASE n # 0
    <3>1. Extract(x1, n, ToTheEnd) = Zero /\ Extract(x1, 0, n) = x1
      BY <1>1, <2>2 DEF Extract, ToTheEnd
    <3>2. v = 0 * P + v
      BY <1>0
    <3> QED
      BY <1>0, <3>1, <3>2, ZeroIsExact DEF AreParts
  <2> QED
    BY <2>1, <2>2
<1>2. CASE ~IsFix(x1)
  <2> DEFINE d == x1.d  neg == x1.neg  m == Len(d)
  <2>1. neg \in BOOLEAN /\ d \in Seq(Digit) /\ v = Signed(neg, Amount(d)) /\ m \in Nat
    BY <1>2, ExactCases
  <2>2. \A s, t : Extract(x1, s, t) = PartOf(neg, d, s, IF t = ToTheEnd \/ t > m THEN m ELSE t)
    BY <1>2 DEF Extract, PartOf, Size
  <2>3. CASE n <= m
    <3>1. Extract(x1, n, ToTheEnd) = PartOf(neg, d, n, m)
      BY <2>2
    <3>2. Extract(x1, 0, n) = PartOf(neg, d, 0, n)
      BY <2>1, <2>2, <2>3 DEF ToTheEnd
    <3>3. n \in 0 .. m
      BY <2>1, <2>3
    <3> HIDE DEF neg, d
    <3>4. AreParts(PartOf(neg, d, n, Len(d)), PartOf(neg, d, 0, n), Signed(neg, Amount(d)), n)
      BY <2>1, <3>3, SplitsDigits
    <3> QED
      BY <2>1, <3>1, <3>2, <3>4
  <2>4. CASE n > m
    <3>1. Extract(x1, n, ToTheEnd) = Zero
      BY <2>1, <2>2, <2>4 DEF PartOf
    <3>2. Extract(x1, 0, n) = PartOf(neg, d, 0, m)
      BY <2>1, <2>2, <2>4 DEF ToTheEnd
    <3> HIDE DEF neg, d
    <3>3. IsExactly(PartOf(neg, d, 0, m), Signed(neg, PartValue(d, 0, m)))
      <4>1. m \in 0 .. Len(d) /\ 0 \in 0 .. m
        BY <2>1
      <4> QED
        BY <2>1, <4>1, PartExact
    <3>4. PartValue(d, 0, m) = Amount(d)
      <4> DEFINE f == [i \in 1 .. m - 0 |-> d[0 + i]]
      <4>1. m - 0 = m /\ Base \in Int
        BY <2>1, HalfFacts
      <4>2. \A i \in 1 .. m : d[i] \in Int
        BY <2>1, DigitSequence
      <4>3. \A i \in 1 .. m : d[i] \in Int /\ f[i] = d[i]
        BY <2>1, <4>1, <4>2
      <4>4. PartValue(d, 0, m) = DigitsValue(Base, f, m)
        BY <4>1 DEF PartValue
      <4> HIDE DEF f
      <4>5. DigitsValue(Base, d, m) = DigitsValue(Base, f, m)
        BY <2>1, <4>1, <4>3, SameDigits
      <4> QED
        BY <4>4, <4>5 DEF Amount
    <3>5. v = 0 * P + v
      BY <1>0
    <3> QED
      BY <1>0, <2>1, <3>1, <3>2, <3>3, <3>4, <3>5, ZeroIsExact DEF AreParts
  <2> QED
    BY <2>1, <2>3, <2>4
<1> QED
  BY <1>1, <1>2

(* The sign and the size of an integer.                                    *)
LEMMA NegativeSign ==
  ASSUME NEW s, NEW v, IsExactly(s, v)
  PROVE  (Negative(s) <=> v < 0) /\ (s = Zero <=> v = 0)
<1>1. v \in Int
  BY ExactInt
<1>2. s = Zero <=> v = 0
  <2>1. v = 0 => s = Zero
    BY ZeroIsExact, OneForm
  <2>2. s = Zero => v = 0
    BY ZeroIsExact DEF IsExactly
  <2> QED
    BY <2>1, <2>2
<1>3. CASE IsFix(s)
  <2>1. v = s.n
    BY <1>3, ExactCases
  <2>2. Negative(s) <=> v < 0
    BY <1>3, <2>1 DEF Negative
  <2> QED
    BY <1>2, <2>2
<1>4. CASE ~IsFix(s)
  <2>1. ~FitsFixnum(v) /\ s.neg \in BOOLEAN /\ Amount(s.d) \in Nat /\ v = Signed(s.neg, Amount(s.d))
    BY <1>4, BigIsLarge
  <2>2. FitsFixnum(0)
    BY BaseFacts DEF FitsFixnum
  <2>3. v # 0
    BY <2>1, <2>2
  <2>4. CASE s.neg = TRUE
    <3>1. v < 0
      BY <1>1, <2>1, <2>3, <2>4 DEF Signed
    <3> QED
      BY <1>2, <1>4, <2>4, <3>1 DEF Negative
  <2>5. CASE s.neg = FALSE
    <3>1. ~(v < 0)
      BY <1>1, <2>1, <2>3, <2>5 DEF Signed
    <3> QED
      BY <1>2, <1>4, <2>5, <3>1 DEF Negative
  <2> QED
    BY <2>1, <2>4, <2>5
<1> QED
  BY <1>3, <1>4

LEMMA AbsExact ==
  ASSUME NEW x1, NEW v, IsExactly(x1, v)
  PROVE  /\ IsExactly(IntegerAbs(x1), Magnitude(v)) /\ Magnitude(v) \in Int
         /\ v = Signed(Negative(x1), Magnitude(v)) /\ Negative(x1) \in BOOLEAN
<1>1. v \in Int /\ (Negative(x1) <=> v < 0)
  BY ExactInt, NegativeSign
<1>2. Negative(x1) \in BOOLEAN
  <2>1. CASE IsFix(x1)
    BY <2>1 DEF Negative
  <2>2. CASE ~IsFix(x1)
    BY <2>2, ExactCases DEF Negative
  <2> QED
    BY <2>1, <2>2
<1>3. CASE v < 0
  <2>1. IntegerAbs(x1) = IntegerNegate(x1)
    BY <1>1, <1>3 DEF IntegerAbs
  <2>2. Magnitude(v) = -v /\ -v \in Int /\ -(-v) = v
    BY <1>1, <1>3 DEF Magnitude
  <2>3. Negative(x1) = TRUE
    BY <1>1, <1>2, <1>3
  <2> QED
    BY <2>1, <2>2, <2>3, NegateExact DEF Signed
<1>4. CASE ~(v < 0)
  <2>1. IntegerAbs(x1) = x1
    BY <1>1, <1>4 DEF IntegerAbs
  <2>2. Magnitude(v) = v
    BY <1>4 DEF Magnitude
  <2>3. Negative(x1) = FALSE
    BY <1>1, <1>2, <1>4
  <2> QED
    BY <1>1, <2>1, <2>2, <2>3 DEF Signed
<1> QED
  BY <1>3, <1>4

(* A function that multiplies.                                             *)
Multiplies(times) ==
  \A a, b \in ExactInteger, v, w \in Int :
    IsExactly(a, v) /\ IsExactly(b, w) => IsExactly(times[<<a, b>>], v * w)

LEMMA MultipliesExactly ==
  ASSUME NEW times, Multiplies(times), NEW a, NEW b, NEW v, NEW w, IsExactly(a, v), IsExactly(b, w)
  PROVE  IsExactly(times[<<a, b>>], v * w)
<1>1. a \in ExactInteger /\ b \in ExactInteger /\ v \in Int /\ w \in Int
  BY ExactInt DEF IsExactly
<1> QED
  BY <1>1 DEF Multiplies

(* Three products instead of four.                                         *)
LEMMA ThreeForFour ==
  ASSUME NEW h \in Int, NEW l \in Int, NEW j \in Int, NEW k \in Int, NEW p \in Int
  PROVE  (h * p + l) * (j * p + k)
           = (h * j) * (p * p) + ((l * k + (h * j - (h - l) * (j - k))) * p + l * k)
OBVIOUS

LEMMA FromThreeExact ==
  ASSUME NEW high, NEW low, NEW mid, NEW a, NEW b, NEW c,
         IsExactly(high, a), IsExactly(low, b), IsExactly(mid, c), NEW n \in Nat
  PROVE  IsExactly(FromThree(high, low, mid, n * DigitBits),
                   a * (Power(Base, n) * Power(Base, n)) + ((b + (a - c)) * Power(Base, n) + b))
<1> DEFINE bits == n * DigitBits  P == Power(Base, n)  u == IntegerMinus(high, mid)
           t == IntegerPlus(low, u)  s == ArithmeticShift(t, bits)  r == IntegerPlus(s, low)
           q == ArithmeticShift(high, 2 * bits)
<1>1. a \in Int /\ b \in Int /\ c \in Int
  BY ExactInt
<1>2. bits \in Nat /\ Power(2, bits) = P /\ 2 * bits \in Nat /\ Power(2, 2 * bits) = P * P
  <2>1. DigitBits * n \in Nat /\ Power(2, DigitBits * n) = P
    BY PowerOfBase
  <2>2. bits = DigitBits * n
    BY BaseFacts
  <2> HIDE DEF bits
  <2>3. bits \in Nat /\ 2 * bits = bits + bits
    BY <2>1, <2>2
  <2>4. Power(2, bits + bits) = Power(2, bits) * Power(2, bits)
    BY <2>3, PowerSum
  <2> QED
    BY <2>1, <2>2, <2>3, <2>4
<1>3. IsExactly(u, a - c)
  BY MinusExact
<1>4. IsExactly(t, b + (a - c))
  <2> DEFINE d == a - c
  <2>1. IsExactly(u, d)
    BY <1>3
  <2> HIDE DEF d, u
  <2>2. IsExactly(IntegerPlus(low, u), b + d)
    BY <2>1, PlusExact
  <2> QED
    BY <2>2 DEF d
<1> DEFINE e == b + (a - c)
<1>5. IsExactly(t, e)
  BY <1>4
<1>6. FromThree(high, low, mid, bits) = IntegerPlus(q, r)
  BY DEF FromThree
<1> HIDE DEF e, t, u
<1>7. IsExactly(s, e * P)
  <2> HIDE DEF bits
  <2>1. IsExactly(ArithmeticShift(t, bits), e * Power(2, bits))
    BY <1>2, <1>5, LeftShiftExact
  <2> QED
    BY <1>2, <2>1
<1>8. IsExactly(q, a * (P * P))
  <2> DEFINE z == 2 * bits
  <2>1. z \in Nat /\ Power(2, z) = P * P
    BY <1>2
  <2> HIDE DEF z
  <2>2. IsExactly(ArithmeticShift(high, z), a * Power(2, z))
    BY <2>1, LeftShiftExact
  <2> QED
    BY <2>1, <2>2 DEF z
<1> DEFINE f == e * P  g == a * (P * P)
<1> HIDE DEF s, q, f, g
<1>9. IsExactly(r, f + b)
  BY <1>7, PlusExact DEF f
<1> DEFINE o == f + b
<1>10. IsExactly(r, o)
  BY <1>9
<1> HIDE DEF r, o
<1>11. IsExactly(IntegerPlus(q, r), g + o)
  BY <1>8, <1>10, PlusExact DEF g
<1> QED
  BY <1>6, <1>11 DEF g, o, f, e

(* bignum_times_bignum_karatsuba, if the products of the parts are exact.  *)
LEMMA KaratsubaExact ==
  ASSUME NEW x1, NEW y1, NEW v, NEW w, IsExactly(x1, v), IsExactly(y1, w), ~IsFix(y1),
         NEW neg \in BOOLEAN, NEW times, Multiplies(times)
  PROVE  IsExactly(Karatsuba(x1, y1, neg, times), Signed(neg, Magnitude(v) * Magnitude(w)))
<1> DEFINE n == Size(y1) \div 2  xx == IntegerAbs(x1)  yy == IntegerAbs(y1)
           vv == Magnitude(v)  ww == Magnitude(w)
           P == Power(Base, n)  xs == Split(xx, n)  ys == Split(yy, n)
           prod == ThreeProducts(xs, ys, n * DigitBits, times)
<1>1. n \in Nat
  <2>1. Len(y1.d) \in Nat
    BY ExactCases
  <2>2. \A m \in Nat : (m \div 2) \in Nat
    OBVIOUS
  <2> QED
    BY <2>1, <2>2 DEF Size
<1>2. IsExactly(xx, vv) /\ IsExactly(yy, ww) /\ vv \in Int /\ ww \in Int
  BY AbsExact
<1>3. Karatsuba(x1, y1, neg, times) = NegatedIf(neg, prod)
  BY DEF Karatsuba
<1>4. /\ xs.hi = Extract(xx, n, ToTheEnd) /\ xs.lo = Extract(xx, 0, n)
      /\ ys.hi = Extract(yy, n, ToTheEnd) /\ ys.lo = Extract(yy, 0, n)
  BY DEF Split
<1> HIDE DEF xx, yy, vv, ww, n
<1>5. AreParts(xs.hi, xs.lo, vv, n) /\ AreParts(ys.hi, ys.lo, ww, n)
  BY <1>1, <1>2, <1>4, SplitExact
<1>6. PICK h, l \in Int : IsExactly(xs.hi, h) /\ IsExactly(xs.lo, l) /\ vv = h * P + l
  BY <1>5 DEF AreParts
<1>7. PICK j, k \in Int : IsExactly(ys.hi, j) /\ IsExactly(ys.lo, k) /\ ww = j * P + k
  BY <1>5 DEF AreParts
<1> HIDE DEF xs, ys
<1> DEFINE xh == xs.hi  xl == xs.lo  yh == ys.hi  yl == ys.lo
           high == times[<<xh, yh>>]  low == times[<<xl, yl>>]
           xd == IntegerMinus(xh, xl)  yd == IntegerMinus(yh, yl)  mid == times[<<xd, yd>>]
<1>8. prod = FromThree(high, low, mid, n * DigitBits)
  BY DEF ThreeProducts
<1>20. IsExactly(xh, h) /\ IsExactly(xl, l) /\ IsExactly(yh, j) /\ IsExactly(yl, k)
  BY <1>6, <1>7
<1> HIDE DEF xh, xl, yh, yl
<1>9. IsExactly(high, h * j) /\ IsExactly(low, l * k)
  BY <1>20, MultipliesExactly
<1>10. IsExactly(xd, h - l) /\ IsExactly(yd, j - k)
  BY <1>20, MinusExact
<1> DEFINE hl == h - l  jk == j - k
<1>11. IsExactly(xd, hl) /\ IsExactly(yd, jk)
  BY <1>10
<1> HIDE DEF xd, yd, hl, jk
<1>12. IsExactly(mid, hl * jk)
  BY <1>11, MultipliesExactly
<1> DEFINE a == h * j  b == l * k  c == hl * jk
<1>13. IsExactly(high, a) /\ IsExactly(low, b) /\ IsExactly(mid, c)
  BY <1>9, <1>12
<1> HIDE DEF a, b, c, high, low, mid
<1>14. IsExactly(prod, a * (P * P) + ((b + (a - c)) * P + b))
  BY <1>1, <1>8, <1>13, FromThreeExact
<1>15. P \in Int
  BY <1>1, HalfFacts, PowerInt
<1>16. vv * ww = a * (P * P) + ((b + (a - c)) * P + b)
  <2> HIDE DEF P
  <2>1. (h * P + l) * (j * P + k)
          = (h * j) * (P * P) + ((l * k + (h * j - (h - l) * (j - k))) * P + l * k)
    BY <1>15, ThreeForFour
  <2> QED
    BY <1>6, <1>7, <2>1 DEF a, b, c, hl, jk
<1> DEFINE m == vv * ww
<1>17. IsExactly(prod, m)
  BY <1>14, <1>16
<1> HIDE DEF prod, m
<1>18. CASE neg
  <2>1. IsExactly(IntegerNegate(prod), -m)
    BY <1>17, NegateExact
  <2> QED
    BY <1>3, <1>18, <2>1 DEF NegatedIf, Signed, m, vv, ww
<1>19. CASE ~neg
  BY <1>3, <1>17, <1>19 DEF NegatedIf, Signed, m, vv, ww
<1> QED
  BY <1>18, <1>19

LEMMA MagnitudeOfSigned ==
  ASSUME NEW neg \in BOOLEAN, NEW n \in Nat PROVE Magnitude(Signed(neg, n)) = n
<1>1. CASE neg = TRUE
  BY <1>1 DEF Magnitude, Signed
<1>2. CASE neg = FALSE
  BY <1>2 DEF Magnitude, Signed
<1> QED
  BY <1>1, <1>2

LEMMA OperandMagnitude ==
  ASSUME NEW a, NEW v, IsOperand(a, v)
  PROVE  a.d \in Seq(Digit) /\ Magnitude(v) = Amount(a.d) /\ Magnitude(v) \in Nat
<1>1. a.neg \in BOOLEAN /\ a.d \in Seq(Digit) /\ v = Signed(a.neg, Amount(a.d))
  BY DEF IsOperand
<1> DEFINE neg == a.neg  d == a.d
<1> HIDE DEF neg, d
<1>2. neg \in BOOLEAN /\ d \in Seq(Digit) /\ v = Signed(neg, Amount(d))
  BY <1>1 DEF neg, d
<1>3. Amount(d) \in Nat
  BY <1>2, AmountBounds
<1>4. Magnitude(v) = Amount(d)
  BY <1>2, <1>3, MagnitudeOfSigned
<1> QED
  BY <1>2, <1>3, <1>4 DEF d

(* bignum_times_bignum_unsigned without Karatsuba's method.                *)
LEMMA ByHandExact ==
  ASSUME NEW a, NEW b, NEW v, NEW w, IsOperand(a, v), IsOperand(b, w), NEW neg \in BOOLEAN
  PROVE  IsExactly(ByHand(a, b, neg), Signed(neg, Magnitude(v) * Magnitude(w)))
<1> DEFINE d == a.d  e == b.d  m == MultiplyDigits(d, e)
<1>1. d \in Seq(Digit) /\ Magnitude(v) = Amount(d) /\ e \in Seq(Digit) /\ Magnitude(w) = Amount(e)
  BY OperandMagnitude
<1>2. ByHand(a, b, neg) = Simplify(neg, m)
  BY DEF ByHand
<1> HIDE DEF d, e
<1>3. m \in Seq(Digit) /\ Amount(m) = Amount(d) * Amount(e)
  BY <1>1, MultiplyDigitsExact
<1> HIDE DEF m
<1>4. IsExactly(Simplify(neg, m), Signed(neg, Amount(m)))
  BY <1>3, SimplifyExact
<1> QED
  BY <1>1, <1>2, <1>3, <1>4

LEMMA LongIsBig ==
  ASSUME NEW x1, NEW v, IsExactly(x1, v), Size(FixToBig(x1)) >= 2
  PROVE  ~IsFix(x1) /\ FixToBig(x1) = x1
<1>1. CASE IsFix(x1)
  <2> DEFINE none == <<>>  one == <<Magnitude(x1.n)>>  d == IF x1.n = 0 THEN none ELSE one
  <2>1. Size(FixToBig(x1)) = Len(d)
    BY <1>1 DEF FixToBig, Big, Size
  <2>2. Len(none) = 0 /\ Len(one) = 1
    OBVIOUS
  <2> HIDE DEF none, one
  <2>3. Len(d) = 0 \/ Len(d) = 1
    BY <2>2
  <2> HIDE DEF d
  <2>4. FALSE
    BY <2>1, <2>3
  <2> QED
    BY <2>4
<1>2. CASE ~IsFix(x1)
  BY <1>2 DEF FixToBig
<1> QED
  BY <1>1, <1>2

LEMMA TimesInOrderExact ==
  ASSUME NEW x1, NEW y1, NEW v, NEW w, IsExactly(x1, v), IsExactly(y1, w), NEW neg \in BOOLEAN,
         NEW room1 \in Nat, NEW times, room1 > 0 => Multiplies(times),
         Size(FixToBig(x1)) <= Size(FixToBig(y1))
  PROVE  IsExactly(TimesInOrder(FixToBig(x1), FixToBig(y1), neg, room1, times),
                   Signed(neg, Magnitude(v) * Magnitude(w)))
<1> DEFINE a == FixToBig(x1)  b == FixToBig(y1)  n == Size(a)  m == Size(b)
           result1 == TimesInOrder(a, b, neg, room1, times)
<1>1. IsOperand(a, v) /\ IsOperand(b, w)
  BY FixToBigExact
<1>2. n \in Nat /\ m \in Nat /\ n <= m
  <2>1. a.d \in Seq(Digit) /\ b.d \in Seq(Digit)
    BY <1>1, OperandMagnitude
  <2>2. Len(a.d) \in Nat /\ Len(b.d) \in Nat
    BY <2>1
  <2> QED
    BY <2>2 DEF Size
<1>3. CASE n >= KaratsubaThreshold /\ room1 > 0
  <2>1. result1 = Karatsuba(a, b, neg, times)
    BY <1>3 DEF TimesInOrder
  <2>2. n >= 2 /\ m >= 2
    BY <1>2, <1>3, KaratsubaAssumption
  <2>3. ~IsFix(x1) /\ a = x1 /\ ~IsFix(y1) /\ b = y1
    BY <2>2, LongIsBig
  <2>4. Multiplies(times)
    BY <1>3
  <2>5. IsExactly(Karatsuba(x1, y1, neg, times), Signed(neg, Magnitude(v) * Magnitude(w)))
    BY <2>3, <2>4, KaratsubaExact
  <2> QED
    BY <2>1, <2>3, <2>5
<1>4. CASE ~(n >= KaratsubaThreshold /\ room1 > 0)
  <2>1. result1 = ByHand(a, b, neg)
    BY <1>4 DEF TimesInOrder
  <2> HIDE DEF a, b, result1
  <2>2. IsExactly(result1, Signed(neg, Magnitude(v) * Magnitude(w)))
    BY <1>1, <2>1, ByHandExact
  <2> QED
    BY <2>2 DEF a, b, result1
<1> QED
  BY <1>3, <1>4

LEMMA TimesUnsignedExact ==
  ASSUME NEW x1, NEW y1, NEW v, NEW w, IsExactly(x1, v), IsExactly(y1, w), NEW neg \in BOOLEAN,
         NEW room1 \in Nat, NEW times, room1 > 0 => Multiplies(times)
  PROVE  IsExactly(TimesUnsigned(FixToBig(x1), FixToBig(y1), neg, room1, times),
                   Signed(neg, Magnitude(v) * Magnitude(w)))
<1> DEFINE a == FixToBig(x1)  b == FixToBig(y1)  n == Size(a)  m == Size(b)
           vv == Magnitude(v)  ww == Magnitude(w)
<1>1. IsOperand(a, v) /\ IsOperand(b, w)
  BY FixToBigExact
<1>2. n \in Nat /\ m \in Nat
  <2>1. a.d \in Seq(Digit) /\ b.d \in Seq(Digit)
    BY <1>1, OperandMagnitude
  <2>2. Len(a.d) \in Nat /\ Len(b.d) \in Nat
    BY <2>1
  <2> QED
    BY <2>2 DEF Size
<1>3. CASE m < n
  <2>1. TimesUnsigned(a, b, neg, room1, times) = TimesInOrder(b, a, neg, room1, times)
    BY <1>3 DEF TimesUnsigned
  <2>2. m <= n
    BY <1>2, <1>3
  <2>3. IsExactly(TimesInOrder(b, a, neg, room1, times), Signed(neg, ww * vv))
    BY <2>2, TimesInOrderExact
  <2>4. vv \in Int /\ ww \in Int
    BY <1>1, OperandMagnitude
  <2> HIDE DEF vv, ww
  <2>5. vv * ww = ww * vv
    BY <2>4
  <2> QED
    BY <2>1, <2>3, <2>5 DEF vv, ww
<1>4. CASE ~(m < n)
  <2>1. TimesUnsigned(a, b, neg, room1, times) = TimesInOrder(a, b, neg, room1, times)
    BY <1>4 DEF TimesUnsigned
  <2>2. n <= m
    BY <1>2, <1>4
  <2>3. IsExactly(TimesInOrder(a, b, neg, room1, times), Signed(neg, vv * ww))
    BY <2>2, TimesInOrderExact
  <2> QED
    BY <2>1, <2>3
<1> QED
  BY <1>3, <1>4

LEMMA TimesWithinExact ==
  ASSUME NEW x1, NEW y1, NEW v, NEW w, IsExactly(x1, v), IsExactly(y1, w),
         NEW room1 \in Nat, NEW times, room1 > 0 => Multiplies(times)
  PROVE  IsExactly(TimesWithin(x1, y1, room1, times), v * w)
<1>1. v \in Int /\ w \in Int
  BY ExactInt
<1>2. CASE IsFix(x1) /\ IsFix(y1)
  <2>1. v = x1.n /\ FitsFixnum(v) /\ w = y1.n /\ FitsFixnum(w)
    BY <1>2, ExactCases
  <2>2. TimesWithin(x1, y1, room1, times) = FixnumTimes(v, w)
    BY <1>2, <2>1 DEF TimesWithin
  <2> QED
    BY <1>1, <2>1, <2>2, FixnumTimesExact
<1>3. CASE ~(IsFix(x1) /\ IsFix(y1)) /\ IsSmall(x1)
  <2>1. v = x1.n /\ FitsFixnum(v) /\ ~IsFix(y1) /\ Small(Magnitude(v))
    BY <1>3, ExactCases DEF IsSmall
  <2>2. TimesWithin(x1, y1, room1, times) = SmallFactor(y1, v)
    BY <1>3, <2>1 DEF TimesWithin
  <2>3. IsExactly(SmallFactor(y1, v), w * v)
    BY <1>1, <2>1, SmallFactorExact
  <2>4. w * v = v * w
    BY <1>1
  <2> QED
    BY <2>2, <2>3, <2>4
<1>4. CASE ~(IsFix(x1) /\ IsFix(y1)) /\ ~IsSmall(x1) /\ IsSmall(y1)
  <2>1. w = y1.n /\ FitsFixnum(w) /\ ~IsFix(x1) /\ Small(Magnitude(w))
    BY <1>4, ExactCases DEF IsSmall
  <2>2. TimesWithin(x1, y1, room1, times) = SmallFactor(x1, w)
    BY <1>4, <2>1 DEF TimesWithin
  <2>3. IsExactly(SmallFactor(x1, w), v * w)
    BY <1>1, <2>1, SmallFactorExact
  <2> QED
    BY <2>2, <2>3
<1>5. CASE ~(IsFix(x1) /\ IsFix(y1)) /\ ~IsSmall(x1) /\ ~IsSmall(y1)
  <2> DEFINE p == Negative(x1)  q == Negative(y1)  neg == p # q  a == Magnitude(v)  b == Magnitude(w)
             t == TimesUnsigned(FixToBig(x1), FixToBig(y1), neg, room1, times)
  <2>1. TimesWithin(x1, y1, room1, times) = t
    BY <1>5 DEF TimesWithin
  <2>2. p \in BOOLEAN /\ q \in BOOLEAN /\ v = Signed(p, a) /\ w = Signed(q, b) /\ a \in Int /\ b \in Int
    BY AbsExact
  <2> HIDE DEF p, q, a, b
  <2>3. neg \in BOOLEAN
    OBVIOUS
  <2>4. Signed(p, a) * Signed(q, b) = Signed(neg, a * b)
    BY <2>2, SignedProduct
  <2> HIDE DEF neg
  <2>5. IsExactly(t, Signed(neg, a * b))
    BY <2>3, TimesUnsignedExact DEF a, b
  <2> QED
    BY <2>1, <2>2, <2>4, <2>5
<1> QED
  BY <1>2, <1>3, <1>4, <1>5

(* What Products(room) computes for one room from what it computes for     *)
(* the room before.                                                        *)
Table(room1, times) ==
  [p \in ExactInteger \X ExactInteger |-> TimesWithin(p[1], p[2], room1, times)]
Tables(f, n) ==
  f = [r \in 0 .. n |-> Table(r, IF r = 0 THEN <<>> ELSE f[r - 1])]

LEMMA TablesExist ==
  ASSUME NEW n \in Nat PROVE \E f : Tables(f, n)
<1> DEFINE none == <<>>  T == {k \in 0 .. n : \E f : Tables(f, k)}
<1>1. 0 \in T
  <2> DEFINE f0 == [r \in 0 .. 0 |-> Table(r, none)]
  <2>1. f0 = [r \in 0 .. 0 |-> Table(r, IF r = 0 THEN none ELSE f0[r - 1])]
    OBVIOUS
  <2> HIDE DEF f0
  <2>2. Tables(f0, 0)
    BY <2>1 DEF Tables
  <2> QED
    BY <2>2
<1>2. ASSUME NEW k \in 0 .. n - 1, k \in T PROVE k + 1 \in T
  <2>1. PICK f : Tables(f, k)
    BY <1>2
  <2> HIDE DEF none
  <2> DEFINE g == [i \in 0 .. k + 1 |-> IF i <= k THEN f[i] ELSE Table(k + 1, f[k])]
             h == [r \in 0 .. k + 1 |-> Table(r, IF r = 0 THEN none ELSE g[r - 1])]
  <2>2. ASSUME NEW r \in 0 .. k PROVE f[r] = Table(r, IF r = 0 THEN none ELSE f[r - 1])
    BY <2>1 DEF Tables, none
  <2>3. \A i \in 0 .. k : g[i] = f[i]
    OBVIOUS
  <2>4. g[k + 1] = Table(k + 1, f[k])
    OBVIOUS
  <2>5. DOMAIN g = 0 .. k + 1 /\ g = [i \in 0 .. k + 1 |-> g[i]]
    OBVIOUS
  <2> HIDE DEF g
  <2>6. ASSUME NEW r \in 0 .. k + 1 PROVE g[r] = Table(r, IF r = 0 THEN none ELSE g[r - 1])
    <3>1. CASE r = 0
      BY <2>2, <2>3, <3>1
    <3>2. CASE r \in 1 .. k
      <4>1. g[r] = f[r] /\ g[r - 1] = f[r - 1] /\ r # 0
        BY <2>3, <3>2
      <4>2. f[r] = Table(r, f[r - 1])
        BY <2>2, <3>2
      <4> QED
        BY <4>1, <4>2
    <3>3. CASE r = k + 1
      <4>1. g[r - 1] = f[k] /\ r # 0
        BY <2>3, <3>3
      <4> QED
        BY <2>4, <3>3, <4>1
    <3> QED
      BY <3>1, <3>2, <3>3
  <2>7. g = h
    BY <2>5, <2>6
  <2>8. Tables(g, k + 1)
    BY <2>7 DEF Tables, none
  <2> QED
    BY <2>8
<1> HIDE DEF T
<1>3. n \in T
  <2>1. \A i \in 0 .. n : i \in T
    BY <1>1, <1>2, Induction
  <2> QED
    BY <2>1
<1> QED
  BY <1>3 DEF T

LEMMA TableMultiplies ==
  ASSUME NEW room1 \in Nat, NEW times, room1 > 0 => Multiplies(times)
  PROVE  Multiplies(Table(room1, times))
<1> DEFINE t == Table(room1, times)
<1>1. ASSUME NEW a \in ExactInteger, NEW b \in ExactInteger, NEW v \in Int, NEW w \in Int,
             IsExactly(a, v), IsExactly(b, w)
      PROVE  IsExactly(t[<<a, b>>], v * w)
  <2>1. t[<<a, b>>] = TimesWithin(a, b, room1, times)
    <3> DEFINE p == <<a, b>>
    <3>1. p \in ExactInteger \X ExactInteger /\ p[1] = a /\ p[2] = b
      OBVIOUS
    <3> HIDE DEF p
    <3>2. t[p] = TimesWithin(p[1], p[2], room1, times)
      BY <3>1 DEF Table
    <3> QED
      BY <3>1, <3>2 DEF p
  <2>2. IsExactly(TimesWithin(a, b, room1, times), v * w)
    BY <1>1, TimesWithinExact
  <2> QED
    BY <2>1, <2>2
<1> HIDE DEF t
<1>2. Multiplies(t)
  BY <1>1 DEF Multiplies
<1> QED
  BY <1>2 DEF t

LEMMA ProductsMultiply ==
  ASSUME NEW room1 \in Nat PROVE Multiplies(Products(room1))
<1> DEFINE q == CHOOSE f : Tables(f, room1)  T == {i \in 0 .. room1 : Multiplies(q[i])}
<1>1. Products(room1) = q[room1]
  BY DEF Products, Tables, Table
<1>2. Tables(q, room1)
  BY TablesExist
<1> HIDE DEF q
<1>3. ASSUME NEW r \in 0 .. room1 PROVE q[r] = Table(r, IF r = 0 THEN <<>> ELSE q[r - 1])
  BY <1>2 DEF Tables
<1>4. 0 \in T
  <2> DEFINE none == <<>>
  <2>1. q[0] = Table(0, none)
    BY <1>3
  <2> HIDE DEF none
  <2>2. 0 \in Nat /\ ~(0 > 0)
    OBVIOUS
  <2>3. Multiplies(Table(0, none))
    BY <2>2, TableMultiplies
  <2> QED
    BY <2>1, <2>3
<1>5. ASSUME NEW k \in 0 .. room1 - 1, k \in T PROVE k + 1 \in T
  <2> DEFINE r == k + 1
  <2>1. r \in 0 .. room1 /\ r \in Nat /\ r # 0 /\ r - 1 = k
    OBVIOUS
  <2> HIDE DEF r
  <2>2. q[r] = Table(r, q[k])
    BY <1>3, <2>1
  <2>3. Multiplies(q[k])
    BY <1>5
  <2>4. Multiplies(Table(r, q[k]))
    BY <2>1, <2>3, TableMultiplies
  <2>5. r \in T
    BY <2>1, <2>2, <2>4
  <2> QED
    BY <2>5 DEF r
<1> HIDE DEF T
<1>6. room1 \in T
  <2>1. \A i \in 0 .. room1 : i \in T
    BY <1>4, <1>5, Induction
  <2> QED
    BY <2>1
<1> QED
  BY <1>1, <1>6 DEF T

(* integer-times is exact, by whatever method and with whatever room on    *)
(* the C stack: C_s_a_u_i_integer_times.                                   *)
THEOREM TimesExact ==
  ASSUME NEW x1, NEW y1, NEW v, NEW w, IsExactly(x1, v), IsExactly(y1, w), NEW room1 \in Nat
  PROVE  IsExactly(IntegerTimes(x1, y1, room1), v * w)
<1> DEFINE times == Products(room1)
<1>1. Multiplies(times)
  BY ProductsMultiply
<1>2. IntegerTimes(x1, y1, room1) = times[<<x1, y1>>]
  BY DEF IntegerTimes
<1> HIDE DEF times
<1> QED
  BY <1>1, <1>2, MultipliesExactly

(* Loops from the most significant digit down: c[i] is the carry that      *)
(* comes to digit i from above.                                            *)
IsLoopDown(out, c, step, carry, d, E, C) ==
  /\ out \in Seq(E) /\ Len(out) = Len(d)
  /\ c \in [0 .. Len(d) -> C] /\ c[Len(d)] = carry
  /\ \A i \in 1 .. Len(d) : out[i] = step[d[i]][c[i]][1] /\ c[i - 1] = step[d[i]][c[i]][2]
LoopsDown(r, step, carry, d, E, C) ==
  \E c : IsLoopDown(r[1], c, step, carry, d, E, C) /\ r[2] = c[0]

LEMMA ReverseParts ==
  ASSUME NEW D, NEW d \in Seq(D)
  PROVE  /\ Reverse(d) \in Seq(D) /\ Len(Reverse(d)) = Len(d)
         /\ \A i \in 1 .. Len(d) : Reverse(d)[i] = d[(Len(d) - i) + 1]
<1> DEFINE n == Len(d)  r == Reverse(d)
<1>1. n \in Nat /\ \A i \in 1 .. n : d[i] \in D
  OBVIOUS
<1>2. r = [i \in 1 .. n |-> d[(n - i) + 1]]
  BY DEF Reverse
<1> HIDE DEF n, r
<1>3. \A i \in 1 .. n : (n - i) + 1 \in 1 .. n
  BY <1>1
<1>4. (\A i \in 1 .. n : r[i] = d[(n - i) + 1]) /\ r \in [1 .. n -> D]
  BY <1>1, <1>2, <1>3
<1>5. r \in Seq(D) /\ Len(r) = n
  BY <1>1, <1>4
<1> QED
  BY <1>4, <1>5 DEF n, r

LEMMA DownwardIsLoop ==
  ASSUME NEW D, NEW C, NEW E, NEW d \in Seq(D), NEW carry \in C, NEW step,
         \A x1 \in D, c \in C : step[x1][c][1] \in E /\ step[x1][c][2] \in C
  PROVE  LoopsDown(Downward(step, carry, d), step, carry, d, E, C)
<1> DEFINE n == Len(d)  e == Reverse(d)  r == Upward(step, carry, e)  out == Reverse(r[1])
           s == Downward(step, carry, d)
<1>1. n \in Nat /\ \A i \in 1 .. n : d[i] \in D
  OBVIOUS
<1>2. e \in Seq(D) /\ Len(e) = n /\ \A i \in 1 .. n : e[i] = d[(n - i) + 1]
  BY ReverseParts
<1>3. s = <<out, r[2]>>
  BY DEF Downward
<1> HIDE DEF e
<1>4. Loops(Upward(step, carry, e), step, carry, e, E, C)
  BY <1>2, UpwardIsLoop
<1> HIDE DEF r
<1>5. PICK c : IsLoop(r[1], c, step, carry, e, E, C) /\ r[2] = c[Len(e)]
  BY <1>4 DEF Loops, r
<1> HIDE DEF n
<1>6. /\ r[1] \in Seq(E) /\ Len(r[1]) = n /\ c \in [0 .. n -> C] /\ c[0] = carry /\ r[2] = c[n]
      /\ \A i \in 1 .. n : r[1][i] = step[e[i]][c[i - 1]][1] /\ c[i] = step[e[i]][c[i - 1]][2]
  BY <1>2, <1>5 DEF IsLoop
<1> DEFINE o == r[1]
<1>7. out \in Seq(E) /\ Len(out) = n /\ \A i \in 1 .. n : out[i] = o[(n - i) + 1]
  <2> HIDE DEF o
  <2>1. o \in Seq(E) /\ Len(o) = n
    BY <1>6 DEF o
  <2>2. Reverse(o) \in Seq(E) /\ Len(Reverse(o)) = Len(o)
        /\ \A i \in 1 .. Len(o) : Reverse(o)[i] = o[(Len(o) - i) + 1]
    BY <2>1, ReverseParts
  <2> QED
    BY <2>1, <2>2 DEF o
<1> HIDE DEF out
<1> DEFINE k == [i \in 0 .. n |-> c[n - i]]
<1>8. (\A i \in 0 .. n : k[i] = c[n - i]) /\ k \in [0 .. n -> C]
  <2>1. \A i \in 0 .. n : n - i \in 0 .. n
    BY <1>1
  <2> QED
    BY <1>6, <2>1
<1> HIDE DEF k
<1>9. k[n] = carry /\ k[0] = r[2]
  <2>1. n - n = 0 /\ n - 0 = n /\ 0 \in 0 .. n /\ n \in 0 .. n
    BY <1>1
  <2> QED
    BY <1>6, <1>8, <2>1
<1>10. ASSUME NEW i \in 1 .. n
       PROVE  out[i] = step[d[i]][k[i]][1] /\ k[i - 1] = step[d[i]][k[i]][2]
  <2> DEFINE j == (n - i) + 1
  <2>1. /\ j \in 1 .. n /\ j - 1 = n - i /\ n - (i - 1) = j
        /\ (n - j) + 1 = i /\ i \in 0 .. n /\ i - 1 \in 0 .. n
    BY <1>1
  <2>2. out[i] = o[j]
    BY <1>7
  <2> HIDE DEF j
  <2>3. e[j] = d[i]
    BY <1>2, <2>1
  <2>4. k[i] = c[j - 1] /\ k[i - 1] = c[j]
    BY <1>8, <2>1
  <2>5. o[j] = step[e[j]][c[j - 1]][1] /\ c[j] = step[e[j]][c[j - 1]][2]
    BY <1>6, <2>1
  <2> QED
    BY <2>2, <2>3, <2>4, <2>5
<1>11. IsLoopDown(out, k, step, carry, d, E, C)
  BY <1>7, <1>8, <1>9, <1>10 DEF IsLoopDown, n
<1> HIDE DEF s
<1>12. s[1] = out /\ s[2] = k[0]
  BY <1>3, <1>9
<1>13. LoopsDown(s, step, carry, d, E, C)
  BY <1>11, <1>12 DEF LoopsDown
<1> QED
  BY <1>13 DEF s

(* A step that divides f times its digit, under the carry, by g.           *)
Divides(r, f, g, x1, c, C) ==
  r[1] \in Digit /\ r[2] \in C /\ g * r[1] + r[2] = f * x1 + Base * c
IsDivided(r, d, f, g, carry, C) ==
  /\ r[1] \in Seq(Digit) /\ Len(r[1]) = Len(d) /\ r[2] \in C
  /\ g * Amount(r[1]) + r[2] = f * Amount(d) + carry * Power(Base, Len(d))

LEMMA DividingLoop ==
  ASSUME NEW d \in Seq(Digit), NEW f \in Int, NEW g \in Int, NEW C, C \subseteq Int,
         NEW carry \in C, NEW step,
         \A x1 \in Digit, c \in C : Divides(step[x1][c], f, g, x1, c, C)
  PROVE  IsDivided(Downward(step, carry, d), d, f, g, carry, C)
<1> DEFINE r == Downward(step, carry, d)  n == Len(d)  e == r[1]
           s == [i \in 1 .. n |-> f * d[i]]  t == [i \in 1 .. n |-> g * e[i]]
           z == [i \in 1 .. n |-> 0]
<1>3. \A x1 \in Digit, c \in C : step[x1][c][1] \in Digit /\ step[x1][c][2] \in C
  BY DEF Divides
<1>4. LoopsDown(Downward(step, carry, d), step, carry, d, Digit, C)
  BY <1>3, DownwardIsLoop
<1> HIDE DEF r
<1>5. LoopsDown(r, step, carry, d, Digit, C)
  BY <1>4 DEF r
<1>6. PICK c : IsLoopDown(r[1], c, step, carry, d, Digit, C) /\ r[2] = c[0]
  BY <1>5 DEF LoopsDown
<1>7. /\ e \in Seq(Digit) /\ Len(e) = n /\ c \in [0 .. n -> C] /\ c[n] = carry
      /\ \A i \in 1 .. n : e[i] = step[d[i]][c[i]][1] /\ c[i - 1] = step[d[i]][c[i]][2]
  BY <1>6 DEF IsLoopDown
<1>8. n \in Nat /\ \A i \in 1 .. n : d[i] \in Digit /\ d[i] \in Int
  BY DigitSequence
<1>9. Base \in Int /\ f \in Int /\ g \in Int /\ carry \in Int /\ C \subseteq Int
  BY HalfFacts
<1> HIDE DEF e
<1>10. \A i \in 1 .. n : e[i] \in Digit /\ e[i] \in Int
  BY <1>7, DigitSequence
<1>11. \A i \in 0 .. n : c[i] \in C /\ c[i] \in Int
  BY <1>7, <1>9
<1> HIDE DEF n
<1>12. ASSUME NEW i \in 1 .. n PROVE s[i] + Base * c[i] = t[i] + c[i - 1]
  <2>1. i \in 0 .. n /\ d[i] \in Digit /\ c[i] \in C
    BY <1>8, <1>11
  <2>2. Divides(step[d[i]][c[i]], f, g, d[i], c[i], C)
    BY <2>1
  <2> QED
    BY <2>2, <1>7 DEF Divides
<1>13. \A i \in 1 .. n : s[i] \in Int /\ z[i] \in Int /\ s[i] = z[i] + f * d[i]
  BY <1>8, <1>9
<1>14. \A i \in 1 .. n : t[i] \in Int /\ t[i] = z[i] + g * e[i]
  BY <1>9, <1>10
<1>15. \A i \in 1 .. n : z[i] = 0
  OBVIOUS
<1> HIDE DEF s, t, z
<1>16. SameValue(Base, n, t, s, c)
  <2>1. \A i \in 1 .. n : t[i] \in Int /\ s[i] \in Int
    BY <1>13, <1>14
  <2> QED
    BY <2>1, <1>8, <1>9, <1>11, <1>12, LoopKeepsValue
<1>17. IsLinear(Base, s, z, f, d, n)
  BY <1>8, <1>9, <1>13, ValueLinear
<1>18. IsLinear(Base, t, z, g, e, n)
  <2>1. \A i \in 1 .. n : z[i] \in Int /\ e[i] \in Int /\ t[i] = z[i] + g * e[i]
    BY <1>10, <1>13, <1>14
  <2> QED
    BY <2>1, <1>8, <1>9, ValueLinear
<1>19. DigitsValue(Base, z, n) = 0
  BY <1>8, <1>9, <1>15, ValueOfZeros
<1>20. DigitsValue(Base, s, n) + c[n] * Power(Base, n) = DigitsValue(Base, t, n) + c[0]
  BY <1>16, <1>8 DEF SameValue
<1>21. DigitsValue(Base, d, n) \in Int /\ DigitsValue(Base, e, n) \in Int
  BY <1>8, <1>9, <1>10, ValueInt
<1>22. DigitsValue(Base, s, n) = f * DigitsValue(Base, d, n)
  BY <1>17, <1>19, <1>21, <1>9 DEF IsLinear
<1>23. DigitsValue(Base, t, n) = g * DigitsValue(Base, e, n)
  BY <1>18, <1>19, <1>21, <1>9 DEF IsLinear
<1>24. r[2] = c[0] /\ r[2] \in C
  BY <1>6, <1>8, <1>11
<1>25. g * Amount(e) + r[2] = f * Amount(d) + carry * Power(Base, n)
  BY <1>7, <1>20, <1>22, <1>23, <1>24 DEF Amount, n
<1> QED
  BY <1>7, <1>24, <1>25 DEF IsDivided, r, n, e

(* bignum_digits_destructive_shift_right: one digit.  A carry has its      *)
(* bits at the top of the word.                                            *)
RightStep(left, right) ==
  [x1 \in Digit |-> [c \in Digit |-> <<(x1 \div right) + c, (x1 * left) % Base>>]]
TopBits(left, right) == {k * left : k \in 0 .. right - 1}

LEMMA TopBitsFit ==
  ASSUME NEW left \in Int, left > 0, NEW right \in Int, right > 0, left * right = Base,
         NEW k \in 0 .. right - 1
  PROVE  k * left \in Int /\ 0 <= k * left /\ k * left <= Base - left /\ k * left \in TopBits(left, right)
<1>1. k \in Int /\ 0 <= k /\ k <= right - 1
  OBVIOUS
<1>2. k * left <= (right - 1) * left /\ 0 * left <= k * left /\ k * left \in Int
  BY <1>1, Monotone, Distribute
<1>3. (right - 1) * left = right * left - 1 * left /\ right * left = left * right
  BY Distribute
<1> DEFINE w == k * left  t == (right - 1) * left
<1>4. w \in Int /\ 0 <= w /\ w <= t /\ t = Base - left
  BY <1>2, <1>3
<1>5. w \in TopBits(left, right)
  BY DEF TopBits
<1> HIDE DEF w, t
<1>6. w <= Base - left
  BY <1>4
<1> QED
  BY <1>4, <1>5, <1>6 DEF w

LEMMA RightStepParts ==
  ASSUME NEW left \in Int, left > 0, NEW right \in Int, right > 0, left * right = Base,
         NEW x1 \in Digit, NEW c \in TopBits(left, right)
  PROVE  Divides(RightStep(left, right)[x1][c], left, Base, x1, c, TopBits(left, right))
<1> DEFINE u == x1 \div right  v == x1 % right  w == v * left  p == x1 * left
<1>0. x1 \in Int /\ 0 <= x1 /\ x1 < Base /\ Base \in Int /\ Base > 0
  BY HalfFacts DEF Digit
<1>1. u \in Int /\ v \in 0 .. right - 1 /\ x1 = right * u + v
  BY <1>0, DivMod
<1>2. right * left = Base /\ x1 < right * left
  BY <1>0, Distribute
<1>3. u \in 0 .. left - 1
  BY <1>0, <1>2, DivBounds
<1>4. PICK k \in 0 .. right - 1 : c = k * left
  BY DEF TopBits
<1>5. c \in Int /\ 0 <= c /\ c <= Base - left
  BY <1>4, TopBitsFit
<1> HIDE DEF u, v
<1>6. v \in Int /\ w \in Int /\ 0 <= w /\ w <= Base - left /\ w \in TopBits(left, right)
  BY <1>1, TopBitsFit
<1>7. p = Base * u + w
  <2>1. p = (right * u + v) * left
    BY <1>1
  <2>2. (right * u + v) * left = (right * left) * u + v * left
    BY <1>1, <1>6
  <2> QED
    BY <2>1, <2>2, <1>2
<1>8. p \in Int
  BY <1>0, Distribute
<1> HIDE DEF p, w
<1>9. w \in 0 .. Base - 1
  BY <1>0, <1>6
<1>10. p % Base = w
  BY <1>0, <1>1, <1>7, <1>8, <1>9, DivUnique
<1>11. c \in Digit /\ u + c \in Digit
  BY <1>0, <1>3, <1>5 DEF Digit
<1>12. RightStep(left, right)[x1][c] = <<u + c, w>>
  BY <1>10, <1>11 DEF RightStep, p, u
<1>13. Base * (u + c) + w = left * x1 + Base * c
  <2> DEFINE a == Base * u  b == Base * c
  <2>1. Base * (u + c) = a + b /\ a \in Int /\ b \in Int
    BY <1>0, <1>1, <1>5, Distribute
  <2>2. left * x1 = a + w
    BY <1>0, <1>7, Distribute DEF p
  <2> DEFINE e == Base * (u + c)  f == left * x1
  <2>3. e = a + b /\ f = a + w /\ a \in Int /\ b \in Int
    BY <2>1, <2>2
  <2> HIDE DEF a, b, e, f
  <2>4. e + w = f + b
    BY <2>3, <1>6
  <2> QED
    BY <2>4 DEF e, f, b
<1> QED
  BY <1>6, <1>11, <1>12, <1>13 DEF Divides

(* d divided by m, under k.                                                *)
IsQuotient(r, d, m, k) ==
  /\ r[1] \in Seq(Digit) /\ Len(r[1]) = Len(d) /\ r[2] \in 0 .. m - 1
  /\ m * Amount(r[1]) + r[2] = Amount(d) + k * Power(Base, Len(d))

(* bignum_digits_destructive_shift_right: with zeros or with ones above.   *)
LEMMA ShiftRightExact ==
  ASSUME NEW d \in Seq(Digit), NEW s \in 0 .. DigitBits, NEW neg \in BOOLEAN
  PROVE  IsQuotient(ShiftRight(d, s, neg), d, Power(2, s), IF neg THEN Power(2, s) - 1 ELSE 0)
<1> DEFINE right == Power(2, s)  left == Power(2, DigitBits - s)  step == RightStep(left, right)
           C == TopBits(left, right)  k == IF neg THEN right - 1 ELSE 0
           carry == IF neg THEN Base - left ELSE 0
           q == Downward(step, carry, d)
<1>1. left \in Int /\ left > 0 /\ right \in Int /\ right > 0 /\ right * left = Base /\ Base \in Int
  BY WordSplit, HalfFacts
<1>2. ShiftRight(d, s, neg) = <<q[1], q[2] \div left>>
  BY TwoToIs DEF ShiftRight, RightStep
<1> HIDE DEF left, right
<1>3. left * right = Base
  BY <1>1, Distribute
<1>4. \A x1 \in Digit, c \in C : Divides(step[x1][c], left, Base, x1, c, C)
  BY <1>1, <1>3, RightStepParts
<1>5. k \in 0 .. right - 1 /\ k \in Int
  BY <1>1
<1>6. carry = k * left
  <2>1. CASE neg
    <3>1. (right - 1) * left = right * left - 1 * left
      BY <1>1, Distribute
    <3> QED
      BY <1>1, <2>1, <3>1
  <2>2. CASE ~neg
    <3>1. 0 * left = 0
      BY <1>1
    <3> QED
      BY <2>2, <3>1
  <2> QED
    BY <2>1, <2>2
<1> HIDE DEF k
<1>7. carry \in C /\ carry \in Int
  <2>1. k * left \in TopBits(left, right) /\ k * left \in Int
    BY <1>1, <1>3, <1>5, TopBitsFit
  <2> QED
    BY <1>6, <2>1
<1>8. C \subseteq Int
  <2> SUFFICES ASSUME NEW c \in C PROVE c \in Int
    OBVIOUS
  <2>1. PICK j \in 0 .. right - 1 : c = j * left
    BY DEF TopBits
  <2> QED
    BY <1>1, <2>1
<1> HIDE DEF step, C, carry, q
<1>9. IsDivided(Downward(step, carry, d), d, left, Base, carry, C)
  BY <1>1, <1>4, <1>7, <1>8, DividingLoop
<1> DEFINE out == q[1]  c == q[2]  a == Amount(d)  o == Amount(out)  p == Power(Base, Len(d))
<1>10. out \in Seq(Digit) /\ Len(out) = Len(d) /\ c \in C /\ Base * o + c = left * a + carry * p
  BY <1>9 DEF IsDivided, q
<1>11. PICK j \in 0 .. right - 1 : c = j * left
  BY <1>10 DEF C, TopBits
<1>12. j \in Int /\ k \in Int
  BY <1>1, <1>5, <1>11
<1>13. a \in Int /\ p \in Int
  BY AmountBounds
<1>14. o \in Int
  <2> HIDE DEF out
  <2> QED
    BY <1>10, AmountBounds
<1> HIDE DEF out, a, o, p, c
<1>15. c \div left = j
  <2>1. c = left * j + 0 /\ c \in Int /\ 0 \in 0 .. left - 1
    BY <1>1, <1>11, <1>12
  <2> QED
    BY <1>1, <1>12, <2>1, DivUnique
<1>16. right * o + j = a + k * p
  <2> DEFINE f == right * o + j  g == a + k * p
  <2>1. f \in Int /\ g \in Int
    BY <1>1, <1>12, <1>13, <1>14
  <2>2. left * f = Base * o + c
    <3>1. left * (right * o + j) = (left * right) * o + j * left
      BY <1>1, <1>12, <1>14
    <3> QED
      BY <1>3, <1>11, <3>1
  <2>3. left * g = left * a + carry * p
    <3>1. left * (a + k * p) = left * a + (k * left) * p
      BY <1>1, <1>12, <1>13
    <3> QED
      BY <1>6, <3>1
  <2>4. left * f = left * g
    BY <1>10, <2>2, <2>3
  <2> HIDE DEF f, g
  <2>5. ~(f < g)
    <3> SUFFICES ASSUME f < g PROVE FALSE
      OBVIOUS
    <3>1. f * left < g * left /\ f * left = left * f /\ g * left = left * g
      BY <1>1, <2>1, StrictlyMonotone, Distribute
    <3> DEFINE t == left * f
    <3>2. t \in Int /\ t < t
      BY <1>1, <2>1, <2>4, <3>1, Distribute
    <3> HIDE DEF t
    <3> QED
      BY <3>2
  <2>6. ~(g < f)
    <3> SUFFICES ASSUME g < f PROVE FALSE
      OBVIOUS
    <3>1. g * left < f * left /\ f * left = left * f /\ g * left = left * g
      BY <1>1, <2>1, StrictlyMonotone, Distribute
    <3> DEFINE t == left * f
    <3>2. t \in Int /\ t < t
      BY <1>1, <2>1, <2>4, <3>1, Distribute
    <3> HIDE DEF t
    <3> QED
      BY <3>2
  <2>7. f = g
    BY <2>1, <2>5, <2>6
  <2> QED
    BY <2>7 DEF f, g
<1> DEFINE r == ShiftRight(d, s, neg)
<1>17. r[1] = out /\ r[2] = j
  BY <1>2, <1>15 DEF out, c
<1> HIDE DEF r
<1>18. IsQuotient(r, d, right, k)
  BY <1>10, <1>11, <1>16, <1>17 DEF IsQuotient, o, a, p
<1> QED
  BY <1>18 DEF r, right, k

(* bignum_digits_destructive_scale_down: one digit.                        *)
DownStep(denominator) ==
  [x1 \in Digit |-> [k \in HalfDigit |->
     LET h == Combine(k, Hi(x1))
         l == Combine(h % denominator, Lo(x1))
     IN <<Combine(h \div denominator, l \div denominator), l % denominator>>]]

(* A remainder and the next half digit, divided.                           *)
LEMMA HalfQuotient ==
  ASSUME NEW m \in HalfDigit, m > 0, NEW k \in 0 .. m - 1, NEW x1 \in HalfDigit
  PROVE  /\ Combine(k, x1) \div m \in HalfDigit /\ Combine(k, x1) % m \in 0 .. m - 1
         /\ Half * k + x1 = m * (Combine(k, x1) \div m) + (Combine(k, x1) % m)
<1> DEFINE n == Combine(k, x1)
<1>1. /\ m \in Int /\ m < Half /\ k \in Int /\ 0 <= k /\ k <= m - 1
      /\ x1 \in Int /\ 0 <= x1 /\ x1 < Half /\ Half \in Int
  BY HalfFacts DEF HalfDigit
<1>2. n = k * Half + x1 /\ k * Half = Half * k
  BY <1>1, Distribute DEF Combine
<1>3. k * Half <= (m - 1) * Half /\ 0 * Half <= k * Half /\ (m - 1) * Half = m * Half - 1 * Half
  BY <1>1, Monotone, Distribute
<1> DEFINE p == k * Half  q == m * Half  t == (m - 1) * Half
<1>4. p \in Int /\ q \in Int /\ 0 <= p /\ p <= t /\ t = q - Half /\ n = p + x1
  BY <1>1, <1>2, <1>3
<1>5. n \in Int /\ 0 <= n /\ n < q
  <2> HIDE DEF p, q, t, n
  <2> QED
    BY <1>1, <1>4
<1> HIDE DEF n
<1>6. n \div m \in 0 .. Half - 1
  <2>1. n < m * Half
    BY <1>5
  <2> QED
    BY <1>1, <1>5, <2>1, DivBounds
<1>7. n % m \in 0 .. m - 1 /\ n = m * (n \div m) + (n % m)
  BY <1>1, <1>5, DivMod
<1>8. Half * k + x1 = n
  BY <1>2
<1> QED
  BY <1>6, <1>7, <1>8 DEF n, HalfDigit

LEMMA DownStepParts ==
  ASSUME NEW m \in HalfDigit, m > 0, NEW x1 \in Digit, NEW k \in 0 .. m - 1
  PROVE  Divides(DownStep(m)[x1][k], 1, m, x1, k, 0 .. m - 1)
<1> DEFINE xh == Hi(x1)  xl == Lo(x1)  h == Combine(k, xh)  hq == h \div m  hr == h % m
           l == Combine(hr, xl)  lq == l \div m  lr == l % m
<1>0. m \in Int /\ k \in Int /\ Half \in Int /\ Base = Half * Half /\ k \in HalfDigit
  BY HalfFacts DEF HalfDigit
<1>1. xh \in HalfDigit /\ xl \in HalfDigit /\ x1 = Half * xh + xl /\ xh \in Int /\ xl \in Int
  BY DigitHalves
<1> HIDE DEF xh, xl
<1>2. hq \in HalfDigit /\ hr \in 0 .. m - 1 /\ Half * k + xh = m * hq + hr
  BY <1>1, HalfQuotient
<1> HIDE DEF hq, hr
<1>3. lq \in HalfDigit /\ lr \in 0 .. m - 1 /\ Half * hr + xl = m * lq + lr
  BY <1>1, <1>2, HalfQuotient
<1> HIDE DEF lq, lr
<1>4. hq \in Int /\ hr \in Int /\ lq \in Int /\ lr \in Int
  BY <1>0, <1>2, <1>3, HalfFacts
<1>5. Combine(hq, lq) \in Digit /\ Combine(hq, lq) = hq * Half + lq
  BY <1>2, <1>3, CombineHalves DEF Combine
<1>6. DownStep(m)[x1][k] = <<Combine(hq, lq), lr>>
  BY <1>0 DEF DownStep, xh, xl, hq, hr, lq, lr
<1>7. m * (hq * Half + lq) + lr = x1 + Base * k
  <2>1. m * (hq * Half + lq) + lr = Half * (m * hq) + (m * lq + lr)
    BY <1>0, <1>4
  <2>2. m * hq = Half * k + xh - hr
    BY <1>0, <1>1, <1>2, <1>4
  <2>3. Half * (Half * k + xh - hr) + (Half * hr + xl) = Base * k + (Half * xh + xl)
    BY <1>0, <1>1, <1>4
  <2> QED
    BY <1>0, <1>1, <1>3, <2>1, <2>2, <2>3
<1> DEFINE c == Combine(hq, lq)
<1>8. m * c + lr = 1 * x1 + Base * k
  <2>1. 1 * x1 = x1
    BY <1>0, <1>1
  <2> QED
    BY <1>5, <1>7, <2>1
<1> HIDE DEF c
<1> QED
  BY <1>3, <1>5, <1>6, <1>8 DEF Divides, c

LEMMA ScaleDownExact ==
  ASSUME NEW d \in Seq(Digit), NEW m \in HalfDigit, m > 0
  PROVE  IsQuotient(ScaleDown(d, m), d, m, 0)
<1> DEFINE step == DownStep(m)  C == 0 .. m - 1  r == Downward(step, 0, d)  f == 1
<1>1. ScaleDown(d, m) = r
  BY DEF ScaleDown, DownStep
<1>2. \A x1 \in Digit, c \in C : Divides(step[x1][c], f, m, x1, c, C)
  BY DownStepParts
<1>3. m \in Int /\ f \in Int /\ C \subseteq Int /\ 0 \in C
  BY HalfFacts
<1> HIDE DEF step, C, f
<1>4. IsDivided(Downward(step, 0, d), d, f, m, 0, C)
  BY <1>2, <1>3, DividingLoop
<1> HIDE DEF r
<1> DEFINE a == Amount(d)  p == Power(Base, Len(d))  o == Amount(r[1])
<1>5. r[1] \in Seq(Digit) /\ Len(r[1]) = Len(d) /\ r[2] \in C /\ m * o + r[2] = f * a + 0 * p
  BY <1>4 DEF IsDivided, r
<1>6. a \in Int /\ p \in Int
  BY AmountBounds
<1>7. f * a + 0 * p = a + 0 * p
  <2> HIDE DEF a, p
  <2>1. 1 * a = a
    BY <1>6
  <2>2. f * a = a
    BY <2>1 DEF f
  <2> QED
    BY <2>2
<1> QED
  BY <1>1, <1>5, <1>7 DEF IsQuotient, C

(* bignum_digits_destructive_negate: one digit.                            *)
NegateStep ==
  [x1 \in Digit |-> [c \in 0 .. 1 |->
     LET s == (Base - 1 - x1 + c) % Base
     IN <<s, IF c = 1 /\ s = 0 THEN 1 ELSE 0>>]]
Negates(r, x1, c) ==
  r[1] \in Digit /\ r[2] \in 0 .. 1 /\ r[1] + Base * r[2] = (Base - 1 - x1) + c

LEMMA NegateStepParts ==
  ASSUME NEW x1 \in Digit, NEW c \in 0 .. 1
  PROVE  Negates(NegateStep[x1][c], x1, c)
<1> DEFINE t == Base - 1 - x1 + c  s == t % Base  k == IF c = 1 /\ s = 0 THEN 1 ELSE 0
<1>0. x1 \in Int /\ 0 <= x1 /\ x1 < Base /\ Base \in Int /\ Base > 0 /\ c \in Int /\ Base >= 16
  BY HalfFacts DEF Digit
<1>1. t \in Int /\ 0 <= t /\ t <= Base /\ t = (Base - 1 - x1) + c
  BY <1>0
<1>2. NegateStep[x1][c] = <<s, k>>
  BY DEF NegateStep
<1>3. CASE t < Base
  <2> HIDE DEF t
  <2> DEFINE zero == Base * 0
  <2>1. zero \in Int /\ zero = 0
    BY <1>0
  <2>2. s = t
    <3>1. t \in 0 .. Base - 1 /\ 0 \in Int /\ t = Base * 0 + t
      BY <1>0, <1>1, <1>3
    <3> QED
      BY <1>0, <1>1, <3>1, DivUnique
  <2> HIDE DEF s
  <2>3. k = 0
    BY <1>0, <1>1, <1>3, <2>2
  <2>4. s \in Digit
    BY <1>0, <1>1, <1>3, <2>2 DEF Digit
  <2>5. s + Base * k = (Base - 1 - x1) + c
    <3>1. Base * k = 0
      BY <2>1, <2>3
    <3> QED
      BY <1>1, <2>2, <3>1
  <2> HIDE DEF k
  <2>6. k \in 0 .. 1
    BY <2>3
  <2> QED
    BY <1>2, <2>4, <2>5, <2>6 DEF Negates
<1>4. CASE t = Base
  <2>1. c = 1
    BY <1>0, <1>4
  <2> HIDE DEF t
  <2>2. s = 0
    <3>1. 0 \in 0 .. Base - 1 /\ 1 \in Int /\ t = Base * 1 + 0
      BY <1>0, <1>4
    <3> QED
      BY <1>0, <1>1, <3>1, DivUnique
  <2> HIDE DEF s
  <2>3. k = 1
    BY <2>1, <2>2
  <2>4. s \in Digit
    BY <2>2, DigitsAreInt
  <2>5. s + Base * k = (Base - 1 - x1) + c
    <3>1. Base * k = Base
      BY <1>0, <2>3
    <3> QED
      BY <1>0, <1>1, <1>4, <2>2, <3>1
  <2> HIDE DEF k
  <2>6. k \in 0 .. 1
    BY <2>3
  <2> QED
    BY <1>2, <2>4, <2>5, <2>6 DEF Negates
<1> QED
  BY <1>0, <1>1, <1>3, <1>4

(* All the largest digits stand for one less than a power.                 *)
LEMMA LargestDigits ==
  ASSUME NEW n \in Nat, NEW m, \A i \in 1 .. n : m[i] = Base - 1
  PROVE  DigitsValue(Base, m, n) = Power(Base, n) - 1
<1> DEFINE z == [i \in 1 .. n |-> 0]  c == [i \in 0 .. n |-> 1]
<1>1. Base \in Int
  BY HalfFacts
<1>2. \A i \in 1 .. n : m[i] \in Int /\ z[i] \in Int /\ z[i] = 0
  BY <1>1
<1>3. \A i \in 0 .. n : c[i] \in Int /\ c[i] = 1
  OBVIOUS
<1> HIDE DEF z, c
<1>4. ASSUME NEW i \in 1 .. n PROVE z[i] + Base * c[i] = m[i] + c[i - 1]
  <2>1. i \in 0 .. n /\ i - 1 \in 0 .. n
    OBVIOUS
  <2>2. c[i] = 1 /\ c[i - 1] = 1 /\ z[i] = 0 /\ m[i] = Base - 1
    BY <1>2, <1>3, <2>1
  <2>3. Base * c[i] = Base
    BY <1>1, <2>2
  <2> QED
    BY <1>1, <2>2, <2>3
<1>5. SameValue(Base, n, m, z, c)
  <2>1. \A i \in 0 .. n : c[i] \in Int
    BY <1>3
  <2> QED
    BY <1>1, <1>2, <1>4, <2>1, LoopKeepsValue
<1>6. DigitsValue(Base, z, n) + c[n] * Power(Base, n) = DigitsValue(Base, m, n) + c[0]
  BY <1>5 DEF SameValue
<1>7. DigitsValue(Base, z, n) = 0
  BY <1>1, <1>2, ValueOfZeros
<1>8. DigitsValue(Base, m, n) \in Int /\ Power(Base, n) \in Int
  <2>1. DigitsValue(Base, m, n) \in Int
    BY <1>1, <1>2, ValueInt
  <2>2. Power(Base, n) \in Int
    BY <1>1, PowerInt
  <2> QED
    BY <2>1, <2>2
<1>9. c[n] = 1 /\ c[0] = 1
  BY <1>3
<1> DEFINE p == Power(Base, n)  v == DigitsValue(Base, m, n)
<1> HIDE DEF p, v
<1>10. p \in Int /\ v \in Int /\ 0 + 1 * p = v + 1
  BY <1>6, <1>7, <1>8, <1>9 DEF p, v
<1>11. v = p - 1
  BY <1>10
<1> QED
  BY <1>11 DEF p, v

(* The two's complement, of as many digits.                                *)
IsNegated(e, d) ==
  /\ e \in Seq(Digit) /\ Len(e) = Len(d)
  /\ Amount(d) > 0 => Amount(e) = Power(Base, Len(d)) - Amount(d)
  /\ Amount(d) = 0 => Amount(e) = 0

LEMMA NegateDigitsExact ==
  ASSUME NEW d \in Seq(Digit) PROVE IsNegated(NegateDigits(d), d)
<1> DEFINE step == NegateStep  C == 0 .. 1  r == Upward(step, 1, d)  n == Len(d)
           u == [i \in 1 .. n |-> Base - 1 - d[i]]  m == [i \in 1 .. n |-> Base - 1]
<1>1. NegateDigits(d) = r[1]
  BY DEF NegateDigits, NegateStep
<1>2. \A x1 \in Digit, c \in C : Negates(step[x1][c], x1, c)
  BY NegateStepParts
<1> HIDE DEF step
<1>3. \A x1 \in Digit, c \in C : step[x1][c][1] \in Digit /\ step[x1][c][2] \in C
  BY <1>2 DEF Negates
<1> DEFINE carry == 1
<1>4. carry \in C
  OBVIOUS
<1> HIDE DEF carry
<1>5. Loops(Upward(step, carry, d), step, carry, d, Digit, C)
  BY <1>3, <1>4, UpwardIsLoop
<1>6. r = Upward(step, carry, d)
  BY DEF carry
<1> HIDE DEF r
<1>7. PICK c : IsLoop(r[1], c, step, carry, d, Digit, C) /\ r[2] = c[Len(d)]
  BY <1>5, <1>6 DEF Loops
<1> DEFINE e == r[1]
<1>8. /\ e \in Seq(Digit) /\ Len(e) = n /\ c \in [0 .. n -> C] /\ c[0] = 1
      /\ \A i \in 1 .. n : e[i] = step[d[i]][c[i - 1]][1] /\ c[i] = step[d[i]][c[i - 1]][2]
  BY <1>7 DEF IsLoop, carry
<1>9. n \in Nat /\ \A i \in 1 .. n : d[i] \in Digit /\ d[i] \in Int
  BY DigitSequence
<1>10. Base \in Int /\ -1 \in Int
  BY HalfFacts
<1> HIDE DEF e
<1>11. \A i \in 1 .. n : e[i] \in Digit /\ e[i] \in Int
  BY <1>8, DigitSequence
<1>12. \A i \in 0 .. n : c[i] \in C /\ c[i] \in Int
  BY <1>8
<1> HIDE DEF n
<1>13. ASSUME NEW i \in 1 .. n PROVE e[i] + Base * c[i] = u[i] + c[i - 1]
  <2>1. i - 1 \in 0 .. n /\ d[i] \in Digit /\ c[i - 1] \in C
    BY <1>9, <1>12
  <2>2. Negates(step[d[i]][c[i - 1]], d[i], c[i - 1])
    BY <1>2, <2>1
  <2> QED
    BY <2>2, <1>8 DEF Negates
<1> DEFINE l == -1
<1>14. \A i \in 1 .. n : u[i] \in Int /\ m[i] \in Int /\ m[i] = Base - 1 /\ u[i] = m[i] + l * d[i]
  BY <1>9, <1>10
<1>15. l \in Int /\ \A a \in Int : l * a = -a
  OBVIOUS
<1> HIDE DEF u, m, l
<1>16. SameValue(Base, n, u, e, c)
  BY <1>9, <1>10, <1>11, <1>12, <1>13, <1>14, LoopKeepsValue
<1>17. IsLinear(Base, u, m, l, d, n)
  BY <1>9, <1>10, <1>14, <1>15, ValueLinear
<1>18. DigitsValue(Base, m, n) = Power(Base, n) - 1
  BY <1>9, <1>14, LargestDigits
<1>19. DigitsValue(Base, e, n) + c[n] * Power(Base, n) = DigitsValue(Base, u, n) + c[0]
  BY <1>16, <1>9 DEF SameValue
<1> DEFINE a == Amount(d)  o == Amount(e)  p == Power(Base, n)  k == c[n]
<1>20. a \in Nat /\ a < p /\ p \in Int /\ p > 0
  BY AmountBounds DEF n
<1>21. o \in Nat /\ o < p
  BY <1>8, AmountBounds
<1>22. a = DigitsValue(Base, d, n) /\ o = DigitsValue(Base, e, n)
  BY <1>8 DEF Amount, n
<1>23. k = 0 \/ k = 1
  BY <1>9, <1>12
<1>24. DigitsValue(Base, u, n) = (p - 1) + l * a
  BY <1>17, <1>18, <1>22 DEF IsLinear
<1>25. o + k * p = (p - 1) + l * a + 1
  BY <1>8, <1>19, <1>22, <1>24
<1>26. o + k * p = p - a
  <2> HIDE DEF a, o, p, k
  <2>1. l * a = -a
    BY <1>15, <1>20
  <2> DEFINE t == k * p  w == l * a
  <2>2. t \in Int /\ w = -a /\ o + t = (p - 1) + w + 1
    BY <1>20, <1>23, <1>25, <2>1
  <2> HIDE DEF t, w
  <2>3. o + t = p - a
    BY <1>20, <1>21, <2>2
  <2> QED
    BY <2>3 DEF t
<1> HIDE DEF a, o, p, k
<1>27. (a > 0 => o = p - a) /\ (a = 0 => o = 0)
  <2>1. CASE k = 0
    <3>1. k * p = 0
      BY <1>20, <2>1
    <3>2. o = p - a
      BY <1>20, <1>21, <1>26, <3>1
    <3> QED
      BY <1>20, <1>21, <3>2
  <2>2. CASE k = 1
    <3>1. k * p = p
      BY <1>20, <2>2
    <3>2. o + p = p - a
      BY <1>26, <3>1
    <3> QED
      BY <1>20, <1>21, <3>2
  <2> QED
    BY <1>23, <2>1, <2>2
<1> QED
  BY <1>1, <1>8, <1>27 DEF IsNegated, a, o, p, n, e

(* A number without its lower k digits, and what they stand for.           *)
IsUpper(e, v, n, k) ==
  /\ e \in Seq(Digit) /\ Len(e) = n - k
  /\ \E low \in 0 .. Power(Base, k) - 1 : v = Power(Base, k) * Amount(e) + low

LEMMA UpperDigits ==
  ASSUME NEW d \in Seq(Digit), NEW n \in Nat, n <= Len(d), NEW k \in Nat, k < n
  PROVE  IsUpper(SubSeq(d, k + 1, n), DigitsValue(Base, d, n), n, k)
<1> DEFINE m == n - k  e == [i \in 1 .. m |-> d[k + i]]
<1>0. m \in Nat /\ n = k + m /\ Base \in Int /\ Base > 0 /\ Len(d) \in Nat
  BY HalfFacts
<1>1. \A i \in 1 .. n : d[i] \in Digit /\ d[i] \in Int
  BY DigitSequence
<1>2. SubSeq(d, k + 1, n) = e
  <2>1. k + 1 \in 1 .. Len(d) /\ n \in 1 .. Len(d)
    BY <1>0
  <2>2. SubSeq(d, k + 1, n) = [i \in 1 .. (1 + n - (k + 1)) |-> d[i + (k + 1) - 1]]
    BY <2>1
  <2>3. 1 + n - (k + 1) = m /\ \A i \in 1 .. m : i + (k + 1) - 1 = k + i
    BY <1>0
  <2> QED
    BY <2>2, <2>3
<1>3. \A i \in 1 .. m : k + i \in 1 .. n
  BY <1>0
<1>4. \A i \in 1 .. m : e[i] = d[k + i] /\ e[i] \in Digit
  BY <1>1, <1>3
<1>5. e \in [1 .. m -> Digit]
  BY <1>4
<1> HIDE DEF m, e
<1>6. e \in Seq(Digit) /\ Len(e) = m
  BY <1>0, <1>5
<1>7. Splits(Base, d, e, k, m)
  BY <1>0, <1>1, <1>4, ValueSplits
<1>8. DigitsValue(Base, d, k) \in 0 .. Power(Base, k) - 1
  <2>1. \A i \in 1 .. k : d[i] \in 0 .. Base - 1
    BY <1>0, <1>1 DEF Digit
  <2> QED
    BY <1>0, <2>1, ValueBounds
<1> DEFINE P == Power(Base, k)  low == DigitsValue(Base, d, k)  v == DigitsValue(Base, d, n)
<1>9. P \in Int
  BY <1>0, PowerInt
<1>10. Amount(e) \in Int
  BY <1>6, AmountBounds
<1>11. v = low + P * Amount(e)
  BY <1>0, <1>6, <1>7 DEF Splits, Amount
<1> HIDE DEF P, low, v
<1>12. low \in 0 .. P - 1 /\ low \in Int /\ P * Amount(e) \in Int
  BY <1>8, <1>9, <1>10, Distribute DEF low, P
<1>13. v = P * Amount(e) + low
  BY <1>11, <1>12
<1> QED
  BY <1>2, <1>6, <1>12, <1>13 DEF IsUpper, P, v, m

(* Of a negative number the digits of the two's complement.                *)
LEMMA ComplementDigits ==
  ASSUME NEW d \in Seq(Digit), Amount(d) > 0
  PROVE  LET e == NegateDigits(Padded(d, Len(d) + 1))
         IN e \in Seq(Digit) /\ Len(e) = Len(d) + 1
            /\ DigitsValue(Base, e, Len(d)) = Power(Base, Len(d)) - Amount(d)
<1> DEFINE n == Len(d)  s == n + 1  u == Padded(d, s)  e == NegateDigits(u)
           a == Amount(d)  p == Power(Base, n)  v == DigitsValue(Base, e, n)
<1>0. n \in Nat /\ s \in Nat /\ n <= s /\ Base \in Int /\ Base >= 16 /\ Base > 0
  BY HalfFacts
<1>1. \A i \in 1 .. s : u[i] = DigitOf(d, i)
  BY DEF Padded
<1>2. u = [i \in 1 .. s |-> u[i]]
  BY DEF Padded
<1> HIDE DEF u, s
<1>3. DigitsValue(Base, u, s) = a /\ \A i \in 1 .. s : u[i] \in Digit
  BY <1>0, <1>1, PaddedAmount
<1>4. u \in [1 .. s -> Digit]
  BY <1>2, <1>3
<1>5. u \in Seq(Digit) /\ Len(u) = s
  BY <1>0, <1>4
<1>6. Amount(u) = a
  BY <1>3, <1>5 DEF Amount
<1>7. IsNegated(e, u)
  BY <1>5, NegateDigitsExact
<1> HIDE DEF e
<1>8. e \in Seq(Digit) /\ Len(e) = s /\ Amount(e) = Power(Base, s) - a
  BY <1>5, <1>6, <1>7 DEF IsNegated
<1>9. Power(Base, s) = Base * p
  BY <1>0, PowerNext DEF s
<1>10. a \in Nat /\ a > 0 /\ a < p /\ p \in Int /\ p > 0
  BY AmountBounds
<1>11. \A i \in 1 .. n + 1 : e[i] \in Digit /\ e[i] \in Int
  BY <1>8, DigitSequence DEF s
<1>12. DigitsValue(Base, e, n + 1) = v + e[n + 1] * p
  BY <1>0, <1>11, OneMoreDigit
<1>13. v \in 0 .. p - 1
  <2>1. \A i \in 1 .. n : e[i] \in 0 .. Base - 1
    BY <1>0, <1>11 DEF Digit
  <2> QED
    BY <1>0, <2>1, ValueBounds
<1> DEFINE t == e[n + 1]  q == Base * p - a  w == p - a
<1>14. t \in Int
  BY <1>0, <1>11
<1>15. DigitsValue(Base, e, s) = q
  BY <1>8, <1>9 DEF Amount
<1>16. q = v + t * p
  BY <1>12, <1>15 DEF s
<1> HIDE DEF n, v, t, a, p
<1>17. v \in Int /\ Base * p \in Int /\ t * p \in Int
  BY <1>0, <1>10, <1>13, <1>14, Distribute
<1>18. q = p * t + v /\ q \in Int
  <2>1. t * p = p * t
    BY <1>10, <1>14, Distribute
  <2> DEFINE z == t * p
  <2>2. z \in Int /\ q = v + z /\ z = p * t
    BY <1>16, <1>17, <2>1
  <2> HIDE DEF z, q
  <2>3. q = z + v
    BY <1>17, <2>2
  <2> QED
    BY <1>10, <1>17, <2>2, <2>3
<1> DEFINE b == Base - 1
<1>19. q = p * b + w /\ b \in Int
  <2>1. p * (Base - 1) = p * Base - p * 1 /\ p * Base = Base * p
    BY <1>0, <1>10, Distribute
  <2> DEFINE z == Base * p  y1 == p * (Base - 1)
  <2>2. z \in Int /\ y1 = z - p
    BY <1>10, <1>17, <2>1
  <2> HIDE DEF z, y1
  <2>3. z - a = y1 + (p - a)
    BY <1>10, <2>2
  <2> QED
    BY <1>0, <2>3 DEF z, y1
<1>20. w \in 0 .. p - 1
  BY <1>10
<1> HIDE DEF q, w, b
<1>21. q % p = v
  BY <1>10, <1>13, <1>14, <1>18, DivUnique
<1>22. q % p = w
  <2>1. p \in Int /\ p > 0 /\ b \in Int /\ w \in 0 .. p - 1 /\ q \in Int /\ q = p * b + w
    BY <1>10, <1>18, <1>19, <1>20
  <2> QED
    BY <2>1, DivUnique
<1>23. v = w
  BY <1>21, <1>22
<1> QED
  BY <1>8, <1>23 DEF v, w, n, a, p, e, u, s

(* The digits a shift to the right by k digits keeps.                      *)
LEMMA KeptDigitsExact ==
  ASSUME NEW x1, x1.neg \in BOOLEAN, x1.d \in Seq(Digit), Amount(x1.d) > 0, NEW k \in Nat, k < Len(x1.d)
  PROVE  IsUpper(KeptDigits(x1, k),
                 Signed(x1.neg, Amount(x1.d)) + IF x1.neg THEN Power(Base, Len(x1.d)) ELSE 0, Len(x1.d), k)
<1> DEFINE d == x1.d  n == Len(d)  a == Amount(d)  p == Power(Base, n)
<1>0. n \in Nat /\ d \in Seq(Digit) /\ k < n
  OBVIOUS
<1>1. a \in Int /\ p \in Int
  BY AmountBounds
<1>2. CASE x1.neg = TRUE
  <2> DEFINE e == NegateDigits(Padded(d, n + 1))  v == DigitsValue(Base, e, n)
  <2>1. KeptDigits(x1, k) = SubSeq(e, k + 1, n)
    BY <1>2 DEF KeptDigits, Complement, Size
  <2> HIDE DEF d
  <2>2. e \in Seq(Digit) /\ Len(e) = n + 1 /\ v = p - a
    BY <1>0, ComplementDigits DEF d
  <2> HIDE DEF e, n, a, p
  <2>3. IsUpper(SubSeq(e, k + 1, n), v, n, k)
    BY <1>0, <2>2, UpperDigits
  <2>4. Signed(x1.neg, a) + p = v
    BY <1>1, <1>2, <2>2 DEF Signed
  <2> QED
    BY <1>2, <2>1, <2>3, <2>4 DEF n, a, p, d
<1>3. CASE x1.neg = FALSE
  <2>1. KeptDigits(x1, k) = SubSeq(d, k + 1, n)
    BY <1>3 DEF KeptDigits, Complement, Size
  <2> HIDE DEF d
  <2>2. DigitsValue(Base, d, n) = a
    BY DEF Amount
  <2> DEFINE v == DigitsValue(Base, d, n)
  <2>3. IsUpper(SubSeq(d, k + 1, n), v, n, k)
    BY <1>0, UpperDigits
  <2> HIDE DEF n, a, p
  <2>4. Signed(x1.neg, a) + 0 = a
    BY <1>1, <1>3 DEF Signed
  <2> QED
    BY <1>3, <2>1, <2>2, <2>3, <2>4 DEF n, a, p, d
<1> QED
  BY <1>2, <1>3

(* s bits less of e, with ones above them or zeros.                        *)
IsShifted(o, e, b, neg) ==
  /\ o \in Seq(Digit) /\ Len(o) = Len(e)
  /\ \E rest \in 0 .. Power(2, b) - 1 :
       Power(2, b) * Amount(o) + rest
         = Amount(e) + (IF neg THEN Power(2, b) - 1 ELSE 0) * Power(Base, Len(e))

LEMMA ShiftedExact ==
  ASSUME NEW e \in Seq(Digit), NEW b \in 0 .. DigitBits, NEW neg \in BOOLEAN
  PROVE  IsShifted(Shifted(e, b, neg), e, b, neg)
<1> DEFINE o == Shifted(e, b, neg)  a == Amount(e)  p == Power(Base, Len(e))
<1>1. a \in Int /\ p \in Int
  BY AmountBounds
<1>2. CASE b = 0
  <2>1. o = e /\ Power(2, b) = 1
    BY <1>2, PowerZero DEF Shifted
  <2> DEFINE k == IF neg THEN Power(2, b) - 1 ELSE 0
  <2>2. k = 0 /\ 0 \in 0 .. Power(2, b) - 1
    BY <2>1
  <2>3. 1 * a + 0 = a + 0 * p
    BY <1>1
  <2>4. Power(2, b) * Amount(o) + 0 = a + k * p
    BY <2>1, <2>2, <2>3
  <2> HIDE DEF o, a, k, p
  <2>5. o \in Seq(Digit) /\ Len(o) = Len(e)
    BY <2>1
  <2> QED
    BY <2>2, <2>4, <2>5 DEF IsShifted, k, o, a, p
<1>3. CASE b # 0
  <2> DEFINE r == ShiftRight(e, b, neg)
  <2>1. o = r[1]
    BY <1>3 DEF Shifted
  <2>2. IsQuotient(ShiftRight(e, b, neg), e, Power(2, b), IF neg THEN Power(2, b) - 1 ELSE 0)
    BY ShiftRightExact
  <2> HIDE DEF r, o
  <2> DEFINE m == Power(2, b)  k == IF neg THEN m - 1 ELSE 0  rest == r[2]
  <2>3. o \in Seq(Digit) /\ Len(o) = Len(e) /\ rest \in 0 .. m - 1 /\ m * Amount(o) + rest = a + k * p
    BY <2>1, <2>2 DEF IsQuotient, r
  <2> HIDE DEF m, k, rest, a, p
  <2> QED
    BY <2>3 DEF IsShifted, o, m, k, a, p
<1> QED
  BY <1>2, <1>3

(* No digits but zeros.                                                    *)
LEMMA NothingLeft ==
  ASSUME NEW d \in Seq(Digit), Amount(d) = 0 PROVE \A i \in 1 .. Len(d) : d[i] = 0
<1> DEFINE s == Stripped(d)  n == Len(s)
<1>1. s \in Seq(Digit) /\ IsStripped(s, d)
  BY StrippedDigits
<1> HIDE DEF s
<1>2. Amount(s) = 0
  BY <1>1, StrippedAmount
<1>3. n \in Nat /\ \A i \in 1 .. n : s[i] \in Digit
  BY <1>1
<1>4. CASE n > 0
  <2> DEFINE k == n - 1
  <2>1. k \in Nat /\ k + 1 = n /\ Base \in Int /\ Base > 0
    BY <1>3, <1>4, HalfFacts
  <2>2. \A i \in 1 .. k + 1 : s[i] \in 0 .. Base - 1
    BY <1>3, <2>1 DEF Digit
  <2>3. s[k + 1] # 0
    BY <1>1, <1>4, <2>1 DEF IsStripped
  <2> HIDE DEF k, n
  <2>4. DigitsValue(Base, s, k + 1) >= Power(Base, k)
    BY <2>1, <2>2, <2>3, TopDigit
  <2>5. Power(Base, k) \in Int /\ Power(Base, k) > 0
    BY <2>1, PowerPositive
  <2>6. DigitsValue(Base, s, k + 1) = 0
    BY <1>2, <2>1 DEF Amount, n
  <2> QED
    BY <2>4, <2>5, <2>6
<1>5. CASE n = 0
  BY <1>1, <1>5 DEF IsStripped
<1> QED
  BY <1>3, <1>4, <1>5

(* The number that a two's complement stands for.                          *)
LEMMA FromComplementExact ==
  ASSUME NEW d \in Seq(Digit), NEW neg \in BOOLEAN, neg => Amount(d) > 0
  PROVE  IsExactly(FromComplement(d, neg), IF neg THEN Amount(d) - Power(Base, Len(d)) ELSE Amount(d))
<1> DEFINE a == Amount(d)  p == Power(Base, Len(d))
<1>1. a \in Int /\ p \in Int
  BY AmountBounds
<1>2. CASE neg = TRUE
  <2> DEFINE e == NegateDigits(d)
  <2>1. IsNegated(e, d)
    BY NegateDigitsExact
  <2>2. FromComplement(d, neg) = Simplify(neg, e)
    BY <1>2 DEF FromComplement
  <2> HIDE DEF e
  <2>3. e \in Seq(Digit) /\ Amount(e) = p - a
    BY <1>2, <2>1 DEF IsNegated
  <2>4. IsExactly(Simplify(neg, e), Signed(neg, Amount(e)))
    BY <2>3, SimplifyExact
  <2> HIDE DEF a, p
  <2>5. Signed(neg, p - a) = a - p
    BY <1>1, <1>2 DEF Signed
  <2> QED
    BY <1>2, <2>2, <2>3, <2>4, <2>5 DEF a, p
<1>3. CASE neg = FALSE
  <2>1. FromComplement(d, neg) = Simplify(neg, d)
    BY <1>3 DEF FromComplement
  <2>2. IsExactly(Simplify(neg, d), Signed(neg, a))
    BY SimplifyExact
  <2>3. Signed(neg, a) = a
    BY <1>3 DEF Signed
  <2> QED
    BY <1>3, <2>1, <2>2, <2>3
<1> QED
  BY <1>2, <1>3

LEMMA FromComplementStored ==
  ASSUME NEW d \in Seq(Digit), NEW neg \in BOOLEAN
  PROVE  \E u : IsExactly(FromComplement(d, neg), u)
<1> DEFINE e == IF neg THEN NegateDigits(d) ELSE d
<1>1. e \in Seq(Digit)
  BY NegateDigitsExact DEF IsNegated
<1>2. FromComplement(d, neg) = Simplify(neg, e)
  BY DEF FromComplement
<1> HIDE DEF e
<1> QED
  BY <1>1, <1>2, SimplifyExact

(* A shift by digits and one by bits are a shift by both.                  *)
LEMMA ShiftsCompose ==
  ASSUME NEW p \in Nat, NEW q \in Nat, NEW m \in Int, NEW v \in Int, NEW k \in Int, NEW u \in Int,
         NEW low \in 0 .. p - 1, NEW rest \in 0 .. q - 1,
         v + p * m = p * k + low, q * (u + m) + rest = k + (q - 1) * m
  PROVE  v = u * (p * q) + (p * rest + low) /\ p * rest + low \in 0 .. p * q - 1
<1>1. low \in Int /\ 0 <= low /\ low <= p - 1 /\ rest \in Int /\ 0 <= rest /\ rest <= q - 1
  OBVIOUS
<1>2. k = q * u + rest + m
  <2>1. q * (u + m) = q * u + q * m /\ (q - 1) * m = q * m - m
    BY Distribute
  <2> DEFINE a == q * u  b == q * m  c == q * (u + m)  d == (q - 1) * m
  <2>2. a \in Int /\ b \in Int /\ c = a + b /\ d = b - m /\ c + rest = k + d
    BY <2>1
  <2> HIDE DEF a, b, c, d
  <2>3. k = a + rest + m
    BY <1>1, <2>2
  <2> QED
    BY <2>3 DEF a
<1>3. p * k = u * (p * q) + p * rest + p * m
  <2>1. p * (q * u + rest + m) = u * (p * q) + p * rest + p * m
    BY <1>1
  <2> QED
    BY <1>2, <2>1
<1>4. v = u * (p * q) + (p * rest + low)
  <2> DEFINE a == u * (p * q)  b == p * rest  c == p * m  d == p * k
  <2>1. a \in Int /\ b \in Int /\ c \in Int /\ d = a + b + c /\ v + c = d + low
    BY <1>1, <1>3
  <2> HIDE DEF a, b, c, d
  <2>2. v = a + (b + low)
    BY <1>1, <2>1
  <2> QED
    BY <2>2 DEF a, b
<1>5. p * rest + low \in 0 .. p * q - 1
  <2>1. rest * p <= (q - 1) * p /\ 0 * p <= rest * p /\ rest * p = p * rest
    BY <1>1, Monotone, Distribute
  <2>2. (q - 1) * p = q * p - 1 * p /\ q * p = p * q
    BY Distribute
  <2> DEFINE a == p * rest  b == p * q  c == (q - 1) * p
  <2>3. a \in Int /\ b \in Int /\ 0 <= a /\ a <= c /\ c = b - p
    BY <1>1, <2>1, <2>2
  <2> HIDE DEF a, b, c
  <2>4. a + low \in 0 .. b - 1
    BY <1>1, <2>3
  <2> QED
    BY <2>4 DEF a, b
<1> QED
  BY <1>4, <1>5

(* r is v divided by m, rounded down.                                      *)
IsFloor(r, v, m) == \E u \in Int, t \in 0 .. m - 1 : IsExactly(r, u) /\ v = u * m + t

(* CarryIsLost, of the number x and a shift to the right by s.             *)
KeepsZeros(x1, s) ==
  Negative(x1) /\ s % DigitBits = 0 /\ \A d \in Range(KeptDigits(x1, s \div DigitBits)) : d = 0

LEMMA ZeroDigits ==
  ASSUME NEW d \in Seq(Digit), Amount(d) = 0 PROVE \A i \in Range(d) : i = 0
<1> SUFFICES ASSUME NEW i \in Range(d) PROVE i = 0
  OBVIOUS
<1>1. PICK j \in DOMAIN d : i = d[j]
  BY DEF Range
<1>2. j \in 1 .. Len(d)
  OBVIOUS
<1> QED
  BY <1>1, <1>2, NothingLeft

(* Words and bits of a shift.                                              *)
LEMMA WordsAndBits ==
  ASSUME NEW s \in Nat
  PROVE  /\ s \div DigitBits \in Nat /\ s % DigitBits \in 0 .. DigitBits /\ s % DigitBits \in Nat
         /\ Power(2, s) = Power(Base, s \div DigitBits) * Power(2, s % DigitBits)
<1> DEFINE w == DigitBits  k == s \div w  b == s % w
<1>0. w \in Nat /\ w > 0 /\ s \in Int
  BY BaseFacts
<1>1. k \in Int /\ b \in 0 .. w - 1 /\ s = w * k + b
  BY <1>0, DivMod
<1>2. k \in Nat
  BY <1>0, <1>1
<1> HIDE DEF k, b, w
<1>3. w * k \in Nat /\ Power(2, w * k) = Power(Base, k)
  BY <1>2, PowerOfBase DEF w
<1> DEFINE t == w * k
<1> HIDE DEF t
<1>4. t \in Nat /\ b \in Nat /\ s = t + b
  BY <1>0, <1>1, <1>3 DEF t
<1>5. Power(2, t + b) = Power(2, t) * Power(2, b)
  BY <1>4, PowerSum
<1>6. b \in 0 .. w
  BY <1>0, <1>1
<1> QED
  BY <1>2, <1>3, <1>4, <1>5, <1>6 DEF t, k, b, w

LEMMA PositivePowers ==
  ASSUME NEW k \in Nat, NEW b \in Nat
  PROVE  Power(Base, k) \in Nat /\ Power(2, b) \in Nat /\ Power(Base, k) >= 1 /\ Power(2, b) >= 1
<1>1. Base \in Int /\ Base > 0
  BY HalfFacts
<1>2. 2 \in Int /\ 2 > 0
  OBVIOUS
<1>3. Power(Base, k) \in Int /\ Power(Base, k) > 0
  BY <1>1, PowerPositive
<1>4. Power(2, b) \in Int /\ Power(2, b) > 0
  BY <1>2, PowerPositive
<1> QED
  BY <1>3, <1>4

(* A bignum that loses all its digits.                                     *)
LEMMA AllShiftedOut ==
  ASSUME NEW neg \in BOOLEAN, NEW d \in Seq(Digit), Amount(d) > 0, NEW s \in Nat,
         Len(d) <= s \div DigitBits
  PROVE  IsFloor(Fix(IF neg THEN -1 ELSE 0), Signed(neg, Amount(d)), Power(2, s))
<1> DEFINE m == Power(2, s)  k == s \div DigitBits  b == s % DigitBits  a == Amount(d)
           P == Power(Base, k)  Q == Power(2, b)
<1>1. k \in Nat /\ b \in Nat /\ m = P * Q
  BY WordsAndBits
<1>2. P \in Nat /\ Q \in Nat /\ P >= 1 /\ Q >= 1
  BY <1>1, PositivePowers
<1>3. a \in Nat /\ a > 0 /\ a < P
  <2>1. a \in Nat /\ a < Power(Base, Len(d)) /\ Power(Base, Len(d)) \in Int
    BY AmountBounds
  <2>2. Len(d) \in Nat /\ Base \in Int /\ Base > 0
    BY HalfFacts
  <2>3. Power(Base, Len(d)) <= P
    BY <1>1, <2>2, PowerMonotone
  <2> HIDE DEF P
  <2> QED
    BY <1>2, <2>1, <2>3
<1> HIDE DEF m, k, b, P, Q, a
<1>4. a < m /\ m \in Int
  <2>1. 1 * P <= Q * P /\ Q * P = P * Q /\ P * Q \in Int
    BY <1>2, Monotone, Distribute
  <2> DEFINE z == P * Q
  <2>2. P <= z /\ z \in Int /\ m = z
    BY <1>1, <1>2, <2>1
  <2> HIDE DEF z
  <2> QED
    BY <1>2, <1>3, <2>2
<1>5. CASE neg = TRUE
  <2> DEFINE u == -1  t == m - a
  <2>1. u \in Int /\ FitsFixnum(u) /\ t \in 0 .. m - 1
    BY <1>3, <1>4, BaseFacts DEF FitsFixnum
  <2>2. Signed(neg, a) = u * m + t
    <3>1. u * m = -m
      BY <1>4
    <3> QED
      BY <1>3, <1>4, <1>5, <3>1 DEF Signed
  <2>3. (IF neg THEN -1 ELSE 0) = u
    BY <1>5
  <2> HIDE DEF u, t
  <2>4. IsExactly(Fix(u), u)
    BY <2>1, FixIsExact
  <2>5. IsFloor(Fix(u), Signed(neg, a), m)
    BY <2>1, <2>2, <2>4 DEF IsFloor
  <2> QED
    BY <2>3, <2>5 DEF a, m
<1>6. CASE neg = FALSE
  <2> DEFINE u == 0
  <2>1. u \in Int /\ FitsFixnum(u) /\ a \in 0 .. m - 1
    BY <1>3, <1>4, BaseFacts DEF FitsFixnum
  <2>2. Signed(neg, a) = u * m + a
    <3>1. u * m = 0
      BY <1>4
    <3> QED
      BY <1>3, <1>4, <1>6, <3>1 DEF Signed
  <2>3. (IF neg THEN -1 ELSE 0) = u
    BY <1>6
  <2> HIDE DEF u
  <2>4. IsExactly(Fix(u), u)
    BY <2>1, FixIsExact
  <2>5. IsFloor(Fix(u), Signed(neg, a), m)
    BY <2>1, <2>2, <2>4 DEF IsFloor
  <2> QED
    BY <2>3, <2>5 DEF a, m
<1> QED
  BY <1>5, <1>6

(* The shift of a bignum that keeps some digits.                           *)
LEMMA ShiftDownExact ==
  ASSUME NEW x1, NEW v, IsExactly(x1, v), ~IsFix(x1), NEW s \in Nat,
         s \div DigitBits < Size(x1)
  PROVE  /\ \E u : IsExactly(ShiftDown(x1, s), u)
         /\ ~KeepsZeros(x1, s) => IsFloor(ShiftDown(x1, s), v, Power(2, s))
<1> DEFINE d == x1.d  neg == x1.neg  n == Len(d)  a == Amount(d)  k == s \div DigitBits  b == s % DigitBits
           e == KeptDigits(x1, k)  o == Shifted(e, b, neg)  r == FromComplement(o, neg)
           P == Power(Base, k)  Q == Power(2, b)  N == Power(Base, n)  m == n - k  M == Power(Base, m)
<1>1. neg \in BOOLEAN /\ d \in Seq(Digit) /\ a \in Nat /\ v = Signed(neg, a) /\ a > 0 /\ ~FitsFixnum(v)
  <2>1. neg \in BOOLEAN /\ d \in Seq(Digit) /\ a \in Nat /\ v = Signed(neg, a) /\ ~FitsFixnum(v)
    BY ExactCases, BigIsLarge
  <2>2. a # 0
    <3> SUFFICES ASSUME a = 0 PROVE FALSE
      OBVIOUS
    <3> HIDE DEF a, neg
    <3>2. a \in Int /\ a + a = 0
      BY <2>1
    <3>3. Signed(neg, a) = a
      BY <2>1, <3>2, SignedZero
    <3>1. v = 0
      BY <2>1, <3>3
    <3> QED
      BY <2>1, <3>1, BaseFacts DEF FitsFixnum
  <2> HIDE DEF a
  <2> QED
    BY <2>1, <2>2
<1>2. n \in Nat /\ n = Size(x1)
  BY <1>1 DEF Size
<1>3. k \in Nat /\ b \in 0 .. DigitBits /\ b \in Nat /\ Power(2, s) = P * Q
  BY WordsAndBits
<1>4. k < n /\ m \in Nat /\ m >= 1 /\ n = k + m
  <2> HIDE DEF k, n
  <2> QED
    BY <1>2, <1>3 DEF k
<1>5. ShiftDown(x1, s) = r
  BY <1>2, <1>3, <1>4 DEF ShiftDown
<1>6. P \in Nat /\ Q \in Nat /\ P >= 1 /\ Q >= 1
  BY <1>3, PositivePowers
<1>7. M \in Nat /\ M >= 16 /\ N = P * M
  <2>1. Base \in Int /\ Base > 0 /\ Base >= 16
    BY HalfFacts
  <2>2. M \in Int /\ M > 0
    BY <1>4, <2>1, PowerPositive
  <2>3. Power(Base, 1) <= M
    BY <1>4, <2>1, PowerMonotone
  <2>4. Power(Base, 0 + 1) = Base * Power(Base, 0) /\ Power(Base, 0) = 1
    BY <2>1, PowerNext, PowerZero
  <2>5. Power(Base, 1) = Base
    BY <2>1, <2>4
  <2> HIDE DEF k, m
  <2>6. Power(Base, k + m) = P * M
    BY <1>3, <1>4, <2>1, PowerSum
  <2> QED
    BY <1>4, <2>1, <2>2, <2>3, <2>5, <2>6
<1>8. IsUpper(e, v + IF neg THEN N ELSE 0, n, k)
  <2>1. x1.neg \in BOOLEAN /\ x1.d \in Seq(Digit) /\ Amount(x1.d) > 0 /\ k < Len(x1.d)
    BY <1>1, <1>4
  <2> HIDE DEF k, e
  <2>2. IsUpper(KeptDigits(x1, k),
                 Signed(x1.neg, Amount(x1.d)) + IF x1.neg THEN Power(Base, Len(x1.d)) ELSE 0, Len(x1.d), k)
    BY <1>3, <2>1, KeptDigitsExact
  <2> QED
    BY <1>1, <2>2 DEF e
<1> DEFINE vv == v + IF neg THEN N ELSE 0
<1>9. e \in Seq(Digit) /\ Len(e) = m /\ \E low \in 0 .. P - 1 : vv = P * Amount(e) + low
  BY <1>8 DEF IsUpper
<1>10. PICK low \in 0 .. P - 1 : vv = P * Amount(e) + low
  BY <1>9
<1> HIDE DEF e, vv
<1>11. IsShifted(o, e, b, neg)
  BY <1>1, <1>3, <1>9, ShiftedExact
<1> HIDE DEF o
<1> DEFINE h == IF neg THEN Q - 1 ELSE 0
<1>12. o \in Seq(Digit) /\ Len(o) = m /\ \E rest \in 0 .. Q - 1 : Q * Amount(o) + rest = Amount(e) + h * M
  BY <1>9, <1>11 DEF IsShifted
<1>13. PICK rest \in 0 .. Q - 1 : Q * Amount(o) + rest = Amount(e) + h * M
  BY <1>12
<1>14. \E u : IsExactly(r, u)
  BY <1>1, <1>12, FromComplementStored
<1>15. ASSUME ~KeepsZeros(x1, s) PROVE IsFloor(r, v, P * Q)
  <2> DEFINE ao == Amount(o)  ae == Amount(e)  u == IF neg THEN ao - M ELSE ao  mm == IF neg THEN M ELSE 0
  <2>1. ao \in Nat /\ ae \in Nat /\ v \in Int
    BY <1>9, <1>12, AmountBounds, ExactInt
  <2>2. neg => ao > 0
    <3>0. SUFFICES ASSUME neg, ao = 0 PROVE FALSE
      BY <2>1
    <3>1. rest = ae + (Q - 1) * M /\ rest \in Int /\ rest <= Q - 1
      <4>1. Q * 0 = 0
        BY <1>6
      <4> DEFINE y1 == (Q - 1) * M
      <4>2. Q * ao = 0 /\ Q * ao + rest = ae + y1
        BY <1>13, <3>0, <4>1
      <4>3. rest \in Int /\ rest <= Q - 1
        BY <1>6
      <4> HIDE DEF y1, ao, ae
      <4>4. rest = ae + y1
        BY <4>2, <4>3
      <4> QED
        BY <4>3, <4>4 DEF y1
    <3>2. CASE b = 0
      <4>1. Q = 1
        BY <3>2, PowerZero
      <4>2. (Q - 1) * M = 0
        BY <1>7, <4>1
      <4>3. ae = 0
        <5> DEFINE y1 == (Q - 1) * M
        <5> HIDE DEF y1, ae
        <5>1. y1 = 0 /\ rest = ae + y1 /\ rest <= 0
          BY <3>1, <4>1, <4>2 DEF y1
        <5> QED
          BY <2>1, <5>1
      <4>4. \A i \in Range(e) : i = 0
        BY <1>9, <4>3, ZeroDigits
      <4>5. Negative(x1)
        BY <3>0 DEF Negative
      <4>6. KeepsZeros(x1, s)
        BY <3>2, <4>4, <4>5 DEF KeepsZeros, e
      <4> QED
        BY <1>15, <4>6
    <3>3. CASE b # 0
      <4>1. Q >= 2
        <5> DEFINE c == b - 1
        <5>1. c \in Nat /\ b = c + 1 /\ 2 \in Int
          BY <1>3, <3>3
        <5> HIDE DEF c
        <5>2. Power(2, c + 1) = 2 * Power(2, c)
          BY <5>1, PowerNext
        <5>3. Power(2, c) \in Nat /\ Power(2, c) >= 1
          BY <1>3, <5>1, PositivePowers
        <5> QED
          BY <5>1, <5>2, <5>3
      <4> DEFINE q == Q - 1
      <4>2. q \in Int /\ q >= 1 /\ 16 \in Int /\ 16 <= M
        BY <1>6, <1>7, <4>1
      <4> HIDE DEF q
      <4>3. 16 * q <= M * q /\ M * q = q * M
        BY <1>7, <4>2, Monotone, Distribute
      <4> DEFINE y1 == q * M
      <4>4. y1 \in Int /\ 16 * q <= y1 /\ rest = ae + y1 /\ rest <= q
        BY <1>7, <3>1, <4>2, <4>3 DEF q
      <4> HIDE DEF y1, ae
      <4> QED
        BY <2>1, <4>2, <4>4
    <3> QED
      BY <3>2, <3>3
  <2>3. IsExactly(r, IF neg THEN ao - Power(Base, Len(o)) ELSE ao)
    BY <1>1, <1>12, <2>2, FromComplementExact
  <2>4. IsExactly(r, u)
    BY <1>12, <2>3
  <2> HIDE DEF ao, ae, r, M, N, P, Q, m, neg
  <2>5. u \in Int /\ mm \in Int /\ u + mm = ao
    BY <1>1, <1>7, <2>1
  <2>6. v + P * mm = P * ae + low
    <3>1. CASE neg = TRUE
      BY <1>7, <1>10, <3>1 DEF vv, ae
    <3>2. CASE neg = FALSE
      <4>1. P * 0 = 0
        BY <1>6
      <4> QED
        BY <1>10, <3>2, <4>1 DEF vv, ae
    <3> QED
      BY <1>1, <3>1, <3>2
  <2>7. Q * (u + mm) + rest = ae + (Q - 1) * mm
    <3>1. CASE neg = TRUE
      BY <1>13, <2>5, <3>1 DEF ae, ao
    <3>2. CASE neg = FALSE
      <4>1. (Q - 1) * 0 = 0 /\ 0 * M = 0
        BY <1>6, <1>7
      <4>2. Q * ao + rest = ae + 0 * M
        BY <1>13, <3>2 DEF ae, ao
      <4>3. Q * ao + rest = ae + (Q - 1) * 0
        BY <4>1, <4>2
      <4> QED
        BY <2>5, <3>2, <4>3
    <3> QED
      BY <1>1, <3>1, <3>2
  <2> HIDE DEF u, mm
  <2> DEFINE t == P * rest + low
  <2>8. v = u * (P * Q) + t /\ t \in 0 .. P * Q - 1
    BY <1>6, <2>1, <2>5, <2>6, <2>7, ShiftsCompose
  <2> DEFINE z == P * Q
  <2> HIDE DEF t, z
  <2>9. v = u * z + t /\ t \in 0 .. z - 1
    BY <2>8 DEF z
  <2>10. IsFloor(r, v, z)
    BY <2>4, <2>5, <2>9 DEF IsFloor
  <2> QED
    BY <2>10 DEF z
<1> QED
  BY <1>3, <1>5, <1>14, <1>15

(* The quotient of a fixnum is a fixnum.                                   *)
LEMMA QuotientFits ==
  ASSUME NEW n \in Int, FitsFixnum(n), NEW p \in Nat, p >= 1
  PROVE  n \div p \in Int /\ FitsFixnum(n \div p) /\ n % p \in 0 .. p - 1
         /\ n = (n \div p) * p + (n % p)
<1> DEFINE q == n \div p  t == n % p  M == MostPositive
<1>1. q \in Int /\ t \in 0 .. p - 1 /\ n = p * q + t
  BY DivMod
<1>2. M \in Int /\ M >= 3 /\ -(M + 1) <= n /\ n <= M
  BY BaseFacts, FixnumRange
<1> HIDE DEF q, t, M
<1>3. p * q = q * p
  BY <1>1, Distribute
<1> DEFINE z == q * p
<1>4. z \in Int /\ n = z + t /\ t \in Int /\ 0 <= t /\ t <= p - 1
  BY <1>1, <1>3
<1>5. q <= M
  <2> SUFFICES ASSUME q >= M + 1 PROVE FALSE
    BY <1>1, <1>2
  <2>1. p * (M + 1) <= z
    <3> DEFINE k == M + 1
    <3>1. k \in Int /\ k <= q
      BY <1>2
    <3> HIDE DEF k
    <3>2. k * p <= q * p /\ k * p = p * k
      BY <1>1, <3>1, Monotone, Distribute
    <3> QED
      BY <3>2 DEF k
  <2>2. 1 * (M + 1) <= p * (M + 1)
    BY <1>2, Monotone
  <2> DEFINE y1 == p * (M + 1)
  <2>3. y1 \in Int /\ M + 1 <= y1 /\ y1 <= z
    BY <1>2, <2>1, <2>2
  <2> HIDE DEF y1, z
  <2> QED
    BY <1>2, <1>4, <2>3
<1>6. -(M + 1) <= q
  <2> SUFFICES ASSUME q + 1 <= -(M + 1) PROVE FALSE
    BY <1>1, <1>2
  <2> DEFINE k == -(M + 1)  l == q + 1
  <2>1. k \in Int /\ l \in Int /\ l <= k /\ k <= 0 /\ k <= n
    BY <1>1, <1>2
  <2>2. l * p = z + p
    BY <1>1
  <2> HIDE DEF k, l
  <2>3. l * p <= k * p
    BY <2>1, Monotone
  <2>4. k * p <= k
    <3>1. 1 * (-k) <= p * (-k)
      BY <2>1, Monotone
    <3>2. p * (-k) = -(k * p) /\ k * p \in Int
      BY <2>1
    <3> DEFINE y1 == k * p
    <3>3. y1 \in Int /\ -k <= -y1
      BY <2>1, <3>1, <3>2
    <3> HIDE DEF y1
    <3>4. y1 <= k
      BY <2>1, <3>3
    <3> QED
      BY <3>4 DEF y1
  <2> DEFINE y1 == k * p
  <2>5. y1 \in Int /\ z + p <= y1 /\ y1 <= k
    BY <2>1, <2>2, <2>3, <2>4
  <2> HIDE DEF y1, z
  <2> QED
    BY <1>4, <2>1, <2>5
<1>7. FitsFixnum(q)
  BY <1>1, <1>5, <1>6, FixnumRange DEF M
<1> QED
  BY <1>1, <1>3, <1>7 DEF q, t

(* The shift of a fixnum to the right.                                     *)
LEMMA FixnumShiftExact ==
  ASSUME NEW n \in Int, FitsFixnum(n), NEW s \in Nat
  PROVE  IsFloor(Fix(IF s < DigitBits THEN n \div TwoTo[s] ELSE IF n < 0 THEN -1 ELSE 0),
                 n, Power(2, s))
<1> DEFINE m == Power(2, s)  w == DigitBits
<1>1. m \in Nat /\ m >= 1 /\ w \in Nat
  BY BaseFacts, PositivePowers
<1>2. CASE s < w
  <2>1. TwoTo[s] = m
    BY <1>1, <1>2, TwoToIs
  <2> DEFINE u == n \div m  t == n % m
  <2> HIDE DEF m
  <2>2. u \in Int /\ FitsFixnum(u) /\ t \in 0 .. m - 1 /\ n = u * m + t
    BY <1>1, QuotientFits
  <2> HIDE DEF u, t
  <2>3. IsExactly(Fix(u), u)
    BY <2>2, FixIsExact
  <2>4. IsFloor(Fix(u), n, m)
    BY <2>2, <2>3 DEF IsFloor
  <2> QED
    BY <1>2, <2>1, <2>4 DEF m, u
<1>3. CASE ~(s < w)
  <2>1. Base <= m
    <3>1. 2 \in Int /\ 2 > 0 /\ w <= s
      BY <1>1, <1>3
    <3>2. Power(2, w) <= m
      BY <1>1, <3>1, PowerMonotone
    <3> QED
      BY <3>2, BaseFacts
  <2> DEFINE u == IF n < 0 THEN -1 ELSE 0  t == IF n < 0 THEN n + m ELSE n
  <2>2. u \in Int /\ FitsFixnum(u)
    BY BaseFacts DEF FitsFixnum
  <2> HIDE DEF m
  <2>3. t \in 0 .. m - 1 /\ n = u * m + t
    <3>1. Base \in Int /\ MostPositive \in Int /\ MostPositive >= 3 /\ Base = 4 * (MostPositive + 1)
      BY BaseFacts
    <3>2. -(MostPositive + 1) <= n /\ n <= MostPositive
      BY FixnumRange
    <3>3. CASE n < 0
      <4>1. u * m = -m
        BY <1>1, <3>3
      <4> QED
        BY <1>1, <2>1, <3>1, <3>2, <3>3, <4>1
    <3>4. CASE ~(n < 0)
      <4>1. u * m = 0
        BY <1>1, <3>4
      <4> QED
        BY <1>1, <2>1, <3>1, <3>2, <3>4, <4>1
    <3> QED
      BY <3>3, <3>4
  <2>5. (IF s < DigitBits THEN n \div TwoTo[s] ELSE IF n < 0 THEN -1 ELSE 0) = u
    BY <1>3
  <2> HIDE DEF u, t
  <2>6. IsExactly(Fix(u), u)
    BY <2>2, FixIsExact
  <2>7. IsFloor(Fix(u), n, m)
    BY <2>2, <2>3, <2>6 DEF IsFloor
  <2> QED
    BY <2>5, <2>7 DEF m
<1> QED
  BY <1>2, <1>3

(* The numbers that CarryIsLost is about.                                  *)
LosesCarry(x1, s) == ~IsFix(x1) /\ s \div DigitBits < Size(x1) /\ KeepsZeros(x1, s)

(* C_s_a_i_arithmetic_shift to the right divides and rounds down, and its  *)
(* result is always in its only form.                                      *)
THEOREM RightShiftExact ==
  ASSUME NEW x1, NEW v, IsExactly(x1, v), NEW s \in Int, s < 0, NEW r \in Nat, r = -s
  PROVE  /\ \E u : IsExactly(ArithmeticShift(x1, s), u)
         /\ ~LosesCarry(x1, r) => IsFloor(ArithmeticShift(x1, s), v, Power(2, r))
<1> DEFINE m == Power(2, r)  a == ArithmeticShift(x1, s)
<1>1. m \in Nat /\ m >= 1 /\ v \in Int
  BY ExactInt, PositivePowers
<1>2. \A z, o : IsFloor(z, o, m) => \E u : IsExactly(z, u)
  BY DEF IsFloor
<1> DEFINE out == IF x1.neg THEN -1 ELSE 0
<1>3. CASE x1 = Zero
  <2>1. a = Zero
    BY <1>3 DEF ArithmeticShift
  <2>2. v = 0
    BY <1>3, ZeroIsExact DEF IsExactly
  <2> DEFINE z == 0
  <2> HIDE DEF m
  <2>3. z \in Int /\ z \in 0 .. m - 1 /\ 0 = z * m + z
    BY <1>1
  <2>4. IsExactly(Zero, z)
    BY ZeroIsExact
  <2> HIDE DEF z
  <2>5. IsFloor(Zero, v, m)
    BY <2>2, <2>3, <2>4 DEF IsFloor
  <2> QED
    BY <1>2, <2>1, <2>5 DEF m
<1>4. CASE x1 # Zero /\ IsFix(x1)
  <2> DEFINE n == x1.n
  <2>1. n \in Int /\ FitsFixnum(n) /\ v = n
    BY <1>4, ExactCases
  <2>2. a = Fix(IF r < DigitBits THEN n \div TwoTo[r] ELSE IF n < 0 THEN -1 ELSE 0)
    BY <1>4 DEF ArithmeticShift
  <2> HIDE DEF n
  <2>3. IsFloor(a, v, m)
    BY <2>1, <2>2, FixnumShiftExact
  <2> QED
    BY <1>2, <2>3
<1>5. CASE ~IsFix(x1)
  <2>1. x1 # Zero
    BY <1>5 DEF IsFix, Zero, Fix
  <2>2. a = ShiftDown(x1, r)
    BY <1>5, <2>1 DEF ArithmeticShift
  <2>3. x1.neg \in BOOLEAN /\ x1.d \in Seq(Digit) /\ v = Signed(x1.neg, Amount(x1.d)) /\ Size(x1) \in Nat
        /\ r \div DigitBits \in Int
    <3>1. Size(x1) \in Nat
      BY <1>5, ExactCases DEF Size
    <3>2. x1.neg \in BOOLEAN /\ x1.d \in Seq(Digit) /\ v = Signed(x1.neg, Amount(x1.d))
      BY <1>5, ExactCases
    <3>3. r \div DigitBits \in Int
      BY WordsAndBits
    <3> QED
      BY <3>1, <3>2, <3>3
  <2>4. CASE Size(x1) <= r \div DigitBits
    <3>1. a = Fix(out)
      BY <2>2, <2>4 DEF ShiftDown
    <3>2. Amount(x1.d) > 0
      <4> DEFINE neg == x1.neg  z == Amount(x1.d)
      <4>1. neg \in BOOLEAN /\ z \in Nat /\ v = Signed(neg, z) /\ ~FitsFixnum(v)
        BY <1>5, BigIsLarge
      <4> HIDE DEF neg, z
      <4>2. z # 0
        <5> SUFFICES ASSUME z = 0 PROVE FALSE
          OBVIOUS
        <5>1. z \in Int /\ z + z = 0
          BY <4>1
        <5>2. Signed(neg, z) = z
          BY <4>1, <5>1, SignedZero
        <5> QED
          BY <4>1, <5>2, BaseFacts DEF FitsFixnum
      <4>3. z > 0
        BY <4>1, <4>2
      <4> QED
        BY <4>3 DEF z
    <3>3. Len(x1.d) <= r \div DigitBits
      BY <2>4 DEF Size
    <3> DEFINE neg == x1.neg  d == x1.d
    <3>4. /\ neg \in BOOLEAN /\ d \in Seq(Digit) /\ Amount(d) > 0
          /\ Len(d) <= r \div DigitBits /\ out = IF neg THEN -1 ELSE 0
      BY <2>3, <3>2, <3>3
    <3>5. v = Signed(neg, Amount(d))
      BY <2>3
    <3> HIDE DEF neg, d, out
    <3>6. IsFloor(Fix(IF neg THEN -1 ELSE 0), Signed(neg, Amount(d)), Power(2, r))
      BY <3>4, AllShiftedOut
    <3>7. IsFloor(a, v, m)
      BY <3>1, <3>4, <3>5, <3>6
    <3> QED
      BY <1>2, <3>7
  <2>5. CASE r \div DigitBits < Size(x1)
    BY <1>5, <2>2, <2>5, ShiftDownExact DEF LosesCarry
  <2> QED
    BY <2>3, <2>4, <2>5
<1> QED
  BY <1>3, <1>4, <1>5

(* A power of two, in digits.                                              *)
LEMMA PowerDigits ==
  ASSUME NEW n \in Nat
  PROVE  IsExactly(Simplify(FALSE, Append(Zeros(n \div DigitBits), TwoTo[n % DigitBits])), Power(2, n))
<1> DEFINE k == n \div DigitBits  b == n % DigitBits  z == Zeros(k)  t == TwoTo[b]  d == Append(z, t)
<1>0. DigitBits \in Nat /\ DigitBits > 0 /\ n \in Int /\ 2 \in Int /\ 2 > 0
  BY BaseFacts
<1>1. k \in Nat /\ b \in 0 .. DigitBits /\ b \in Nat /\ Power(2, n) = Power(Base, k) * Power(2, b)
  BY WordsAndBits
<1>2. b \in 0 .. DigitBits - 1
  BY <1>0, DivMod
<1>3. t = Power(2, b)
  BY <1>1, TwoToIs
<1> HIDE DEF k, b
<1>4. t \in Digit
  <2> DEFINE c == DigitBits - 1
  <2>1. c \in Nat /\ b <= c /\ c + 1 = DigitBits
    BY <1>0, <1>2
  <2> HIDE DEF c
  <2>2. Power(2, b) <= Power(2, c)
    BY <1>0, <1>1, <2>1, PowerMonotone
  <2>3. Power(2, c + 1) = 2 * Power(2, c)
    BY <1>0, <2>1, PowerNext
  <2>4. Power(2, c) \in Nat /\ Power(2, b) \in Nat /\ Power(2, c) >= 1
    BY <1>1, <2>1, PositivePowers
  <2>5. Base = Power(2, c + 1)
    BY <2>1, BaseFacts
  <2> QED
    BY <1>3, <2>2, <2>3, <2>4, <2>5 DEF Digit
<1> HIDE DEF t
<1>5. z \in Seq(Digit) /\ Len(z) = k /\ \A i \in 1 .. k : z[i] = 0
  BY <1>1, DigitsAreInt DEF Zeros
<1> HIDE DEF z
<1>6. Amount(z) = 0
  <2>1. Base \in Int
    BY HalfFacts
  <2> QED
    BY <1>1, <1>5, <2>1, ValueOfZeros DEF Amount
<1>7. d \in Seq(Digit) /\ Amount(d) = Amount(z) + t * Power(Base, Len(z))
  BY <1>4, <1>5, AppendAmount
<1> DEFINE p == Power(Base, k)
<1>8. p \in Nat /\ t \in Nat
  BY <1>1, <1>3, PositivePowers
<1>9. Amount(d) = 0 + t * p
  BY <1>5, <1>6, <1>7
<1> DEFINE o == Power(2, n)
<1>10. o = p * t
  BY <1>1, <1>3
<1> HIDE DEF p, o, d
<1>11. Amount(d) = o
  <2>1. p * t = t * p /\ t * p \in Int
    BY <1>8, Distribute
  <2> QED
    BY <1>9, <1>10, <2>1
<1>12. o \in Nat
  BY <1>8, <1>10
<1>13. IsExactly(Simplify(FALSE, d), Signed(FALSE, Amount(d)))
  BY <1>7, SimplifyExact
<1>14. Signed(FALSE, o) = o
  BY DEF Signed
<1>15. IsExactly(Simplify(FALSE, d), o)
  BY <1>11, <1>13, <1>14
<1> QED
  BY <1>15 DEF d, o, z, t, k, b
=============================================================================
