-------------------------- MODULE CalculatorProofs --------------------------
(***************************************************************************)
(* The invariant of the two registers, and the correct rounding of the     *)
(* four operations on whatever they come to hold. TypeOK is inductive:     *)
(* every operation takes values that validate accepts to such values. An   *)
(* operation on an integer of any size passes through an operand whose     *)
(* precision may be above PREC_MAX, which is why the lemmas are about      *)
(* Operand.                                                                *)
(***************************************************************************)
EXTENDS Calculator, RoundingProofs

-----------------------------------------------------------------------------
(* Products and quotients.                                                 *)

\* What MulIsCorrect says of one product.
ProductRounded(a, b, q, rnd) ==
    CorrectlyRounded(Mul(a, b, q, rnd), q, rnd, LAMBDA n, k : ProductCmp(a, b, n, k))

\* The comparisons with a product, as a function.
ProductTable(a, b) == [i \in Int \X Int |-> ProductCmp(a, b, i[1], i[2])]

\* They are those with the product of the mantissas.
LEMMA MulCompares ==
    ASSUME NEW a, NEW b, Operand(a), a.kind = "normal", Operand(b), b.kind = "normal"
    PROVE  ComparesWith(ProductTable(a, b), a.sign * b.sign, a.mant * b.mant,
                        Scale(a) + Scale(b), 1, Scale(a) + Scale(b))
<1> DEFINE sign == a.sign * b.sign
           m == a.mant * b.mant
           X == sign * m
           l == Scale(a) + Scale(b)
           c == ProductTable(a, b)
<1>1. sign \in Sign /\ m \in Nat \ {0} /\ l \in Int
  BY NormalParts, ProductSign DEF Sign
<1>2. \A n, k \in Int : c[<<n, k>>] = ProductCmp(a, b, n, k)
  BY DEF ProductTable
<1>3. Num(a) * Num(b) = X
  BY NormalParts DEF Sign
<1> HIDE DEF sign, m, l, c
<1>4. ASSUME NEW t \in Int, NEW n \in Int, NEW k \in Int, t <= l, t <= k
      PROVE  c[<<n, k>>] = Sgn(n * (1 * Pow2(k - t)) - sign * (m * Pow2(l - t)))
  <2> DEFINE i == k - t
             j == l - t
  <2>1. X \in Int
    BY <1>1 DEF Sign
  <2>2. Pow2(i) \in Nat /\ Pow2(j) \in Nat /\ i \in Nat /\ j \in Nat /\ k - i = l - j
    BY <1>1, <1>4, Pow2Type
  <2>3. n * Pow2(i) = n * (1 * Pow2(i)) /\ X * Pow2(j) = sign * (m * Pow2(j))
    BY <1>1, <2>2 DEF Sign
  <2>4. ProductCmp(a, b, n, k) = CompareDyadic(n, k, X, l)
    BY <1>3 DEF ProductCmp, l
  <2> HIDE DEF X, i, j
  <2>5. CompareDyadic(n, k, X, l) = Sgn(n * Pow2(i) - X * Pow2(j))
    <3>1. n \in Int /\ k \in Int /\ X \in Int /\ l \in Int /\ i \in Nat /\ j \in Nat /\ k - i = l - j
      BY <1>1, <2>1, <2>2
    <3> HIDE DEF l
    <3> QED
      BY <3>1, CompareAt
  <2> QED
    BY <1>2, <2>3, <2>4, <2>5 DEF i, j
<1>5. ComparesWith(c, sign, m, l, 1, l)
  BY <1>4 DEF ComparesWith
<1> QED
  BY <1>5 DEF c, sign, m, l

\* Mul is correctly rounded for every pair of normal operands.
LEMMA MulCorrect ==
    ASSUME NEW a, NEW b, Operand(a), a.kind = "normal", Operand(b), b.kind = "normal",
           NEW q \in Precision, NEW rnd \in RoundingMode
    PROVE  ProductRounded(a, b, q, rnd)
<1> DEFINE res == Mul(a, b, q, rnd)
           sign == a.sign * b.sign
           m == a.mant * b.mant
           l == Scale(a) + Scale(b)
           c == ProductTable(a, b)
<1>1. sign \in Sign /\ m \in Nat \ {0} /\ l \in Int /\ RoundedTo(res, sign, q, rnd, m, l, 1)
  BY MulRounds, NormalParts
<1>2. \A n, k \in Int : c[<<n, k>>] = ProductCmp(a, b, n, k)
  BY DEF ProductTable
<1>3. ComparesWith(c, sign, m, l, 1, l)
  BY MulCompares
<1> HIDE DEF res, sign, m, l, c
<1>5. CorrectBy(res, q, rnd, c)
  <2>2. 1 \in Nat \ {0}
    OBVIOUS
  <2> QED
    BY <1>1, <1>3, <2>2, RoundedIsCorrect
<1> DEFINE v == res.value
           M == v.mant
           K == Scale(v)
           s == v.sign
<1>6. /\ c[<<s * M, K>>] = ProductCmp(a, b, s * M, K)
      /\ c[<<s * (M + 1), K>>] = ProductCmp(a, b, s * (M + 1), K)
      /\ c[<<s * (2 * M - 1), K - 1>>] = ProductCmp(a, b, s * (2 * M - 1), K - 1)
      /\ c[<<s * (M - 1), K>>] = ProductCmp(a, b, s * (M - 1), K)
      /\ c[<<s * (2 * M + 1), K - 1>>] = ProductCmp(a, b, s * (2 * M + 1), K - 1)
      /\ c[<<s * (4 * M - 1), K - 2>>] = ProductCmp(a, b, s * (4 * M - 1), K - 2)
      /\ c[<<0, 0>>] = ProductCmp(a, b, 0, 0)
  BY <1>1, <1>2, ComparedAtIntegers
<1> QED
  BY <1>5, <1>6 DEF ProductRounded, CorrectBy, CorrectlyRounded, res

\* What DivIsCorrect says of one quotient.
QuotientRounded(a, b, q, rnd) ==
    CorrectlyRounded(Div(a, b, q, rnd), q, rnd, LAMBDA n, k : QuotientCmp(a, b, n, k))

\* The comparisons with a quotient, as a function.
QuotientTable(a, b) == [i \in Int \X Int |-> QuotientCmp(a, b, i[1], i[2])]

\* They are those with the quotient of the mantissas.
LEMMA DivCompares ==
    ASSUME NEW a, NEW b, Operand(a), a.kind = "normal", Operand(b), b.kind = "normal"
    PROVE  ComparesWith(QuotientTable(a, b), a.sign * b.sign, a.mant, Scale(a) - Scale(b), b.mant,
                        Scale(a) - Scale(b))
<1> DEFINE as == a.sign
           bs == b.sign
           sign == a.sign * b.sign
           m == a.mant
           D == b.mant
           l == Scale(a) - Scale(b)
           c == QuotientTable(a, b)
<1>1. sign \in Sign /\ m \in Nat \ {0} /\ D \in Nat \ {0} /\ l \in Int
  BY NormalParts DEF Sign
<1>2. \A n, k \in Int : c[<<n, k>>] = QuotientCmp(a, b, n, k)
  BY DEF QuotientTable
<1>3. Num(a) = as * m /\ Num(b) = bs * D /\ as \in Sign /\ bs \in Sign /\ sign = as * bs
      /\ Scale(a) \in Int /\ Scale(b) \in Int /\ l = Scale(a) - Scale(b)
  BY NormalParts
<1> HIDE DEF sign, m, D, l, c, as, bs
<1>4. ASSUME NEW t \in Int, NEW n \in Int, NEW k \in Int, t <= l, t <= k
      PROVE  c[<<n, k>>] = Sgn(n * (D * Pow2(k - t)) - sign * (m * Pow2(l - t)))
  <2> DEFINE i == k - t
             j == l - t
             I == Pow2(i)
             J == Pow2(j)
             N == n * Num(b)
             K == k + Scale(b)
             X == Num(a)
             z == n * (D * I) - sign * (m * J)
  <2>1. X \in Int /\ N \in Int /\ K \in Int
    BY <1>1, <1>3 DEF Sign
  <2>2. i \in Nat /\ j \in Nat /\ K - i = Scale(a) - j
    BY <1>1, <1>3, <1>4
  <2>3. I \in Nat /\ J \in Nat
    BY <2>2, Pow2Type
  <2>4. QuotientCmp(a, b, n, k) = bs * CompareDyadic(N, K, X, Scale(a))
    BY DEF QuotientCmp, bs
  <2>5. N * I - X * J = bs * z /\ z \in Int /\ bs * (bs * Sgn(z)) = Sgn(z)
    <3> HIDE DEF I, J
    <3>1. z \in Int /\ n * (D * I) \in Int /\ m * J \in Int
      BY <1>1, <2>3 DEF Sign
    <3>2. N * I = bs * (n * (D * I))
      <4>1. (n * (bs * D)) * I = bs * (n * (D * I))
        BY <1>1, <1>3, <2>3 DEF Sign
      <4> QED
        BY <1>3, <4>1
    <3>3. X * J = as * (m * J) /\ sign * (m * J) = (as * bs) * (m * J)
      <4>1. (as * m) * J = as * (m * J)
        <5>1. m \in Int /\ J \in Int /\ (as = 1 \/ as = -1)
          <6>1. m \in Nat
            BY <1>1
          <6>2. as = 1 \/ as = -1
            BY <1>3 DEF Sign
          <6>3. m \in Int
            BY <6>1
          <6>4. J \in Int
            BY <2>3
          <6> QED
            BY <6>2, <6>3, <6>4
        <5>2. CASE as = 1
          BY <5>1, <5>2
        <5>3. CASE as = -1
          BY <5>1, <5>3
        <5> QED
          BY <5>1, <5>2, <5>3
      <4> QED
        BY <1>3, <4>1
    <3>4. Sgn(z) \in Int
      BY <3>1, SgnLaws
    <3> HIDE DEF X, N
    <3>5. N * I - X * J = bs * z
      <4> DEFINE u == n * (D * I)
                 v == m * J
      <4>1. N * I = bs * u /\ X * J = as * v /\ sign * v = (as * bs) * v /\ u \in Int /\ v \in Int
            /\ z = u - sign * v
        BY <3>1, <3>2, <3>3
      <4> HIDE DEF u, v, z
      <4>2. bs * u - as * v = bs * (u - (as * bs) * v)
        <5>1. as \in {1, -1} /\ bs \in {1, -1}
          BY <1>3 DEF Sign
        <5>2. CASE as = 1
          BY <4>1, <5>1, <5>2
        <5>3. CASE as = -1
          BY <4>1, <5>1, <5>3
        <5> QED
          BY <5>1, <5>2, <5>3
      <4> QED
        BY <4>1, <4>2
    <3> HIDE DEF z
    <3> QED
      BY <1>3, <3>1, <3>4, <3>5 DEF Sign
  <2> HIDE DEF X, N, K, i, j, I, J, z
  <2>6. CompareDyadic(N, K, X, Scale(a)) = Sgn(N * Pow2(i) - X * Pow2(j))
    BY <1>3, <2>1, <2>2, CompareAt
  <2>7. Sgn(bs * z) = bs * Sgn(z)
    BY <1>3, <2>5, SgnLaws
  <2>8. QuotientCmp(a, b, n, k) = Sgn(z)
    BY <2>4, <2>5, <2>6, <2>7 DEF I, J
  <2> QED
    BY <1>2, <2>8 DEF z, I, J, i, j
<1>5. ComparesWith(c, sign, m, l, D, l)
  BY <1>4 DEF ComparesWith
<1> QED
  BY <1>5 DEF c, sign, m, l, D

\* Div is correctly rounded for every pair of normal operands.
LEMMA DivCorrect ==
    ASSUME NEW a, NEW b, Operand(a), a.kind = "normal", Operand(b), b.kind = "normal",
           NEW q \in Precision, NEW rnd \in RoundingMode
    PROVE  QuotientRounded(a, b, q, rnd)
<1> DEFINE res == Div(a, b, q, rnd)
           sign == a.sign * b.sign
           m == a.mant
           D == b.mant
           l == Scale(a) - Scale(b)
           c == QuotientTable(a, b)
<1>1. sign \in Sign /\ m \in Nat \ {0} /\ D \in Nat \ {0} /\ l \in Int /\ RoundedTo(res, sign, q, rnd, m, l, D)
  BY DivRounds, NormalParts
<1>2. \A n, k \in Int : c[<<n, k>>] = QuotientCmp(a, b, n, k)
  BY DEF QuotientTable
<1>3. ComparesWith(c, sign, m, l, D, l)
  BY DivCompares
<1> HIDE DEF res, sign, m, D, l, c
<1>5. CorrectBy(res, q, rnd, c)
  BY <1>1, <1>3, RoundedIsCorrect
<1> DEFINE v == res.value
           M == v.mant
           K == Scale(v)
           s == v.sign
<1>6. /\ c[<<s * M, K>>] = QuotientCmp(a, b, s * M, K)
      /\ c[<<s * (M + 1), K>>] = QuotientCmp(a, b, s * (M + 1), K)
      /\ c[<<s * (2 * M - 1), K - 1>>] = QuotientCmp(a, b, s * (2 * M - 1), K - 1)
      /\ c[<<s * (M - 1), K>>] = QuotientCmp(a, b, s * (M - 1), K)
      /\ c[<<s * (2 * M + 1), K - 1>>] = QuotientCmp(a, b, s * (2 * M + 1), K - 1)
      /\ c[<<s * (4 * M - 1), K - 2>>] = QuotientCmp(a, b, s * (4 * M - 1), K - 2)
      /\ c[<<0, 0>>] = QuotientCmp(a, b, 0, 0)
  BY <1>1, <1>2, ComparedAtIntegers
<1> QED
  BY <1>5, <1>6 DEF QuotientRounded, CorrectBy, CorrectlyRounded, res

-----------------------------------------------------------------------------
(* Sums.                                                                   *)

\* The sign, the scale and the signed mantissa of a finite operand.
LEMMA FiniteParts ==
    ASSUME NEW a, Operand(a), Finite(a)
    PROVE  /\ Scale(a) \in Int /\ Num(a) \in Int /\ a.sign \in Sign
           /\ a.kind = "zero" \/ a.kind = "normal"
           /\ a.kind = "zero" => Num(a) = 0
<1>1. CASE a.kind = "normal"
  <2>1. Scale(a) \in Int /\ a.sign \in Sign /\ a.mant \in Nat \ {0} /\ Num(a) = a.sign * a.mant
    BY <1>1, NormalParts
  <2> QED
    BY <1>1, <2>1 DEF Sign
<1>2. CASE a.kind = "zero"
  <2>1. PICK s \in Sign, p \in Nat \ {0} : a = Zero(s, p)
    BY <1>2 DEF Operand, NAN_VALUE, Inf, Normal
  <2> QED
    BY <1>2, <2>1 DEF Zero, Scale, Num, Sign
<1> QED
  BY <1>1, <1>2 DEF Finite

\* a + b in units of 2^t.
SumOf(a, b, t) == Num(a) * Pow2(Scale(a) - t) + Num(b) * Pow2(Scale(b) - t)

\* The sum of the definition, in units of any power of two below the three
\* scales.
LEMMA SumAt ==
    ASSUME NEW a, NEW b, Operand(a), Finite(a), Operand(b), Finite(b),
           NEW n \in Int, NEW k \in Int, NEW t \in Int, t <= k, t <= Scale(a), t <= Scale(b)
    PROVE  SumCmp(a, b, n, k) = Sgn(n * Pow2(k - t) - SumOf(a, b, t))
<1> DEFINE sa == Scale(a)
           sb == Scale(b)
           na == Num(a)
           nb == Num(b)
           low == CHOOSE l \in {k, sa, sb} : \A i \in {k, sa, sb} : l <= i
           d == low - t
<1>1. sa \in Int /\ sb \in Int /\ na \in Int /\ nb \in Int
  BY FiniteParts
<1>2. low \in {k, sa, sb} /\ \A i \in {k, sa, sb} : low <= i
  <2>1. \E l \in {k, sa, sb} : \A i \in {k, sa, sb} : l <= i
    BY <1>1
  <2> QED
    BY <2>1
<1>3. SumCmp(a, b, n, k) = Sgn(n * Pow2(k - low) - na * Pow2(sa - low) - nb * Pow2(sb - low))
  BY Zenon DEF SumCmp
<1> DEFINE z == n * Pow2(k - low) - na * Pow2(sa - low) - nb * Pow2(sb - low)
<1> HIDE DEF sa, sb, na, nb, low
<1>4. /\ low \in Int /\ d \in Nat /\ k - low \in Nat /\ sa - low \in Nat /\ sb - low \in Nat
      /\ (k - low) + d = k - t /\ (sa - low) + d = sa - t /\ (sb - low) + d = sb - t
  BY <1>1, <1>2 DEF sa, sb
<1> HIDE DEF d
<1> DEFINE K == Pow2(k - low)
           A == Pow2(sa - low)
           B == Pow2(sb - low)
           D == Pow2(d)
<1>5. K \in Nat /\ A \in Nat /\ B \in Nat /\ D \in Nat \ {0}
  BY <1>4, Pow2Type
<1>6. Pow2(k - t) = K * D /\ Pow2(sa - t) = A * D /\ Pow2(sb - t) = B * D
  <2>1. Pow2((k - low) + d) = K * D /\ Pow2((sa - low) + d) = A * D /\ Pow2((sb - low) + d) = B * D
    BY <1>4, Pow2Sum
  <2> QED
    BY <1>4, <2>1
<1> HIDE DEF K, A, B, D
<1>7. n * (K * D) - (na * (A * D) + nb * (B * D)) = (n * K - na * A - nb * B) * D
      /\ n * K - na * A - nb * B \in Int
  BY <1>1, <1>5
<1>8. Sgn((n * K - na * A - nb * B) * D) = Sgn(n * K - na * A - nb * B)
  <2> DEFINE w == n * K - na * A - nb * B
  <2>1. w \in Int
    BY <1>7
  <2> HIDE DEF w
  <2>2. Sgn(w * D) = Sgn(w)
    BY <1>5, <2>1, SgnScale
  <2> QED
    BY <2>2 DEF w
<1>9. n * Pow2(k - t) - SumOf(a, b, t) = n * (K * D) - (na * (A * D) + nb * (B * D))
  BY <1>6 DEF SumOf, sa, sb, na, nb
<1> QED
  BY <1>3, <1>7, <1>8, <1>9 DEF K, A, B

\* The shifted mantissa of addNormalNormal has prec + n bits.
LEMMA AlignedLength ==
    ASSUME NEW a, Operand(a), a.kind = "normal", NEW n \in Nat
    PROVE  /\ a.prec + n \in Nat \ {0}
           /\ a.mant * Pow2(n) \in Nat \ {0}
           /\ Pow2((a.prec + n) - 1) <= a.mant * Pow2(n)
           /\ a.mant * Pow2(n) < Pow2(a.prec + n)
<1> DEFINE p == a.prec
           m == a.mant
<1>1. p \in Nat \ {0} /\ m \in Pow2(p - 1) .. Pow2(p) - 1
  BY NormalParts
<1> HIDE DEF p, m
<1>2. /\ p + n \in Nat \ {0}
      /\ m * Pow2(n) \in Nat \ {0}
      /\ m * Pow2(n) \in Pow2((p + n) - 1) .. Pow2(p + n) - 1
  BY <1>1, ShiftedLength
<1>3. Pow2((p + n) - 1) \in Nat \ {0} /\ Pow2(p + n) \in Nat \ {0}
  BY <1>2, LengthBounds
<1> QED
  BY <1>2, <1>3 DEF p, m

\* The sum of two magnitudes of i and of j bits has the longer of the two
\* lengths, or one bit more.
SumHasLength(i, j, m, n) ==
    LET max == IF i > j THEN i ELSE j
        L == IF m + n >= Pow2(max) THEN max + 1 ELSE max
    IN  L \in Nat \ {0} /\ m + n \in Nat \ {0} /\ m + n \in Pow2(L - 1) .. Pow2(L) - 1

\* The sum of two mantissas has the length of the longer, or one bit more.
LEMMA LongerLength ==
    ASSUME NEW i \in Nat \ {0}, NEW j \in Nat \ {0}, NEW m \in Nat, NEW n \in Nat,
           Pow2(i - 1) <= m, m < Pow2(i), Pow2(j - 1) <= n, n < Pow2(j)
    PROVE  SumHasLength(i, j, m, n)
<1> DEFINE max == IF i > j THEN i ELSE j
           L == IF m + n >= Pow2(max) THEN max + 1 ELSE max
<1> SUFFICES L \in Nat \ {0} /\ m + n \in Nat \ {0} /\ m + n \in Pow2(L - 1) .. Pow2(L) - 1
  BY DEF SumHasLength
<1>1. /\ Pow2(i - 1) \in Nat \ {0} /\ Pow2(i) \in Nat \ {0}
      /\ Pow2(j - 1) \in Nat \ {0} /\ Pow2(j) \in Nat \ {0}
  BY LengthBounds
<1>2. max \in Nat \ {0} /\ i <= max /\ j <= max /\ (max = i \/ max = j)
  OBVIOUS
<1>3. Pow2(i) <= Pow2(max) /\ Pow2(j) <= Pow2(max)
  BY <1>2, Pow2Split
<1>4. Pow2(max - 1) \in Nat \ {0} /\ Pow2(max) \in Nat \ {0} /\ Pow2(max + 1) = 2 * Pow2(max)
  BY <1>2, LengthBounds, Pow2Step
<1>5. Pow2(max - 1) <= m + n
  BY <1>1, <1>2, <1>4
<1>6. m + n < 2 * Pow2(max)
  BY <1>1, <1>3, <1>4
<1>7. CASE m + n >= Pow2(max)
  <2>1. L = max + 1 /\ L - 1 = max
    BY <1>2, <1>7
  <2> QED
    BY <1>2, <1>4, <1>6, <1>7, <2>1
<1>8. CASE ~(m + n >= Pow2(max))
  <2>1. L = max
    BY <1>8
  <2> QED
    BY <1>1, <1>2, <1>4, <1>5, <1>8, <2>1
<1> QED
  BY <1>7, <1>8

\* The result is the sum of a and b rounded to q bits, or the zero it is.
SumRounding(res, a, b, q, rnd) ==
    \/ /\ \A t \in Int : t <= Scale(a) /\ t <= Scale(b) => SumOf(a, b, t) = 0
       /\ \E z \in Sign : res = Exactly(Zero(z, q))
    \/ \E s \in Sign, m \in Nat \ {0}, l \in Int :
          /\ RoundedTo(res, s, q, rnd, m, l, 1)
          /\ \A t \in Int : t <= l /\ t <= Scale(a) /\ t <= Scale(b) =>
                SumOf(a, b, t) = s * (m * Pow2(l - t))

\* addNormalNormal rounds the sum, whichever of its four cases it takes.
LEMMA AddNormalRounds ==
    ASSUME NEW a, NEW b, Operand(a), a.kind = "normal", Operand(b), b.kind = "normal",
           NEW q \in Precision, NEW rnd \in RoundingMode
    PROVE  SumRounding(AddNormalNormal(a, b, q, rnd), a, b, q, rnd)
<1> DEFINE lowA == a.exp - a.prec
           lowB == b.exp - b.prec
           anchor == IF lowA < lowB THEN lowA ELSE lowB
           am == a.mant * Pow2(lowA - anchor)
           bm == b.mant * Pow2(lowB - anchor)
           Pack(sign, magnitude, L) ==
               IF L = 0 THEN EPREC
                        ELSE PackNormal(sign, anchor + L, magnitude, L, q, rnd)
           res == AddNormalNormal(a, b, q, rnd)
<1>1. /\ a.sign \in Sign /\ b.sign \in Sign /\ a.prec \in Nat \ {0} /\ b.prec \in Nat \ {0}
      /\ a.exp \in Int /\ b.exp \in Int /\ a.mant \in Nat \ {0} /\ b.mant \in Nat \ {0}
      /\ Scale(a) = lowA /\ Scale(b) = lowB
      /\ Num(a) = a.sign * a.mant /\ Num(b) = b.sign * b.mant
  BY NormalParts
<1>2. anchor \in Int /\ lowA - anchor \in Nat /\ lowB - anchor \in Nat
  BY <1>1
<1>3. q \in Nat \ {0}
  BY PrecAssumption DEF Precision
<1>4. /\ a.exp - anchor \in Nat \ {0} /\ am \in Nat \ {0}
      /\ Pow2((a.exp - anchor) - 1) <= am /\ am < Pow2(a.exp - anchor)
  <2> DEFINE n == lowA - anchor
  <2>1. a.prec + n = a.exp - anchor /\ n \in Nat
    BY <1>1, <1>2
  <2> HIDE DEF n, anchor
  <2>2. /\ a.prec + n \in Nat \ {0} /\ a.mant * Pow2(n) \in Nat \ {0}
        /\ Pow2((a.prec + n) - 1) <= a.mant * Pow2(n) /\ a.mant * Pow2(n) < Pow2(a.prec + n)
    BY <2>1, AlignedLength
  <2> QED
    BY <2>1, <2>2 DEF n
<1>5. /\ b.exp - anchor \in Nat \ {0} /\ bm \in Nat \ {0}
      /\ Pow2((b.exp - anchor) - 1) <= bm /\ bm < Pow2(b.exp - anchor)
  <2> DEFINE n == lowB - anchor
  <2>1. b.prec + n = b.exp - anchor /\ n \in Nat
    BY <1>1, <1>2
  <2> HIDE DEF n, anchor
  <2>2. /\ b.prec + n \in Nat \ {0} /\ b.mant * Pow2(n) \in Nat \ {0}
        /\ Pow2((b.prec + n) - 1) <= b.mant * Pow2(n) /\ b.mant * Pow2(n) < Pow2(b.prec + n)
    BY <2>1, AlignedLength
  <2> QED
    BY <2>1, <2>2 DEF n
<1>6. res = CASE a.sign = b.sign -> Pack(a.sign, am + bm, SumLength(a, b, anchor, am + bm))
              [] a.sign # b.sign /\ am = bm -> Exactly(Zero(CancellationZeroSign(rnd), q))
              [] a.sign # b.sign /\ am > bm -> Pack(a.sign, am - bm, BitLength[am - bm])
              [] a.sign # b.sign /\ am < bm -> Pack(b.sign, bm - am, BitLength[bm - am])
  BY Zenon DEF AddNormalNormal
\* The sum in units of 2^t.
<1>7. ASSUME NEW t \in Int, t <= lowA, t <= lowB
      PROVE  /\ SumOf(a, b, t) = (a.sign * am + b.sign * bm) * Pow2(anchor - t)
             /\ anchor - t \in Nat /\ Pow2(anchor - t) \in Nat
  <2> DEFINE d == anchor - t
             D == Pow2(d)
             A == Pow2(lowA - anchor)
             B == Pow2(lowB - anchor)
  <2>1. d \in Nat /\ (lowA - anchor) + d = lowA - t /\ (lowB - anchor) + d = lowB - t
    BY <1>1, <1>2, <1>7
  <2> HIDE DEF d
  <2>2. D \in Nat /\ A \in Nat /\ B \in Nat
    BY <1>2, <2>1, Pow2Type
  <2>3. Pow2(lowA - t) = A * D /\ Pow2(lowB - t) = B * D
    <3>1. Pow2((lowA - anchor) + d) = A * D /\ Pow2((lowB - anchor) + d) = B * D
      BY <1>2, <2>1, Pow2Sum
    <3> QED
      BY <2>1, <3>1
  <2>4. SumOf(a, b, t) = (a.sign * a.mant) * Pow2(lowA - t) + (b.sign * b.mant) * Pow2(lowB - t)
    BY <1>1 DEF SumOf
  <2> HIDE DEF D, A, B, lowA, lowB, anchor
  <2>5. (a.sign * a.mant) * (A * D) + (b.sign * b.mant) * (B * D)
        = (a.sign * (a.mant * A) + b.sign * (b.mant * B)) * D
    BY <1>1, <2>2 DEF Sign
  <2>6. SumOf(a, b, t) = (a.sign * (a.mant * A) + b.sign * (b.mant * B)) * D
    BY <2>3, <2>4, <2>5
  <2> QED
    BY <2>1, <2>2, <2>6 DEF d, D, A, B
<1> SUFFICES SumRounding(res, a, b, q, rnd)
  OBVIOUS
<1> HIDE DEF lowA, lowB, anchor, am, bm, res
\* The common end of the three cases that leave something.
<1>8. ASSUME NEW s \in Sign, NEW m \in Nat \ {0}, NEW L \in Nat \ {0},
             m \in Pow2(L - 1) .. Pow2(L) - 1, res = Pack(s, m, L),
             a.sign * am + b.sign * bm = s * m
      PROVE  SumRounding(res, a, b, q, rnd)
  <2>1. res = PackNormal(s, anchor + L, m, L, q, rnd)
    BY <1>8
  <2>2. RoundedTo(res, s, q, rnd, m, anchor, 1)
    <3> DEFINE e == anchor + L
    <3>1. e \in Int /\ e - L = anchor
      BY <1>2
    <3> HIDE DEF e
    <3>2. RoundedTo(PackNormal(s, e, m, L, q, rnd), s, q, rnd, m, e - L, 1)
      BY <1>3, <1>8, <3>1, PackNormalRounds
    <3> QED
      BY <2>1, <3>1, <3>2 DEF e
  <2>3. ASSUME NEW t \in Int, t <= anchor, t <= Scale(a), t <= Scale(b)
        PROVE  SumOf(a, b, t) = s * (m * Pow2(anchor - t))
    <3>1. SumOf(a, b, t) = (s * m) * Pow2(anchor - t) /\ Pow2(anchor - t) \in Nat
      BY <1>1, <1>7, <1>8, <2>3
    <3> QED
      BY <1>8, <3>1 DEF Sign
  <2> QED
    BY <1>2, <2>2, <2>3 DEF SumRounding
<1>9. CASE a.sign = b.sign
  <2> DEFINE i == a.exp - anchor
             j == b.exp - anchor
             max == IF i > j THEN i ELSE j
             sum == am + bm
             L == SumLength(a, b, anchor, am + bm)
  <2>1. sum = am + bm /\ L = IF sum >= Pow2(max) THEN max + 1 ELSE max
    BY DEF SumLength
  <2>2. i \in Nat \ {0} /\ j \in Nat \ {0} /\ max = IF i > j THEN i ELSE j
    BY <1>4, <1>5
  <2>3. /\ am \in Nat /\ bm \in Nat /\ Pow2(i - 1) <= am /\ am < Pow2(i)
        /\ Pow2(j - 1) <= bm /\ bm < Pow2(j)
    BY <1>4, <1>5
  <2>4. res = Pack(a.sign, am + bm, L)
    BY <1>6, <1>9
  <2> HIDE DEF i, j, max, L, sum
  <2>5. L \in Nat \ {0} /\ sum \in Nat \ {0} /\ sum \in Pow2(L - 1) .. Pow2(L) - 1
    <3>1. SumHasLength(i, j, am, bm)
      BY <2>2, <2>3, LongerLength
    <3> QED
      BY <2>1, <2>2, <3>1 DEF SumHasLength
  <2>6. a.sign * am + b.sign * bm = a.sign * sum
    BY <1>1, <1>9, <2>1, <2>3 DEF Sign
  <2> QED
    BY <1>1, <1>8, <2>1, <2>4, <2>5, <2>6
<1>10. CASE a.sign # b.sign /\ am = bm
  <2>1. res = Exactly(Zero(CancellationZeroSign(rnd), q))
    BY <1>4, <1>5, <1>6, <1>10
  <2>2. a.sign * am + b.sign * bm = 0
    BY <1>1, <1>4, <1>10 DEF Sign
  <2>3. ASSUME NEW t \in Int, t <= Scale(a), t <= Scale(b)
        PROVE  SumOf(a, b, t) = 0
    BY <1>1, <1>7, <2>2, <2>3
  <2> QED
    BY <2>1, <2>3 DEF SumRounding, CancellationZeroSign, Sign
<1>11. CASE a.sign # b.sign /\ am > bm
  <2> DEFINE m == am - bm
             L == BitLength[m]
  <2>1. m \in Nat \ {0} /\ a.sign * am + b.sign * bm = a.sign * m
    BY <1>1, <1>4, <1>5, <1>11 DEF Sign
  <2>2. res = Pack(a.sign, m, L)
    BY <1>4, <1>5, <1>6, <1>11
  <2> HIDE DEF m
  <2>3. L \in Nat \ {0} /\ m \in Pow2(L - 1) .. Pow2(L) - 1
    BY <2>1, BitLengthBounds
  <2> HIDE DEF L
  <2> QED
    BY <1>1, <1>8, <2>1, <2>2, <2>3
<1>12. CASE a.sign # b.sign /\ am < bm
  <2> DEFINE m == bm - am
             L == BitLength[m]
  <2>1. m \in Nat \ {0} /\ a.sign * am + b.sign * bm = b.sign * m
    BY <1>1, <1>4, <1>5, <1>12 DEF Sign
  <2>2. res = Pack(b.sign, m, L)
    BY <1>4, <1>5, <1>6, <1>12
  <2> HIDE DEF m
  <2>3. L \in Nat \ {0} /\ m \in Pow2(L - 1) .. Pow2(L) - 1
    BY <2>1, BitLengthBounds
  <2> HIDE DEF L
  <2> QED
    BY <1>1, <1>8, <2>1, <2>2, <2>3
<1>13. a.sign = b.sign \/ (a.sign # b.sign /\ (am = bm \/ am > bm \/ am < bm))
  BY <1>4, <1>5
<1> QED
  BY <1>9, <1>10, <1>11, <1>12, <1>13

\* A normal operand added to a zero is rounded as it stands.
LEMMA OperandRounds ==
    ASSUME NEW a, NEW b, NEW v, Operand(v), v.kind = "normal", Operand(a), Finite(a), Operand(b), Finite(b),
           NEW q \in Precision, NEW rnd \in RoundingMode,
           \/ v = b /\ a.kind = "zero"
           \/ v = a /\ b.kind = "zero"
    PROVE  SumRounding(PackNormal(v.sign, v.exp, v.mant, v.prec, q, rnd), a, b, q, rnd)
<1> DEFINE s == v.sign
           e == v.exp
           m == v.mant
           p == v.prec
           l == e - p
           res == PackNormal(s, e, m, p, q, rnd)
<1>1. s \in Sign /\ e \in Int /\ p \in Nat \ {0} /\ m \in Nat \ {0}
      /\ m \in Pow2(p - 1) .. Pow2(p) - 1 /\ l = Scale(v) /\ l \in Int
      /\ Num(v) = s * m
  BY NormalParts
<1>2. q \in Nat \ {0}
  BY PrecAssumption DEF Precision
<1>3. RoundedTo(res, s, q, rnd, m, l, 1)
  <2> HIDE DEF s, e, m, p
  <2> QED
    BY <1>1, <1>2, PackNormalRounds
<1> HIDE DEF res, s, m, l
<1>4. ASSUME NEW t \in Int, t <= l, t <= Scale(a), t <= Scale(b)
      PROVE  SumOf(a, b, t) = s * (m * Pow2(l - t))
  <2> DEFINE A == Pow2(Scale(a) - t)
             B == Pow2(Scale(b) - t)
  <2>1. Scale(a) \in Int /\ Scale(b) \in Int
    BY FiniteParts
  <2>2. A \in Nat /\ B \in Nat
    <3> DEFINE i == Scale(a) - t
               j == Scale(b) - t
    <3>1. i \in Nat /\ j \in Nat
      BY <1>4, <2>1
    <3> HIDE DEF i, j
    <3>2. Pow2(i) \in Nat /\ Pow2(j) \in Nat
      BY <3>1, Pow2Type
    <3> QED
      BY <3>2 DEF i, j
  <2>3. SumOf(a, b, t) = Num(a) * A + Num(b) * B
    BY DEF SumOf
  <2> HIDE DEF A, B
  <2>4. (s * m) * A = s * (m * A) /\ (s * m) * B = s * (m * B) /\ (s * m) * A \in Int /\ (s * m) * B \in Int
    BY <1>1, <2>2 DEF Sign
  <2>5. CASE v = b /\ a.kind = "zero"
    <3>1. Num(a) = 0 /\ Num(b) = s * m
      BY <1>1, <2>5, FiniteParts
    <3>2. B = Pow2(l - t)
      BY <1>1, <2>5 DEF B
    <3> QED
      BY <2>2, <2>3, <2>4, <3>1, <3>2
  <2>6. CASE v = a /\ b.kind = "zero"
    <3>1. Num(b) = 0 /\ Num(a) = s * m
      BY <1>1, <2>6, FiniteParts
    <3>2. A = Pow2(l - t)
      BY <1>1, <2>6 DEF A
    <3> QED
      BY <2>2, <2>3, <2>4, <3>1, <3>2
  <2> QED
    BY <2>5, <2>6
<1>5. SumRounding(res, a, b, q, rnd)
  BY <1>1, <1>3, <1>4 DEF SumRounding
<1> QED
  BY <1>5 DEF res, s, m

\* Add rounds the sum of two finite operands, zeros included.
LEMMA AddRounds ==
    ASSUME NEW a, NEW b, Operand(a), Finite(a), Operand(b), Finite(b),
           NEW q \in Precision, NEW rnd \in RoundingMode
    PROVE  SumRounding(Add(a, b, q, rnd), a, b, q, rnd)
<1>1. (a.kind = "zero" \/ a.kind = "normal") /\ (b.kind = "zero" \/ b.kind = "normal")
  BY DEF Finite
<1>2. CASE a.kind = "zero" /\ b.kind = "zero"
  <2>1. Add(a, b, q, rnd) = Exactly(Zero(ZeroSumSign(a.sign, b.sign, rnd), q))
    BY <1>2 DEF Add
  <2>2. ASSUME NEW t \in Int, t <= Scale(a), t <= Scale(b)
        PROVE  SumOf(a, b, t) = 0
    <3> DEFINE i == Scale(a) - t
               j == Scale(b) - t
    <3>1. i \in Nat /\ j \in Nat
      BY <2>2, FiniteParts
    <3> HIDE DEF i, j
    <3>2. Pow2(i) \in Nat /\ Pow2(j) \in Nat
      BY <3>1, Pow2Type
    <3>3. Num(a) = 0 /\ Num(b) = 0
      BY <1>2, FiniteParts
    <3> QED
      BY <3>2, <3>3 DEF SumOf, i, j
  <2> QED
    BY <2>1, <2>2 DEF SumRounding, ZeroSumSign, Sign
<1>3. CASE a.kind = "zero" /\ b.kind = "normal"
  <2>1. Add(a, b, q, rnd) = PackNormal(b.sign, b.exp, b.mant, b.prec, q, rnd)
    BY <1>3 DEF Add
  <2> QED
    BY <1>3, <2>1, OperandRounds
<1>4. CASE a.kind = "normal" /\ b.kind = "zero"
  <2>1. Add(a, b, q, rnd) = PackNormal(a.sign, a.exp, a.mant, a.prec, q, rnd)
    BY <1>4 DEF Add
  <2> QED
    BY <1>4, <2>1, OperandRounds
<1>5. CASE a.kind = "normal" /\ b.kind = "normal"
  <2>1. Add(a, b, q, rnd) = AddNormalNormal(a, b, q, rnd)
    BY <1>5 DEF Add
  <2> QED
    BY <1>5, <2>1, AddNormalRounds
<1> QED
  BY <1>1, <1>2, <1>3, <1>4, <1>5

\* What AddIsCorrect says of one sum.
SumRounded(a, b, q, rnd) ==
    LET res == Add(a, b, q, rnd)
    IN  IF SumCmp(a, b, 0, 0) = 0
        THEN res.value.kind = "zero" /\ res.ternary = 0
        ELSE CorrectlyRounded(res, q, rnd, LAMBDA n, k : SumCmp(a, b, n, k))

\* The comparisons with a sum, as a function.
SumTable(a, b) == [i \in Int \X Int |-> SumCmp(a, b, i[1], i[2])]

\* res is an exact zero sum, or a rounding of what the sum compares with.
SumOutcome(res, a, b, q, rnd) ==
    \/ SumCmp(a, b, 0, 0) = 0 /\ res.value.kind = "zero" /\ res.ternary = 0
    \/ \E s \in Sign, m \in Nat \ {0}, l, low \in Int :
          RoundedTo(res, s, q, rnd, m, l, 1) /\ ComparesWith(SumTable(a, b), s, m, l, 1, low)

\* Add gives one or the other.
LEMMA AddCompares ==
    ASSUME NEW a, NEW b, Operand(a), Finite(a), Operand(b), Finite(b),
           NEW q \in Precision, NEW rnd \in RoundingMode
    PROVE  SumOutcome(Add(a, b, q, rnd), a, b, q, rnd)
<1> DEFINE res == Add(a, b, q, rnd)
           sa == Scale(a)
           sb == Scale(b)
           low == IF sa <= sb THEN sa ELSE sb
           c == SumTable(a, b)
<1>1. sa \in Int /\ sb \in Int /\ low \in Int /\ low <= sa /\ low <= sb
      /\ \A t \in Int : t <= low => t <= sa /\ t <= sb
  BY FiniteParts
<1>2. \A n, k \in Int : c[<<n, k>>] = SumCmp(a, b, n, k)
  BY DEF SumTable
<1>3. SumRounding(res, a, b, q, rnd)
  BY AddRounds
<1> HIDE DEF c, low
<1>4. CASE /\ \A t \in Int : t <= sa /\ t <= sb => SumOf(a, b, t) = 0
           /\ \E z \in Sign : res = Exactly(Zero(z, q))
  <2> DEFINE t == IF low <= 0 THEN low ELSE 0
             d == 0 - t
  <2>1. t \in Int /\ t <= sa /\ t <= sb /\ t <= 0 /\ d \in Nat
    BY <1>1
  <2> HIDE DEF t
  <2>2. SumCmp(a, b, 0, 0) = Sgn(0 * Pow2(0 - t) - SumOf(a, b, t))
    <3>1. 0 \in Int
      OBVIOUS
    <3> QED
      BY <2>1, <3>1, SumAt
  <2>3. SumOf(a, b, t) = 0
    BY <1>4, <2>1
  <2>4. Pow2(0 - t) \in Nat
    <3> HIDE DEF d
    <3>1. Pow2(d) \in Nat
      BY <2>1, Pow2Type
    <3> QED
      BY <3>1 DEF d
  <2>5. SumCmp(a, b, 0, 0) = 0
    BY <2>2, <2>3, <2>4 DEF Sgn
  <2>6. res.value.kind = "zero" /\ res.ternary = 0
    BY <1>4 DEF Exactly, Result, Zero
  <2> QED
    BY <2>5, <2>6 DEF SumOutcome
<1>5. CASE \E s \in Sign, m \in Nat \ {0}, l \in Int :
             /\ RoundedTo(res, s, q, rnd, m, l, 1)
             /\ \A t \in Int : t <= l /\ t <= sa /\ t <= sb => SumOf(a, b, t) = s * (m * Pow2(l - t))
  <2> PICK s \in Sign, m \in Nat \ {0}, l \in Int :
             /\ RoundedTo(res, s, q, rnd, m, l, 1)
             /\ \A t \in Int : t <= l /\ t <= sa /\ t <= sb => SumOf(a, b, t) = s * (m * Pow2(l - t))
    BY <1>5
  <2> HIDE DEF res
  <2>1. ASSUME NEW t \in Int, NEW n \in Int, NEW k \in Int, t <= low, t <= l, t <= k
        PROVE  c[<<n, k>>] = Sgn(n * (1 * Pow2(k - t)) - s * (m * Pow2(l - t)))
    <3>1. t <= sa /\ t <= sb
      BY <1>1, <2>1
    <3>2. SumCmp(a, b, n, k) = Sgn(n * Pow2(k - t) - SumOf(a, b, t))
      BY <2>1, <3>1, SumAt
    <3>3. SumOf(a, b, t) = s * (m * Pow2(l - t))
      BY <2>1, <3>1
    <3>4. 1 * Pow2(k - t) = Pow2(k - t)
      <4> DEFINE d == k - t
      <4>1. d \in Nat
        BY <2>1
      <4> HIDE DEF d
      <4>2. Pow2(d) \in Nat
        BY <4>1, Pow2Type
      <4> QED
        BY <4>2 DEF d
    <3> QED
      BY <1>2, <3>2, <3>3, <3>4, Zenon
  <2>2. ComparesWith(c, s, m, l, 1, low)
    BY <2>1 DEF ComparesWith
  <2> QED
    BY <1>1, <2>2 DEF SumOutcome, c, res
<1> QED
  BY <1>3, <1>4, <1>5 DEF SumRounding

\* Add is correctly rounded for every pair of finite operands.
LEMMA AddCorrect ==
    ASSUME NEW a, NEW b, Operand(a), Finite(a), Operand(b), Finite(b),
           NEW q \in Precision, NEW rnd \in RoundingMode
    PROVE  SumRounded(a, b, q, rnd)
<1> DEFINE res == Add(a, b, q, rnd)
           c == SumTable(a, b)
<1>1. SumOutcome(res, a, b, q, rnd)
  BY AddCompares
<1>2. \A n, k \in Int : c[<<n, k>>] = SumCmp(a, b, n, k)
  BY DEF SumTable
<1>3. CASE SumCmp(a, b, 0, 0) = 0 /\ res.value.kind = "zero" /\ res.ternary = 0
  BY <1>3 DEF SumRounded
<1> HIDE DEF c, res
<1>4. CASE \E s \in Sign, m \in Nat \ {0}, l, low \in Int :
              RoundedTo(res, s, q, rnd, m, l, 1) /\ ComparesWith(c, s, m, l, 1, low)
  <2> PICK s \in Sign, m \in Nat \ {0}, l, low \in Int :
              RoundedTo(res, s, q, rnd, m, l, 1) /\ ComparesWith(c, s, m, l, 1, low)
    BY <1>4
  <2>2. CorrectBy(res, q, rnd, c)
    <3>2. 1 \in Nat \ {0}
      OBVIOUS
    <3> QED
      BY <3>2, RoundedIsCorrect
  <2> DEFINE v == res.value
             M == v.mant
             K == Scale(v)
             g == v.sign
  <2>3. /\ c[<<g * M, K>>] = SumCmp(a, b, g * M, K)
        /\ c[<<g * (M + 1), K>>] = SumCmp(a, b, g * (M + 1), K)
        /\ c[<<g * (2 * M - 1), K - 1>>] = SumCmp(a, b, g * (2 * M - 1), K - 1)
        /\ c[<<g * (M - 1), K>>] = SumCmp(a, b, g * (M - 1), K)
        /\ c[<<g * (2 * M + 1), K - 1>>] = SumCmp(a, b, g * (2 * M + 1), K - 1)
        /\ c[<<g * (4 * M - 1), K - 2>>] = SumCmp(a, b, g * (4 * M - 1), K - 2)
        /\ c[<<0, 0>>] = SumCmp(a, b, 0, 0)
    <3>1. 1 \in Nat \ {0}
      OBVIOUS
    <3> QED
      BY <1>2, <3>1, ComparedAtIntegers
  <2>4. CorrectlyRounded(res, q, rnd, LAMBDA n, k : SumCmp(a, b, n, k))
    BY <2>2, <2>3 DEF CorrectBy, CorrectlyRounded
  <2>5. SumCmp(a, b, 0, 0) # 0
    <3>1. v.sign \in Sign
      BY RoundedToIsValid
    <3> QED
      BY <2>4, <3>1 DEF CorrectlyRounded, Sign
  <2> QED
    BY <2>4, <2>5 DEF SumRounded, res
<1> QED
  BY <1>1, <1>3, <1>4 DEF SumOutcome, c

-----------------------------------------------------------------------------
(* Roots.                                                                  *)

\* Squared, a number n * 2^k compares with the operand as it does with the
\* mantissa that mpfr_sqrt packs.
LEMMA RootCompares ==
    ASSUME NEW v, Operand(v), v.kind = "normal", v.sign = 1, NEW q \in Nat \ {0},
           NEW M, M = RootMant(v, q), M \in Nat \ {0}, NEW l \in Int, l = RootLow(v, q),
           NEW n \in Int, NEW k \in Int, k >= l, k > l \/ n # M
    PROVE  RootCmp(v, n, k) = CompareDyadic(n, k, M, l)
<1> DEFINE s == RootShift(v, q)
           num == RootNum(v, q)
           D == RootDen(v, q)
           m == v.mant
           u == k - l
           U == Pow2(u)
           X == n * U
           t == IF s >= 0 THEN 0 ELSE -s
<1>1. /\ m \in Nat \ {0} /\ v.prec \in Nat /\ v.exp \in Int /\ Scale(v) \in Int
      /\ Scale(v) = v.exp - v.prec
  BY NormalParts
<1>2. s \in Int /\ num \in Nat /\ D \in Nat \ {0}
  BY RadicandLength
<1>3. u \in Nat /\ U \in Nat \ {0} /\ X \in Int /\ (u > 0 \/ n # M)
  <2>1. u \in Nat /\ (u > 0 \/ n # M)
    OBVIOUS
  <2>2. U \in Nat \ {0}
    BY <2>1, Pow2Type
  <2> HIDE DEF U, u
  <2>3. X \in Int
    BY <2>2
  <2> QED
    BY <2>1, <2>2, <2>3
<1>4. CompareDyadic(n, k, M, l) = Sgn(X - M)
  BY DEF CompareDyadic
<1>5. CASE n <= 0
  <2>1. RootCmp(v, n, k) = -1
    BY <1>5 DEF RootCmp
  <2> DEFINE j == -n
  <2>2. j * U \in Nat /\ X = -(j * U)
    <3>1. j \in Nat
      BY <1>5
    <3>2. j * U \in Nat
      BY <1>3, <3>1, NaturalProducts
    <3> HIDE DEF U
    <3> QED
      BY <1>3, <3>2
  <2> HIDE DEF X, j, U
  <2>3. X - M < 0
    BY <1>3, <2>2
  <2>4. Sgn(X - M) = -1
    BY <1>3, <2>3 DEF Sgn
  <2> QED
    BY <1>4, <2>1, <2>4
<1>6. CASE ~(n <= 0)
  <2>1. n \in Nat \ {0}
    BY <1>6
  <2>2. X \in Nat /\ (X % 2 = 0 \/ X # M)
    <3>1. X \in Nat
      BY <1>3, <2>1, NaturalProducts
    <3>2. CASE u > 0
      <4>1. u - 1 \in Nat /\ (u - 1) + 1 = u
        BY <1>3, <3>2
      <4>2. U = 2 * Pow2(u - 1) /\ Pow2(u - 1) \in Nat
        BY <4>1, Pow2Step, Pow2Type
      <4> DEFINE V == Pow2(u - 1)
      <4> HIDE DEF U, V
      <4>3. X = 2 * (n * V) /\ n * V \in Nat
        BY <2>1, <4>2, NaturalProducts DEF V
      <4> DEFINE W == n * V
      <4> HIDE DEF W, X
      <4>4. X % 2 = 0
        BY <4>3 DEF W
      <4> QED
        BY <3>1, <4>4
    <3>3. CASE ~(u > 0)
      <4>1. u = 0 /\ n # M
        BY <1>3, <3>3
      <4>2. U = 1
        BY <4>1, Pow2Zero
      <4> HIDE DEF U, u
      <4>3. X = n
        BY <4>2
      <4> QED
        BY <3>1, <4>1, <4>3
    <3> QED
      BY <3>2, <3>3
  <2>3. IsHalfRoot(M, RootInt(v, q), num, D)
    BY RootMantIsRoot
  <2> DEFINE i == u + u + t
             j == s + t + 2
  <2>4. t \in Nat /\ i \in Nat /\ s + t \in Nat /\ j \in Nat /\ 2 * k - i = Scale(v) - j
    <3>1. t \in Nat /\ s + t \in Nat
      BY <1>2
    <3>2. 2 * l = Scale(v) - s - 2
      BY <1>1 DEF RootLow, RootShift
    <3>3. u = k - l /\ i = u + u + t /\ j = s + t + 2 /\ Scale(v) \in Int
      BY <1>1
    <3> HIDE DEF s, t, u, U, X, i, j
    <3>4. i \in Nat /\ j \in Nat
      BY <1>3, <3>1, <3>3
    <3>5. 2 * k - i = Scale(v) - j
      BY <1>2, <1>3, <3>1, <3>2, <3>3
    <3> QED
      BY <3>1, <3>4, <3>5
  <2>5. Pow2(i) = (U * U) * D
    <3>1. Pow2(t) = D
      <4>1. CASE s >= 0
        BY <4>1, Pow2Zero DEF RootDen
      <4>2. CASE ~(s >= 0)
        BY <4>2 DEF RootDen
      <4> QED
        BY <4>1, <4>2
    <3> HIDE DEF u, t
    <3>2. Pow2(u + u) = U * U /\ u + u \in Nat
      BY <1>3, Pow2Sum
    <3>3. Pow2((u + u) + t) = Pow2(u + u) * Pow2(t)
      BY <2>4, <3>2, Pow2Sum
    <3> QED
      BY <3>1, <3>2, <3>3
  <2>6. Pow2(j) = 4 * Pow2(s + t) /\ m * Pow2(s + t) = num /\ Pow2(s + t) \in Nat
    <3>1. Pow2((s + t) + 2) = 4 * Pow2(s + t) /\ Pow2(s + t) \in Nat
      BY <2>4, Pow2Quarter, Pow2Type
    <3>2. CASE s >= 0
      <4>1. s + t = s
        BY <1>2, <3>2
      <4>2. num = m * Pow2(s)
        BY <3>2 DEF RootNum
      <4> QED
        BY <3>1, <4>1, <4>2
    <3>3. CASE ~(s >= 0)
      <4>1. s + t = 0
        BY <1>2, <3>3
      <4>2. num = m /\ m * 1 = m
        BY <1>1, <3>3 DEF RootNum
      <4> QED
        BY <3>1, <4>1, <4>2, Pow2Zero
    <3> QED
      BY <3>2, <3>3
  <2>7. CompareDyadic(n * n, 2 * k, m, Scale(v)) = Sgn((n * n) * Pow2(i) - m * Pow2(j))
    <3> DEFINE N == n * n
               K == 2 * k
    <3>1. N \in Int /\ K \in Int /\ K - i = Scale(v) - j /\ m \in Int
      BY <1>1, <2>1, <2>4, NaturalProducts
    <3> HIDE DEF N, K, i, j, m
    <3>2. CompareDyadic(N, K, m, Scale(v)) = Sgn(N * Pow2(i) - m * Pow2(j))
      BY <1>1, <2>4, <3>1, CompareAt
    <3> QED
      BY <3>2 DEF N, K
  <2>8. (n * n) * Pow2(i) = (X * X) * D /\ m * Pow2(j) = 4 * num
    <3> DEFINE S == Pow2(s + t)
    <3>1. Pow2(j) = 4 * S /\ m * S = num /\ S \in Nat /\ Pow2(i) = (U * U) * D /\ X = n * U
      BY <2>5, <2>6
    <3> HIDE DEF S, U, X, i, j, m, num, D
    <3>2. m * (4 * S) = 4 * (m * S)
      BY <1>1, <3>1
    <3>3. (n * n) * ((U * U) * D) = ((n * U) * (n * U)) * D
      BY <1>2, <1>3
    <3> QED
      BY <3>1, <3>2, <3>3
  <2>9. RootCmp(v, n, k) = CompareDyadic(n * n, 2 * k, m, Scale(v))
    BY <1>6 DEF RootCmp
  <2> HIDE DEF X, num, D, i, j, m
  <2>10. Sgn((X * X) * D - 4 * num) = Sgn(X - M)
    BY <1>2, <2>2, <2>3, HalfRootCompares
  <2> QED
    BY <1>4, <2>7, <2>8, <2>9, <2>10
<1> QED
  BY <1>5, <1>6

\* What SqrtIsCorrect says of one root.
RootRounded(v, q, rnd) ==
    CorrectlyRounded(Sqrt(v, q, rnd), q, rnd, LAMBDA n, k : RootCmp(v, n, k))

\* Sqrt is correctly rounded for every positive operand.
LEMMA SqrtCorrect ==
    ASSUME NEW v, Operand(v), v.kind = "normal", v.sign = 1,
           NEW q \in Precision, NEW rnd \in RoundingMode
    PROVE  RootRounded(v, q, rnd)
<1> DEFINE res == Sqrt(v, q, rnd)
           M == RootMant(v, q)
           l == RootLow(v, q)
           c == [i \in Int \X Int |-> CompareDyadic(i[1], i[2], M, l)]
           w == res.value
           m == w.mant
           K == Scale(w)
           H == Pow2(q - 1)
<1>0. q \in Nat \ {0} /\ 1 \in Sign /\ 1 \in Nat \ {0}
  BY PrecAssumption DEF Precision, Sign
<1>1. /\ RoundedTo(res, 1, q, rnd, M, l, 1) /\ M \in Nat \ {0} /\ l \in Int
      /\ 2 * Pow2(q) <= M /\ w.exp - q - 2 >= l
  BY SqrtRounds
<1>2. \A n, k \in Int : c[<<n, k>>] = CompareDyadic(n, k, M, l)
  OBVIOUS
<1>3. ASSUME NEW n \in Int, NEW k \in Int, k >= l, k > l \/ n # M
      PROVE  RootCmp(v, n, k) = c[<<n, k>>]
  <2> HIDE DEF c
  <2>1. RootCmp(v, n, k) = CompareDyadic(n, k, M, l)
    BY <1>0, <1>1, <1>3, RootCompares
  <2> QED
    BY <1>2, <2>1
<1> HIDE DEF M, l, c
<1>4. CorrectBy(res, q, rnd, c)
  <2>1. ASSUME NEW b \in Int, NEW n \in Int, NEW k \in Int, b <= l, b <= k
        PROVE  c[<<n, k>>] = Sgn(n * (1 * Pow2(k - b)) - 1 * (M * Pow2(l - b)))
    <3> DEFINE i == k - b
               j == l - b
    <3>1. i \in Nat /\ j \in Nat /\ k - i = l - j /\ M \in Int
      BY <1>1, <2>1
    <3>2. Pow2(i) \in Nat /\ Pow2(j) \in Nat
      BY <3>1, Pow2Type
    <3> HIDE DEF i, j
    <3>3. CompareDyadic(n, k, M, l) = Sgn(n * Pow2(i) - M * Pow2(j))
      BY <1>1, <3>1, CompareAt
    <3>4. 1 * Pow2(i) = Pow2(i) /\ 1 * (M * Pow2(j)) = M * Pow2(j)
      BY <3>1, <3>2
    <3> QED
      BY <1>2, <3>3, <3>4 DEF i, j
  <2>2. ComparesWith(c, 1, M, l, 1, l)
    BY <2>1 DEF ComparesWith
  <2> HIDE DEF res
  <2> QED
    BY <1>0, <1>1, <2>2, RoundedIsCorrect
<1>5. /\ w.kind = "normal" /\ w.sign = 1 /\ w.prec = q /\ w.exp \in Int /\ m \in H .. 2 * H - 1
      /\ H \in Nat \ {0} /\ Pow2(q) = 2 * H /\ K \in Int /\ K - 2 >= l
  <2>1. w.kind = "normal" /\ w.sign = 1 /\ w.prec = q /\ w.exp \in Int /\ m \in Pow2(q - 1) .. Pow2(q) - 1
    BY <1>0, <1>1, RoundedToIsValid
  <2>2. H \in Nat \ {0} /\ Pow2(q) = 2 * H
    BY <1>0, LengthBounds
  <2>3. K = w.exp - q
    BY <2>1 DEF Scale
  <2> HIDE DEF K, H, w, m
  <2>4. K \in Int /\ K - 2 >= l
    BY <1>0, <1>1, <2>1, <2>3
  <2> QED
    BY <2>1, <2>2, <2>4 DEF H
<1> HIDE DEF K, m, H
<1>6. /\ c[<<1 * m, K>>] = RootCmp(v, 1 * m, K)
      /\ c[<<1 * (m + 1), K>>] = RootCmp(v, 1 * (m + 1), K)
      /\ c[<<1 * (2 * m - 1), K - 1>>] = RootCmp(v, 1 * (2 * m - 1), K - 1)
      /\ c[<<1 * (m - 1), K>>] = RootCmp(v, 1 * (m - 1), K)
      /\ c[<<1 * (2 * m + 1), K - 1>>] = RootCmp(v, 1 * (2 * m + 1), K - 1)
  <2>1. /\ K \in Int /\ K - 1 \in Int /\ K >= l /\ K > l /\ K - 1 >= l /\ K - 1 > l
        /\ 1 * m \in Int /\ 1 * (m + 1) \in Int /\ 1 * (2 * m - 1) \in Int /\ 1 * (m - 1) \in Int
        /\ 1 * (2 * m + 1) \in Int
    BY <1>1, <1>5
  <2> QED
    BY <1>3, <2>1
<1>7. m = H => c[<<1 * (4 * m - 1), K - 2>>] = RootCmp(v, 1 * (4 * m - 1), K - 2)
  <2> SUFFICES ASSUME m = H
               PROVE  c[<<1 * (4 * m - 1), K - 2>>] = RootCmp(v, 1 * (4 * m - 1), K - 2)
    OBVIOUS
  <2>1. 1 * (4 * m - 1) \in Int /\ 1 * (4 * m - 1) # M /\ K - 2 \in Int /\ K - 2 >= l
    BY <1>1, <1>5
  <2> QED
    BY <1>3, <2>1
<1>8. RootCmp(v, 0, 0) = -1
  BY DEF RootCmp
<1>9. Scale(w) = K /\ w.mant = m /\ w.sign = 1 /\ w.prec = q /\ Pow2(w.prec - 1) = H
  BY <1>5 DEF K, m, H
<1>10. c[<<0, 0>>] = -1
  BY <1>4, <1>9 DEF CorrectBy, CorrectlyRounded
<1> HIDE DEF w
<1> QED
  BY <1>4, <1>6, <1>7, <1>8, <1>9, <1>10 DEF RootRounded, CorrectBy, CorrectlyRounded, w

-----------------------------------------------------------------------------
(* Every operation returns a value validate accepts.                       *)

\* NaN, and the infinities and zeros of every precision, are valid.
LEMMA SpecialsAreValid ==
    /\ Valid(NAN_VALUE)
    /\ \A s \in Sign, p \in Precision : Valid(Inf(s, p)) /\ Valid(Zero(s, p))
  BY DEF Valid

\* A mantissa of p bits makes a valid value of precision p.
LEMMA NormalIsValid ==
    ASSUME NEW s \in Sign, NEW p \in Precision, NEW e \in Int, NEW m \in Pow2(p - 1) .. Pow2(p) - 1
    PROVE  Valid(Normal(s, p, e, m)) /\ Normal(s, p, e, m).kind = "normal"
  BY DEF Valid, Normal

\* Packing an operand's mantissa gives a valid value of the precision asked for.
LEMMA PackNormalIsValid ==
    ASSUME NEW v, Operand(v), v.kind = "normal", NEW s \in Sign,
           NEW q \in Precision, NEW rnd \in RoundingMode,
           NEW res, res = PackNormal(s, v.exp, v.mant, v.prec, q, rnd)
    PROVE  /\ Valid(res.value) /\ res.value.kind = "normal" /\ res.value.sign = s
           /\ res.value.prec = q
<1> DEFINE e == v.exp
           m == v.mant
           p == v.prec
<1>1. e \in Int /\ p \in Nat \ {0} /\ m \in Pow2(p - 1) .. Pow2(p) - 1
  BY NormalParts
<1>2. q \in Nat \ {0}
  BY PrecAssumption DEF Precision
<1>3. RoundedTo(res, s, q, rnd, m, e - p, 1)
  <2> HIDE DEF e, m, p
  <2>1. RoundedTo(PackNormal(s, e, m, p, q, rnd), s, q, rnd, m, e - p, 1)
    BY <1>1, <1>2, PackNormalRounds
  <2> QED
    BY <2>1 DEF e, m, p
<1> HIDE DEF e, m, p
<1> QED
  BY <1>3, RoundedToIsValid, Zenon

\* mpfr_set4 gives a valid value, whatever the precision of its operand.
LEMMA Set4IsValid ==
    ASSUME NEW v, Operand(v), NEW s \in Sign, NEW q \in Precision, NEW rnd \in RoundingMode
    PROVE  Valid(Set4(v, q, rnd, s).value)
<1>1. CASE v.kind = "normal"
  <2>1. Set4(v, q, rnd, s) = PackNormal(s, v.exp, v.mant, v.prec, q, rnd)
    BY <1>1 DEF Set4
  <2> QED
    BY <1>1, <2>1, PackNormalIsValid
<1>2. CASE v.kind # "normal"
  BY <1>2, Kinds, SpecialsAreValid, ExactlyOf DEF Set4
<1> QED
  BY <1>1, <1>2

\* The copies, with the sign kept, changed or dropped, give valid values.
LEMMA SetIsValid ==
    ASSUME NEW v, Operand(v), NEW q \in Precision, NEW rnd \in RoundingMode
    PROVE  /\ Valid(Set(v, q, rnd).value) /\ Valid(Neg(v, q, rnd).value)
           /\ Valid(Abs(v, q, rnd).value) /\ Valid(RoundToPrec(v, q, rnd).value)
<1>1. v.sign \in Sign /\ -v.sign \in Sign /\ 1 \in Sign
  BY Kinds DEF Sign
<1>2. \A s \in Sign : Valid(Set4(v, q, rnd, s).value)
  BY Set4IsValid
<1> QED
  BY <1>1, <1>2 DEF Set, Neg, Abs, RoundToPrec

\* Copying a sign gives a valid value, from a NaN too.
LEMMA CopySignIsValid ==
    ASSUME NEW v, Operand(v), NEW w, Operand(w), NEW q \in Precision, NEW rnd \in RoundingMode
    PROVE  Valid(CopySign(v, w, q, rnd).value)
  BY Kinds, Set4IsValid DEF CopySign

\* The sign of a product and the opposite sign are signs.
LEMMA ProductOfSigns == \A s, r \in Sign : s * r \in Sign /\ -s \in Sign
  BY DEF Sign

\* Add gives a valid value for every pair of operands, NaN, infinities and zeros
\* included.
LEMMA AddIsValid ==
    ASSUME NEW a, Operand(a), NEW b, Operand(b), NEW q \in Precision, NEW rnd \in RoundingMode
    PROVE  Valid(Add(a, b, q, rnd).value)
<1>1. a.sign \in Sign /\ b.sign \in Sign
      /\ a.kind \in {"nan", "inf", "zero", "normal"} /\ b.kind \in {"nan", "inf", "zero", "normal"}
  BY Kinds
<1>2. CASE Finite(a) /\ Finite(b)
  <2>1. SumRounding(Add(a, b, q, rnd), a, b, q, rnd)
    BY <1>2, AddRounds
  <2> DEFINE res == Add(a, b, q, rnd)
  <2> HIDE DEF res
  <2>2. CASE \E z \in Sign : res = Exactly(Zero(z, q))
    BY <2>2, SpecialsAreValid, ExactlyOf DEF res
  <2>3. CASE \E s \in Sign, m \in Nat \ {0}, l \in Int : RoundedTo(res, s, q, rnd, m, l, 1)
    BY <2>3, RoundedToIsValid DEF res
  <2> QED
    BY <2>1, <2>2, <2>3 DEF SumRounding, res
<1>3. CASE ~(Finite(a) /\ Finite(b))
  BY <1>1, <1>3, SpecialsAreValid, ExactlyOf DEF Add, Finite
<1> QED
  BY <1>2, <1>3

\* So does Sub,
LEMMA SubIsValid ==
    ASSUME NEW a, Operand(a), NEW b, Operand(b), NEW q \in Precision, NEW rnd \in RoundingMode
    PROVE  Valid(Sub(a, b, q, rnd).value)
<1>1. CASE a.kind = "nan" \/ b.kind = "nan"
  BY <1>1, SpecialsAreValid, ExactlyOf DEF Sub
<1>2. CASE ~(a.kind = "nan" \/ b.kind = "nan")
  <2> DEFINE c == [b EXCEPT !.sign = -b.sign]
  <2>1. Operand(c)
    BY <1>2, OppositeSign
  <2>2. Sub(a, b, q, rnd) = Add(a, c, q, rnd)
    BY <1>2 DEF Sub
  <2> QED
    BY <2>1, <2>2, AddIsValid
<1> QED
  BY <1>1, <1>2

\* and Mul,
LEMMA MulIsValid ==
    ASSUME NEW a, Operand(a), NEW b, Operand(b), NEW q \in Precision, NEW rnd \in RoundingMode
    PROVE  Valid(Mul(a, b, q, rnd).value)
<1>1. a.sign * b.sign \in Sign
      /\ a.kind \in {"nan", "inf", "zero", "normal"} /\ b.kind \in {"nan", "inf", "zero", "normal"}
  BY Kinds, ProductOfSigns
<1>2. CASE a.kind = "normal" /\ b.kind = "normal"
  BY <1>2, MulRounds, RoundedToIsValid
<1>3. CASE ~(a.kind = "normal" /\ b.kind = "normal")
  BY <1>1, <1>3, SpecialsAreValid, ExactlyOf DEF Mul
<1> QED
  BY <1>2, <1>3

\* and Div.
LEMMA DivIsValid ==
    ASSUME NEW a, Operand(a), NEW b, Operand(b), NEW q \in Precision, NEW rnd \in RoundingMode
    PROVE  Valid(Div(a, b, q, rnd).value)
<1>1. a.sign * b.sign \in Sign
      /\ a.kind \in {"nan", "inf", "zero", "normal"} /\ b.kind \in {"nan", "inf", "zero", "normal"}
  BY Kinds, ProductOfSigns
<1>2. CASE a.kind = "normal" /\ b.kind = "normal"
  BY <1>2, DivRounds, RoundedToIsValid
<1>3. CASE ~(a.kind = "normal" /\ b.kind = "normal")
  BY <1>1, <1>3, SpecialsAreValid, ExactlyOf DEF Div
<1> QED
  BY <1>2, <1>3

\* What validate says of a normal value, and that it is all it says.
LEMMA ValidNormal ==
    ASSUME NEW v, Valid(v), v.kind = "normal"
    PROVE  /\ v.sign \in Sign /\ v.prec \in Precision /\ v.prec \in Nat \ {0} /\ v.exp \in Int
           /\ v.mant \in Pow2(v.prec - 1) .. Pow2(v.prec) - 1
           /\ Pow2(v.prec - 1) \in Nat \ {0} /\ Pow2(v.prec) = 2 * Pow2(v.prec - 1)
<1>1. Operand(v)
  BY ValidIsOperand
<1>2. v.prec \in Nat \ {0}
  BY <1>1, NormalParts
<1> QED
  BY <1>1, <1>2, NormalParts, Kinds, LengthBounds

\* The selected operand, rounded, is valid.
LEMMA MaxIsValid ==
    ASSUME NEW a, Valid(a), NEW b, Valid(b), NEW q \in Precision, NEW rnd \in RoundingMode
    PROVE  Valid(Max(a, b, q, rnd).value) /\ Valid(Min(a, b, q, rnd).value)
<1>1. /\ Valid(RoundToPrec(a, q, rnd).value) /\ Valid(RoundToPrec(b, q, rnd).value)
      /\ a.kind \in {"nan", "inf", "zero", "normal"} /\ b.kind \in {"nan", "inf", "zero", "normal"}
  BY ValidIsOperand, SetIsValid, Kinds
<1>2. 1 \in Sign /\ -1 \in Sign
  BY DEF Sign
<1> QED
  BY <1>1, <1>2, SpecialsAreValid, ExactlyOf DEF Max, Min, UnorderedP

\* A neighbour of a valid value is valid, at both ends of a binade and of the
\* exponent range.
LEMMA NextIsValid ==
    ASSUME NEW v, Valid(v)
    PROVE  /\ Valid(NextToInf(v)) /\ Valid(NextToZero(v))
           /\ Valid(NextAbove(v)) /\ Valid(NextBelow(v))
<1>1. Operand(v) /\ v.sign \in Sign /\ -v.sign \in Sign
      /\ v.kind \in {"nan", "inf", "zero", "normal"}
  BY ValidIsOperand, Kinds, ProductOfSigns
<1>2. CASE v.kind = "nan"
  BY <1>2, SpecialsAreValid DEF NextToInf, NextToZero, NextAbove, NextBelow
<1>3. CASE v.kind = "inf" \/ v.kind = "zero"
  <2>1. v.prec \in Precision /\ v.prec \in Nat \ {0}
    BY <1>1, <1>3, Kinds
  <2>2. EMIN_DEFAULT \in Int /\ EMAX_DEFAULT \in Int
    BY RangeAssumption DEF EMIN_DEFAULT
  <2>3. Pow2(v.prec - 1) \in Nat \ {0} /\ Pow2(v.prec) = 2 * Pow2(v.prec - 1)
    BY <2>1, LengthBounds
  <2>4. \A s \in Sign : Valid(Smallest(s, v.prec)) /\ Valid(Largest(s, v.prec))
    BY <2>1, <2>2, <2>3, NormalIsValid DEF Smallest, Largest
  <2> QED
    BY <1>1, <1>3, <2>1, <2>4 DEF NextToInf, NextToZero, NextAbove, NextBelow
<1>4. CASE v.kind = "normal"
  <2>1. /\ v.prec \in Precision /\ v.prec \in Nat \ {0} /\ v.exp \in Int
        /\ v.mant \in Pow2(v.prec - 1) .. Pow2(v.prec) - 1
        /\ Pow2(v.prec - 1) \in Nat \ {0} /\ Pow2(v.prec) = 2 * Pow2(v.prec - 1)
    BY <1>4, ValidNormal
  <2>2. ASSUME NEW m \in Pow2(v.prec - 1) .. Pow2(v.prec) - 1
        PROVE  Valid([v EXCEPT !.mant = m])
    <3>1. [v EXCEPT !.mant = m] = Normal(v.sign, v.prec, v.exp, m)
      BY <1>1, <1>4, Kinds, NormalShape
    <3> QED
      BY <1>1, <2>1, <3>1, NormalIsValid
  <2>3. \A e \in Int, m \in Pow2(v.prec - 1) .. Pow2(v.prec) - 1 : Valid(Normal(v.sign, v.prec, e, m))
    BY <1>1, <2>1, NormalIsValid
  <2>4. Valid(NextToInf(v))
    <3>1. CASE v.mant + 1 < Pow2(v.prec)
      <4>1. NextToInf(v) = [v EXCEPT !.mant = v.mant + 1]
        BY <1>4, <2>1, <3>1 DEF NextToInf
      <4> QED
        BY <2>1, <2>2, <3>1, <4>1
    <3>2. CASE v.mant + 1 >= Pow2(v.prec) /\ v.exp = EMAX_DEFAULT
      <4>1. NextToInf(v) = Inf(v.sign, v.prec)
        BY <1>4, <2>1, <3>2 DEF NextToInf
      <4> QED
        BY <1>1, <2>1, <4>1, SpecialsAreValid
    <3>3. CASE v.mant + 1 >= Pow2(v.prec) /\ v.exp # EMAX_DEFAULT
      <4>1. NextToInf(v) = Normal(v.sign, v.prec, v.exp + 1, Pow2(v.prec - 1))
        BY <1>4, <2>1, <3>3 DEF NextToInf
      <4> QED
        BY <2>1, <2>3, <4>1
    <3> QED
      BY <2>1, <3>1, <3>2, <3>3
  <2>5. Valid(NextToZero(v))
    <3>1. CASE v.mant - 1 >= Pow2(v.prec - 1)
      <4>1. NextToZero(v) = [v EXCEPT !.mant = v.mant - 1]
        BY <1>4, <2>1, <3>1 DEF NextToZero
      <4> QED
        BY <2>1, <2>2, <3>1, <4>1
    <3>2. CASE v.mant - 1 < Pow2(v.prec - 1) /\ v.exp = EMIN_DEFAULT
      <4>1. NextToZero(v) = Zero(v.sign, v.prec)
        BY <1>4, <2>1, <3>2 DEF NextToZero
      <4> QED
        BY <1>1, <2>1, <4>1, SpecialsAreValid
    <3>3. CASE v.mant - 1 < Pow2(v.prec - 1) /\ v.exp # EMIN_DEFAULT
      <4>1. NextToZero(v) = Normal(v.sign, v.prec, v.exp - 1, Pow2(v.prec) - 1)
        BY <1>4, <2>1, <3>3 DEF NextToZero
      <4> QED
        BY <2>1, <2>3, <4>1
    <3> QED
      BY <2>1, <3>1, <3>2, <3>3
  <2> QED
    BY <1>4, <2>4, <2>5 DEF NextAbove, NextBelow
<1> QED
  BY <1>1, <1>2, <1>3, <1>4

\* The order of two values that are not NaN is one of the three.
LEMMA CompareOrders ==
    ASSUME NEW a, Valid(a), NEW b, Valid(b)
    PROVE  /\ ~UnorderedP(a, b) => Compare(a, b) \in {-1, 0, 1}
           /\ UnorderedP(a, b) => Compare(a, b) = Unordered
<1>1. a.kind \in {"nan", "inf", "zero", "normal"} /\ b.kind \in {"nan", "inf", "zero", "normal"}
      /\ a.sign \in Sign /\ b.sign \in Sign
  BY ValidIsOperand, Kinds
<1>2. CompareMagnitude(a, b) \in {-1, 0, 1}
  BY DEF CompareMagnitude, Sgn
<1>3. \A s \in Sign, d \in {-1, 0, 1} : s * d \in {-1, 0, 1} /\ s \in {-1, 0, 1} /\ -s \in {-1, 0, 1}
  BY DEF Sign
<1>4. a.sign * CompareMagnitude(a, b) \in {-1, 0, 1} /\ a.sign \in {-1, 0, 1}
      /\ -b.sign \in {-1, 0, 1}
  BY <1>1, <1>2, <1>3
<1> QED
  BY <1>1, <1>4 DEF Compare, UnorderedP

\* A step from a valid value towards another gives a valid one.
LEMMA NextTowardIsValid ==
    ASSUME NEW a, Valid(a), NEW b, Valid(b)
    PROVE  Valid(NextToward(a, b))
  BY CompareOrders, NextIsValid, SpecialsAreValid DEF NextToward, EqualP, LessP, GreaterP

\* The positive difference is valid.
LEMMA DimIsValid ==
    ASSUME NEW a, Valid(a), NEW b, Valid(b), NEW q \in Precision, NEW rnd \in RoundingMode
    PROVE  Valid(Dim(a, b, q, rnd).value)
<1>1. Valid(Sub(a, b, q, rnd).value)
  BY ValidIsOperand, SubIsValid
<1>2. 1 \in Sign
  BY DEF Sign
<1> QED
  BY <1>1, <1>2, CompareOrders, SpecialsAreValid, ExactlyOf DEF Dim

\* The value mpfr_check_range leaves, replaced or not, is valid.
LEMMA CheckRangeIsValid ==
    ASSUME NEW v, Valid(v), NEW t, NEW rnd \in RoundingMode
    PROVE  Valid(CheckRange(v, t, rnd).value)
<1>1. CASE v.kind = "normal"
  <2>1. /\ v.sign \in Sign /\ v.prec \in Precision /\ v.prec \in Nat \ {0} /\ v.exp \in Int
        /\ Pow2(v.prec - 1) \in Nat \ {0} /\ Pow2(v.prec) = 2 * Pow2(v.prec - 1)
    BY <1>1, ValidNormal
  <2>2. EMIN_DEFAULT \in Int /\ EMAX_DEFAULT \in Int /\ EMIN_DEFAULT <= EMAX_DEFAULT
    BY RangeAssumption DEF EMIN_DEFAULT
  <2>3. Valid(SetMax(v.prec, EMAX_DEFAULT, v.sign)) /\ Valid(SetMin(v.prec, EMIN_DEFAULT, v.sign))
    BY <2>1, <2>2, NormalIsValid DEF SetMax, SetMin
  <2>4. \A r : Valid(Overflow(v.prec, r, v.sign).value) /\ Valid(Underflow(v.prec, r, v.sign).value)
    BY <2>1, <2>3, SpecialsAreValid, ExactlyOf DEF Overflow, Underflow
  <2>5. v.exp < EMIN_DEFAULT \/ v.exp > EMAX_DEFAULT \/ v.exp \in EMIN_DEFAULT..EMAX_DEFAULT
    BY <2>1, <2>2
  <2>6. CASE v.exp < EMIN_DEFAULT
    <3>1. \E r : CheckRange(v, t, rnd) = Underflow(v.prec, r, v.sign)
      BY <1>1, <2>1, <2>2, <2>6 DEF CheckRange
    <3> QED
      BY <2>4, <3>1
  <2>7. CASE v.exp > EMAX_DEFAULT
    <3>1. CheckRange(v, t, rnd) = Overflow(v.prec, rnd, v.sign)
      BY <1>1, <2>1, <2>2, <2>7 DEF CheckRange
    <3> QED
      BY <2>4, <3>1
  <2>8. CASE v.exp \in EMIN_DEFAULT..EMAX_DEFAULT
    <3>1. CheckRange(v, t, rnd) = Result(v, t)
      BY <1>1, <2>1, <2>2, <2>8 DEF CheckRange
    <3> QED
      BY <3>1, ExactlyOf
  <2> QED
    BY <2>5, <2>6, <2>7, <2>8
<1>2. CASE v.kind # "normal"
  BY <1>2, ExactlyOf DEF CheckRange
<1> QED
  BY <1>1, <1>2

-----------------------------------------------------------------------------
(* Rounding to an integer.                                                 *)

\* The integral part is a number t of k bits and its unit 2^(q - k); when
\* bits are dropped, t is what the first k bits of the mantissa make.
LEMMA IntegralParts ==
    ASSUME NEW v, Operand(v), v.kind = "normal", v.exp > 0, NEW q \in Nat \ {0},
           NEW part, part = IntegralPart(v, q), NEW k, k = KeptBits(v, q)
    PROVE  /\ k \in 1 .. q
           /\ part.ulp = Pow2(q - k) /\ part.ulp \in Nat \ {0}
           /\ v.prec > k => LET t == v.mant \div Pow2(v.prec - k)
                            IN  /\ part.mant = t * part.ulp /\ t \in Pow2(k - 1) .. Pow2(k) - 1
                                /\ part.W = Pow2(v.prec - k)
                                /\ part.dropped = v.mant % Pow2(v.prec - k)
           /\ ~(v.prec > k) => part.mant = v.mant * Pow2(q - v.prec) /\ part.dropped = 0 /\ part.W = 1
           /\ part.mant \in Pow2(q - 1) .. Pow2(q) - 1
<1> DEFINE m == v.mant
           p == v.prec
           U == Pow2(q - k)
<1>1. p \in Nat \ {0} /\ m \in Pow2(p - 1) .. Pow2(p) - 1 /\ m \in Nat \ {0} /\ v.exp \in Int
  BY NormalParts
<1>2. k \in 1 .. q /\ q - k \in Nat /\ k \in Nat \ {0}
  BY <1>1 DEF KeptBits
<1>3. U \in Nat \ {0} /\ part.ulp = U
  BY <1>2, Pow2Type DEF IntegralPart
<1>4. CASE p > k
  <2> DEFINE W == Pow2(p - k)
             t == m \div W
  <2>1. part.W = W /\ part.dropped = m % W /\ part.mant = t * U
    BY <1>4 DEF IntegralPart
  <2>2. t \in Pow2(k - 1) .. Pow2(k) - 1
    <3> HIDE DEF p, m
    <3> QED
      BY <1>1, <1>2, <1>4, CutLength
  <2>3. t * U \in Pow2(q - 1) .. Pow2(q) - 1
    <3> HIDE DEF t
    <3> DEFINE n == q - k
    <3>1. n \in Nat /\ k + n = q
      BY <1>2
    <3> HIDE DEF n
    <3>2. t * Pow2(n) \in Pow2((k + n) - 1) .. Pow2(k + n) - 1
      BY <1>2, <2>2, <3>1, ShiftedLength
    <3> QED
      BY <3>1, <3>2 DEF n
  <2> QED
    BY <1>2, <1>3, <1>4, <2>1, <2>2, <2>3
<1>5. CASE ~(p > k)
  <2> DEFINE n == q - p
  <2>1. part.W = 1 /\ part.mant = m * Pow2(n)
    BY <1>5 DEF IntegralPart
  <2>2. part.dropped = 0
    <3>1. part.dropped = m % 1
      BY <1>5 DEF IntegralPart
    <3> QED
      BY <1>1, <3>1
  <2>3. n \in Nat /\ p + n = q
    BY <1>1, <1>2, <1>5
  <2>4. m * Pow2(n) \in Pow2(q - 1) .. Pow2(q) - 1
    <3> HIDE DEF m, p, n
    <3>1. m * Pow2(n) \in Pow2((p + n) - 1) .. Pow2(p + n) - 1
      BY <1>1, <2>3, ShiftedLength
    <3> QED
      BY <2>3, <3>1
  <2> QED
    BY <1>2, <1>3, <1>5, <2>1, <2>2, <2>4
<1> QED
  BY <1>4, <1>5

\* One more unit stays within the precision, or makes the next power of two.
LEMMA OneUnitAwayBounds ==
    ASSUME NEW v, Operand(v), v.kind = "normal", v.exp > 0, NEW q \in Nat \ {0},
           NEW part, part = IntegralPart(v, q), part.dropped # 0
    PROVE  part.mant + part.ulp \in Pow2(q - 1) .. Pow2(q)
<1> DEFINE k == KeptBits(v, q)
           t == v.mant \div Pow2(v.prec - k)
           U == part.ulp
<1> HIDE DEF k
<1>1. k \in 1 .. q /\ U = Pow2(q - k) /\ U \in Nat \ {0} /\ part.mant \in Pow2(q - 1) .. Pow2(q) - 1
  BY IntegralParts DEF k
<1>2. part.mant = t * U /\ t \in Pow2(k - 1) .. Pow2(k) - 1
  BY IntegralParts DEF k
<1>3. Pow2(q) = Pow2(k) * U /\ Pow2(k) \in Nat /\ Pow2(k - 1) \in Nat /\ Pow2(q - 1) \in Nat
  <2>1. q - k \in Nat /\ k + (q - k) = q /\ k \in Nat \ {0}
    BY <1>1
  <2>2. Pow2(k + (q - k)) = Pow2(k) * Pow2(q - k)
    BY <2>1, Pow2Sum
  <2> QED
    BY <1>1, <2>1, <2>2, LengthBounds
<1> HIDE DEF t, U
<1>4. (t + 1) * U <= Pow2(k) * U
  BY <1>1, <1>2, <1>3, ProductMonotone
<1>5. (t + 1) * U = t * U + U /\ t * U \in Int /\ Pow2(k) * U \in Int
  BY <1>1, <1>2, <1>3
<1>6. part.mant + U \in Pow2(q - 1) .. Pow2(q)
  BY <1>1, <1>2, <1>3, <1>4, <1>5
<1> QED
  BY <1>6 DEF U

\* Rounding to an integral value gives a valid one, when the integer needs a
\* bit more than the precision has too.
LEMMA ToIntegralIsValid ==
    ASSUME NEW v, Operand(v), NEW q \in Precision, NEW away
    PROVE  Valid(ToIntegral(v, q, away).value)
<1> DEFINE part == IntegralPart(v, q)
<1>1. v.kind \in {"nan", "inf", "zero", "normal"} /\ v.sign \in Sign
  BY Kinds
<1>2. q \in Nat \ {0} /\ Pow2(q - 1) \in Nat \ {0} /\ Pow2(q) = 2 * Pow2(q - 1)
  BY PrecAssumption, LengthBounds DEF Precision
<1>3. CASE v.kind # "normal"
  BY <1>1, <1>3, SpecialsAreValid, ExactlyOf DEF ToIntegral
<1>4. CASE v.kind = "normal" /\ v.exp <= 0
  <2>1. v.exp \in Int
    BY <1>4, NormalParts
  <2>2. Valid(Normal(v.sign, q, 1, Pow2(q - 1))) /\ Valid(Zero(v.sign, q))
    BY <1>1, <1>2, NormalIsValid, SpecialsAreValid
  <2>3. ToIntegral(v, q, away) = IF away THEN Result(Normal(v.sign, q, 1, Pow2(q - 1)), v.sign)
                                         ELSE Result(Zero(v.sign, q), -v.sign)
    BY <1>4, <2>1 DEF ToIntegral
  <2> QED
    BY <2>2, <2>3, ExactlyOf
<1>5. CASE v.kind = "normal" /\ v.exp > 0
  <2>1. v.exp \in Int
    BY <1>5, NormalParts
  <2>2. part.mant \in Pow2(q - 1) .. Pow2(q) - 1
    BY <1>2, <1>5, IntegralParts
  <2>3. part.dropped # 0 => part.mant + part.ulp \in Pow2(q - 1) .. Pow2(q)
    BY <1>2, <1>5, OneUnitAwayBounds
  <2>4. ToIntegral(v, q, away) =
            IF part.dropped = 0 THEN Exactly(Normal(v.sign, q, v.exp, part.mant))
            ELSE IF away THEN Result(OneUnitAway(v, q, part), v.sign)
            ELSE Result(Normal(v.sign, q, v.exp, part.mant), -v.sign)
    BY <1>5, <2>1 DEF ToIntegral
  <2> HIDE DEF part
  <2>5. \A e \in Int, m \in Pow2(q - 1) .. Pow2(q) - 1 : Valid(Normal(v.sign, q, e, m))
    BY <1>1, NormalIsValid
  <2>6. Valid(Normal(v.sign, q, v.exp, part.mant))
    BY <2>1, <2>2, <2>5
  <2>7. part.dropped # 0 => Valid(OneUnitAway(v, q, part))
    <3>1. v.exp + 1 \in Int /\ Pow2(q - 1) \in Pow2(q - 1) .. Pow2(q) - 1
      BY <1>2, <2>1
    <3>2. Valid(Normal(v.sign, q, v.exp + 1, Pow2(q - 1)))
      BY <2>5, <3>1
    <3>3. ASSUME part.dropped # 0, part.mant + part.ulp # Pow2(q)
          PROVE  Valid(Normal(v.sign, q, v.exp, part.mant + part.ulp))
      BY <1>2, <2>1, <2>3, <2>5, <3>3
    <3> QED
      BY <3>2, <3>3 DEF OneUnitAway
  <2> QED
    BY <2>4, <2>6, <2>7, ExactlyOf
<1> QED
  BY <1>1, <1>3, <1>4, <1>5, NormalParts

\* So do the five functions that choose the direction.
LEMMA RintIsValid ==
    ASSUME NEW v, Operand(v), NEW q \in Precision, NEW rnd \in RoundingMode
    PROVE  /\ Valid(Rint(v, q, rnd).value) /\ Valid(Round(v, q).value) /\ Valid(Trunc(v, q).value)
           /\ Valid(Floor(v, q).value) /\ Valid(Ceil(v, q).value)
<1>1. \A away : Valid(ToIntegral(v, q, away).value)
  BY ToIntegralIsValid
<1>2. Valid(Trunc(v, q).value) /\ Valid(Floor(v, q).value) /\ Valid(Ceil(v, q).value)
  BY <1>1 DEF Trunc, Floor, Ceil
<1>3. Valid(NearestEven(v, q).value)
  BY <1>1 DEF NearestEven
<1>4. Valid(Round(v, q).value)
  BY <1>1, Zenon DEF Round
<1> QED
  BY <1>2, <1>3, <1>4 DEF Rint, RoundingMode

\* The integral part at another precision, and the fractional part, are valid.
LEMMA FracIsValid ==
    ASSUME NEW v, Valid(v), NEW q \in Precision, NEW rnd \in RoundingMode
    PROVE  Valid(RintTrunc(v, q, rnd).value) /\ Valid(Frac(v, q, rnd).value)
<1>1. Operand(v) /\ v.kind \in {"nan", "inf", "zero", "normal"} /\ v.sign \in Sign
      /\ (v.kind = "normal" => v.prec \in Precision)
  BY ValidIsOperand, Kinds
<1>2. v.kind = "normal" => Operand(Trunc(v, v.prec).value)
  BY <1>1, RintIsValid, ValidIsOperand
<1>3. Valid(RintTrunc(v, q, rnd).value)
  BY <1>1, <1>2, SetIsValid DEF RintTrunc
<1>4. Valid(Frac(v, q, rnd).value)
  <2>4. (IntegerP(v) => v.kind \in {"zero", "normal"}) /\ (v.kind = "zero" => IntegerP(v))
    BY DEF IntegerP
  <2>1. CASE v.kind = "nan"
    BY <2>1, <2>4, SpecialsAreValid, ExactlyOf DEF Frac
  <2>2. CASE v.kind # "nan" /\ (v.kind = "inf" \/ IntegerP(v))
    BY <1>1, <2>2, SpecialsAreValid, ExactlyOf DEF Frac, IntegerP
  <2>3. CASE v.kind = "normal" /\ ~IntegerP(v)
    <3>1. Frac(v, q, rnd) = IF v.exp <= 0 THEN Set(v, q, rnd) ELSE Sub(v, Trunc(v, v.prec).value, q, rnd)
      BY <2>3 DEF Frac
    <3> QED
      BY <1>1, <1>2, <2>3, <3>1, SetIsValid, SubIsValid
  <2> QED
    BY <1>1, <2>1, <2>2, <2>3, <2>4
<1> QED
  BY <1>3, <1>4

\* Both parts mpfr_modf returns are valid.
LEMMA ModfIsValid ==
    ASSUME NEW v, Valid(v), NEW i \in Precision, NEW f \in Precision, NEW rnd \in RoundingMode
    PROVE  Valid(Modf(v, i, f, rnd).iop.value) /\ Valid(Modf(v, i, f, rnd).fop.value)
<1>1. Operand(v) /\ v.kind \in {"nan", "inf", "zero", "normal"} /\ v.sign \in Sign
  BY ValidIsOperand, Kinds
<1>2. /\ Valid(Set(v, i, rnd).value) /\ Valid(Set(v, f, rnd).value)
      /\ Valid(RintTrunc(v, i, rnd).value) /\ Valid(Frac(v, f, rnd).value)
      /\ Valid(Exactly(NAN_VALUE).value)
      /\ \A q \in Precision : Valid(Exactly(Zero(v.sign, q)).value) /\ Valid(Exactly(Inf(v.sign, q)).value)
  BY <1>1, SetIsValid, FracIsValid, SpecialsAreValid, ExactlyOf
<1>3. CASE v.kind # "normal"
  BY <1>1, <1>2, <1>3 DEF Modf
<1>4. CASE v.kind = "normal"
  <2>1. v.exp \in Int /\ v.prec \in Nat
    BY <1>1, <1>4, NormalParts
  <2> QED
    BY <1>1, <1>2, <1>4, <2>1 DEF Modf
<1> QED
  BY <1>3, <1>4

-----------------------------------------------------------------------------
(* Integer operands and scaling.                                           *)

\* The absolute value of an integer.
Magnitude(n) == IF n < 0 THEN -n ELSE n

\* The magnitude of an integer other than 0 and its bit length.
LEMMA MagnitudeLength ==
    ASSUME NEW n \in Int, n # 0
    PROVE  /\ BitLength[Magnitude(n)] \in Nat \ {0}
           /\ Magnitude(n) \in Nat \ {0}
           /\ Magnitude(n) \in Pow2(BitLength[Magnitude(n)] - 1) .. Pow2(BitLength[Magnitude(n)]) - 1
<1> DEFINE a == Magnitude(n)
<1>1. a \in Nat \ {0}
  BY DEF Magnitude
<1> HIDE DEF a
<1>2. BitLength[a] \in Nat \ {0} /\ a \in Pow2(BitLength[a] - 1) .. Pow2(BitLength[a]) - 1
  BY <1>1, BitLengthBounds
<1> QED
  BY <1>1, <1>2 DEF a

\* A mantissa of p bits makes an operand, however large p is.
LEMMA NormalIsOperand ==
    ASSUME NEW s \in Sign, NEW p \in Nat \ {0}, NEW e \in Int, NEW m \in Pow2(p - 1) .. Pow2(p) - 1,
           NEW v, v = Normal(s, p, e, m)
    PROVE  /\ Operand(v) /\ v.kind = "normal" /\ v.sign = s /\ v.prec = p /\ v.exp = e /\ v.mant = m
<1>1. v.kind = "normal" /\ v.sign = s /\ v.prec = p /\ v.exp = e /\ v.mant = m
  BY NormalShape
<1> QED
  BY <1>1 DEF Operand

\* An integer rounded to a precision is valid.
LEMMA SetZIsValid ==
    ASSUME NEW n \in Int, NEW q \in Precision, NEW rnd \in RoundingMode
    PROVE  Valid(SetZ(n, q, rnd).value)
<1>1. 1 \in Sign /\ -1 \in Sign
  BY DEF Sign
<1>2. CASE n = 0
  BY <1>1, <1>2, SpecialsAreValid, ExactlyOf DEF SetZ
<1>3. CASE n # 0
  <2> DEFINE a == Magnitude(n)
             b == BitLength[a]
             s == IF n < 0 THEN -1 ELSE 1
             v == Normal(s, b, b, a)
  <2>1. b \in Nat \ {0} /\ a \in Pow2(b - 1) .. Pow2(b) - 1
    BY <1>3, MagnitudeLength
  <2>2. SetZ(n, q, rnd) = PackNormal(s, b, a, b, q, rnd)
    BY <1>3, Zenon DEF SetZ, Magnitude
  <2> HIDE DEF a, b
  <2>3. s \in Sign
    BY <1>1
  <2> HIDE DEF s
  <2>4. Operand(v) /\ v.kind = "normal" /\ v.sign = s /\ v.prec = b /\ v.exp = b /\ v.mant = a
    BY <2>1, <2>3, NormalIsOperand
  <2> HIDE DEF v
  <2> DEFINE res == PackNormal(s, v.exp, v.mant, v.prec, q, rnd)
  <2>5. SetZ(n, q, rnd) = res
    BY <2>2, <2>4
  <2> HIDE DEF res
  <2>6. Valid(res.value)
    BY <2>3, <2>4, PackNormalIsValid DEF res
  <2> QED
    BY <2>5, <2>6
<1> QED
  BY <1>2, <1>3

\* An integer kept exact is an operand: its precision is its bit length, which
\* may be above PREC_MAX.
LEMMA ExactZIsOperand ==
    ASSUME NEW n \in Int
    PROVE  Operand(ExactZ(n))
<1>1. 1 \in Sign /\ -1 \in Sign
  BY DEF Sign
<1>2. CASE n = 0
  <2>1. ExactZ(n) = Zero(1, 1)
    BY <1>2, ExactlyOf DEF ExactZ, SetZ
  <2> QED
    BY <1>1, <2>1 DEF Operand
<1>3. CASE n # 0
  <2> DEFINE a == Magnitude(n)
             b == BitLength[a]
             s == IF n < 0 THEN -1 ELSE 1
             v == Normal(s, b, b, a)
  <2>1. b \in Nat \ {0} /\ a \in Nat \ {0} /\ a \in Pow2(b - 1) .. Pow2(b) - 1
    BY <1>3, MagnitudeLength
  <2>2. ExactZ(n) = PackNormal(s, b, a, b, b, "RNDN").value
    BY <1>3, Zenon DEF ExactZ, SetZ, Magnitude
  <2> HIDE DEF a, b
  <2>3. s \in Sign
    BY <1>1
  <2> HIDE DEF s
  <2>4. PackNormal(s, b, a, b, b, "RNDN") = Exactly(Normal(s, b, b, a * Pow2(b - b)))
    BY <2>1 DEF PackNormal
  <2>5. a * Pow2(b - b) = a
    <3>1. b - b = 0
      BY <2>1
    <3> QED
      BY <2>1, <3>1, Pow2Zero
  <2>6. ExactZ(n) = v
    BY <2>2, <2>4, <2>5, ExactlyOf
  <2> HIDE DEF v
  <2>7. Operand(v)
    BY <2>1, <2>3, NormalIsOperand DEF v
  <2> QED
    BY <2>6, <2>7
<1> QED
  BY <1>2, <1>3

\* Neither the exponent nor the sign of a value makes it one validate refuses.
LEMMA OtherExponentIsValid ==
    ASSUME NEW v, Valid(v), v.kind = "normal", NEW e \in Int
    PROVE  Valid([v EXCEPT !.exp = e])
<1> DEFINE s == v.sign
           p == v.prec
           m == v.mant
<1>1. v = Normal(s, p, v.exp, m)
  BY ValidIsOperand, Kinds
<1>2. s \in Sign /\ p \in Precision /\ m \in Pow2(p - 1) .. Pow2(p) - 1
  BY ValidNormal
<1> HIDE DEF s, p, m
<1>3. [v EXCEPT !.exp = e] = Normal(s, p, e, m)
  BY <1>1 DEF Normal
<1> QED
  BY <1>2, <1>3, NormalIsValid

\* A value with the sign changed is valid.
LEMMA ChangeSignIsValid ==
    ASSUME NEW v, Valid(v)
    PROVE  Valid(ChangeSign(v))
<1>1. Operand(v)
  BY ValidIsOperand
<1>2. CASE v.kind = "nan"
  BY <1>2 DEF ChangeSign
<1>3. CASE v.kind # "nan"
  <2> DEFINE c == [v EXCEPT !.sign = -v.sign]
  <2>1. ChangeSign(v) = c
    BY <1>3 DEF ChangeSign
  <2> HIDE DEF c
  <2>2. Valid(c)
    BY <1>1, <1>3, OppositeSign DEF c
  <2> QED
    BY <2>1, <2>2
<1> QED
  BY <1>2, <1>3

\* A scaled operand, rounded, is valid.
LEMMA ScaledIsValid ==
    ASSUME NEW v, Operand(v), NEW k \in Int, NEW q \in Precision, NEW rnd \in RoundingMode
    PROVE  Valid(Mul2si(v, k, q, rnd).value)
<1>1. v.kind \in {"nan", "inf", "zero", "normal"} /\ v.sign \in Sign
  BY Kinds
<1>2. CASE v.kind = "normal"
  <2> DEFINE r == PackNormal(v.sign, v.exp, v.mant, v.prec, q, rnd)
  <2>1. Valid(r.value) /\ r.value.kind = "normal"
    BY <1>1, <1>2, PackNormalIsValid
  <2>2. Mul2si(v, k, q, rnd) = Result([r.value EXCEPT !.exp = r.value.exp + k], r.ternary)
    BY <1>2 DEF Mul2si, Scaled
  <2> HIDE DEF r
  <2>3. r.value.exp + k \in Int
    BY <2>1, ValidNormal
  <2> QED
    BY <2>1, <2>2, <2>3, OtherExponentIsValid, ExactlyOf
<1>3. CASE v.kind # "normal"
  BY <1>1, <1>3, SpecialsAreValid, ExactlyOf DEF Mul2si, Scaled
<1> QED
  BY <1>2, <1>3

\* The magnitude of a signed long is an unsigned long.
LEMMA LongMagnitude ==
    ASSUME NEW z \in Int, z \in Long
    PROVE  (z >= 0 => z \in ULong) /\ (z < 0 => -z \in ULong)
<1>1. Pow2(LONG_BITS - 1) \in Nat \ {0} /\ Pow2(LONG_BITS) = 2 * Pow2(LONG_BITS - 1)
  BY LongAssumption, LengthBounds
<1> QED
  BY <1>1 DEF Long, ULong

\* Adding or subtracting an unsigned word gives a valid value,
LEMMA AddUiIsValid ==
    ASSUME NEW v, Operand(v), NEW c \in Int, c \in ULong, NEW q \in Precision, NEW rnd \in RoundingMode
    PROVE  Valid(AddUi(v, c, q, rnd).value) /\ Valid(SubUi(v, c, q, rnd).value)
<1>1. v.kind \in {"nan", "inf", "zero", "normal"} /\ v.sign \in Sign
  BY Kinds
<1>2. /\ Valid(Set(v, q, rnd).value) /\ Valid(Exactly(NAN_VALUE).value)
      /\ Valid(Exactly(Inf(v.sign, q)).value)
  BY <1>1, SetIsValid, SpecialsAreValid, ExactlyOf
<1>3. /\ Valid(Add(v, ExactZ(c), q, rnd).value) /\ Valid(Sub(v, ExactZ(c), q, rnd).value)
      /\ Valid(SetUi(c, q, rnd).value)
  BY ExactZIsOperand, AddIsValid, SubIsValid, SetZIsValid DEF SetUi
<1>4. CASE c = 0
  BY <1>2, <1>4 DEF AddUi, SubUi
<1>5. CASE c # 0
  BY <1>1, <1>2, <1>3, <1>5 DEF AddUi, SubUi
<1> QED
  BY <1>4, <1>5

\* and so does an integer of any size.
LEMMA AddZIsValid ==
    ASSUME NEW v, Operand(v), NEW z \in Int, NEW q \in Precision, NEW rnd \in RoundingMode
    PROVE  Valid(AddZ(v, z, q, rnd).value) /\ Valid(SubZ(v, z, q, rnd).value)
<1>1. CASE z \notin Long
  <2>1. Valid(Add(v, ExactZ(z), q, rnd).value) /\ Valid(Sub(v, ExactZ(z), q, rnd).value)
    BY ExactZIsOperand, AddIsValid, SubIsValid
  <2> QED
    BY <1>1, <2>1 DEF AddZ, SubZ
<1>2. CASE z \in Long
  <2>1. AddZ(v, z, q, rnd) = IF z >= 0 THEN AddUi(v, z, q, rnd) ELSE SubUi(v, -z, q, rnd)
    BY <1>2 DEF AddZ, AddSi
  <2>2. SubZ(v, z, q, rnd) = IF z >= 0 THEN SubUi(v, z, q, rnd) ELSE AddUi(v, -z, q, rnd)
    BY <1>2 DEF SubZ, SubSi
  <2>3. CASE z >= 0
    <3>1. z \in ULong
      BY <1>2, <2>3, LongMagnitude
    <3> QED
      BY <2>1, <2>2, <2>3, <3>1, AddUiIsValid
  <2>4. CASE ~(z >= 0)
    <3> DEFINE c == -z
    <3>1. c \in ULong /\ c \in Int
      BY <1>2, <2>4, LongMagnitude
    <3>2. AddZ(v, z, q, rnd) = SubUi(v, c, q, rnd) /\ SubZ(v, z, q, rnd) = AddUi(v, c, q, rnd)
      BY <2>1, <2>2, <2>4
    <3> HIDE DEF c
    <3> QED
      BY <3>1, <3>2, AddUiIsValid
  <2> QED
    BY <2>3, <2>4
<1> QED
  BY <1>1, <1>2

\* Multiplying by an unsigned word gives a valid value,
LEMMA MulUiIsValid ==
    ASSUME NEW v, Operand(v), NEW c \in Int, c \in ULong, NEW q \in Precision, NEW rnd \in RoundingMode
    PROVE  Valid(MulUi(v, c, q, rnd).value)
<1>1. v.kind \in {"nan", "inf", "zero", "normal"} /\ v.sign \in Sign
  BY Kinds
<1>2. /\ Valid(Set(v, q, rnd).value) /\ Valid(Exactly(NAN_VALUE).value)
      /\ Valid(Exactly(Inf(v.sign, q)).value) /\ Valid(Exactly(Zero(v.sign, q)).value)
  BY <1>1, SetIsValid, SpecialsAreValid, ExactlyOf
<1>3. Valid(Mul(v, ExactZ(c), q, rnd).value)
  BY ExactZIsOperand, MulIsValid
<1>4. c \in Nat
  BY DEF ULong
<1>5. Valid(Mul2si(v, BitLength[c] - 1, q, rnd).value)
  <2>1. BitLength[c] \in Nat
    BY <1>4, BitLengthCounts DEF IsLength
  <2> DEFINE k == BitLength[c] - 1
  <2>2. k \in Int
    BY <2>1
  <2> HIDE DEF k
  <2>3. Valid(Mul2si(v, k, q, rnd).value)
    BY <2>2, ScaledIsValid
  <2> QED
    BY <2>3 DEF k
<1>6. CASE v.kind = "normal"
  BY <1>2, <1>3, <1>5, <1>6 DEF MulUi
<1>7. CASE v.kind # "normal"
  BY <1>1, <1>2, <1>7 DEF MulUi
<1> QED
  BY <1>6, <1>7

\* and so does an integer of any size.
LEMMA MulZIsValid ==
    ASSUME NEW v, Operand(v), NEW z \in Int, NEW q \in Precision, NEW rnd \in RoundingMode
    PROVE  Valid(MulZ(v, z, q, rnd).value)
<1>1. CASE z \notin Long
  BY <1>1, ExactZIsOperand, MulIsValid DEF MulZ
<1>2. CASE z \in Long /\ z >= 0
  <2>1. z \in ULong
    BY <1>2, LongMagnitude
  <2>2. MulZ(v, z, q, rnd) = MulUi(v, z, q, rnd)
    BY <1>2 DEF MulZ, MulSi
  <2> QED
    BY <2>1, <2>2, MulUiIsValid
<1>3. CASE z \in Long /\ ~(z >= 0)
  <2> DEFINE c == -z
             r == MulUi(v, c, q, InvertRnd(rnd))
  <2>1. c \in ULong /\ c \in Int
    BY <1>3, LongMagnitude
  <2>2. MulZ(v, z, q, rnd) = Result(ChangeSign(r.value), -r.ternary)
    BY <1>3 DEF MulZ, MulSi
  <2>3. InvertRnd(rnd) \in RoundingMode
    BY DEF InvertRnd, RoundingMode
  <2> HIDE DEF c
  <2>4. Valid(r.value)
    BY <2>1, <2>3, MulUiIsValid
  <2> HIDE DEF r
  <2> QED
    BY <2>2, <2>4, ChangeSignIsValid, ExactlyOf
<1> QED
  BY <1>1, <1>2, <1>3

\* The integer a value with an integral part stands for.
LEMMA IntegerIsInteger ==
    ASSUME NEW v, Valid(v), IntegerP(v)
    PROVE  Integer(v) \in Int
<1>1. CASE v.kind = "zero"
  BY <1>1 DEF Integer
<1>2. CASE v.kind = "normal"
  <2> DEFINE N == IF v.exp >= v.prec THEN v.mant * Pow2(v.exp - v.prec)
                                     ELSE v.mant \div Pow2(v.prec - v.exp)
  <2>1. v.sign \in Int /\ v.prec \in Nat /\ v.exp \in Int /\ v.mant \in Nat
    BY <1>2, ValidIsOperand, NormalParts DEF Sign
  <2>4. N \in Int
    <3>1. CASE v.exp >= v.prec
      <4> DEFINE P == Pow2(v.exp - v.prec)
      <4>1. v.exp - v.prec \in Nat
        BY <2>1, <3>1
      <4>2. P \in Nat
        BY <4>1, Pow2Type
      <4>3. N = v.mant * P
        BY <3>1
      <4> HIDE DEF P, N
      <4> QED
        BY <2>1, <4>2, <4>3
    <3>2. CASE ~(v.exp >= v.prec)
      <4> DEFINE P == Pow2(v.prec - v.exp)
      <4>1. v.prec - v.exp \in Nat
        BY <2>1, <3>2
      <4>2. P \in Nat \ {0}
        BY <4>1, Pow2Type
      <4>3. N = v.mant \div P
        BY <3>2
      <4> HIDE DEF P, N
      <4> QED
        BY <2>1, <4>2, <4>3
    <3> QED
      BY <3>1, <3>2
  <2>5. Integer(v) = v.sign * N
    BY <1>2 DEF Integer
  <2> HIDE DEF N
  <2> QED
    BY <2>1, <2>4, <2>5
<1> QED
  BY <1>1, <1>2 DEF IntegerP

-----------------------------------------------------------------------------
(* The two registers.                                                      *)

\* The square root of every operand is valid: of a negative one it is NaN.
LEMMA SqrtIsValid ==
    ASSUME NEW v, Operand(v), NEW q \in Precision, NEW rnd \in RoundingMode
    PROVE  Valid(Sqrt(v, q, rnd).value)
<1>1. v.kind \in {"nan", "inf", "zero", "normal"} /\ v.sign \in Sign /\ 1 \in Sign
  BY Kinds DEF Sign
<1>2. CASE v.kind = "normal" /\ v.sign = 1
  <2>1. RoundedTo(Sqrt(v, q, rnd), 1, q, rnd, RootMant(v, q), RootLow(v, q), 1)
    BY <1>2, SqrtRounds
  <2> QED
    BY <1>1, <2>1, RoundedToIsValid
<1>3. CASE ~(v.kind = "normal" /\ v.sign = 1)
  BY <1>1, <1>3, SpecialsAreValid, ExactlyOf DEF Sqrt, Sign
<1> QED
  BY <1>2, <1>3

\* The numbers and specials the registers start from are valid.
LEMMA ValuesAreValid ==
    ASSUME NEW v \in Values
    PROVE  Valid(v)
<1>1. CASE v = NAN_VALUE
  BY <1>1, SpecialsAreValid
<1>2. CASE \E p \in Precision : v \in Normals(p) \cup Specials(p)
  <2>1. PICK p \in Precision : v \in Normals(p) \cup Specials(p)
    BY <1>2
  <2>2. CASE v \in Specials(p)
    BY <2>2, SpecialsAreValid DEF Specials
  <2>3. CASE v \in Normals(p)
    <3>1. PICK s \in Sign, e \in EMIN_DEFAULT..EMAX_DEFAULT, m \in Pow2(p - 1) .. Pow2(p) - 1 :
             v = Normal(s, p, e, m)
      BY <2>3 DEF Normals
    <3>2. e \in Int
      BY RangeAssumption DEF EMIN_DEFAULT
    <3> QED
      BY <3>1, <3>2, NormalIsValid
  <2> QED
    BY <2>1, <2>2, <2>3
<1> QED
  BY <1>1, <1>2 DEF Values, ValuesUpTo, Precision

\* Both registers hold valid values after any sequence of operations: a mantissa
\* of exactly the precision's bits, a sign, a precision in range (validate of
\* core.ts), for every bound on precisions, exponents and integers.
THEOREM RegistersAreValid == Spec => []TypeOK
<1>1. Init => TypeOK
  BY ValuesAreValid DEF Init, TypeOK
<1>2. TypeOK /\ [Next]_vars => TypeOK'
  <2> SUFFICES ASSUME TypeOK, [Next]_vars PROVE TypeOK'
    OBVIOUS
  <2>0. /\ Valid(x) /\ Valid(y) /\ Operand(x) /\ Operand(y) /\ 1 \in Precision
        /\ "RNDN" \in RoundingMode
    BY ValidIsOperand, PrecAssumption DEF TypeOK, Precision, RoundingMode
  <2> USE <2>0 DEF TypeOK, Store
  <2>1. CASE mpfr_add
    BY <2>1, AddIsValid DEF mpfr_add, Binary
  <2>2. CASE mpfr_sub
    BY <2>2, SubIsValid DEF mpfr_sub, Binary
  <2>3. CASE mpfr_mul
    BY <2>3, MulIsValid DEF mpfr_mul, Binary
  <2>4. CASE mpfr_div
    BY <2>4, DivIsValid DEF mpfr_div, Binary
  <2>5. CASE mpfr_sqrt
    BY <2>5, SqrtIsValid DEF mpfr_sqrt
  <2>6. CASE mpfr_set \/ mpfr_neg \/ mpfr_abs
    BY <2>6, SetIsValid DEF mpfr_set, mpfr_neg, mpfr_abs
  <2>7. CASE mpfr_copysign
    BY <2>7, CopySignIsValid DEF mpfr_copysign, Binary
  <2>8. CASE mpfr_max \/ mpfr_min
    BY <2>8, MaxIsValid DEF mpfr_max, mpfr_min, Binary
  <2>9. CASE mpfr_check_range
    BY <2>9, CheckRangeIsValid DEF mpfr_check_range
  <2>10. CASE mpfr_nextabove \/ mpfr_nextbelow
    BY <2>10, NextIsValid DEF mpfr_nextabove, mpfr_nextbelow
  <2>11. CASE mpfr_nexttoward
    BY <2>11, NextTowardIsValid DEF mpfr_nexttoward
  <2>12. CASE mpfr_swap
    BY <2>12 DEF mpfr_swap
  <2>13. CASE mpfr_dim
    BY <2>13, DimIsValid DEF mpfr_dim, Binary
  <2>14. CASE mpfr_rint \/ mpfr_round
    BY <2>14, RintIsValid DEF mpfr_rint, mpfr_round
  <2>15. CASE mpfr_frac
    BY <2>15, FracIsValid DEF mpfr_frac
  <2>16. CASE mpfr_modf
    BY <2>16, ModfIsValid DEF mpfr_modf
  <2>17. CASE mpfr_add_z \/ mpfr_sub_z
    <3>1. IntegerP(y) /\ Integer(y) \in Int
      BY <2>17, IntegerIsInteger DEF mpfr_add_z, mpfr_sub_z, WithInteger
    <3> DEFINE z == Integer(y)
    <3>2. \A q \in Precision, rnd \in RoundingMode :
             Valid(AddZ(x, z, q, rnd).value) /\ Valid(SubZ(x, z, q, rnd).value)
      BY <3>1, AddZIsValid
    <3> QED
      BY <2>17, <3>2 DEF mpfr_add_z, mpfr_sub_z, WithInteger
  <2>18. CASE mpfr_mul_z \/ mpfr_set_z
    <3>1. IntegerP(y) /\ Integer(y) \in Int
      BY <2>18, IntegerIsInteger DEF mpfr_mul_z, mpfr_set_z, WithInteger
    <3> DEFINE z == Integer(y)
    <3>2. \A q \in Precision, rnd \in RoundingMode :
             Valid(MulZ(x, z, q, rnd).value) /\ Valid(SetZ(z, q, rnd).value)
      BY <3>1, MulZIsValid, SetZIsValid
    <3> QED
      BY <2>18, <3>2 DEF mpfr_mul_z, mpfr_set_z, WithInteger
  <2>19. CASE mpfr_mul_2si
    <3>1. \A k \in -SCALE..SCALE : k \in Int
      BY BoundsAssumption
    <3> QED
      BY <2>19, <3>1, ScaledIsValid DEF mpfr_mul_2si
  <2>20. CASE UNCHANGED vars
    BY <2>20 DEF vars
  <2> QED
    BY <2>1, <2>2, <2>3, <2>4, <2>5, <2>6, <2>7, <2>8, <2>9, <2>10, <2>11, <2>12, <2>13, <2>14,
       <2>15, <2>16, <2>17, <2>18, <2>19, <2>20 DEF Next
<1> QED
  BY <1>1, <1>2, PTL DEF Spec

\* mpfr_mul is correctly rounded in every state the calculator reaches, at every
\* precision and in every mode, with the ternary value of the error.
THEOREM ProductsAreRounded == Spec => []MulIsCorrect
<1>1. TypeOK => MulIsCorrect
  <2> SUFFICES ASSUME TypeOK, x.kind = "normal", y.kind = "normal",
                      NEW q \in Precision, NEW rnd \in RoundingMode
               PROVE  CorrectlyRounded(Mul(x, y, q, rnd), q, rnd, LAMBDA n, k : ProductCmp(x, y, n, k))
    BY DEF MulIsCorrect
  <2>1. ProductRounded(x, y, q, rnd)
    BY ValidIsOperand, MulCorrect DEF TypeOK
  <2> QED
    BY <2>1 DEF ProductRounded
<1> QED
  BY <1>1, RegistersAreValid, PTL

\* So is mpfr_div, whose quotient is never finite in general: the remainder alone
\* decides the rounding.
THEOREM QuotientsAreRounded == Spec => []DivIsCorrect
<1>1. TypeOK => DivIsCorrect
  <2> SUFFICES ASSUME TypeOK, x.kind = "normal", y.kind = "normal",
                      NEW q \in Precision, NEW rnd \in RoundingMode
               PROVE  CorrectlyRounded(Div(x, y, q, rnd), q, rnd, LAMBDA n, k : QuotientCmp(x, y, n, k))
    BY DEF DivIsCorrect
  <2>1. QuotientRounded(x, y, q, rnd)
    BY ValidIsOperand, DivCorrect DEF TypeOK
  <2> QED
    BY <2>1 DEF QuotientRounded
<1> QED
  BY <1>1, RegistersAreValid, PTL

\* So is mpfr_add, under full and partial cancellation and with operands
\* arbitrarily far apart; an exact cancellation gives a zero with ternary 0.
THEOREM SumsAreRounded == Spec => []AddIsCorrect
<1>1. TypeOK => AddIsCorrect
  <2> SUFFICES ASSUME TypeOK, Finite(x), Finite(y), NEW q \in Precision, NEW rnd \in RoundingMode
               PROVE  LET res == Add(x, y, q, rnd)
                      IN  IF SumCmp(x, y, 0, 0) = 0
                          THEN res.value.kind = "zero" /\ res.ternary = 0
                          ELSE CorrectlyRounded(res, q, rnd, LAMBDA n, k : SumCmp(x, y, n, k))
    BY DEF AddIsCorrect
  <2>1. SumRounded(x, y, q, rnd)
    BY ValidIsOperand, AddCorrect DEF TypeOK
  <2> QED
    BY <2>1 DEF SumRounded
<1> QED
  BY <1>1, RegistersAreValid, PTL

\* So is mpfr_sqrt, an irrational root rounded from its integer part and one
\* sticky bit.
THEOREM RootsAreRounded == Spec => []SqrtIsCorrect
<1>1. TypeOK => SqrtIsCorrect
  <2> SUFFICES ASSUME TypeOK, x.kind = "normal", x.sign = 1,
                      NEW q \in Precision, NEW rnd \in RoundingMode
               PROVE  CorrectlyRounded(Sqrt(x, q, rnd), q, rnd, LAMBDA n, k : RootCmp(x, n, k))
    BY DEF SqrtIsCorrect
  <2>1. RootRounded(x, q, rnd)
    BY ValidIsOperand, SqrtCorrect DEF TypeOK
  <2> QED
    BY <2>1 DEF RootRounded
<1> QED
  BY <1>1, RegistersAreValid, PTL

=============================================================================
